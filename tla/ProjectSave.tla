---------------------------- MODULE ProjectSave ----------------------------
(***************************************************************************)
(* A project on disk: ProjectSerializer::save step by step                 *)
(* (app/src/project_serializer.cpp), with the copies of external RF data   *)
(* it makes in rf_data/, and the project file and the dirty flag of        *)
(* RfSimulatorApp::saveProject and loadProject (app/src/app.cpp).          *)
(*                                                                         *)
(* Every step of a save is a call of the operating system and may fail; a  *)
(* simulator may end between any two of them and be started again.  With   *)
(* more than one element in Simulators, several work in one directory.     *)
(*                                                                         *)
(* A circuit is the RF data it refers to: contents of files outside the    *)
(* project's directory and copies inside it.  A copy is named after the    *)
(* hash of its contents, so a name of rf_data is a content; "other" is a   *)
(* file whose contents do not fit its name.  The check of a leftover       *)
(* temporary file and its removal are one step, as are a check and the     *)
(* removal of the simulator's own (the source names what is left of both   *)
(* races).  The names of the copies' own temporary files are unique, and   *)
(* nothing ever reads one that was left behind: they are not kept here.    *)
(***************************************************************************)
EXTENDS FiniteSets

CONSTANTS
  Simulators,  \* the processes of the program
  Projects,    \* the paths of project files, all in one directory
  Contents,    \* the contents of external RF data files
  NoFile,      \* there is nothing of this name
  Folder,      \* not a regular file: a folder or a link
  NoProject    \* no project file is open

VARIABLES
  \* on disk
  project,   \* what is at each project's path
  temp,      \* what is at "<path>.tmp"
  rfData,    \* rf_data/: NoFile, "folder", or Folder (not a real directory)
  copy,      \* the copies in rf_data/
  \* of each simulator
  circuit, path, clean, save
vars == <<project, temp, rfData, copy, circuit, path, clean, save>>
disk == <<project, temp, rfData, copy>>
editor == <<circuit, path, clean>>

Circuits == [outside : SUBSET Contents, inside : SUBSET Contents]
References(c) == c.outside \cup c.inside
Empty == [outside |-> {}, inside |-> {}]
\* A project file: who writes it, what it refers to, and whether it was
\* written and flushed to its end.  Nobody writes to a file of "none" any more.
ProjectFiles == [by : Simulators \cup {"none"}, refers : SUBSET Contents, whole : BOOLEAN]
Steps == {"idle", "package", "open", "stale", "write", "rename", "discard", "undo"}
\* A save: its step, its path, what is still to be packaged, what it made in
\* rf_data/ and whether it made rf_data/, and whether it removed a leftover.
Saves == [step : Steps, of : Projects \cup {NoProject}, left : SUBSET Contents,
          made : SUBSET Contents, madeFolder : BOOLEAN, retried : BOOLEAN]
Idle == [step |-> "idle", of |-> NoProject, left |-> {}, made |-> {}, madeFolder |-> FALSE,
         retried |-> FALSE]

ASSUME SaveAssumption ==
  /\ NoFile \notin ProjectFiles \cup {Folder, "folder", "good", "other"}
  /\ Folder \notin ProjectFiles
  /\ Simulators # {}

Init ==
  /\ project = [t \in Projects |-> NoFile]
  /\ temp \in [Projects -> {NoFile, Folder}]
  /\ rfData \in {NoFile, "folder", Folder}
  /\ copy \in [Contents -> IF rfData = "folder" THEN {NoFile, "good", "other"} ELSE {NoFile}]
  /\ circuit = [s \in Simulators |-> Empty]
  /\ path = [s \in Simulators |-> NoProject]
  /\ clean = [s \in Simulators |-> TRUE]
  /\ save = [s \in Simulators |-> Idle]

-----------------------------------------------------------------------------
(* The user: an edit of the circuit, and Open. *)

Free(s) == save[s] = Idle
IsFile(f) == f \notin {NoFile, Folder}

\* A component takes a data file from outside, or drops its file.
Edited(k, c) ==
  IF c \in References(k) THEN [outside |-> k.outside \ {c}, inside |-> k.inside \ {c}]
                         ELSE [k EXCEPT !.outside = @ \cup {c}]
Edit(s) ==
  /\ Free(s)
  /\ \E c \in Contents : circuit' = [circuit EXCEPT ![s] = Edited(@, c)]
  /\ clean' = [clean EXCEPT ![s] = FALSE]
  /\ UNCHANGED <<disk, path, save>>

\* loadProject; what cannot be parsed leaves the project that is open as it is.
Load(s, t) ==
  /\ Free(s) /\ IsFile(project[t]) /\ project[t].whole
  /\ circuit' = [circuit EXCEPT ![s] = [outside |-> {}, inside |-> project[t].refers]]
  /\ path' = [path EXCEPT ![s] = t]
  /\ clean' = [clean EXCEPT ![s] = TRUE]
  /\ UNCHANGED <<disk, save>>

-----------------------------------------------------------------------------
(* The save of simulator s: first the RF data. *)

At(s, step) == save[s].step = step
StepTo(s, step) == save' = [save EXCEPT ![s].step = step]
StartSave(s, t) ==
  /\ Free(s)
  /\ save' = [save EXCEPT ![s] = [Idle EXCEPT !.step = "package", !.of = t,
                                              !.left = References(circuit[s])]]
  /\ UNCHANGED <<disk, editor>>

\* A file inside the project is referred to as it is, and must be there.
KeepInside(s) ==
  /\ At(s, "package")
  /\ \E c \in save[s].left \cap circuit[s].inside :
       /\ copy[c] # NoFile
       /\ save' = [save EXCEPT ![s].left = @ \ {c}]
  /\ UNCHANGED <<disk, editor>>
MakeFolder(s) ==
  /\ At(s, "package") /\ save[s].left \cap circuit[s].outside # {} /\ rfData = NoFile
  /\ rfData' = "folder"
  /\ save' = [save EXCEPT ![s].madeFolder = TRUE]
  /\ UNCHANGED <<project, temp, copy, editor>>
\* A copy that is there already is used when it is the same byte for byte.
Usable(c) == copy[c] = "good"
ReuseCopy(s) ==
  /\ At(s, "package") /\ rfData = "folder"
  /\ \E c \in save[s].left \cap circuit[s].outside :
       /\ Usable(c)
       /\ save' = [save EXCEPT ![s].left = @ \ {c}]
  /\ UNCHANGED <<disk, editor>>
\* The file is copied beside its destination, the hash of the copy is compared,
\* and a hard link, which replaces nothing, gives it its name.
Installed(w, c) == [w EXCEPT !.left = @ \ {c}, !.made = @ \cup {c}]
InstallCopy(s) ==
  /\ At(s, "package") /\ rfData = "folder"
  /\ \E c \in save[s].left \cap circuit[s].outside :
       /\ copy[c] = NoFile
       /\ copy' = [copy EXCEPT ![c] = "good"]
       /\ save' = [save EXCEPT ![s] = Installed(@, c)]
  /\ UNCHANGED <<project, temp, rfData, editor>>
Packaged(s) ==
  /\ At(s, "package") /\ save[s].left = {}
  /\ StepTo(s, "open") /\ UNCHANGED <<disk, editor>>

-----------------------------------------------------------------------------
(* Then the file. *)

\* openExclusiveProjectTemp
OpenTemp(s) ==
  /\ At(s, "open") /\ temp[save[s].of] = NoFile
  /\ temp' = [temp EXCEPT ![save[s].of] =
                [by |-> s, refers |-> References(circuit[s]), whole |-> FALSE]]
  /\ StepTo(s, "write") /\ UNCHANGED <<project, rfData, copy, editor>>
NameTaken(s) ==
  /\ At(s, "open") /\ temp[save[s].of] # NoFile /\ ~save[s].retried
  /\ StepTo(s, "stale") /\ UNCHANGED <<disk, editor>>
\* removeStaleProjectTemp: a regular file goes; the open is tried once more.
RemoveStale(s) ==
  /\ At(s, "stale") /\ temp[save[s].of] # Folder
  /\ temp' = [temp EXCEPT ![save[s].of] = NoFile]
  /\ save' = [save EXCEPT ![s] = [@ EXCEPT !.step = "open", !.retried = TRUE]]
  /\ UNCHANGED <<project, rfData, copy, editor>>

\* What s wrote reaches its file, whatever name that has by now.
Flushed(f, s) == IF IsFile(f) /\ f.by = s THEN [f EXCEPT !.whole = TRUE] ELSE f
\* Mutant: a short write goes unnoticed
WriteUnchecked(s) ==
  /\ At(s, "write") /\ StepTo(s, "rename") /\ UNCHANGED <<disk, editor>>
WriteTemp(s) ==
  /\ At(s, "write")
  /\ temp' = [t \in Projects |-> Flushed(temp[t], s)]
  /\ project' = [t \in Projects |-> Flushed(project[t], s)]
  /\ StepTo(s, "rename") /\ UNCHANGED <<rfData, copy, editor>>

Closed(f, s) == IF IsFile(f) /\ f.by = s THEN [f EXCEPT !.by = "none"] ELSE f
\* The temporary file replaces the project; saveProject adopts the path.
Rename(s) ==
  LET t == save[s].of IN
  /\ At(s, "rename") /\ IsFile(temp[t])
  /\ project' = [project EXCEPT ![t] = Closed(temp[t], s)]
  /\ temp' = [temp EXCEPT ![t] = NoFile]
  /\ path' = [path EXCEPT ![s] = t]
  /\ clean' = [clean EXCEPT ![s] = TRUE]
  /\ save' = [save EXCEPT ![s] = Idle]
  /\ UNCHANGED <<rfData, copy, circuit>>

-----------------------------------------------------------------------------
(* Failures. *)

\* Every call may fail; once the temporary file is open it has to go first.
AfterFailure == [package |-> "undo", open |-> "undo", stale |-> "undo",
                 write |-> "discard", rename |-> "discard"]
Fail(s) ==
  /\ save[s].step \in DOMAIN AfterFailure
  /\ StepTo(s, AfterFailure[save[s].step])
  /\ UNCHANGED <<disk, editor>>
\* discardCreatedTemp: only the file this save created.
Discard(s) ==
  LET t == save[s].of IN
  /\ At(s, "discard")
  /\ temp' = IF IsFile(temp[t]) /\ temp[t].by = s THEN [temp EXCEPT ![t] = NoFile] ELSE temp
  /\ StepTo(s, "undo") /\ UNCHANGED <<project, rfData, copy, editor>>
\* failSave: the copies this save made are removed, and the folder if it made it
\* and nothing is in it.  What cannot be removed stays.
\* Mutant: the copies found there go too
UndoneAll(s) == circuit[s].outside
Undone(s) == save[s].made
Undo(s) ==
  /\ At(s, "undo")
  /\ \E kept \in SUBSET Undone(s) :
       copy' = [c \in Contents |-> IF c \in Undone(s) \ kept THEN NoFile ELSE copy[c]]
  /\ rfData' = IF save[s].madeFolder /\ \A c \in Contents : copy'[c] = NoFile
                 THEN NoFile ELSE rfData
  /\ save' = [save EXCEPT ![s] = Idle]
  /\ temp' = [t \in Projects |-> Closed(temp[t], s)]
  /\ project' = [t \in Projects |-> Closed(project[t], s)]
  /\ UNCHANGED editor

\* The program ends, at any point, and is started again.
Restart(s) ==
  /\ temp' = [t \in Projects |-> Closed(temp[t], s)]
  /\ project' = [t \in Projects |-> Closed(project[t], s)]
  /\ circuit' = [circuit EXCEPT ![s] = Empty]
  /\ path' = [path EXCEPT ![s] = NoProject]
  /\ clean' = [clean EXCEPT ![s] = TRUE]
  /\ save' = [save EXCEPT ![s] = Idle]
  /\ UNCHANGED <<rfData, copy>>

Next ==
  \E s \in Simulators :
    \/ Edit(s) \/ KeepInside(s) \/ MakeFolder(s) \/ ReuseCopy(s) \/ InstallCopy(s) \/ Packaged(s)
    \/ OpenTemp(s) \/ NameTaken(s) \/ RemoveStale(s) \/ WriteTemp(s) \/ Rename(s)
    \/ Fail(s) \/ Discard(s) \/ Undo(s) \/ Restart(s)
    \/ \E t \in Projects : Load(s, t) \/ StartSave(s, t)

Spec == Init /\ [][Next]_vars

-----------------------------------------------------------------------------
(* Properties. *)

\* Types, and what the steps of a save know: a project is never a link or
\* a folder, a save has its own temporary file while it writes, and what a save
\* made in rf_data/ is there until the save is over (project_serializer.cpp:1049).
TypeOK ==
  /\ project \in [Projects -> ProjectFiles \cup {NoFile}]
  /\ temp \in [Projects -> ProjectFiles \cup {NoFile, Folder}]
  /\ rfData \in {NoFile, "folder", Folder}
  /\ copy \in [Contents -> {NoFile, "good", "other"}]
  /\ circuit \in [Simulators -> Circuits]
  /\ path \in [Simulators -> Projects \cup {NoProject}]
  /\ clean \in [Simulators -> BOOLEAN]
  /\ save \in [Simulators -> Saves]
  /\ \A s \in Simulators : \A c \in save[s].made : copy[c] = "good"

\* A project file is always one that was written to its end, whenever the program
\* ends and whichever call fails (the atomic save, project_serializer.cpp:1078).
ProjectsAreWhole == \A t \in Projects : IsFile(project[t]) => project[t].whole

\* The RF data a project refers to is in rf_data/, with the contents it was saved
\* with: no save that failed, stopped or came later took it away
\* (packageExternalProjectData and removeCreatedProjectData).
ProjectsFindTheirData ==
  \A t \in Projects :
    IsFile(project[t]) => \A c \in project[t].refers : copy[c] = "good"

\* A project without unsaved changes is on disk as it is in the program: a save
\* that failed leaves it modified, and on its previous path (app.cpp:869).
CleanIsSaved ==
  \A s \in Simulators :
    clean[s] /\ path[s] # NoProject =>
      /\ IsFile(project[path[s]])
      /\ project[path[s]].refers = References(circuit[s])

\* After the one retry the name is free: what a save left behind when
\* the program ended never keeps a later one from saving (issue #113).
LeftoversDoNotBlock ==
  \A s \in Simulators : At(s, "open") /\ save[s].retried => temp[save[s].of] = NoFile

\* A saved project finds its RF data, is what a project without unsaved changes shows,
\* and is never kept from being saved again by what an earlier save left behind.
SavesAreSound == TypeOK /\ ProjectsFindTheirData /\ CleanIsSaved /\ LeftoversDoNotBlock
=============================================================================
