------------------------- MODULE ProjectSaveProofs -------------------------
(***************************************************************************)
(* Proofs about ProjectSave.  The types hold for any number of simulators; *)
(* what a save promises of the files holds for any number of projects and  *)
(* contents as long as one simulator at a time works in the directory      *)
(* (with two the rename of one may install what the other has not yet      *)
(* written).                                                               *)
(*                                                                         *)
(* The argument follows one save: what it has packaged is in rf_data/,     *)
(* what it made there nobody refers to yet, and from the moment it opened  *)
(* the temporary file that file is its own and refers to the circuit,      *)
(* which does not change before the save is over.                          *)
(***************************************************************************)
EXTENDS MCFiles, TLAPS

OneSimulator == \A r, s \in Simulators : r = s

\* No two saves made the same copy.
MadeApart ==
  \A r, s \in Simulators : r # s => save[r].made \cap save[s].made = {}
TypeInv == TypeOK /\ MadeApart

\* What a save knows in each of its steps.
SaveInv(s) ==
  /\ At(s, "idle") => save[s] = Idle
  /\ ~At(s, "idle") => save[s].of \in Projects
  /\ At(s, "package") =>
       /\ ~save[s].retried
       /\ \A c \in References(circuit[s]) \ save[s].left : copy[c] = "good"
  /\ save[s].step \in {"open", "stale", "write", "rename"} =>
       \A c \in References(circuit[s]) : copy[c] = "good"
  /\ At(s, "open") /\ save[s].retried => temp[save[s].of] = NoFile
  /\ save[s].step \in {"write", "rename"} =>
       /\ temp[save[s].of] \in ProjectFiles
       /\ temp[save[s].of].by = s
       /\ temp[save[s].of].refers = References(circuit[s])
  /\ At(s, "rename") => temp[save[s].of].whole

\* What projects and circuits refer to inside the directory is there, and no save
\* under way will take it away.
Kept(s, c) == copy[c] = "good" /\ c \notin save[s].made
DataInv(s) ==
  /\ \A t \in Projects : IsFile(project[t]) => \A c \in project[t].refers : Kept(s, c)
  /\ \A c \in circuit[s].inside : Kept(s, c)

\* A project that reads as saved is the one on disk.
CleanInv(s) ==
  clean[s] /\ path[s] # NoProject =>
    IsFile(project[path[s]]) /\ project[path[s]].refers = References(circuit[s])

FilesInv ==
  /\ ProjectsAreWhole
  /\ \A s \in Simulators : SaveInv(s) /\ DataInv(s) /\ CleanInv(s)

-----------------------------------------------------------------------------
(* Types *)

LEMMA IdleType == Idle \in Saves
BY DEF Idle, Saves, Steps

\* A step of one save leaves the others alone.
LEMMA OneSave ==
  ASSUME save \in [Simulators -> Saves], NEW s \in Simulators, NEW n \in Saves,
         save' = [save EXCEPT ![s] = n]
  PROVE  /\ save' \in [Simulators -> Saves]
         /\ save'[s] = n
         /\ \A r \in Simulators \ {s} : save'[r] = save[r]
OBVIOUS

LEMMA InitTypes == Init => TypeInv
BY IdleType DEF Init, TypeInv, TypeOK, MadeApart, Idle, Empty, Circuits

LEMMA FileTypes ==
  ASSUME NEW s \in Simulators, NEW f \in ProjectFiles \cup {NoFile, Folder}
  PROVE  /\ Flushed(f, s) \in ProjectFiles \cup {NoFile, Folder}
         /\ Closed(f, s) \in ProjectFiles \cup {NoFile, Folder}
         /\ f # Folder => Flushed(f, s) # Folder /\ Closed(f, s) # Folder
BY SaveAssumption DEF Flushed, Closed, ProjectFiles, IsFile

\* A step of the user, or one that only moves a save on.
LEMMA QuietTypes ==
  ASSUME TypeInv, NEW s \in Simulators,
         \/ Edit(s) \/ KeepInside(s) \/ ReuseCopy(s) \/ Packaged(s) \/ NameTaken(s) \/ Fail(s)
         \/ \E t \in Projects : Load(s, t) \/ StartSave(s, t)
  PROVE  TypeInv'
<1>1. ASSUME NEW n \in Saves, save' = [save EXCEPT ![s] = n], n.made = save[s].made \/ n.made = {},
             UNCHANGED <<disk, editor>>
      PROVE  TypeInv'
  BY <1>1 DEF TypeInv, TypeOK, MadeApart, disk, editor
<1>2. \A x \in Steps : [save[s] EXCEPT !.step = x] \in Saves
                       /\ [save[s] EXCEPT !.step = x].made = save[s].made
  BY DEF TypeInv, TypeOK, Saves
<1>3. \A c \in Contents : [save[s] EXCEPT !.left = @ \ {c}] \in Saves
                          /\ [save[s] EXCEPT !.left = @ \ {c}].made = save[s].made
  BY DEF TypeInv, TypeOK, Saves
<1>4. CASE Edit(s)
  <2>1. \A k \in Circuits, c \in Contents : Edited(k, c) \in Circuits
    BY DEF Circuits, Edited
  <2>2. circuit' \in [Simulators -> Circuits]
    BY <1>4, <2>1 DEF Edit, TypeInv, TypeOK
  <2> QED BY <1>4, <2>2 DEF Edit, TypeInv, TypeOK, MadeApart, disk
<1>5. CASE KeepInside(s)
  BY <1>1, <1>3, <1>5 DEF KeepInside, TypeInv, TypeOK, Circuits, Saves
<1>6. CASE ReuseCopy(s)
  BY <1>1, <1>3, <1>6 DEF ReuseCopy, TypeInv, TypeOK, Circuits, Saves
<1>7. CASE Packaged(s) \/ NameTaken(s) \/ Fail(s)
  <2>1. \A x \in DOMAIN AfterFailure : AfterFailure[x] \in Steps
    BY DEF AfterFailure, Steps
  <2>2. PICK x \in Steps : StepTo(s, x) /\ UNCHANGED <<disk, editor>>
    BY <1>7, <2>1 DEF Packaged, NameTaken, Fail, Steps
  <2>3. save' = [save EXCEPT ![s] = [save[s] EXCEPT !.step = x]]
    BY <2>2 DEF StepTo
  <2> QED BY <1>1, <1>2, <2>2, <2>3
<1>8. ASSUME NEW t \in Projects, Load(s, t) PROVE TypeInv'
  <2>1. [outside |-> {}, inside |-> project[t].refers] \in Circuits
    BY <1>8 DEF Load, TypeInv, TypeOK, Circuits, ProjectFiles, IsFile
  <2> QED BY <1>8, <2>1 DEF Load, TypeInv, TypeOK, MadeApart, disk
<1>9. ASSUME NEW t \in Projects, StartSave(s, t) PROVE TypeInv'
  <2> DEFINE n == [Idle EXCEPT !.step = "package", !.of = t, !.left = References(circuit[s])]
  <2>1. n \in Saves /\ n.made = {}
    BY DEF Idle, Saves, Steps, References, TypeInv, TypeOK, Circuits
  <2> QED BY <1>1, <1>9, <2>1 DEF StartSave
<1> QED BY <1>4, <1>5, <1>6, <1>7, <1>8, <1>9

\* A step that touches the disk.
LEMMA DiskTypes ==
  ASSUME TypeInv, NEW s \in Simulators,
         \/ MakeFolder(s) \/ InstallCopy(s) \/ OpenTemp(s) \/ RemoveStale(s) \/ WriteTemp(s)
         \/ Rename(s) \/ Discard(s)
  PROVE  TypeInv'
<1> USE SaveAssumption
<1>1. \A x \in Steps : [save[s] EXCEPT !.step = x] \in Saves
                       /\ [save[s] EXCEPT !.step = x].made = save[s].made
  BY SMTT(30) DEF TypeInv, TypeOK, Saves
<1>2. CASE MakeFolder(s)
  <2>1. save' \in [Simulators -> Saves] /\ \A r \in Simulators : save'[r].made = save[r].made
    <3>1. [save[s] EXCEPT !.madeFolder = TRUE] \in Saves
          /\ [save[s] EXCEPT !.madeFolder = TRUE].made = save[s].made
      BY ZenonT(30) DEF TypeInv, TypeOK, Saves
    <3> QED BY <1>2, <3>1, OneSave DEF MakeFolder, TypeInv, TypeOK
  <2> QED BY <1>2, <2>1 DEF MakeFolder, TypeInv, TypeOK, MadeApart, editor
<1>3. CASE InstallCopy(s)
  <2>1. PICK c \in save[s].left \cap circuit[s].outside :
          /\ copy[c] = NoFile
          /\ copy' = [copy EXCEPT ![c] = "good"]
          /\ save' = [save EXCEPT ![s] = Installed(@, c)]
    BY <1>3 DEF InstallCopy
  <2>2. c \in Contents
    BY DEF TypeInv, TypeOK, Saves
  <2>3. save' \in [Simulators -> Saves]
        /\ save'[s].made = save[s].made \cup {c}
        /\ \A r \in Simulators \ {s} : save'[r].made = save[r].made
    <3>1. Installed(save[s], c) \in Saves /\ Installed(save[s], c).made = save[s].made \cup {c}
      BY <2>2, ZenonT(30) DEF TypeInv, TypeOK, Saves, Installed
    <3> QED BY <2>1, <3>1, OneSave DEF TypeInv, TypeOK
  <2>4. \A r \in Simulators : c \notin save[r].made
    BY <2>1 DEF TypeInv, TypeOK
  <2>5. MadeApart'
    BY <2>3, <2>4 DEF TypeInv, MadeApart
  <2>6. copy' \in [Contents -> {NoFile, "good", "other"}]
        /\ \A r \in Simulators : \A d \in save'[r].made : copy'[d] = "good"
    BY <2>1, <2>2, <2>3 DEF TypeInv, TypeOK, Saves
  <2> QED BY <1>3, <2>3, <2>5, <2>6 DEF InstallCopy, TypeInv, TypeOK, editor
<1>4. CASE OpenTemp(s)
  <2>1. References(circuit[s]) \in SUBSET Contents
    BY DEF References, TypeInv, TypeOK, Circuits
  <2>2. [by |-> s, refers |-> References(circuit[s]), whole |-> FALSE] \in ProjectFiles
    BY <2>1 DEF ProjectFiles
  <2>3. save' \in [Simulators -> Saves] /\ \A r \in Simulators : save'[r].made = save[r].made
    BY <1>1, <1>4 DEF OpenTemp, StepTo, Steps, TypeInv, TypeOK
  <2> QED BY <1>4, <2>2, <2>3 DEF OpenTemp, TypeInv, TypeOK, MadeApart, editor
<1>5. CASE RemoveStale(s)
  <2>1. save' \in [Simulators -> Saves] /\ \A r \in Simulators : save'[r].made = save[r].made
    <3>1. [save[s] EXCEPT !.step = "open", !.retried = TRUE] \in Saves
          /\ [save[s] EXCEPT !.step = "open", !.retried = TRUE].made = save[s].made
      BY ZenonT(30) DEF TypeInv, TypeOK, Saves, Steps
    <3> QED BY <1>5, <3>1, OneSave DEF RemoveStale, TypeInv, TypeOK
  <2> QED BY <1>5, <2>1 DEF RemoveStale, TypeInv, TypeOK, MadeApart, editor
<1>6. CASE WriteTemp(s)
  <2>1. save' \in [Simulators -> Saves] /\ \A r \in Simulators : save'[r].made = save[r].made
    BY <1>1, <1>6 DEF WriteTemp, StepTo, Steps, TypeInv, TypeOK
  <2>2. /\ temp' \in [Projects -> ProjectFiles \cup {NoFile, Folder}]
        /\ project' \in [Projects -> ProjectFiles \cup {NoFile}]
    BY <1>6, FileTypes DEF WriteTemp, TypeInv, TypeOK
  <2> QED BY <1>6, <2>1, <2>2 DEF WriteTemp, TypeInv, TypeOK, MadeApart, editor
<1>7. CASE Rename(s)
  <2>1. save' \in [Simulators -> Saves] /\ save'[s].made = {}
        /\ \A r \in Simulators \ {s} : save'[r].made = save[r].made
    BY <1>7, IdleType DEF Rename, Idle, TypeInv, TypeOK
  <2>2. save[s].of \in Projects \cup {NoProject}
    BY DEF TypeInv, TypeOK, Saves
  <2>3. project' \in [Projects -> ProjectFiles \cup {NoFile}]
    BY <1>7, <2>2, FileTypes DEF Rename, TypeInv, TypeOK, IsFile
  <2>4. /\ temp' \in [Projects -> ProjectFiles \cup {NoFile, Folder}]
        /\ path' \in [Simulators -> Projects \cup {NoProject}]
        /\ clean' \in [Simulators -> BOOLEAN]
    BY <1>7, <2>2 DEF Rename, TypeInv, TypeOK
  <2> QED BY <1>7, <2>1, <2>3, <2>4 DEF Rename, TypeInv, TypeOK, MadeApart
<1>8. CASE Discard(s)
  <2>1. save' \in [Simulators -> Saves] /\ \A r \in Simulators : save'[r].made = save[r].made
    BY <1>1, <1>8 DEF Discard, StepTo, Steps, TypeInv, TypeOK
  <2>2. temp' \in [Projects -> ProjectFiles \cup {NoFile, Folder}]
    BY <1>8 DEF Discard, TypeInv, TypeOK
  <2> QED BY <1>8, <2>1, <2>2 DEF Discard, TypeInv, TypeOK, MadeApart, editor
<1> QED BY <1>2, <1>3, <1>4, <1>5, <1>6, <1>7, <1>8

\* The end of a save that failed, and that of the program.
LEMMA EndTypes ==
  ASSUME TypeInv, NEW s \in Simulators, Undo(s) \/ Restart(s)
  PROVE  TypeInv'
<1>1. save' \in [Simulators -> Saves] /\ save'[s].made = {}
      /\ \A r \in Simulators \ {s} : save'[r].made = save[r].made
  <2>1. Idle.made = {}
    BY DEF Idle
  <2> QED BY <2>1, IdleType, OneSave DEF Undo, Restart, TypeInv, TypeOK
<1>2. /\ temp' \in [Projects -> ProjectFiles \cup {NoFile, Folder}]
      /\ project' \in [Projects -> ProjectFiles \cup {NoFile}]
  BY FileTypes, SaveAssumption DEF Undo, Restart, TypeInv, TypeOK
<1>3. CASE Undo(s)
  <2>1. copy' \in [Contents -> {NoFile, "good", "other"}]
        /\ \A c \in Contents \ save[s].made : copy'[c] = copy[c]
    BY <1>3 DEF Undo, Undone, TypeInv, TypeOK
  <2>2. \A r \in Simulators : \A c \in save'[r].made : copy'[c] = "good"
    BY <1>1, <2>1 DEF TypeInv, TypeOK, MadeApart, Saves
  <2> QED BY <1>1, <1>2, <1>3, <2>1, <2>2 DEF Undo, TypeInv, TypeOK, MadeApart, editor
<1>4. CASE Restart(s)
  BY <1>1, <1>2, <1>4 DEF Restart, TypeInv, TypeOK, MadeApart, Empty, Circuits
<1> QED BY <1>3, <1>4

LEMMA StepTypes == TypeInv /\ [Next]_vars => TypeInv'
<1>1. CASE UNCHANGED vars
  BY <1>1 DEF vars, TypeInv, TypeOK, MadeApart
<1> QED BY <1>1, QuietTypes, DiskTypes, EndTypes DEF Next

\* Types are kept, by any number of simulators; in particular what a save made in
\* rf_data/ is there until the save is over, whatever the others do.
THEOREM SaveTypes == Spec => []TypeOK
<1>1. Spec => []TypeInv
  BY InitTypes, StepTypes, PTL DEF Spec
<1> QED BY <1>1, PTL DEF TypeInv

-----------------------------------------------------------------------------
(* One simulator: its save and the files *)

LEMMA InitFiles == Init => FilesInv
<1> SUFFICES ASSUME Init PROVE FilesInv
  OBVIOUS
<1>1. ProjectsAreWhole
  BY DEF Init, ProjectsAreWhole, IsFile
<1>2. ASSUME NEW s \in Simulators PROVE SaveInv(s) /\ DataInv(s) /\ CleanInv(s)
  BY DEF Init, SaveInv, DataInv, CleanInv, At, Idle, Empty, IsFile
<1> QED BY <1>1, <1>2 DEF FilesInv

\* With one simulator it is enough to look at the one that takes the step.
LEMMA OneIsEnough ==
  ASSUME OneSimulator, NEW s \in Simulators,
         ProjectsAreWhole', SaveInv(s)', DataInv(s)', CleanInv(s)'
  PROVE  FilesInv'
BY DEF OneSimulator, FilesInv

\* The files that were closed or flushed refer to what they did.
LEMMA FileFacts ==
  ASSUME NEW s \in Simulators, NEW f \in ProjectFiles \cup {NoFile, Folder}
  PROVE  /\ IsFile(Closed(f, s)) <=> IsFile(f)
         /\ IsFile(Flushed(f, s)) <=> IsFile(f)
         /\ IsFile(f) => /\ f \in ProjectFiles
                         /\ Closed(f, s).refers = f.refers /\ Closed(f, s).whole = f.whole
                         /\ Flushed(f, s).refers = f.refers /\ Flushed(f, s).by = f.by
                         /\ f.whole => Flushed(f, s).whole
                         /\ f.by = s => Flushed(f, s).whole
BY SaveAssumption DEF Flushed, Closed, ProjectFiles, IsFile

\* The user's steps, between two saves.
LEMMA UserFiles ==
  ASSUME OneSimulator, TypeInv, FilesInv, NEW s \in Simulators,
         Edit(s) \/ \E t \in Projects : Load(s, t) \/ StartSave(s, t)
  PROVE  FilesInv'
<1> USE DEF FilesInv
<1>1. SaveInv(s) /\ DataInv(s) /\ CleanInv(s) /\ save[s] = Idle
  BY DEF Edit, Load, StartSave, Free
<1>2. CASE Edit(s)
  <2>1. PICK c \in Contents : circuit' = [circuit EXCEPT ![s] = Edited(@, c)]
    BY <1>2 DEF Edit
  <2>2. circuit'[s].inside \subseteq circuit[s].inside
    BY <2>1 DEF Edited, TypeInv, TypeOK, Circuits
  <2>3. ProjectsAreWhole' /\ SaveInv(s)'
    BY <1>1, <1>2 DEF Edit, ProjectsAreWhole, SaveInv, At, Idle, disk
  <2>4. DataInv(s)' /\ CleanInv(s)'
    BY <1>1, <1>2, <2>2 DEF Edit, DataInv, Kept, CleanInv, disk, TypeInv, TypeOK
  <2> QED BY <2>3, <2>4, OneIsEnough
<1>3. ASSUME NEW t \in Projects, Load(s, t) PROVE FilesInv'
  <2>1. circuit'[s].inside = project[t].refers /\ circuit'[s].outside = {}
    BY <1>3 DEF Load, TypeInv, TypeOK
  <2>2. References(circuit'[s]) = project[t].refers
    BY <2>1 DEF References
  <2>3. ProjectsAreWhole' /\ SaveInv(s)'
    BY <1>1, <1>3 DEF Load, ProjectsAreWhole, SaveInv, At, Idle, disk
  <2>4. DataInv(s)' /\ CleanInv(s)'
    BY <1>1, <1>3, <2>1, <2>2 DEF Load, DataInv, Kept, CleanInv, disk, TypeInv, TypeOK
  <2> QED BY <2>3, <2>4, OneIsEnough
<1>4. ASSUME NEW t \in Projects, StartSave(s, t) PROVE FilesInv'
  <2>1. /\ save'[s].step = "package" /\ save'[s].of = t /\ ~save'[s].retried
        /\ save'[s].left = References(circuit[s]) /\ save'[s].made = {}
    BY <1>4 DEF StartSave, Idle, TypeInv, TypeOK
  <2>2. SaveInv(s)'
    BY <1>4, <2>1 DEF StartSave, SaveInv, At, disk, editor
  <2>3. ProjectsAreWhole' /\ DataInv(s)' /\ CleanInv(s)'
    BY <1>1, <1>4, <2>1 DEF StartSave, ProjectsAreWhole, DataInv, Kept, CleanInv, disk, editor
  <2> QED BY <2>2, <2>3, OneIsEnough
<1> QED BY <1>2, <1>3, <1>4

\* The packaging of RF data.
LEMMA PackageFiles ==
  ASSUME OneSimulator, TypeInv, FilesInv, NEW s \in Simulators,
         KeepInside(s) \/ MakeFolder(s) \/ ReuseCopy(s) \/ InstallCopy(s) \/ Packaged(s)
  PROVE  FilesInv'
<1> USE DEF FilesInv
<1>1. SaveInv(s) /\ DataInv(s) /\ CleanInv(s) /\ At(s, "package") /\ save[s] \in Saves
  BY DEF KeepInside, MakeFolder, ReuseCopy, InstallCopy, Packaged, TypeInv, TypeOK
<1>2. CASE KeepInside(s) \/ ReuseCopy(s)
  <2>1. PICK c \in save[s].left : copy[c] = "good" /\ save' = [save EXCEPT ![s].left = @ \ {c}]
    BY <1>1, <1>2 DEF KeepInside, ReuseCopy, Usable, DataInv, Kept
  <2>2. UNCHANGED <<disk, editor>>
    BY <1>2 DEF KeepInside, ReuseCopy
  <2>3. /\ save'[s].step = "package" /\ save'[s].of = save[s].of
        /\ save'[s].retried = save[s].retried /\ save'[s].made = save[s].made
        /\ save'[s].left = save[s].left \ {c}
    BY <1>1, <2>1 DEF At, Saves, TypeInv, TypeOK
  <2>4. SaveInv(s)'
    BY <1>1, <2>1, <2>2, <2>3 DEF SaveInv, At, disk, editor
  <2>5. ProjectsAreWhole' /\ DataInv(s)' /\ CleanInv(s)'
    BY <1>1, <2>2, <2>3 DEF ProjectsAreWhole, DataInv, Kept, CleanInv, disk, editor
  <2> QED BY <2>4, <2>5, OneIsEnough
<1>3. CASE MakeFolder(s)
  <2>1. /\ save'[s].step = "package" /\ save'[s].of = save[s].of
        /\ save'[s].retried = save[s].retried /\ save'[s].made = save[s].made
        /\ save'[s].left = save[s].left
    BY <1>1, <1>3 DEF MakeFolder, At, Saves, TypeInv, TypeOK
  <2>2. SaveInv(s)'
    BY <1>1, <1>3, <2>1 DEF MakeFolder, SaveInv, At, editor
  <2>3. ProjectsAreWhole' /\ DataInv(s)' /\ CleanInv(s)'
    BY <1>1, <1>3, <2>1 DEF MakeFolder, ProjectsAreWhole, DataInv, Kept, CleanInv, editor
  <2> QED BY <2>2, <2>3, OneIsEnough
<1>4. CASE InstallCopy(s)
  <2>1. PICK c \in save[s].left :
          /\ copy[c] = NoFile /\ copy' = [copy EXCEPT ![c] = "good"]
          /\ save' = [save EXCEPT ![s] = Installed(@, c)]
    BY <1>4 DEF InstallCopy
  <2>2. /\ save'[s].step = "package" /\ save'[s].of = save[s].of
        /\ save'[s].retried = save[s].retried /\ save'[s].made = save[s].made \cup {c}
        /\ save'[s].left = save[s].left \ {c}
    BY <1>1, <2>1 DEF Installed, At, Saves, TypeInv, TypeOK
  <2>3. c \in Contents /\ \A d \in Contents : copy[d] = "good" => d # c /\ copy'[d] = "good"
    BY <1>1, <2>1, SaveAssumption DEF Saves, TypeInv, TypeOK
  <2>4. \A d \in Contents : Kept(s, d) => Kept(s, d)'
    BY <2>2, <2>3 DEF Kept
  <2>5. copy'[c] = "good" /\ References(circuit[s]) \subseteq Contents
    BY <2>1, <2>3 DEF TypeInv, TypeOK, References, Circuits
  <2>6. SaveInv(s)'
    BY <1>1, <1>4, <2>2, <2>3, <2>5 DEF InstallCopy, SaveInv, At, editor
  <2>7. DataInv(s)'
    <3>1. \A t \in Projects : IsFile(project[t]) => project[t].refers \subseteq Contents
      <4>1. \A t \in Projects : IsFile(project[t]) => project[t] \in ProjectFiles
        BY DEF TypeInv, TypeOK, IsFile
      <4> QED BY <4>1 DEF ProjectFiles
    <3>2. circuit[s].inside \subseteq Contents
      BY DEF TypeInv, TypeOK, Circuits
    <3> QED BY <1>1, <1>4, <2>4, <3>1, <3>2 DEF InstallCopy, DataInv, editor
  <2>8. ProjectsAreWhole' /\ CleanInv(s)'
    BY <1>1, <1>4 DEF InstallCopy, ProjectsAreWhole, CleanInv, editor
  <2> QED BY <2>6, <2>7, <2>8, OneIsEnough
<1>5. CASE Packaged(s)
  <2>1. /\ save'[s].step = "open" /\ save'[s].of = save[s].of
        /\ save'[s].retried = save[s].retried /\ save'[s].made = save[s].made
    BY <1>1, <1>5 DEF Packaged, StepTo, Saves, TypeInv, TypeOK
  <2>2. SaveInv(s)'
    BY <1>1, <1>5, <2>1 DEF Packaged, SaveInv, At, disk, editor
  <2>3. ProjectsAreWhole' /\ DataInv(s)' /\ CleanInv(s)'
    BY <1>1, <1>5, <2>1 DEF Packaged, ProjectsAreWhole, DataInv, Kept, CleanInv, disk, editor
  <2> QED BY <2>2, <2>3, OneIsEnough
<1> QED BY <1>2, <1>3, <1>4, <1>5

\* The temporary file, up to the rename.
LEMMA WriteFiles ==
  ASSUME OneSimulator, TypeInv, FilesInv, NEW s \in Simulators,
         OpenTemp(s) \/ NameTaken(s) \/ RemoveStale(s) \/ WriteTemp(s)
  PROVE  FilesInv'
<1> USE DEF FilesInv
<1> DEFINE t == save[s].of
<1>1. SaveInv(s) /\ DataInv(s) /\ CleanInv(s) /\ save[s] \in Saves /\ t \in Projects
  BY DEF OpenTemp, NameTaken, RemoveStale, WriteTemp, SaveInv, At, TypeInv, TypeOK
<1>2. CASE OpenTemp(s)
  <2>1. /\ save'[s].step = "write" /\ save'[s].of = t /\ save'[s].made = save[s].made
        /\ temp'[t] = [by |-> s, refers |-> References(circuit[s]), whole |-> FALSE]
    BY <1>1, <1>2 DEF OpenTemp, StepTo, Saves, TypeInv, TypeOK
  <2>2. temp'[t] \in ProjectFiles
    BY <2>1 DEF ProjectFiles, References, TypeInv, TypeOK, Circuits
  <2>3. SaveInv(s)'
    BY <1>1, <1>2, <2>1, <2>2 DEF OpenTemp, SaveInv, At, editor
  <2>4. ProjectsAreWhole' /\ DataInv(s)' /\ CleanInv(s)'
    BY <1>1, <1>2, <2>1 DEF OpenTemp, ProjectsAreWhole, DataInv, Kept, CleanInv, editor
  <2> QED BY <2>3, <2>4, OneIsEnough
<1>3. CASE NameTaken(s)
  <2>1. /\ save'[s].step = "stale" /\ save'[s].of = t /\ save'[s].made = save[s].made
    BY <1>1, <1>3 DEF NameTaken, StepTo, Saves, TypeInv, TypeOK
  <2>2. SaveInv(s)'
    BY <1>1, <1>3, <2>1 DEF NameTaken, SaveInv, At, disk, editor
  <2>3. ProjectsAreWhole' /\ DataInv(s)' /\ CleanInv(s)'
    BY <1>1, <1>3, <2>1 DEF NameTaken, ProjectsAreWhole, DataInv, Kept, CleanInv, disk, editor
  <2> QED BY <2>2, <2>3, OneIsEnough
<1>4. CASE RemoveStale(s)
  <2>1. /\ save'[s].step = "open" /\ save'[s].of = t /\ save'[s].made = save[s].made
        /\ temp'[t] = NoFile
    BY <1>1, <1>4 DEF RemoveStale, Saves, TypeInv, TypeOK
  <2>2. SaveInv(s)'
    BY <1>1, <1>4, <2>1 DEF RemoveStale, SaveInv, At, editor
  <2>3. ProjectsAreWhole' /\ DataInv(s)' /\ CleanInv(s)'
    BY <1>1, <1>4, <2>1 DEF RemoveStale, ProjectsAreWhole, DataInv, Kept, CleanInv, editor
  <2> QED BY <2>2, <2>3, OneIsEnough
<1>5. CASE WriteTemp(s)
  <2>1. /\ save'[s].step = "rename" /\ save'[s].of = t /\ save'[s].made = save[s].made
    BY <1>1, <1>5 DEF WriteTemp, StepTo, Saves, TypeInv, TypeOK
  <2>2. /\ temp[t] \in ProjectFiles /\ temp[t].by = s
        /\ temp[t].refers = References(circuit[s])
    BY <1>1, <1>5 DEF WriteTemp, SaveInv, At
  <2>3. temp'[t] = [temp[t] EXCEPT !.whole = TRUE]
    BY <1>1, <1>5, <2>2, SaveAssumption DEF WriteTemp, Flushed, IsFile
  <2>4. /\ temp'[t] \in ProjectFiles /\ temp'[t].by = s /\ temp'[t].whole
        /\ temp'[t].refers = References(circuit[s])
    BY <2>2, <2>3 DEF ProjectFiles
  <2>5. SaveInv(s)'
    BY <1>1, <1>5, <2>1, <2>4 DEF WriteTemp, SaveInv, At, editor
  <2>6. \A u \in Projects :
          /\ IsFile(project'[u]) <=> IsFile(project[u])
          /\ IsFile(project[u]) => /\ project'[u].refers = project[u].refers
                                   /\ project[u].whole => project'[u].whole
    BY <1>5, FileFacts DEF WriteTemp, TypeInv, TypeOK
  <2>7. ProjectsAreWhole'
    BY <2>6 DEF ProjectsAreWhole
  <2>8. DataInv(s)'
    BY <1>1, <1>5, <2>1, <2>6 DEF WriteTemp, DataInv, Kept, editor
  <2>9. CleanInv(s)'
    BY <1>1, <1>5, <2>6 DEF WriteTemp, CleanInv, editor, TypeInv, TypeOK
  <2> QED BY <2>5, <2>7, <2>8, <2>9, OneIsEnough
<1> QED BY <1>2, <1>3, <1>4, <1>5

\* The rename makes the temporary file the project.
LEMMA RenameFiles ==
  ASSUME OneSimulator, TypeInv, FilesInv, NEW s \in Simulators, Rename(s)
  PROVE  FilesInv'
<1> USE DEF FilesInv
<1> DEFINE t == save[s].of
<1>1. SaveInv(s) /\ DataInv(s) /\ CleanInv(s) /\ save[s] \in Saves /\ t \in Projects
  BY DEF Rename, SaveInv, At, TypeInv, TypeOK
<1>2. /\ IsFile(temp[t]) /\ temp[t].whole /\ temp[t].refers = References(circuit[s])
      /\ \A c \in References(circuit[s]) : copy[c] = "good"
  BY <1>1 DEF Rename, SaveInv, At
<1>3. /\ IsFile(project'[t]) /\ project'[t].whole
      /\ project'[t].refers = References(circuit[s])
      /\ \A u \in Projects \ {t} : project'[u] = project[u]
  BY <1>1, <1>2, FileFacts DEF Rename, TypeInv, TypeOK
<1>4. save'[s] = Idle /\ path'[s] = t /\ UNCHANGED <<circuit, copy>>
  BY <1>1 DEF Rename, TypeInv, TypeOK
<1>5. SaveInv(s)'
  BY <1>4 DEF SaveInv, At, Idle
<1>6. ProjectsAreWhole'
  BY <1>3 DEF ProjectsAreWhole
<1>7. DataInv(s)'
  BY <1>1, <1>2, <1>3, <1>4 DEF DataInv, Kept, Idle
<1>8. CleanInv(s)'
  BY <1>3, <1>4 DEF CleanInv
<1> QED BY <1>5, <1>6, <1>7, <1>8, OneIsEnough

\* A failure, and the end of the program.
LEMMA EndFiles ==
  ASSUME OneSimulator, TypeInv, FilesInv, NEW s \in Simulators,
         Fail(s) \/ Discard(s) \/ Undo(s) \/ Restart(s)
  PROVE  FilesInv'
<1> USE DEF FilesInv
<1>1. SaveInv(s) /\ DataInv(s) /\ CleanInv(s) /\ save[s] \in Saves
  BY DEF TypeInv, TypeOK
<1>2. CASE Fail(s)
  <2>1. ~At(s, "idle")
    BY <1>2 DEF Fail, AfterFailure, At
  <2>2. /\ save'[s].step \in {"undo", "discard"} /\ save'[s].of = save[s].of
        /\ save'[s].made = save[s].made
    BY <1>1, <1>2 DEF Fail, StepTo, AfterFailure, Saves, TypeInv, TypeOK
  <2>3. SaveInv(s)'
    BY <1>1, <2>1, <2>2 DEF SaveInv, At
  <2>4. ProjectsAreWhole' /\ DataInv(s)' /\ CleanInv(s)'
    BY <1>1, <1>2, <2>2 DEF Fail, ProjectsAreWhole, DataInv, Kept, CleanInv, disk, editor
  <2> QED BY <2>3, <2>4, OneIsEnough
<1>3. CASE Discard(s)
  <2>1. /\ save'[s].step = "undo" /\ save'[s].of = save[s].of /\ save'[s].made = save[s].made
    BY <1>1, <1>3 DEF Discard, StepTo, Saves, TypeInv, TypeOK
  <2>2. SaveInv(s)'
    BY <1>1, <1>3, <2>1 DEF Discard, SaveInv, At
  <2>3. ProjectsAreWhole' /\ DataInv(s)' /\ CleanInv(s)'
    BY <1>1, <1>3, <2>1 DEF Discard, ProjectsAreWhole, DataInv, Kept, CleanInv, editor
  <2> QED BY <2>2, <2>3, OneIsEnough
<1>4. \A u \in Projects : project' = [p \in Projects |-> Closed(project[p], s)] =>
        /\ IsFile(project'[u]) <=> IsFile(project[u])
        /\ IsFile(project[u]) => /\ project'[u].refers = project[u].refers
                                 /\ project'[u].whole = project[u].whole
  BY FileFacts DEF TypeInv, TypeOK
<1>5. CASE Undo(s)
  <2>1. save'[s] = Idle /\ UNCHANGED editor
    BY <1>5 DEF Undo, TypeInv, TypeOK
  <2>2. \A c \in Contents : Kept(s, c) => Kept(s, c)'
    BY <1>5, <2>1 DEF Undo, Undone, Kept, Idle
  <2>3. SaveInv(s)'
    BY <2>1 DEF SaveInv, At, Idle
  <2>4. ProjectsAreWhole'
    BY <1>4, <1>5 DEF Undo, ProjectsAreWhole
  <2>5. DataInv(s)'
    <3>1. \A t \in Projects : IsFile(project[t]) => project[t] \in ProjectFiles
      BY DEF TypeInv, TypeOK, IsFile
    <3>2. \A t \in Projects : IsFile(project[t]) => project[t].refers \subseteq Contents
      BY <3>1 DEF ProjectFiles
    <3>3. circuit[s].inside \subseteq Contents
      BY DEF TypeInv, TypeOK, Circuits
    <3> QED BY <1>1, <1>4, <1>5, <2>1, <2>2, <3>2, <3>3 DEF Undo, DataInv, editor
  <2>6. CleanInv(s)'
    BY <1>1, <1>4, <1>5, <2>1 DEF Undo, CleanInv, editor, TypeInv, TypeOK
  <2> QED BY <2>3, <2>4, <2>5, <2>6, OneIsEnough
<1>6. CASE Restart(s)
  <2>1. /\ save'[s] = Idle /\ circuit'[s] = Empty /\ path'[s] = NoProject
        /\ UNCHANGED copy
    BY <1>6 DEF Restart, TypeInv, TypeOK
  <2>2. SaveInv(s)' /\ CleanInv(s)'
    BY <2>1 DEF SaveInv, At, Idle, CleanInv
  <2>3. ProjectsAreWhole'
    BY <1>4, <1>6 DEF Restart, ProjectsAreWhole
  <2>4. DataInv(s)'
    BY <1>1, <1>4, <1>6, <2>1 DEF Restart, DataInv, Kept, Idle, Empty
  <2> QED BY <2>2, <2>3, <2>4, OneIsEnough
<1> QED BY <1>2, <1>3, <1>5, <1>6

LEMMA StepFiles == OneSimulator /\ TypeInv /\ FilesInv /\ [Next]_vars => FilesInv'
<1>1. CASE UNCHANGED vars
  BY <1>1 DEF vars, FilesInv, ProjectsAreWhole, SaveInv, DataInv, Kept, CleanInv, At
<1> QED BY <1>1, UserFiles, PackageFiles, WriteFiles, RenameFiles, EndFiles DEF Next

\* With one simulator a project file is whole, finds its RF data and is what a
\* project without unsaved changes shows, and what an earlier save left behind never
\* keeps a later one from saving: for any number of projects and data files, whichever
\* call fails and whenever the program ends.
LEMMA SaveFiles == Spec => [](OneSimulator => FilesInv)
<1>1. Init => (OneSimulator => FilesInv)
  BY InitFiles
<1>2. TypeInv /\ (OneSimulator => FilesInv) /\ [Next]_vars => (OneSimulator => FilesInv)'
  BY StepFiles DEF OneSimulator
<1>3. Spec => []TypeInv
  BY InitTypes, StepTypes, PTL DEF Spec
<1> QED BY <1>1, <1>2, <1>3, PTL DEF Spec

\* A project file is whole (the atomic save, project_serializer.cpp:1078).
THEOREM SavedProjectsAreWhole == Spec => [](OneSimulator => ProjectsAreWhole)
BY SaveFiles, PTL DEF FilesInv

\* It finds its RF data, no save takes it away; a clean project is the one on disk;
\* and a temporary file that was left behind blocks no save.
THEOREM SavesKeepTheirPromises ==
  Spec => [](OneSimulator => ProjectsFindTheirData /\ CleanIsSaved /\ LeftoversDoNotBlock)
<1>1. OneSimulator /\ TypeInv /\ FilesInv =>
        ProjectsFindTheirData /\ CleanIsSaved /\ LeftoversDoNotBlock
  <2> SUFFICES ASSUME FilesInv PROVE ProjectsFindTheirData /\ CleanIsSaved /\ LeftoversDoNotBlock
    OBVIOUS
  <2>1. ProjectsFindTheirData
    BY SaveAssumption DEF FilesInv, DataInv, Kept, ProjectsFindTheirData
  <2>2. CleanIsSaved
    BY DEF FilesInv, CleanInv, CleanIsSaved
  <2>3. LeftoversDoNotBlock
    BY DEF FilesInv, SaveInv, LeftoversDoNotBlock
  <2> QED BY <2>1, <2>2, <2>3
<1>2. Spec => []TypeInv
  BY InitTypes, StepTypes, PTL DEF Spec
<1> QED BY <1>1, <1>2, SaveFiles, PTL

\* All that a save promises, for any number of projects and data files, whatever call
\* fails and wherever the program ends (writeProject, project_serializer.cpp:1078).
THEOREM SavesAlwaysSound == Spec => [](OneSimulator => SavesAreSound)
<1>1. TypeOK /\ ProjectsFindTheirData /\ CleanIsSaved /\ LeftoversDoNotBlock => SavesAreSound
  BY DEF SavesAreSound
<1> QED BY <1>1, SaveTypes, SavesKeepTheirPromises, PTL

-----------------------------------------------------------------------------
(* The library *)

Refers(p, n) == L!HasData(p) /\ definition[p].file = n

\* The save under way: whose entry it may touch, and where the contents are that it moved.
EntryTypes(f) ==
  /\ f \in L!Forms
  /\ f.step \in {"backup", "install"} \/ f.existed => f.picked
  /\ f.step = "backup" => f.existed
  /\ f.picked => f.writes.file \in Parts /\ f.writes.means \in Versions
  /\ f.existed /\ f.step # "backup" => f.saved \in Versions
EntryWrites(f) ==
  /\ ~f.picked /\ f.writes.file # None =>
       /\ definition[f.path] # None
       /\ definition[f.path].file = f.writes.file /\ definition[f.path].means = f.writes.means
  /\ f.step = "tidy" => definition[f.path] = f.writes
  /\ f.picked /\ f.step \in {"replace", "tidy"} => data[f.writes.file] = f.writes.means
EntryOthers(f) ==
  /\ f.picked => \A p \in Parts \ {f.path} :
       Refers(p, f.writes.file) => ~f.existed /\ p \in broken
  /\ f.picked /\ f.step \in {"install", "replace"} => \A p \in Parts :
       Refers(p, f.writes.file) => definition[p].means \in backup[f.writes.file]
EntryOwn(f) ==
  f.path \notin broken /\ L!HasData(f.path) /\ (f.step # "tidy" \/ ~f.picked) =>
    IF f.picked /\ f.step \in {"install", "replace"} /\ definition[f.path].file = f.writes.file
      THEN f.existed /\ f.saved = definition[f.path].means
      ELSE L!DataOf(f.path) = definition[f.path].means
EntryInv(f) == EntryTypes(f) /\ EntryWrites(f) /\ EntryOthers(f) /\ EntryOwn(f)

MeansAreVersions == \A p \in Parts : L!HasData(p) => definition[p].means \in Versions
LibraryInv == LibraryIsSound /\ MeansAreVersions /\ (entry # None => EntryInv(entry))

LEMMA InitLibrary == L!Init => LibraryInv
<1> SUFFICES ASSUME L!Init PROVE LibraryInv
  OBVIOUS
<1>1. PICK v \in Versions, q \in Parts :
        /\ data = [n \in Parts |-> IF n = q THEN v ELSE None]
        /\ definition \in [Parts -> {None} \cup
             {[part |-> p, file |-> f, means |-> IF f = q THEN v ELSE None] : p \in Parts, f \in {q, None}}]
        /\ backup = [n \in Parts |-> {}]
        /\ published = [p \in Parts |-> None]
        /\ library = definition
        /\ known = [s \in Both |-> L!PartsOf(definition)]
        /\ entry = None
        /\ create = [s \in Both |-> None]
        /\ broken = {} /\ told = {}
  BY DEF L!Init
<1>2. \A p \in Parts : definition[p] = None \/ \E r \in Parts, f \in {q, None} :
        definition[p] = [part |-> r, file |-> f, means |-> IF f = q THEN v ELSE None]
  BY <1>1
<1>3. ASSUME NEW p \in Parts, definition[p] # None
      PROVE  /\ definition[p] \in L!Definitions
             /\ L!HasData(p) => definition[p].file = q /\ definition[p].means = v
  <2>1. PICK r \in Parts, f \in {q, None} :
          definition[p] = [part |-> r, file |-> f, means |-> IF f = q THEN v ELSE None]
    BY <1>2, <1>3
  <2>2. (IF f = q THEN v ELSE None) \in Versions \cup {None}
    OBVIOUS
  <2>3. definition[p].part = r /\ definition[p].file = f
        /\ definition[p].means = IF f = q THEN v ELSE None
    BY <2>1
  <2> QED
    BY <2>1, <2>2, <2>3 DEF L!Definitions, L!HasData
<1>4. \A p \in Parts : L!HasData(p) => definition[p].file = q /\ definition[p].means = v
  BY <1>3 DEF L!HasData
<1>5. L!PartsOf(definition) \subseteq Parts
  BY <1>3 DEF L!PartsOf, L!Definitions
<1>6. L!TypeOK
  <2>1. definition \in [Parts -> L!Definitions \cup {None}]
    BY <1>1, <1>3
  <2> QED
    BY <1>1, <1>5, <2>1 DEF L!TypeOK
<1> QED
  BY <1>1, <1>4, <1>6 DEF LibraryInv, LibraryIsSound, MeansAreVersions, L!CreatedOnce,
     L!EntriesFindTheirData, L!NoDataIsLost, L!IndexedIsOnDisk, L!DataOf

\* What does not touch the files, the library and the save keeps what is known of them.
LEMMA SameFiles ==
  ASSUME LibraryInv, L!TypeOK', L!CreatedOnce',
         UNCHANGED <<definition, data, backup, library, entry, broken>>
  PROVE  LibraryInv'
<1>1. L!EntriesFindTheirData' /\ L!NoDataIsLost' /\ L!IndexedIsOnDisk' /\ MeansAreVersions'
  BY DEF LibraryInv, LibraryIsSound, MeansAreVersions, L!EntriesFindTheirData, L!NoDataIsLost,
     L!IndexedIsOnDisk, L!DataOf, L!HasData, L!At
<1>2. ASSUME entry' # None PROVE EntryInv(entry)'
  BY <1>2 DEF LibraryInv, EntryInv, EntryTypes, EntryWrites, EntryOthers, EntryOwn, Refers,
     L!DataOf, L!HasData
<1> QED
  BY <1>1, <1>2 DEF LibraryInv, LibraryIsSound

LEMMA CreateLibrary ==
  ASSUME LibraryInv, NEW s \in Both,
         (\E p \in Parts : L!StartCreate(s, p)) \/ L!Publish(s) \/ L!CreateFails(s)
  PROVE  LibraryInv'
<1>1. UNCHANGED <<definition, data, backup, library, entry, broken>>
  BY DEF L!StartCreate, L!Publish, L!CreateFails, L!Formless, L!disk
<1>2. L!TypeOK' /\ L!CreatedOnce'
  <2>1. CASE \E p \in Parts : L!StartCreate(s, p)
    BY <1>1, <2>1 DEF LibraryInv, LibraryIsSound, L!TypeOK, L!CreatedOnce, L!StartCreate, L!File
  <2>2. CASE L!Publish(s)
    <3>1. create[s] \in Parts
      BY <2>2 DEF LibraryInv, LibraryIsSound, L!TypeOK, L!Publish
    <3> QED
      BY <1>1, <2>2, <3>1, LibraryInstance DEF LibraryInv, LibraryIsSound, L!TypeOK, L!CreatedOnce,
         L!Publish, L!File, L!LibraryAssumption
  <2>3. CASE L!CreateFails(s)
    BY <1>1, <2>3 DEF LibraryInv, LibraryIsSound, L!TypeOK, L!CreatedOnce, L!CreateFails, L!File
  <2> QED
    BY <2>1, <2>2, <2>3
<1> QED
  BY <1>1, <1>2, SameFiles

\* What a definition is while no save is under way.
LEMMA Settled ==
  ASSUME LibraryInv, L!Free(s1)
  PROVE  /\ entry = None /\ library = definition
         /\ \A p \in Parts \ broken : L!HasData(p) => L!DataOf(p) = definition[p].means
         /\ \A p \in Parts : L!HasData(p) => definition[p].means \in {L!DataOf(p)} \cup backup[definition[p].file]
<1>1. entry = None
  BY DEF L!Free
<1>2. library = definition
  BY <1>1 DEF LibraryInv, LibraryIsSound, L!TypeOK, L!IndexedIsOnDisk, L!At
<1> QED
  BY <1>1, <1>2 DEF LibraryInv, LibraryIsSound, L!EntriesFindTheirData, L!NoDataIsLost

\* A save that is staged leaves the files alone: what is known of them is kept, and
\* what the save needs is what its checks found.
LEMMA StagedTypes ==
  ASSUME LibraryInv, NEW dest \in Parts, NEW writes \in L!Definitions, NEW picked \in BOOLEAN,
         picked => writes.file \in Parts /\ writes.means \in Versions,
         L!StageForm(dest, writes, picked),
         UNCHANGED <<definition, data, backup, published, library, known, create, broken, told>>
  PROVE  /\ L!TypeOK' /\ L!CreatedOnce' /\ EntryTypes(entry')
         /\ entry' # None
         /\ entry'.path = dest /\ entry'.writes = writes /\ entry'.picked = picked
         /\ entry'.existed = (picked /\ data[writes.file] # None)
         /\ entry'.step = IF ~picked THEN "replace"
                          ELSE IF data[writes.file] = None THEN "install" ELSE "backup"
<1>1. /\ entry'.path = dest /\ entry'.writes = writes /\ entry'.picked = picked
      /\ entry'.existed = (picked /\ data[writes.file] # None)
      /\ entry'.step = IF ~picked THEN "replace"
                       ELSE IF data[writes.file] = None THEN "install" ELSE "backup"
  BY DEF L!StageForm
<1>2. entry' \in L!Forms
  BY DEF L!StageForm, L!Forms
<1>3. entry'.step # "backup" => ~entry'.existed
  BY <1>1
<1>4. L!TypeOK'
  BY <1>2, <1>3 DEF LibraryInv, LibraryIsSound, L!TypeOK
<1>5. L!CreatedOnce'
  BY DEF LibraryInv, LibraryIsSound, L!CreatedOnce
<1>6. EntryTypes(entry')
  BY <1>1, <1>2 DEF EntryTypes
<1>7. entry' # None
  BY <1>2, LibraryInstance DEF L!LibraryAssumption
<1> QED
  BY <1>1, <1>4, <1>5, <1>6, <1>7

LEMMA StagedFiles ==
  ASSUME LibraryInv, L!Free(s1),
         UNCHANGED <<definition, data, backup, library, broken>>
  PROVE  L!NoDataIsLost' /\ MeansAreVersions' /\ L!IndexedIsOnDisk' /\ L!EntriesFindTheirData'
<1>1. L!NoDataIsLost' /\ MeansAreVersions'
  BY DEF LibraryInv, LibraryIsSound, MeansAreVersions, L!NoDataIsLost, L!DataOf, L!HasData
<1>2. L!IndexedIsOnDisk' /\ L!EntriesFindTheirData'
  BY Settled DEF L!IndexedIsOnDisk, L!EntriesFindTheirData, L!DataOf, L!HasData
<1> QED
  BY <1>1, <1>2

\* A form without an S-parameter file of its own keeps the one the entry has.
LEMMA StagePlain ==
  ASSUME LibraryInv, L!Free(s1), NEW dest \in Parts, NEW writes \in L!Definitions,
         writes.file # None => L!HasData(dest) /\ definition[dest].file = writes.file
                               /\ definition[dest].means = writes.means,
         L!StageForm(dest, writes, FALSE),
         UNCHANGED <<definition, data, backup, published, library, known, create, broken, told>>
  PROVE  LibraryInv'
<1>1. /\ L!TypeOK' /\ L!CreatedOnce' /\ EntryTypes(entry')
      /\ entry' # None
      /\ entry'.path = dest /\ entry'.writes = writes /\ entry'.picked = FALSE
      /\ entry'.existed = FALSE /\ entry'.step = "replace"
  BY StagedTypes
<1>2. EntryTypes(entry)' /\ EntryWrites(entry)' /\ EntryOthers(entry)'
  BY <1>1 DEF EntryTypes, EntryWrites, EntryOthers, L!HasData
<1>3. EntryOwn(entry)'
  BY <1>1, Settled DEF EntryOwn, L!HasData, L!DataOf
<1> QED
  BY <1>1, <1>2, <1>3, StagedFiles DEF LibraryInv, LibraryIsSound, EntryInv

\* A form with one may use a name that is free, or the name of its own entry's.
LEMMA StagePicked ==
  ASSUME LibraryInv, L!Free(s1), NEW dest \in Parts, NEW p \in Parts, L!Pick(dest, p),
         UNCHANGED <<definition, data, backup, published, library, known, create, broken, told>>
  PROVE  LibraryInv'
<1>1. PICK v \in Versions :
        /\ data[p] # None => L!Owned(dest, p)
        /\ L!StageForm(dest, [part |-> p, file |-> p, means |-> v], TRUE)
  BY DEF L!Pick
<1> DEFINE writes == [part |-> p, file |-> p, means |-> v]
<1>2. writes \in L!Definitions /\ writes.file = p /\ writes.means = v
  BY DEF L!Definitions
<1>3. /\ L!TypeOK' /\ L!CreatedOnce' /\ EntryTypes(entry')
      /\ entry' # None
      /\ entry'.path = dest /\ entry'.writes = writes /\ entry'.picked = TRUE
      /\ entry'.existed = (data[p] # None)
      /\ entry'.step = IF data[p] = None THEN "install" ELSE "backup"
  <2>1. L!StageForm(dest, writes, TRUE)
    BY <1>1
  <2> HIDE DEF writes
  <2> QED
    BY <1>2, <2>1, StagedTypes
<1>4. entry'.writes.file = p /\ entry'.writes.means = v
  BY <1>2, <1>3
<1> HIDE DEF writes
<1>5. EntryTypes(entry)' /\ EntryWrites(entry)'
  BY <1>3 DEF EntryTypes, EntryWrites
<1>6. data[p] = None => \A q \in Parts : Refers(q, p) =>
        q \in broken /\ definition[q].means \in backup[p]
  <2> SUFFICES ASSUME data[p] = None, NEW q \in Parts, Refers(q, p)
               PROVE  q \in broken /\ definition[q].means \in backup[p]
    OBVIOUS
  <2>1. definition[q].means \in Versions /\ L!DataOf(q) = None
    BY DEF LibraryInv, MeansAreVersions, Refers, L!DataOf
  <2>2. definition[q].means # None
    BY <2>1, LibraryInstance DEF L!LibraryAssumption
  <2> QED
    BY <2>1, <2>2, Settled DEF Refers
<1>7. data[p] # None => \A q \in Parts \ {dest} : ~Refers(q, p)
  BY <1>1, Settled DEF L!Owned, Refers, L!HasData
<1>8. EntryOthers(entry)'
  BY <1>3, <1>4, <1>6, <1>7 DEF EntryOthers, Refers, L!HasData
<1>9. EntryOwn(entry)'
  BY <1>3, <1>4, <1>6, Settled DEF EntryOwn, Refers, L!HasData, L!DataOf
<1> QED
  BY <1>3, <1>5, <1>8, <1>9, StagedFiles DEF LibraryInv, LibraryIsSound, EntryInv

LEMMA SaveLibrary ==
  ASSUME LibraryInv, NEW p \in Parts, L!SaveNew(p) \/ \E dest \in Parts : L!SaveEdited(dest, p)
  PROVE  LibraryInv'
<1>1. L!Free(s1) /\ UNCHANGED <<definition, data, backup, published, library, known, create, broken, told>>
  BY DEF L!SaveNew, L!SaveEdited, L!disk
<1>2. CASE L!SaveNew(p) /\ L!StageForm(p, [part |-> p, file |-> None, means |-> None], FALSE)
  <2>1. PICK w : w = [part |-> p, file |-> None, means |-> None]
    OBVIOUS
  <2>2. w \in L!Definitions /\ w.file = None
    BY <2>1 DEF L!Definitions
  <2> QED
    BY <1>1, <1>2, <2>1, <2>2, StagePlain
<1>3. CASE \E dest \in Parts : L!Pick(dest, p)
  BY <1>1, <1>3, StagePicked
<1>4. ASSUME NEW dest \in Parts, L!SaveEdited(dest, p),
             L!StageForm(dest, [library[dest] EXCEPT !.part = p], FALSE)
      PROVE  LibraryInv'
  <2>1. library[dest] # None /\ library[dest] = definition[dest] /\ library[dest] \in L!Definitions
    BY <1>1, <1>4, Settled DEF L!SaveEdited, LibraryInv, LibraryIsSound, L!TypeOK
  <2>2. PICK w : w = [library[dest] EXCEPT !.part = p]
    OBVIOUS
  <2>3. w \in L!Definitions /\ w.file = definition[dest].file /\ w.means = definition[dest].means
    BY <2>1, <2>2 DEF L!Definitions
  <2> QED
    BY <1>1, <1>4, <2>1, <2>2, <2>3, StagePlain DEF L!HasData
<1> QED
  BY <1>2, <1>3, <1>4 DEF L!SaveNew, L!SaveEdited

\* A save under way: what it is, and what is known of it.
LEMMA UnderWay ==
  ASSUME LibraryInv, entry # None
  PROVE  /\ EntryTypes(entry) /\ EntryWrites(entry) /\ EntryOthers(entry) /\ EntryOwn(entry)
         /\ entry \in L!Forms /\ entry.path \in Parts /\ entry.writes \in L!Definitions
         /\ L!TypeOK /\ L!CreatedOnce /\ L!EntriesFindTheirData /\ L!NoDataIsLost
         /\ L!IndexedIsOnDisk /\ MeansAreVersions
  BY DEF LibraryInv, LibraryIsSound, EntryInv, EntryTypes, L!Forms

LEMMA BackUpLibrary == ASSUME LibraryInv, L!BackUp PROVE LibraryInv'
<1>1. entry # None /\ entry.step = "backup"
  BY DEF L!BackUp, L!At
<1>2. PICK n \in Parts : n = entry.writes.file
  BY <1>1, UnderWay DEF EntryTypes
<1>3. entry.picked /\ entry.existed /\ data[n] \in Versions
  BY <1>1, <1>2, UnderWay DEF EntryTypes, L!BackUp, L!TypeOK, L!File
<1>4. /\ backup' = [backup EXCEPT ![n] = @ \cup {data[n]}]
      /\ data' = [data EXCEPT ![n] = None]
      /\ entry' = [entry EXCEPT !.step = "install", !.saved = data[n]]
      /\ UNCHANGED <<definition, library, broken, published, known, create, told>>
  BY <1>2 DEF L!BackUp, L!File, L!Unlisted
<1>5. /\ entry'.step = "install" /\ entry'.saved = data[n] /\ entry' \in L!Forms /\ entry' # None
      /\ entry'.path = entry.path /\ entry'.writes = entry.writes /\ entry'.picked = entry.picked
      /\ entry'.existed = entry.existed
  BY <1>3, <1>4, UnderWay, <1>1, LibraryInstance DEF L!Forms, L!LibraryAssumption
<1>6. backup \in [Parts -> SUBSET Versions] /\ data \in [Parts -> Versions \cup {None}]
  BY <1>1, UnderWay DEF L!TypeOK
<1>7. /\ backup'[n] = backup[n] \cup {data[n]} /\ data'[n] = None
      /\ \A m \in Parts \ {n} : backup'[m] = backup[m] /\ data'[m] = data[m]
      /\ backup' \in [Parts -> SUBSET Versions] /\ data' \in [Parts -> Versions \cup {None}]
  BY <1>3, <1>4, <1>6
<1>8. L!TypeOK' /\ L!CreatedOnce'
  BY <1>1, <1>2, <1>4, <1>5, <1>7, UnderWay DEF L!TypeOK, L!CreatedOnce, L!File
<1>9. \A p \in Parts : Refers(p, n) => p = entry.path
  BY <1>1, <1>2, <1>3, UnderWay DEF EntryOthers
<1>10. \A p \in Parts : L!HasData(p) => definition[p].file \in Parts
  BY <1>1, UnderWay DEF L!TypeOK, L!HasData, L!Definitions
<1>11. L!EntriesFindTheirData' /\ L!IndexedIsOnDisk' /\ MeansAreVersions'
  BY <1>1, <1>4, <1>5, <1>7, <1>9, <1>10, UnderWay DEF L!EntriesFindTheirData, L!IndexedIsOnDisk,
     MeansAreVersions, L!HasData, L!DataOf, Refers, L!At
<1>12. \A p \in Parts : Refers(p, n) => definition[p].means \in backup'[n]
  BY <1>1, <1>2, <1>3, <1>7, UnderWay DEF L!NoDataIsLost, Refers, L!HasData, L!DataOf
<1>13. L!NoDataIsLost'
  BY <1>1, <1>4, <1>7, <1>10, <1>12, UnderWay DEF L!NoDataIsLost, Refers, L!HasData, L!DataOf
<1>14. EntryTypes(entry)' /\ EntryWrites(entry)' /\ EntryOthers(entry)'
  BY <1>1, <1>2, <1>3, <1>4, <1>5, <1>9, <1>12, UnderWay
     DEF EntryTypes, EntryWrites, EntryOthers, Refers, L!HasData
<1>15. EntryOwn(entry)'
  BY <1>1, <1>2, <1>3, <1>4, <1>5, <1>7, <1>10, UnderWay DEF EntryOwn, L!HasData, L!DataOf
<1> QED
  BY <1>8, <1>11, <1>13, <1>14, <1>15 DEF LibraryInv, LibraryIsSound, EntryInv

LEMMA InstallLibrary == ASSUME LibraryInv, L!Install PROVE LibraryInv'
<1>1. entry # None /\ entry.step = "install"
  BY DEF L!Install, L!At
<1>2. PICK n \in Parts : n = entry.writes.file
  BY <1>1, UnderWay DEF EntryTypes
<1>3. entry.picked /\ entry.writes.means \in Versions
  BY <1>1, UnderWay DEF EntryTypes
<1>4. /\ data' = [data EXCEPT ![n] = entry.writes.means]
      /\ entry' = [entry EXCEPT !.step = "replace"]
      /\ UNCHANGED <<definition, backup, library, broken, published, known, create, told>>
  BY <1>2 DEF L!Install, L!File, L!Unlisted
<1>5. /\ entry'.step = "replace" /\ entry' \in L!Forms /\ entry' # None
      /\ entry'.path = entry.path /\ entry'.writes = entry.writes /\ entry'.picked = entry.picked
      /\ entry'.existed = entry.existed /\ entry'.saved = entry.saved
  BY <1>4, UnderWay, <1>1, LibraryInstance DEF L!Forms, L!LibraryAssumption
<1>6. /\ data'[n] = entry.writes.means /\ \A m \in Parts \ {n} : data'[m] = data[m]
      /\ data' \in [Parts -> Versions \cup {None}]
  BY <1>1, <1>3, <1>4, UnderWay DEF L!TypeOK
<1>7. L!TypeOK' /\ L!CreatedOnce'
  BY <1>1, <1>2, <1>4, <1>5, <1>6, UnderWay DEF L!TypeOK, L!CreatedOnce, L!File
<1>8. \A p \in Parts : Refers(p, n) =>
        /\ definition[p].means \in backup[n]
        /\ p \in broken \/ p = entry.path
  BY <1>1, <1>2, <1>3, UnderWay DEF EntryOthers
<1>9. \A p \in Parts : L!HasData(p) => definition[p].file \in Parts
  BY <1>1, UnderWay DEF L!TypeOK, L!HasData, L!Definitions
<1>10. L!EntriesFindTheirData' /\ L!IndexedIsOnDisk' /\ MeansAreVersions'
  BY <1>1, <1>4, <1>5, <1>6, <1>8, <1>9, UnderWay DEF L!EntriesFindTheirData, L!IndexedIsOnDisk,
     MeansAreVersions, L!HasData, L!DataOf, Refers, L!At
<1>11. L!NoDataIsLost'
  BY <1>1, <1>4, <1>6, <1>8, <1>9, UnderWay DEF L!NoDataIsLost, Refers, L!HasData, L!DataOf
<1>12. EntryTypes(entry)' /\ EntryWrites(entry)' /\ EntryOthers(entry)'
  BY <1>1, <1>2, <1>3, <1>4, <1>5, <1>6, UnderWay
     DEF EntryTypes, EntryWrites, EntryOthers, Refers, L!HasData
<1>13. EntryOwn(entry)'
  BY <1>1, <1>2, <1>3, <1>4, <1>5, <1>6, <1>9, UnderWay DEF EntryOwn, L!HasData, L!DataOf
<1> QED
  BY <1>7, <1>10, <1>11, <1>12, <1>13 DEF LibraryInv, LibraryIsSound, EntryInv

LEMMA ReplaceLibrary == ASSUME LibraryInv, L!Replace PROVE LibraryInv'
<1>1. entry # None /\ entry.step = "replace"
  BY DEF L!Replace, L!At
<1>2. PICK w \in L!Definitions, dest \in Parts : w = entry.writes /\ dest = entry.path
  BY <1>1, UnderWay
<1>3. /\ definition' = [definition EXCEPT ![dest] = w]
      /\ entry' = [entry EXCEPT !.step = "tidy"]
      /\ UNCHANGED <<data, backup, library, broken, published, known, create, told>>
  BY <1>2 DEF L!Replace, L!Unlisted
<1>4. /\ entry'.step = "tidy" /\ entry' \in L!Forms /\ entry' # None
      /\ entry'.path = dest /\ entry'.writes = w /\ entry'.picked = entry.picked
      /\ entry'.existed = entry.existed /\ entry'.saved = entry.saved
  BY <1>2, <1>3, UnderWay, <1>1, LibraryInstance DEF L!Forms, L!LibraryAssumption
<1>5. /\ definition'[dest] = w /\ \A p \in Parts \ {dest} : definition'[p] = definition[p]
      /\ definition' \in [Parts -> L!Definitions \cup {None}] /\ w # None
  BY <1>1, <1>2, <1>3, UnderWay, LibraryInstance DEF L!TypeOK, L!LibraryAssumption
<1>6. L!TypeOK' /\ L!CreatedOnce'
  BY <1>1, <1>2, <1>3, <1>4, <1>5, UnderWay DEF L!TypeOK, L!CreatedOnce, L!File
<1>7. w.file # None =>
        /\ w.means \in Versions
        /\ entry.picked => data[w.file] = w.means
        /\ ~entry.picked => L!HasData(dest) /\ definition[dest].file = w.file
                            /\ definition[dest].means = w.means
  BY <1>1, <1>2, UnderWay DEF EntryTypes, EntryWrites, MeansAreVersions, L!HasData
<1>8. L!EntriesFindTheirData' /\ L!IndexedIsOnDisk' /\ MeansAreVersions'
  BY <1>1, <1>2, <1>3, <1>4, <1>5, <1>7, UnderWay DEF L!EntriesFindTheirData, L!IndexedIsOnDisk,
     MeansAreVersions, L!HasData, L!DataOf, L!At
<1>9. L!NoDataIsLost'
  BY <1>1, <1>2, <1>3, <1>5, <1>7, UnderWay DEF L!NoDataIsLost, L!HasData, L!DataOf
<1>10. EntryTypes(entry)' /\ EntryWrites(entry)' /\ EntryOthers(entry)'
  BY <1>1, <1>2, <1>3, <1>4, <1>5, UnderWay
     DEF EntryTypes, EntryWrites, EntryOthers, Refers, L!HasData
<1>11. EntryOwn(entry)'
  BY <1>1, <1>2, <1>3, <1>4, <1>5, <1>7, UnderWay DEF EntryOwn, L!HasData, L!DataOf
<1> QED
  BY <1>6, <1>8, <1>9, <1>10, <1>11 DEF LibraryInv, LibraryIsSound, EntryInv

LEMMA TidyLibrary == ASSUME LibraryInv, L!Tidy PROVE LibraryInv'
<1>1. entry # None /\ entry.step = "tidy"
  BY DEF L!Tidy, L!At
<1>2. PICK w \in L!Definitions, dest \in Parts : w = entry.writes /\ dest = entry.path
  BY <1>1, UnderWay
<1>3. /\ backup' \in {backup} \cup
           (IF entry.existed THEN {[backup EXCEPT ![w.file] = @ \ {entry.saved}]} ELSE {})
      /\ library' = [library EXCEPT ![dest] = w]
      /\ known' = [known EXCEPT ![s1] = L!PartsOf(library') \cup {p \in Parts : published[p] # None /\ p \in known[s1]}]
      /\ broken' = IF entry.picked THEN broken \ {dest} ELSE broken
      /\ entry' = None
      /\ UNCHANGED <<definition, data, published, create, told>>
  BY <1>2 DEF L!Tidy, L!File
<1>4. definition[dest] = w /\ w # None
  BY <1>1, <1>2, UnderWay, LibraryInstance DEF EntryWrites, L!LibraryAssumption
<1>5. library' = definition /\ library' \in [Parts -> L!Definitions \cup {None}]
  <2>1. \A p \in Parts : p # dest => library[p] = definition[p]
    BY <1>1, <1>2, UnderWay DEF L!IndexedIsOnDisk
  <2> QED
    BY <1>1, <1>3, <1>4, <2>1, UnderWay DEF L!TypeOK
<1>6. /\ backup' \in [Parts -> SUBSET Versions]
      /\ \A n \in Parts : backup'[n] = backup[n] \/ (entry.existed /\ n = w.file)
  BY <1>1, <1>3, UnderWay DEF L!TypeOK
<1>7. L!PartsOf(library') \subseteq Parts
  BY <1>5 DEF L!PartsOf, L!Definitions
<1>8. L!TypeOK'
  <2>1. known' \in [Both -> SUBSET Parts]
    BY <1>1, <1>3, <1>7, UnderWay, LibraryInstance DEF L!TypeOK, L!LibraryAssumption
  <2> QED
    BY <1>1, <1>3, <1>5, <1>6, <2>1, UnderWay DEF L!TypeOK
<1>9. L!CreatedOnce' /\ L!IndexedIsOnDisk' /\ MeansAreVersions'
  BY <1>1, <1>3, <1>5, UnderWay DEF L!CreatedOnce, L!IndexedIsOnDisk, MeansAreVersions, L!HasData
<1>10. L!HasData(dest) /\ (entry.picked \/ dest \notin broken) => L!DataOf(dest) = definition[dest].means
  BY <1>1, <1>2, <1>4, UnderWay DEF EntryWrites, EntryOwn, L!HasData, L!DataOf
<1>11. L!EntriesFindTheirData'
  BY <1>1, <1>2, <1>3, <1>10, UnderWay DEF L!EntriesFindTheirData, L!HasData, L!DataOf
<1>12. L!NoDataIsLost'
  <2> SUFFICES ASSUME NEW p \in Parts, L!HasData(p)
               PROVE  definition[p].means \in {L!DataOf(p)} \cup backup'[definition[p].file]
    BY <1>3 DEF L!NoDataIsLost, L!HasData, L!DataOf
  <2>1. definition[p].file \in Parts
    BY <1>1, UnderWay DEF L!TypeOK, L!HasData, L!Definitions
  <2>2. CASE backup'[definition[p].file] = backup[definition[p].file]
    BY <1>1, <2>2, UnderWay DEF L!NoDataIsLost
  <2>3. CASE entry.existed /\ definition[p].file = w.file
    <3>1. p = dest
      BY <1>1, <1>2, <2>3, UnderWay DEF EntryOthers, EntryTypes, Refers
    <3> QED
      BY <1>1, <1>10, <2>3, <3>1, UnderWay DEF EntryTypes
  <2> QED
    BY <1>6, <2>1, <2>2, <2>3
<1> QED
  BY <1>3, <1>8, <1>9, <1>11, <1>12 DEF LibraryInv, LibraryIsSound

\* A save that fails and is rolled back: its entry's data is where it was, and what other
\* entries have is in the backups they had.
LEMMA FailLibrary == ASSUME LibraryInv, L!FormFails PROVE LibraryInv'
<1>1. entry # None /\ entry.step # "tidy"
  BY DEF L!FormFails
<1>2. /\ data' = L!RolledBack
      /\ backup' = IF entry.existed /\ entry.step # "backup"
                     THEN [backup EXCEPT ![entry.writes.file] = @ \ {entry.saved}] ELSE backup
      /\ entry' = None
      /\ UNCHANGED <<definition, library, broken, published, known, create, told>>
  BY DEF L!FormFails, L!File, L!Unlisted
<1>3. data \in [Parts -> Versions \cup {None}] /\ backup \in [Parts -> SUBSET Versions]
  BY <1>1, UnderWay DEF L!TypeOK
<1>4. entry.step \in {"backup", "install", "replace"}
  BY <1>1, UnderWay DEF L!Forms
<1>5. \A p \in Parts : L!HasData(p) => definition[p].file \in Parts
  BY <1>1, UnderWay DEF L!TypeOK, L!HasData, L!Definitions
<1>6. ASSUME data' \in [Parts -> Versions \cup {None}], backup' \in [Parts -> SUBSET Versions],
             \A p \in Parts : L!HasData(p) =>
               /\ p \notin broken => data'[definition[p].file] = definition[p].means
               /\ definition[p].means \in {data'[definition[p].file]} \cup backup'[definition[p].file]
      PROVE  LibraryInv'
  <2>1. L!TypeOK' /\ L!CreatedOnce' /\ MeansAreVersions' /\ L!IndexedIsOnDisk'
    BY <1>1, <1>2, <1>6, UnderWay DEF L!TypeOK, L!CreatedOnce, MeansAreVersions, L!IndexedIsOnDisk,
       L!HasData, L!At
  <2>2. L!EntriesFindTheirData' /\ L!NoDataIsLost'
    BY <1>2, <1>6 DEF L!EntriesFindTheirData, L!NoDataIsLost, L!HasData, L!DataOf
  <2> QED
    BY <1>2, <2>1, <2>2 DEF LibraryInv, LibraryIsSound
<1>7. CASE entry.existed /\ entry.step # "backup"
  <2>1. PICK n \in Parts : n = entry.writes.file
    BY <1>1, <1>7, UnderWay DEF EntryTypes
  <2>2. entry.picked /\ entry.saved \in Versions /\ entry.step \in {"install", "replace"}
    BY <1>1, <1>4, <1>7, UnderWay DEF EntryTypes
  <2>3. data' = [data EXCEPT ![n] = entry.saved] /\ backup' = [backup EXCEPT ![n] = @ \ {entry.saved}]
    BY <1>2, <1>7, <2>1, <2>2 DEF L!RolledBack, L!File
  <2>4. /\ data'[n] = entry.saved /\ backup'[n] = backup[n] \ {entry.saved}
        /\ \A m \in Parts \ {n} : data'[m] = data[m] /\ backup'[m] = backup[m]
        /\ data' \in [Parts -> Versions \cup {None}] /\ backup' \in [Parts -> SUBSET Versions]
    BY <1>3, <2>2, <2>3
  <2>5. ASSUME NEW p \in Parts, L!HasData(p)
        PROVE  /\ p \notin broken => data'[definition[p].file] = definition[p].means
               /\ definition[p].means \in {data'[definition[p].file]} \cup backup'[definition[p].file]
    <3>1. CASE definition[p].file = n
      <4>1. p = entry.path
        BY <1>1, <1>7, <2>1, <2>2, <2>5, <3>1, UnderWay DEF EntryOthers, Refers
      <4>2. entry.path \notin broken => entry.saved = definition[p].means
        BY <1>1, <2>1, <2>2, <2>5, <3>1, <4>1, UnderWay DEF EntryOwn
      <4>3. definition[p].means \in backup[n]
        BY <1>1, <2>1, <2>2, <2>5, <3>1, UnderWay DEF EntryOthers, Refers
      <4> QED
        BY <2>4, <3>1, <4>1, <4>2, <4>3
    <3>2. CASE definition[p].file # n
      <4>1. data'[definition[p].file] = L!DataOf(p) /\ backup'[definition[p].file] = backup[definition[p].file]
        BY <1>5, <2>4, <2>5, <3>2 DEF L!DataOf
      <4>2. p \notin broken => L!DataOf(p) = definition[p].means
        BY <1>1, <2>1, <2>2, <2>5, <3>2, UnderWay DEF EntryOwn, L!EntriesFindTheirData
      <4> QED
        BY <1>1, <2>5, <4>1, <4>2, UnderWay DEF L!NoDataIsLost
    <3> QED
      BY <3>1, <3>2
  <2> QED
    BY <1>6, <2>4, <2>5
<1>8. CASE ~entry.existed /\ entry.picked /\ entry.step = "replace"
  <2>1. PICK n \in Parts : n = entry.writes.file
    BY <1>1, <1>8, UnderWay DEF EntryTypes
  <2>2. data' = [data EXCEPT ![n] = None] /\ backup' = backup
    BY <1>2, <1>8, <2>1 DEF L!RolledBack, L!File
  <2>3. /\ \A m \in Parts \ {n} : data'[m] = data[m] /\ backup'[m] = backup[m]
        /\ data' \in [Parts -> Versions \cup {None}] /\ backup' \in [Parts -> SUBSET Versions]
    BY <1>3, <2>2
  <2>4. ASSUME NEW p \in Parts, L!HasData(p)
        PROVE  /\ p \notin broken => data'[definition[p].file] = definition[p].means
               /\ definition[p].means \in {data'[definition[p].file]} \cup backup'[definition[p].file]
    <3>1. CASE definition[p].file = n
      <4>1. definition[p].means \in backup[n]
        BY <1>1, <1>8, <2>1, <2>4, <3>1, UnderWay DEF EntryOthers, Refers
      <4>2. p # entry.path => p \in broken
        BY <1>1, <1>8, <2>1, <2>4, <3>1, UnderWay DEF EntryOthers, Refers
      <4>3. p = entry.path => p \in broken
        BY <1>1, <1>8, <2>1, <2>4, <3>1, UnderWay DEF EntryOwn
      <4> QED
        BY <2>2, <3>1, <4>1, <4>2, <4>3
    <3>2. CASE definition[p].file # n
      <4>1. data'[definition[p].file] = L!DataOf(p) /\ backup'[definition[p].file] = backup[definition[p].file]
        BY <1>5, <2>3, <2>4, <3>2 DEF L!DataOf
      <4>2. p \notin broken => L!DataOf(p) = definition[p].means
        BY <1>1, <1>8, <2>1, <2>4, <3>2, UnderWay DEF EntryOwn, L!EntriesFindTheirData
      <4> QED
        BY <1>1, <2>4, <4>1, <4>2, UnderWay DEF L!NoDataIsLost
    <3> QED
      BY <3>1, <3>2
  <2> QED
    BY <1>6, <2>3, <2>4
<1>9. CASE entry.step = "backup" \/ (~entry.existed /\ ~(entry.picked /\ entry.step = "replace"))
  <2>1. data' = data /\ backup' = backup
    BY <1>2, <1>9 DEF L!RolledBack
  <2>2. ASSUME NEW p \in Parts, L!HasData(p), p \notin broken
        PROVE  L!DataOf(p) = definition[p].means
    BY <1>1, <1>4, <1>9, <2>2, UnderWay DEF EntryOwn, L!EntriesFindTheirData
  <2> QED
    BY <1>1, <1>3, <1>6, <2>1, <2>2, UnderWay DEF L!NoDataIsLost, L!DataOf
<1> QED
  BY <1>7, <1>8, <1>9, <1>4

\* A save that ends in the middle: its entry is known to be broken, or had nothing moved.
LEMMA EndLibrary ==
  ASSUME LibraryInv, entry' = None, entry # None, L!TypeOK', L!CreatedOnce', L!IndexedIsOnDisk',
         UNCHANGED <<definition, data, backup>>,
         broken' = IF entry.picked THEN broken \cup {entry.path} ELSE broken
  PROVE  LibraryInv'
<1>1. L!NoDataIsLost' /\ MeansAreVersions'
  BY UnderWay DEF L!NoDataIsLost, MeansAreVersions, L!HasData, L!DataOf
<1>2. ASSUME NEW p \in Parts \ broken', L!HasData(p)
      PROVE  L!DataOf(p) = definition[p].means
  <2>1. CASE p = entry.path
    BY <1>2, <2>1, UnderWay DEF EntryOwn
  <2>2. CASE p # entry.path
    BY <1>2, <2>2, UnderWay DEF L!EntriesFindTheirData
  <2> QED
    BY <2>1, <2>2
<1>3. L!EntriesFindTheirData'
  BY <1>2 DEF L!EntriesFindTheirData, L!HasData, L!DataOf
<1> QED
  BY <1>1, <1>3 DEF LibraryInv, LibraryIsSound

LEMMA RollbackLibrary == ASSUME LibraryInv, L!RollbackFails PROVE LibraryInv'
<1>1. entry # None /\ L!RolledBack # data
  BY DEF L!RollbackFails
<1>2. entry.picked /\ entry.step # "tidy"
  BY <1>1, UnderWay DEF EntryTypes, L!RolledBack
<1>3. /\ entry' = None /\ broken' = broken \cup {entry.path}
      /\ UNCHANGED <<definition, data, backup, library, published, known, create, told>>
  BY DEF L!RollbackFails, L!disk, L!Unlisted
<1>4. L!TypeOK' /\ L!CreatedOnce' /\ L!IndexedIsOnDisk'
  BY <1>1, <1>2, <1>3, UnderWay DEF L!TypeOK, L!CreatedOnce, L!IndexedIsOnDisk, L!At
<1> QED
  BY <1>1, <1>2, <1>3, <1>4, EndLibrary

LEMMA ScanLibrary ==
  ASSUME LibraryInv, NEW s \in Both, L!Refresh(s) \/ L!Restart(s) PROVE LibraryInv'
<1>1. /\ UNCHANGED <<definition, data, backup, published, told>>
      /\ library' = IF s = s1 THEN definition ELSE library
      /\ known' = [known EXCEPT ![s] =
            L!PartsOf(definition) \cup {p \in Parts : published[p] # None}]
  BY DEF L!Refresh, L!Restart, L!Scan, L!disk
<1>2. L!TypeOK /\ L!CreatedOnce
  BY DEF LibraryInv, LibraryIsSound
<1>3. L!PartsOf(definition) \subseteq Parts
  BY <1>2 DEF L!PartsOf, L!TypeOK, L!Definitions
<1>4. library' \in [Parts -> L!Definitions \cup {None}] /\ known' \in [Both -> SUBSET Parts]
  BY <1>1, <1>2, <1>3 DEF L!TypeOK
<1>5. L!CreatedOnce'
  BY <1>1, <1>2 DEF L!CreatedOnce
<1>6. create' \in [Both -> Parts \cup {None}]
  BY <1>2 DEF L!TypeOK, L!Refresh, L!Restart
<1>7. CASE entry' = entry /\ broken' = broken /\ (s = s1 => entry = None)
  <2>1. library' = library
    BY <1>1, <1>2, <1>7 DEF L!TypeOK, LibraryInv, LibraryIsSound, L!IndexedIsOnDisk, L!At
  <2>2. L!TypeOK'
    BY <1>1, <1>2, <1>4, <1>6, <1>7 DEF L!TypeOK, L!File
  <2> QED
    BY <1>1, <1>5, <1>7, <2>1, <2>2, SameFiles
<1>8. CASE s = s1 /\ entry # None /\ L!Restart(s)
  <2>1. entry' = None /\ broken' = IF entry.picked THEN broken \cup {entry.path} ELSE broken
    BY <1>8 DEF L!Restart
  <2>2. broken' \subseteq Parts
    BY <1>2, <1>8, <2>1, UnderWay DEF L!TypeOK
  <2>3. L!TypeOK' /\ L!IndexedIsOnDisk'
    BY <1>1, <1>2, <1>4, <1>6, <1>8, <2>1, <2>2 DEF L!TypeOK, L!IndexedIsOnDisk
  <2> QED
    BY <1>1, <1>5, <1>8, <2>1, <2>3, EndLibrary
<1>9. L!Refresh(s) => <1>7!1
  BY DEF L!Refresh, L!Free
<1>10. L!Restart(s) => <1>7!1 \/ <1>8!1
  BY DEF L!Restart
<1> QED
  BY <1>7, <1>8, <1>9, <1>10

LEMMA LibraryStep == LibraryInv /\ L!Next => LibraryInv'
<1> SUFFICES ASSUME LibraryInv, L!Next PROVE LibraryInv'
  OBVIOUS
<1> QED
  BY SaveLibrary, BackUpLibrary, InstallLibrary, ReplaceLibrary, TidyLibrary, FailLibrary,
     RollbackLibrary, CreateLibrary, ScanLibrary DEF L!Next

LEMMA LibraryStays == LibraryInv /\ UNCHANGED libraryVars => LibraryInv'
<1> SUFFICES ASSUME LibraryInv, UNCHANGED libraryVars PROVE LibraryInv'
  OBVIOUS
<1>1. UNCHANGED <<definition, data, backup, published, library, known, entry, create, broken, told>>
  BY DEF libraryVars
<1>2. L!TypeOK' /\ L!CreatedOnce'
  BY <1>1 DEF LibraryInv, LibraryIsSound, L!TypeOK, L!CreatedOnce, L!File
<1> QED
  BY <1>1, <1>2, SameFiles

\* Whichever call of a save of the form fails, its rollback too, and wherever the program
\* ends: an entry has the S-parameters it was saved with, or is one the user was told of or
\* whose save the program ended in, and then a backup has them; what is listed is on disk;
\* and of all who create an entry for a part one is told that it did (app.cpp:1273,
\* component_library.cpp:527).
THEOREM TheLibraryIsSound == MCSpec => []LibraryIsSound
<1>1. MCInit => LibraryInv
  BY InitLibrary DEF MCInit
<1>2. LibraryInv /\ [MCNext]_<<part, vars, libraryVars>> => LibraryInv'
  BY LibraryStep, LibraryStays DEF MCNext
<1>3. LibraryInv => LibraryIsSound
  BY DEF LibraryInv
<1> QED
  BY <1>1, <1>2, <1>3, PTL DEF MCSpec
=============================================================================
