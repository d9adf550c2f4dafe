---------------------------- MODULE LibraryFiles ----------------------------
(***************************************************************************)
(* The user's component library on disk and in memory: the authoring form  *)
(* (RfSimulatorApp::saveComponentForm, app/src/app.cpp), the entries an    *)
(* agent creates (ComponentLibrary::createUserEntry,                       *)
(* app/src/component_library.cpp, agent/api/src/tool_library_create.cpp)   *)
(* and the scan that reads the library again.                              *)
(*                                                                         *)
(* The form writes two files, the definition and the S-parameter file it   *)
(* names, with a rename each and a backup of the S-parameter file it       *)
(* replaces; every call may fail, the rollback too, and the program may    *)
(* end between any two.  An agent's entry is one file, published by a hard *)
(* link that never replaces anything; several simulators share the         *)
(* library.                                                                *)
(*                                                                         *)
(* Entries of the form are in one directory and are named by their part:   *)
(* the definition of a new part, and the S-parameter file of a part, have  *)
(* its name.  An edit keeps the path of the definition whatever the part   *)
(* is called now.  The contents of an S-parameter file are a version, and  *)
(* a definition carries the version it was saved with (means), which the   *)
(* file on disk does not say.  Temporary files have names of their own and *)
(* are never read.                                                         *)
(***************************************************************************)
EXTENDS Integers, FiniteSets

CONSTANTS
  Simulators,
  Author,     \* the one of them whose user fills in forms
  Parts,      \* part numbers, and the names of files made from them
  Versions,   \* contents of S-parameter files
  None,
  MaxBackups  \* bound: how many backups there are

VARIABLES
  definition, \* the definitions on disk, by path
  data,       \* the S-parameter files on disk, by name
  backup,     \* the contents of the backups of each S-parameter file
  published,  \* who published each part's agent entry
  library,    \* m_library of the author's simulator, but for the entries of agents
  known,      \* the parts of the entries of m_library, in each simulator
  form,       \* the save under way in the author's simulator
  create,     \* the creation under way in each simulator
  \* history: entries the program ended on or could not roll back, and who
  \* was told that an entry was created
  broken, told
vars == <<definition, data, backup, published, library, known, form, create, broken, told>>
disk == <<definition, data, backup>>

Definitions == [part : Parts, file : Parts \cup {None}, means : Versions \cup {None}]
\* A form: the path it writes, the definition it writes, whether an S-parameter
\* file was picked, and whether there was one of this name.
Forms == [step : {"backup", "install", "replace", "tidy"}, path : Parts, writes : Definitions,
          picked : BOOLEAN, existed : BOOLEAN, saved : Versions \cup {None}]

LibraryAssumption ==
  /\ Author \in Simulators /\ MaxBackups \in Nat
  /\ None \notin Parts /\ None \notin Versions /\ None \notin Simulators
  /\ None \notin Definitions /\ None \notin Forms

\* What a scan finds: every definition that can be read.
PartsOf(entries) == {entries[p].part : p \in {q \in Parts : entries[q] # None}}
Scan(s) ==
  /\ library' = IF s = Author THEN definition ELSE library
  /\ known' = [known EXCEPT ![s] =
       PartsOf(definition) \cup {p \in Parts : published[p] # None}]

\* A library by hand: parts with a file of their own, or with one they share.
Init ==
  \E v \in Versions, q \in Parts :
    /\ data = [n \in Parts |-> IF n = q THEN v ELSE None]
    /\ definition \in [Parts -> {None} \cup
         {[part |-> p, file |-> f, means |-> IF f = q THEN v ELSE None] : p \in Parts, f \in {q, None}}]
    /\ \A p \in Parts : definition[p] # None => definition[p].part = p
    /\ backup = [n \in Parts |-> {}]
    /\ published = [p \in Parts |-> None]
    /\ library = definition
    /\ known = [s \in Simulators |-> PartsOf(definition)]
    /\ form = None
    /\ create = [s \in Simulators |-> None]
    /\ broken = {} /\ told = {}

Free(s) == create[s] = None /\ (s = Author => form = None)

-----------------------------------------------------------------------------
(* The form. *)

\* Only the entry that is edited may lose its S-parameter file.
Owned(path, name) ==
  /\ library[path] # None /\ library[path].file = name
  /\ \A p \in Parts \ {path} :
       library[p] # None => library[p].file # name

\* A save of the form passes its checks: the definition goes to a temporary file,
\* and so does the S-parameter file, if one was picked.
StageForm(path, writes, picked) ==
  form' = [step |-> IF ~picked THEN "replace"
                    ELSE IF data[writes.file] = None THEN "install" ELSE "backup",
           path |-> path, writes |-> writes, picked |-> picked,
           existed |-> picked /\ data[writes.file] # None, saved |-> None]
Pick(path, p) ==
  \E v \in Versions :
    /\ data[p] # None => Owned(path, p)
    /\ StageForm(path, [part |-> p, file |-> p, means |-> v], TRUE)
SaveNew(p) ==
  /\ Free(Author) /\ definition[p] = None
  /\ \/ StageForm(p, [part |-> p, file |-> None, means |-> None], FALSE)
     \/ data[p] = None /\ Pick(p, p)
  /\ UNCHANGED <<disk, published, library, known, create, broken, told>>
\* The part may have been given another number.
SaveEdited(path, p) ==
  /\ Free(Author) /\ library[path] # None
  /\ \/ StageForm(path, [library[path] EXCEPT !.part = p], FALSE)
     \/ Pick(path, p)
  /\ UNCHANGED <<disk, published, library, known, create, broken, told>>

At(step) == form # None /\ form.step = step
File == form.writes.file
Unlisted == <<published, known, create, told>>
\* The S-parameter file that is there is kept as a backup.
BackUp ==
  /\ At("backup") /\ data[File] # None
  /\ Cardinality(UNION {{n} \X backup[n] : n \in Parts}) < MaxBackups
  /\ backup' = [backup EXCEPT ![File] = @ \cup {data[File]}]
  /\ data' = [data EXCEPT ![File] = None]
  /\ form' = [form EXCEPT !.step = "install", !.saved = data[File]]
  /\ UNCHANGED <<definition, library, broken, Unlisted>>
Install ==
  /\ At("install")
  /\ data' = [data EXCEPT ![File] = form.writes.means]
  /\ form' = [form EXCEPT !.step = "replace"]
  /\ UNCHANGED <<definition, backup, library, broken, Unlisted>>
\* The definition replaces the old one.  The rest cannot fail the save.
Replace ==
  /\ At("replace")
  /\ definition' = [definition EXCEPT ![form.path] = form.writes]
  /\ form' = [form EXCEPT !.step = "tidy"]
  /\ UNCHANGED <<data, backup, library, broken, Unlisted>>
\* The backup is removed, if it can be, and the library has the definition.
Tidy ==
  /\ At("tidy")
  /\ backup' \in {backup} \cup
       (IF form.existed THEN {[backup EXCEPT ![File] = @ \ {form.saved}]} ELSE {})
  /\ library' = [library EXCEPT ![form.path] = form.writes]
  /\ known' = [known EXCEPT ![Author] = PartsOf(library') \cup {p \in Parts : published[p] # None /\ p \in @}]
  /\ broken' = IF form.picked THEN broken \ {form.path} ELSE broken
  /\ form' = None
  /\ UNCHANGED <<definition, data, published, create, told>>

\* What undoes the steps there were: the backup gets its name back, or what was
\* installed is removed.
RolledBack ==
  CASE form.existed /\ form.step \in {"install", "replace"} -> [data EXCEPT ![File] = form.saved]
    [] form.picked /\ ~form.existed /\ form.step = "replace" -> [data EXCEPT ![File] = None]
    [] OTHER -> data
FormFails ==
  /\ form # None /\ form.step # "tidy"
  /\ data' = RolledBack
  /\ backup' = IF form.existed /\ form.step # "backup"
                 THEN [backup EXCEPT ![File] = @ \ {form.saved}] ELSE backup
  /\ form' = None
  /\ UNCHANGED <<definition, library, broken, Unlisted>>
\* Mutant: the backup goes although it did not get its name back
RollbackFailsTidily ==
  /\ form # None /\ RolledBack # data
  /\ backup' = [backup EXCEPT ![File] = @ \ {form.saved}]
  /\ form' = None
  /\ broken' = broken \cup {form.path}
  /\ UNCHANGED <<definition, data, library, Unlisted>>
\* The rollback fails too, and the form says so.
RollbackFails ==
  /\ form # None /\ RolledBack # data
  /\ form' = None
  /\ broken' = broken \cup {form.path}
  /\ UNCHANGED <<disk, library, Unlisted>>

-----------------------------------------------------------------------------
(* An agent's library_create. *)

Formless == <<disk, library, form, broken>>
\* No entry of this part is known, and none is at the destination.
StartCreate(s, p) ==
  /\ Free(s)
  /\ p \notin known[s]
  /\ published[p] = None
  /\ create' = [create EXCEPT ![s] = p]
  /\ UNCHANGED <<Formless, published, known, told>>
\* create_hard_link succeeds for one of those who stage the same part.
Publish(s) ==
  LET p == create[s] IN
  /\ p # None /\ published[p] = None
  /\ published' = [published EXCEPT ![p] = s]
  /\ known' = [known EXCEPT ![s] = @ \cup {p}]
  /\ told' = told \cup {<<s, p>>}
  /\ create' = [create EXCEPT ![s] = None]
  /\ UNCHANGED Formless
\* A write, the link or the index fails; what was published is removed.
CreateFails(s) ==
  /\ create[s] # None
  /\ create' = [create EXCEPT ![s] = None]
  /\ UNCHANGED <<Formless, published, known, told>>

-----------------------------------------------------------------------------
(* Refresh, and the end of the program. *)

Refresh(s) ==
  /\ Free(s) /\ Scan(s)
  /\ UNCHANGED <<disk, published, form, create, broken, told>>
\* What the author's simulator had moved stays where it was.
Restart(s) ==
  /\ create' = [create EXCEPT ![s] = None]
  /\ form' = IF s = Author THEN None ELSE form
  /\ broken' = IF s = Author /\ form # None /\ form.picked
                 THEN broken \cup {form.path} ELSE broken
  /\ Scan(s)
  /\ UNCHANGED <<disk, published, told>>

Next ==
  \/ \E p \in Parts : SaveNew(p) \/ \E path \in Parts : SaveEdited(path, p)
  \/ BackUp \/ Install \/ Replace \/ Tidy \/ FormFails \/ RollbackFails
  \/ \E s \in Simulators :
       \/ Publish(s) \/ CreateFails(s) \/ Refresh(s) \/ Restart(s)
       \/ \E p \in Parts : StartCreate(s, p)

Spec == Init /\ [][Next]_vars

-----------------------------------------------------------------------------
(* Properties. *)

\* Types, and what a save of the form has kept by its step: the file it
\* replaces is in a backup (app.cpp:1299).
TypeOK ==
  /\ definition \in [Parts -> Definitions \cup {None}]
  /\ data \in [Parts -> Versions \cup {None}]
  /\ backup \in [Parts -> SUBSET Versions]
  /\ published \in [Parts -> Simulators \cup {None}]
  /\ library \in [Parts -> Definitions \cup {None}]
  /\ known \in [Simulators -> SUBSET Parts]
  /\ form \in Forms \cup {None}
  /\ create \in [Simulators -> Parts \cup {None}]
  /\ form # None /\ form.existed /\ form.step # "backup" => form.saved \in backup[File]
  /\ broken \subseteq Parts /\ told \subseteq Simulators \X Parts

DataOf(p) == data[definition[p].file]
HasData(p) == definition[p] # None /\ definition[p].file # None

\* An entry finds the S-parameters it was saved with, whatever other entry was
\* authored and whichever call of its own save failed: but for an entry whose
\* save the program ended in, or whose rollback failed (app.cpp:1273).
EntriesFindTheirData ==
  \A p \in Parts \ broken : HasData(p) /\ (form = None \/ form.path # p) =>
    DataOf(p) = definition[p].means

\* Not even then are the S-parameters of an entry gone: they are under their
\* name or in a backup (app.cpp:1299).
NoDataIsLost ==
  \A p \in Parts : HasData(p) =>
    definition[p].means \in {DataOf(p)} \cup backup[definition[p].file]

\* The author's library is what is on disk: an entry is indexed when its file is
\* in place, and not before (app.cpp:1351).
IndexedIsOnDisk ==
  \A p \in Parts : library[p] # definition[p] => At("tidy") /\ form.path = p

\* Of all the simulators that create an entry for a part, one is told that it did,
\* and its entry is the one on disk (component_library.cpp:527).
CreatedOnce == \A s \in Simulators, p \in Parts : <<s, p>> \in told => published[p] = s
=============================================================================
