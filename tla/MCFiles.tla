------------------------------ MODULE MCFiles ------------------------------
(***************************************************************************)
(* The files of projects and of the library, in three parts one of which   *)
(* is chosen at first.  "project": one simulator saves two projects of one *)
(* directory, which refer to up to two data files, and ends at any step.   *)
(* "authoring": the user and the agent of one simulator author a library   *)
(* of two parts, with two backups.  "library": two simulators share it,    *)
(* with one backup.                                                        *)
(***************************************************************************)
EXTENDS ProjectSave, Integers, TLC

CONSTANTS t1, t2, c1, c2,                       \* "project"
          s1, s2, p1, p2, v1, v2, None,         \* simulators; "library"
          Both, Parts, Versions,                \* the sets of these three kinds
          Backups

VARIABLES
  part,
  definition, data, backup, published, library, known, entry, create, broken, told

L == INSTANCE LibraryFiles WITH
       Simulators <- Both, Author <- s1, MaxBackups <- Backups, form <- entry
libraryVars ==
  <<definition, data, backup, published, library, known, entry, create, broken, told>>

ASSUME LibraryInstance == L!LibraryAssumption

Alike == Permutations({p1, p2}) \cup Permutations({v1, v2})

\* A part that was not chosen starts in one way only, and stays there.
MCInit ==
  /\ part \in {"project", "library", "authoring"} /\ Init
  /\ L!Init
  /\ part # "project" => rfData = NoFile /\ temp = [t \in Projects |-> NoFile]
  /\ part = "project" => data[p1] = v1 /\ definition = [p \in {p1, p2} |-> None]
\* Of "authoring", the other simulator takes no step; of "library", one backup at most.
Alone == \A s \in Both \ {s1} : create'[s] = create[s] /\ known'[s] = known[s]
OneBackup == \A n, m \in Parts : \A v \in backup'[n], w \in backup'[m] : n = m /\ v = w
MCNext ==
  \/ part = "project" /\ Next /\ UNCHANGED <<part, libraryVars>>
  \/ part = "authoring" /\ L!Next /\ Alone /\ UNCHANGED <<part, vars>>
  \/ part = "library" /\ L!Next /\ OneBackup /\ UNCHANGED <<part, vars>>
MCSpec == MCInit /\ [][MCNext]_<<part, vars, libraryVars>>

\* An entry has the S-parameters it was saved with or says that it lost them, none is
\* lost for good, what is listed is on disk, and an entry is created by one agent only.
LibraryIsSound ==
  L!TypeOK /\ L!CreatedOnce /\ L!EntriesFindTheirData /\ L!NoDataIsLost /\ L!IndexedIsOnDisk
=============================================================================
