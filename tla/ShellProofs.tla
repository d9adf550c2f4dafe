---------------------------- MODULE ShellProofs ----------------------------
(***************************************************************************)
(* Proofs about Shell and Extensions, for any directories, projects,       *)
(* extensions and layouts.                                                 *)
(*                                                                         *)
(* Most steps are a frame that leaves a project behind and raises a        *)
(* dialog or not.  FrameStep says what all of them have in common: the     *)
(* project has its type, its extensions are its own, and what was unsaved  *)
(* was given up on purpose.  What the trust store says is kept apart from  *)
(* it: only three steps write it.                                          *)
(***************************************************************************)
EXTENDS MCShell, FiniteSetTheorems, SequenceTheorems, WellFoundedInduction, TLAPS

WellPlaced(p) == p.root = RootOf(p.path) \/ p.adopted
GivenUp(effects) == effects \cap {"replaced", "exited"} # {}
Knowingly(input, effects) == input \in {"discard", "close"} \/ "saved" \in effects

FrameStep ==
    \E p \in Projects, input \in {"discard", "close", "other"}, raised, closed \in BOOLEAN :
        /\ Frame(input, p, raised, closed)
        /\ WellPlaced(project) => WellPlaced(p)
        /\ project.dirty /\ GivenUp(p.effects) => Knowingly(input, p.effects)

\* A prompt is only shown with the folder it asks about; what memory and file say was
\* granted.
TrustInv ==
    /\ dialog = "trust" => pending \in Folders
    /\ project.running => approved \in Loads(store)
    /\ Contents(store) \subseteq granted

\* The layout that is being renamed is there.
LayoutInv == IsFiniteSet(layouts) /\ (renaming # NoLayout => renaming \in layouts)

-----------------------------------------------------------------------------
(* Projects *)

LEMMA RefreshedProject ==
    ASSUME NEW p \in Projects
    PROVE  /\ Refreshed(p) \in Projects /\ Refreshed(p).effects = p.effects
           /\ WellPlaced(Refreshed(p))
<1>1. RootOf(p.path) \in Dirs
    BY ExtensionsAssumption, ShellAssumption DEF RootOf, Projects
<1> QED BY <1>1 DEF Refreshed, Projects, WellPlaced

LEMMA ReplacedProject ==
    ASSUME NEW p \in Projects, NEW path \in Paths \cup {NoPath}, NEW dirty \in BOOLEAN
    PROVE  /\ Replaced(p, path, dirty) \in Projects /\ WellPlaced(Replaced(p, path, dirty))
           /\ Replaced(p, path, dirty).effects = p.effects \cup {"replaced"}
<1> DEFINE q == [p EXCEPT !.path = path]
<1>1. q \in Projects /\ q.effects = p.effects
    BY DEF Projects
<1>2. Refreshed(q) \in Projects /\ Refreshed(q).effects = p.effects /\ WellPlaced(Refreshed(q))
    BY <1>1, RefreshedProject
<1> HIDE DEF q
<1>3. Replaced(p, path, dirty) =
        [Refreshed(q) EXCEPT !.dirty = dirty, !.effects = Refreshed(q).effects \cup {"replaced"}]
    BY DEF Replaced, q
<1> QED BY <1>2, <1>3 DEF Projects, Effects, WellPlaced

LEMMA SavedProject ==
    ASSUME NEW p \in Projects, WellPlaced(p), p.effects = {},
           NEW q \in Save(p) \cup SaveFile(p)
    PROVE  /\ q \in Projects /\ WellPlaced(q) /\ ~GivenUp(q.effects)
           /\ p.dirty /\ ~q.dirty => "saved" \in q.effects
<1>1. ASSUME NEW path \in Paths, NEW r \in SaveProject(p, path)
      PROVE  /\ r \in Projects /\ WellPlaced(r) /\ ~GivenUp(r.effects)
             /\ p.dirty /\ ~r.dirty => "saved" \in r.effects
    BY ZenonT(30) DEF SaveProject, Projects, WellPlaced, GivenUp, Effects
<1>2. q = p \/ \E path \in Paths : q \in SaveProject(p, path)
    BY DEF Save, SaveFile, Projects
<1> QED BY <1>1, <1>2 DEF GivenUp

LEMMA LoadedProject ==
    ASSUME NEW p \in Projects, WellPlaced(p), NEW path \in Paths, NEW q \in LoadProject(p, path)
    PROVE  q \in Projects /\ WellPlaced(q) /\ p.effects \subseteq q.effects
BY ReplacedProject DEF LoadProject

LEMMA PerformedProject ==
    ASSUME NEW p \in Projects, WellPlaced(p), NEW action, NEW q \in Perform(action, p)
    PROVE  q \in Projects /\ WellPlaced(q) /\ p.effects \subseteq q.effects
<1>1. NewProject(p) \in Projects /\ WellPlaced(NewProject(p))
      /\ p.effects \subseteq NewProject(p).effects
    BY ReplacedProject DEF NewProject
<1>2. StartTutorial(p) \in Projects /\ WellPlaced(StartTutorial(p))
      /\ p.effects \subseteq StartTutorial(p).effects
    BY <1>1 DEF StartTutorial, Projects, Effects, WellPlaced
<1>3. ExitApplication(p) \in Projects /\ WellPlaced(ExitApplication(p))
      /\ p.effects \subseteq ExitApplication(p).effects
    BY DEF ExitApplication, Projects, Effects, WellPlaced
<1>4. q \in OpenFile(p) => q \in Projects /\ WellPlaced(q) /\ p.effects \subseteq q.effects
    BY LoadedProject DEF OpenFile
<1> QED BY <1>1, <1>2, <1>3, <1>4 DEF Perform

-----------------------------------------------------------------------------
(* Frames *)

\* What a frame leaves behind, whatever else the step does.
LEMMA FrameTypes ==
    ASSUME TypeOK, FrameStep, pending' \in Folders \cup {NoFolder}, sticky' \subseteq Sticky
    PROVE  /\ project' \in Projects /\ project'.effects = {}
           /\ WellPlaced(project) => WellPlaced(project')
           /\ dialog' \in Dialogs /\ (dialog' = "trust" => pending' \in Folders)
           /\ tutorial' \in 0..Steps
           /\ did'.effects \subseteq Effects
           /\ project.dirty /\ GivenUp(did'.effects) => Knowingly(did'.input, did'.effects)
<1>1. PICK p \in Projects, input \in {"discard", "close", "other"}, raised, closed \in BOOLEAN :
        /\ Frame(input, p, raised, closed)
        /\ WellPlaced(project) => WellPlaced(p)
        /\ project.dirty /\ GivenUp(p.effects) => Knowingly(input, p.effects)
    BY DEF FrameStep
<1>2. project' = [p EXCEPT !.effects = {}] /\ did' = [input |-> input, effects |-> p.effects]
    BY <1>1 DEF Frame
<1>3. project' \in Projects /\ project'.effects = {} /\ (WellPlaced(p) => WellPlaced(project'))
    BY <1>2 DEF Projects, WellPlaced
<1>4. dialog' \in Dialogs /\ (dialog' = "trust" => pending' \in Folders)
    BY <1>1 DEF Frame, Shown, Dialogs, Sticky
<1>5. tutorial' \in 0..Steps
    BY <1>1, ShellAssumption DEF Frame, TypeOK
<1>6. did'.effects = p.effects /\ did'.input = input /\ p.effects \subseteq Effects
    BY <1>2 DEF Projects
<1> QED BY <1>1, <1>3, <1>4, <1>5, <1>6

\* A frame that leaves the project as it is, or edited, or rescanned.
LEMMA PlainFrame ==
    ASSUME TypeOK, NEW p \in Projects, NEW raised \in BOOLEAN, NEW closed \in BOOLEAN,
           NEW input \in {"discard", "close", "other"}, Frame(input, p, raised, closed),
           WellPlaced(project) => WellPlaced(p), p.effects = {}
    PROVE  FrameStep
BY DEF FrameStep, GivenUp

\* The steps that only change the project are frames.
LEMMA ProjectFrames ==
    ASSUME TypeOK, WellPlaced(project),
           \/ Idle \/ Menu \/ Shortcut \/ SaveKey \/ Edit \/ AgentLoad
           \/ SaveFirst \/ Discard \/ Cancel \/ CloseWindow \/ Refresh
    PROVE  /\ FrameStep /\ OnlyProject /\ NothingRan /\ project.running
           /\ request' \in Requests \cup {"None"}
<1> USE DEF TypeOK
<1>0. project \in Projects /\ project.effects = {} /\ ~GivenUp(project.effects)
    BY DEF GivenUp
<1>1. CASE Idle
    BY <1>0, <1>1, PlainFrame DEF Idle
<1>2. ASSUME NEW action \in Requests, Ask(action)
      PROVE  /\ FrameStep /\ OnlyProject /\ NothingRan /\ project.running
             /\ request' \in Requests \cup {"None"}
    <2>1. OnlyProject /\ NothingRan /\ project.running /\ request' \in Requests \cup {"None"}
        BY <1>2 DEF Ask
    <2>2. CASE project.dirty
        BY <1>0, <1>2, <2>2, PlainFrame DEF Ask
    <2>3. CASE ~project.dirty
        BY <1>0, <1>2, <2>3, PerformedProject DEF Ask, FrameStep
    <2> QED BY <2>1, <2>2, <2>3
<1>3. CASE SaveKey
    <2>1. PICK p \in Save(project) \cup SaveFile(project) : Frame("other", p, FALSE, FALSE)
        BY <1>3 DEF SaveKey
    <2>2. p \in Projects /\ WellPlaced(p) /\ ~GivenUp(p.effects)
        BY <1>0, SavedProject
    <2>3. FrameStep
        BY <2>1, <2>2 DEF FrameStep
    <2> QED BY <1>3, <2>3 DEF SaveKey
<1>4. CASE Edit
    <2>1. [project EXCEPT !.dirty = TRUE] \in Projects
          /\ WellPlaced([project EXCEPT !.dirty = TRUE])
          /\ [project EXCEPT !.dirty = TRUE].effects = {}
        BY <1>0 DEF Projects, WellPlaced
    <2> QED BY <1>4, <2>1, PlainFrame DEF Edit
<1>5. CASE AgentLoad
    <2>1. PICK path \in Paths : \E p \in LoadProject(project, path) : Frame("other", p, FALSE, FALSE)
        BY <1>5 DEF AgentLoad
    <2>2. FrameStep
        BY <1>0, <1>5, <2>1, LoadedProject DEF AgentLoad, FrameStep
    <2> QED BY <1>5, <2>2 DEF AgentLoad
<1>6. CASE SaveFirst
    <2>1. PICK p \in Save(project) :
            IF p.dirty
            THEN UNCHANGED request /\ Frame("other", p, FALSE, FALSE)
            ELSE /\ request' = "None"
                 /\ \E q \in Perform(request, p) : Frame("other", q, FALSE, TRUE)
        BY <1>6 DEF SaveFirst
    <2>2. /\ p \in Projects /\ WellPlaced(p) /\ ~GivenUp(p.effects)
          /\ project.dirty /\ ~p.dirty => "saved" \in p.effects
        BY <1>0, SavedProject
    <2>3. CASE p.dirty
        BY <1>6, <2>1, <2>2, <2>3 DEF SaveFirst, FrameStep
    <2>4. CASE ~p.dirty
        <3>1. PICK q \in Perform(request, p) : Frame("other", q, FALSE, TRUE)
            BY <2>1, <2>4
        <3>2. q \in Projects /\ WellPlaced(q) /\ p.effects \subseteq q.effects
            BY <2>2, PerformedProject
        <3>3. FrameStep
            BY <2>2, <2>4, <3>1, <3>2 DEF FrameStep, Knowingly
        <3> QED BY <1>6, <2>1, <2>4, <3>3 DEF SaveFirst
    <2> QED BY <2>3, <2>4
<1>7. CASE Discard
    <2>1. PICK p \in Perform(request, project) : Frame("discard", p, FALSE, TRUE)
        BY <1>7 DEF Discard
    <2>2. FrameStep
        BY <1>0, <2>1, PerformedProject DEF FrameStep, Knowingly
    <2> QED BY <1>7, <2>2 DEF Discard
<1>8. CASE Cancel
    BY <1>0, <1>8, PlainFrame DEF Cancel
<1>9. CASE CloseWindow
    <2>1. ExitApplication(project) \in Projects /\ WellPlaced(ExitApplication(project))
        BY <1>0 DEF ExitApplication, Projects, Effects, WellPlaced
    <2>2. FrameStep
        BY <1>9, <2>1 DEF CloseWindow, FrameStep, Knowingly
    <2> QED BY <1>9, <2>2 DEF CloseWindow
<1>10. CASE Refresh
    BY <1>0, <1>10, RefreshedProject, PlainFrame DEF Refresh
<1> QED BY <1>1, <1>2, <1>3, <1>4, <1>5, <1>6, <1>7, <1>8, <1>9, <1>10 DEF Menu, Shortcut, Requests

\* The steps of the welcome and of the layouts are frames that leave the trust alone.
LEMMA WindowFrames ==
    ASSUME TypeOK, WellPlaced(project),
           \/ \E start \in BOOLEAN : AnswerWelcome(start)
           \/ \E d \in {"saveLayout", "manageLayouts", "form"} : OpenSticky(d)
           \/ SaveLayout \/ ManageLayouts \/ CloseManage \/ CloseForm
    PROVE  /\ FrameStep /\ NothingRan /\ project.running
           /\ UNCHANGED <<approved, store, pending, granted>>
           /\ request' \in Requests \cup {"None"} /\ sticky' \subseteq Sticky
           /\ answered' \in BOOLEAN
<1> USE DEF TypeOK
<1>0. project \in Projects /\ project.effects = {}
    OBVIOUS
<1>1. ASSUME NEW start \in BOOLEAN, AnswerWelcome(start)
      PROVE  /\ FrameStep /\ NothingRan /\ project.running
             /\ UNCHANGED <<approved, store, pending, granted>>
             /\ request' \in Requests \cup {"None"} /\ sticky' \subseteq Sticky
             /\ answered' \in BOOLEAN
    <2>1. CASE start /\ project.dirty
        BY <1>0, <1>1, <2>1, PlainFrame DEF AnswerWelcome, OnlySticky, Requests
    <2>2. CASE start /\ ~project.dirty
        <3>1. StartTutorial(project) \in Projects /\ WellPlaced(StartTutorial(project))
            <4>1. StartTutorial(project) \in Perform("Tutorial", project)
                BY DEF Perform
            <4> QED BY <1>0, <4>1, PerformedProject
        <3>2. FrameStep
            BY <1>1, <2>2, <3>1 DEF AnswerWelcome, FrameStep
        <3> QED BY <1>1, <2>2, <3>2 DEF AnswerWelcome, OnlySticky
    <2>3. CASE ~start
        BY <1>0, <1>1, <2>3, PlainFrame DEF AnswerWelcome, OnlySticky
    <2> QED BY <2>1, <2>2, <2>3
<1>2. ASSUME NEW d \in {"saveLayout", "manageLayouts", "form"}, OpenSticky(d)
      PROVE  /\ FrameStep /\ NothingRan /\ project.running
             /\ UNCHANGED <<approved, store, pending, granted>>
             /\ request' \in Requests \cup {"None"} /\ sticky' \subseteq Sticky
             /\ answered' \in BOOLEAN
    BY <1>0, <1>2, PlainFrame DEF OpenSticky, OnlySticky, Sticky
<1>3. CASE SaveLayout \/ CloseManage
    BY <1>0, <1>3, PlainFrame DEF SaveLayout, CloseManage, CloseSticky
<1>4. CASE ManageLayouts
    BY <1>0, <1>4, PlainFrame DEF ManageLayouts
<1>5. CASE CloseForm
    <2>1. PICK saved \in BOOLEAN : CloseSticky("form", [project EXCEPT !.dirty = @ \/ saved])
        BY <1>5 DEF CloseForm
    <2>2. [project EXCEPT !.dirty = @ \/ saved] \in Projects
          /\ WellPlaced([project EXCEPT !.dirty = @ \/ saved])
          /\ [project EXCEPT !.dirty = @ \/ saved].effects = {}
        BY <1>0 DEF Projects, WellPlaced
    <2> QED BY <1>5, <2>1, <2>2, PlainFrame DEF CloseForm, CloseSticky
<1> QED BY <1>1, <1>2, <1>3, <1>4, <1>5

\* The tools of a project are folders.
LEMMA ListedFolders ==
    ASSUME NEW dir \in Dirs, NEW i \in Tools(dir)
    PROVE  Listed(dir)[i].folder \in Folders
<1>1. /\ Found["source"] \in Seq(Manifests) /\ Found["exe"] \in Seq(Manifests)
      /\ Found["home"] \in Seq(Manifests) /\ Found[dir] \in Seq(Manifests)
    BY ExtensionsAssumption DEF Places
<1>2. Listed(dir) \in Seq(Manifests)
    BY <1>1, ConcatProperties DEF Listed
<1>3. Listed(dir)[i] \in Manifests
    BY <1>2, ElementOfSeq, LenProperties DEF Tools
<1> QED BY <1>3 DEF Manifests

\* A file that was read approves folders, and a file is never taken for another.
LEMMA ContentsOfStore ==
    ASSUME NEW s, s = Cut \/ s \subseteq Folders
    PROVE  /\ Contents(s) \subseteq Folders /\ (s \subseteq Folders => Contents(s) = s)
           /\ \A entries \in Loads(s) : entries \subseteq Contents(s) /\ entries \subseteq Folders
           /\ Contents(s) \in Loads(s)
BY ExtensionsAssumption DEF Contents, Loads

\* After a write that succeeded or failed, memory tells what the file tells, or nothing
\* when it could not be read, and the file no more than what was to be written and what
\* it said before.
LEMMA SavedStore ==
    ASSUME TypeOK, NEW entries \in SUBSET Folders, Saves(entries)
    PROVE  /\ approved' \in Loads(store') /\ approved' \subseteq Folders
           /\ store' = Cut \/ store' \subseteq Folders
           /\ Contents(store') \subseteq entries \cup Contents(store)
<1>1. store' \in {store, Cut, entries} /\ approved' \in Loads(store')
    BY ContentsOfStore DEF Saves
<1>2. Contents(Cut) = {}
    BY DEF Contents
<1> QED BY <1>1, <1>2, ContentsOfStore DEF TypeOK

\* The steps of the extensions are frames, run only what may run, and keep the trust.
LEMMA ExtensionFrames ==
    ASSUME TypeOK, WellPlaced(project), TrustInv,
           RunExtension \/ RequestTrust \/ RevokeTrust \/ AnswerTrust
    PROVE  /\ FrameStep /\ OnlyExtensions /\ project.running
           /\ approved' \subseteq Folders /\ (store' = Cut \/ store' \subseteq Folders)
           /\ pending' \in Folders \cup {NoFolder} /\ granted' \subseteq Folders
           /\ ran' \in Folders \cup {NoFolder}
           /\ approved' \in Loads(store') /\ Contents(store') \subseteq granted'
           /\ ran' # NoFolder /\ ProjectLocal(project.root, ran') => ran' \in granted
<1> USE DEF TypeOK
<1>0. project \in Projects /\ project.effects = {} /\ project.root \in Dirs
    BY DEF Projects
<1>1. CASE RunExtension
    <2>1. PICK i \in Offered(project.root), outcome \in RunOutcomes :
            /\ RunTool(project.root, i, outcome)
            /\ Frame("other", IF outcome = "ok" THEN Refreshed(project) ELSE project, FALSE, FALSE)
        BY <1>1 DEF RunExtension
    <2>2. FrameStep
        BY <1>0, <2>1, RefreshedProject, PlainFrame
    <2>3. Listed(project.root)[i].folder \in Folders
        BY <1>0, ListedFolders DEF Offered
    <2>4. ProjectLocal(project.root, Listed(project.root)[i].folder) =>
            Listed(project.root)[i].folder \in approved
        BY <2>1 DEF RunTool, RequiresTrust
    <2> QED BY <1>1, <2>1, <2>2, <2>3, <2>4 DEF RunExtension, RunTool, TrustInv, Loads, Contents
<1>2. CASE RequestTrust
    <2>1. pending' \in Folders
        BY <1>0, <1>2, ListedFolders DEF RequestTrust
    <2> QED BY <1>0, <1>2, <2>1, PlainFrame DEF RequestTrust, NothingRan, TrustInv
<1>3. CASE RevokeTrust
    <2>1. PICK i \in Offered(project.root) : Revoke(Listed(project.root)[i].folder)
        BY <1>3 DEF RevokeTrust
    <2> DEFINE folder == Listed(project.root)[i].folder
    <2>2. /\ folder \in approved /\ Saves(approved \ {folder}) /\ UNCHANGED pending
          /\ granted' = IF folder \in Contents(store') THEN granted ELSE granted \ {folder}
        BY <2>1 DEF Revoke
    <2>3. /\ approved' \in Loads(store') /\ approved' \subseteq Folders
          /\ store' = Cut \/ store' \subseteq Folders
          /\ Contents(store') \subseteq (approved \ {folder}) \cup Contents(store)
        BY <2>2, SavedStore
    <2>4. project.running /\ OnlyExtensions /\ NothingRan /\ FrameStep
        BY <1>0, <1>3, PlainFrame DEF RevokeTrust
    <2>5. Contents(store') \subseteq granted'
        BY <2>2, <2>3, <2>4 DEF TrustInv, Loads, Contents
    <2> QED BY <2>2, <2>3, <2>4, <2>5 DEF NothingRan
<1>4. CASE AnswerTrust
    <2>1. project.running /\ OnlyExtensions /\ NothingRan /\ FrameStep
        BY <1>0, <1>4, PlainFrame DEF AnswerTrust
    <2>2. CASE Grant
        <3>1. pending \in Folders
            BY <1>4 DEF AnswerTrust, Open, TrustInv
        <3>2. /\ approved' \in Loads(store') /\ approved' \subseteq Folders
              /\ store' = Cut \/ store' \subseteq Folders
              /\ Contents(store') \subseteq (approved \cup {pending}) \cup Contents(store)
            BY <2>2, <3>1, SavedStore DEF Grant
        <3> QED BY <2>1, <2>2, <3>1, <3>2 DEF Grant, NothingRan, TrustInv, Loads, Contents
    <2>3. CASE Deny
        BY <2>1, <2>3 DEF Deny, NothingRan, TrustInv
    <2> QED BY <1>4, <2>2, <2>3 DEF AnswerTrust
<1> QED BY <1>1, <1>2, <1>3, <1>4

-----------------------------------------------------------------------------
(* Layouts *)

\* The layouts stay finite, and one that is being renamed is renamed to a free name.
LEMMA LayoutSteps ==
    ASSUME TypeOK, LayoutInv, SaveLayout \/ ManageLayouts \/ CloseManage \/ CloseForm
    PROVE  /\ LayoutInv' /\ layouts' \subseteq Layouts /\ renaming' \in Layouts \cup {NoLayout}
           /\ renaming # NoLayout /\ renaming \notin layouts' =>
                Cardinality(layouts') = Cardinality(layouts)
<1> USE DEF LayoutInv
<1>1. \A l \in Layouts : l # NoLayout
    BY ShellAssumption
<1>2. CASE SaveLayout
    <2>1. PICK new \in {{}} \cup {{l} : l \in Layouts} : layouts' = layouts \cup new
        BY <1>2 DEF SaveLayout
    <2>2. IsFiniteSet(layouts')
        BY <2>1, FS_AddElement
    <2> QED BY <1>2, <2>1, <2>2 DEF SaveLayout, TypeOK
<1>3. CASE ManageLayouts
    <2>1. \/ \E l \in layouts \ {renaming} : renaming' = l /\ UNCHANGED layouts
          \/ \E l \in layouts \ {renaming} : layouts' = layouts \ {l} /\ UNCHANGED renaming
          \/ renaming \in layouts /\ \E m \in Layouts : Rename(renaming, m)
          \/ renaming \in layouts /\ renaming' = NoLayout /\ UNCHANGED layouts
        BY <1>3 DEF ManageLayouts
    <2>2. CASE \E l \in layouts \ {renaming} : renaming' = l /\ UNCHANGED layouts
        BY <2>2 DEF TypeOK
    <2>3. CASE \E l \in layouts \ {renaming} : layouts' = layouts \ {l} /\ UNCHANGED renaming
        BY <2>3, FS_RemoveElement DEF TypeOK
    <2>4. ASSUME renaming \in layouts, NEW m \in Layouts, Rename(renaming, m)
          PROVE  /\ LayoutInv' /\ layouts' \subseteq Layouts
                 /\ renaming' \in Layouts \cup {NoLayout}
                 /\ Cardinality(layouts') = Cardinality(layouts)
        <3>1. CASE m \in layouts
            BY <2>4, <3>1 DEF Rename, TypeOK
        <3>2. CASE m \notin layouts
            <4>1. layouts' = (layouts \ {renaming}) \cup {m} /\ renaming' = NoLayout
                BY <2>4, <3>2 DEF Rename
            <4>2. IsFiniteSet(layouts \ {renaming})
                  /\ Cardinality(layouts \ {renaming}) = Cardinality(layouts) - 1
                BY <2>4, FS_RemoveElement
            <4>3. IsFiniteSet(layouts') /\ Cardinality(layouts') = Cardinality(layouts \ {renaming}) + 1
                BY <3>2, <4>1, <4>2, FS_AddElement
            <4>4. Cardinality(layouts) \in Nat
                BY FS_CardinalityType
            <4> QED BY <4>1, <4>2, <4>3, <4>4 DEF TypeOK
        <3> QED BY <3>1, <3>2
    <2>5. CASE renaming \in layouts /\ renaming' = NoLayout /\ UNCHANGED layouts
        BY <2>5 DEF TypeOK
    <2> QED BY <2>1, <2>2, <2>3, <2>4, <2>5
<1>4. CASE CloseManage
    BY <1>4 DEF CloseManage, TypeOK
<1>5. CASE CloseForm
    BY <1>5 DEF CloseForm, TypeOK
<1> QED BY <1>2, <1>3, <1>4, <1>5

-----------------------------------------------------------------------------
(* Every step *)

ShellInv == TypeOK /\ WellPlaced(project) /\ TrustInv /\ LayoutInv

\* What a step may never do.
ShellStep ==
    /\ project.dirty /\ GivenUp(did'.effects) => Knowingly(did'.input, did'.effects)
    /\ ran' # NoFolder /\ ProjectLocal(project.root, ran') => ran' \in granted
    /\ renaming # NoLayout /\ renaming \notin layouts' /\ layouts' # layouts =>
         Cardinality(layouts') = Cardinality(layouts)

LEMMA InitShell == Init => ShellInv
<1> SUFFICES ASSUME Init PROVE ShellInv
    OBVIOUS
<1>1. project \in Projects /\ project.effects = {} /\ WellPlaced(project)
    BY ExtensionsAssumption DEF Init, FirstProject, Projects, WellPlaced, RootOf
<1>2. Contents(store) = {} /\ IsFiniteSet(layouts)
    BY FS_EmptySet, ExtensionsAssumption DEF Init, Contents, Loads
<1>3. TypeOK
    <2>1. tutorial \in 0..Steps
        BY ShellAssumption DEF Init
    <2>2. did.effects \subseteq Effects
        BY DEF Init
    <2> QED BY <1>1, <2>1, <2>2 DEF Init, TypeOK, Dialogs, Sticky
<1> QED BY <1>1, <1>2, <1>3 DEF Init, ShellInv, TrustInv, Loads, Contents, LayoutInv

\* A frame with the rest of the variables.
LEMMA FrameKeeps ==
    ASSUME ShellInv, FrameStep, project.running,
           approved' \subseteq Folders, store' = Cut \/ store' \subseteq Folders,
           pending' \in Folders \cup {NoFolder}, granted' \subseteq Folders,
           ran' \in Folders \cup {NoFolder},
           ran' # NoFolder /\ ProjectLocal(project.root, ran') => ran' \in granted,
           approved' \in Loads(store'), Contents(store') \subseteq granted',
           request' \in Requests \cup {"None"}, sticky' \subseteq Sticky, answered' \in BOOLEAN,
           LayoutInv', layouts' \subseteq Layouts, renaming' \in Layouts \cup {NoLayout},
           renaming # NoLayout /\ renaming \notin layouts' /\ layouts' # layouts =>
             Cardinality(layouts') = Cardinality(layouts)
    PROVE  ShellInv' /\ ShellStep
<1>1. TypeOK /\ WellPlaced(project)
    BY DEF ShellInv
<1>2. /\ project' \in Projects /\ project'.effects = {} /\ WellPlaced(project')
      /\ dialog' \in Dialogs /\ (dialog' = "trust" => pending' \in Folders)
      /\ tutorial' \in 0..Steps /\ did'.effects \subseteq Effects
      /\ project.dirty /\ GivenUp(did'.effects) => Knowingly(did'.input, did'.effects)
    BY <1>1, FrameTypes
<1>3. TypeOK'
    BY <1>2 DEF TypeOK
<1>4. WellPlaced(project)'
    BY <1>2 DEF WellPlaced, RootOf
<1>5. TrustInv'
    BY <1>2 DEF TrustInv, Contents, Loads
<1> QED BY <1>2, <1>3, <1>4, <1>5 DEF ShellInv, ShellStep

LEMMA TrustAsBefore ==
    ASSUME ShellInv, project.running, NothingRan,
           UNCHANGED <<approved, store, pending, granted>>
    PROVE  /\ approved' \subseteq Folders /\ (store' = Cut \/ store' \subseteq Folders)
           /\ pending' \in Folders \cup {NoFolder} /\ granted' \subseteq Folders
           /\ ran' = NoFolder
           /\ approved' \in Loads(store') /\ Contents(store') \subseteq granted'
BY DEF ShellInv, TypeOK, TrustInv, NothingRan

LEMMA LayoutsAsBefore ==
    ASSUME ShellInv, UNCHANGED <<layouts, renaming>>
    PROVE  LayoutInv' /\ layouts' \subseteq Layouts /\ renaming' \in Layouts \cup {NoLayout}
BY DEF ShellInv, TypeOK, LayoutInv

\* The steps that are not frames.
LEMMA OtherSteps ==
    ASSUME ShellInv, TutorialStep \/ Start \/ Crash
    PROVE  ShellInv' /\ ShellStep
<1> USE DEF ShellInv, ShellStep
<1>1. CASE TutorialStep
    <2>1. TypeOK'
        <3>1. tutorial' \in 0..Steps
            <4>1. tutorial \in 0..Steps /\ Steps \in Nat /\ Steps # 0
                BY ShellAssumption DEF TypeOK
            <4>2. \/ tutorial > 1 /\ tutorial' = tutorial - 1
                  \/ tutorial < Steps /\ tutorial' \in {tutorial + 1, Steps}
                  \/ tutorial' = 0
                BY <1>1 DEF TutorialStep
            <4> QED BY <4>1, <4>2
        <3>2. dialog' \in Dialogs
            BY <1>1 DEF TutorialStep, Shown, Dialogs, Sticky
        <3> QED BY <1>1, <3>1, <3>2 DEF TutorialStep, OnlySticky, NothingRan, TypeOK
    <2>2. TrustInv'
        <3>1. dialog' = "trust" => pending' \in Folders
            BY <1>1 DEF TutorialStep, Shown, OnlySticky, TypeOK
        <3> QED BY <1>1, <3>1 DEF TutorialStep, OnlySticky, TrustInv, Contents, Loads
    <2>3. WellPlaced(project)' /\ LayoutInv' /\ ShellStep
        BY <1>1 DEF TutorialStep, OnlySticky, NothingRan, WellPlaced, RootOf, LayoutInv, GivenUp
    <2> QED BY <2>1, <2>2, <2>3
<1>2. CASE Start
    <2>1. FirstProject \in Projects /\ FirstProject.effects = {} /\ WellPlaced(FirstProject)
        BY ExtensionsAssumption DEF FirstProject, Projects, WellPlaced, RootOf
    <2>2. approved' \subseteq Folders
        BY <1>2, ContentsOfStore DEF Start, TypeOK
    <2>3. TypeOK'
        BY <1>2, <2>1, <2>2, ShellAssumption
           DEF Start, NothingRan, TypeOK, Dialogs, Sticky
    <2>4. TrustInv' /\ LayoutInv'
        BY <1>2 DEF Start, TrustInv, LayoutInv, Contents, Loads
    <2>5. WellPlaced(project)' /\ ShellStep
        BY <1>2, <2>1 DEF Start, NothingRan, WellPlaced, RootOf, GivenUp
    <2> QED BY <2>3, <2>4, <2>5
<1>3. CASE Crash
    <2>1. project' \in Projects /\ project'.effects = {} /\ ~project'.running
          /\ (WellPlaced(project) => WellPlaced(project'))
        BY <1>3 DEF Crash, TypeOK, Projects, WellPlaced
    <2>2. store' \in {store, Cut} /\ Contents(store') \subseteq granted
        BY <1>3 DEF Crash, TrustInv, Contents, Loads
    <2>3. TypeOK' /\ TrustInv'
        BY <1>3, <2>1, <2>2 DEF Crash, NothingRan, TypeOK, TrustInv, Contents, Loads
    <2>4. WellPlaced(project)' /\ LayoutInv' /\ ShellStep
        BY <1>3, <2>1 DEF Crash, NothingRan, WellPlaced, RootOf, LayoutInv, GivenUp
    <2> QED BY <2>3, <2>4
<1> QED BY <1>1, <1>2, <1>3

LEMMA StepShell == ShellInv /\ Next => ShellInv' /\ ShellStep
<1> SUFFICES ASSUME ShellInv, Next PROVE ShellInv' /\ ShellStep
    OBVIOUS
<1>0. TypeOK /\ WellPlaced(project) /\ TrustInv /\ LayoutInv
    BY DEF ShellInv
<1>1. CASE \/ Idle \/ Menu \/ Shortcut \/ SaveKey \/ Edit \/ AgentLoad
           \/ SaveFirst \/ Discard \/ Cancel \/ CloseWindow \/ Refresh
    <2>1. FrameStep /\ OnlyProject /\ NothingRan /\ project.running
          /\ request' \in Requests \cup {"None"}
        BY <1>0, <1>1, ProjectFrames
    <2>2. sticky' \subseteq Sticky /\ answered' \in BOOLEAN
        BY <1>0, <2>1 DEF OnlyProject, TypeOK
    <2> QED BY <2>1, <2>2, TrustAsBefore, LayoutsAsBefore, FrameKeeps DEF OnlyProject
<1>2. CASE \/ \E start \in BOOLEAN : AnswerWelcome(start)
           \/ \E d \in {"saveLayout", "manageLayouts", "form"} : OpenSticky(d)
    <2>1. UNCHANGED <<layouts, renaming>>
        BY <1>2 DEF AnswerWelcome, OpenSticky, OnlySticky
    <2> QED BY <1>0, <1>2, <2>1, WindowFrames, TrustAsBefore, LayoutsAsBefore, FrameKeeps
<1>3. CASE SaveLayout \/ ManageLayouts \/ CloseManage \/ CloseForm
    BY <1>0, <1>3, WindowFrames, TrustAsBefore, LayoutSteps, FrameKeeps
<1>4. CASE RunExtension \/ RequestTrust \/ RevokeTrust \/ AnswerTrust
    <2>1. /\ FrameStep /\ OnlyExtensions /\ project.running
          /\ approved' \subseteq Folders /\ (store' = Cut \/ store' \subseteq Folders)
          /\ pending' \in Folders \cup {NoFolder} /\ granted' \subseteq Folders
          /\ ran' \in Folders \cup {NoFolder}
          /\ approved' \in Loads(store') /\ Contents(store') \subseteq granted'
          /\ ran' # NoFolder /\ ProjectLocal(project.root, ran') => ran' \in granted
        BY <1>0, <1>4, ExtensionFrames
    <2>2. /\ request' \in Requests \cup {"None"} /\ sticky' \subseteq Sticky
          /\ answered' \in BOOLEAN /\ UNCHANGED <<layouts, renaming>>
        BY <1>0, <2>1 DEF OnlyExtensions, TypeOK
    <2> QED BY <2>1, <2>2, LayoutsAsBefore, FrameKeeps
<1>5. CASE TutorialStep \/ Start \/ Crash
    BY <1>5, OtherSteps
<1> QED BY <1>1, <1>2, <1>3, <1>4, <1>5 DEF Next

LEMMA StutterShell == ShellInv /\ UNCHANGED vars => ShellInv'
BY DEF vars, extensionVars, ShellInv, TypeOK, WellPlaced, RootOf, TrustInv, Contents, Loads, LayoutInv

LEMMA ShellHolds == Spec => []ShellInv
BY InitShell, StepShell, StutterShell, PTL DEF Spec

\* The types of the shell, for any directories, extensions and layouts.
THEOREM ShellTypes == Spec => []TypeOK
BY ShellHolds, PTL DEF ShellInv

\* The trust fails closed: whatever write, reading or process fails, memory trusts what the
\* file says or nothing, and the file says nothing that was not granted or was taken back.
THEOREM TrustAlwaysFailsClosed == Spec => []TrustFailsClosed
<1>1. ShellInv => TrustFailsClosed
    BY DEF ShellInv, TrustInv, TrustFailsClosed, Loads
<1> QED BY <1>1, ShellHolds, PTL

\* A tool of the open project runs only while the user's trust in its folder stands.
THEOREM OnlyTrustedToolsRun == Spec => LaunchedWasGranted
<1>1. ShellInv /\ [Next]_vars =>
        [ran' # NoFolder /\ ProjectLocal(project.root, ran') => ran' \in granted]_vars
    BY StepShell DEF ShellStep
<1> QED BY <1>1, ShellHolds, PTL DEF Spec, LaunchedWasGranted

\* Unsaved work is given up only by Discard, by closing the window, or by a crash.
THEOREM NoWorkIsLostUnasked == Spec => WorkIsLostKnowingly
<1>1. ShellInv /\ [Next]_vars =>
        [project.dirty /\ did'.effects \cap {"replaced", "exited"} # {}
           => did'.input \in {"discard", "close"} \/ "saved" \in did'.effects]_vars
    BY StepShell DEF ShellStep, GivenUp, Knowingly
<1> QED BY <1>1, ShellHolds, PTL DEF Spec, WorkIsLostKnowingly

\* No rename replaces a layout, however many there are.
THEOREM NoRenameReplacesALayout == Spec => RenamingLosesNoLayout
<1>1. ShellInv /\ [Next]_vars =>
        [renaming # NoLayout /\ renaming \notin layouts' /\ layouts' # layouts
           => Cardinality(layouts') = Cardinality(layouts)]_vars
    BY StepShell DEF ShellStep
<1> QED BY <1>1, ShellHolds, PTL DEF Spec, RenamingLosesNoLayout

\* The extensions that are listed are those of the open project, but for a save under
\* another name since the last rescan.
THEOREM ExtensionsFollowTheProject == Spec => []ToolsAreOfTheProject
<1>1. ShellInv => ToolsAreOfTheProject
    BY DEF ShellInv, WellPlaced, ToolsAreOfTheProject
<1> QED BY <1>1, ShellHolds, PTL

\* Neither a dialog that replaces another nor a rename gives up what was not saved.
THEOREM NothingIsLost == Spec => NothingIsLostUnasked
BY NoWorkIsLostUnasked, NoRenameReplacesALayout DEF NothingIsLostUnasked

-----------------------------------------------------------------------------
(* The git status *)

LEMMA Counting ==
    ASSUME NEW N \in SUBSET Nat, 0 \in N, \A n \in N : n + 1 \in N
    PROVE  N = Nat
<1> DEFINE R == OpToRel(<, Nat)
<1>1. SUFFICES ASSUME Nat \ N # {} PROVE FALSE
    OBVIOUS
<1>2. PICK m \in Nat \ N : \A n \in Nat \ N : ~ (<<n, m>> \in R)
    <2>1. IsWellFoundedOn(R, Nat)
        BY NatLessThanWellFounded
    <2> HIDE DEF R
    <2> QED BY <1>1, <2>1, WFMin
<1>3. \A n \in Nat \ N : ~ (n < m)
    BY <1>2 DEF OpToRel
<1>4. m # 0 /\ m - 1 \in Nat /\ m - 1 < m /\ (m - 1) + 1 = m
    OBVIOUS
<1> QED BY <1>3, <1>4

\* What Those has collected of the first n queries.
Collected(n, S, g) ==
    g = [i \in 0..n |-> IF i = 0 THEN <<>>
                        ELSE IF queries[i] \in S THEN Append(g[i - 1], queries[i]) ELSE g[i - 1]]

LEMMA CollectedExists == ASSUME NEW S PROVE \A n \in Nat : \E g : Collected(n, S, g)
<1> DEFINE N == {n \in Nat : \E g : Collected(n, S, g)}
<1>1. 0 \in N
    <2> DEFINE g0 == [i \in 0..0 |-> <<>>]
    <2>1. Collected(0, S, g0)
        BY DEF Collected
    <2> QED BY <2>1
<1>2. ASSUME NEW n \in N PROVE n + 1 \in N
    <2>1. PICK g : Collected(n, S, g)
        OBVIOUS
    <2> DEFINE h == [i \in 0..(n + 1) |->
                       IF i = n + 1
                       THEN IF queries[n + 1] \in S THEN Append(g[n], queries[n + 1]) ELSE g[n]
                       ELSE g[i]]
    <2>2. \A i \in 0..n : g[i] = IF i = 0 THEN <<>>
                                 ELSE IF queries[i] \in S THEN Append(g[i - 1], queries[i])
                                 ELSE g[i - 1]
        BY <2>1 DEF Collected
    <2>3. ASSUME NEW i \in 0..(n + 1)
          PROVE  h[i] = IF i = 0 THEN <<>>
                        ELSE IF queries[i] \in S THEN Append(h[i - 1], queries[i])
                        ELSE h[i - 1]
        <3>1. CASE i = n + 1
            BY <3>1
        <3>2. CASE i # n + 1
            BY <3>2, <2>2
        <3> QED BY <3>1, <3>2
    <2>4. h = [i \in 0..(n + 1) |-> h[i]]
        OBVIOUS
    <2>5. Collected(n + 1, S, h)
        BY <2>3, <2>4 DEF Collected
    <2> QED BY <2>5
<1>3. N = Nat
    <2> HIDE DEF N
    <2> QED BY <1>1, <1>2, Counting DEF N
<1> QED BY <1>3

\* Those takes queries of S, no more than there are.
LEMMA ThoseAre ==
    ASSUME NEW T, queries \in Seq(T), NEW S, NEW k, k = G!Those(S)
    PROVE  k \in Seq(T) /\ Len(k) <= Len(queries) /\ \A i \in 1..Len(k) : k[i] \in S
<1> DEFINE g == CHOOSE g : Collected(Len(queries), S, g)
<1>1. Collected(Len(queries), S, g)
    BY CollectedExists
<1>2. k = g[Len(queries)]
    BY DEF G!Those, Collected
<1> HIDE DEF g
<1> DEFINE Fine(n) == /\ g[n] \in Seq(T) /\ Len(g[n]) <= n
                      /\ \A i \in 1..Len(g[n]) : g[n][i] \in S
           N == {n \in Nat : n <= Len(queries) => Fine(n)}
<1>3. \A i \in 0..Len(queries) :
        g[i] = IF i = 0 THEN <<>>
               ELSE IF queries[i] \in S THEN Append(g[i - 1], queries[i]) ELSE g[i - 1]
    BY <1>1 DEF Collected
<1>4. 0 \in N
    <2>1. PICK e \in Seq(T) : e = g[0] /\ Len(e) = 0
        <3>1. 0 \in 0..Len(queries)
            OBVIOUS
        <3>2. g[0] = <<>>
            BY <1>3, <3>1
        <3>3. <<>> \in Seq(T) /\ Len(<<>>) = 0
            OBVIOUS
        <3> QED BY <3>2, <3>3
    <2>2. Fine(0)
        BY <2>1
    <2> QED BY <2>2
<1>5. ASSUME NEW n \in N PROVE n + 1 \in N
    <2>1. SUFFICES ASSUME n + 1 <= Len(queries) PROVE Fine(n + 1)
        OBVIOUS
    <2>2. Fine(n)
        BY <2>1
    <2>3. g[n + 1] = IF queries[n + 1] \in S THEN Append(g[n], queries[n + 1]) ELSE g[n]
        BY <1>3, <2>1
    <2>4. queries[n + 1] \in T
        BY <2>1
    <2>5. CASE queries[n + 1] \in S
        <3>1. PICK s \in Seq(T), q \in T : s = g[n] /\ q = queries[n + 1]
            BY <2>2, <2>4
        <3>2. g[n + 1] = Append(s, q)
            BY <2>3, <2>5, <3>1
        <3>3. /\ Append(s, q) \in Seq(T) /\ Len(Append(s, q)) = Len(s) + 1
              /\ \A i \in 1..Len(s) : Append(s, q)[i] = s[i]
              /\ Append(s, q)[Len(s) + 1] = q
            BY AppendProperties
        <3>4. Len(s) \in Nat /\ Len(s) <= n /\ q \in S /\ \A i \in 1..Len(s) : s[i] \in S
            BY <2>2, <2>5, <3>1
        <3>5. \A i \in 1..(Len(s) + 1) : Append(s, q)[i] \in S
            BY <3>3, <3>4
        <3> QED BY <3>2, <3>3, <3>4, <3>5
    <2>6. CASE queries[n + 1] \notin S
        BY <2>2, <2>3, <2>6
    <2> QED BY <2>5, <2>6
<1>6. N = Nat
    <2> HIDE DEF N
    <2> QED BY <1>4, <1>5, Counting DEF N
<1>7. Len(queries) \in N
    BY <1>6
<1> QED BY <1>2, <1>7

\* The types and what is shown, whichever part was chosen.
GitInv == G!TypeOK /\ G!ShownIsOfThisVisit

LEMMA GitStarts == G!Init => GitInv
<1> SUFFICES ASSUME G!Init PROVE GitInv
    OBVIOUS
<1>1. queries \in Seq(G!Queries) /\ Len(queries) = 0
    BY DEF G!Init
<1>2. Len(queries) <= GitQueries /\ changes \in 0..GitChanges
    BY <1>1, GitInstance DEF G!Init, G!GitAssumption
<1>3. status.reading = NoReading
    BY DEF G!Init, G!Shown
<1>4. generation \in Nat /\ refreshed \in BOOLEAN /\ current \in GitDirs /\ watched \in GitDirs
      /\ repository \in [GitDirs -> GitReadings \cup {NoReading}]
    BY DEF G!Init
<1>5. G!TypeOK
    BY <1>1, <1>2, <1>3, <1>4 DEF G!TypeOK
<1> QED BY <1>3, <1>5 DEF G!ShownIsOfThisVisit, GitInv

LEMMA AnswerKeeps == ASSUME GitInv, NEW i \in DOMAIN queries, G!Answer(i) PROVE GitInv'
<1>1. PICK answer \in G!Answers(queries[i].dir) :
        /\ queries' = [queries EXCEPT ![i].answer = answer]
        /\ changes' = IF answer = G!Printed(queries[i].dir) THEN changes ELSE changes + 1
    BY DEF G!Answer
<1>2. queries \in Seq(G!Queries) /\ Len(queries) <= GitQueries /\ i \in 1..Len(queries)
    BY DEF GitInv, G!TypeOK
<1>3. queries[i] \in G!Queries
    BY <1>2
<1>4. answer \in GitReadings \cup {NoReading}
    BY <1>1, <1>3 DEF G!Answers, G!Printed, G!Unanswered, G!Queries, GitInv, G!TypeOK
<1>5. changes' \in 0..GitChanges
    BY <1>1, GitInstance DEF G!Answers, G!Unanswered, GitInv, G!TypeOK, G!GitAssumption
<1>6. [queries[i] EXCEPT !.answer = answer] \in G!Queries
    BY <1>3, <1>4 DEF G!Queries
<1>7. queries' \in Seq(G!Queries) /\ Len(queries') = Len(queries)
    BY <1>1, <1>2, <1>6, ExceptSeq
<1> QED BY <1>2, <1>5, <1>7 DEF GitInv, G!TypeOK, G!ShownIsOfThisVisit, G!Answer

LEMMA UpdateKeeps == ASSUME GitInv, G!Update PROVE GitInv'
<1>1. queries \in Seq(G!Queries) /\ Len(queries) <= GitQueries
    BY DEF GitInv, G!TypeOK
<1>2. PICK running : running = G!StillRunning
    OBVIOUS
<1>3. running \in Seq(G!Queries) /\ Len(running) <= Len(queries) /\ Len(running) \in Nat
    BY <1>1, <1>2, ThoseAre DEF G!StillRunning
<1>4. G!Generation \in Nat
    BY DEF G!Generation, GitInv, G!TypeOK
<1>5. PICK asked : asked = [dir |-> current, generation |-> G!Generation, answer |-> Running]
    OBVIOUS
<1>6. asked \in G!Queries
    BY <1>4, <1>5 DEF G!Queries, GitInv, G!TypeOK
<1>7. \/ queries' = running \/ queries' = running \o <<>>
      \/ queries' = running \o <<asked>> /\ Len(running) < GitQueries
    <2>1. G!Asks => Len(running) < GitQueries
        BY <1>2 DEF G!Asks
    <2>2. queries' = running \/ queries' = running \o (IF G!Asks THEN <<asked>> ELSE <<>>)
        BY <1>2, <1>5 DEF G!Update
    <2> QED BY <2>1, <2>2
<1>8. queries' \in Seq(G!Queries) /\ Len(queries') <= GitQueries
    <2>1. running \o <<>> = running /\ running \o <<asked>> = Append(running, asked)
        BY <1>3, <1>6
    <2>2. /\ Append(running, asked) \in Seq(G!Queries)
          /\ Len(Append(running, asked)) = Len(running) + 1
        BY <1>3, <1>6, AppendProperties
    <2>3. GitQueries \in Nat /\ Len(queries) \in Nat
        BY <1>1, GitInstance DEF G!GitAssumption
    <2>4. CASE queries' = running
        BY <1>1, <1>3, <2>3, <2>4
    <2>5. CASE queries' = Append(running, asked) /\ Len(running) < GitQueries
        BY <1>1, <1>3, <2>2, <2>3, <2>5
    <2> QED BY <1>7, <2>1, <2>4, <2>5
<1>9. changes' \in 0..GitChanges
    BY GitInstance DEF G!Update, GitInv, G!TypeOK, G!GitAssumption
<1>10. /\ status'.reading \in GitReadings \cup {NoReading}
       /\ status'.reading # NoReading => status'.dir = watched' /\ status'.visit = generation'
    <2>1. PICK S : S = {q \in G!Asked : q.answer # Running /\ G!Matches(q)}
        OBVIOUS
    <2>2. PICK done : done = G!Those(S)
        OBVIOUS
    <2>3. done \in Seq(G!Queries) /\ \A i \in 1..Len(done) : done[i] \in S
        BY <1>1, <2>2, ThoseAre
    <2>4. /\ status' = IF done # <<>> THEN G!Shown(done[Len(done)].answer, done[Len(done)].dir,
                                                   done[Len(done)].generation)
                       ELSE IF G!Moved THEN G!Shown(NoReading, current, G!Generation) ELSE status
          /\ watched' = current /\ generation' = G!Generation
        BY <2>1, <2>2 DEF G!Update, G!Taken
    <2>5. CASE done # <<>>
        <3>1. PICK q : q = done[Len(done)]
            OBVIOUS
        <3>2. q \in S /\ q \in G!Queries
            BY <2>3, <2>5, <3>1
        <3>3. /\ q.answer \in GitReadings \cup {NoReading}
              /\ q.generation = G!Generation /\ q.dir = current
            BY <2>1, <3>2 DEF G!Queries, G!Matches
        <3>4. status' = [reading |-> q.answer, dir |-> q.dir, visit |-> q.generation]
            BY <2>4, <2>5, <3>1 DEF G!Shown
        <3> QED BY <2>4, <3>3, <3>4
    <2>6. CASE done = <<>> /\ G!Moved
        BY <2>4, <2>6 DEF G!Shown
    <2>7. CASE done = <<>> /\ ~G!Moved
        BY <2>4, <2>7 DEF G!Moved, G!Generation, GitInv, G!TypeOK, G!ShownIsOfThisVisit
    <2> QED BY <2>5, <2>6, <2>7
<1>11. refreshed' \in BOOLEAN
    BY DEF G!Update
<1> QED BY <1>4, <1>8, <1>9, <1>10, <1>11 DEF GitInv, G!TypeOK, G!ShownIsOfThisVisit, G!Update

LEMMA GitStep == GitInv /\ G!Next => GitInv'
<1> SUFFICES ASSUME GitInv, G!Next PROVE GitInv'
    OBVIOUS
<1>1. CASE \E i \in DOMAIN queries : G!Answer(i)
    BY <1>1, AnswerKeeps
<1>2. CASE G!Update
    BY <1>2, UpdateKeeps
<1>3. CASE G!Interval
    BY <1>3 DEF G!Interval, GitInv, G!TypeOK, G!ShownIsOfThisVisit
<1>4. CASE G!Work
    <2>1. repository' \in [GitDirs -> GitReadings \cup {NoReading}] /\ current' \in GitDirs
        BY <1>4 DEF G!Work, GitInv, G!TypeOK
    <2>2. changes' \in 0..GitChanges
        BY <1>4, GitInstance DEF G!Work, GitInv, G!TypeOK, G!GitAssumption
    <2> QED BY <1>4, <2>1, <2>2 DEF G!Work, GitInv, G!TypeOK, G!ShownIsOfThisVisit
<1> QED BY <1>1, <1>2, <1>3, <1>4 DEF G!Next

\* A text that is cut fits, and one that has room is whole.
LEMMA FitFits ==
    ASSUME NEW text \in Nat, NEW width \in Int
    PROVE  /\ G!Fit(text, width) \in Nat
           /\ width >= 0 => G!Fit(text, width) <= width
           /\ width >= text => G!Fit(text, width) = text
BY DEF G!Fit

LEMMA LabelFits ==
    ASSUME NEW r \in GitReadings \cup {NoReading}, NEW width \in Nat
    PROVE  /\ G!GitLabel(r, width) \in Nat /\ G!GitLabel(r, width) <= width
           /\ width >= G!Summary(r) => G!GitLabel(r, width) >= G!Summary(r)
<1>1. CASE r = NoReading
    <2>1. G!GitLabel(r, width) = G!Fit(15, width) /\ G!Summary(r) = 15
        BY <1>1 DEF G!GitLabel, G!Summary, G!Unavailable
    <2> QED BY <2>1, FitFits
<1>2. CASE r # NoReading
    <2>1. r.branch \in Nat /\ r.counts \in Nat
        BY <1>2, GitInstance DEF G!GitAssumption
    <2>2. PICK primary : primary = G!Primary(r, width)
        OBVIOUS
    <2>3. PICK branch \in Nat : branch = IF r.branch = 0 THEN 0 ELSE 1 + r.branch
        BY <2>1
    <2>4. PICK counts \in Nat : counts = G!Fit(r.counts, width - 12)
                                /\ (width >= 12 => counts <= width - 12)
        BY <2>1, FitFits
    <2>5. G!Fit(12, width) \in Nat /\ G!Fit(12, width) <= width
        BY FitFits
    <2>6. G!Summary(r) = 12 + r.counts
        BY <1>2 DEF G!Summary, G!Commit
    <2>7. primary = IF 12 + r.counts <= width THEN 12 + r.counts
                    ELSE IF 12 > width THEN G!Fit(12, width)
                    ELSE IF counts >= 3 + 3 THEN 12 + counts ELSE 12
        BY <2>2, <2>4, <2>6 DEF G!Primary, G!Commit
    <2>8. primary \in Nat /\ primary <= width /\ (12 + r.counts <= width => primary = 12 + r.counts)
        BY <2>1, <2>4, <2>5, <2>7
    <2>9. PICK fitted \in Nat : fitted = G!Fit(branch, width - primary) /\ fitted <= width - primary
        <3>1. PICK rest \in Nat : rest = width - primary
            BY <2>8
        <3>2. G!Fit(branch, rest) \in Nat /\ G!Fit(branch, rest) <= rest
            BY FitFits
        <3> QED BY <3>1, <3>2
    <2>10. G!GitLabel(r, width) =
             IF 12 > width THEN primary
             ELSE IF primary + branch <= width THEN primary + branch
             ELSE IF fitted >= 1 + 1 + 3 THEN primary + fitted ELSE primary
        BY <1>2, <2>2, <2>3, <2>9 DEF G!GitLabel, G!Commit
    <2> QED BY <2>1, <2>3, <2>6, <2>8, <2>9, <2>10
<1> QED BY <1>1, <1>2

\* Neither the title nor the branch takes the room of the commit and its counts.
LEMMA HeaderFits == G!TypeOK => G!HeaderKeepsSummary
<1> SUFFICES ASSUME G!TypeOK, NEW title \in GitTitles, NEW width \in GitWidths
             PROVE  LET shown == G!TitleLabel(status.reading, title, width)
                        room == G!GitWidth(status.reading, title, width)
                        label == G!GitLabel(status.reading, room)
                    IN  /\ label <= room
                        /\ width >= G!Fps + 1 + G!Summary(status.reading) =>
                             label >= G!Summary(status.reading)
                        /\ shown > 0 => G!Fps + 2 + shown + label <= width
    BY DEF G!HeaderKeepsSummary
<1>1. PICK r \in GitReadings \cup {NoReading} : r = status.reading
    BY DEF G!TypeOK
<1>2. PICK t \in Nat, w \in Nat : t = title /\ w = width
    BY GitInstance DEF G!GitAssumption
<1>3. PICK summary \in Nat : summary = G!Summary(r)
    BY GitInstance DEF G!Summary, G!Unavailable, G!Commit, G!GitAssumption
<1>4. PICK shown : shown = G!TitleLabel(r, t, w)
    OBVIOUS
<1>5. shown \in Nat /\ (shown > 0 => shown <= w - 10 - summary)
    <2>1. PICK x \in Int : x = w - 8 - (IF t = 0 THEN 1 ELSE 2) - summary
        OBVIOUS
    <2>2. PICK space \in Nat : space = IF 0 > x THEN 0 ELSE x
        OBVIOUS
    <2>3. shown = G!Fit(t, space)
        BY <1>3, <1>4, <2>1, <2>2 DEF G!TitleLabel, G!Wider, G!Fps
    <2>4. shown \in Nat /\ shown <= space /\ (space >= t => shown = t)
        BY <2>3, FitFits
    <2>5. t # 0 => x = w - 10 - summary
        BY <2>1
    <2> QED BY <2>2, <2>4, <2>5
<1>6. PICK room \in Nat : /\ room = G!GitWidth(r, t, w)
                          /\ shown > 0 => room = w - 10 - shown
                          /\ shown = 0 => room >= w - 9
    <2>1. PICK x \in Int : x = w - 8 - (IF shown > 0 THEN 2 + shown ELSE 1)
        <3>1. PICK taken \in Nat : taken = IF shown > 0 THEN 2 + shown ELSE 1
            BY <1>5
        <3> QED BY <3>1
    <2>2. G!GitWidth(r, t, w) = IF 0 > x THEN 0 ELSE x
        BY <1>4, <2>1 DEF G!GitWidth, G!Wider, G!Fps
    <2> QED BY <1>5, <2>1, <2>2
<1>7. PICK label \in Nat : /\ label = G!GitLabel(r, room) /\ label <= room
                           /\ room >= summary => label >= summary
    BY <1>3, LabelFits
<1> QED BY <1>1, <1>2, <1>3, <1>4, <1>5, <1>6, <1>7 DEF G!Fps

\* An extension of the project that is used has an id, and no manifest before it has the same.
LEMMA IdsAreReserved == project.root \in Dirs => InstalledIdsAreReserved
<1> SUFFICES ASSUME project.root \in Dirs, NEW i \in DOMAIN Listed(project.root) \ Installed,
                    Status(project.root, i) = "Ok", NEW j \in Installed,
                    Listed(project.root)[j].id = Listed(project.root)[i].id
             PROVE  FALSE
    BY DEF InstalledIdsAreReserved
<1>1. PICK own : own = Found[project.root]
    OBVIOUS
<1>2. PICK others : others = Found["source"] \o Found["exe"] \o Found["home"]
    OBVIOUS
<1>3. own \in Seq(Manifests) /\ others \in Seq(Manifests)
    BY <1>1, <1>2, ExtensionsAssumption, ConcatProperties DEF Places
<1>4. PICK list \in Seq(Manifests) : list = Listed(project.root) /\ list = others \o own
    BY <1>1, <1>2, <1>3, ConcatProperties DEF Listed
<1>5. Len(others) \in Nat /\ Len(list) = Len(others) + Len(own)
    BY <1>3, <1>4, ConcatProperties
<1>6. /\ i \in 1..Len(list) /\ j \in 1..Len(others)
      /\ ~(i \in 1..Len(others))
    <2>1. Installed = 1..Len(others) /\ DOMAIN list = 1..Len(list)
        BY <1>2, <1>3, <1>4, SMTT(30) DEF Installed
    <2> QED BY <1>4, <2>1
<1>7. j \in 1..(i - 1) /\ j \in 1..Len(list)
    BY <1>5, <1>6
<1>8. list[i] \in Manifests /\ list[j] \in Manifests
    BY <1>4, <1>6, <1>7
<1>9. Parses(list[i]) /\ ~(IdOf(list[i]) # NoId /\ IdOf(list[j]) = IdOf(list[i]))
    BY <1>4, <1>7 DEF Status
<1>10. list[i].json /\ list[i].id # NoId
    BY <1>8, <1>9 DEF Parses, Manifests
<1>11. list[j].json
    BY <1>4, <1>8, <1>10 DEF Manifests
<1> QED BY <1>4, <1>9, <1>10, <1>11 DEF IdOf

\* Both parts hold their invariants, and the one that was not chosen stands still.
LEMMA BothStart == MCInit => ShellInv /\ GitInv
BY InitShell, GitStarts DEF MCInit

LEMMA BothStep ==
    ShellInv /\ GitInv /\ [MCNext]_<<part, vars, gitVars>> => ShellInv' /\ GitInv'
<1> SUFFICES ASSUME ShellInv, GitInv, [MCNext]_<<part, vars, gitVars>> PROVE ShellInv' /\ GitInv'
    OBVIOUS
<1>1. UNCHANGED gitVars => GitInv'
    BY DEF gitVars, GitInv, G!TypeOK, G!ShownIsOfThisVisit
<1>2. CASE Next /\ UNCHANGED gitVars
    BY <1>1, <1>2, StepShell
<1>3. CASE G!Next /\ UNCHANGED vars
    BY <1>3, GitStep, StutterShell
<1>4. CASE UNCHANGED <<part, vars, gitVars>>
    BY <1>1, <1>4, StutterShell
<1> QED BY <1>2, <1>3, <1>4 DEF MCNext

\* What the shell shows is of the open project: its extensions and their ids, the git
\* status of this visit, and a header that keeps the summary at any width.
THEOREM TheShellIsSound == MCSpec => []ShellIsSound
<1>1. ShellInv /\ GitInv => ShellIsSound
    <2> SUFFICES ASSUME ShellInv, GitInv PROVE ShellIsSound
        OBVIOUS
    <2>1. project.root \in Dirs
        BY DEF ShellInv, TypeOK, Projects
    <2> QED BY <2>1, IdsAreReserved, HeaderFits
            DEF ShellInv, GitInv, WellPlaced, ToolsAreOfTheProject, ShellIsSound
<1> QED BY <1>1, BothStart, BothStep, PTL DEF MCSpec
=============================================================================
