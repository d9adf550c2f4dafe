------------------------------- MODULE Shell -------------------------------
(***************************************************************************)
(* The application's frame (RfSimulatorApp::update_dsp and draw_ui in      *)
(* src/app/src/app.cpp): the menus and the keyboard, the dialogs and the   *)
(* order in which they are opened, the project that is replaced, loaded    *)
(* and saved, the extensions that follow it, the named layouts and the     *)
(* tutorial.                                                               *)
(*                                                                         *)
(* A step is one frame in which the user does one thing, or none.  At the  *)
(* end of a frame at most one dialog is open: opening one closes the other *)
(* one of its level.  A dialog takes the mouse from everything behind it,  *)
(* but not the keyboard.  The dialogs of the operating system (choosing a  *)
(* file) block the frame, so a choice is part of the step.                 *)
(***************************************************************************)
EXTENDS Extensions

CONSTANTS
    Paths,       \* project files
    NoPath,
    DirOf,       \* [Paths -> Dirs]
    Layouts,     \* names of layouts as files spell them
    NoLayout,
    Steps        \* steps of the tutorial

ASSUME ShellAssumption ==
    /\ NoPath \notin Paths /\ DirOf \in [Paths -> Dirs]
    /\ NoLayout \notin Layouts
    /\ Steps \in Nat \ {0}

VARIABLES
    project,     \* [path, dirty, root, running, adopted]: see Projects
    request,     \* m_pending_action
    dialog,      \* the dialog that is open, or "none"
    sticky,      \* the flags that open their dialog again in every frame
    layouts,     \* the named layouts on disk
    renaming,    \* m_rename_target
    tutorial,    \* 0, or the step that is shown
    answered,    \* .tutorial_completed exists
    did          \* history: "discard", "close" or "other", and what became of it

vars == <<extensionVars, project, request, dialog, sticky, layouts, renaming, tutorial,
          answered, did>>

Requests == {"New", "Open", "Exit", "Tutorial"}
Sticky == {"welcome", "saveLayout", "manageLayouts", "form"}
Dialogs == Sticky \cup {"none", "unsaved", "trust"}
Effects == {"saved", "replaced", "exited", "tutorial"}

\* "adopted" (history): the path came from a save since the last rescan.
Projects == [path : Paths \cup {NoPath}, dirty : BOOLEAN, root : Dirs, running : BOOLEAN,
             adopted : BOOLEAN, effects : SUBSET Effects]

-----------------------------------------------------------------------------
(* The project.  An operator gives what is left of a project p.  *)

RootOf(path) == IF path = NoPath THEN Cwd ELSE DirOf[path]

\* refreshExtensions.
Refreshed(p) == [p EXCEPT !.root = RootOf(p.path), !.adopted = FALSE]

Replaced(p, path, dirty) ==
    [Refreshed([p EXCEPT !.path = path]) EXCEPT !.dirty = dirty, !.effects = @ \cup {"replaced"}]

NewProject(p) == Replaced(p, NoPath, FALSE)

\* saveProject: only a save that succeeded adopts the path.
SaveProject(p, path) ==
    {p, [p EXCEPT !.path = path, !.dirty = FALSE, !.adopted = @ \/ path # p.path,
                  !.effects = @ \cup {"saved"}]}

\* Mutant: a load that failed after the reset does not rescan.
LoadProjectNoRescan(p, path) ==
    {Replaced(p, path, FALSE), [Replaced(p, NoPath, TRUE) EXCEPT !.root = p.root], p}

\* loadProject: loaded, failed after the reset, failed before it.
LoadProject(p, path) == {Replaced(p, path, FALSE), Replaced(p, NoPath, TRUE), p}

\* startTutorial seeds its own circuit without marking the project.
StartTutorial(p) == [NewProject(p) EXCEPT !.effects = @ \cup {"tutorial"}]

ExitApplication(p) == [p EXCEPT !.running = FALSE, !.effects = @ \cup {"exited"}]

\* openFileDialog and saveFileDialog: nothing happens when nothing is chosen.
OpenFile(p) == {p} \cup UNION {LoadProject(p, path) : path \in Paths}
SaveFile(p) == {p} \cup UNION {SaveProject(p, path) : path \in Paths}

\* Save, Ctrl+S: to the project's file, or to one that is chosen.
Save(p) == IF p.path = NoPath THEN SaveFile(p) ELSE SaveProject(p, p.path)

Perform(action, p) ==
    CASE action = "New" -> {NewProject(p)}
      [] action = "Open" -> OpenFile(p)
      [] action = "Exit" -> {ExitApplication(p)}
      [] action = "Tutorial" -> {StartTutorial(p)}
      [] OTHER -> {p}

-----------------------------------------------------------------------------
(* The end of a frame.  *)

(* What is open when the frame ends: the dialogs are opened in the order    *)
(* welcome, unsaved, layouts, form, trust, and the last one stays.          *)
Shown(raised, closed) ==
    IF pending' # NoFolder THEN "trust"
    ELSE IF "form" \in sticky' THEN "form"
    ELSE IF "manageLayouts" \in sticky' THEN "manageLayouts"
    ELSE IF "saveLayout" \in sticky' THEN "saveLayout"
    ELSE IF raised THEN "unsaved"
    ELSE IF "welcome" \in sticky' THEN "welcome"
    ELSE IF dialog = "unsaved" /\ ~closed THEN "unsaved"
    ELSE "none"

\* The project after the frame is p; raised and closed are about "unsaved".
Frame(input, p, raised, closed) ==
    /\ project' = [p EXCEPT !.effects = {}]
    /\ did' = [input |-> input, effects |-> p.effects]
    /\ tutorial' = IF "tutorial" \in p.effects THEN 1 ELSE tutorial
    /\ dialog' = Shown(raised, closed)

\* What a frame leaves alone that only changes the project.
OnlyProject == UNCHANGED <<sticky, layouts, renaming, answered, approved, store, pending, granted>>
NothingRan == ran' = NoFolder

\* A dialog that is drawn in this frame; the mouse reaches what is behind none.
Open(d) == dialog = d /\ (d = "unsaved" => "welcome" \notin sticky)
Free == dialog = "none"

Idle ==
    /\ project.running
    /\ UNCHANGED request /\ OnlyProject /\ NothingRan
    /\ Frame("other", project, FALSE, FALSE)

-----------------------------------------------------------------------------
(* Menus and keyboard.  *)

\* New, Open, Exit of the File menu, Ctrl+N, Ctrl+O and Help > Tutorial.
Ask(action) ==
    /\ project.running
    /\ OnlyProject /\ NothingRan
    /\ IF project.dirty
       THEN request' = action /\ Frame("other", project, TRUE, FALSE)
       ELSE /\ UNCHANGED request
            /\ \E p \in Perform(action, project) : Frame("other", p, FALSE, FALSE)

Menu == Free /\ \E action \in Requests : Ask(action)
Shortcut == \E action \in {"New", "Open"} : Ask(action)

\* Save and Save As, from the menu or the keyboard.
SaveKey ==
    /\ project.running
    /\ UNCHANGED request /\ OnlyProject /\ NothingRan
    /\ \E p \in Save(project) \cup SaveFile(project) : Frame("other", p, FALSE, FALSE)

\* Every edit of the circuit, by the user or by an agent's call, which waits
\* while a dialog is open.
Edit ==
    /\ project.running /\ Free
    /\ UNCHANGED request /\ OnlyProject /\ NothingRan
    /\ Frame("other", [project EXCEPT !.dirty = TRUE], FALSE, FALSE)

\* The agent's project_load, which the hook of app.cpp turns into loadProject.
AgentLoad ==
    /\ project.running /\ Free /\ ~project.dirty
    /\ UNCHANGED request /\ OnlyProject /\ NothingRan
    /\ \E path \in Paths : \E p \in LoadProject(project, path) : Frame("other", p, FALSE, FALSE)

-----------------------------------------------------------------------------
(* The "Unsaved Changes" dialog.  *)

\* Mutant: the request is carried out although the save failed.
SaveFirstAlways ==
    /\ project.running /\ Open("unsaved")
    /\ OnlyProject /\ NothingRan
    /\ request' = "None"
    /\ \E p \in Save(project) : \E q \in Perform(request, p) : Frame("other", q, FALSE, TRUE)

SaveFirst ==
    /\ project.running /\ Open("unsaved")
    /\ OnlyProject /\ NothingRan
    /\ \E p \in Save(project) :
         IF p.dirty
         THEN UNCHANGED request /\ Frame("other", p, FALSE, FALSE)
         ELSE /\ request' = "None"
              /\ \E q \in Perform(request, p) : Frame("other", q, FALSE, TRUE)

Discard ==
    /\ project.running /\ Open("unsaved")
    /\ request' = "None"
    /\ OnlyProject /\ NothingRan
    /\ \E p \in Perform(request, project) : Frame("discard", p, FALSE, TRUE)

Cancel ==
    /\ project.running /\ Open("unsaved")
    /\ request' = "None"
    /\ OnlyProject /\ NothingRan
    /\ Frame("other", project, FALSE, TRUE)

\* The button of the window: the loop of core.cpp ends after the frame, and the
\* destructor runs.  Nothing is asked.
CloseWindow ==
    /\ project.running
    /\ UNCHANGED request /\ OnlyProject /\ NothingRan
    /\ Frame("close", ExitApplication(project), FALSE, FALSE)

-----------------------------------------------------------------------------
(* The welcome, the tutorial and the layouts.  *)

OnlySticky == UNCHANGED <<layouts, renaming, approved, store, pending, granted>>

\* Either answer leaves the marker, which may fail to be written.
AnswerWelcome(start) ==
    /\ project.running /\ Open("welcome")
    /\ answered' \in {TRUE, answered}
    /\ sticky' = sticky \ {"welcome"}
    /\ OnlySticky /\ NothingRan
    /\ IF start /\ project.dirty
       THEN request' = "Tutorial" /\ Frame("other", project, TRUE, FALSE)
       ELSE /\ UNCHANGED request
            /\ Frame("other", IF start THEN StartTutorial(project) ELSE project, FALSE, FALSE)

\* The tutorial's own window: Back, Next, Skip and Exit; Finish leaves the marker.
TutorialStep ==
    /\ project.running /\ Free /\ tutorial # 0
    /\ \/ tutorial > 1 /\ tutorial' = tutorial - 1 /\ UNCHANGED answered
       \/ tutorial < Steps /\ tutorial' \in {tutorial + 1, Steps} /\ UNCHANGED answered
       \/ tutorial' = 0 /\ UNCHANGED answered
       \/ tutorial = Steps /\ tutorial' = 0 /\ answered' \in {TRUE, answered}
    /\ did' = [input |-> "other", effects |-> {}]
    /\ UNCHANGED <<project, request, sticky>> /\ OnlySticky /\ NothingRan
    /\ dialog' = Shown(FALSE, FALSE)

\* The items that open a dialog which stays until one of its buttons closes it.
OpenSticky(d) ==
    /\ project.running /\ Free
    /\ sticky' = sticky \cup {d}
    /\ UNCHANGED <<request, answered>> /\ OnlySticky /\ NothingRan
    /\ Frame("other", project, FALSE, FALSE)

CloseSticky(d, p) ==
    /\ sticky' = sticky \ {d}
    /\ UNCHANGED <<request, answered, approved, store, pending, granted>> /\ NothingRan
    /\ Frame("other", p, FALSE, FALSE)

\* Save Layout As: a layout of that name is replaced.
SaveLayout ==
    /\ project.running /\ Open("saveLayout")
    /\ \E new \in {{}} \cup {{l} : l \in Layouts} : layouts' = layouts \cup new
    /\ UNCHANGED renaming
    /\ CloseSticky("saveLayout", project)

\* renameNamedLayout: refused when the name is taken.
Rename(l, m) ==
    IF m \in layouts
    THEN UNCHANGED <<layouts, renaming>>
    ELSE layouts' = (layouts \ {l}) \cup {m} /\ renaming' = NoLayout

\* Manage Layouts: the row that is renamed has no other button.
ManageLayouts ==
    /\ project.running /\ Open("manageLayouts")
    /\ \/ \E l \in layouts \ {renaming} : renaming' = l /\ UNCHANGED layouts
       \/ \E l \in layouts \ {renaming} : layouts' = layouts \ {l} /\ UNCHANGED renaming
       \/ renaming \in layouts /\ \E m \in Layouts : Rename(renaming, m)
       \/ renaming \in layouts /\ renaming' = NoLayout /\ UNCHANGED layouts
    /\ UNCHANGED <<request, sticky, answered, approved, store, pending, granted>> /\ NothingRan
    /\ Frame("other", project, FALSE, FALSE)

CloseManage ==
    /\ project.running /\ Open("manageLayouts")
    /\ renaming' = NoLayout /\ UNCHANGED layouts
    /\ CloseSticky("manageLayouts", project)

\* The component form: a component that is saved marks the project.
CloseForm ==
    /\ project.running /\ Open("form")
    /\ UNCHANGED <<layouts, renaming>>
    /\ \E saved \in BOOLEAN :
         CloseSticky("form", [project EXCEPT !.dirty = @ \/ saved])

-----------------------------------------------------------------------------
(* Extensions.  *)

OnlyExtensions == UNCHANGED <<request, sticky, layouts, renaming, answered>>

\* A tool is run from its menu, or from its row of the Extensions panel, which
\* has a button only while the tool is trusted.  A run that succeeded rescans.
RunExtension ==
    /\ project.running /\ Free
    /\ OnlyExtensions
    /\ \E i \in Offered(project.root), outcome \in RunOutcomes :
         /\ RunTool(project.root, i, outcome)
         /\ Frame("other", IF outcome = "ok" THEN Refreshed(project) ELSE project, FALSE, FALSE)

\* The Refresh buttons of the Extensions panel and of the library.
Refresh ==
    /\ project.running /\ Free
    /\ UNCHANGED request /\ OnlyProject /\ NothingRan
    /\ Frame("other", Refreshed(project), FALSE, FALSE)

\* drawExternalToolTrustControls: "Trust..." and "Revoke trust".
RequestTrust ==
    /\ project.running /\ Free
    /\ \E i \in Tools(project.root) :
         RequiresTrust(project.root, i) /\ pending' = Listed(project.root)[i].folder
    /\ UNCHANGED <<approved, store, granted>> /\ OnlyExtensions /\ NothingRan
    /\ Frame("other", project, FALSE, FALSE)

RevokeTrust ==
    /\ project.running /\ Free
    /\ \E i \in Offered(project.root) :
         LET folder == Listed(project.root)[i].folder
         IN  ProjectLocal(project.root, folder) /\ Revoke(folder)
    /\ OnlyExtensions /\ NothingRan
    /\ Frame("other", project, FALSE, FALSE)

\* drawExtensionTrustPrompt: Trust and Cancel.
AnswerTrust ==
    /\ project.running /\ Open("trust")
    /\ Grant \/ Deny
    /\ OnlyExtensions /\ NothingRan
    /\ Frame("other", project, FALSE, FALSE)

-----------------------------------------------------------------------------
(* The program starts: untitled, clean, its files read.  *)

FirstProject == [path |-> NoPath, dirty |-> FALSE, root |-> Cwd, running |-> TRUE,
                 adopted |-> FALSE, effects |-> {}]

Start ==
    /\ ~project.running
    /\ project' = FirstProject
    /\ request' = "None" /\ pending' = NoFolder
    /\ sticky' = IF answered THEN {} ELSE {"welcome"}
    /\ dialog' = "none" /\ renaming' = NoLayout /\ tutorial' = 0
    /\ approved' \in Loads(store)
    /\ did' = [input |-> "other", effects |-> {}]
    /\ UNCHANGED <<layouts, answered, store, granted>> /\ NothingRan

\* The program is killed, perhaps between two writes of the trust file.
Crash ==
    /\ project.running
    /\ project' = [project EXCEPT !.running = FALSE]
    /\ store' \in {store} \cup (IF Open("trust") \/ (Free /\ approved # {}) THEN {Cut} ELSE {})
    /\ did' = [input |-> "other", effects |-> {}]
    /\ UNCHANGED <<approved, pending, granted, request, dialog, sticky, layouts, renaming,
                   tutorial, answered>>
    /\ NothingRan

Init ==
    /\ project = FirstProject
    /\ request = "None" /\ pending = NoFolder
    /\ answered = FALSE /\ sticky = {"welcome"}
    /\ dialog = "none" /\ layouts = {} /\ renaming = NoLayout /\ tutorial = 0
    /\ approved = {} /\ store = {} /\ granted = {} /\ ran = NoFolder
    /\ did = [input |-> "other", effects |-> {}]

Next ==
    \/ Idle \/ Menu \/ Shortcut \/ SaveKey \/ Edit \/ AgentLoad
    \/ SaveFirst \/ Discard \/ Cancel \/ CloseWindow
    \/ \E start \in BOOLEAN : AnswerWelcome(start)
    \/ TutorialStep
    \/ \E d \in {"saveLayout", "manageLayouts", "form"} : OpenSticky(d)
    \/ SaveLayout \/ ManageLayouts \/ CloseManage \/ CloseForm
    \/ RunExtension \/ Refresh \/ RequestTrust \/ RevokeTrust \/ AnswerTrust
    \/ Crash \/ Start

Spec == Init /\ [][Next]_vars

-----------------------------------------------------------------------------
(* Properties.  *)

\* Every variable has its type, and a flag that keeps a dialog open is seen.
TypeOK ==
    /\ project \in Projects /\ project.effects = {}
    /\ request \in Requests \cup {"None"}
    /\ dialog \in Dialogs /\ sticky \subseteq Sticky
    /\ layouts \subseteq Layouts /\ renaming \in Layouts \cup {NoLayout}
    /\ tutorial \in 0..Steps /\ answered \in BOOLEAN
    /\ approved \subseteq Folders /\ (store = Cut \/ store \subseteq Folders)
    /\ pending \in Folders \cup {NoFolder} /\ granted \subseteq Folders
    /\ ran \in Folders \cup {NoFolder}
    /\ did.effects \subseteq Effects

(* Unsaved work is given up only by the Discard button: New, Open, Exit and *)
(* the tutorial ask first, whatever the keyboard does while a dialog is     *)
(* open, and Save goes on only when the project was really saved.  Closing  *)
(* the window and a crash are the exceptions (see CloseAsksFirst).          *)
WorkIsLostKnowingly ==
    [][project.dirty /\ did'.effects \cap {"replaced", "exited"} # {}
         => did'.input \in {"discard", "close"} \/ "saved" \in did'.effects]_vars

(* What a project's directory ships is listed only while that project is    *)
(* open: New, Open, a load that failed half way and the tutorial rescan.    *)
(* A save under a new name keeps the extensions of the old directory until  *)
(* the next rescan.                                                         *)
ToolsAreOfTheProject ==
    project.running => project.root = RootOf(project.path) \/ project.adopted

(* A tool that ships with the open project runs only after the user trusted *)
(* its folder at the prompt and did not revoke it since: across restarts,   *)
(* failed and interrupted writes of the trust file, links, and tools that   *)
(* are listed in two places.                                                *)
LaunchedWasGranted ==
    [][ran' # NoFolder /\ ProjectLocal(project.root, ran') => ran' \in granted]_vars

(* The trust fails closed.  What is trusted is what the file says, after a  *)
(* write that failed or was interrupted too, and nothing of it when the     *)
(* file could not be read again; and what the file says, which the next     *)
(* start trusts, the user granted and no written revocation took back.      *)
TrustFailsClosed ==
    /\ project.running => approved \in {Contents(store), {}}
    /\ Contents(store) \subseteq granted

(* What extension_trust_store.cpp says of the reading after a failed write, *)
(* "Memory must describe the file".                                         *)
MemoryDescribesTheFile == project.running => approved = Contents(store)

(* A project provides no extension under an id that something installed     *)
(* claims, not even one that is broken or asks for a newer release.         *)
InstalledIdsAreReserved ==
    \A i \in DOMAIN Listed(project.root) \ Installed :
        Status(project.root, i) = "Ok" =>
            \A j \in Installed : Listed(project.root)[j].id # Listed(project.root)[i].id

\* Renaming a layout never replaces another one.
RenamingLosesNoLayout ==
    [][renaming # NoLayout /\ renaming \notin layouts' /\ layouts' # layouts
         => Cardinality(layouts') = Cardinality(layouts)]_vars

(* What CHANGELOG.md says of the dialog, "on close or new/open": the        *)
(* program does not end with unsaved work that the user was not asked       *)
(* about.                                                                   *)
CloseAsksFirst ==
    [][project.dirty /\ "exited" \in did'.effects
         => did'.input = "discard" \/ "saved" \in did'.effects]_vars

\* Neither a dialog that replaces another nor a rename gives up work that was not saved.
NothingIsLostUnasked == WorkIsLostKnowingly /\ RenamingLosesNoLayout
=============================================================================
