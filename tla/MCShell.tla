------------------------------ MODULE MCShell ------------------------------
(***************************************************************************)
(* The frame of the application and its menu bar, one of which is chosen   *)
(* at first.  "shell": two directories, the one the program was started in *)
(* and that of one project, which ships a tool of its own, links to one    *)
(* the user has installed, and tries to provide two ids that are taken: by *)
(* a built-in tool and by an installed one that asks for a newer release.  *)
(* "git": two directories, repositories that are clean or changed, two     *)
(* queries at a time, and three things that happen in the repositories, to *)
(* the project's path or to a query.                                       *)
(***************************************************************************)
EXTENDS Shell, TLC
CONSTANTS d0, d1, p0, p1, fBuilt, fNewer, fHome, fOwn, fTaken, fBroken, l1, l2

CONSTANTS a, b, GitDirs, GitReadings, GitWidths, GitTitles, GitQueries, GitChanges,
          NoReading, Running                                                   \* of "git"

VARIABLES part, repository, current, watched, generation, refreshed, queries, status, changes

MCDirs == {d0, d1}
MCPaths == {p0, p1}
MCDirOf == (p0 :> d0) @@ (p1 :> d1)
MCFolders == {fBuilt, fNewer, fHome, fOwn, fTaken, fBroken}
MCPlaceOf == [f \in MCFolders |-> IF f = fBuilt THEN "source"
                                  ELSE IF f \in {fNewer, fHome} THEN "home" ELSE d1]
MCRelease == <<1, 2>>
Tool(f, id) == [folder |-> f, json |-> TRUE, id |-> id, kind |-> "external-tool",
                entry |-> "inside", roots |-> "inside", wrong |-> {}, minimum |-> <<>>,
                numeric |-> TRUE]
MCFound ==
    [p \in {"source", "exe", "home", d0, d1} |->
        CASE p = "source" -> <<Tool(fBuilt, "built")>>
          [] p = "home" -> <<[Tool(fNewer, "newer") EXCEPT !.minimum = <<1, 2, 1>>],
                             Tool(fHome, "home")>>
          [] p = d1 -> <<[Tool(fBroken, NoId) EXCEPT !.json = FALSE],
                         Tool(fHome, "home"), Tool(fTaken, "newer"), Tool(fOwn, "own"),
                         [Tool(fBroken, "own2") EXCEPT !.entry = "outside"]>>
          [] OTHER -> <<>>]
MCLayouts == {l1, l2}
MCReadings == {[branch |-> 6, counts |-> 0], [branch |-> 0, counts |-> 7]}
MCWidths == {0, 9, 14, 20, 26, 32, 33, 50}

G == INSTANCE GitStatus WITH
       Dirs <- GitDirs, Readings <- GitReadings, Widths <- GitWidths, Titles <- GitTitles,
       MaxQueries <- GitQueries, Changes <- GitChanges
gitVars == <<repository, current, watched, generation, refreshed, queries, status, changes>>

ASSUME GitInstance == G!GitAssumption

MCInit ==
    /\ part \in {"shell", "git"} /\ Init /\ G!Init
    /\ part = "shell" => repository = [d \in {a, b} |-> NoReading] /\ current = a
MCNext ==
    \/ part = "shell" /\ Next /\ UNCHANGED <<part, gitVars>>
    \/ part = "git" /\ G!Next /\ UNCHANGED <<part, vars>>
MCSpec ==
    /\ MCInit /\ [][MCNext]_<<part, vars, gitVars>>
    /\ WF_gitVars(part = "git" /\ G!Update) /\ WF_gitVars(part = "git" /\ G!Interval)
    /\ \A i \in 1..GitQueries : WF_gitVars(part = "git" /\ i \in DOMAIN queries /\ G!Answer(i))

\* What the shell shows is of the open project: a project's own extensions are listed
\* while it is open, none under an id that is taken; the git status is of this visit, and
\* its header fits the menu bar and keeps its summary whatever the title and the width.
ShellIsSound ==
    /\ TypeOK /\ G!TypeOK
    /\ ToolsAreOfTheProject /\ InstalledIdsAreReserved
    /\ G!ShownIsOfThisVisit
    /\ part = "git" => G!HeaderKeepsSummary
\* The menu bar comes to show the repository as it is (see GitStatus).
StatusCatchesUp == G!StatusCatchesUp
=============================================================================
