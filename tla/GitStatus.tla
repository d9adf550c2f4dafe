----------------------------- MODULE GitStatus -----------------------------
(***************************************************************************)
(* GitStatusMonitor (src/app/src/git_status.cpp): every frame polls the    *)
(* queries that run in threads of their own and starts another one, and    *)
(* the menu bar shows the last answer.  A query starts a git process,      *)
(* reads what it prints until it ends, is too long or takes too long, and  *)
(* parses it; its answers can come in another order than they were asked.  *)
(*                                                                         *)
(* A reading is what a status says that the header shows: the lengths of   *)
(* the branch and of the change counts.  Widths are counted in characters. *)
(***************************************************************************)
EXTENDS Integers, Sequences

CONSTANTS
    Dirs,         \* directories the project can be in
    Readings,     \* set of [branch : Nat, counts : Nat]
    NoReading,    \* no repository, no git, a query that failed
    Running,      \* the answer of a query that has none yet
    MaxQueries,   \* kMaxConcurrentQueries
    Widths,       \* widths of the menu bar
    Titles,       \* lengths of the project's title
    Changes       \* bound on what happens in the repositories and directories

GitAssumption ==
    /\ Readings \subseteq [branch : Nat, counts : Nat] /\ NoReading \notin Readings
    /\ MaxQueries \in Nat \ {0} /\ Changes \in Nat
    /\ Widths \subseteq Nat /\ Titles \subseteq Nat

VARIABLES
    repository,  \* [Dirs -> Readings \cup {NoReading}]: what git would print now
    current,     \* the directory of the project
    watched,     \* m_working_directory
    generation,  \* m_generation
    refreshed,   \* m_has_refreshed and the interval has not passed
    queries,     \* m_pending_queries, in order
    status,      \* m_status, and (history) the directory and the generation it is of
    changes      \* of the environment so far

vars == <<repository, current, watched, generation, refreshed, queries, status, changes>>

Queries == [dir : Dirs, generation : Nat, answer : Readings \cup {NoReading, Running}]
Shown(reading, dir, visit) == [reading |-> reading, dir |-> dir, visit |-> visit]

-----------------------------------------------------------------------------
(* A query's thread.  *)

(* runGitStatus can end without an answer: no pipe, no process, no git, a   *)
(* read that fails, too much output, the time limit (then the process group *)
(* is killed), an exit code.                                                *)
Unanswered == IF changes < Changes THEN {NoReading} ELSE {}

\* parseGitStatus: what git prints names the branch and counts the changes.
Printed(dir) == repository[dir]

\* queryGitStatus: a plain folder is not asked about, and gives no reading.
Answers(dir) == {Printed(dir)} \cup Unanswered

Answer(i) ==
    /\ queries[i].answer = Running
    /\ \E answer \in Answers(queries[i].dir) :
         /\ queries' = [queries EXCEPT ![i].answer = answer]
         /\ changes' = IF answer = Printed(queries[i].dir) THEN changes ELSE changes + 1
    /\ UNCHANGED <<repository, current, watched, generation, refreshed, status>>

-----------------------------------------------------------------------------
(* update(): called by every frame with the directory of the project.  *)

Moved == current # watched
Generation == IF Moved THEN generation + 1 ELSE generation

\* An answer counts for the directory it was asked about, since it was entered.
Matches(q) == q.generation = Generation /\ q.dir = current

\* The queries that are in S, in the order in which they were asked.
Asked == {queries[i] : i \in DOMAIN queries}
Those(S) ==
    LET kept[i \in 0..Len(queries)] ==
          IF i = 0 THEN <<>>
          ELSE IF queries[i] \in S THEN Append(kept[i - 1], queries[i]) ELSE kept[i - 1]
    IN  kept[Len(queries)]

\* The queries that are done are taken in that order: the last one stays.
Taken ==
    LET done == Those({q \in Asked : q.answer # Running /\ Matches(q)})
        last == done[Len(done)]
    IN  IF done # <<>> THEN Shown(last.answer, last.dir, last.generation)
        ELSE IF Moved THEN Shown(NoReading, current, Generation) ELSE status

\* Mutant: answers that do not count are not taken off the list.
StillListed == Those({q \in Asked : q.answer = Running \/ ~Matches(q)})

StillRunning == Those({q \in Asked : q.answer = Running})

\* Whether a query is asked now: the first in this directory, or the interval
\* has passed, and there is room for one.
Asks == (Moved \/ ~refreshed) /\ Len(StillRunning) < MaxQueries

\* std::async may fail to start a thread: the next try waits as after a query.
Update ==
    /\ status' = Taken
    /\ watched' = current /\ generation' = Generation
    /\ refreshed' = (Asks \/ (refreshed /\ ~Moved))
    /\ \/ /\ queries' = StillRunning \o
               (IF Asks THEN <<[dir |-> current, generation |-> Generation,
                                answer |-> Running]>> ELSE <<>>)
          /\ UNCHANGED changes
       \/ /\ Asks /\ changes < Changes /\ changes' = changes + 1
          /\ queries' = StillRunning
    /\ UNCHANGED <<repository, current>>

\* kRefreshInterval passes.
Interval == refreshed /\ refreshed' = FALSE
            /\ UNCHANGED <<repository, current, watched, generation, queries, status, changes>>

-----------------------------------------------------------------------------
(* The user's work in the repositories, and the project that is opened.  *)

Work ==
    /\ changes < Changes /\ changes' = changes + 1
    /\ \/ \E d \in Dirs, r \in Readings \cup {NoReading} :
            repository' = [repository EXCEPT ![d] = r] /\ UNCHANGED current
       \/ \E d \in Dirs \ {current} : current' = d /\ UNCHANGED repository
    /\ UNCHANGED <<watched, generation, refreshed, queries, status>>

Init ==
    /\ repository \in [Dirs -> Readings \cup {NoReading}]
    /\ current \in Dirs /\ watched = current
    /\ generation = 0 /\ refreshed = FALSE /\ queries = <<>>
    /\ status = Shown(NoReading, current, 0)
    /\ changes = 0

Next == (\E i \in DOMAIN queries : Answer(i)) \/ Update \/ Interval \/ Work

\* The application draws frames, time passes, and a process is ended when its
\* time is up.
Fairness ==
    /\ WF_vars(Update) /\ WF_vars(Interval)
    /\ \A i \in 1..MaxQueries : WF_vars(i \in DOMAIN queries /\ Answer(i))

Spec == Init /\ [][Next]_vars /\ Fairness

-----------------------------------------------------------------------------
(* The header.  A text is its length; "..." stands for what is cut off.  *)

Wider(a, b) == IF a > b THEN a ELSE b

\* fitTextToWidth.
Fit(text, width) ==
    IF text = 0 \/ width <= 0 THEN 0 ELSE IF text <= width THEN text ELSE IF width < 3 THEN 0 ELSE width

\* "Git: ", seven digits of the commit, the counts; or "Git unavailable".
Commit == 12
Unavailable == 15
Summary(r) == IF r = NoReading THEN Unavailable ELSE Commit + r.counts

(* fitGitStatusHeaderLabel: the commit, then the counts, of which one must  *)
(* be readable (" +1" and what follows), then the branch, of which one      *)
(* letter must be.                                                          *)
Primary(r, width) ==
    LET counts == Fit(r.counts, width - Commit)
    IN  IF Summary(r) <= width THEN Summary(r)
        ELSE IF Commit > width THEN Fit(Commit, width)
        ELSE IF counts >= 3 + 3 THEN Commit + counts ELSE Commit

GitLabel(r, width) ==
    LET primary == Primary(r, width)
        branch == IF r.branch = 0 THEN 0 ELSE 1 + r.branch
        fitted == Fit(branch, width - primary)
    IN  IF r = NoReading THEN Fit(Unavailable, width)
        ELSE IF Commit > width THEN primary
        ELSE IF primary + branch <= width THEN primary + branch
        ELSE IF fitted >= 1 + 1 + 3 THEN primary + fitted ELSE primary

\* The frame rate, at the right end of the menu bar.
Fps == 8

\* fitGitHeaderLabels: the title gets what the rest leaves, and the label the
\* rest; fps and the spaces between are taken off first.
TitleLabel(r, title, width) ==
    Fit(title, Wider(0, width - Fps - (IF title = 0 THEN 1 ELSE 2) - Summary(r)))
GitWidth(r, title, width) ==
    LET shown == TitleLabel(r, title, width)
    IN  Wider(0, width - Fps - (IF shown > 0 THEN 2 + shown ELSE 1))

-----------------------------------------------------------------------------
(* Properties.  *)

\* Every variable has its type, and there are never more queries than allowed.
TypeOK ==
    /\ repository \in [Dirs -> Readings \cup {NoReading}]
    /\ current \in Dirs /\ watched \in Dirs
    /\ generation \in Nat /\ refreshed \in BOOLEAN
    /\ queries \in Seq(Queries) /\ Len(queries) <= MaxQueries
    /\ status.reading \in Readings \cup {NoReading}
    /\ changes \in 0..Changes

(* What the menu bar shows was read in the directory of the project, and    *)
(* after the project was opened this time: an answer that was asked for     *)
(* before another project was open in between is not taken for the new one. *)
ShownIsOfThisVisit ==
    status.reading # NoReading => status.dir = watched /\ status.visit = generation

(* When nothing changes any more and git answers, the menu bar comes to     *)
(* show the repository as it is, whatever order the answers came in and     *)
(* even if every slot was taken by queries about other directories.         *)
StatusCatchesUp == <>[](status.reading = repository[current])

(* The header fits the menu bar, and the commit with all counts is shown    *)
(* whole whenever the bar has room for it beside the frame rate: neither a  *)
(* long title nor a long branch takes that room.                            *)
HeaderKeepsSummary ==
    \A title \in Titles, width \in Widths :
        LET shown == TitleLabel(status.reading, title, width)
            room == GitWidth(status.reading, title, width)
            label == GitLabel(status.reading, room)
        IN  /\ label <= room
            /\ width >= Fps + 1 + Summary(status.reading) => label >= Summary(status.reading)
            /\ shown > 0 => Fps + 2 + shown + label <= width
=============================================================================
