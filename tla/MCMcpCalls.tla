----------------------------- MODULE MCMcpCalls -----------------------------
(***************************************************************************)
(* The MCP process in three parts, one of which is chosen at first.        *)
(* "bridge": the threads of the process, with three calls of two sizes in  *)
(* queues of four entries, three of them calls, and small byte limits.     *)
(* "tracking": seven calls and results so small that only the number of    *)
(* entries counts, to the limit on tracked calls.                          *)
(* "link": a client that makes two calls in one MCP session, before or     *)
(* after it introduced itself, and two simulators of one installation.     *)
(***************************************************************************)
EXTENDS McpBridge, TLC

CONSTANTS c1, c2, c3,                        \* the calls of "bridge"
          c4, c5, c6, c7, c8, c9, c10,       \* those of "tracking"
          s1, s2, n1, NoName, BadName, Nobody   \* simulators, a client's name

CONSTANTS Few, Many                          \* the calls of the two parts
CONSTANTS Names, Simulators, Release, Lines, Ports,    \* of "link"
          LinkCalls, LinkTasks, LinkQueued, LinkStarts

VARIABLES part,
  endpoint, server, foreign, inbox, starter, session, tasks, link, connections, asker, outcome,
  channel, ran

\* A call of "tracking" is less than one unit of bytes.
MCLineBytes == [c \in Calls |-> IF c \in Many THEN 0 ELSE IF c = c2 THEN 2 ELSE 1]
MCCallBytes == [c \in Calls |-> IF c \in Many THEN 0 ELSE IF c = c2 THEN 4 ELSE 2]
MCIdBytes   == [c \in Calls |-> IF c \in Many THEN 0 ELSE 1]

InSession(method, era, client) ==
  [method |-> method, note |-> FALSE, era |-> era, client |-> client, form |-> "good"]
MCRelease == [s \in Simulators |-> IF s = s1 THEN 1 ELSE 2]
MCLines == {
  InSession("initialize", "legacy", n1),
  InSession("call", "modern", NoName) }

\* Calls of one size are interchangeable: it is enough to read them in one order.
InOrder == CHOOSE f \in [1..Cardinality(Many) -> Many] : IsInjective(f)
ReadInOrder == \A i \in 1..(Cardinality(Many) - 1) : InOrder[i + 1] \in read => InOrder[i] \in read

L == INSTANCE AgentLink WITH
       BridgeRelease <- 1, MaxCalls <- LinkCalls,
       MaxTasks <- LinkTasks, MaxQueued <- LinkQueued, MaxStarts <- LinkStarts
linkVars == <<endpoint, server, foreign, inbox, starter, session, tasks, link, connections,
              asker, outcome, channel, ran>>

ASSUME LinkInstance == L!NamesAssumption /\ L!LinkAssumption

MCInit == part \in {"bridge", "tracking", "link"} /\ Init /\ L!Init
MCNext ==
  \/ part = "bridge" /\ Next /\ read' \subseteq Few /\ UNCHANGED <<part, linkVars>>
  \/ part = "tracking" /\ Next /\ read' \subseteq Many /\ ReadInOrder' /\ others' = others
       /\ rpc' # "eof" /\ done'.bytes <= FailureBytes /\ UNCHANGED <<part, linkVars>>
  \/ part = "link" /\ L!Next /\ UNCHANGED <<part, vars>>
MCSpec ==
  /\ MCInit /\ [][MCNext]_<<part, vars, linkVars>>
  /\ WF_vars(part = "bridge" /\ ReaderStep)
  /\ WF_vars(part = "bridge" /\ SessionStep)
  /\ WF_vars(part = "bridge" /\ CallerStep)
  /\ WF_linkVars(part = "link" /\ L!LinkStep)

\* The queues of the process are sound: counters and limits fit what is queued, tokens
\* are of the calls on their way, no call that was read is left without its answer, and
\* the limit on tracked calls covers what the queues can hold.
QueuesAreSound ==
  TypeOK /\ QueuesAreAccounted /\ TokensAreLiveCalls /\ EveryCallAnswered /\ TrackingCovers
\* A call reaches the server whose endpoint was read, the endpoint is that of the
\* simulator started last, and the call is credited to the client that made it.
CallsReachTheirSimulator ==
  L!TypeOK /\ L!CallsReachTheirSimulator /\ L!LastStartedIsFound /\ L!ClientIsTheCaller
\* Whatever crashes, times out or restarts, bridge and simulators refine CallService.
CallsAreServed == L!CallsAreServed
\* What openwiki/operations/agent-connection.md says of a second client: it is told BUSY.
BusyIsTold == L!BusyIsTold
=============================================================================
