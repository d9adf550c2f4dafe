---------------------------- MODULE AgentServer ----------------------------
(***************************************************************************)
(* The agent server of the simulator: agent/api/src/agent_server.cpp.      *)
(*                                                                         *)
(* A listener thread owns the socket side: it admits one client at a time, *)
(* lets one newcomer wait, authenticates the client, puts the calls it     *)
(* reads into `inbox' and writes the replies it finds in `outbox'.  The UI *)
(* thread pumps: it takes calls out of the inbox and runs them, one at a   *)
(* time, over as many pumps as a call needs.  start(), stop() and submit() *)
(* are called from outside.  The three share the state below under one     *)
(* mutex; pump() and the draining half of stop() exclude each other by     *)
(* `pump_mutex', start() and stop() by `lifecycle_mutex'.                  *)
(*                                                                         *)
(* A step is one critical section of the mutex together with the local     *)
(* work next to it.  The content of messages is abstracted away: a call    *)
(* is a value, a result is its kind, a connection is the peer it leads to. *)
(***************************************************************************)
EXTENDS Integers, Sequences, FiniteSets

CONSTANTS
  Calls,        \* the calls made during a behaviour, each made at most once
  LocalCalls,   \* the calls made with submit(); the others come from a client
  Conns,        \* the connections that peers open, each opened at most once
  Size,         \* the bytes a call is charged for
  MaxQueued,    \* kMaxQueuedAgentCalls
  MaxBytes,     \* kMaxQueuedAgentCallBytes
  ParkTimeout,  \* park_timeout, in clock ticks
  MaxStarts,    \* bound on start() calls, for model checking
  Faults,       \* the environment faults considered: "dialog", "throw", "listener"
  NoCall,       \* no call in a slot
  NoConn        \* no connection in a slot; also the addressee of a local answer

Hello == "hello"   \* the line that opens a session

ASSUME CallsAssumption ==
  LocalCalls \subseteq Calls /\ NoCall \notin Calls /\ Hello \notin Calls \cup {NoCall}
ASSUME ConnsAssumption == NoConn \notin Conns
ASSUME BoundsAssumption ==
  /\ MaxQueued \in Nat /\ MaxBytes \in Nat /\ ParkTimeout \in Nat /\ MaxStarts \in Nat
  /\ Size \in [Calls -> Nat]

VARIABLES
  \* flags of the server
  isRunning, stopping, stopRequested, endpointWritten,
  \* the shared queues
  inbox, inboxBytes, active, outbox, executing,
  \* session numbers, and the status shown in the Agent window
  nextSession, activeSession, authSession, status,
  \* the listener thread
  lpc, client, clientSession, authenticated, waiting, line,
  \* the thread inside pump()
  ppc, held, completed, completions,
  \* the thread inside start() or stop()
  spc, stopCompletions, starts,
  \* the surroundings: an application dialog, the order in which calls are made
  \* (0: not yet), the connections not yet opened
  dialog, order, freshConns,
  \* history: the peer of each session, who made each call, the answers given,
  \* and how long every look of the pump has found a dialog open
  admitted, caller, answers, dialogAge

flagVars     == <<isRunning, stopping, stopRequested, endpointWritten>>
queueVars    == <<inbox, inboxBytes, active, outbox, executing>>
sessionVars  == <<nextSession, activeSession, authSession, admitted>>
listenerVars == <<lpc, client, clientSession, authenticated, waiting, line>>
pumpVars     == <<ppc, held, completed, completions>>
stopVars     == <<spc, stopCompletions, starts>>
worldVars    == <<dialog, order, freshConns, caller, answers, dialogAge>>
vars == <<flagVars, queueVars, sessionVars, status, listenerVars, pumpVars,
          stopVars, worldVars>>

-----------------------------------------------------------------------------
(* Calls, responses and queues *)

NetworkCalls == Calls \ LocalCalls
NotParked    == -1
ParkAges     == NotParked .. ParkTimeout + 1   \* older than the timeout is all alike
ResultKinds  == {"Done", "Internal", "Busy", "Unavailable", "Overloaded", "Invalid"}

\* A call on its way; session 0 stands for has_request = false, a local call.
PendingCall == [call : Calls, session : Nat, parked : ParkAges]
Response    == [call : Calls, session : Nat, result : ResultKinds]
Completion  == [call : Calls, result : ResultKinds]
Answer      == [call : Calls, to : Conns \cup {NoConn}, result : ResultKinds]

ASSUME NoCallAssumption == NoCall \notin PendingCall

Arrival(c, session)  == [call |-> c, session |-> session, parked |-> NotParked]
ResponseFor(p, kind) == [call |-> p.call, session |-> p.session, result |-> kind]
CompletionFor(p, kind) == [call |-> p.call, result |-> kind]
HasRequest(p) == p.session # 0

\* The elements of s that are in S, in their order
Keeping(s, S) ==
  LET kept[i \in 0..Len(s)] ==
        IF i = 0 THEN <<>> ELSE IF s[i] \in S THEN Append(kept[i - 1], s[i]) ELSE kept[i - 1]
  IN  kept[Len(s)]

QueueCapacityAvailable(count, bytes, payload) ==
  count < MaxQueued /\ payload <= MaxBytes - bytes

\* While a dialog is open the clock of every call that waits runs; it starts
\* at the first look that finds the dialog open, and a look that finds none
\* stops all clocks.
Clocked(p)     == IF p.parked = NotParked THEN [p EXCEPT !.parked = 0] ELSE p
\* Mutant: the clock of a call that waited runs on.
StillClocked(p) == p
Unclocked(p)   == [p EXCEPT !.parked = NotParked]
ClockAll(s)    == [i \in DOMAIN s |-> Clocked(s[i])]
UnclockAll(s)  == [i \in DOMAIN s |-> Unclocked(s[i])]
\* Mutant: a dialog parks a call for ever.
NeverTooLong(p)  == FALSE
ParkedTooLong(p) == p.parked > ParkTimeout

-----------------------------------------------------------------------------
(* The status line *)

OffStatus     == [state |-> "Off", client |-> NoConn]
WaitingStatus == [state |-> "Waiting", client |-> NoConn]
ErrorStatus   == [state |-> "Error", client |-> NoConn]

HasWork(exec, box) == exec \/ box # <<>>

\* setStatusFromWorkLocked, from the current status and the state it reads
StatusFromWork(current, stop, exec, box, run, auth) ==
  CASE stop                                  -> current
    [] ~stop /\ HasWork(exec, box)          -> [current EXCEPT !.state = "Busy"]
    [] ~stop /\ ~HasWork(exec, box) /\ ~run ->
         IF current.state = "Error" THEN current ELSE OffStatus
    [] ~stop /\ ~HasWork(exec, box) /\ run  ->
         IF auth # 0 THEN [current EXCEPT !.state = "Connected"] ELSE WaitingStatus

UpdateStatus ==
  status' = StatusFromWork(status, stopping, executing', inbox', isRunning', authSession')

-----------------------------------------------------------------------------
(* submit() *)

\* The check that submit() and enqueueNetworkCall make under the mutex.
Accepting == ~stopping

Made == {c \in Calls : order[c] # 0}
Arrives(c) == order' = [order EXCEPT ![c] = Cardinality(Made) + 1]

Submit(c) ==
  /\ c \in LocalCalls \ Made
  /\ Arrives(c)
  /\ \/ /\ ~Accepting
        /\ answers' = Append(answers, [call |-> c, to |-> NoConn, result |-> "Unavailable"])
        /\ UNCHANGED <<queueVars, status>>
     \/ /\ Accepting
        /\ ~QueueCapacityAvailable(Len(inbox), inboxBytes, Size[c])
        /\ answers' = Append(answers, [call |-> c, to |-> NoConn, result |-> "Overloaded"])
        /\ UNCHANGED <<queueVars, status>>
     \/ /\ Accepting
        /\ QueueCapacityAvailable(Len(inbox), inboxBytes, Size[c])
        /\ inbox' = Append(inbox, Arrival(c, 0))
        /\ inboxBytes' = inboxBytes + Size[c]
        /\ UNCHANGED <<active, outbox, executing, isRunning, authSession, answers>>
        /\ UpdateStatus
  /\ UNCHANGED <<flagVars, sessionVars, listenerVars, pumpVars, stopVars,
                 dialog, freshConns, caller, dialogAge>>

-----------------------------------------------------------------------------
(* The listener thread *)

\* Mutant: the number of a client that left is used again.
FreshSessionOfLast == activeSession + 1
\* allocateSession: numbers are never used again, not even after a restart
FreshSession == nextSession + 1

\* admit: the connection becomes the client, under a new session number
Admit(c) ==
  /\ nextSession' = FreshSession
  /\ activeSession' = FreshSession
  /\ admitted' = Append(admitted, c)
  /\ client' = c
  /\ clientSession' = FreshSession
  /\ authenticated' = FALSE
  /\ UNCHANGED authSession

\* closeSession: forget the client and the replies that wait for it
CloseSession ==
  /\ client' = NoConn
  /\ clientSession' = 0
  /\ authenticated' = FALSE
  /\ activeSession' = IF activeSession = clientSession THEN 0 ELSE activeSession
  /\ outbox' = Keeping(outbox, {r \in Response : r.session # clientSession})
  /\ IF authenticated /\ authSession = clientSession
     THEN /\ authSession' = 0
          /\ status' = StatusFromWork([status EXCEPT !.client = NoConn], stopping,
                                      executing, inbox, isRunning, 0)
     ELSE UNCHANGED <<authSession, status>>
  /\ UNCHANGED <<inbox, inboxBytes, active, executing, nextSession, admitted>>

\* handleHello: a well-formed hello with the bridge token and the catalog of
\* this build is answered, while the session is still the active one.
HelloAccepted == ~authenticated /\ activeSession = clientSession

\* The top of the loop: one connection may be accepted, unless stopping.
ListenerAccept ==
  /\ lpc = "accept"
  /\ lpc' = "read"
  /\ \/ UNCHANGED <<freshConns, waiting, client, clientSession, authenticated, sessionVars>>
     \/ /\ ~stopping
        /\ \E c \in freshConns :
             /\ freshConns' = freshConns \ {c}
             /\ \/ client = NoConn /\ waiting = NoConn /\ Admit(c) /\ UNCHANGED waiting
                \/ /\ client # NoConn /\ waiting = NoConn
                   /\ waiting' = c
                   /\ UNCHANGED <<client, clientSession, authenticated, sessionVars>>
                \/ /\ waiting # NoConn    \* answered BUSY and closed
                   /\ UNCHANGED <<waiting, client, clientSession, authenticated, sessionVars>>
  /\ UNCHANGED <<flagVars, queueVars, status, line, pumpVars, stopVars,
                 dialog, order, caller, answers, dialogAge>>

\* One attempt to read a line from the client.
ListenerRead ==
  /\ lpc = "read"
  /\ \/ \* no client, no reading while stopping, or nothing to read yet
        /\ lpc' = "newcomer"
        /\ UNCHANGED <<client, clientSession, authenticated, line, queueVars, sessionVars,
                       status, order, caller>>
     \/ \* end of file, a bad line, a refused or late hello
        /\ client # NoConn /\ ~stopping
        /\ CloseSession
        /\ lpc' = "newcomer"
        /\ UNCHANGED <<line, order, caller>>
     \/ \* a hello with the right token, answered
        /\ client # NoConn /\ ~stopping /\ HelloAccepted
        /\ line' = Hello
        /\ authenticated' = TRUE
        /\ lpc' = "handle"
        /\ UNCHANGED <<client, clientSession, queueVars, sessionVars, status, order, caller>>
     \/ /\ client # NoConn /\ ~stopping /\ authenticated
        /\ \E c \in NetworkCalls \ Made :
             /\ line' = c
             /\ Arrives(c)
             /\ caller' = [caller EXCEPT ![c] = client]
        /\ lpc' = "handle"
        /\ UNCHANGED <<client, clientSession, authenticated, queueVars, sessionVars, status>>
  /\ UNCHANGED <<flagVars, waiting, pumpVars, stopVars, dialog, freshConns, answers, dialogAge>>

\* setConnected, after a good hello
ListenerConnected ==
  /\ lpc = "handle" /\ line = Hello
  /\ lpc' = "newcomer"
  /\ line' = NoCall
  /\ IF activeSession # clientSession \/ stopping
     THEN UNCHANGED <<authSession, status>>
     ELSE /\ authSession' = clientSession
          /\ status' = StatusFromWork([status EXCEPT !.client = client], stopping,
                                      executing, inbox, isRunning, clientSession)
  /\ UNCHANGED <<flagVars, queueVars, nextSession, activeSession, admitted, client,
                 clientSession, authenticated, waiting, pumpVars, stopVars, worldVars>>

\* handleCall writes its own reply: a malformed call, or a full queue.  A
\* failed write closes the session.
ReplyDirectly(kind) ==
  /\ \/ /\ answers' = Append(answers, [call |-> line, to |-> client, result |-> kind])
        /\ UNCHANGED <<client, clientSession, authenticated, queueVars, sessionVars, status>>
     \/ CloseSession /\ UNCHANGED answers

\* enqueueNetworkCall, when there is room or the server is stopping
EnqueueNetworkCall(c) ==
  \/ /\ ~Accepting
     /\ outbox' = Append(outbox, ResponseFor(Arrival(c, clientSession), "Unavailable"))
     /\ UNCHANGED <<inbox, inboxBytes, active, executing, isRunning, authSession, status>>
  \/ /\ Accepting /\ QueueCapacityAvailable(Len(inbox), inboxBytes, Size[c])
     /\ inbox' = Append(inbox, Arrival(c, clientSession))
     /\ inboxBytes' = inboxBytes + Size[c]
     /\ UNCHANGED <<active, outbox, executing, isRunning, authSession>>
     /\ UpdateStatus

\* handleCall: the call is queued, or answered at once
ListenerCall ==
  /\ lpc = "handle" /\ line \in Calls
  /\ lpc' = "newcomer"
  /\ line' = NoCall
  /\ \/ ReplyDirectly("Invalid")
     \/ /\ Accepting /\ ~QueueCapacityAvailable(Len(inbox), inboxBytes, Size[line])
        /\ ReplyDirectly("Overloaded")
     \/ /\ EnqueueNetworkCall(line)
        /\ UNCHANGED <<client, clientSession, authenticated, nextSession, activeSession,
                       admitted, answers>>
  /\ UNCHANGED <<flagVars, waiting, pumpVars, stopVars, dialog, order, freshConns,
                 caller, dialogAge>>

\* A newcomer replaces a client that has gone, or runs out of its grace.
ListenerNewcomer ==
  /\ lpc = "newcomer"
  /\ lpc' = "flush"
  /\ \/ /\ waiting # NoConn /\ client = NoConn
        /\ Admit(waiting)
        /\ waiting' = NoConn
     \/ /\ waiting # NoConn /\ client # NoConn
        /\ waiting' = NoConn              \* answered BUSY and closed
        /\ UNCHANGED <<client, clientSession, authenticated, sessionVars>>
     \/ /\ waiting = NoConn \/ client # NoConn
        /\ UNCHANGED <<waiting, client, clientSession, authenticated, sessionVars>>
  /\ UNCHANGED <<flagVars, queueVars, status, line, pumpVars, stopVars, worldVars>>

\* flushOutbox: one reply a step; a reply of another session is dropped
ListenerFlush ==
  /\ lpc = "flush"
  /\ \/ /\ outbox = <<>>
        /\ lpc' = "check"
        /\ UNCHANGED <<client, clientSession, authenticated, queueVars, sessionVars,
                       status, answers>>
     \/ /\ outbox # <<>>
        /\ client = NoConn \/ ~authenticated \/ Head(outbox).session # clientSession
        /\ outbox' = Tail(outbox)
        /\ UNCHANGED <<lpc, client, clientSession, authenticated, inbox, inboxBytes, active,
                       executing, sessionVars, status, answers>>
     \/ /\ outbox # <<>> /\ client # NoConn /\ authenticated
        /\ Head(outbox).session = clientSession
        /\ \/ /\ outbox' = Tail(outbox)
              /\ answers' = Append(answers, [call |-> Head(outbox).call, to |-> client,
                                             result |-> Head(outbox).result])
              /\ UNCHANGED <<lpc, client, clientSession, authenticated, inbox, inboxBytes,
                             active, executing, sessionVars, status>>
           \/ \* the reply cannot be written or does not fit the line limit
              /\ CloseSession
              /\ lpc' = "check"
              /\ UNCHANGED answers
  /\ UNCHANGED <<flagVars, waiting, line, pumpVars, stopVars, dialog, order, freshConns,
                 caller, dialogAge>>

\* Mutant: the listener also waits until its client is gone.
ListenerCheckAlone ==
  /\ lpc = "check"
  /\ lpc' = IF stopRequested /\ outbox = <<>> /\ client = NoConn THEN "exit" ELSE "accept"
  /\ UNCHANGED <<flagVars, queueVars, sessionVars, status, client, clientSession,
                 authenticated, waiting, line, pumpVars, stopVars, worldVars>>
\* The bottom of the loop: leave once stop() has drained and nothing is left.
ListenerCheck ==
  /\ lpc = "check"
  /\ lpc' = IF stopRequested /\ outbox = <<>> THEN "exit" ELSE "accept"
  /\ UNCHANGED <<flagVars, queueVars, sessionVars, status, client, clientSession,
                 authenticated, waiting, line, pumpVars, stopVars, worldVars>>

\* An exception ends the loop.
ListenerFail ==
  /\ "listener" \in Faults
  /\ lpc \in {"accept", "read", "handle", "newcomer", "flush", "check"}
  /\ lpc' = "exit"
  /\ line' = NoCall
  /\ IF stopping
     THEN UNCHANGED <<isRunning, status>>
     ELSE isRunning' = FALSE /\ status' = ErrorStatus
  /\ UNCHANGED <<stopping, stopRequested, endpointWritten, queueVars, sessionVars, client,
                 clientSession, authenticated, waiting, pumpVars, stopVars, worldVars>>

ListenerExit ==
  /\ lpc = "exit"
  /\ lpc' = "off"
  /\ IF client # NoConn
     THEN CloseSession
     ELSE UNCHANGED <<client, clientSession, authenticated, queueVars, sessionVars, status>>
  /\ waiting' = NoConn
  /\ UNCHANGED <<flagVars, line, pumpVars, stopVars, worldVars>>

ListenerStep ==
  \/ ListenerAccept \/ ListenerRead \/ ListenerConnected \/ ListenerCall
  \/ ListenerNewcomer \/ ListenerFlush \/ ListenerCheck \/ ListenerExit

-----------------------------------------------------------------------------
(* pump() *)

PumpBegin ==
  /\ ppc = "idle" /\ ~stopping
  /\ ppc' = "loop"
  /\ completed' = FALSE
  /\ UNCHANGED <<flagVars, queueVars, sessionVars, status, listenerVars, held, completions,
                 stopVars, worldVars>>

\* The head of the loop: stopping, the budget (checked after a call has
\* completed), the active call first, then the inbox.
PumpBreak ==
  /\ ppc = "loop"
  /\ stopping \/ completed \/ (active = NoCall /\ inbox = <<>>)
  /\ ppc' = "leave"
  /\ UNCHANGED <<flagVars, queueVars, sessionVars, status, listenerVars, held, completed,
                 completions, stopVars, worldVars>>

TakeActive(place) ==
  /\ ppc = "loop" /\ ~stopping /\ active # NoCall
  /\ held' = active
  /\ active' = NoCall
  /\ ppc' = place
  /\ UNCHANGED <<flagVars, inbox, inboxBytes, outbox, executing, sessionVars, status,
                 listenerVars, completed, completions, stopVars, worldVars>>
\* Mutant: a deferred call goes on under a dialog.
PumpTakeActiveUnseen == TakeActive("run")
PumpTakeActive == TakeActive("resume")

PumpLookInbox ==
  /\ ppc = "loop" /\ ~stopping /\ active = NoCall /\ inbox # <<>>
  /\ ppc' = "next"
  /\ UNCHANGED <<flagVars, queueVars, sessionVars, status, listenerVars, held, completed,
                 completions, stopVars, worldVars>>

\* queueResult
QueueResult(response) == outbox' = Append(outbox, response)

\* The results of one pump, handed to the callers of submit() as it ends
Complete(completion) == completions' = Append(completions, completion)

\* finishCall: the result goes to the outbox or to the caller of submit()
FinishCall(p, kind) ==
  /\ IF HasRequest(p)
     THEN QueueResult(ResponseFor(p, kind)) /\ UNCHANGED completions
     ELSE Complete(CompletionFor(p, kind)) /\ UNCHANGED outbox
  /\ completed' = TRUE
  /\ ppc' = "loop"
  /\ held' = NoCall

\* What the pump's look at the dialog leaves in the history.
LookDialogOpen   == dialogAge' = IF dialogAge = NotParked THEN 0 ELSE dialogAge
LookDialogClosed == dialogAge' = NotParked

\* The resumed call is parked, answered Busy, or allowed to go on.
PumpResume ==
  /\ ppc = "resume"
  /\ \/ /\ "throw" \in Faults            \* the dialog query throws
        /\ executing' = FALSE
        /\ UNCHANGED <<inbox, inboxBytes, active, isRunning, authSession, dialogAge>>
        /\ UpdateStatus
        /\ FinishCall(held, "Internal")
     \/ /\ stopping
        /\ active' = held
        /\ held' = NoCall
        /\ ppc' = "leave"
        /\ UNCHANGED <<inbox, inboxBytes, outbox, executing, status, completed,
                       completions, dialogAge>>
     \/ /\ ~stopping /\ dialog /\ ~ParkedTooLong(Clocked(held))
        /\ LookDialogOpen
        /\ inbox' = ClockAll(inbox)
        /\ active' = Clocked(held)
        /\ held' = NoCall
        /\ executing' = TRUE
        /\ UNCHANGED <<isRunning, authSession>>
        /\ UpdateStatus
        /\ ppc' = "leave"
        /\ UNCHANGED <<inboxBytes, outbox, completed, completions>>
     \/ /\ ~stopping /\ dialog /\ ParkedTooLong(Clocked(held))
        /\ LookDialogOpen
        /\ inbox' = ClockAll(inbox)
        /\ executing' = FALSE
        /\ UNCHANGED <<inboxBytes, active, isRunning, authSession>>
        /\ UpdateStatus
        /\ FinishCall(held, "Busy")
     \/ /\ ~stopping /\ ~dialog
        /\ LookDialogClosed
        /\ inbox' = UnclockAll(inbox)
        /\ held' = Unclocked(held)
        /\ ppc' = "run"
        /\ UNCHANGED <<inboxBytes, active, outbox, executing, status, completed, completions>>
  /\ UNCHANGED <<flagVars, sessionVars, listenerVars, stopVars, dialog, order, freshConns,
                 caller, answers>>

\* The oldest queued call is taken, unless a dialog parks it.
TakeHead(box) ==
  /\ inbox' = Tail(box)
  /\ inboxBytes' = inboxBytes - Size[Head(box).call]

PumpTakeNext ==
  /\ ppc = "next"
  /\ \/ /\ "throw" \in Faults /\ ~stopping
        /\ TakeHead(inbox)
        /\ FinishCall(Head(inbox), "Internal")
        /\ UNCHANGED <<active, executing, status, dialogAge>>
     \/ /\ stopping
        /\ ppc' = "leave"
        /\ UNCHANGED <<queueVars, held, status, completed, completions, dialogAge>>
     \/ /\ ~stopping /\ dialog /\ ~ParkedTooLong(Clocked(Head(inbox)))
        /\ LookDialogOpen
        /\ inbox' = ClockAll(inbox)
        /\ ppc' = "leave"
        /\ UNCHANGED <<inboxBytes, active, outbox, executing, held, status, completed,
                       completions>>
     \/ /\ ~stopping /\ dialog /\ ParkedTooLong(Clocked(Head(inbox)))
        /\ LookDialogOpen
        /\ TakeHead(ClockAll(inbox))
        /\ FinishCall(Head(inbox), "Busy")
        /\ UNCHANGED <<active, executing, status>>
     \/ /\ ~stopping /\ ~dialog
        /\ LookDialogClosed
        /\ TakeHead(UnclockAll(inbox))
        /\ held' = Unclocked(Head(inbox))
        /\ executing' = TRUE
        /\ UNCHANGED <<active, outbox, isRunning, authSession, completed, completions>>
        /\ UpdateStatus
        /\ ppc' = "run"
  /\ UNCHANGED <<flagVars, sessionVars, listenerVars, stopVars, dialog, order, freshConns,
                 caller, answers>>

\* The executor advances the call: it is not finished yet, or has a result.
PumpRun ==
  /\ ppc = "run"
  /\ \/ /\ active' = held
        /\ held' = NoCall
        /\ executing' = TRUE
        /\ ppc' = "leave"
        /\ UNCHANGED <<outbox, completed, completions>>
     \/ /\ executing' = FALSE
        /\ \E kind \in {"Done", "Internal"} : FinishCall(held, kind)
        /\ UNCHANGED active
  /\ UNCHANGED <<flagVars, inbox, inboxBytes, sessionVars, listenerVars, stopVars, worldVars>>
  /\ UpdateStatus

PumpLeave ==
  /\ ppc = "leave"
  /\ ppc' = "notify"
  /\ UNCHANGED <<flagVars, queueVars, sessionVars, listenerVars, held, completed,
                 completions, stopVars, worldVars>>
  /\ UpdateStatus

AnswersOf(dones) ==
  [i \in DOMAIN dones |-> [call |-> dones[i].call, to |-> NoConn, result |-> dones[i].result]]

\* The completion handlers run after the pump has released its locks.
PumpNotify ==
  /\ ppc = "notify"
  /\ ppc' = "idle"
  /\ answers' = answers \o AnswersOf(completions)
  /\ completions' = <<>>
  /\ UNCHANGED <<flagVars, queueVars, sessionVars, status, listenerVars, held, completed,
                 stopVars, dialog, order, freshConns, caller, dialogAge>>

PumpStep ==
  PumpBreak \/ PumpTakeActive \/ PumpLookInbox \/ PumpResume \/ PumpTakeNext \/ PumpRun
    \/ PumpLeave \/ PumpNotify

-----------------------------------------------------------------------------
(* start() and stop() *)

\* start() joins a listener that has failed and removes its endpoint file.
StartBegin ==
  /\ spc = "idle" /\ starts < MaxStarts
  /\ ~isRunning /\ lpc = "off"
  /\ starts' = starts + 1
  /\ stopping' = FALSE
  /\ stopRequested' = FALSE
  /\ UNCHANGED <<queueVars, client, clientSession, authenticated, waiting, line, pumpVars,
                 spc, stopCompletions, worldVars>>

StartListening ==
  /\ StartBegin
  /\ isRunning' = TRUE
  /\ endpointWritten' = TRUE
  /\ activeSession' = 0
  /\ authSession' = 0
  /\ lpc' = "accept"
  /\ status' = StatusFromWork(WaitingStatus, FALSE, executing, inbox, TRUE, 0)
  /\ UNCHANGED <<nextSession, admitted>>

\* failStart
StartFails ==
  /\ StartBegin
  /\ isRunning' = FALSE
  /\ endpointWritten' = FALSE
  /\ status' = ErrorStatus
  /\ UNCHANGED <<lpc, sessionVars>>

StopBegin ==
  /\ spc = "idle"
  /\ spc' = "drain"
  /\ stopping' = TRUE
  /\ isRunning' = FALSE
  /\ UNCHANGED <<stopRequested, endpointWritten, queueVars, sessionVars, status,
                 listenerVars, pumpVars, stopCompletions, starts, worldVars>>

ResponsesFor(ps, kind)   == [i \in DOMAIN ps |-> ResponseFor(ps[i], kind)]
CompletionsFor(ps, kind) == [i \in DOMAIN ps |-> CompletionFor(ps[i], kind)]
SizeOf(box) ==
  LET sum[i \in 0..Len(box)] == IF i = 0 THEN 0 ELSE sum[i - 1] + Size[box[i].call]
  IN  sum[Len(box)]

\* Mutant: the call in progress is forgotten.
UnfinishedQueued == inbox
\* The calls that stop() answers itself.
Unfinished == IF active = NoCall THEN inbox ELSE <<active>> \o inbox

\* Under pump_mutex: the active call is cancelled and the inbox is emptied.
StopDrain ==
  /\ spc = "drain" /\ ppc \in {"idle", "notify"}
  /\ spc' = "join"
  /\ LET remote == Keeping(Unfinished, {p \in PendingCall : HasRequest(p)})
         local  == Keeping(Unfinished, {p \in PendingCall : ~HasRequest(p)})
     IN  /\ outbox' = outbox \o ResponsesFor(remote, "Unavailable")
         /\ stopCompletions' = CompletionsFor(local, "Unavailable")
  /\ active' = NoCall
  /\ executing' = FALSE
  /\ inbox' = <<>>
  /\ inboxBytes' = inboxBytes - SizeOf(inbox)
  /\ stopRequested' = TRUE
  /\ UNCHANGED <<isRunning, stopping, endpointWritten, sessionVars, status, listenerVars,
                 pumpVars, starts, worldVars>>

StopJoin ==
  /\ spc = "join" /\ lpc = "off"
  /\ spc' = "notify"
  /\ endpointWritten' = FALSE
  /\ activeSession' = 0
  /\ authSession' = 0
  /\ stopping' = FALSE
  /\ stopRequested' = FALSE
  /\ status' = OffStatus
  /\ UNCHANGED <<isRunning, queueVars, nextSession, admitted, listenerVars, pumpVars,
                 stopCompletions, starts, worldVars>>

StopNotify ==
  /\ spc = "notify"
  /\ spc' = "idle"
  /\ answers' = answers \o AnswersOf(stopCompletions)
  /\ stopCompletions' = <<>>
  /\ UNCHANGED <<flagVars, queueVars, sessionVars, status, listenerVars, pumpVars, starts,
                 dialog, order, freshConns, caller, dialogAge>>

StopStep == StopDrain \/ StopJoin \/ StopNotify

-----------------------------------------------------------------------------
(* The surroundings *)

\* Dialogs open and close on the UI thread, outside the pump.
ToggleDialog ==
  /\ "dialog" \in Faults
  /\ ppc = "idle"
  /\ dialog' = ~dialog
  /\ UNCHANGED <<flagVars, queueVars, sessionVars, status, listenerVars, pumpVars, stopVars,
                 order, freshConns, caller, answers, dialogAge>>

Older(age)  == IF age = NotParked \/ age > ParkTimeout THEN age ELSE age + 1
OlderCall(p) == IF p = NoCall THEN p ELSE [p EXCEPT !.parked = Older(@)]

\* A tick of the clock the parking of calls is measured with.
Tick ==
  /\ dialogAge # NotParked
  /\ dialogAge' = Older(dialogAge)
  /\ inbox' = [i \in DOMAIN inbox |-> OlderCall(inbox[i])]
  /\ active' = OlderCall(active)
  /\ held' = OlderCall(held)
  /\ UNCHANGED <<flagVars, inboxBytes, outbox, executing, sessionVars, status, listenerVars,
                 ppc, completed, completions, stopVars, dialog, order, freshConns, caller,
                 answers>>

-----------------------------------------------------------------------------
Init ==
  /\ isRunning = FALSE /\ stopping = FALSE /\ stopRequested = FALSE
  /\ endpointWritten = FALSE
  /\ inbox = <<>> /\ inboxBytes = 0 /\ active = NoCall /\ outbox = <<>>
  /\ executing = FALSE
  /\ nextSession = 0 /\ activeSession = 0 /\ authSession = 0 /\ status = OffStatus
  /\ lpc = "off" /\ client = NoConn /\ clientSession = 0 /\ authenticated = FALSE
  /\ waiting = NoConn /\ line = NoCall
  /\ ppc = "idle" /\ held = NoCall /\ completed = FALSE /\ completions = <<>>
  /\ spc = "idle" /\ stopCompletions = <<>> /\ starts = 0
  /\ dialog = FALSE /\ order = [c \in Calls |-> 0] /\ freshConns = Conns
  /\ admitted = <<>> /\ caller = [c \in Calls |-> NoConn] /\ answers = <<>>
  /\ dialogAge = NotParked

Next ==
  \/ \E c \in Calls : Submit(c)
  \/ ListenerStep \/ ListenerFail
  \/ PumpBegin \/ PumpStep
  \/ StartListening \/ StartFails \/ StopBegin \/ StopStep
  \/ ToggleDialog \/ Tick

Spec == Init /\ [][Next]_vars

\* The listener loops without end, each turn bounded by its read, accept and
\* write timeouts; the UI thread pumps every frame; stop() runs to its end.
Fairness ==
  /\ WF_vars(ListenerStep) /\ WF_vars(PumpBegin) /\ WF_vars(PumpStep) /\ WF_vars(StopStep)

FairSpec == Spec /\ Fairness

-----------------------------------------------------------------------------
(* Properties *)

TypeOK ==
  /\ {isRunning, stopping, stopRequested, endpointWritten, executing, authenticated,
      completed, dialog} \subseteq BOOLEAN
  /\ inbox \in Seq(PendingCall) /\ inboxBytes \in Nat
  /\ {active, held} \subseteq PendingCall \cup {NoCall}
  /\ outbox \in Seq(Response)
  /\ {nextSession, activeSession, authSession, clientSession} \subseteq Nat
  /\ status \in [state : {"Off", "Waiting", "Connected", "Busy", "Error"},
                 client : Conns \cup {NoConn}]
  /\ lpc \in {"off", "accept", "read", "handle", "newcomer", "flush", "check", "exit"}
  /\ {client, waiting} \subseteq Conns \cup {NoConn}
  /\ line \in Calls \cup {Hello, NoCall}
  /\ ppc \in {"idle", "loop", "resume", "next", "run", "leave", "notify"}
  /\ spc \in {"idle", "drain", "join", "notify"}
  /\ completions \in Seq(Completion) /\ stopCompletions \in Seq(Completion)
  /\ starts \in 0..MaxStarts
  /\ order \in [Calls -> Nat] /\ freshConns \subseteq Conns
  /\ admitted \in Seq(Conns) /\ caller \in [Calls -> Conns \cup {NoConn}]
  /\ answers \in Seq(Answer)
  /\ dialogAge \in ParkAges

\* A reply is written to the very connection its call came from, whatever has
\* been closed, replaced, stopped, started or has failed in between.
RepliesReachTheirCaller ==
  \A i \in DOMAIN answers : answers[i].to = caller[answers[i].call]

\* The places a call can be in, from the moment it is made.
OccursIn(s, c) == Cardinality({i \in DOMAIN s : s[i].call = c})
Occupies(slot, c) == IF slot # NoCall /\ slot.call = c THEN 1 ELSE 0
Reading(c) == IF line = c THEN 1 ELSE 0
Places(c) ==
  Reading(c) + OccursIn(inbox, c) + Occupies(active, c) + Occupies(held, c)
    + OccursIn(outbox, c) + OccursIn(completions, c) + OccursIn(stopCompletions, c)
    + OccursIn(answers, c)

\* No call is executed or answered twice, none vanishes: a call that was made
\* is in exactly one place until it is answered, and only a reply to a
\* connection that is closed may be dropped.
EveryCallInOnePlace ==
  \A c \in Made :
    \/ Places(c) = 1
    \/ Places(c) = 0 /\ c \in NetworkCalls /\ (caller[c] # client \/ lpc = "exit")

\* The pump never advances a call while a dialog is open.
NoWorkUnderDialog == ppc = "run" => ~dialog

\* The number and the bytes of the queued calls are bounded, and the bytes
\* counted are those of the calls queued, through every way out of the queue.
QueueIsAccounted ==
  /\ Len(inbox) <= MaxQueued
  /\ inboxBytes = SizeOf(inbox)
  /\ inboxBytes <= MaxBytes

\* What the pump has answered reaches each caller in the order of the calls.
ByPump(kind) == kind \in {"Done", "Internal", "Busy"}
AnswersInOrder ==
  \A i, j \in DOMAIN answers :
    /\ i < j
    /\ answers[i].to = answers[j].to
    /\ ByPump(answers[i].result) /\ ByPump(answers[j].result)
    => order[answers[i].call] < order[answers[j].call]

\* Once stop() has drained, no call enters, starts or resumes until it returns.
QuietWhileStopping ==
  spc = "join" => inbox = <<>> /\ active = NoCall /\ held = NoCall

\* Between pumps a running server shows the state it is in, and the client.
StatusIsCurrent ==
  isRunning /\ ppc \in {"idle", "notify"} =>
    /\ status.state = IF executing \/ inbox # <<>> THEN "Busy"
                      ELSE IF authSession # 0 THEN "Connected" ELSE "Waiting"
    /\ status.client = IF authSession # 0 THEN admitted[authSession] ELSE NoConn

\* A call is answered Busy only if every look of the pump, for longer than
\* the timeout, has found a dialog open.
AnsweredBusy(c) ==
  \/ \E i \in DOMAIN outbox : outbox[i].call = c /\ outbox[i].result = "Busy"
  \/ \E i \in DOMAIN completions : completions[i].call = c /\ completions[i].result = "Busy"
BusyOnlyAfterTimeout ==
  [][\A c \in Calls : (ppc \in {"resume", "next"} /\ ~AnsweredBusy(c) /\ AnsweredBusy(c)')
                        => dialogAge > ParkTimeout]_vars

\* Between the steps of its threads the server's shared state is sound: it has its types;
\* the status line tells the truth; the queue keeps its limits and its counter; nothing is
\* advanced under a dialog; nothing enters once stop() has drained; answers come in order.
ServerIsSound ==
  /\ TypeOK /\ StatusIsCurrent /\ QueueIsAccounted
  /\ NoWorkUnderDialog /\ QuietWhileStopping /\ AnswersInOrder

\* stop() returns.
StopReturns == spc # "idle" ~> spc = "idle"

\* Every call submitted in the process is answered, if the clock advances and
\* a task that is advanced again and again comes to a result.
Answered(c) == \E i \in DOMAIN answers : answers[i].call = c
LiveSpec == FairSpec /\ WF_vars(Tick) /\ SF_vars(PumpRun /\ executing' = FALSE)
CallsAreAnswered == \A c \in LocalCalls : c \in Made ~> Answered(c)
=============================================================================
