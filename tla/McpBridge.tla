----------------------------- MODULE McpBridge -----------------------------
(***************************************************************************)
(* The MCP bridge process: runBridge in agent/mcp/src/mcp_bridge.cpp.      *)
(*                                                                         *)
(* Three threads.  The reader frames standard input, applies cancellations *)
(* at once, and posts lines as events.  The session thread takes events,   *)
(* answers what it can and queues tool calls.  The caller takes queued     *)
(* calls one at a time, relays each to the simulator and posts the result  *)
(* as an event.  The event queue is bounded: lines are refused when it is  *)
(* full, a result waits for space, and three entries are kept free for one *)
(* result and for the two events that say that a thread is done.           *)
(*                                                                         *)
(* A step is one critical section with the thread-local work around it.    *)
(***************************************************************************)
EXTENDS Integers, Sequences, FiniteSets, SequencesExt

CONSTANTS
  Calls,          \* the tools/call requests, one line each; a call is its id
  LineBytes,      \* the bytes of a call's line
  CallBytes,      \* the bytes a queued call is charged for
  IdBytes,        \* the bytes of a call's id
  ResultBytes,    \* the sizes a result of the simulator may have
  MaxItems,       \* kMaxQueuedBridgeItems
  MaxPayload,     \* kMaxQueuedBridgePayloadBytes
  MaxDataPayload, \* kMaxQueuedBridgeDataBytes
  MaxCompletion,  \* the 3 MiB limit of one completion
  FailureBytes,   \* the size of a result that replaces one over the limit
  MaxTracked,     \* kMaxTrackedBridgeCalls
  MaxIdBytes,     \* kMaxTrackedBridgeCallIdBytes
  MaxOthers,      \* bound on the lines that are not calls, for model checking
  NoCall

ASSUME LimitsAssumption ==
  /\ MaxItems \in Nat /\ MaxItems >= 3
  /\ {MaxPayload, MaxDataPayload, MaxCompletion, FailureBytes, MaxTracked, MaxIdBytes,
      MaxOthers} \subseteq Nat
  /\ MaxTracked >= 2 * MaxItems - 1
  /\ MaxDataPayload + MaxCompletion <= MaxPayload
ASSUME SizesAssumption ==
  /\ NoCall \notin Calls
  /\ LineBytes \in [Calls -> Nat] /\ CallBytes \in [Calls -> Nat] /\ IdBytes \in [Calls -> Nat]
  /\ ResultBytes \subseteq Nat
  /\ \A c \in Calls : CallBytes[c] + FailureBytes <= MaxCompletion

VARIABLES
  rpc, frame, others,              \* the reader, the line in its hands
  events, eventBytes, dataBytes, dataCount,
  tracked, cancelled,              \* the cancellation tokens and those set
  spc, event, pending, readerDone, callerDone,    \* the session thread
  calls, callBytes, finishCalls,
  cpc, task, done,                 \* the caller, its task and the event it posts
  read, replies                    \* history: calls read, replies to each

readerVars  == <<rpc, frame, others>>
eventVars   == <<events, eventBytes, dataBytes, dataCount>>
tokenVars   == <<tracked, cancelled>>
sessionVars == <<spc, event, pending, readerDone, callerDone>>
callVars    == <<calls, callBytes, finishCalls>>
callerVars  == <<cpc, task, done>>
historyVars == <<read, replies>>
vars == <<readerVars, eventVars, tokenVars, sessionVars, callVars, callerVars, historyVars>>

-----------------------------------------------------------------------------
(* Events *)

DataKinds == {"Line", "Oversized"}
Kinds     == DataKinds \cup {"ToolCallDone", "ReaderDone", "CallerDone"}
Event     == [kind : Kinds, call : Calls \cup {NoCall}, bytes : Nat]
NewEvent(kind, call, bytes) == [kind |-> kind, call |-> call, bytes |-> bytes]
NoEvent   == NewEvent("Line", NoCall, 0)

\* post_event: the reservation of entries and bytes for each kind
DataFitsUnreserved(e) ==   \* mutant
  /\ Len(events) < MaxItems
  /\ e.bytes <= MaxDataPayload - dataBytes
  /\ e.bytes <= MaxPayload - eventBytes
DataFits(e) ==
  /\ Len(events) < MaxItems - 3
  /\ dataCount < MaxItems - 3
  /\ e.bytes <= MaxDataPayload - dataBytes
  /\ e.bytes <= MaxPayload - eventBytes
CompletionFits(e) == Len(events) < MaxItems - 2 /\ e.bytes <= MaxPayload - eventBytes
DoneFits == Len(events) < MaxItems

Push(e) ==
  /\ events' = Append(events, e)
  /\ eventBytes' = eventBytes + e.bytes
  /\ IF e.kind \in DataKinds
     THEN dataBytes' = dataBytes + e.bytes /\ dataCount' = dataCount + 1
     ELSE UNCHANGED <<dataBytes, dataCount>>

\* A thread-done event is dropped when the queue is full: its result is not looked at.
PostDone(kind) ==
  IF DoneFits THEN Push(NewEvent(kind, NoCall, 0)) ELSE UNCHANGED eventVars

Reply(c, kind) == replies' = [replies EXCEPT ![c] = Append(@, kind)]

-----------------------------------------------------------------------------
(* The reader thread *)

IdsFit(c) == IdBytes[c] <= MaxIdBytes - MapThenSumSet(LAMBDA t : IdBytes[t], tracked)

\* queue_frame for a tools/call: a cancellation token first, if there is room
ReadCall(c) ==
  /\ rpc = "read" /\ c \notin read
  /\ read' = read \cup {c}
  /\ IF Cardinality(tracked) < MaxTracked /\ IdsFit(c)
     THEN /\ tracked' = tracked \cup {c}
          /\ frame' = NewEvent("Line", c, LineBytes[c])
          /\ rpc' = "post"
          /\ UNCHANGED replies
     ELSE /\ Reply(c, "Overloaded")
          /\ UNCHANGED <<tracked, frame, rpc>>
  /\ UNCHANGED <<others, eventVars, cancelled, sessionVars, callVars, callerVars>>

\* a cancellation acts on the calls now tracked, before it is queued
ReadCancellation(c) ==
  /\ rpc = "read" /\ others < MaxOthers
  /\ others' = others + 1
  /\ cancelled' = cancelled \cup ({c} \cap tracked)
  /\ frame' = NewEvent("Line", NoCall, 1)
  /\ rpc' = "post"
  /\ UNCHANGED <<eventVars, tracked, sessionVars, callVars, callerVars, historyVars>>

\* any other line, or one that is too long
ReadOther(kind) ==
  /\ rpc = "read" /\ others < MaxOthers
  /\ others' = others + 1
  /\ frame' = NewEvent(kind, NoCall, IF kind = "Line" THEN 1 ELSE 0)
  /\ rpc' = "post"
  /\ UNCHANGED <<eventVars, tokenVars, sessionVars, callVars, callerVars, historyVars>>

PostFrame ==
  /\ rpc = "post"
  /\ rpc' = "read"
  /\ frame' = NoEvent
  /\ IF DataFits(frame)
     THEN Push(frame) /\ UNCHANGED <<tracked, replies>>
     ELSE /\ UNCHANGED eventVars
          /\ tracked' = tracked \ {frame.call}
          /\ IF frame.call # NoCall THEN Reply(frame.call, "Overloaded") ELSE UNCHANGED replies
  /\ UNCHANGED <<others, cancelled, sessionVars, callVars, callerVars, read>>

EndOfInput ==
  /\ rpc = "read"
  /\ rpc' = "eof"
  /\ UNCHANGED <<frame, others, eventVars, tokenVars, sessionVars, callVars, callerVars,
                 historyVars>>

PostReaderDone ==
  /\ rpc = "eof"
  /\ rpc' = "end"
  /\ PostDone("ReaderDone")
  /\ UNCHANGED <<frame, others, tokenVars, sessionVars, callVars, callerVars, historyVars>>

ReaderStep == PostFrame \/ PostReaderDone
ReaderInput ==
  \/ \E c \in Calls : ReadCall(c) \/ ReadCancellation(c)
  \/ \E kind \in DataKinds : ReadOther(kind)
  \/ EndOfInput

-----------------------------------------------------------------------------
(* The session thread *)

SessionTake ==
  /\ spc = "take" /\ events # <<>>
  /\ event' = Head(events)
  /\ spc' = event'.kind
  /\ events' = Tail(events)
  /\ eventBytes' = eventBytes - event'.bytes
  /\ IF event'.kind \in DataKinds
     THEN dataBytes' = dataBytes - event'.bytes /\ dataCount' = dataCount - 1
     ELSE UNCHANGED <<dataBytes, dataCount>>
  /\ UNCHANGED <<readerVars, tokenVars, pending, readerDone, callerDone, callVars,
                 callerVars, historyVars>>

\* The loop ends when both other threads are done.
Turn(rdone, cdone) ==
  /\ readerDone' = rdone
  /\ callerDone' = cdone
  /\ spc' = IF rdone /\ cdone THEN "end" ELSE "take"
  /\ event' = NoEvent

\* Mutant: a cancelled call is answered.
ReplyAlways(c, kind) == Reply(c, kind)
\* A cancelled call is not answered.
ReplyUnlessCancelled(c, kind) ==
  IF c \in cancelled THEN UNCHANGED replies ELSE Reply(c, kind)

\* Mutant: the token stays.
UntrackNothing(c) == UNCHANGED tracked
\* untrackCall; the flag goes with the token
Untrack(c) == tracked' = tracked \ {c}

\* Mutant: the call is answered although it was queued.
SessionQueuesAndReplies(c) ==
  /\ Len(calls) < MaxItems
  /\ CallBytes[c] <= MaxPayload - callBytes
  /\ pending' = pending \cup {c}
  /\ calls' = Append(calls, c)
  /\ callBytes' = callBytes + CallBytes[c]
  /\ ReplyUnlessCancelled(c, "Refused")
\* The call is queued for the caller under a new ticket.
SessionQueuesCall(c) ==
  /\ Len(calls) < MaxItems
  /\ CallBytes[c] <= MaxPayload - callBytes
  /\ pending' = pending \cup {c}
  /\ calls' = Append(calls, c)
  /\ callBytes' = callBytes + CallBytes[c]
  /\ UNCHANGED replies

SessionLine ==
  /\ spc = "Line"
  /\ \/ /\ event.call = NoCall           \* not a call: answered or ignored here
        /\ UNCHANGED <<tracked, pending, calls, callBytes, replies>>
     \/ /\ event.call # NoCall           \* a call that the session refuses
        /\ ReplyUnlessCancelled(event.call, "Refused")
        /\ Untrack(event.call)
        /\ UNCHANGED <<pending, calls, callBytes>>
     \/ /\ event.call # NoCall
        /\ SessionQueuesCall(event.call)
        /\ UNCHANGED tracked
     \/ /\ event.call # NoCall
        /\ ~(Len(calls) < MaxItems /\ CallBytes[event.call] <= MaxPayload - callBytes)
        /\ ReplyUnlessCancelled(event.call, "Overloaded")
        /\ Untrack(event.call)
        /\ UNCHANGED <<pending, calls, callBytes>>
  /\ Turn(readerDone, callerDone)
  /\ UNCHANGED <<readerVars, eventVars, cancelled, finishCalls, callerVars, read>>

SessionOversized ==
  /\ spc = "Oversized"
  /\ Turn(readerDone, callerDone)
  /\ UNCHANGED <<readerVars, eventVars, tokenVars, pending, callVars, callerVars, historyVars>>

SessionToolCallDone ==
  /\ spc = "ToolCallDone"
  /\ IF event.call \in pending
     THEN /\ ReplyUnlessCancelled(event.call, "Result")
          /\ Untrack(event.call)
          /\ pending' = pending \ {event.call}
     ELSE UNCHANGED <<replies, tracked, pending>>
  /\ Turn(readerDone, callerDone)
  /\ UNCHANGED <<readerVars, eventVars, cancelled, callVars, callerVars, read>>

SessionReaderDone ==
  /\ spc = "ReaderDone"
  /\ finishCalls' = TRUE
  /\ Turn(TRUE, callerDone)
  /\ UNCHANGED <<readerVars, eventVars, tokenVars, pending, calls, callBytes, callerVars,
                 historyVars>>

SessionCallerDone ==
  /\ spc = "CallerDone"
  /\ Turn(readerDone, TRUE)
  /\ UNCHANGED <<readerVars, eventVars, tokenVars, pending, callVars, callerVars, historyVars>>

SessionStep ==
  \/ SessionTake \/ SessionLine \/ SessionOversized \/ SessionToolCallDone
  \/ SessionReaderDone \/ SessionCallerDone

-----------------------------------------------------------------------------
(* The caller thread *)

CallerTake ==
  /\ cpc = "take" /\ calls # <<>>
  /\ cpc' = "call"
  /\ task' = Head(calls)
  /\ calls' = Tail(calls)
  /\ callBytes' = callBytes - CallBytes[task']
  /\ UNCHANGED <<readerVars, eventVars, tokenVars, sessionVars, finishCalls, done, historyVars>>

\* Mutant: a result may be larger than the queue.
CompletionBytesUncapped(c, size) == CallBytes[c] + size
\* The simulator's answer, or the failure that stands for one that is too large.
CompletionBytes(c, size) ==
  CallBytes[c] + IF CallBytes[c] + size > MaxCompletion THEN FailureBytes ELSE size

CallerCall ==
  /\ cpc = "call"
  /\ cpc' = "post"
  /\ \E size \in ResultBytes :
       done' = NewEvent("ToolCallDone", task, CompletionBytes(task, size))
  /\ task' = NoCall
  /\ UNCHANGED <<readerVars, eventVars, tokenVars, sessionVars, callVars, historyVars>>

\* The completion waits for space; a completion is never refused.
CallerPost ==
  /\ cpc = "post" /\ CompletionFits(done)
  /\ cpc' = "take"
  /\ Push(done)
  /\ done' = NoEvent
  /\ UNCHANGED <<readerVars, tokenVars, sessionVars, callVars, task, historyVars>>

CallerFinish == calls = <<>> /\ finishCalls

CallerLeave ==
  /\ cpc = "take" /\ CallerFinish
  /\ cpc' = "last"
  /\ UNCHANGED <<readerVars, eventVars, tokenVars, sessionVars, callVars, task, done,
                 historyVars>>

PostCallerDone ==
  /\ cpc = "last"
  /\ cpc' = "end"
  /\ PostDone("CallerDone")
  /\ UNCHANGED <<readerVars, tokenVars, sessionVars, callVars, task, done, historyVars>>

CallerStep == CallerTake \/ CallerCall \/ CallerPost \/ CallerLeave \/ PostCallerDone

-----------------------------------------------------------------------------
Init ==
  /\ rpc = "read" /\ frame = NoEvent /\ others = 0
  /\ events = <<>> /\ eventBytes = 0 /\ dataBytes = 0 /\ dataCount = 0
  /\ tracked = {} /\ cancelled = {}
  /\ spc = "take" /\ event = NoEvent /\ pending = {}
  /\ readerDone = FALSE /\ callerDone = FALSE
  /\ calls = <<>> /\ callBytes = 0 /\ finishCalls = FALSE
  /\ cpc = "take" /\ task = NoCall /\ done = NoEvent
  /\ read = {} /\ replies = [c \in Calls |-> <<>>]

\* runBridge returns once its three threads have ended.
Ended == rpc = "end" /\ spc = "end" /\ cpc = "end"
Returned == Ended /\ UNCHANGED vars

Next == ReaderInput \/ ReaderStep \/ SessionStep \/ CallerStep \/ Returned

Spec == Init /\ [][Next]_vars

\* The threads run; a call to the simulator returns, by its deadline at the latest.
Fairness == WF_vars(ReaderStep) /\ WF_vars(SessionStep) /\ WF_vars(CallerStep)
FairSpec == Spec /\ Fairness

-----------------------------------------------------------------------------
(* Properties *)

TypeOK ==
  /\ rpc \in {"read", "post", "eof", "end"} /\ frame \in Event /\ others \in Nat
  /\ events \in Seq(Event)
  /\ {eventBytes, dataBytes, dataCount, callBytes} \subseteq Nat
  /\ tracked \subseteq Calls /\ cancelled \subseteq Calls
  /\ spc \in Kinds \cup {"take", "end"} /\ event \in Event /\ pending \subseteq Calls
  /\ {readerDone, callerDone, finishCalls} \subseteq BOOLEAN
  /\ calls \in Seq(Calls)
  /\ cpc \in {"take", "call", "post", "last", "end"}
  /\ task \in Calls \cup {NoCall} /\ done \in Event
  /\ read \subseteq Calls
  /\ replies \in [Calls -> Seq({"Overloaded", "Refused", "Result"})]

\* The event that says that a thread is done always finds room.  Nobody looks
\* whether it was refused: the session thread would wait for it for ever.
DoneEventsFit ==
  /\ rpc = "eof" => DoneFits
  /\ cpc = "last" => DoneFits

\* The counters say what is queued, and the limits hold.
Total(amounts) ==
  LET sum[i \in 0..Len(amounts)] == IF i = 0 THEN 0 ELSE sum[i - 1] + amounts[i]
  IN  sum[Len(amounts)]
IsData(e) == e.kind \in DataKinds
Sizes(s) == [i \in 1..Len(s) |-> s[i].bytes]
DataSizes(s) == [i \in 1..Len(s) |-> IF IsData(s[i]) THEN s[i].bytes ELSE 0]
DataMarks(s) == [i \in 1..Len(s) |-> IF IsData(s[i]) THEN 1 ELSE 0]
CallSizes(s) == [i \in 1..Len(s) |-> CallBytes[s[i]]]
QueuesAreAccounted ==
  /\ Len(events) <= MaxItems /\ Len(calls) <= MaxItems
  /\ eventBytes = Total(Sizes(events)) /\ eventBytes <= MaxPayload
  /\ dataBytes = Total(DataSizes(events)) /\ dataBytes <= MaxDataPayload
  /\ dataCount = Total(DataMarks(events))
  /\ callBytes = Total(CallSizes(calls))
  /\ callBytes <= MaxPayload

\* The tokens are those of the calls on their way, wherever they are: none is
\* left behind, and none is dropped while its call may still be answered.
OnTheWay ==
  {frame.call, event.call, task, done.call} \cup ToSet(calls)
    \cup {events[i].call : i \in DOMAIN events}
TokensAreLiveCalls == tracked = OnTheWay \ {NoCall}

\* Each call is answered at most once, wherever it is refused or cancelled.
OneReplyPerCall == \A c \in Calls : Len(replies[c]) <= 1

\* When the bridge has returned, each call that was read has been answered,
\* unless it was cancelled.
EveryCallAnswered ==
  Ended => \A c \in read : Len(replies[c]) = 1 \/ c \in cancelled

\* A call that is cancelled before its reply is decided gets none.
NoReplyAfterCancel ==
  [][\A c \in cancelled : replies'[c] = replies[c]]_vars

\* The limit on tracked calls "covers" every call the queues can hold: it
\* never refuses a call that the event queue would have accepted.
TrackingCovers ==
  rpc = "read" => Cardinality(tracked) < MaxTracked \/ Len(events) >= MaxItems - 3

\* After the end of the input the bridge returns.
BridgeReturns == rpc = "eof" ~> Ended
=============================================================================
