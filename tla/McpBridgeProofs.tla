-------------------------- MODULE McpBridgeProofs --------------------------
(***************************************************************************)
(* Proofs about McpBridge, for every set of calls and all limits.          *)
(*                                                                         *)
(* The argument follows the calls.  A call that was read is in one place   *)
(* at most (in the reader's hands, in the event queue, in the session      *)
(* thread's hands, in the call queue, with the simulator, or in the hands  *)
(* of the caller with its result) and while it is there nobody has         *)
(* answered it.  Every answer takes the call out of its place.             *)
(*                                                                         *)
(* On top of that: the counters of a queue say what is in it (CountInv), a *)
(* call has a token as long as it is in a place (CallInv), and the event   *)
(* that a thread is done is its last one (EndInv).  The link to the server *)
(* is that of AgentLinkProofs (LP).                                        *)
(***************************************************************************)
EXTENDS MCMcpCalls, SequenceTheorems, FiniteSetTheorems, WellFoundedInduction, TLAPS

LP == INSTANCE AgentLinkProofs WITH
        BridgeRelease <- 1, MaxCalls <- LinkCalls,
        MaxTasks <- LinkTasks, MaxQueued <- LinkQueued, MaxStarts <- LinkStarts

ReplyKinds == {"Overloaded", "Refused", "Result"}

TypeInv ==
  /\ rpc \in {"read", "post", "eof", "end"} /\ frame \in Event /\ others \in Nat
  /\ events \in Seq(Event)
  /\ tracked \subseteq Calls /\ cancelled \subseteq Calls
  /\ spc \in Kinds \cup {"take", "end"} /\ event \in Event /\ pending \subseteq Calls
  /\ {readerDone, callerDone, finishCalls} \subseteq BOOLEAN
  /\ calls \in Seq(Calls)
  /\ cpc \in {"take", "call", "post", "last", "end"}
  /\ task \in Calls \cup {NoCall} /\ done \in Event
  /\ read \subseteq Calls
  /\ replies \in [Calls -> Seq(ReplyKinds)]

\* The entries kept free: two until the reader and the caller have posted
\* their last event.
One(p) == IF p THEN 1 ELSE 0
RoomInv == Len(events) <= MaxItems - 2 + One(rpc = "end") + One(cpc = "end")

\* The hands that are empty.
HandsInv ==
  /\ rpc # "post" => frame.call = NoCall
  /\ spc \in {"take", "end"} => event.call = NoCall
  /\ cpc # "call" => task = NoCall
  /\ cpc # "post" => done.call = NoCall
  /\ cpc = "call" => task \in Calls

-----------------------------------------------------------------------------
(* The room in the event queue *)

\* Appending one event makes the queue one longer, whatever the event.
LEMMA PushLen ==
  ASSUME events \in Seq(Event), NEW e \in Event, Push(e)
  PROVE  events' \in Seq(Event) /\ Len(events') = Len(events) + 1
BY DEF Push

LEMMA NewEventType ==
  ASSUME NEW kind \in Kinds, NEW c \in Calls \cup {NoCall}, NEW n \in Nat
  PROVE  NewEvent(kind, c, n) \in Event
BY DEF NewEvent, Event

LEMMA NoEventType == NoEvent \in Event /\ NoEvent.call = NoCall
BY NewEventType DEF NoEvent, NewEvent, Kinds, DataKinds

\* Posting a thread-done event keeps the queue a queue, at most one longer.
LEMMA PostDoneLen ==
  ASSUME events \in Seq(Event), NEW kind \in Kinds, PostDone(kind)
  PROVE  events' \in Seq(Event) /\ Len(events') <= Len(events) + 1
<1>1. CASE DoneFits
  <2>1. NewEvent(kind, NoCall, 0) \in Event
    BY NewEventType
  <2>2. Push(NewEvent(kind, NoCall, 0))
    BY <1>1 DEF PostDone
  <2> QED BY <2>1, <2>2, PushLen
<1>2. CASE ~DoneFits
  BY <1>2 DEF PostDone, eventVars
<1> QED BY <1>1, <1>2

\* The size a completion is charged for is a number within the limit.
LEMMA CompletionBytesType ==
  ASSUME NEW c \in Calls, NEW n \in ResultBytes
  PROVE  CompletionBytes(c, n) \in Nat
BY LimitsAssumption, SizesAssumption DEF CompletionBytes

LEMMA InitType == Init => TypeInv /\ RoomInv /\ HandsInv
<1> SUFFICES ASSUME Init PROVE TypeInv /\ RoomInv /\ HandsInv
  OBVIOUS
<1>1. events \in Seq(Event) /\ Len(events) = 0 /\ calls \in Seq(Calls)
  BY DEF Init
<1>2. replies \in [Calls -> Seq(ReplyKinds)]
  BY DEF Init
<1>3. TypeInv
  BY <1>1, <1>2, NoEventType DEF Init, TypeInv
<1>4. RoomInv
  BY <1>1, LimitsAssumption DEF Init, RoomInv, One
<1>5. HandsInv
  BY NoEventType DEF Init, HandsInv
<1> QED BY <1>3, <1>4, <1>5

-----------------------------------------------------------------------------
(* Every step keeps the types, the room and the empty hands *)

\* An answer appends one word to the replies of one call.
LEMMA ReplyType ==
  ASSUME replies \in [Calls -> Seq(ReplyKinds)], NEW c \in Calls, NEW k \in ReplyKinds,
         Reply(c, k)
  PROVE  replies' \in [Calls -> Seq(ReplyKinds)]
BY DEF Reply

LEMMA ReplyUnlessCancelledType ==
  ASSUME replies \in [Calls -> Seq(ReplyKinds)], NEW c \in Calls, NEW k \in ReplyKinds,
         ReplyUnlessCancelled(c, k)
  PROVE  replies' \in [Calls -> Seq(ReplyKinds)]
BY ReplyType DEF ReplyUnlessCancelled

LEMMA EventFields ==
  ASSUME NEW e \in Event
  PROVE  e.kind \in Kinds /\ e.call \in Calls \cup {NoCall} /\ e.bytes \in Nat
BY DEF Event

LEMMA ReadCallKeeps ==
  ASSUME TypeInv, RoomInv, HandsInv, NEW c \in Calls, ReadCall(c)
  PROVE  TypeInv' /\ RoomInv' /\ HandsInv'
<1>1. NewEvent("Line", c, LineBytes[c]) \in Event
  BY NewEventType, SizesAssumption DEF Kinds, DataKinds
<1>2. replies' \in [Calls -> Seq(ReplyKinds)]
  BY ReplyType DEF TypeInv, ReadCall, ReplyKinds
<1> QED
  BY <1>1, <1>2 DEF TypeInv, RoomInv, HandsInv, One, ReadCall,
     eventVars, sessionVars, callVars, callerVars

LEMMA ReadLineKeeps ==
  ASSUME TypeInv, RoomInv, HandsInv,
         \/ \E c \in Calls : ReadCancellation(c)
         \/ \E kind \in DataKinds : ReadOther(kind)
         \/ EndOfInput
  PROVE  TypeInv' /\ RoomInv' /\ HandsInv'
<1>1. \A kind \in DataKinds, n \in Nat :
        NewEvent(kind, NoCall, n) \in Event /\ NewEvent(kind, NoCall, n).call = NoCall
  BY NewEventType DEF Kinds, NewEvent
<1>2. ASSUME NEW c \in Calls, ReadCancellation(c) PROVE TypeInv' /\ RoomInv' /\ HandsInv'
  BY <1>1, <1>2 DEF TypeInv, RoomInv, HandsInv, One, ReadCancellation, DataKinds,
     eventVars, sessionVars, callVars, callerVars, historyVars
<1>3. ASSUME NEW kind \in DataKinds, ReadOther(kind)
      PROVE  TypeInv' /\ RoomInv' /\ HandsInv'
  BY <1>1, <1>3 DEF TypeInv, RoomInv, HandsInv, One, ReadOther,
     eventVars, tokenVars, sessionVars, callVars, callerVars, historyVars
<1>4. CASE EndOfInput
  BY <1>4 DEF TypeInv, RoomInv, HandsInv, One, EndOfInput,
     eventVars, tokenVars, sessionVars, callVars, callerVars, historyVars
<1> QED BY <1>2, <1>3, <1>4

LEMMA PostFrameKeeps ==
  ASSUME TypeInv, RoomInv, HandsInv, PostFrame
  PROVE  TypeInv' /\ RoomInv' /\ HandsInv'
<1>1. events' \in Seq(Event) /\ (events' = events \/ Len(events') <= MaxItems - 3)
  <2>1. events \in Seq(Event) /\ frame \in Event /\ MaxItems \in Nat
    BY LimitsAssumption DEF TypeInv
  <2>2. CASE DataFits(frame)
    <3>1. Push(frame) /\ Len(events) < MaxItems - 3
      BY <2>2 DEF PostFrame, DataFits
    <3> QED BY <2>1, <3>1, PushLen
  <2>3. CASE ~DataFits(frame)
    BY <2>1, <2>3 DEF PostFrame, eventVars
  <2> QED BY <2>2, <2>3
<1>2. replies' \in [Calls -> Seq(ReplyKinds)]
  BY ReplyType, EventFields DEF TypeInv, PostFrame, ReplyKinds
<1>3. TypeInv'
  BY <1>1, <1>2, NoEventType DEF TypeInv, PostFrame, sessionVars, callVars, callerVars
<1>4. RoomInv'
  BY <1>1, LimitsAssumption, SMTT(30) DEF TypeInv, RoomInv, One, PostFrame, callerVars
<1>5. HandsInv'
  BY NoEventType DEF HandsInv, PostFrame, sessionVars, callerVars
<1> QED BY <1>3, <1>4, <1>5

LEMMA PostReaderDoneKeeps ==
  ASSUME TypeInv, RoomInv, HandsInv, PostReaderDone
  PROVE  TypeInv' /\ RoomInv' /\ HandsInv'
<1>1. events' \in Seq(Event) /\ Len(events') <= Len(events) + 1
  BY PostDoneLen DEF TypeInv, PostReaderDone, Kinds
<1>2. TypeInv'
  BY <1>1 DEF TypeInv, PostReaderDone, tokenVars, sessionVars, callVars, callerVars, historyVars
<1>3. RoomInv'
  BY <1>1, LimitsAssumption, SMTT(30) DEF TypeInv, RoomInv, One, PostReaderDone, callerVars
<1>4. HandsInv'
  BY DEF HandsInv, PostReaderDone, sessionVars, callerVars
<1> QED BY <1>2, <1>3, <1>4

LEMMA SessionTakeKeeps ==
  ASSUME TypeInv, RoomInv, HandsInv, SessionTake
  PROVE  TypeInv' /\ RoomInv' /\ HandsInv'
<1>1. event' \in Event /\ events' \in Seq(Event) /\ Len(events') = Len(events) - 1
  BY DEF TypeInv, SessionTake
<1>2. event'.kind \in Kinds /\ spc' = event'.kind
  BY <1>1, EventFields DEF SessionTake
<1>3. TypeInv'
  BY <1>1, <1>2 DEF TypeInv, SessionTake, readerVars, tokenVars, callVars, callerVars,
     historyVars
<1>4. RoomInv'
  BY <1>1, LimitsAssumption DEF TypeInv, RoomInv, One, SessionTake, readerVars, callerVars
<1>5. HandsInv'
  BY <1>2 DEF HandsInv, SessionTake, readerVars, callerVars, Kinds, DataKinds
<1> QED BY <1>3, <1>4, <1>5

\* The session thread's other steps do not touch the event queue.
LEMMA TurnKeeps ==
  ASSUME TypeInv, RoomInv, HandsInv, NEW rdone \in BOOLEAN, NEW cdone \in BOOLEAN,
         Turn(rdone, cdone),
         tracked' \subseteq Calls, pending' \subseteq Calls, calls' \in Seq(Calls),
         finishCalls' \in BOOLEAN, replies' \in [Calls -> Seq(ReplyKinds)],
         UNCHANGED <<readerVars, eventVars, cancelled, callerVars, read>>
  PROVE  TypeInv' /\ RoomInv' /\ HandsInv'
<1>1. TypeInv'
  BY NoEventType DEF TypeInv, Turn, readerVars, eventVars, callerVars
<1>2. RoomInv'
  BY DEF RoomInv, One, readerVars, eventVars, callerVars
<1>3. HandsInv'
  BY NoEventType DEF HandsInv, Turn, readerVars, callerVars
<1> QED BY <1>1, <1>2, <1>3

LEMMA SessionLineKeeps ==
  ASSUME TypeInv, RoomInv, HandsInv, SessionLine
  PROVE  TypeInv' /\ RoomInv' /\ HandsInv'
<1>1. event.call # NoCall => event.call \in Calls
  BY EventFields DEF TypeInv
<1>2. tracked' \subseteq Calls /\ pending' \subseteq Calls
  BY <1>1 DEF TypeInv, SessionLine, Untrack, SessionQueuesCall
<1>3. calls' = calls \/ \E c \in Calls : calls' = Append(calls, c)
  BY <1>1, Zenon DEF SessionLine, SessionQueuesCall
<1>4. calls' \in Seq(Calls)
  <2>1. calls \in Seq(Calls)
    BY DEF TypeInv
  <2>2. \A c \in Calls : Append(calls, c) \in Seq(Calls)
    BY <2>1
  <2> QED BY <1>3, <2>1, <2>2
<1>5. replies' \in [Calls -> Seq(ReplyKinds)]
  BY <1>1, ReplyUnlessCancelledType DEF TypeInv, SessionLine, SessionQueuesCall, ReplyKinds
<1> QED BY <1>2, <1>4, <1>5, TurnKeeps DEF TypeInv, SessionLine

LEMMA SessionToolCallDoneKeeps ==
  ASSUME TypeInv, RoomInv, HandsInv, SessionToolCallDone
  PROVE  TypeInv' /\ RoomInv' /\ HandsInv'
<1>1. tracked' \subseteq Calls /\ pending' \subseteq Calls
  BY DEF TypeInv, SessionToolCallDone, Untrack
<1>2. replies' \in [Calls -> Seq(ReplyKinds)]
  BY ReplyUnlessCancelledType DEF TypeInv, SessionToolCallDone, ReplyKinds
<1> QED BY <1>1, <1>2, TurnKeeps DEF TypeInv, SessionToolCallDone, callVars

LEMMA SessionDoneKeeps ==
  ASSUME TypeInv, RoomInv, HandsInv,
         SessionOversized \/ SessionReaderDone \/ SessionCallerDone
  PROVE  TypeInv' /\ RoomInv' /\ HandsInv'
<1>1. CASE SessionOversized
  BY <1>1, TurnKeeps DEF TypeInv, SessionOversized, tokenVars, callVars, historyVars
<1>2. CASE SessionReaderDone
  BY <1>2, TurnKeeps DEF TypeInv, SessionReaderDone, tokenVars, callVars, historyVars
<1>3. CASE SessionCallerDone
  BY <1>3, TurnKeeps DEF TypeInv, SessionCallerDone, tokenVars, callVars, historyVars
<1> QED BY <1>1, <1>2, <1>3

LEMMA CallerTakeKeeps ==
  ASSUME TypeInv, RoomInv, HandsInv, CallerTake
  PROVE  TypeInv' /\ RoomInv' /\ HandsInv'
<1>1. task' \in Calls /\ calls' \in Seq(Calls)
  BY DEF TypeInv, CallerTake
<1> QED
  BY <1>1 DEF TypeInv, RoomInv, HandsInv, One, CallerTake,
     readerVars, eventVars, tokenVars, sessionVars, historyVars

LEMMA CallerCallKeeps ==
  ASSUME TypeInv, RoomInv, HandsInv, CallerCall
  PROVE  TypeInv' /\ RoomInv' /\ HandsInv'
<1>1. done' \in Event
  BY NewEventType, CompletionBytesType DEF HandsInv, CallerCall, Kinds
<1> QED
  BY <1>1 DEF TypeInv, RoomInv, HandsInv, One, CallerCall,
     readerVars, eventVars, tokenVars, sessionVars, callVars, historyVars

LEMMA CallerPostKeeps ==
  ASSUME TypeInv, RoomInv, HandsInv, CallerPost
  PROVE  TypeInv' /\ RoomInv' /\ HandsInv'
<1>1. events' \in Seq(Event) /\ Len(events') <= MaxItems - 2
  BY PushLen, LimitsAssumption DEF TypeInv, CallerPost, CompletionFits
<1>2. TypeInv'
  BY <1>1, NoEventType DEF TypeInv, CallerPost, readerVars, tokenVars, sessionVars, callVars,
     historyVars
<1>3. RoomInv'
  BY <1>1, LimitsAssumption, SMTT(30) DEF TypeInv, RoomInv, One, CallerPost, readerVars
<1>4. HandsInv'
  BY NoEventType DEF HandsInv, CallerPost, readerVars, sessionVars
<1> QED BY <1>2, <1>3, <1>4

LEMMA CallerEndKeeps ==
  ASSUME TypeInv, RoomInv, HandsInv, CallerLeave \/ PostCallerDone
  PROVE  TypeInv' /\ RoomInv' /\ HandsInv'
<1>1. CASE CallerLeave
  BY <1>1 DEF TypeInv, RoomInv, HandsInv, One, CallerLeave,
     readerVars, eventVars, tokenVars, sessionVars, callVars, historyVars
<1>2. CASE PostCallerDone
  <2>1. events' \in Seq(Event) /\ Len(events') <= Len(events) + 1
    BY <1>2, PostDoneLen DEF TypeInv, PostCallerDone, Kinds
  <2>2. TypeInv'
    BY <1>2, <2>1 DEF TypeInv, PostCallerDone, readerVars, tokenVars, sessionVars, callVars,
       historyVars
  <2>3. RoomInv'
    <3>1. cpc # "end" /\ cpc' = "end" /\ rpc' = rpc
      BY <1>2 DEF PostCallerDone, readerVars
    <3>2. Len(events) \in Nat /\ Len(events') \in Nat
      BY <2>1 DEF TypeInv
    <3> QED BY <2>1, <3>1, <3>2, LimitsAssumption, SMTT(30) DEF RoomInv, One
  <2>4. HandsInv'
    BY <1>2 DEF HandsInv, PostCallerDone, readerVars, sessionVars
  <2> QED BY <2>2, <2>3, <2>4
<1> QED BY <1>1, <1>2

LEMMA NextKeepsTypes ==
  TypeInv /\ RoomInv /\ HandsInv /\ [Next]_vars => TypeInv' /\ RoomInv' /\ HandsInv'
<1> SUFFICES ASSUME TypeInv, RoomInv, HandsInv, [Next]_vars
             PROVE  TypeInv' /\ RoomInv' /\ HandsInv'
  OBVIOUS
<1>1. CASE ReaderInput
  BY <1>1, ReadCallKeeps, ReadLineKeeps DEF ReaderInput
<1>2. CASE ReaderStep
  BY <1>2, PostFrameKeeps, PostReaderDoneKeeps DEF ReaderStep
<1>3. CASE SessionStep
  BY <1>3, SessionTakeKeeps, SessionLineKeeps, SessionToolCallDoneKeeps, SessionDoneKeeps
     DEF SessionStep
<1>4. CASE CallerStep
  BY <1>4, CallerTakeKeeps, CallerCallKeeps, CallerPostKeeps, CallerEndKeeps DEF CallerStep
<1>5. CASE UNCHANGED vars
  BY <1>5 DEF TypeInv, RoomInv, HandsInv, One, vars, readerVars, eventVars, tokenVars,
     sessionVars, callVars, callerVars, historyVars
<1> QED BY <1>1, <1>2, <1>3, <1>4, <1>5 DEF Next, Returned

\* Whatever the three threads of runBridge do, the variables keep their types,
\* a taken event fits its place and a thread past its loop holds nothing.
THEOREM TypesKept == Spec => [](TypeInv /\ RoomInv /\ HandsInv)
<1> QED BY InitType, NextKeepsTypes, PTL DEF Spec

\* The reservation in post_event works for every limit: neither thread-done
\* event is ever refused, so the session thread always learns of both.
THEOREM DoneEventsAlwaysFit == Spec => []DoneEventsFit
<1>1. TypeInv /\ RoomInv => DoneEventsFit
  BY LimitsAssumption, SMTT(30) DEF TypeInv, RoomInv, One, DoneEventsFit, DoneFits
<1> QED BY <1>1, TypesKept, PTL

-----------------------------------------------------------------------------
(* A cancelled call is not answered *)

\* Only calls that were read can be cancelled, and none while the reader has
\* it in its hands: the reader itself is what applies cancellations.
CancelInv ==
  /\ tracked \subseteq read
  /\ cancelled \subseteq read
  /\ frame.call \notin cancelled

LEMMA InitCancel == Init => CancelInv
BY DEF Init, CancelInv

LEMMA NextKeepsCancel ==
  ASSUME TypeInv, HandsInv, CancelInv, [Next]_vars
  PROVE  CancelInv'
<1>0. NoCall \notin cancelled
  BY SizesAssumption DEF TypeInv
<1>1. ASSUME NEW c \in Calls, ReadCall(c) PROVE CancelInv'
  BY <1>1 DEF CancelInv, ReadCall, NewEvent
<1>2. ASSUME NEW c \in Calls, ReadCancellation(c) PROVE CancelInv'
  BY <1>2, SizesAssumption DEF TypeInv, CancelInv, ReadCancellation, NewEvent, historyVars
<1>3. CASE EndOfInput \/ \E kind \in DataKinds : ReadOther(kind)
  BY <1>0, <1>3 DEF CancelInv, EndOfInput, ReadOther, NewEvent, tokenVars, historyVars
<1>4. CASE ReaderStep
  BY <1>0, <1>4, NoEventType DEF CancelInv, ReaderStep, PostFrame, PostReaderDone,
     tokenVars, historyVars
<1>5. CASE SessionStep
  BY <1>5 DEF CancelInv, SessionStep, SessionTake, SessionLine, SessionOversized,
     SessionToolCallDone, SessionReaderDone, SessionCallerDone, Untrack, readerVars,
     tokenVars, historyVars
<1>6. CASE CallerStep
  BY <1>6 DEF CancelInv, CallerStep, CallerTake, CallerCall, CallerPost, CallerLeave,
     PostCallerDone, readerVars, tokenVars, historyVars
<1>7. CASE UNCHANGED vars
  BY <1>7 DEF CancelInv, vars, readerVars, tokenVars, historyVars
<1> QED
  BY <1>1, <1>2, <1>3, <1>4, <1>5, <1>6, <1>7 DEF Next, Returned, ReaderInput

\* An answer to one call leaves the replies to the others alone.
LEMMA ReplyOthers ==
  ASSUME replies \in [Calls -> Seq(ReplyKinds)], NEW c \in Calls, NEW k,
         NEW d \in Calls, d # c, Reply(c, k)
  PROVE  replies'[d] = replies[d]
BY DEF Reply

LEMMA CancelledKeepReplies ==
  ASSUME TypeInv, HandsInv, CancelInv, [Next]_vars, NEW d \in cancelled
  PROVE  replies'[d] = replies[d]
<1>0. d \in Calls /\ d \in read /\ d # frame.call /\ replies \in [Calls -> Seq(ReplyKinds)]
  BY DEF TypeInv, CancelInv
<1>1. ASSUME NEW c \in Calls, ReadCall(c) PROVE replies'[d] = replies[d]
  BY <1>0, <1>1, ReplyOthers DEF ReadCall
<1>2. CASE PostFrame
  BY <1>0, <1>2, ReplyOthers, EventFields DEF TypeInv, PostFrame
<1>3. ASSUME NEW c \in Calls, NEW k, ReplyUnlessCancelled(c, k)
      PROVE  replies'[d] = replies[d]
  BY <1>0, <1>3, ReplyOthers DEF ReplyUnlessCancelled
<1>4. CASE SessionLine
  BY <1>0, <1>3, <1>4, EventFields DEF TypeInv, SessionLine, SessionQueuesCall
<1>5. CASE SessionToolCallDone
  BY <1>0, <1>3, <1>5 DEF TypeInv, SessionToolCallDone
<1>6. ASSUME UNCHANGED replies PROVE replies'[d] = replies[d]
  BY <1>6
<1>7. CASE UNCHANGED vars
  BY <1>7 DEF vars, historyVars
<1>8. CASE \/ \E c \in Calls : ReadCancellation(c)
           \/ \E kind \in DataKinds : ReadOther(kind)
           \/ EndOfInput \/ PostReaderDone
  BY <1>8 DEF ReadCancellation, ReadOther, EndOfInput, PostReaderDone, historyVars
<1>9. CASE SessionTake \/ SessionOversized \/ SessionReaderDone \/ SessionCallerDone
  BY <1>9 DEF SessionTake, SessionOversized, SessionReaderDone, SessionCallerDone, historyVars
<1>10. CASE CallerStep
  BY <1>10 DEF CallerStep, CallerTake, CallerCall, CallerPost, CallerLeave, PostCallerDone,
     historyVars
<1> QED
  BY <1>1, <1>2, <1>4, <1>5, <1>7, <1>8, <1>9, <1>10
     DEF Next, Returned, ReaderInput, ReaderStep, SessionStep

\* A call that was cancelled before its answer was decided is never answered,
\* whatever the three threads do after.
THEOREM CancelledCallsStaySilent == Spec => NoReplyAfterCancel
<1>1. TypeInv /\ HandsInv /\ CancelInv /\ [Next]_vars => CancelInv'
  BY NextKeepsCancel
<1>2. TypeInv /\ HandsInv /\ CancelInv /\ [Next]_vars
        => [\A c \in cancelled : replies'[c] = replies[c]]_vars
  BY CancelledKeepReplies
<1> QED BY <1>1, <1>2, InitCancel, TypesKept, PTL DEF Spec, NoReplyAfterCancel

-----------------------------------------------------------------------------
(* A call is in one place and is answered when it leaves the last one *)

\* No call is in two places.  NoCall may be anywhere.
HandCalls == {frame.call, event.call, task, done.call}
PlacesInv ==
  /\ frame.call # NoCall => frame.call \notin {event.call, task, done.call}
  /\ event.call # NoCall => event.call \notin {task, done.call}
  /\ \A i \in 1..Len(events) : events[i].call # NoCall =>
       /\ events[i].call \notin HandCalls
       /\ \A j \in 1..Len(events) : events[j].call = events[i].call => j = i
       /\ \A j \in 1..Len(calls) : calls[j] # events[i].call
  /\ \A i \in 1..Len(calls) :
       /\ calls[i] \notin HandCalls
       /\ \A j \in 1..Len(calls) : calls[j] = calls[i] => j = i

\* A call that is somewhere was read and has no answer yet.
Somewhere(c) ==
  \/ c \in HandCalls
  \/ \E i \in 1..Len(events) : events[i].call = c
  \/ \E i \in 1..Len(calls) : calls[i] = c
OpenInv ==
  /\ \A c \in Calls : Somewhere(c) => c \in read
  /\ \A c \in Calls : Somewhere(c) \/ c \notin read => replies[c] = <<>>
  /\ OneReplyPerCall

Inv == TypeInv /\ HandsInv /\ PlacesInv /\ OpenInv

LEMMA InitPlaces == Init => PlacesInv /\ OpenInv
<1> SUFFICES ASSUME Init PROVE PlacesInv /\ OpenInv
  OBVIOUS
<1>1. Len(events) = 0 /\ Len(calls) = 0 /\ HandCalls = {NoCall}
  BY NoEventType DEF Init, HandCalls
<1>2. \A c \in Calls : replies[c] = <<>> /\ Len(replies[c]) = 0
  BY DEF Init
<1>3. \A c \in Calls : ~Somewhere(c)
  BY <1>1, SizesAssumption DEF Somewhere
<1> QED
  BY <1>1, <1>2, <1>3, NoEventType DEF Init, PlacesInv, OpenInv, HandCalls, OneReplyPerCall

\* The queue of calls holds calls.
LEMMA QueuedAreCalls ==
  ASSUME TypeInv
  PROVE  Len(calls) \in Nat /\ \A i \in 1..Len(calls) : calls[i] \in Calls /\ calls[i] # NoCall
BY SizesAssumption DEF TypeInv

\* A step that brings in no new call, and answers only the call it takes out
\* of its place, keeps the calls that remain open.
LEMMA OpenKept ==
  ASSUME Inv, UNCHANGED read,
         \A c \in Calls : Somewhere(c)' => Somewhere(c),
         \/ UNCHANGED replies
         \/ \E x \in Calls, k \in ReplyKinds : Somewhere(x) /\ ~Somewhere(x)' /\ Reply(x, k)
  PROVE  OpenInv'
<1>1. CASE UNCHANGED replies
  BY <1>1 DEF Inv, OpenInv, OneReplyPerCall
<1>2. CASE ~UNCHANGED replies
  <2>1. PICK x \in Calls, k \in ReplyKinds : Somewhere(x) /\ ~Somewhere(x)' /\ Reply(x, k)
    BY <1>2
  <2>2. \A d \in Calls : d # x => replies'[d] = replies[d]
    BY <2>1, ReplyOthers DEF Inv, TypeInv
  <2>3. replies[x] = <<>> /\ x \in read
    BY <2>1 DEF Inv, OpenInv
  <2>4. Len(replies'[x]) <= 1
    BY <2>1, <2>3 DEF Inv, TypeInv, Reply
  <2> QED BY <2>1, <2>2, <2>3, <2>4 DEF Inv, OpenInv, OneReplyPerCall
<1> QED BY <1>1, <1>2

LEMMA ReadCallPlaces ==
  ASSUME Inv, NEW c \in Calls, ReadCall(c)
  PROVE  PlacesInv' /\ OpenInv'
<1>1. ~Somewhere(c)
  BY DEF Inv, OpenInv, ReadCall
<1>2. UNCHANGED <<events, calls, event, task, done>>
  BY DEF ReadCall, eventVars, sessionVars, callVars, callerVars
<1>3. frame.call = NoCall /\ (frame'.call = c \/ frame' = frame)
  BY DEF Inv, HandsInv, ReadCall, NewEvent
<1>4. PlacesInv'
  BY <1>1, <1>2, <1>3 DEF Inv, PlacesInv, HandCalls, Somewhere
<1>5. \A d \in Calls : d # c => replies'[d] = replies[d] /\ (Somewhere(d)' => Somewhere(d))
  BY <1>2, <1>3, ReplyOthers DEF Inv, TypeInv, ReadCall, Somewhere, HandCalls
<1>6. Somewhere(c)' => replies'[c] = <<>>
  <2>1. replies[c] = <<>>
    BY DEF Inv, OpenInv, ReadCall
  <2>2. Somewhere(c)' => frame'.call = c
    BY <1>1, <1>2 DEF Somewhere, HandCalls
  <2> QED BY <1>3, <2>1, <2>2, SizesAssumption DEF ReadCall
<1>7. Len(replies'[c]) <= 1
  BY DEF Inv, TypeInv, OpenInv, OneReplyPerCall, ReadCall, Reply
<1> QED
  BY <1>1, <1>4, <1>5, <1>6, <1>7 DEF Inv, OpenInv, OneReplyPerCall, ReadCall

\* The steps that move no call: the places and the replies are as they were.
LEMMA StillPlaces ==
  ASSUME Inv, UNCHANGED <<events, calls, read, replies>>,
         frame'.call = frame.call, event'.call = event.call,
         UNCHANGED task, done'.call = done.call
  PROVE  PlacesInv' /\ OpenInv'
BY DEF Inv, PlacesInv, OpenInv, Somewhere, HandCalls, OneReplyPerCall

\* What is appended to the event queue is its last event.
LEMMA EventAppended ==
  ASSUME events \in Seq(Event), NEW e \in Event, Push(e)
  PROVE  /\ Len(events') = Len(events) + 1 /\ Len(events) \in Nat
         /\ \A i \in 1..Len(events) : events'[i] = events[i]
         /\ events'[Len(events) + 1] = e
BY DEF Push

\* An event with no call in it adds no call.
LEMMA IdlePushPlaces ==
  ASSUME Inv, NEW kind \in Kinds, PostDone(kind), UNCHANGED <<calls, read, replies>>,
         UNCHANGED <<frame, event, task, done>>
  PROVE  PlacesInv' /\ OpenInv'
<1>1. CASE ~DoneFits
  BY <1>1, StillPlaces DEF PostDone, eventVars
<1>2. CASE DoneFits
  <2> DEFINE e == NewEvent(kind, NoCall, 0)
  <2>1. e \in Event /\ e.call = NoCall /\ Push(e)
    BY <1>2, NewEventType DEF PostDone, NewEvent
  <2> HIDE DEF e
  <2>2. /\ Len(events') = Len(events) + 1 /\ Len(events) \in Nat
        /\ \A i \in 1..Len(events) : events'[i] = events[i]
        /\ events'[Len(events) + 1] = e
    BY <2>1, EventAppended DEF Inv, TypeInv
  <2>3. PlacesInv'
    BY <2>1, <2>2 DEF Inv, PlacesInv, HandCalls
  <2>4. \A c \in Calls : Somewhere(c)' => Somewhere(c)
    BY <2>1, <2>2, SizesAssumption DEF Somewhere, HandCalls
  <2> QED BY <2>3, <2>4, OpenKept
<1> QED BY <1>1, <1>2

\* The reader or the caller puts the event in its hand into the queue.
LEMMA HandPushPlaces ==
  ASSUME Inv, NEW e \in Event, Push(e), UNCHANGED <<calls, event, task, read, replies>>,
         \/ e = frame /\ frame'.call = NoCall /\ UNCHANGED done
         \/ e = done /\ done'.call = NoCall /\ UNCHANGED frame
  PROVE  PlacesInv' /\ OpenInv'
<1>1. /\ Len(events') = Len(events) + 1 /\ Len(events) \in Nat
      /\ \A i \in 1..Len(events) : events'[i] = events[i]
      /\ events'[Len(events) + 1] = e
  BY EventAppended DEF Inv, TypeInv
<1>2. HandCalls' \subseteq HandCalls \cup {NoCall} /\ e.call \in HandCalls
  BY DEF HandCalls
<1>3. e.call # NoCall => e.call \notin HandCalls'
  BY DEF Inv, PlacesInv, HandsInv, HandCalls
<1>4. \A i \in 1..Len(events') : events'[i] = IF i = Len(events) + 1 THEN e ELSE events[i]
  BY <1>1
<1>5. ASSUME NEW i \in 1..Len(events'), events'[i].call # NoCall
      PROVE  /\ events'[i].call \notin HandCalls'
             /\ \A j \in 1..Len(events') : events'[j].call = events'[i].call => j = i
             /\ \A j \in 1..Len(calls) : calls[j] # events'[i].call
  BY <1>1, <1>2, <1>3, <1>4, <1>5 DEF Inv, PlacesInv
<1>6. \A i \in 1..Len(calls) : calls[i] \notin HandCalls'
  BY <1>2, QueuedAreCalls DEF Inv, PlacesInv
<1>7. PlacesInv'
  <2>1. /\ frame'.call # NoCall => frame'.call \notin {event'.call, task', done'.call}
        /\ event'.call # NoCall => event'.call \notin {task', done'.call}
    BY DEF Inv, PlacesInv
  <2> QED BY <1>5, <1>6, <2>1 DEF Inv, PlacesInv
<1>8. \A c \in Calls : Somewhere(c)' => Somewhere(c)
  BY <1>1, <1>2, <1>4, SizesAssumption DEF Somewhere
<1> QED BY <1>7, <1>8, OpenKept

LEMMA PostFramePlaces ==
  ASSUME Inv, PostFrame
  PROVE  PlacesInv' /\ OpenInv'
<1>1. CASE DataFits(frame)
  BY <1>1, HandPushPlaces, NoEventType
     DEF Inv, TypeInv, PostFrame, sessionVars, callVars, callerVars
<1>2. CASE ~DataFits(frame)
  <2>1. frame'.call = NoCall /\ UNCHANGED <<events, calls, event, task, done, read>>
    BY <1>2, NoEventType DEF PostFrame, eventVars, sessionVars, callVars, callerVars
  <2>2. PlacesInv'
    BY <2>1, QueuedAreCalls DEF Inv, PlacesInv, HandCalls
  <2>3. \A c \in Calls : Somewhere(c)' => Somewhere(c)
    BY <2>1, SizesAssumption DEF Somewhere, HandCalls
  <2>4. frame.call # NoCall =>
          \E x \in Calls : x = frame.call /\ Somewhere(x) /\ ~Somewhere(x)'
    BY <2>1, EventFields DEF Inv, TypeInv, PlacesInv, Somewhere, HandCalls
  <2>5. UNCHANGED replies \/ (frame.call # NoCall /\ Reply(frame.call, "Overloaded"))
    BY <1>2 DEF PostFrame
  <2>6. \/ UNCHANGED replies
        \/ \E x \in Calls, k \in ReplyKinds : Somewhere(x) /\ ~Somewhere(x)' /\ Reply(x, k)
    BY <2>4, <2>5 DEF ReplyKinds
  <2> QED BY <2>1, <2>2, <2>3, <2>6, OpenKept
<1> QED BY <1>1, <1>2

LEMMA SessionTakePlaces ==
  ASSUME Inv, SessionTake
  PROVE  PlacesInv' /\ OpenInv'
<1>1. /\ event.call = NoCall /\ Len(events) \in Nat /\ Len(events) >= 1
      /\ event' = events[1] /\ Len(events') = Len(events) - 1
      /\ \A i \in 1..Len(events') : events'[i] = events[i + 1]
  BY DEF Inv, TypeInv, HandsInv, SessionTake
<1>2. UNCHANGED <<calls, frame, task, done, read, replies>>
  BY DEF SessionTake, readerVars, callVars, callerVars, historyVars
<1>3. \A i \in 1..Len(events') : i + 1 \in 1..Len(events) /\ i + 1 # 1
  BY <1>1
<1>4. HandCalls' \subseteq HandCalls \cup {events[1].call}
  BY <1>1, <1>2 DEF HandCalls
<1>5. 1 \in 1..Len(events)
  BY <1>1
<1>6. ASSUME NEW i \in 1..Len(events'), events'[i].call # NoCall
      PROVE  /\ events'[i].call \notin HandCalls'
             /\ \A j \in 1..Len(events') : events'[j].call = events'[i].call => j = i
             /\ \A j \in 1..Len(calls) : calls[j] # events'[i].call
  <2>1. events'[i] = events[i + 1] /\ i + 1 \in 1..Len(events) /\ i + 1 # 1 /\ i \in Int
    BY <1>1, <1>3
  <2>2. events[1].call # events[i + 1].call
    BY <1>5, <1>6, <2>1 DEF Inv, PlacesInv
  <2>3. events[i + 1].call \notin HandCalls'
    BY <1>4, <1>6, <2>1, <2>2 DEF Inv, PlacesInv
  <2>4. ASSUME NEW j \in 1..Len(events'), events'[j].call = events'[i].call PROVE j = i
    <3>1. events[j + 1].call = events[i + 1].call /\ j + 1 \in 1..Len(events)
      BY <1>1, <1>3, <2>1, <2>4
    <3>2. j + 1 = i + 1
      BY <1>6, <2>1, <3>1 DEF Inv, PlacesInv
    <3> QED BY <1>1, <3>2
  <2>5. \A j \in 1..Len(calls) : calls[j] # events[i + 1].call
    BY <1>6, <2>1 DEF Inv, PlacesInv
  <2> QED BY <2>1, <2>3, <2>4, <2>5
<1>7. \A i \in 1..Len(calls) : calls[i] \notin HandCalls'
  BY <1>4, <1>5, QueuedAreCalls DEF Inv, PlacesInv
<1>8. /\ frame.call # NoCall => frame.call \notin {event'.call, task, done.call}
      /\ event'.call # NoCall => event'.call \notin {task, done.call}
  BY <1>1, <1>5 DEF Inv, PlacesInv, HandCalls
<1>9. PlacesInv'
  BY <1>2, <1>6, <1>7, <1>8 DEF Inv, PlacesInv
<1>10. \A c \in Calls : Somewhere(c)' => Somewhere(c)
  BY <1>1, <1>2, <1>3, <1>4, <1>5 DEF Somewhere
<1> QED BY <1>2, <1>9, <1>10, OpenKept

\* The session thread is done with its event; if a call was in it, the call is
\* answered, stays silent because it was cancelled, or is with nobody.
LEMMA SessionDropPlaces ==
  ASSUME Inv, UNCHANGED <<events, calls, frame, task, done, read>>, event'.call = NoCall,
         \/ UNCHANGED replies
         \/ event.call \in Calls /\ \E k \in ReplyKinds : Reply(event.call, k)
  PROVE  PlacesInv' /\ OpenInv'
<1>1. PlacesInv'
  BY QueuedAreCalls DEF Inv, PlacesInv, HandCalls
<1>2. \A c \in Calls : Somewhere(c)' => Somewhere(c)
  BY SizesAssumption DEF Somewhere, HandCalls
<1>3. ASSUME NEW c \in Calls, c = event.call PROVE Somewhere(c) /\ ~Somewhere(c)'
  BY <1>3, SizesAssumption DEF Inv, PlacesInv, Somewhere, HandCalls
<1> QED BY <1>1, <1>2, <1>3, OpenKept

LEMMA SessionLinePlaces ==
  ASSUME Inv, SessionLine
  PROVE  PlacesInv' /\ OpenInv'
<1>1. /\ UNCHANGED <<events, frame, task, done, read>> /\ event'.call = NoCall
      /\ event.call # NoCall => event.call \in Calls
  BY NoEventType, EventFields
     DEF Inv, TypeInv, SessionLine, Turn, readerVars, eventVars, callerVars
<1>2. CASE UNCHANGED calls
  <2>1. \/ UNCHANGED replies
        \/ event.call \in Calls /\ \E k \in ReplyKinds : Reply(event.call, k)
    BY <1>1 DEF SessionLine, SessionQueuesCall, ReplyUnlessCancelled, ReplyKinds
  <2> QED BY <1>1, <1>2, <2>1, SessionDropPlaces
<1>3. CASE event.call # NoCall /\ SessionQueuesCall(event.call)
  <2>1. PICK c \in Calls : c = event.call /\ calls' = Append(calls, c) /\ UNCHANGED replies
    BY <1>1, <1>3 DEF SessionQueuesCall
  <2>2. /\ Len(calls') = Len(calls) + 1 /\ Len(calls) \in Nat
        /\ \A i \in 1..Len(calls') : calls'[i] = IF i = Len(calls) + 1 THEN c ELSE calls[i]
    BY <2>1 DEF Inv, TypeInv
  <2>3. HandCalls' \subseteq HandCalls \cup {NoCall} /\ c \in HandCalls /\ c \notin HandCalls'
    BY <1>1, <2>1, SizesAssumption DEF Inv, PlacesInv, HandCalls
  <2>4. ASSUME NEW i \in 1..Len(calls')
        PROVE  /\ calls'[i] \notin HandCalls'
               /\ \A j \in 1..Len(calls') : calls'[j] = calls'[i] => j = i
    BY <2>2, <2>3, QueuedAreCalls DEF Inv, PlacesInv
  <2>5. ASSUME NEW i \in 1..Len(events), events[i].call # NoCall
        PROVE  /\ events[i].call \notin HandCalls'
               /\ \A j \in 1..Len(events) : events[j].call = events[i].call => j = i
               /\ \A j \in 1..Len(calls') : calls'[j] # events[i].call
    BY <2>2, <2>3, <2>5 DEF Inv, PlacesInv
  <2>6. PlacesInv'
    BY <1>1, <2>4, <2>5 DEF Inv, PlacesInv
  <2>7. ASSUME NEW d \in Calls, Somewhere(d)' PROVE Somewhere(d)
    <3>1. d # NoCall
      BY SizesAssumption
    <3>2. CASE d \in HandCalls'
      BY <2>3, <3>1, <3>2 DEF Somewhere
    <3>3. CASE \E i \in 1..Len(events) : events[i].call = d
      BY <3>3 DEF Somewhere
    <3>4. CASE \E i \in 1..Len(calls') : calls'[i] = d
      BY <2>2, <2>3, <3>4 DEF Somewhere
    <3> QED BY <1>1, <2>7, <3>2, <3>3, <3>4 DEF Somewhere
  <2> QED BY <1>1, <2>1, <2>6, <2>7, OpenKept
<1> QED BY <1>2, <1>3 DEF SessionLine

LEMMA SessionOtherPlaces ==
  ASSUME Inv, \/ SessionToolCallDone \/ SessionOversized
              \/ SessionReaderDone \/ SessionCallerDone
  PROVE  PlacesInv' /\ OpenInv'
<1>1. UNCHANGED <<events, calls, frame, task, done, read>> /\ event'.call = NoCall
  BY NoEventType
     DEF SessionToolCallDone, SessionOversized, SessionReaderDone, SessionCallerDone, Turn,
         readerVars, eventVars, callVars, callerVars, historyVars
<1>2. \/ UNCHANGED replies
      \/ event.call \in Calls /\ \E k \in ReplyKinds : Reply(event.call, k)
  BY DEF Inv, TypeInv, SessionToolCallDone, SessionOversized, SessionReaderDone,
         SessionCallerDone, ReplyUnlessCancelled, ReplyKinds, historyVars
<1> QED BY <1>1, <1>2, SessionDropPlaces

LEMMA CallerTakePlaces ==
  ASSUME Inv, CallerTake
  PROVE  PlacesInv' /\ OpenInv'
<1>1. /\ task = NoCall /\ done.call = NoCall
      /\ Len(calls) \in Nat /\ Len(calls) >= 1 /\ Len(calls') = Len(calls) - 1
      /\ task' = calls[1] /\ \A i \in 1..Len(calls') : calls'[i] = calls[i + 1]
  BY DEF Inv, TypeInv, HandsInv, CallerTake
<1>2. UNCHANGED <<events, frame, event, done, read, replies>>
  BY DEF CallerTake, readerVars, eventVars, sessionVars, historyVars
<1>3. 1 \in 1..Len(calls) /\ \A i \in 1..Len(calls') : i + 1 \in 1..Len(calls) /\ i + 1 # 1
  BY <1>1
<1>4. HandCalls' \subseteq HandCalls \cup {calls[1]}
  BY <1>1, <1>2 DEF HandCalls
<1>5. ASSUME NEW i \in 1..Len(calls')
      PROVE  /\ calls'[i] \notin HandCalls'
             /\ \A j \in 1..Len(calls') : calls'[j] = calls'[i] => j = i
  <2>1. calls'[i] = calls[i + 1] /\ i + 1 \in 1..Len(calls) /\ calls[i + 1] # calls[1]
    BY <1>1, <1>3 DEF Inv, PlacesInv
  <2>2. calls[i + 1] \notin HandCalls'
    BY <1>4, <2>1 DEF Inv, PlacesInv
  <2>3. ASSUME NEW j \in 1..Len(calls'), calls'[j] = calls'[i] PROVE j = i
    <3>1. calls[j + 1] = calls[i + 1] /\ j + 1 \in 1..Len(calls)
      BY <1>1, <1>3, <2>1, <2>3
    <3>2. j + 1 = i + 1
      BY <2>1, <3>1 DEF Inv, PlacesInv
    <3> QED BY <1>1, <3>2
  <2> QED BY <2>1, <2>2, <2>3
<1>6. ASSUME NEW i \in 1..Len(events), events[i].call # NoCall
      PROVE  /\ events[i].call \notin HandCalls'
             /\ \A j \in 1..Len(events) : events[j].call = events[i].call => j = i
             /\ \A j \in 1..Len(calls') : calls'[j] # events[i].call
  BY <1>1, <1>3, <1>4, <1>6 DEF Inv, PlacesInv
<1>7. /\ frame.call # NoCall => frame.call \notin {event.call, task', done.call}
      /\ event.call # NoCall => event.call \notin {task', done.call}
  BY <1>1, <1>3 DEF Inv, PlacesInv, HandCalls
<1>8. PlacesInv'
  BY <1>2, <1>5, <1>6, <1>7 DEF Inv, PlacesInv
<1>9. \A c \in Calls : Somewhere(c)' => Somewhere(c)
  BY <1>1, <1>2, <1>3, <1>4 DEF Somewhere
<1> QED BY <1>2, <1>8, <1>9, OpenKept

\* The call goes from the caller's task to the result in the caller's hand.
LEMMA CallerCallPlaces ==
  ASSUME Inv, CallerCall
  PROVE  PlacesInv' /\ OpenInv'
<1>1. /\ task' = NoCall /\ done'.call = task /\ done.call = NoCall
      /\ UNCHANGED <<events, calls, frame, event, read, replies>>
  BY DEF Inv, HandsInv, CallerCall, NewEvent, readerVars, eventVars, sessionVars, callVars,
         historyVars
<1>2. HandCalls' = HandCalls
  BY <1>1 DEF HandCalls
<1>3. PlacesInv'
  BY <1>1, <1>2 DEF Inv, PlacesInv
<1>4. \A c \in Calls : Somewhere(c)' => Somewhere(c)
  BY <1>1, <1>2 DEF Somewhere
<1> QED BY <1>1, <1>3, <1>4, OpenKept

LEMMA CallerPostPlaces ==
  ASSUME Inv, CallerPost
  PROVE  PlacesInv' /\ OpenInv'
BY HandPushPlaces, NoEventType
   DEF Inv, TypeInv, CallerPost, readerVars, sessionVars, callVars, historyVars

LEMMA NextKeepsPlaces ==
  ASSUME Inv, [Next]_vars
  PROVE  PlacesInv' /\ OpenInv'
<1>1. ASSUME NEW c \in Calls, ReadCall(c) PROVE PlacesInv' /\ OpenInv'
  BY <1>1, ReadCallPlaces
<1>2. CASE \/ EndOfInput \/ CallerLeave
           \/ \E c \in Calls : ReadCancellation(c)
           \/ \E kind \in DataKinds : ReadOther(kind)
  <2>1. /\ UNCHANGED <<events, calls, read, replies, task>>
        /\ frame'.call = frame.call /\ event'.call = event.call /\ done'.call = done.call
    BY <1>2 DEF Inv, HandsInv, EndOfInput, CallerLeave, ReadCancellation, ReadOther, NewEvent,
       readerVars, eventVars, sessionVars, callVars, callerVars, historyVars
  <2> QED BY <2>1, StillPlaces
<1>3. CASE PostReaderDone
  BY <1>3, IdlePushPlaces
     DEF PostReaderDone, Kinds, sessionVars, callVars, callerVars, historyVars
<1>4. CASE PostCallerDone
  BY <1>4, IdlePushPlaces
     DEF PostCallerDone, Kinds, readerVars, sessionVars, callVars, historyVars
<1>5. CASE PostFrame
  BY <1>5, PostFramePlaces
<1>6. CASE SessionStep
  BY <1>6, SessionTakePlaces, SessionLinePlaces, SessionOtherPlaces DEF SessionStep
<1>7. CASE CallerTake \/ CallerCall \/ CallerPost
  BY <1>7, CallerTakePlaces, CallerCallPlaces, CallerPostPlaces
<1>8. CASE UNCHANGED vars
  BY <1>8, StillPlaces DEF vars, readerVars, eventVars, sessionVars, callVars, callerVars,
     historyVars
<1> QED
  BY <1>1, <1>2, <1>3, <1>4, <1>5, <1>6, <1>7, <1>8
     DEF Next, Returned, ReaderInput, ReaderStep, CallerStep

\* However the lines are refused, the calls cancelled and the queues filled,
\* no request is answered twice.
THEOREM CallsAreAnsweredOnce == Spec => []OneReplyPerCall
<1>1. Init => Inv /\ RoomInv
  BY InitType, InitPlaces DEF Inv
<1>2. Inv /\ RoomInv /\ [Next]_vars => Inv' /\ RoomInv'
  BY NextKeepsTypes, NextKeepsPlaces DEF Inv
<1>3. Inv => OneReplyPerCall
  BY DEF Inv, OpenInv
<1> QED BY <1>1, <1>2, <1>3, PTL DEF Spec

-----------------------------------------------------------------------------
(* What the events carry, and what comes last *)

\* Only a line and a result carry a call, and the call of a result is pending.
Formed(e) ==
  /\ e.call # NoCall => e.kind \in {"Line", "ToolCallDone"}
  /\ e.kind = "ToolCallDone" => e.call \in pending
FormInv ==
  /\ Formed(frame) /\ frame.kind \in DataKinds
  /\ spc \notin {"take", "end"} => Formed(event) /\ event.kind = spc
  /\ \A i \in 1..Len(events) : Formed(events[i])
  /\ \A i \in 1..Len(calls) : calls[i] \in pending
  /\ cpc = "call" => task \in pending
  /\ cpc = "post" => done.call \in pending /\ done.kind = "ToolCallDone"

-----------------------------------------------------------------------------
(* Sums *)

LEMMA Counting ==
  ASSUME NEW N \in SUBSET Nat, 0 \in N, \A n \in N : n + 1 \in N
  PROVE  N = Nat
<1> DEFINE R == OpToRel(<, Nat)
<1>1. SUFFICES ASSUME Nat \ N # {} PROVE FALSE
  OBVIOUS
<1>2. PICK m \in Nat \ N : \A n \in Nat \ N : ~ (<<n, m>> \in R)
  <2>1. IsWellFoundedOn(R, Nat)
    BY NatLessThanWellFounded
  <2> HIDE DEF R
  <2> QED BY <1>1, <2>1, WFMin
<1>3. \A n \in Nat \ N : ~ (n < m)
  BY <1>2 DEF OpToRel
<1>4. m # 0 /\ m - 1 \in Nat /\ m - 1 < m /\ (m - 1) + 1 = m
  OBVIOUS
<1> QED BY <1>3, <1>4

\* The sums of the first amounts of w, up to n of them.
Summed(w, n, g) == g = [i \in 0..n |-> IF i = 0 THEN 0 ELSE g[i - 1] + w[i]]

LEMMA SummedExists == ASSUME NEW w PROVE \A n \in Nat : \E g : Summed(w, n, g)
<1> DEFINE N == {n \in Nat : \E g : Summed(w, n, g)}
<1>1. 0 \in N
  <2> DEFINE g0 == [i \in 0..0 |-> 0]
  <2>1. Summed(w, 0, g0)
    BY DEF Summed
  <2> QED BY <2>1
<1>2. ASSUME NEW n \in N PROVE n + 1 \in N
  <2>1. PICK g : Summed(w, n, g)
    OBVIOUS
  <2> DEFINE h == [i \in 0..(n + 1) |-> IF i = n + 1 THEN g[n] + w[n + 1] ELSE g[i]]
  <2>2. \A i \in 0..n : g[i] = IF i = 0 THEN 0 ELSE g[i - 1] + w[i]
    BY <2>1 DEF Summed
  <2>3. ASSUME NEW i \in 0..(n + 1)
        PROVE  h[i] = IF i = 0 THEN 0 ELSE h[i - 1] + w[i]
    <3>1. CASE i = n + 1
      BY <3>1
    <3>2. CASE i # n + 1
      BY <3>2, <2>2
    <3> QED BY <3>1, <3>2
  <2>4. h = [i \in 0..(n + 1) |-> h[i]]
    OBVIOUS
  <2>5. Summed(w, n + 1, h)
    BY <2>3, <2>4 DEF Summed
  <2> QED BY <2>5
<1>3. N = Nat
  <2> HIDE DEF N
  <2> QED BY <1>1, <1>2, Counting DEF N
<1> QED BY <1>3

\* Steps of a sum.
LEMMA SummedSteps ==
  ASSUME NEW w, NEW n \in Nat, NEW g, Summed(w, n, g)
  PROVE  g[0] = 0 /\ \A i \in 0..n : i + 1 <= n => g[i + 1] = g[i] + w[i + 1]
<1>1. \A i \in 0..n : g[i] = IF i = 0 THEN 0 ELSE g[i - 1] + w[i]
  BY DEF Summed
<1>2. ASSUME NEW i \in 0..n, i + 1 <= n PROVE g[i + 1] = g[i] + w[i + 1]
  <2>1. i + 1 \in 0..n /\ i + 1 # 0 /\ (i + 1) - 1 = i
    BY <1>2
  <2> QED BY <1>1, <2>1
<1>3. 0 \in 0..n
  OBVIOUS
<1> QED BY <1>1, <1>2, <1>3

LEMMA SummedNat ==
  ASSUME NEW w, NEW n \in Nat, NEW g, Summed(w, n, g), \A i \in 1..n : w[i] \in Nat
  PROVE  \A i \in 0..n : g[i] \in Nat
<1> DEFINE N == {i \in Nat : i <= n => g[i] \in Nat}
<1>1. 0 \in N
  BY SummedSteps
<1>2. ASSUME NEW i \in N PROVE i + 1 \in N
  <2>1. CASE i + 1 <= n
    BY <2>1, SummedSteps
  <2>2. CASE ~(i + 1 <= n)
    BY <2>2
  <2> QED BY <2>1, <2>2
<1>3. N = Nat
  <2> HIDE DEF N
  <2> QED BY <1>1, <1>2, Counting DEF N
<1> QED BY <1>3

\* The sums of the same amounts are the same, and so are they but for one that is left out.
SameTo(v, w, k) == \A i \in 1..k : v[i] = w[i]
LEMMA SumsAgree ==
  ASSUME NEW v, NEW w, NEW m \in Nat, NEW n \in Nat, NEW k \in Nat, NEW g, NEW h,
         Summed(v, m, g), Summed(w, n, h), k <= m, k <= n, SameTo(v, w, k)
  PROVE  g[k] = h[k]
<1> DEFINE N == {i \in Nat : i <= k => g[i] = h[i]}
<1>1. 0 \in N
  <2>1. g[0] = 0
    BY SummedSteps
  <2>2. h[0] = 0
    BY SummedSteps
  <2> QED BY <2>1, <2>2
<1>2. ASSUME NEW i \in N PROVE i + 1 \in N
  <2>1. CASE i + 1 <= k
    <3>1. g[i + 1] = g[i] + v[i + 1] /\ h[i + 1] = h[i] + w[i + 1]
      BY <2>1, SummedSteps
    <3> QED BY <2>1, <3>1 DEF SameTo
  <2>2. CASE ~(i + 1 <= k)
    BY <2>2
  <2> QED BY <2>1, <2>2
<1>3. N = Nat
  <2> HIDE DEF N
  <2> QED BY <1>1, <1>2, Counting DEF N
<1> QED BY <1>3

ShiftedTo(v, w, n) ==
  (\A i \in 1..(n + 1) : v[i] \in Nat) /\ (\A i \in 1..n : w[i] = v[i + 1])
LEMMA SumsShifted ==
  ASSUME NEW v, NEW w, NEW n \in Nat, NEW g, NEW h,
         Summed(v, n + 1, g), Summed(w, n, h),
         ShiftedTo(v, w, n)
  PROVE  g[n + 1] = v[1] + h[n]
<1> USE DEF ShiftedTo
<1> DEFINE N == {i \in Nat : i <= n => g[i + 1] = v[1] + h[i]}
<1>0. /\ g[0] = 0 /\ \A i \in 0..(n + 1) : i + 1 <= n + 1 => g[i + 1] = g[i] + v[i + 1]
      /\ h[0] = 0 /\ \A i \in 0..n : i + 1 <= n => h[i + 1] = h[i] + w[i + 1]
      /\ \A i \in 0..n : h[i] \in Nat
  <2>1. \A i \in 1..n : w[i] \in Nat
    OBVIOUS
  <2>2. n + 1 \in Nat
    OBVIOUS
  <2> QED BY <2>1, <2>2, SummedSteps, SummedNat
<1>1. 0 \in N
  <2>1. 0 \in 0..(n + 1) /\ 0 + 1 <= n + 1 /\ 0 + 1 = 1
    OBVIOUS
  <2>2. g[1] = g[0] + v[1] /\ v[1] \in Nat
    BY <1>0, <2>1
  <2> QED BY <1>0, <2>2
<1>2. ASSUME NEW i \in N PROVE i + 1 \in N
  <2>1. CASE i + 1 <= n
    <3>1. g[i + 2] = g[i + 1] + v[i + 2] /\ h[i + 1] = h[i] + w[i + 1] /\ w[i + 1] = v[i + 2]
      <4>1. i + 1 \in 0..(n + 1) /\ (i + 1) + 1 <= n + 1 /\ (i + 1) + 1 = i + 2 /\ i + 1 \in 1..n
        BY <2>1
      <4> QED BY <1>0, <2>1, <4>1
    <3>2. h[i] \in Nat /\ v[1] \in Nat /\ v[i + 2] \in Nat
      BY <1>0, <2>1
    <3> QED BY <2>1, <3>1, <3>2
  <2>2. CASE ~(i + 1 <= n)
    BY <2>2
  <2> QED BY <2>1, <2>2
<1>3. N = Nat
  <2> HIDE DEF N
  <2> QED BY <1>1, <1>2, Counting DEF N
<1> QED BY <1>3

LEMMA TotalIs ==
  ASSUME NEW w, Len(w) \in Nat
  PROVE  \E g : Summed(w, Len(w), g) /\ Total(w) = g[Len(w)]
<1> DEFINE g == CHOOSE h : Summed(w, Len(w), h)
<1>1. Summed(w, Len(w), g)
  BY SummedExists
<1>2. Total(w) = g[Len(w)]
  BY DEF Total, Summed
<1> QED BY <1>1, <1>2

LEMMA TotalOfNone == Total(<<>>) = 0
<1>1. PICK g : Summed(<<>>, Len(<<>>), g) /\ Total(<<>>) = g[Len(<<>>)]
  BY TotalIs
<1> QED BY <1>1, SummedSteps

LEMMA TotalMore ==
  ASSUME NEW v \in Seq(Nat), NEW w \in Seq(Nat), Len(w) = Len(v) + 1, \A i \in 1..Len(v) : w[i] = v[i]
  PROVE  Total(w) = Total(v) + w[Len(w)] /\ Total(v) \in Nat
<1>1. PICK g : Summed(v, Len(v), g) /\ Total(v) = g[Len(v)]
  BY TotalIs
<1>2. PICK h : Summed(w, Len(w), h) /\ Total(w) = h[Len(w)]
  BY TotalIs
<1>3. h[Len(v)] = g[Len(v)]
  <2>1. Len(v) \in Nat /\ Len(w) \in Nat /\ Len(v) <= Len(v) /\ Len(v) <= Len(w)
    OBVIOUS
  <2>2. \A i \in 1..Len(v) : v[i] = w[i]
    OBVIOUS
  <2>3. Summed(v, Len(v), g) /\ Summed(w, Len(w), h)
    BY <1>1, <1>2
  <2>4. SameTo(v, w, Len(v))
    BY <2>2 DEF SameTo
  <2> QED BY <2>1, <2>3, <2>4, SumsAgree
<1>4. h[Len(w)] = h[Len(v)] + w[Len(w)]
  BY <1>2, SummedSteps
<1>5. g[Len(v)] \in Nat
  <2>1. \A i \in 1..Len(v) : v[i] \in Nat
    OBVIOUS
  <2> QED BY <1>1, <2>1, SummedNat
<1> QED BY <1>1, <1>2, <1>3, <1>4, <1>5

LEMMA TotalLess ==
  ASSUME NEW v \in Seq(Nat), NEW w \in Seq(Nat), Len(v) = Len(w) + 1, \A i \in 1..Len(w) : w[i] = v[i + 1]
  PROVE  Total(v) = v[1] + Total(w) /\ Total(w) \in Nat
<1>1. PICK g : Summed(v, Len(v), g) /\ Total(v) = g[Len(v)]
  BY TotalIs
<1>2. PICK h : Summed(w, Len(w), h) /\ Total(w) = h[Len(w)]
  BY TotalIs
<1>3. g[Len(w) + 1] = v[1] + h[Len(w)]
  <2>1. \A i \in 1..(Len(w) + 1) : v[i] \in Nat
    OBVIOUS
  <2>2. Summed(v, Len(w) + 1, g) /\ Summed(w, Len(w), h) /\ Len(w) \in Nat
    BY <1>1, <1>2
  <2>3. ShiftedTo(v, w, Len(w))
    BY <2>1 DEF ShiftedTo
  <2> QED BY <2>2, <2>3, SumsShifted
<1>4. h[Len(w)] \in Nat
  <2>1. \A i \in 1..Len(w) : w[i] \in Nat
    BY SMTT(30)
  <2> QED BY <1>2, <2>1, SummedNat, SMTT(30)
<1> QED BY <1>1, <1>2, <1>3, <1>4

-----------------------------------------------------------------------------
(* The counters say what is queued *)

EventsAccounted ==
  /\ eventBytes = Total(Sizes(events))
  /\ dataBytes = Total(DataSizes(events))
  /\ dataCount = Total(DataMarks(events))
LimitsInv ==
  /\ eventBytes <= MaxPayload /\ dataBytes <= MaxDataPayload
  /\ callBytes = Total(CallSizes(calls)) /\ callBytes <= MaxPayload
  /\ Len(calls) <= MaxItems

LEMMA TotalNat == ASSUME NEW v \in Seq(Nat) PROVE Total(v) \in Nat
<1>1. PICK g : Summed(v, Len(v), g) /\ Total(v) = g[Len(v)]
  BY TotalIs
<1>2. \A i \in 1..Len(v) : v[i] \in Nat
  OBVIOUS
<1> QED BY <1>1, <1>2, SummedNat

LEMMA TotalGrows ==
  ASSUME NEW v \in Seq(Nat), NEW w \in Seq(Nat), NEW n \in Nat,
         Len(v) = n, Len(w) = n + 1, SameTo(v, w, n)
  PROVE  Total(w) = Total(v) + w[n + 1]
<1>1. \A i \in 1..Len(v) : w[i] = v[i]
  BY DEF SameTo
<1> QED BY <1>1, TotalMore

\* What the sums add up.
LEMMA SizesAreNat ==
  ASSUME NEW s \in Seq(Event)
  PROVE  /\ Sizes(s) \in Seq(Nat) /\ DataSizes(s) \in Seq(Nat) /\ DataMarks(s) \in Seq(Nat)
         /\ Len(Sizes(s)) = Len(s) /\ Len(DataSizes(s)) = Len(s) /\ Len(DataMarks(s)) = Len(s)
<1>1. \A i \in 1..Len(s) : s[i].bytes \in Nat
  BY EventFields
<1> QED BY <1>1 DEF Sizes, DataSizes, DataMarks

LEMMA CallSizesAreNat ==
  ASSUME NEW s \in Seq(Calls)
  PROVE  CallSizes(s) \in Seq(Nat) /\ Len(CallSizes(s)) = Len(s)
<1>1. \A i \in 1..Len(s) : CallBytes[s[i]] \in Nat
  BY SizesAssumption
<1> QED BY <1>1 DEF CallSizes

LEMMA CountersAreNat ==
  ASSUME TypeInv, EventsAccounted, LimitsInv
  PROVE  eventBytes \in Nat /\ dataBytes \in Nat /\ dataCount \in Nat /\ callBytes \in Nat
BY TotalNat, SizesAreNat, CallSizesAreNat DEF TypeInv, EventsAccounted, LimitsInv

LEMMA PushAccounts ==
  ASSUME events \in Seq(Event), NEW e \in Event, Push(e), EventsAccounted
  PROVE  EventsAccounted'
<1> DEFINE n == Len(events)
<1>1. /\ events' \in Seq(Event) /\ Len(events') = n + 1 /\ n \in Nat
      /\ \A i \in 1..n : events'[i] = events[i]
      /\ events'[n + 1] = e
  BY EventAppended, PushLen
<1>2. /\ eventBytes' = eventBytes + e.bytes
      /\ dataBytes' = dataBytes + (IF IsData(e) THEN e.bytes ELSE 0)
      /\ dataCount' = dataCount + (IF IsData(e) THEN 1 ELSE 0)
  BY TotalNat, SizesAreNat, EventFields DEF Push, EventsAccounted, IsData
<1> HIDE DEF n
<1>3. Total(Sizes(events')) = Total(Sizes(events)) + e.bytes
  <2>1. SameTo(Sizes(events), Sizes(events'), n)
    BY <1>1 DEF Sizes, SameTo, n
  <2>2. Sizes(events')[n + 1] = e.bytes
    BY <1>1 DEF Sizes
  <2>3. Sizes(events) \in Seq(Nat) /\ Len(Sizes(events)) = n
    BY SizesAreNat DEF n
  <2>4. Sizes(events') \in Seq(Nat) /\ Len(Sizes(events')) = n + 1
    BY <1>1, SizesAreNat
  <2> QED BY <1>1, <2>1, <2>2, <2>3, <2>4, TotalGrows
<1>4. Total(DataSizes(events')) = Total(DataSizes(events)) + (IF IsData(e) THEN e.bytes ELSE 0)
  <2>1. SameTo(DataSizes(events), DataSizes(events'), n)
    BY <1>1 DEF DataSizes, SameTo, n
  <2>2. DataSizes(events')[n + 1] = IF IsData(e) THEN e.bytes ELSE 0
    BY <1>1 DEF DataSizes
  <2>3. DataSizes(events) \in Seq(Nat) /\ Len(DataSizes(events)) = n
    BY SizesAreNat DEF n
  <2>4. DataSizes(events') \in Seq(Nat) /\ Len(DataSizes(events')) = n + 1
    BY <1>1, SizesAreNat
  <2> QED BY <1>1, <2>1, <2>2, <2>3, <2>4, TotalGrows
<1>5. Total(DataMarks(events')) = Total(DataMarks(events)) + (IF IsData(e) THEN 1 ELSE 0)
  <2>1. SameTo(DataMarks(events), DataMarks(events'), n)
    BY <1>1 DEF DataMarks, SameTo, n
  <2>2. DataMarks(events')[n + 1] = IF IsData(e) THEN 1 ELSE 0
    BY <1>1 DEF DataMarks
  <2>3. DataMarks(events) \in Seq(Nat) /\ Len(DataMarks(events)) = n
    BY SizesAreNat DEF n
  <2>4. DataMarks(events') \in Seq(Nat) /\ Len(DataMarks(events')) = n + 1
    BY <1>1, SizesAreNat
  <2> QED BY <1>1, <2>1, <2>2, <2>3, <2>4, TotalGrows
<1> QED BY <1>2, <1>3, <1>4, <1>5 DEF EventsAccounted

\* Taking the first event takes its share from each counter, and none gets larger.
LEMMA TakeAccounts ==
  ASSUME TypeInv, SessionTake, EventsAccounted
  PROVE  EventsAccounted' /\ eventBytes' <= eventBytes /\ dataBytes' <= dataBytes
<1> DEFINE n == Len(events')
<1>0. /\ events \in Seq(Event) /\ events' \in Seq(Event) /\ Len(events) = n + 1 /\ n \in Nat
      /\ event' = events[1] /\ \A i \in 1..n : events'[i] = events[i + 1]
  BY DEF TypeInv, SessionTake
<1> HIDE DEF n
<1>1. PICK e \in Event : e = events[1] /\ e = event'
  BY <1>0
<1>2. /\ eventBytes' = eventBytes - e.bytes
      /\ dataBytes' = dataBytes - (IF IsData(e) THEN e.bytes ELSE 0)
      /\ dataCount' = dataCount - (IF IsData(e) THEN 1 ELSE 0)
  <2>1. /\ Total(DataSizes(events)) \in Nat /\ Total(DataMarks(events)) \in Nat
    BY <1>0, SizesAreNat, TotalNat
  <2>2. dataBytes \in Nat /\ dataCount \in Nat
    BY <2>1 DEF EventsAccounted
  <2> QED BY <1>1, <2>2 DEF SessionTake, IsData
<1>3. /\ Total(Sizes(events)) = e.bytes + Total(Sizes(events'))
      /\ Total(Sizes(events')) \in Nat
  <2>1. \A i \in 1..n : Sizes(events')[i] = Sizes(events)[i + 1]
    BY <1>0 DEF Sizes, n
  <2>2. Sizes(events)[1] = e.bytes
    BY <1>0, <1>1 DEF Sizes
  <2> QED BY <1>0, <2>1, <2>2, SizesAreNat, TotalLess DEF n
<1>4. /\ Total(DataSizes(events)) = (IF IsData(e) THEN e.bytes ELSE 0) + Total(DataSizes(events'))
      /\ Total(DataSizes(events')) \in Nat
  <2>1. \A i \in 1..n : DataSizes(events')[i] = DataSizes(events)[i + 1]
    BY <1>0 DEF DataSizes, n
  <2>2. DataSizes(events)[1] = IF IsData(e) THEN e.bytes ELSE 0
    BY <1>0, <1>1 DEF DataSizes
  <2> QED BY <1>0, <2>1, <2>2, SizesAreNat, TotalLess DEF n
<1>5. /\ Total(DataMarks(events)) = (IF IsData(e) THEN 1 ELSE 0) + Total(DataMarks(events'))
      /\ Total(DataMarks(events')) \in Nat
  <2>1. \A i \in 1..n : DataMarks(events')[i] = DataMarks(events)[i + 1]
    BY <1>0 DEF DataMarks, n
  <2>2. DataMarks(events)[1] = IF IsData(e) THEN 1 ELSE 0
    BY <1>0, <1>1 DEF DataMarks
  <2> QED BY <1>0, <2>1, <2>2, SizesAreNat, TotalLess DEF n
<1>6. e.bytes \in Nat
  BY EventFields
<1>7. EventsAccounted'
  BY <1>2, <1>3, <1>4, <1>5, <1>6 DEF EventsAccounted
<1>8. eventBytes' <= eventBytes /\ dataBytes' <= dataBytes
  BY <1>2, <1>3, <1>4, <1>6 DEF EventsAccounted
<1> QED BY <1>7, <1>8

\* The counters of the two queues and their limits.
CountInv == EventsAccounted /\ LimitsInv

LEMMA CallPushed ==
  ASSUME calls \in Seq(Calls), NEW c \in Calls, calls' = Append(calls, c),
         callBytes = Total(CallSizes(calls)), callBytes' = callBytes + CallBytes[c]
  PROVE  callBytes' = Total(CallSizes(calls')) /\ Len(calls') = Len(calls) + 1
<1>1. PICK n \in Nat : n = Len(calls)
  OBVIOUS
<1>2. /\ calls' \in Seq(Calls) /\ Len(calls') = n + 1
      /\ calls'[n + 1] = c /\ \A i \in 1..n : calls'[i] = calls[i]
  BY <1>1
<1>3. SameTo(CallSizes(calls), CallSizes(calls'), n) /\ CallSizes(calls')[n + 1] = CallBytes[c]
  BY <1>1, <1>2 DEF CallSizes, SameTo
<1>4. /\ CallSizes(calls) \in Seq(Nat) /\ Len(CallSizes(calls)) = n
      /\ CallSizes(calls') \in Seq(Nat) /\ Len(CallSizes(calls')) = n + 1
  BY <1>1, <1>2, CallSizesAreNat
<1>5. Total(CallSizes(calls')) = Total(CallSizes(calls)) + CallSizes(calls')[n + 1]
  BY <1>3, <1>4, TotalGrows
<1> QED BY <1>1, <1>2, <1>3, <1>5

LEMMA CallTaken ==
  ASSUME calls \in Seq(Calls), calls # <<>>, calls' = Tail(calls),
         callBytes = Total(CallSizes(calls)), callBytes' = callBytes - CallBytes[Head(calls)]
  PROVE  /\ callBytes' = Total(CallSizes(calls')) /\ callBytes' <= callBytes
         /\ Len(calls') <= Len(calls)
<1>1. PICK n \in Nat : n = Len(calls')
  OBVIOUS
<1>2. /\ calls' \in Seq(Calls) /\ Len(calls) = n + 1 /\ Head(calls) = calls[1]
      /\ \A i \in 1..n : calls'[i] = calls[i + 1] /\ calls[1] \in Calls
  BY <1>1
<1>3. /\ CallSizes(calls) \in Seq(Nat) /\ Len(CallSizes(calls)) = n + 1
      /\ CallSizes(calls') \in Seq(Nat) /\ Len(CallSizes(calls')) = n
  BY <1>1, <1>2, CallSizesAreNat
<1>4. CallSizes(calls)[1] = CallBytes[Head(calls)]
  BY <1>2 DEF CallSizes
<1>5. \A i \in 1..n : CallSizes(calls')[i] = CallSizes(calls)[i + 1]
  BY <1>1, <1>2 DEF CallSizes
<1>6. /\ Total(CallSizes(calls)) = CallSizes(calls)[1] + Total(CallSizes(calls'))
      /\ Total(CallSizes(calls')) \in Nat
  <2>1. PICK v \in Seq(Nat), w \in Seq(Nat) : v = CallSizes(calls) /\ w = CallSizes(calls')
    BY <1>3
  <2> QED BY <1>3, <1>5, <2>1, TotalLess
<1>7. CallBytes[Head(calls)] \in Nat
  BY SizesAssumption
<1> QED BY <1>1, <1>2, <1>4, <1>6, <1>7

LEMMA CountKept ==
  ASSUME CountInv, UNCHANGED <<eventVars, calls, callBytes>>
  PROVE  CountInv'
BY DEF CountInv, EventsAccounted, LimitsInv, eventVars

\* What the thread posts fits; a last event has no size.
LEMMA PushCounts ==
  ASSUME TypeInv, CountInv, NEW e \in Event, Push(e), UNCHANGED <<calls, callBytes>>,
         e.bytes <= MaxPayload - eventBytes,
         IsData(e) => e.bytes <= MaxDataPayload - dataBytes
  PROVE  CountInv'
<1>1. EventsAccounted'
  BY PushAccounts DEF TypeInv, CountInv
<1>2. eventBytes \in Nat /\ dataBytes \in Nat /\ e.bytes \in Nat
  BY CountersAreNat, EventFields DEF CountInv
<1>3. eventBytes' = eventBytes + e.bytes /\ (dataBytes' = dataBytes \/ (IsData(e) /\ dataBytes' = dataBytes + e.bytes))
  BY DEF Push, IsData
<1>4. LimitsInv'
  BY <1>2, <1>3, LimitsAssumption, SMTT(30) DEF CountInv, LimitsInv
<1> QED BY <1>1, <1>4 DEF CountInv

LEMMA PostDoneCounts ==
  ASSUME TypeInv, CountInv, NEW kind \in {"ReaderDone", "CallerDone"}, PostDone(kind),
         UNCHANGED <<calls, callBytes>>
  PROVE  CountInv'
<1>1. PICK e \in Event : e = NewEvent(kind, NoCall, 0)
  <2>1. kind \in Kinds
    BY DEF Kinds
  <2> QED BY <2>1, NewEventType
<1>2. e.bytes = 0 /\ ~IsData(e)
  BY <1>1 DEF NewEvent, IsData, DataKinds
<1>3. CASE DoneFits
  <2>1. e.bytes <= MaxPayload - eventBytes
    BY <1>2, CountersAreNat, LimitsAssumption DEF CountInv, LimitsInv
  <2> QED BY <1>1, <1>2, <1>3, <2>1, PushCounts DEF PostDone
<1>4. CASE ~DoneFits
  BY <1>4, CountKept DEF PostDone
<1> QED BY <1>3, <1>4

LEMMA InitCounts == Init => CountInv
<1> SUFFICES ASSUME Init PROVE CountInv
  OBVIOUS
<1>1. events = <<>> /\ calls = <<>>
  BY DEF Init
<1>2. /\ Sizes(<<>>) = <<>> /\ DataSizes(<<>>) = <<>> /\ DataMarks(<<>>) = <<>>
      /\ CallSizes(<<>>) = <<>>
  BY DEF Sizes, DataSizes, DataMarks, CallSizes
<1>3. EventsAccounted
  BY <1>1, <1>2, TotalOfNone DEF Init, EventsAccounted
<1>4. LimitsInv
  BY <1>1, <1>2, TotalOfNone, LimitsAssumption DEF Init, LimitsInv
<1> QED BY <1>3, <1>4 DEF CountInv

LEMMA NextKeepsCounts ==
  ASSUME TypeInv, FormInv, CountInv, [Next]_vars
  PROVE  CountInv'
<1>1. CASE ReaderInput
  <2>1. UNCHANGED <<eventVars, calls, callBytes>>
    BY <1>1 DEF ReaderInput, ReadCall, ReadCancellation, ReadOther, EndOfInput, callVars
  <2> QED BY <2>1, CountKept
<1>2. CASE PostFrame
  <2>1. CASE DataFits(frame)
    BY <1>2, <2>1, PushCounts DEF PostFrame, DataFits, TypeInv, callVars
  <2>2. CASE ~DataFits(frame)
    BY <1>2, <2>2, CountKept DEF PostFrame, callVars
  <2> QED BY <2>1, <2>2
<1>3. CASE PostReaderDone
  BY <1>3, PostDoneCounts DEF PostReaderDone, callVars
<1>4. CASE SessionTake
  <2>1. UNCHANGED <<calls, callBytes>>
    BY <1>4 DEF SessionTake, callVars
  <2>2. EventsAccounted' /\ eventBytes' <= eventBytes /\ dataBytes' <= dataBytes
    BY <1>4, TakeAccounts DEF CountInv
  <2>3. eventBytes \in Int /\ eventBytes' \in Int /\ dataBytes \in Int /\ dataBytes' \in Int
    <3>1. events' \in Seq(Event)
      BY <1>4 DEF TypeInv, SessionTake
    <3> QED BY <2>2, <3>1, CountersAreNat, TotalNat, SizesAreNat DEF CountInv, EventsAccounted
  <2>4. LimitsInv'
    BY <2>1, <2>2, <2>3, LimitsAssumption, SMTT(30) DEF CountInv, LimitsInv
  <2> QED BY <2>2, <2>4 DEF CountInv
<1>5. CASE SessionLine
  <2>1. UNCHANGED eventVars
    BY <1>5 DEF SessionLine
  <2>2. CASE UNCHANGED <<calls, callBytes>>
    BY <2>1, <2>2, CountKept
  <2>3. CASE event.call # NoCall /\ SessionQueuesCall(event.call)
    <3>1. PICK c \in Calls : c = event.call
      BY <2>3, EventFields DEF TypeInv
    <3>2. /\ Len(calls) < MaxItems /\ CallBytes[c] <= MaxPayload - callBytes
          /\ calls' = Append(calls, c) /\ callBytes' = callBytes + CallBytes[c]
      BY <2>3, <3>1 DEF SessionQueuesCall
    <3>3. callBytes' = Total(CallSizes(calls')) /\ Len(calls') = Len(calls) + 1
      BY <3>2, CallPushed DEF TypeInv, CountInv, LimitsInv
    <3>4. callBytes \in Nat /\ CallBytes[c] \in Nat /\ Len(calls) \in Nat
      BY CountersAreNat, SizesAssumption DEF CountInv, TypeInv
    <3>5. callBytes' <= MaxPayload /\ Len(calls') <= MaxItems
      <4>1. MaxPayload \in Nat /\ MaxItems \in Nat
        BY LimitsAssumption
      <4> QED BY <3>2, <3>3, <3>4, <4>1
    <3>6. LimitsInv'
      BY <2>1, <3>3, <3>5 DEF CountInv, LimitsInv, eventVars
    <3> QED BY <2>1, <3>6 DEF CountInv, EventsAccounted, eventVars
  <2> QED BY <1>5, <2>2, <2>3 DEF SessionLine
<1>6. CASE \/ SessionOversized \/ SessionToolCallDone \/ SessionReaderDone \/ SessionCallerDone
  <2>1. UNCHANGED <<eventVars, calls, callBytes>>
    BY <1>6 DEF SessionOversized, SessionToolCallDone, SessionReaderDone, SessionCallerDone,
       callVars
  <2> QED BY <2>1, CountKept
<1>7. CASE CallerTake
  <2>1. /\ calls # <<>> /\ calls' = Tail(calls) /\ callBytes' = callBytes - CallBytes[Head(calls)]
        /\ UNCHANGED eventVars
    BY <1>7 DEF CallerTake
  <2>2. /\ callBytes' = Total(CallSizes(calls')) /\ callBytes' <= callBytes
        /\ Len(calls') <= Len(calls)
    BY <2>1, CallTaken DEF TypeInv, CountInv, LimitsInv
  <2>3. callBytes \in Int /\ callBytes' \in Int /\ Len(calls) \in Nat /\ Len(calls') \in Nat
    <3>1. calls' \in Seq(Calls)
      BY <2>1 DEF TypeInv
    <3> QED BY <2>2, <3>1, CountersAreNat, TotalNat, CallSizesAreNat DEF CountInv, TypeInv
  <2>4. LimitsInv'
    BY <2>1, <2>2, <2>3, LimitsAssumption, SMTT(30) DEF CountInv, LimitsInv, eventVars
  <2> QED BY <2>1, <2>4 DEF CountInv, EventsAccounted, eventVars
<1>8. CASE CallerCall \/ CallerLeave
  <2>1. UNCHANGED <<eventVars, calls, callBytes>>
    BY <1>8 DEF CallerCall, CallerLeave, callVars
  <2> QED BY <2>1, CountKept
<1>9. CASE CallerPost
  <2>1. ~IsData(done)
    BY <1>9 DEF CallerPost, FormInv, IsData, DataKinds
  <2> QED BY <1>9, <2>1, PushCounts DEF CallerPost, CompletionFits, TypeInv, callVars
<1>10. CASE PostCallerDone
  BY <1>10, PostDoneCounts DEF PostCallerDone, callVars
<1>11. CASE UNCHANGED vars
  BY <1>11, CountKept DEF vars, eventVars, callVars
<1> QED
  BY <1>1, <1>2, <1>3, <1>4, <1>5, <1>6, <1>7, <1>8, <1>9, <1>10, <1>11
     DEF Next, Returned, ReaderStep, SessionStep, CallerStep

-----------------------------------------------------------------------------
(* The events keep their form *)

LEMMA InitForm == Init => FormInv
BY DEF Init, FormInv, Formed, NoEvent, NewEvent, DataKinds

\* An event that is appended to the queue, and the others in it.
LEMMA PushForm ==
  ASSUME TypeInv, FormInv, NEW e \in Event, Push(e), Formed(e), UNCHANGED pending
  PROVE  \A i \in 1..Len(events') : Formed(events[i])'
<1>1. /\ Len(events') = Len(events) + 1 /\ Len(events) \in Nat
      /\ \A i \in 1..Len(events) : events'[i] = events[i]
      /\ events'[Len(events) + 1] = e
  BY EventAppended DEF TypeInv
<1>2. ASSUME NEW i \in 1..Len(events') PROVE Formed(events[i])'
  <2>1. CASE i = Len(events) + 1
    BY <1>1, <2>1 DEF Formed
  <2>2. CASE i # Len(events) + 1
    <3>1. i \in 1..Len(events) /\ events'[i] = events[i]
      BY <1>1, <2>2
    <3> QED BY <3>1 DEF FormInv, Formed
  <2> QED BY <2>1, <2>2
<1> QED BY <1>2

LEMMA PostDoneForm ==
  ASSUME TypeInv, FormInv, NEW kind \in {"ReaderDone", "CallerDone"}, PostDone(kind),
         UNCHANGED pending
  PROVE  \A i \in 1..Len(events') : Formed(events[i])'
<1>1. CASE DoneFits
  <2>1. PICK e \in Event : e = NewEvent(kind, NoCall, 0)
    BY NewEventType DEF Kinds
  <2>2. Formed(e)
    BY <2>1 DEF NewEvent, Formed
  <2> QED BY <1>1, <2>1, <2>2, PushForm DEF PostDone
<1>2. CASE ~DoneFits
  BY <1>2 DEF PostDone, eventVars, FormInv, Formed
<1> QED BY <1>1, <1>2

LEMMA ReaderKeepsForm ==
  ASSUME TypeInv, HandsInv, FormInv, ReaderInput \/ ReaderStep
  PROVE  FormInv'
<1>1. UNCHANGED <<pending, spc, event, calls, cpc, task, done>>
  BY DEF ReaderInput, ReadCall, ReadCancellation, ReadOther, EndOfInput, ReaderStep, PostFrame,
         PostReaderDone, sessionVars, callVars, callerVars
<1>2. Formed(frame)' /\ frame'.kind \in DataKinds
  BY <1>1 DEF FormInv, Formed, ReaderInput, ReadCall, ReadCancellation, ReadOther, EndOfInput,
         ReaderStep, PostFrame, PostReaderDone, NewEvent, NoEvent, DataKinds
<1>3. \A i \in 1..Len(events') : Formed(events[i])'
  <2>1. CASE UNCHANGED events
    BY <1>1, <2>1 DEF FormInv, Formed
  <2>2. CASE Push(frame)
    BY <1>1, <2>2, PushForm DEF TypeInv, FormInv
  <2>3. CASE PostReaderDone
    BY <1>1, <2>3, PostDoneForm DEF PostReaderDone
  <2> QED
    BY <2>1, <2>2, <2>3 DEF ReaderInput, ReadCall, ReadCancellation, ReadOther, EndOfInput,
       ReaderStep, PostFrame, eventVars
<1> QED BY <1>1, <1>2, <1>3 DEF FormInv, Formed

LEMMA CallerKeepsForm ==
  ASSUME TypeInv, HandsInv, FormInv, CallerStep
  PROVE  FormInv'
<1>1. UNCHANGED <<pending, spc, event, frame>>
  BY DEF CallerStep, CallerTake, CallerCall, CallerPost, CallerLeave, PostCallerDone,
         sessionVars, readerVars
<1>2. \A i \in 1..Len(events') : Formed(events[i])'
  <2>1. CASE UNCHANGED events
    BY <1>1, <2>1 DEF FormInv, Formed
  <2>2. CASE CallerPost
    <3>1. Formed(done)
      BY <2>2 DEF CallerPost, FormInv, Formed
    <3> QED BY <1>1, <2>2, <3>1, PushForm DEF CallerPost, TypeInv
  <2>3. CASE PostCallerDone
    BY <1>1, <2>3, PostDoneForm DEF PostCallerDone
  <2> QED
    BY <2>1, <2>2, <2>3 DEF CallerStep, CallerTake, CallerCall, CallerLeave, eventVars
<1>3. CASE CallerTake
  <2>1. /\ task' = calls[1] /\ Len(calls) \in Nat /\ Len(calls) >= 1
        /\ \A i \in 1..Len(calls') : i + 1 \in 1..Len(calls) /\ calls'[i] = calls[i + 1]
        /\ cpc' = "call"
    BY <1>3 DEF TypeInv, CallerTake
  <2>2. 1 \in 1..Len(calls)
    BY <2>1
  <2>3. task' \in pending /\ \A i \in 1..Len(calls') : calls'[i] \in pending
    BY <2>1, <2>2 DEF FormInv
  <2> QED BY <1>1, <1>2, <2>1, <2>3 DEF FormInv, Formed
<1>4. CASE CallerCall
  BY <1>1, <1>2, <1>4 DEF FormInv, Formed, CallerCall, NewEvent, callVars
<1>5. CASE CallerPost \/ CallerLeave \/ PostCallerDone
  BY <1>1, <1>2, <1>5 DEF FormInv, Formed, CallerPost, CallerLeave, PostCallerDone, callVars
<1> QED BY <1>3, <1>4, <1>5 DEF CallerStep

LEMMA SessionKeepsForm ==
  ASSUME Inv, FormInv, SessionStep
  PROVE  FormInv'
<1>1. UNCHANGED <<frame, cpc, task, done>>
  BY DEF SessionStep, SessionTake, SessionLine, SessionOversized, SessionToolCallDone,
         SessionReaderDone, SessionCallerDone, readerVars, callerVars
<1>2. CASE SessionTake
  <2>1. /\ Len(events) \in Nat /\ Len(events) >= 1 /\ event' = events[1] /\ spc' = event'.kind
        /\ \A i \in 1..Len(events') : i + 1 \in 1..Len(events) /\ events'[i] = events[i + 1]
        /\ UNCHANGED <<pending, calls>>
    BY <1>2 DEF Inv, TypeInv, SessionTake, callVars
  <2>2. 1 \in 1..Len(events)
    BY <2>1
  <2>3. Formed(event)' /\ \A i \in 1..Len(events') : Formed(events[i])'
    BY <2>1, <2>2 DEF FormInv, Formed
  <2> QED BY <1>1, <2>1, <2>3 DEF FormInv, Formed
<1>3. CASE ~SessionTake
  <2>1. spc' \in {"take", "end"} /\ UNCHANGED events
    BY <1>3 DEF SessionStep, SessionLine, SessionOversized, SessionToolCallDone,
       SessionReaderDone, SessionCallerDone, Turn, eventVars
  <2>2. CASE SessionLine
    <3>1. \/ pending' = pending /\ calls' = calls
          \/ pending' = pending \cup {event.call} /\ calls' = Append(calls, event.call)
      BY <2>2 DEF SessionLine, SessionQueuesCall
    <3>2. \A i \in 1..Len(calls') : calls'[i] \in pending'
      <4>1. CASE pending' = pending /\ calls' = calls
        BY <4>1 DEF FormInv
      <4>2. CASE pending' = pending \cup {event.call} /\ calls' = Append(calls, event.call)
        <5>1. ASSUME NEW i \in 1..Len(calls')
              PROVE  calls'[i] = event.call \/ (i \in 1..Len(calls) /\ calls'[i] = calls[i])
          BY <4>2 DEF Inv, TypeInv
        <5> QED BY <4>2, <5>1 DEF FormInv
      <4> QED BY <3>1, <4>1, <4>2
    <3>3. pending \subseteq pending'
      BY <3>1
    <3> QED BY <1>1, <2>1, <3>2, <3>3 DEF FormInv, Formed
  <2>3. CASE SessionToolCallDone /\ event.call \in pending
    <3>1. pending' = pending \ {event.call} /\ UNCHANGED calls /\ event.call # NoCall
      BY <2>3, SizesAssumption DEF SessionToolCallDone, Inv, TypeInv, callVars
    <3>2. ASSUME NEW i \in 1..Len(events) PROVE Formed(events[i])'
      BY <2>1, <3>1, SizesAssumption DEF Inv, TypeInv, FormInv, Formed, PlacesInv, HandCalls
    <3>3. \A i \in 1..Len(calls) : calls[i] \in pending'
      BY <3>1 DEF FormInv, Inv, PlacesInv, HandCalls
    <3>4. event.call \notin {task, done.call}
      BY <3>1 DEF Inv, PlacesInv
    <3>5. frame.kind # "ToolCallDone"
      BY DEF FormInv, DataKinds
    <3> QED BY <1>1, <2>1, <3>1, <3>2, <3>3, <3>4, <3>5 DEF FormInv, Formed
  <2>4. CASE \/ SessionToolCallDone /\ event.call \notin pending
             \/ SessionOversized \/ SessionReaderDone \/ SessionCallerDone
    <3>1. UNCHANGED <<pending, calls>>
      BY <2>4 DEF SessionToolCallDone, SessionOversized, SessionReaderDone, SessionCallerDone,
         callVars
    <3> QED BY <1>1, <2>1, <3>1 DEF FormInv, Formed
  <2> QED BY <1>3, <2>2, <2>3, <2>4 DEF SessionStep
<1> QED BY <1>2, <1>3

LEMMA NextKeepsForm ==
  ASSUME Inv, FormInv, [Next]_vars
  PROVE  FormInv'
<1>1. CASE UNCHANGED vars
  BY <1>1 DEF vars, readerVars, eventVars, sessionVars, callVars, callerVars, FormInv, Formed
<1> QED
  BY <1>1, ReaderKeepsForm, SessionKeepsForm, CallerKeepsForm DEF Next, Returned, Inv

-----------------------------------------------------------------------------
(* The tokens go with the calls, and a call that has left was answered *)

TokenInv == \A c \in Calls : c \in tracked <=> Somewhere(c)
AnsweredInv == \A c \in read : Somewhere(c) \/ Len(replies[c]) = 1 \/ c \in cancelled
CallInv == TokenInv /\ AnsweredInv

\* No call comes or goes.
NoneLeaves ==
  /\ \A c \in Calls : Somewhere(c)' <=> Somewhere(c)
  /\ UNCHANGED <<tracked, read, replies>> /\ cancelled \subseteq cancelled'
\* Only x goes, with its token, and it is answered unless it was cancelled.
Leaves(x) ==
  /\ x \in Calls /\ Somewhere(x) /\ ~Somewhere(x)'
  /\ \A c \in Calls : c # x => (Somewhere(c)' <=> Somewhere(c))
  /\ tracked' = tracked \ {x} /\ UNCHANGED <<read, cancelled>>
  /\ \/ x \in cancelled /\ UNCHANGED replies
     \/ \E k \in ReplyKinds : Reply(x, k)

LEMMA LeavingKeeps ==
  ASSUME Inv, CallInv, NoneLeaves \/ \E x \in Calls : Leaves(x)
  PROVE  CallInv'
<1>1. CASE NoneLeaves
  BY <1>1 DEF NoneLeaves, CallInv, TokenInv, AnsweredInv, Inv, TypeInv
<1>2. ASSUME NEW x \in Calls, Leaves(x) PROVE CallInv'
  <2>1. TokenInv'
    BY <1>2 DEF Leaves, CallInv, TokenInv
  <2>2. \A c \in Calls : c # x => replies'[c] = replies[c]
    BY <1>2, ReplyOthers DEF Leaves, Inv, TypeInv
  <2>3. x \in cancelled \/ Len(replies'[x]) = 1
    <3>1. ASSUME NEW k \in ReplyKinds, Reply(x, k) PROVE Len(replies'[x]) = 1
      <4>1. replies[x] = <<>>
        BY <1>2 DEF Leaves, Inv, OpenInv
      <4>2. replies'[x] = Append(<<>>, k)
        BY <3>1, <4>1 DEF Reply, Inv, TypeInv
      <4> QED BY <4>2
    <3> QED BY <1>2, <3>1 DEF Leaves
  <2>4. AnsweredInv'
    BY <1>2, <2>2, <2>3 DEF Leaves, CallInv, AnsweredInv, Inv, TypeInv
  <2> QED BY <2>1, <2>4 DEF CallInv
<1> QED BY <1>1, <1>2

LEMMA InitCalls == Init => CallInv
<1> SUFFICES ASSUME Init PROVE CallInv
  OBVIOUS
<1>1. Len(events) = 0 /\ Len(calls) = 0 /\ HandCalls = {NoCall}
  BY NoEventType DEF Init, HandCalls
<1>2. \A c \in Calls : ~Somewhere(c)
  BY <1>1, SizesAssumption DEF Somewhere
<1> QED BY <1>2 DEF Init, CallInv, TokenInv, AnsweredInv

LEMMA ReadCallTokens ==
  ASSUME Inv, CallInv, NEW c \in Calls, ReadCall(c)
  PROVE  CallInv'
<1>1. UNCHANGED <<events, calls, event, task, done, cancelled>> /\ frame.call = NoCall
  BY DEF ReadCall, eventVars, sessionVars, callVars, callerVars, Inv, HandsInv
<1>2. ~Somewhere(c) /\ c \notin tracked /\ replies[c] = <<>> /\ c # NoCall
  BY SizesAssumption DEF Inv, OpenInv, ReadCall, CallInv, TokenInv
<1>3. CASE tracked' = tracked \cup {c} /\ frame'.call = c /\ UNCHANGED replies
  <2>1. \A d \in Calls : Somewhere(d)' <=> (d = c \/ Somewhere(d))
    BY <1>1, <1>3, SizesAssumption DEF Somewhere, HandCalls
  <2>2. TokenInv'
    BY <1>3, <2>1 DEF CallInv, TokenInv
  <2>3. AnsweredInv'
    BY <1>1, <1>3, <2>1 DEF ReadCall, CallInv, AnsweredInv, Inv, TypeInv
  <2> QED BY <2>2, <2>3 DEF CallInv
<1>4. CASE UNCHANGED <<tracked, frame>> /\ Reply(c, "Overloaded")
  <2>1. \A d \in Calls : Somewhere(d)' <=> Somewhere(d)
    BY <1>1, <1>4 DEF Somewhere, HandCalls
  <2>2. Len(replies'[c]) = 1
    <3>1. replies'[c] = Append(<<>>, "Overloaded")
      BY <1>2, <1>4 DEF Reply, Inv, TypeInv
    <3> QED BY <3>1
  <2>3. \A d \in Calls : d # c => replies'[d] = replies[d]
    BY <1>4, ReplyOthers DEF Inv, TypeInv
  <2> QED BY <1>1, <1>4, <2>1, <2>2, <2>3 DEF ReadCall, CallInv, TokenInv, AnsweredInv, Inv, TypeInv
<1> QED BY <1>3, <1>4 DEF ReadCall, NewEvent

\* A call that a hand puts into the queue is still somewhere.
LEMMA PushedIsSomewhere ==
  ASSUME Inv, NEW e \in Event, Push(e), UNCHANGED <<calls, event, task>>,
         \/ e = frame /\ frame'.call = NoCall /\ UNCHANGED done
         \/ e = done /\ done'.call = NoCall /\ UNCHANGED frame
         \/ e.call = NoCall /\ UNCHANGED <<frame, done>>
  PROVE  \A c \in Calls : Somewhere(c)' <=> Somewhere(c)
<1>1. /\ Len(events') = Len(events) + 1 /\ Len(events) \in Nat
      /\ \A i \in 1..Len(events) : events'[i] = events[i]
      /\ events'[Len(events) + 1] = e
  BY EventAppended DEF Inv, TypeInv
<1>2. \A c \in Calls :
        (\E i \in 1..Len(events') : events'[i].call = c)
          <=> (c = e.call \/ \E i \in 1..Len(events) : events[i].call = c)
  <2>1. ASSUME NEW c \in Calls, NEW i \in 1..Len(events'), events'[i].call = c
        PROVE  c = e.call \/ \E j \in 1..Len(events) : events[j].call = c
    <3>1. i = Len(events) + 1 \/ i \in 1..Len(events)
      BY <1>1
    <3> QED BY <1>1, <2>1, <3>1
  <2>2. Len(events) + 1 \in 1..Len(events')
    BY <1>1
  <2>3. \A i \in 1..Len(events) : i \in 1..Len(events')
    BY <1>1
  <2> QED BY <1>1, <2>1, <2>2, <2>3
<1> QED BY <1>2, SizesAssumption DEF Somewhere, HandCalls

LEMMA PostDoneTokens ==
  ASSUME Inv, NEW kind \in {"ReaderDone", "CallerDone"}, PostDone(kind),
         UNCHANGED <<calls, event, task, frame, done, tracked, cancelled, read, replies>>
  PROVE  NoneLeaves
<1>1. CASE DoneFits
  <2>1. PICK e \in Event : e = NewEvent(kind, NoCall, 0)
    BY NewEventType DEF Kinds
  <2>2. Push(e) /\ e.call = NoCall
    BY <1>1, <2>1 DEF NewEvent, PostDone
  <2> QED BY <2>2, PushedIsSomewhere DEF NoneLeaves
<1>2. CASE ~DoneFits
  BY <1>2 DEF PostDone, eventVars, NoneLeaves, Somewhere, HandCalls
<1> QED BY <1>1, <1>2

\* The steps that leave each call where it is.
LEMMA StillTokens ==
  ASSUME UNCHANGED <<events, calls, read, replies, tracked>>, cancelled \subseteq cancelled',
         frame'.call = frame.call, event'.call = event.call,
         UNCHANGED task, done'.call = done.call
  PROVE  NoneLeaves
BY DEF NoneLeaves, Somewhere, HandCalls

LEMMA PostFrameTokens ==
  ASSUME Inv, PostFrame
  PROVE  NoneLeaves \/ \E x \in Calls : Leaves(x)
<1>1. UNCHANGED <<calls, event, task, done, read, cancelled>> /\ frame'.call = NoCall
  BY NoEventType DEF PostFrame, callVars, sessionVars, callerVars
<1>2. CASE DataFits(frame)
  <2>1. frame \in Event /\ Push(frame) /\ UNCHANGED <<tracked, replies>>
    BY <1>2 DEF PostFrame, Inv, TypeInv
  <2>2. \A c \in Calls : Somewhere(c)' <=> Somewhere(c)
    BY <1>1, <2>1, PushedIsSomewhere
  <2> QED BY <1>1, <2>1, <2>2 DEF NoneLeaves
<1>3. CASE ~DataFits(frame) /\ frame.call = NoCall
  <2>1. UNCHANGED <<events, replies, tracked>>
    BY <1>3, SizesAssumption, ZenonT(30) DEF PostFrame, eventVars, Inv, TypeInv
  <2> QED BY <1>1, <1>3, <2>1, StillTokens
<1>4. CASE ~DataFits(frame) /\ frame.call # NoCall
  <2>1. PICK x \in Calls : x = frame.call
    BY <1>4, EventFields DEF Inv, TypeInv
  <2>2. UNCHANGED events /\ tracked' = tracked \ {x} /\ Reply(x, "Overloaded")
    BY <1>4, <2>1 DEF PostFrame, eventVars
  <2>3. Somewhere(x) /\ ~Somewhere(x)'
    BY <1>1, <1>4, <2>1, <2>2 DEF Inv, PlacesInv, Somewhere, HandCalls
  <2>4. \A c \in Calls : c # x => (Somewhere(c)' <=> Somewhere(c))
    BY <1>1, <2>1, <2>2, SizesAssumption DEF Somewhere, HandCalls
  <2> QED BY <1>1, <2>1, <2>2, <2>3, <2>4 DEF Leaves, ReplyKinds
<1> QED BY <1>2, <1>3, <1>4

LEMMA SessionTakeTokens ==
  ASSUME Inv, SessionTake
  PROVE  NoneLeaves
<1>1. /\ event.call = NoCall /\ Len(events) \in Nat /\ Len(events) >= 1
      /\ event' = events[1] /\ Len(events') = Len(events) - 1
      /\ \A i \in 1..Len(events') : i + 1 \in 1..Len(events) /\ events'[i] = events[i + 1]
  BY DEF Inv, TypeInv, HandsInv, SessionTake
<1>2. UNCHANGED <<calls, frame, task, done, read, replies, tracked, cancelled>>
  BY DEF SessionTake, readerVars, callVars, callerVars, historyVars, tokenVars
<1>3. \A c \in Calls :
        (\E i \in 1..Len(events) : events[i].call = c)
          <=> (c = event'.call \/ \E i \in 1..Len(events') : events'[i].call = c)
  <2>1. ASSUME NEW c \in Calls, NEW i \in 1..Len(events), events[i].call = c
        PROVE  c = event'.call \/ \E j \in 1..Len(events') : events'[j].call = c
    <3>1. CASE i = 1
      BY <1>1, <2>1, <3>1
    <3>2. CASE i # 1
      <4>1. PICK j \in 1..Len(events') : j + 1 = i
        <5>1. i - 1 \in 1..Len(events') /\ (i - 1) + 1 = i
          BY <1>1, <3>2
        <5> QED BY <5>1
      <4> QED BY <1>1, <2>1, <4>1
    <3> QED BY <3>1, <3>2
  <2>2. 1 \in 1..Len(events)
    BY <1>1
  <2> QED BY <1>1, <2>1, <2>2
<1> QED BY <1>1, <1>2, <1>3, SizesAssumption DEF NoneLeaves, Somewhere, HandCalls

\* The session thread drops its event: with a call in it, the call leaves.
LEMMA SessionDropTokens ==
  ASSUME Inv, UNCHANGED <<events, calls, frame, task, done, read, cancelled>>,
         event'.call = NoCall,
         \/ event.call = NoCall /\ UNCHANGED <<tracked, replies>>
         \/ /\ event.call # NoCall /\ tracked' = tracked \ {event.call}
            /\ \E k \in ReplyKinds : ReplyUnlessCancelled(event.call, k)
  PROVE  NoneLeaves \/ \E x \in Calls : Leaves(x)
<1>1. CASE event.call = NoCall
  BY <1>1, StillTokens
<1>2. CASE event.call # NoCall
  <2>1. PICK x \in Calls : x = event.call
    BY <1>2, EventFields DEF Inv, TypeInv
  <2>2. Somewhere(x) /\ ~Somewhere(x)'
    BY <1>2, <2>1 DEF Inv, PlacesInv, Somewhere, HandCalls
  <2>3. \A c \in Calls : c # x => (Somewhere(c)' <=> Somewhere(c))
    BY <2>1, SizesAssumption DEF Somewhere, HandCalls
  <2> QED BY <1>2, <2>1, <2>2, <2>3 DEF Leaves, ReplyUnlessCancelled
<1> QED BY <1>1, <1>2

LEMMA SessionLineTokens ==
  ASSUME Inv, SessionLine
  PROVE  NoneLeaves \/ \E x \in Calls : Leaves(x)
<1>1. UNCHANGED <<events, frame, task, done, read, cancelled>> /\ event'.call = NoCall
  BY NoEventType DEF SessionLine, Turn, readerVars, eventVars, callerVars
<1>2. CASE event.call # NoCall /\ SessionQueuesCall(event.call) /\ UNCHANGED tracked
  <2>1. PICK x \in Calls : x = event.call
    BY <1>2, EventFields DEF Inv, TypeInv
  <2>2. calls' = Append(calls, x) /\ UNCHANGED replies
    BY <1>2, <2>1 DEF SessionQueuesCall
  <2>3. /\ Len(calls') = Len(calls) + 1 /\ Len(calls) \in Nat
        /\ \A i \in 1..Len(calls) : calls'[i] = calls[i]
        /\ calls'[Len(calls) + 1] = x
    BY <2>2 DEF Inv, TypeInv
  <2>4. \A c \in Calls : (\E i \in 1..Len(calls') : calls'[i] = c)
                           <=> (c = x \/ \E i \in 1..Len(calls) : calls[i] = c)
    <3>1. ASSUME NEW c \in Calls, NEW i \in 1..Len(calls'), calls'[i] = c
          PROVE  c = x \/ \E j \in 1..Len(calls) : calls[j] = c
      <4>1. i = Len(calls) + 1 \/ i \in 1..Len(calls)
        BY <2>3
      <4> QED BY <2>3, <3>1, <4>1
    <3>2. Len(calls) + 1 \in 1..Len(calls') /\ \A i \in 1..Len(calls) : i \in 1..Len(calls')
      BY <2>3
    <3> QED BY <2>3, <3>1, <3>2
  <2>5. \A c \in Calls : Somewhere(c)' <=> Somewhere(c)
    BY <1>1, <2>1, <2>4, SizesAssumption DEF Somewhere, HandCalls
  <2> QED BY <1>1, <1>2, <2>2, <2>5 DEF NoneLeaves
<1>3. CASE /\ UNCHANGED calls
           /\ \/ event.call = NoCall /\ UNCHANGED <<tracked, replies>>
              \/ /\ event.call # NoCall /\ tracked' = tracked \ {event.call}
                 /\ \E k \in ReplyKinds : ReplyUnlessCancelled(event.call, k)
  BY <1>1, <1>3, SessionDropTokens
<1>4. "Refused" \in ReplyKinds /\ "Overloaded" \in ReplyKinds
  BY DEF ReplyKinds
<1>5. \/ event.call # NoCall /\ SessionQueuesCall(event.call) /\ UNCHANGED tracked
      \/ /\ UNCHANGED calls
         /\ \/ event.call = NoCall /\ UNCHANGED <<tracked, replies>>
            \/ /\ event.call # NoCall /\ tracked' = tracked \ {event.call}
               /\ \E k \in ReplyKinds : ReplyUnlessCancelled(event.call, k)
  BY <1>4 DEF SessionLine, Untrack
<1> QED BY <1>2, <1>3, <1>5

LEMMA SessionOtherTokens ==
  ASSUME Inv, FormInv,
         SessionToolCallDone \/ SessionOversized \/ SessionReaderDone \/ SessionCallerDone
  PROVE  NoneLeaves \/ \E x \in Calls : Leaves(x)
<1>1. UNCHANGED <<events, calls, frame, task, done, read, cancelled>> /\ event'.call = NoCall
  BY NoEventType
     DEF SessionToolCallDone, SessionOversized, SessionReaderDone, SessionCallerDone, Turn,
         readerVars, eventVars, callVars, callerVars, historyVars, tokenVars
<1>2. CASE SessionToolCallDone
  <2>1. event.call \in pending /\ event.call # NoCall
    BY <1>2, SizesAssumption DEF SessionToolCallDone, FormInv, Formed, Inv, TypeInv
  <2>2. tracked' = tracked \ {event.call} /\ ReplyUnlessCancelled(event.call, "Result")
    BY <1>2, <2>1 DEF SessionToolCallDone, Untrack
  <2>3. "Result" \in ReplyKinds
    BY DEF ReplyKinds
  <2> QED BY <1>1, <2>1, <2>2, <2>3, SessionDropTokens
<1>3. CASE SessionOversized \/ SessionReaderDone \/ SessionCallerDone
  <2>1. event.call = NoCall
    BY <1>3 DEF SessionOversized, SessionReaderDone, SessionCallerDone, FormInv, Formed
  <2>2. UNCHANGED <<tracked, replies>>
    BY <1>3 DEF SessionOversized, SessionReaderDone, SessionCallerDone, tokenVars, historyVars
  <2> QED BY <1>1, <2>1, <2>2, SessionDropTokens
<1> QED BY <1>2, <1>3

LEMMA CallerTakeTokens ==
  ASSUME Inv, CallerTake
  PROVE  NoneLeaves
<1>1. /\ task = NoCall /\ Len(calls) \in Nat /\ Len(calls) >= 1 /\ Len(calls') = Len(calls) - 1
      /\ task' = calls[1]
      /\ \A i \in 1..Len(calls') : i + 1 \in 1..Len(calls) /\ calls'[i] = calls[i + 1]
  BY DEF Inv, TypeInv, HandsInv, CallerTake
<1>2. UNCHANGED <<events, frame, event, done, read, replies, tracked, cancelled>>
  BY DEF CallerTake, readerVars, eventVars, sessionVars, historyVars, tokenVars
<1>3. \A c \in Calls : (\E i \in 1..Len(calls) : calls[i] = c)
                         <=> (c = task' \/ \E i \in 1..Len(calls') : calls'[i] = c)
  <2>1. ASSUME NEW c \in Calls, NEW i \in 1..Len(calls), calls[i] = c
        PROVE  c = task' \/ \E j \in 1..Len(calls') : calls'[j] = c
    <3>1. CASE i = 1
      BY <1>1, <2>1, <3>1
    <3>2. CASE i # 1
      <4>1. PICK j \in 1..Len(calls') : j + 1 = i
        <5>1. i - 1 \in 1..Len(calls') /\ (i - 1) + 1 = i
          BY <1>1, <3>2
        <5> QED BY <5>1
      <4> QED BY <1>1, <2>1, <4>1
    <3> QED BY <3>1, <3>2
  <2>2. 1 \in 1..Len(calls)
    BY <1>1
  <2> QED BY <1>1, <2>1, <2>2
<1> QED BY <1>1, <1>2, <1>3, SizesAssumption DEF NoneLeaves, Somewhere, HandCalls

LEMMA CallerOtherTokens ==
  ASSUME Inv, CallerCall \/ CallerPost \/ CallerLeave
  PROVE  NoneLeaves
<1>1. CASE CallerCall
  BY <1>1 DEF CallerCall, NewEvent, Inv, HandsInv, NoneLeaves, Somewhere, HandCalls,
     readerVars, eventVars, tokenVars, sessionVars, callVars, historyVars
<1>2. CASE CallerPost
  <2>1. /\ Push(done) /\ done \in Event /\ done'.call = NoCall
        /\ UNCHANGED <<calls, event, task, frame, tracked, cancelled, read, replies>>
    BY <1>2, NoEventType DEF CallerPost, Inv, TypeInv,
       readerVars, tokenVars, sessionVars, callVars, historyVars
  <2> QED BY <2>1, PushedIsSomewhere DEF NoneLeaves
<1>3. CASE CallerLeave
  BY <1>3, StillTokens DEF CallerLeave, readerVars, eventVars, tokenVars, sessionVars, callVars,
     historyVars
<1> QED BY <1>1, <1>2, <1>3

LEMMA NextKeepsCalls ==
  ASSUME Inv, FormInv, CallInv, [Next]_vars
  PROVE  CallInv'
<1>1. ASSUME NEW c \in Calls, ReadCall(c) PROVE CallInv'
  BY <1>1, ReadCallTokens
<1>2. CASE \/ EndOfInput \/ UNCHANGED vars
           \/ \E c \in Calls : ReadCancellation(c)
           \/ \E kind \in DataKinds : ReadOther(kind)
  <2>1. /\ UNCHANGED <<events, calls, read, replies, tracked, task>>
        /\ cancelled \subseteq cancelled'
        /\ frame'.call = frame.call /\ event'.call = event.call /\ done'.call = done.call
    BY <1>2 DEF Inv, HandsInv, EndOfInput, ReadCancellation, ReadOther, NewEvent, vars,
       readerVars, eventVars, sessionVars, callVars, callerVars, historyVars, tokenVars
  <2> QED BY <2>1, StillTokens, LeavingKeeps
<1>3. CASE PostReaderDone
  BY <1>3, PostDoneTokens, LeavingKeeps
     DEF PostReaderDone, tokenVars, sessionVars, callVars, callerVars, historyVars
<1>4. CASE PostCallerDone
  BY <1>4, PostDoneTokens, LeavingKeeps
     DEF PostCallerDone, readerVars, tokenVars, sessionVars, callVars, historyVars
<1>5. CASE PostFrame
  BY <1>5, PostFrameTokens, LeavingKeeps
<1>6. CASE SessionStep
  BY <1>6, SessionTakeTokens, SessionLineTokens, SessionOtherTokens, LeavingKeeps DEF SessionStep
<1>7. CASE CallerTake \/ CallerCall \/ CallerPost \/ CallerLeave
  BY <1>7, CallerTakeTokens, CallerOtherTokens, LeavingKeeps
<1> QED
  BY <1>1, <1>2, <1>3, <1>4, <1>5, <1>6, <1>7
     DEF Next, Returned, ReaderInput, ReaderStep, CallerStep

-----------------------------------------------------------------------------
(* What comes last: nothing follows the event that says a thread is done *)

\* The reader's last event is the last of its events.
ReaderEnd ==
  /\ finishCalls => readerDone
  /\ readerDone => spc \notin DataKinds
  /\ readerDone \/ spc = "ReaderDone" =>
       rpc = "end" /\ \A i \in 1..Len(events) : events[i].kind \notin DataKinds
  /\ \A i \in 1..Len(events) : events[i].kind = "ReaderDone" =>
       rpc = "end" /\ \A j \in 1..Len(events) : events[j].kind \in DataKinds => j < i
\* So is the caller's, which leaves an empty queue of calls behind.
CallerEnd ==
  /\ cpc \in {"last", "end"} => calls = <<>> /\ finishCalls
  /\ callerDone \/ spc = "CallerDone" =>
       cpc = "end" /\ \A i \in 1..Len(events) : events[i].kind # "ToolCallDone"
  /\ \A i \in 1..Len(events) : events[i].kind = "CallerDone" =>
       cpc = "end" /\ \A j \in 1..Len(events) : events[j].kind = "ToolCallDone" => j < i
EndInv ==
  /\ spc = "end" => readerDone /\ callerDone
  /\ ReaderEnd /\ CallerEnd

LEMMA InitEnd == Init => EndInv
<1> SUFFICES ASSUME Init PROVE EndInv
  OBVIOUS
<1>1. Len(events) = 0
  BY DEF Init
<1> QED BY <1>1 DEF Init, EndInv, ReaderEnd, CallerEnd, DataKinds

\* What a thread appends is its own.
LEMMA PushEnd ==
  ASSUME TypeInv, EndInv, NEW e \in Event, Push(e),
         UNCHANGED <<spc, readerDone, callerDone, finishCalls, calls>>,
         \/ /\ rpc = "post" /\ e.kind \in DataKinds /\ UNCHANGED cpc
         \/ /\ rpc = "eof" /\ rpc' = "end" /\ e.kind = "ReaderDone" /\ UNCHANGED cpc
         \/ /\ cpc = "post" /\ cpc' = "take" /\ e.kind = "ToolCallDone" /\ UNCHANGED rpc
         \/ /\ cpc = "last" /\ cpc' = "end" /\ e.kind = "CallerDone" /\ UNCHANGED rpc
  PROVE  EndInv'
<1>1. /\ Len(events') = Len(events) + 1 /\ Len(events) \in Nat
      /\ \A i \in 1..Len(events) : events'[i] = events[i]
      /\ events'[Len(events) + 1] = e
  BY EventAppended DEF TypeInv
<1>2. \A i \in 1..Len(events') :
        \/ i \in 1..Len(events) /\ events'[i] = events[i] /\ i < Len(events) + 1
        \/ i = Len(events) + 1 /\ events'[i] = e
  BY <1>1
<1>3. ReaderEnd'
  BY <1>2 DEF EndInv, ReaderEnd, DataKinds
<1>4. CallerEnd'
  BY <1>2 DEF EndInv, CallerEnd, DataKinds
<1> QED BY <1>3, <1>4 DEF EndInv

LEMMA ReaderKeepsEnd ==
  ASSUME TypeInv, FormInv, EndInv, ReaderInput \/ ReaderStep
  PROVE  EndInv'
<1>1. UNCHANGED <<spc, readerDone, callerDone, finishCalls, calls, cpc>>
  BY DEF ReaderInput, ReadCall, ReadCancellation, ReadOther, EndOfInput, ReaderStep, PostFrame,
         PostReaderDone, sessionVars, callVars, callerVars
<1>2. CASE UNCHANGED events /\ (rpc = "end" => rpc' = "end")
  BY <1>1, <1>2 DEF EndInv, ReaderEnd, CallerEnd
<1>3. CASE PostFrame /\ DataFits(frame)
  <2>1. Push(frame) /\ rpc = "post" /\ frame.kind \in DataKinds /\ frame \in Event
    BY <1>3 DEF PostFrame, FormInv, TypeInv
  <2> QED BY <1>1, <2>1, PushEnd
<1>4. CASE PostReaderDone /\ DoneFits
  <2>1. PICK e \in Event : e = NewEvent("ReaderDone", NoCall, 0)
    BY NewEventType DEF Kinds
  <2>2. Push(e) /\ e.kind = "ReaderDone" /\ rpc = "eof" /\ rpc' = "end"
    BY <1>4, <2>1 DEF PostReaderDone, PostDone, NewEvent
  <2> QED BY <1>1, <2>2, PushEnd
<1>5. \/ UNCHANGED events /\ (rpc = "end" => rpc' = "end")
      \/ PostFrame /\ DataFits(frame)
      \/ PostReaderDone /\ DoneFits
  BY DEF ReaderInput, ReadCall, ReadCancellation, ReadOther, EndOfInput, ReaderStep, PostFrame,
         PostReaderDone, PostDone, eventVars
<1> QED BY <1>2, <1>3, <1>4, <1>5

LEMMA SessionKeepsEnd ==
  ASSUME TypeInv, FormInv, EndInv, SessionStep
  PROVE  EndInv'
<1>1. UNCHANGED <<rpc, cpc>>
  BY DEF SessionStep, SessionTake, SessionLine, SessionOversized, SessionToolCallDone,
         SessionReaderDone, SessionCallerDone, readerVars, callerVars
<1>2. CASE SessionTake
  <2>1. /\ Len(events) \in Nat /\ Len(events) >= 1 /\ spc' = events[1].kind
        /\ Len(events') \in Nat
        /\ \A i \in 1..Len(events') : /\ i \in Int /\ i + 1 \in 1..Len(events)
                                      /\ events'[i] = events[i + 1]
        /\ UNCHANGED <<readerDone, callerDone, finishCalls, calls>> /\ spc = "take"
    BY <1>2 DEF TypeInv, SessionTake, callVars
  <2>2. 1 \in 1..Len(events) /\ spc' \in Kinds
    BY <2>1, EventFields DEF TypeInv
  <2>3. ReaderEnd'
    <3>1. (finishCalls => readerDone) /\ (readerDone => spc' \notin DataKinds)
      BY <2>1, <2>2 DEF EndInv, ReaderEnd
    <3>2. readerDone \/ spc' = "ReaderDone" =>
            rpc = "end" /\ \A i \in 1..Len(events') : events'[i].kind \notin DataKinds
      <4>1. CASE readerDone
        BY <2>1, <4>1 DEF EndInv, ReaderEnd
      <4>2. CASE spc' = "ReaderDone"
        <5>1. rpc = "end" /\ \A j \in 1..Len(events) : events[j].kind \in DataKinds => j < 1
          BY <2>1, <2>2, <4>2 DEF EndInv, ReaderEnd
        <5>2. ASSUME NEW i \in 1..Len(events') PROVE events'[i].kind \notin DataKinds
          <6>1. ~ (i + 1 < 1) /\ i + 1 \in 1..Len(events) /\ events'[i] = events[i + 1]
            BY <2>1
          <6> QED BY <5>1, <6>1
        <5> QED BY <5>1, <5>2
      <4> QED BY <4>1, <4>2
    <3>3. ASSUME NEW i \in 1..Len(events'), events'[i].kind = "ReaderDone"
          PROVE  rpc = "end" /\ \A j \in 1..Len(events') : events'[j].kind \in DataKinds => j < i
      <4>1. /\ i + 1 \in 1..Len(events) /\ events[i + 1].kind = "ReaderDone"
            /\ \A j \in 1..Len(events') : j + 1 \in 1..Len(events) /\ events'[j] = events[j + 1]
        BY <2>1, <3>3
      <4>2. rpc = "end" /\ \A j \in 1..Len(events) : events[j].kind \in DataKinds => j < i + 1
        BY <4>1 DEF EndInv, ReaderEnd
      <4> QED BY <2>1, <4>1, <4>2
    <3> QED BY <1>1, <2>1, <3>1, <3>2, <3>3 DEF ReaderEnd
  <2>4. CallerEnd'
    <3>1. callerDone \/ spc' = "CallerDone" =>
            cpc = "end" /\ \A i \in 1..Len(events') : events'[i].kind # "ToolCallDone"
      <4>1. CASE callerDone
        BY <2>1, <4>1 DEF EndInv, CallerEnd
      <4>2. CASE spc' = "CallerDone"
        <5>1. cpc = "end" /\ \A j \in 1..Len(events) : events[j].kind = "ToolCallDone" => j < 1
          BY <2>1, <2>2, <4>2 DEF EndInv, CallerEnd
        <5>2. ASSUME NEW i \in 1..Len(events') PROVE events'[i].kind # "ToolCallDone"
          <6>1. ~ (i + 1 < 1) /\ i + 1 \in 1..Len(events) /\ events'[i] = events[i + 1]
            BY <2>1
          <6> QED BY <5>1, <6>1
        <5> QED BY <5>1, <5>2
      <4> QED BY <4>1, <4>2
    <3>2. ASSUME NEW i \in 1..Len(events'), events'[i].kind = "CallerDone"
          PROVE  cpc = "end" /\ \A j \in 1..Len(events') : events'[j].kind = "ToolCallDone" => j < i
      <4>1. /\ i + 1 \in 1..Len(events) /\ events[i + 1].kind = "CallerDone"
            /\ \A j \in 1..Len(events') : j + 1 \in 1..Len(events) /\ events'[j] = events[j + 1]
        BY <2>1, <3>2
      <4>2. cpc = "end" /\ \A j \in 1..Len(events) : events[j].kind = "ToolCallDone" => j < i + 1
        BY <4>1 DEF EndInv, CallerEnd
      <4> QED BY <2>1, <4>1, <4>2
    <3>3. cpc \in {"last", "end"} => calls = <<>> /\ finishCalls
      BY DEF EndInv, CallerEnd
    <3> QED BY <1>1, <2>1, <3>1, <3>2, <3>3 DEF CallerEnd
  <2>5. spc' # "end"
    BY <2>2 DEF Kinds, DataKinds
  <2> QED BY <2>3, <2>4, <2>5 DEF EndInv
<1>3. CASE ~SessionTake
  <2>1. UNCHANGED events
    BY <1>3 DEF SessionStep, SessionLine, SessionOversized, SessionToolCallDone,
       SessionReaderDone, SessionCallerDone, eventVars
  <2>2. /\ spc' \in {"take", "end"} /\ (spc' = "end" => readerDone' /\ callerDone')
        /\ finishCalls' = finishCalls \/ (finishCalls' = TRUE /\ spc = "ReaderDone")
        /\ readerDone' = readerDone \/ (readerDone' = TRUE /\ spc = "ReaderDone")
        /\ callerDone' = callerDone \/ (callerDone' = TRUE /\ spc = "CallerDone")
        /\ spc = "ReaderDone" => readerDone' = TRUE
    BY <1>3 DEF SessionStep, SessionLine, SessionOversized, SessionToolCallDone,
       SessionReaderDone, SessionCallerDone, Turn, callVars
  <2>3. calls' = calls \/ (spc = "Line" /\ ~readerDone)
    BY <1>3 DEF SessionStep, SessionLine, SessionOversized, SessionToolCallDone,
       SessionReaderDone, SessionCallerDone, callVars, EndInv, ReaderEnd, DataKinds
  <2>4. ReaderEnd'
    <3>1. finishCalls' => readerDone'
      <4>1. finishCalls => readerDone
        BY DEF EndInv, ReaderEnd
      <4>2. CASE finishCalls' = finishCalls /\ readerDone' = readerDone
        BY <4>1, <4>2
      <4>3. CASE readerDone' = TRUE
        BY <4>3
      <4>4. CASE finishCalls' = TRUE /\ spc = "ReaderDone"
        BY <2>2, <4>3, <4>4
      <4> QED BY <2>2, <4>2, <4>3, <4>4, Zenon
    <3>2. readerDone' => readerDone \/ spc = "ReaderDone"
      BY <2>2 DEF TypeInv
    <3> QED BY <1>1, <2>1, <2>2, <3>1, <3>2 DEF EndInv, ReaderEnd, DataKinds
  <2>5. CallerEnd'
    <3>1. callerDone' => callerDone \/ spc = "CallerDone"
      BY <2>2 DEF TypeInv
    <3>2. cpc \in {"last", "end"} => calls' = <<>> /\ finishCalls'
      BY <2>2, <2>3 DEF EndInv, ReaderEnd, CallerEnd, TypeInv
    <3> QED BY <1>1, <2>1, <2>2, <3>1, <3>2 DEF EndInv, CallerEnd
  <2> QED BY <2>2, <2>4, <2>5 DEF EndInv
<1> QED BY <1>2, <1>3

LEMMA CallerKeepsEnd ==
  ASSUME TypeInv, FormInv, EndInv, CallerStep
  PROVE  EndInv'
<1>1. UNCHANGED <<spc, readerDone, callerDone, finishCalls, rpc>>
  BY DEF CallerStep, CallerTake, CallerCall, CallerPost, CallerLeave, PostCallerDone,
         sessionVars, callVars, readerVars
<1>2. CASE CallerTake \/ CallerCall
  BY <1>1, <1>2 DEF EndInv, ReaderEnd, CallerEnd, CallerTake, CallerCall, eventVars
<1>3. CASE CallerPost
  BY <1>1, <1>3, PushEnd DEF CallerPost, FormInv, TypeInv, callVars
<1>4. CASE CallerLeave
  BY <1>1, <1>4 DEF EndInv, ReaderEnd, CallerEnd, CallerLeave, CallerFinish, eventVars, callVars
<1>5. CASE PostCallerDone
  <2>1. CASE DoneFits
    <3>1. PICK e \in Event : e = NewEvent("CallerDone", NoCall, 0)
      BY NewEventType DEF Kinds
    <3>2. Push(e) /\ e.kind = "CallerDone" /\ cpc = "last" /\ cpc' = "end" /\ UNCHANGED calls
      BY <1>5, <2>1, <3>1 DEF PostCallerDone, PostDone, NewEvent, callVars
    <3> QED BY <1>1, <3>2, PushEnd
  <2>2. CASE ~DoneFits
    BY <1>1, <1>5, <2>2
       DEF PostCallerDone, PostDone, eventVars, callVars, EndInv, ReaderEnd, CallerEnd
  <2> QED BY <2>1, <2>2
<1> QED BY <1>2, <1>3, <1>4, <1>5 DEF CallerStep

LEMMA NextKeepsEnd ==
  ASSUME TypeInv, FormInv, EndInv, [Next]_vars
  PROVE  EndInv'
<1>1. CASE UNCHANGED vars
  BY <1>1 DEF vars, readerVars, eventVars, sessionVars, callVars, callerVars, EndInv, ReaderEnd,
     CallerEnd
<1> QED BY <1>1, ReaderKeepsEnd, SessionKeepsEnd, CallerKeepsEnd DEF Next, Returned

-----------------------------------------------------------------------------
(* The queues are sound *)

\* The values of a function on 1..n are n at most.
LEMMA ValuesBound ==
  ASSUME NEW n \in Nat, NEW f, NEW T, \A x \in T : \E i \in 1..n : f[i] = x
  PROVE  IsFiniteSet(T) /\ Cardinality(T) \in Nat /\ Cardinality(T) <= n
<1> DEFINE U == {f[i] : i \in 1..n}
           g == [i \in 1..n |-> f[i]]
<1>1. g \in Surjection(1..n, U)
  BY DEF Surjection
<1>2. IsFiniteSet(1..n) /\ Cardinality(1..n) = n
  BY FS_Interval
<1>3. T \in SUBSET U
  OBVIOUS
<1> HIDE DEF U, g
<1>4. IsFiniteSet(U) /\ Cardinality(U) <= n
  BY <1>1, <1>2, FS_Surjection
<1>5. IsFiniteSet(T) /\ Cardinality(T) <= Cardinality(U)
  BY <1>3, <1>4, FS_Subset
<1>6. Cardinality(U) \in Nat /\ Cardinality(T) \in Nat
  BY <1>4, <1>5, FS_CardinalityType
<1> QED BY <1>4, <1>5, <1>6

\* While the reader reads, a call on its way has a place of its own: an entry
\* of a queue, the session thread's hand or the caller's.
LEMMA TrackingHolds ==
  ASSUME TypeInv, HandsInv, TokenInv, LimitsInv
  PROVE  TrackingCovers
<1> SUFFICES ASSUME rpc = "read", ~ (Len(events) >= MaxItems - 3)
             PROVE  Cardinality(tracked) < MaxTracked
  BY DEF TrackingCovers
<1>1. PICK n \in Nat, m \in Nat : n = Len(events) /\ m = Len(calls)
  BY DEF TypeInv
<1> DEFINE f == [i \in 1..(n + m + 2) |->
                   IF i <= n THEN events[i].call
                   ELSE IF i <= n + m THEN calls[i - n]
                   ELSE IF i = n + m + 1 THEN event.call
                   ELSE IF cpc = "call" THEN task ELSE done.call]
<1>2. ASSUME NEW c \in tracked PROVE \E i \in 1..(n + m + 2) : f[i] = c
  <2>1. c \in Calls /\ c # NoCall /\ Somewhere(c)
    BY SizesAssumption DEF TypeInv, TokenInv
  <2>2. c # frame.call
    BY <2>1 DEF HandsInv
  <2>3. CASE \E i \in 1..n : events[i].call = c
    BY <2>3
  <2>4. CASE \E i \in 1..m : calls[i] = c
    <3>1. PICK i \in 1..m : calls[i] = c
      BY <2>4
    <3>2. n + i \in 1..(n + m + 2) /\ ~ (n + i <= n) /\ n + i <= n + m /\ (n + i) - n = i
      OBVIOUS
    <3>3. f[n + i] = c
      BY <3>1, <3>2
    <3> QED BY <3>2, <3>3
  <2>5. CASE c = event.call
    <3>1. /\ n + m + 1 \in 1..(n + m + 2)
          /\ ~ (n + m + 1 <= n) /\ ~ (n + m + 1 <= n + m)
      OBVIOUS
    <3> QED BY <2>5, <3>1
  <2>6. CASE c \in {task, done.call}
    <3>1. /\ n + m + 2 \in 1..(n + m + 2) /\ n + m + 2 # n + m + 1
          /\ ~ (n + m + 2 <= n) /\ ~ (n + m + 2 <= n + m)
      OBVIOUS
    <3>2. f[n + m + 2] = IF cpc = "call" THEN task ELSE done.call
      BY <3>1
    <3>3. c = IF cpc = "call" THEN task ELSE done.call
      BY <2>1, <2>6 DEF HandsInv
    <3> QED BY <3>1, <3>2, <3>3
  <2> QED BY <1>1, <2>1, <2>2, <2>3, <2>4, <2>5, <2>6 DEF Somewhere, HandCalls
<1> HIDE DEF f
<1>3. n + m + 2 \in Nat
  OBVIOUS
<1>4. Cardinality(tracked) \in Nat /\ Cardinality(tracked) <= n + m + 2
  BY <1>2, <1>3, ValuesBound
<1>5. n <= MaxItems - 4 /\ m <= MaxItems
  BY <1>1, LimitsAssumption DEF LimitsInv
<1>6. MaxItems \in Nat /\ MaxTracked \in Nat /\ MaxTracked >= 2 * MaxItems - 1
  BY LimitsAssumption
<1> QED BY <1>4, <1>5, <1>6

\* The tokens and the calls on their way are the same set.
LEMMA TokensHold ==
  ASSUME TypeInv, TokenInv
  PROVE  TokensAreLiveCalls
<1>1. ToSet(calls) = {calls[i] : i \in 1..Len(calls)}
  BY DEF ToSet, TypeInv
<1>2. DOMAIN events = 1..Len(events)
  BY DEF TypeInv
<1>3. ASSUME NEW c \in OnTheWay, c # NoCall PROVE c \in Calls /\ Somewhere(c)
  BY <1>1, <1>2, <1>3, EventFields, QueuedAreCalls DEF TypeInv, OnTheWay, Somewhere, HandCalls
<1>4. ASSUME NEW c \in Calls, Somewhere(c) PROVE c \in OnTheWay \ {NoCall}
  BY <1>1, <1>2, <1>4, SizesAssumption DEF OnTheWay, Somewhere, HandCalls
<1> QED BY <1>3, <1>4 DEF TokensAreLiveCalls, TokenInv, TypeInv

\* When the three threads have ended nothing is anywhere.
LEMMA AnswersHold ==
  ASSUME TypeInv, HandsInv, FormInv, EndInv, AnsweredInv
  PROVE  EveryCallAnswered
<1> SUFFICES ASSUME Ended, NEW c \in read, Somewhere(c) PROVE FALSE
  BY DEF EveryCallAnswered, AnsweredInv
<1>1. rpc = "end" /\ spc = "end" /\ cpc = "end" /\ c # NoCall
  BY SizesAssumption DEF Ended, TypeInv
<1>2. c \notin HandCalls
  BY <1>1 DEF HandsInv, HandCalls
<1>3. calls = <<>> /\ Len(calls) = 0
  BY <1>1 DEF EndInv, CallerEnd
<1>4. PICK i \in 1..Len(events) : events[i].call = c
  BY <1>2, <1>3 DEF Somewhere
<1>5. events[i].kind \in {"Line", "ToolCallDone"}
  BY <1>1, <1>4 DEF FormInv, Formed
<1>6. events[i].kind \notin DataKinds /\ events[i].kind # "ToolCallDone"
  BY <1>1 DEF EndInv, ReaderEnd, CallerEnd
<1> QED BY <1>5, <1>6 DEF DataKinds

BridgeInv == Inv /\ RoomInv /\ CountInv /\ FormInv /\ CallInv /\ EndInv

LEMMA InitBridge == Init => BridgeInv
BY InitType, InitPlaces, InitCounts, InitForm, InitCalls, InitEnd DEF BridgeInv, Inv

LEMMA NextKeepsBridge == BridgeInv /\ [Next]_vars => BridgeInv'
BY NextKeepsTypes, NextKeepsPlaces, NextKeepsCounts, NextKeepsForm, NextKeepsCalls, NextKeepsEnd
   DEF BridgeInv, Inv

LEMMA BridgeIsSound == BridgeInv => QueuesAreSound
<1> SUFFICES ASSUME BridgeInv PROVE QueuesAreSound
  OBVIOUS
<1>1. eventBytes \in Nat /\ dataBytes \in Nat /\ dataCount \in Nat /\ callBytes \in Nat
  BY CountersAreNat DEF BridgeInv, Inv, CountInv
<1>2. TypeOK
  BY <1>1 DEF TypeOK, BridgeInv, Inv, TypeInv, ReplyKinds
<1>3. Len(events) <= MaxItems
  BY LimitsAssumption, SMTT(30) DEF BridgeInv, Inv, TypeInv, RoomInv, One
<1>4. QueuesAreAccounted
  BY <1>3 DEF QueuesAreAccounted, BridgeInv, CountInv, EventsAccounted, LimitsInv
<1>5. TokensAreLiveCalls /\ EveryCallAnswered /\ TrackingCovers
  BY TokensHold, AnswersHold, TrackingHolds DEF BridgeInv, Inv, CallInv, CountInv
<1> QED BY <1>2, <1>4, <1>5 DEF QueuesAreSound

\* A step of the process, whichever part it is of, is a step of the bridge or leaves it alone.
LEMMA PartsAreSteps == [MCNext]_<<part, vars, linkVars>> => [Next]_vars
BY DEF MCNext

\* For every set of calls and all limits that fit together: the counters of the two
\* queues are the sums of what is queued and stay within their limits, the tokens are
\* those of the calls on their way, a call that was read is answered or cancelled when
\* the bridge returns, and the limit on tracked calls never refuses a call for which
\* the event queue has room.
THEOREM TheQueuesAreSound == MCSpec => []QueuesAreSound
<1>1. MCInit => BridgeInv
  BY InitBridge DEF MCInit
<1>2. BridgeInv /\ [MCNext]_<<part, vars, linkVars>> => BridgeInv'
  BY NextKeepsBridge, PartsAreSteps
<1>3. BridgeInv => QueuesAreSound
  BY BridgeIsSound
<1> QED BY <1>1, <1>2, <1>3, PTL DEF MCSpec

-----------------------------------------------------------------------------
(* The link, whose proofs are in AgentLinkProofs *)

\* Both instances of the link mean the same: the run's and the one that has the proofs.
LEMMA SameSimulator ==
  ASSUME NEW s
  PROVE  /\ L!StartServer(s) = LP!StartServer(s)
         /\ L!PublishEndpoint(s) = LP!PublishEndpoint(s)
         /\ L!FailStart(s) = LP!FailStart(s)
         /\ L!ListenerDies(s) = LP!ListenerDies(s)
         /\ L!StopServer(s) = LP!StopServer(s)
         /\ L!LeaveEndpoint(s) = LP!LeaveEndpoint(s)
         /\ L!Crash(s) = LP!Crash(s)
         /\ L!TurnAway(s) = LP!TurnAway(s)
         /\ L!AnswerHello(s) = LP!AnswerHello(s)
         /\ L!ReceiveCall(s) = LP!ReceiveCall(s)
         /\ L!BeginCall(s) = LP!BeginCall(s)
         /\ L!FinishCall(s) = LP!FinishCall(s)
         /\ L!ParkedTooLong(s) = LP!ParkedTooLong(s)
         /\ L!TakePort(s) = LP!TakePort(s)
<1>1. L!StartServer(s) = LP!StartServer(s)
  BY DEF L!StartServer, LP!StartServer, L!FreePorts, LP!FreePorts, L!Known, LP!Known,
     L!NextStart, LP!NextStart, L!Offered, LP!Offered, L!PortTaken, LP!PortTaken, L!bridgeVars,
     LP!bridgeVars, L!Max, LP!Max
<1>2. L!PublishEndpoint(s) = LP!PublishEndpoint(s)
  BY DEF L!PublishEndpoint, LP!PublishEndpoint, L!Gui, LP!Gui, L!bridgeVars, LP!bridgeVars
<1>3. L!FailStart(s) = LP!FailStart(s)
  BY DEF L!FailStart, LP!FailStart, L!CloseEnd, LP!CloseEnd, L!Connected, LP!Connected, L!Gui,
     LP!Gui, L!Hangs, LP!Hangs, L!Leads, LP!Leads, L!Off, LP!Off, L!bridgeVars, LP!bridgeVars
<1>4. L!ListenerDies(s) = LP!ListenerDies(s)
  BY DEF L!ListenerDies, LP!ListenerDies, L!CloseEnd, LP!CloseEnd, L!Connected, LP!Connected,
     L!Gui, LP!Gui, L!Hangs, LP!Hangs, L!Leads, LP!Leads, L!bridgeVars, LP!bridgeVars
<1>5. L!StopServer(s) = LP!StopServer(s)
  BY DEF L!StopServer, LP!StopServer, L!CloseEnd, LP!CloseEnd, L!Connected, LP!Connected, L!Gui,
     LP!Gui, L!Hangs, LP!Hangs, L!Leads, LP!Leads, L!Post, LP!Post, L!SameSession,
     LP!SameSession, L!bridgeVars, LP!bridgeVars
<1>6. L!LeaveEndpoint(s) = LP!LeaveEndpoint(s)
  BY DEF L!LeaveEndpoint, LP!LeaveEndpoint, L!Gui, LP!Gui, L!Off, LP!Off, L!WithoutEndpoint,
     LP!WithoutEndpoint, L!bridgeVars, LP!bridgeVars
<1>7. L!Crash(s) = LP!Crash(s)
  BY DEF L!Crash, LP!Crash, L!CloseEnd, LP!CloseEnd, L!Connected, LP!Connected, L!Gui, LP!Gui,
     L!Hangs, LP!Hangs, L!Leads, LP!Leads, L!Off, LP!Off, L!bridgeVars, LP!bridgeVars
<1>8. L!TurnAway(s) = LP!TurnAway(s)
  BY DEF L!TurnAway, LP!TurnAway, L!Connected, LP!Connected, L!Gui, LP!Gui, L!Hangs, LP!Hangs,
     L!Hears, LP!Hears, L!Leads, LP!Leads, L!Post, LP!Post, L!bridgeVars, LP!bridgeVars,
     L!simVars, LP!simVars
<1>9. L!AnswerHello(s) = LP!AnswerHello(s)
  BY DEF L!AnswerHello, LP!AnswerHello, L!Connected, LP!Connected, L!Gui, LP!Gui, L!Hangs,
     LP!Hangs, L!Hears, LP!Hears, L!Leads, LP!Leads, L!Post, LP!Post, L!bridgeVars,
     LP!bridgeVars, L!simVars, LP!simVars
<1>10. L!ReceiveCall(s) = LP!ReceiveCall(s)
  BY DEF L!ReceiveCall, LP!ReceiveCall, L!Connected, LP!Connected, L!Gui, LP!Gui, L!Hears,
     LP!Hears, L!Leads, LP!Leads, L!Post, LP!Post, L!bridgeVars, LP!bridgeVars
<1>11. L!BeginCall(s) = LP!BeginCall(s)
  BY DEF L!BeginCall, LP!BeginCall, L!Works, LP!Works, L!bridgeVars, LP!bridgeVars
<1>12. L!FinishCall(s) = LP!FinishCall(s)
  BY DEF L!FinishCall, LP!FinishCall, L!Connected, LP!Connected, L!Post, LP!Post, L!Respond,
     LP!Respond, L!SameSession, LP!SameSession, L!Works, LP!Works, L!bridgeVars, LP!bridgeVars
<1>13. L!ParkedTooLong(s) = LP!ParkedTooLong(s)
  BY DEF L!ParkedTooLong, LP!ParkedTooLong, L!Connected, LP!Connected, L!Post, LP!Post,
     L!Respond, LP!Respond, L!SameSession, LP!SameSession, L!Works, LP!Works, L!bridgeVars,
     LP!bridgeVars
<1>14. L!TakePort(s) = LP!TakePort(s)
  BY DEF L!TakePort, LP!TakePort, L!Known, LP!Known, L!PortTaken, LP!PortTaken, L!bridgeVars,
     LP!bridgeVars
<1> QED BY <1>1, <1>2, <1>3, <1>4, <1>5, <1>6, <1>7, <1>8, <1>9, <1>10, <1>11, <1>12, <1>13, <1>14

\* So they do for the bridge.
LEMMA SameBridge ==
  /\ L!Init = LP!Init
  /\ L!ForeignAnswers = LP!ForeignAnswers
  /\ L!ClientLine = LP!ClientLine
  /\ L!TakeTask = LP!TakeTask
  /\ L!ReadEndpoint = LP!ReadEndpoint
  /\ L!Dial = LP!Dial
  /\ L!ReadGreeting = LP!ReadGreeting
  /\ L!SendCall = LP!SendCall
  /\ L!ReadReply = LP!ReadReply
  /\ L!GiveUp = LP!GiveUp
<1>1. L!Init = LP!Init
  BY DEF L!Init, LP!Init, L!CallIds, LP!CallIds, L!IdleLink, LP!IdleLink, L!NewSession,
     LP!NewSession, L!Off, LP!Off
<1>2. L!ForeignAnswers = LP!ForeignAnswers
  BY DEF L!ForeignAnswers, LP!ForeignAnswers, L!Connected, LP!Connected, L!Foreign, LP!Foreign,
     L!Post, LP!Post, L!bridgeVars, LP!bridgeVars, L!simVars, LP!simVars
<1>3. L!ClientLine = LP!ClientLine
  BY DEF L!ClientLine, LP!ClientLine, L!Asked, LP!Asked, L!CallIds, LP!CallIds, L!Initialized,
     LP!Initialized, L!Introduced, LP!Introduced, L!Negotiated, LP!Negotiated, L!OnLine,
     LP!OnLine, L!Refused, LP!Refused, L!Served, LP!Served, L!Serves, LP!Serves, L!Told,
     LP!Told, L!Yields, LP!Yields, L!simVars, LP!simVars, L!Cardinality, LP!Cardinality
<1>4. L!TakeTask = LP!TakeTask
  BY DEF L!TakeTask, LP!TakeTask, L!ChannelFor, LP!ChannelFor, L!IdleLink, LP!IdleLink,
     L!LinkFor, LP!LinkFor, L!simVars, LP!simVars
<1>5. L!ReadEndpoint = LP!ReadEndpoint
  BY DEF L!ReadEndpoint, LP!ReadEndpoint, L!Connected, LP!Connected, L!EndpointRead,
     LP!EndpointRead, L!IdleLink, LP!IdleLink, L!Return, LP!Return, L!Told, LP!Told, L!simVars,
     LP!simVars
<1>6. L!Dial = LP!Dial
  BY DEF L!Dial, LP!Dial, L!Foreign, LP!Foreign, L!Gui, LP!Gui, L!IdleLink, LP!IdleLink,
     L!NewChannel, LP!NewChannel, L!PortTaken, LP!PortTaken, L!Return, LP!Return, L!Told,
     LP!Told, L!simVars, LP!simVars
<1>7. L!ReadGreeting = LP!ReadGreeting
  BY DEF L!ReadGreeting, LP!ReadGreeting, L!Connected, LP!Connected, L!Greets, LP!Greets,
     L!IdleLink, LP!IdleLink, L!Reads, LP!Reads, L!Return, LP!Return, L!ReturnDropped,
     LP!ReturnDropped, L!Told, LP!Told, L!simVars, LP!simVars
<1>8. L!SendCall = LP!SendCall
  BY DEF L!SendCall, LP!SendCall, L!Connected, LP!Connected, L!simVars, LP!simVars
<1>9. L!ReadReply = LP!ReadReply
  BY DEF L!ReadReply, LP!ReadReply, L!Connected, LP!Connected, L!IdleLink, LP!IdleLink,
     L!Meaning, LP!Meaning, L!Reads, LP!Reads, L!Results, LP!Results, L!Return, LP!Return,
     L!Told, LP!Told, L!simVars, LP!simVars
<1>10. L!GiveUp = LP!GiveUp
  BY DEF L!GiveUp, LP!GiveUp, L!Connected, LP!Connected, L!IdleLink, LP!IdleLink, L!Reads,
     LP!Reads, L!Return, LP!Return, L!ReturnDropped, LP!ReturnDropped, L!Told, LP!Told,
     L!simVars, LP!simVars
<1> QED BY <1>1, <1>2, <1>3, <1>4, <1>5, <1>6, <1>7, <1>8, <1>9, <1>10

\* And for what is said of them.
LEMMA SameProperties ==
  /\ L!LinkAssumption = LP!LinkAssumption
  /\ L!NamesAssumption = LP!NamesAssumption
  /\ L!TypeOK = LP!TypeOK
  /\ L!CallsReachTheirSimulator = LP!CallsReachTheirSimulator
  /\ L!LastStartedIsFound = LP!LastStartedIsFound
  /\ L!ClientIsTheCaller = LP!ClientIsTheCaller
<1>1. L!LinkAssumption = LP!LinkAssumption
  BY DEF L!LinkAssumption, LP!LinkAssumption, L!CallIds, LP!CallIds, L!Channel, LP!Channel,
     L!Downs, LP!Downs, L!Endpoint, LP!Endpoint, L!Foreign, LP!Foreign, L!Forms, LP!Forms,
     L!Instances, LP!Instances, L!Line, LP!Line, L!Methods, LP!Methods, L!Ups, LP!Ups
<1>2. L!NamesAssumption = LP!NamesAssumption
  BY DEF L!NamesAssumption, LP!NamesAssumption
<1>3. L!TypeOK = LP!TypeOK
  BY DEF L!TypeOK, LP!TypeOK, L!CallIds, LP!CallIds, L!Channel, LP!Channel, L!Connected,
     LP!Connected, L!Downs, LP!Downs, L!Endpoint, LP!Endpoint, L!Entry, LP!Entry, L!Foreign,
     LP!Foreign, L!Instances, LP!Instances, L!SessionType, LP!SessionType, L!Tellings,
     LP!Tellings, L!Ups, LP!Ups, L!Cardinality, LP!Cardinality
<1>4. L!CallsReachTheirSimulator = LP!CallsReachTheirSimulator
  BY DEF L!CallsReachTheirSimulator, LP!CallsReachTheirSimulator, L!Connected, LP!Connected
<1>5. L!LastStartedIsFound = LP!LastStartedIsFound
  BY DEF L!LastStartedIsFound, LP!LastStartedIsFound, L!Gui, LP!Gui
<1>6. L!ClientIsTheCaller = LP!ClientIsTheCaller
  BY DEF L!ClientIsTheCaller, LP!ClientIsTheCaller
<1> QED BY <1>1, <1>2, <1>3, <1>4, <1>5, <1>6

LEMMA SameSteps == L!Next \/ UNCHANGED linkVars => [LP!Next]_LP!vars
<1>1. CASE L!Next
  BY <1>1, SameSimulator, SameBridge
     DEF L!Next, LP!Next, L!SimulatorStep, LP!SimulatorStep, L!ServerStep, LP!ServerStep,
         L!LinkStep, LP!LinkStep
<1>2. CASE UNCHANGED linkVars
  BY <1>2 DEF linkVars, LP!vars, LP!simVars, LP!bridgeVars
<1> QED BY <1>1, <1>2

LEMMA LinkSteps == [MCNext]_<<part, vars, linkVars>> => [LP!Next]_LP!vars
<1> SUFFICES ASSUME [MCNext]_<<part, vars, linkVars>> PROVE [LP!Next]_LP!vars
  OBVIOUS
<1>1. L!Next \/ UNCHANGED linkVars
  BY DEF MCNext
<1> QED BY <1>1, SameSteps

\* For any number of simulators, calls, starts and ports: a call goes only to the server
\* that wrote the endpoint its connection was dialed for, the endpoint leads to the server
\* started last, and a call is credited to the client that made it.
THEOREM CallsReachThem == MCSpec => []CallsReachTheirSimulator
<1>1. LP!Assumed
  BY LinkInstance, SameProperties DEF LP!Assumed
<1>2. MCInit => LP!Init
  BY SameBridge DEF MCInit
<1>3. MCSpec => LP!Spec
  BY <1>2, LinkSteps, PTL DEF MCSpec, LP!Spec
<1>4. LP!Spec => []LP!TypeOK
  BY <1>1, LP!LinkIsTyped
<1>5. LP!Spec => []LP!CallsReachTheirSimulator
  BY <1>1, LP!CallsAlwaysReachTheirSimulator
<1>6. LP!Spec => []LP!LastStartedIsFound
  BY <1>1, LP!LastStartedIsAlwaysFound
<1>7. LP!Spec => []LP!ClientIsTheCaller
  BY <1>1, LP!ClientIsAlwaysTheCaller
<1>8. LP!TypeOK /\ LP!CallsReachTheirSimulator /\ LP!LastStartedIsFound /\ LP!ClientIsTheCaller
        => CallsReachTheirSimulator
  BY SameProperties DEF CallsReachTheirSimulator
<1> QED BY <1>3, <1>4, <1>5, <1>6, <1>7, <1>8, PTL
=============================================================================
