---------------------------- MODULE CallService ----------------------------
(***************************************************************************)
(* What the bridge and the simulator together promise about a tool call:   *)
(* the client that makes it is answered once; a simulator runs it once at  *)
(* most; an answer that says it was done means that it was; an answer that *)
(* says the releases differ, or that it was refused, means that it was not *)
(* and never will be.  An answer that the simulator is not reachable       *)
(* promises nothing: the call may have run, or may still run.              *)
(***************************************************************************)
EXTENDS Naturals

CONSTANTS Calls

VARIABLES
  asked,   \* the calls made
  ran,     \* how often each call was run
  told     \* what each caller was told, "nothing" until it is answered

vars == <<asked, ran, told>>

Settled == {"done", "busy", "refused", "mismatch"}
Tellings == Settled \cup {"nothing", "unavailable"}

Init ==
  /\ asked = {}
  /\ ran = [c \in Calls |-> 0]
  /\ told = [c \in Calls |-> "nothing"]

Ask(c) ==
  /\ c \notin asked
  /\ asked' = asked \cup {c}
  /\ UNCHANGED <<ran, told>>

\* A simulator starts a call: as long as nothing final was said of it.
Run(c) ==
  /\ c \in asked /\ ran[c] = 0 /\ told[c] \notin Settled
  /\ ran' = [ran EXCEPT ![c] = 1]
  /\ UNCHANGED <<asked, told>>

Tell(c, t) ==
  /\ c \in asked /\ told[c] = "nothing"
  /\ t = "done" => ran[c] = 1
  /\ t \in {"refused", "mismatch"} => ran[c] = 0
  /\ told' = [told EXCEPT ![c] = t]
  /\ UNCHANGED <<asked, ran>>

\* A call that does not reach the queue is refused on the spot.
Turn(c) ==
  /\ c \notin asked
  /\ asked' = asked \cup {c}
  /\ told' = [told EXCEPT ![c] = "refused"]
  /\ UNCHANGED ran

Next == \E c \in Calls : Ask(c) \/ Run(c) \/ Turn(c) \/ \E t \in Tellings \ {"nothing"} : Tell(c, t)

Spec == Init /\ [][Next]_vars

\* Every call that was made is answered.
Answered == \A c \in Calls : WF_vars(\E t \in Tellings \ {"nothing"} : Tell(c, t))
LiveSpec == Spec /\ Answered
=============================================================================
