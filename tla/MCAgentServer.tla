--------------------------- MODULE MCAgentServer ---------------------------
(***************************************************************************)
(* The agent server with two choices of its calls and faults, one of which *)
(* is made at first.  "sessions": two clients in turn, with a call each, a *)
(* failing listener, a dialog query that throws, stop and restart at any   *)
(* moment.  "pump": two local calls and a longer one of a client, dialogs  *)
(* that open and close, no restart.                                        *)
(***************************************************************************)
EXTENDS AgentServer

CONSTANTS n1, n2, l1, l2, long, k1, k2   \* calls, one of them longer; connections

VARIABLE part

MCSize == [c \in Calls |-> IF c = long THEN 2 ELSE 1]

Pump == INSTANCE AgentServer WITH MaxStarts <- 1, Faults <- {"dialog"}

\* The calls of the part that was chosen.  n1 and n2 are alike, and so are l1 and l2, and
\* k1 and k2: only the behaviours in which the first of them comes first are looked at.
InPart ==
  /\ part = "sessions" => /\ Made \subseteq {n1, n2}
                          /\ n2 \in Made => n1 \in Made
                          /\ k1 \in freshConns => k2 \in freshConns
  /\ part = "pump" => /\ Made \subseteq {l1, l2, long} /\ k2 \in freshConns
                      /\ l2 \in Made => l1 \in Made

MCInit == part \in {"sessions", "pump"} /\ Init
MCNext ==
  \/ part = "sessions" /\ Next /\ UNCHANGED part /\ InPart'
  \/ part = "pump" /\ Pump!Next /\ UNCHANGED part /\ InPart'
MCSpec == MCInit /\ [][MCNext]_<<part, vars>>
=============================================================================
