------------------------- MODULE MCAgentServerLive -------------------------
(* A call of a client and a local one, dialogs, a failing listener and stop(). *)
EXTENDS AgentServer
CONSTANTS n1, l1, k1
MCSize == [c \in Calls |-> 1]
=============================================================================
