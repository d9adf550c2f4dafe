-------------------------- MODULE MCCircuitEditor --------------------------
(***************************************************************************)
(* Values for TLC: component types with the port counts of the engines.    *)
(***************************************************************************)
EXTENDS CircuitEditor

Port(ins, outs) == [ins |-> ins, outs |-> outs]
MCPorts ==
  [generator |-> Port(0, 1), amplifier |-> Port(1, 1), splitter |-> Port(1, 2)]
MCPortsPfb == [generator |-> Port(0, 1), amplifier |-> Port(1, 1), pfb |-> Port(1, 2)]
=============================================================================
