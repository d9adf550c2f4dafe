--------------------------- MODULE MCInstruments ---------------------------
(***************************************************************************)
(* Two parts that share no step.  "panels": a generator and an amplifier,  *)
(* three projects, three edits and two runs per update.  "wiring": every   *)
(* wiring of a splitter, two filters, a 2:1 switch and a generator, and    *)
(* every pair of points.                                                   *)
(***************************************************************************)
EXTENDS Instruments

CONSTANTS WiringNodes, WiringIns, WiringOuts, WiringSwitches, WiringWires, WiringTuned

VARIABLES part, wLinks, wValue, wA, wB
wiringVars == <<wLinks, wValue, wA, wB>>
allVars == <<vars, part, wiringVars>>

MCIns == <<0, 1>>
MCOuts == <<1, 1>>
MCWires == {[from |-> 1, out |-> 1, to |-> 2, in |-> 1]}

\* Settings 1 of the generator have one tone, settings 2 have two.
MCToneList == <<(<<7>>), (<<7, 8>>)>>
Narrow == [lo |-> 1, hi |-> 1]
Wide == [lo |-> 1, hi |-> 2]
MCSweeps == {Narrow, Wide}
Core(m) == [lo |-> 1, hi |-> 2, metrics |-> m, min |-> 2, levels |-> 3]
MCCores == {Core({"gain", "power"}), Core({"iip3"})}

\* With its settings 2 the amplifier is too weak at 2, and has no intercept point.
MCReading(m, c, f, x) ==
    IF c.values[2] = 1 THEN 2 ELSE IF f = 2 THEN 1 ELSE IF m = "iip3" THEN NoValue ELSE 3

MCProjects ==
    {[links |-> MCWires, value |-> v[1], sweep |-> v[2], a |-> <<1, 1>>, b |-> <<2, 1>>,
      required |-> [core |-> Core(v[3]), tone |-> v[4]]] :
        v \in {<<(<<1, 1>>), Wide, {"gain", "power"}, 7>>,
               <<(<<2, 1>>), Narrow, {"gain", "power"}, 8>>,
               <<(<<1, 2>>), Wide, {"iip3"}, NoTone>>}}
MCRequests ==
    {[power |-> TRUE, tone |-> NoTone, levels |-> 3, a |-> <<1, 1>>, b |-> <<2, 1>>, sweep |-> Wide]}

Link(f, o, t, i) == [from |-> f, out |-> o, to |-> t, in |-> i]
MCWiringIns == <<1, 1, 1, 2, 0>>
MCWiringOuts == <<2, 1, 1, 1, 1>>
MCWiringWires ==
    {Link(5, 1, 1, 1), Link(1, 1, 2, 1), Link(5, 1, 2, 1), Link(1, 2, 3, 1),
     Link(1, 1, 3, 1), Link(2, 1, 4, 1), Link(3, 1, 4, 2)}
W == INSTANCE MeasurementChain WITH
        Nodes <- WiringNodes, Ins <- WiringIns, Outs <- WiringOuts, Switches <- WiringSwitches,
        Wires <- WiringWires, Tuned <- WiringTuned,
        links <- wLinks, value <- wValue, pointA <- wA, pointB <- wB

ASSUME WiringInstance == W!ChainAssumption

MCInit ==
    /\ Init /\ part \in {"panels", "wiring"} /\ (part = "wiring" => required.tone = 7)
    /\ wLinks = {} /\ wValue = [n \in WiringNodes |-> 1] /\ wA = NoPin /\ wB = NoPin
MCNext ==
    \/ part = "panels" /\ Next /\ UNCHANGED <<part, wiringVars>>
    \/ part = "wiring" /\ (W!EditCircuit \/ W!PickPoint) /\ UNCHANGED <<part, vars>>
MCSpec == MCInit /\ [][MCNext]_allVars /\ (part = "panels" => Fairness)

\* The clones that are measured are the circuit (see MeasurementChain).
ClonesAreTheCircuit == W!MeasuredIsTheCircuit
=============================================================================
