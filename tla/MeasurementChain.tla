-------------------------- MODULE MeasurementChain --------------------------
(***************************************************************************)
(* The circuit that is measured between two output ports, and its run on   *)
(* clones: findMeasurementChainPath and IsolatedChainRunner in             *)
(* src/network_analyzer/src/measurement_chain_runner.cpp.                  *)
(*                                                                         *)
(* Components are numbered in the order of the graph.  A pin is a pair of  *)
(* a component and one of its output ports.  What a component does to a    *)
(* signal is left open: a signal is the term that says which component,    *)
(* with which settings, made it of which signals.                          *)
(***************************************************************************)
EXTENDS Naturals, Sequences, FiniteSets, FiniteSetsExt, SequencesExt

CONSTANTS
    Nodes,      \* components
    Ins, Outs,  \* [Nodes -> Nat]: how many ports they have
    Switches,   \* the 2:1 switches among them
    Wires,      \* links that may be drawn: [from, out, to, in]
    Values,     \* what serialize() tells apart of a component's settings
    Tuned,      \* the components whose settings change
    NoPin, NoChain

Pins == UNION {{n} \X (1..Outs[n]) : n \in Nodes}

ChainAssumption ==
    /\ Nodes \subseteq Nat \ {0} /\ IsFiniteSet(Nodes)
    /\ Ins \in [Nodes -> Nat] /\ Outs \in [Nodes -> Nat]
    /\ Switches \subseteq Nodes /\ Tuned \subseteq Nodes
    /\ NoPin \notin Pins
    /\ \A w \in Wires : <<w.from, w.out>> \in Pins /\ w.to \in Nodes /\ w.in \in 1..Ins[w.to]

VARIABLES
    links,    \* the links of the graph
    value,    \* [Nodes -> Values]
    pointA,   \* m_point_a_pin
    pointB    \* m_point_b_pin

chainVars == <<links, value, pointA, pointB>>

-----------------------------------------------------------------------------
(* Discovery.  *)

\* The nodes that can be reached from S against no link, never entering "avoid".
Reached(edges, S, avoid) ==
    LET reach[k \in 0..Cardinality(Nodes)] ==
          IF k = 0 THEN S
          ELSE reach[k - 1] \cup ({e[2] : e \in {d \in edges : d[1] \in reach[k - 1]}} \ {avoid})
    IN  reach[Cardinality(Nodes)]

Edges(L) == {<<l.from, l.to>> : l \in L}

\* From Point A's component, whose output the stimulus replaces.
Forward(L, a) == Reached(Edges(L), {a}, a) \ {a}

\* Those of them that can still reach Point B.
Members(L, a, b) ==
    Reached({<<e[2], e[1]>> : e \in {d \in Edges(L) : d[1] \in Forward(L, a)}}, {b}, a)

Feeds(L, members) == {l \in L : l.to \in members}

\* Mutant: Point A's component may feed the circuit through any of its outputs.
ReproducibleAnyOutput(feeds, members, a) ==
    /\ \A l \in feeds : l.from \in members \cup {a}
    /\ \A l, k \in feeds : l.to = k.to /\ l.in = k.in => l = k
    /\ \A n \in members : Ins[n] <= 1 \/ n \in Switches

(* Every feed is the stimulus, from one output of Point A, or another       *)
(* member; no input has two; only a 2:1 switch has several inputs.          *)
Reproducible(feeds, members, a) ==
    /\ \A l \in feeds : l.from \in members \cup {a}
    /\ \A l, k \in feeds : l.from = a /\ k.from = a => l.out = k.out
    /\ \A l, k \in feeds : l.to = k.to /\ l.in = k.in => l = k
    /\ \A n \in members : Ins[n] <= 1 \/ n \in Switches

\* The topological order; of the components that are ready the first of the
\* graph is next.  In a cycle none is ready.
Order(feeds, members, a) ==
    LET order[i \in 0..Cardinality(members)] ==
          IF i = 0 THEN <<a>>
          ELSE LET done == ToSet(order[i - 1])
                   ready == {n \in members \ done :
                               \A l \in feeds : l.to = n => l.from \in done}
               IN  IF ready = {} THEN order[i - 1] ELSE Append(order[i - 1], Min(ready))
    IN  order[Cardinality(members)]

(* The chain from a to b, or NoChain.  It says all that signature() writes:  *)
(* the components with their settings, the edges and the port of Point B.   *)
Chain(L, val, a, b) ==
    LET members == Members(L, a[1], b[1])
        feeds == Feeds(L, members)
        order == Order(feeds, members, a[1])
        At(n) == CHOOSE i \in DOMAIN order : order[i] = n
    IN  IF \/ a = NoPin \/ b = NoPin
        THEN NoChain
        ELSE IF \/ a[1] = b[1] \/ b[1] \notin Forward(L, a[1])
                \/ ~Reproducible(feeds, members, a[1])
                \/ Len(order) # Cardinality(members) + 1 \/ Last(order) # b[1]
        THEN NoChain
        ELSE [nodes |-> order, values |-> [i \in DOMAIN order |-> val[order[i]]],
              edges |-> {[from |-> At(l.from), out |-> l.out, to |-> At(l.to), in |-> l.in] :
                           l \in feeds},
              port |-> b[2]]

-----------------------------------------------------------------------------
(* The run on clones.  *)

\* prepare(): every edge points forward and feeds an input of its own, its ports
\* exist, and the stimulus is fed somewhere.
Prepared(c) ==
    /\ Len(c.nodes) >= 2
    /\ \A e \in c.edges :
         /\ e.from < e.to /\ e.to \in 2..Len(c.nodes)
         /\ e.in \in 1..Ins[c.nodes[e.to]] /\ e.out \in 1..Outs[c.nodes[e.from]]
         /\ \A d \in c.edges : d.to = e.to /\ d.in = e.in => d = e
    /\ \E e \in c.edges : e.from = 1
    /\ c.port \in 1..Outs[Last(c.nodes)]

Stimulus == <<>>
Silence == <<0>>

\* run(): the clones are updated in order, and the last one is read.
Response(c) ==
    LET out[i \in 1..Len(c.nodes)] ==
          <<c.nodes[i], c.values[i],
            [p \in 1..Ins[c.nodes[i]] |->
               IF \E e \in c.edges : e.to = i /\ e.in = p
               THEN LET e == CHOOSE e \in c.edges : e.to = i /\ e.in = p
                    IN  IF e.from = 1 THEN Stimulus ELSE <<e.out, out[e.from]>>
               ELSE Silence]>>
    IN  <<c.port, out[Len(c.nodes)]>>

-----------------------------------------------------------------------------
(* The user edits the graph and picks the points.  *)

\* canAddLink: an input takes one link, and no cycle is closed.
CanWire(w) ==
    /\ \A l \in links : l.to # w.to \/ l.in # w.in
    /\ w.from \notin Reached(Edges(links), {w.to}, 0)

Wire(w) == CanWire(w) /\ links' = links \cup {w} /\ UNCHANGED <<value, pointA, pointB>>
Unwire(w) == w \in links /\ links' = links \ {w} /\ UNCHANGED <<value, pointA, pointB>>
Tune(n, v) == v # value[n] /\ value' = [value EXCEPT ![n] = v] /\ UNCHANGED <<links, pointA, pointB>>
PickA(p) == p # pointA /\ pointA' = p /\ UNCHANGED <<links, value, pointB>>
PickB(p) == p # pointB /\ pointB' = p /\ UNCHANGED <<links, value, pointA>>

EditCircuit ==
    \/ \E w \in Wires : Wire(w) \/ Unwire(w)
    \/ \E n \in Tuned, v \in Values : Tune(n, v)
PickPoint == \E p \in Pins \cup {NoPin} : PickA(p) \/ PickB(p)

-----------------------------------------------------------------------------
(* The signals of the live circuit when one output of a component carries   *)
(* the stimulus instead of its own: the reference for Response.             *)

LiveSignal(L, val, a, b) ==
    LET Input(n, p, signal) ==
          LET l == CHOOSE l \in L : l.to = n /\ l.in = p
          IN  IF ~\E k \in L : k.to = n /\ k.in = p THEN Silence
              ELSE IF <<l.from, l.out>> = a THEN Stimulus ELSE <<l.out, signal[l.from]>>
        out[k \in 0..Cardinality(Nodes)] ==
          [n \in Nodes |->
             IF k = 0 THEN <<n>>
             ELSE <<n, val[n], [p \in 1..Ins[n] |-> Input(n, p, out[k - 1])]>>]
    IN  <<b[2], out[Cardinality(Nodes)][b[1]]>>

(* What the clones give at Point B is what the live circuit would give there *)
(* with the stimulus at one output of Point A's component, through splitters *)
(* and switched banks, with branches that lead elsewhere and with signals    *)
(* from outside; and a chain that is found can be prepared.                  *)
MeasuredIsTheCircuit ==
    LET c == Chain(links, value, pointA, pointB)
    IN  c # NoChain =>
          /\ Prepared(c)
          /\ \E o \in 1..Outs[pointA[1]] :
               Response(c) = LiveSignal(links, value, <<pointA[1], o>>, pointB)
=============================================================================
