------------------------------ MODULE Circuit ------------------------------
(***************************************************************************)
(* The circuit: CircuitRuntime (app/src/circuit_runtime.cpp), which owns   *)
(* the node graph and the components, the rewiring of their inputs         *)
(* (node_graph/src/rewire.cpp) and the replacement of a placed part        *)
(* (EditorCommands::swapLibraryPart).  A circuit is a record of            *)
(*   graph    the node graph                                               *)
(*   comps    the component of each graph node: its type, its component    *)
(*            id, and who it is: the node it was first created under, which *)
(*            only the properties read                                     *)
(*   wiring   the output each component's input reads, named by its pin    *)
(*   nextCid  the next component id                                        *)
(*   epoch    how many times the circuit was replaced                      *)
(***************************************************************************)
EXTENDS NodeGraph

CONSTANT Ports   \* the number of inputs and outputs of each component type

Types == DOMAIN Ports
ASSUME PortsAssumption == \A t \in Types : Ports[t].ins \in Nat /\ Ports[t].outs \in Nat
FirstCid == 100

EmptyCircuit(epoch) ==
  [graph |-> EmptyGraph, comps |-> << >>, wiring |-> << >>,
   nextCid |-> FirstCid, epoch |-> epoch]

-----------------------------------------------------------------------------
(* Links *)

TypeOfPin(c, pin) ==
  LET n == NodeOf(c.graph, pin) IN IF n = NoId THEN NoId ELSE c.comps[n].type

\* A PFB channelizer takes its input from an ADC only.
GraphLinkAllowed(c, start, end) ==
  TypeOfPin(c, end) = "pfb" =>
    /\ TypeOfPin(c, start) = "adc"
    /\ start = c.graph.nodes[NodeOf(c.graph, start)].outs[1]
    /\ end = c.graph.nodes[NodeOf(c.graph, end)].ins[1]

\* rewireComponentInputs: the first link into an input, when it is usable
Rewire(c) ==
  LET into(pin) == {l \in c.graph.links : l.end = pin /\ l.start \in OutPins(c.graph)}
      first(pin) == CHOOSE l \in into(pin) : \A m \in into(pin) : l.id <= m.id
  IN  [c EXCEPT !.wiring = [pin \in InPins(c.graph) |->
         IF into(pin) # {} /\ GraphLinkAllowed(c, first(pin).start, pin)
         THEN first(pin).start ELSE NoId]]

CanConnect(c, start, end) ==
  /\ start \in OutPins(c.graph)
  /\ end \in InPins(c.graph)
  /\ GraphLinkAllowed(c, start, end)
  /\ CanAddLink(c.graph, start, end)
Connect(c, start, end) == Rewire([c EXCEPT !.graph = AddLink(@, start, end)])
Disconnect(c, id) == Rewire([c EXCEPT !.graph = RemoveLink(@, id)])

-----------------------------------------------------------------------------
(* Components *)

Create(c, type, cid, who) ==
  LET n == c.graph.nextNode
      g == AddNode(c.graph, Ports[type].ins, Ports[type].outs)
      inputs == ToSet(g.nodes[n].ins)
  IN  [c EXCEPT
         !.graph = g,
         !.comps = [m \in DOMAIN @ \cup {n} |->
                      IF m = n THEN [type |-> type, cid |-> cid, who |-> who] ELSE c.comps[m]],
         !.wiring = [p \in DOMAIN @ \cup inputs |-> IF p \in inputs THEN NoId ELSE c.wiring[p]]]

\* createComponent: the component id is consumed whether or not it stays.
CreateComponent(c, type) ==
  Create([c EXCEPT !.nextCid = @ + 1], type, c.nextCid, <<c.epoch, c.graph.nextNode>>)

RemoveComponent(c, n) ==
  IF n \notin DOMAIN c.comps THEN c
  ELSE Rewire([c EXCEPT !.graph = RemoveNode(@, n),
                        !.comps = [m \in DOMAIN @ \ {n} |-> c.comps[m]]])

\* A component that is created and then refused: its parameters are invalid,
\* or a malformed record of a file fails half way.
CreateAndDiscard(c, type) == RemoveComponent(CreateComponent(c, type), c.graph.nextNode)

-----------------------------------------------------------------------------
(* swapLibraryPart *)

\* The successor takes the component id; ports pair by index.
Successor(c, n, type) == Create(c, type, c.comps[n].cid, c.comps[n].who)
PinMap(old, new) ==
  LET paired(olds, news) == 1..Min({Len(olds), Len(news)})
      ins == paired(old.ins, new.ins)
      outs == paired(old.outs, new.outs)
  IN  [pin \in {old.ins[i] : i \in ins} \cup {old.outs[i] : i \in outs} |->
         IF \E i \in ins : old.ins[i] = pin
         THEN new.ins[CHOOSE i \in ins : old.ins[i] = pin]
         ELSE new.outs[CHOOSE i \in outs : old.outs[i] = pin]]
SwapMap(c, n, type) ==
  PinMap(c.graph.nodes[n], Successor(c, n, type).graph.nodes[c.graph.nextNode])

LinksOf(c, n) == {l \in c.graph.links : {l.start, l.end} \cap PinsOf(c.graph, n) # {}}
InOrder(links) ==
  CHOOSE s \in [1..Cardinality(links) -> links] :
    \A i, j \in DOMAIN s : i < j => s[i].id < s[j].id

\* No port in use is lost, and the link policy allows the new links.
MapFits(c, n, made, map, links, instrumentPins) ==
  /\ ((UNION {{l.start, l.end} : l \in links}) \cup ToSet(c.graph.probes) \cup instrumentPins)
        \cap PinsOf(c.graph, n) \subseteq DOMAIN map
  /\ \A l \in links : GraphLinkAllowed(made, Mapped(map, l.start), Mapped(map, l.end))
SwapFits(c, n, type, instrumentPins) ==
  MapFits(c, n, Successor(c, n, type), SwapMap(c, n, type), LinksOf(c, n), instrumentPins)

\* One after the other; what the last of them rewires is what is left.
DetachAll(c, links) == Rewire([c EXCEPT !.graph.links = @ \ links])

\* The successor's links, attached in the order of the old ones until one is
\* rejected.
AttachOne(acc, start, end) ==
  IF acc.ok /\ CanConnect(acc.circuit, start, end)
  THEN [acc EXCEPT !.circuit = Connect(@, start, end)]
  ELSE [acc EXCEPT !.ok = FALSE]
AttachAll(detached, map, links) ==
  LET attached[i \in 0..Len(links)] ==
        IF i = 0 THEN [ok |-> TRUE, circuit |-> detached]
        ELSE AttachOne(attached[i - 1], Mapped(map, links[i].start), Mapped(map, links[i].end))
  IN  attached[Len(links)]
Attach(c, n, type) ==
  AttachAll(DetachAll(Successor(c, n, type), LinksOf(c, n)), SwapMap(c, n, type),
            InOrder(LinksOf(c, n)))

\* What the code does if a link is rejected: the old wiring again.
ConnectAgain(c, l) == IF CanConnect(c, l.start, l.end) THEN Connect(c, l.start, l.end) ELSE c
ReattachTo(failed, links, new) ==
  RemoveComponent(FoldLeft(ConnectAgain, DetachAll(failed, LinksOf(failed, new)), links), new)
Reattach(c, n, type) ==
  ReattachTo(Attach(c, n, type).circuit, InOrder(LinksOf(c, n)), c.graph.nextNode)

\* Mutant: the boundary pins are not rebuilt.
TopologyIgnored(c) == c
TopologyChanged(c) == [c EXCEPT !.graph = RebuildBoundaries(@)]
SwapComponent(c, n, type) ==
  LET attached == Attach(c, n, type).circuit
      repointed == [attached EXCEPT
                      !.graph = RemapNode(@, n, c.graph.nextNode, SwapMap(c, n, type))]
  IN  TopologyChanged(RemoveComponent(repointed, n))
DiscardSuccessor(c, n, type) == RemoveComponent(Successor(c, n, type), c.graph.nextNode)

-----------------------------------------------------------------------------
\* clearComponentsAndResetIds and resetForProjectReplacement
Reset(c) == EmptyCircuit(c.epoch + 1)
=============================================================================
