----------------------------- MODULE NodeGraph -----------------------------
(***************************************************************************)
(* The node graph: NodeGraphEngine in node_graph/src/node_graph_engine.cpp *)
(* as operators on a graph, a record of                                    *)
(*   nodes     what each node's input and output pins are                  *)
(*   links     the links; a link's id is larger than those of older links, *)
(*             so the order of the ids is the order of the vector          *)
(*   probes    the probed pins, by slot                                    *)
(*   groups    each subcircuit's members, and its boundary pins            *)
(*   cache     which groups a node is in, as pairs                         *)
(*   selected  the selected group                                          *)
(*   nextNode, nextPin, nextLink, nextGroup   the counters of the ids      *)
(* Labels are left out.  A boundary pin is named by its link: the code     *)
(* gives it a number nothing else has.                                     *)
(***************************************************************************)
EXTENDS Integers, Sequences, FiniteSets, SequencesExt, FiniteSetsExt

CONSTANTS MaxProbes, NoId
ASSUME ProbesAssumption == MaxProbes \in Nat
ASSUME NoIdAssumption == NoId \notin Nat

Ascending(ids) ==
  CHOOSE s \in [1..Cardinality(ids) -> ids] : \A i, j \in DOMAIN s : i < j => s[i] < s[j]

-----------------------------------------------------------------------------
(* Nodes and pins *)

InPins(g)  == UNION {ToSet(g.nodes[n].ins) : n \in DOMAIN g.nodes}
OutPins(g) == UNION {ToSet(g.nodes[n].outs) : n \in DOMAIN g.nodes}
PinsOf(g, n) == ToSet(g.nodes[n].ins) \cup ToSet(g.nodes[n].outs)

\* nodeIdForPin
NodeOf(g, pin) ==
  IF \E n \in DOMAIN g.nodes : pin \in PinsOf(g, n)
  THEN CHOOSE n \in DOMAIN g.nodes : pin \in PinsOf(g, n)
  ELSE NoId

AddNode(g, inputs, outputs) ==
  [g EXCEPT
     !.nodes = [n \in DOMAIN @ \cup {g.nextNode} |->
                  IF n = g.nextNode
                  THEN [ins  |-> [i \in 1..inputs |-> g.nextPin + i - 1],
                        outs |-> [i \in 1..outputs |-> g.nextPin + inputs + i - 1]]
                  ELSE g.nodes[n]],
     !.nextNode = @ + 1,
     !.nextPin = @ + inputs + outputs]

-----------------------------------------------------------------------------
(* Links *)

AddLink(g, start, end) ==
  [g EXCEPT !.links = @ \cup {[id |-> g.nextLink, start |-> start, end |-> end]},
            !.nextLink = @ + 1]

RemoveLink(g, id) == [g EXCEPT !.links = {l \in @ : l.id # id}]

Edges(g) == {<<NodeOf(g, l.start), NodeOf(g, l.end)>> : l \in g.links}

\* The walk of wouldCreateCycle visits the least set of nodes that has its
\* first node and is closed under the links.
ClosedUnder(edges, S) == \A e \in edges : e[1] \in S => e[2] \in S
Visited(g, n) ==
  {m \in DOMAIN g.nodes :
     \A S \in SUBSET DOMAIN g.nodes : n \in S /\ ClosedUnder(Edges(g), S) => m \in S}

\* Mutant: only the node's own outputs are looked at.
WouldLoopOnItself(g, start, end) ==
  NodeOf(g, start) = NodeOf(g, end) /\ NodeOf(g, end) # NoId
WouldCreateCycle(g, start, end) ==
  LET from == NodeOf(g, start)
      to == NodeOf(g, end)
  IN  from # NoId /\ to # NoId /\ (from = to \/ from \in Visited(g, to))

\* No set of nodes feeds itself: each has a node no other of the set feeds.
Acyclic(edges, nodes) ==
  \A S \in (SUBSET nodes) \ {{}} : \E n \in S : \A m \in S : <<m, n>> \notin edges

InputHasLink(g, pin) == \E l \in g.links : l.end = pin

CanAddLink(g, start, end) == ~InputHasLink(g, end) /\ ~WouldCreateCycle(g, start, end)

-----------------------------------------------------------------------------
(* Probes *)

CanProbe(g, pin) == pin \notin ToSet(g.probes) /\ Len(g.probes) < MaxProbes
AddProbe(g, pin) == [g EXCEPT !.probes = Append(@, pin)]
\* The other probes move up.
RemoveProbes(g, pins) ==
  LET kept == Ascending({i \in DOMAIN g.probes : g.probes[i] \notin pins})
  IN  [g EXCEPT !.probes = [i \in DOMAIN kept |-> @[kept[i]]]]

-----------------------------------------------------------------------------
(* Groups *)

\* rebuildNodeToGroupCache
CacheOf(groups) ==
  UNION {{<<n, gid>> : n \in groups[gid].members} : gid \in DOMAIN groups}
RebuildCache(g) == [g EXCEPT !.cache = CacheOf(g.groups)]

\* rebuildGroupBoundaryPins: one pin for each link that crosses the boundary
BoundaryPins(g, members) ==
  {[link |-> l.id, out |-> NodeOf(g, l.start) \in members,
    pin |-> IF NodeOf(g, l.start) \in members THEN l.start ELSE l.end] :
      l \in {x \in g.links :
               (NodeOf(g, x.start) \in members) # (NodeOf(g, x.end) \in members)}}
RebuildBoundary(g, gid) ==
  [g EXCEPT !.groups[gid].pins = BoundaryPins(g, g.groups[gid].members)]
\* GraphEditorActions::topologyChanged: those of all groups
RebuildBoundaries(g) ==
  [g EXCEPT !.groups = [gid \in DOMAIN @ |->
     [@[gid] EXCEPT !.pins = BoundaryPins(g, g.groups[gid].members)]]]

CanGroup(g, members) ==
  /\ Cardinality(members) >= 2
  /\ members \subseteq DOMAIN g.nodes
  /\ \A pair \in g.cache : pair[1] \notin members
AddGroup(g, members) ==
  LET added == [g EXCEPT
                  !.groups = [gid \in DOMAIN @ \cup {g.nextGroup} |->
                                IF gid = g.nextGroup
                                THEN [members |-> members, collapsed |-> TRUE, pins |-> {}]
                                ELSE g.groups[gid]],
                  !.nextGroup = @ + 1]
  IN  RebuildBoundary(RebuildCache(added), g.nextGroup)

DropGroups(g, gids) ==
  [g EXCEPT !.groups = [gid \in DOMAIN @ \ gids |-> g.groups[gid]],
            !.selected = IF @ \in gids THEN NoId ELSE @]
RemoveGroup(g, gid) == RebuildCache(DropGroups(g, {gid}))

SetCollapsed(g, gid, collapsed) ==
  LET set == [g EXCEPT !.groups[gid].collapsed = collapsed]
  IN  IF collapsed THEN RebuildBoundary(set, gid) ELSE [set EXCEPT !.groups[gid].pins = {}]

-----------------------------------------------------------------------------
(* Removing and replacing a node *)

\* removeNodeAt: its links, its probes and its memberships go with it, and
\* the groups that are left with fewer than two members.
RemoveNode(g, n) ==
  LET pins == PinsOf(g, n)
      unlinked ==
        [RemoveProbes(g, pins) EXCEPT
           !.links = {l \in g.links : l.start \notin pins /\ l.end \notin pins},
           !.nodes = [m \in DOMAIN g.nodes \ {n} |-> g.nodes[m]],
           !.groups = [gid \in DOMAIN g.groups |->
                         [g.groups[gid] EXCEPT !.members = @ \ {n}]]]
      small == {gid \in DOMAIN g.groups : Cardinality(unlinked.groups[gid].members) < 2}
  IN  RebuildBoundaries(RebuildCache(DropGroups(unlinked, small)))

Mapped(map, pin) == IF pin \in DOMAIN map THEN map[pin] ELSE pin
RemapMembers(group, old, new) ==
  [group EXCEPT !.members = {IF m = old THEN new ELSE m : m \in group.members}]
\* remapNodeReferences
RemapNode(g, old, new, pinMap) ==
  RebuildCache(
    [g EXCEPT
       !.probes = [i \in DOMAIN g.probes |-> Mapped(pinMap, g.probes[i])],
       !.groups = [gid \in DOMAIN g.groups |-> RemapMembers(g.groups[gid], old, new)]])

-----------------------------------------------------------------------------
\* The graph before any edit, with the counters where a reset puts them.
FirstPin == 100
FirstLink == 1000
FirstGroup == 50000
EmptyGraph ==
  [nodes |-> << >>, links |-> {}, probes |-> << >>, groups |-> << >>, cache |-> {},
   selected |-> NoId,
   nextNode |-> 1, nextPin |-> FirstPin, nextLink |-> FirstLink, nextGroup |-> FirstGroup]
=============================================================================
