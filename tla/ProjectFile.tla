---------------------------- MODULE ProjectFile ----------------------------
(***************************************************************************)
(* Project files and agent checkpoints: ProjectSerializer::toJson and      *)
(* fromJson in app/src/project_serializer.cpp.  A file names a component   *)
(* by its place in the file and a pin by its component and port, since     *)
(* node and pin ids start again in every circuit.                          *)
(***************************************************************************)
EXTENDS Circuit

IndexIn(seq, x) == CHOOSE i \in DOMAIN seq : seq[i] = x

\* Ids only grow, so the registry holds the components in the order of
\* their nodes.
Order(c) == Ascending(DOMAIN c.comps)

-----------------------------------------------------------------------------
(* Writing *)

\* pin_map of toJson; a pin that is not in the circuit has no place in a file
RecordOf(node, place, pin) ==
  LET out == pin \in ToSet(node.outs)
  IN  [comp |-> place, out |-> out, port |-> IndexIn(IF out THEN node.outs ELSE node.ins, pin)]
PinRecord(c, order, pin) ==
  IF \E i \in DOMAIN order : pin \in PinsOf(c.graph, order[i])
  THEN LET i == CHOOSE i \in DOMAIN order : pin \in PinsOf(c.graph, order[i])
       IN  RecordOf(c.graph.nodes[order[i]], i, pin)
  ELSE NoId

\* place is where each node is drawn, params what its component is set to,
\* points the instruments' pins.
CaptureInOrder(c, place, params, points, order, links, gids) ==
  [comps  |-> [i \in DOMAIN order |->
                 [type |-> c.comps[order[i]].type, pos |-> place[order[i]],
                  params |-> params[order[i]]]],
   links  |-> [i \in DOMAIN links |->
                 [from |-> PinRecord(c, order, links[i].start),
                  to   |-> PinRecord(c, order, links[i].end)]],
   probes |-> [i \in DOMAIN c.graph.probes |-> PinRecord(c, order, c.graph.probes[i])],
   points |-> [w \in DOMAIN points |-> PinRecord(c, order, points[w])],
   groups |-> [i \in DOMAIN gids |->
                 [members   |-> {IndexIn(order, n) : n \in c.graph.groups[gids[i]].members},
                  collapsed |-> c.graph.groups[gids[i]].collapsed]],
   nextCid |-> c.nextCid]
Capture(c, place, params, points) ==
  CaptureInOrder(c, place, params, points, Order(c), InOrder(c.graph.links),
                 Ascending(DOMAIN c.graph.groups))

-----------------------------------------------------------------------------
(* Reading *)

\* Mutant: a lost record has the node of the record before it.
RestoreStale(acc, type, fate) ==
  IF fate = "restored"
  THEN [circuit |-> CreateComponent(acc.circuit, type),
        nodes |-> Append(acc.nodes, acc.circuit.graph.nextNode)]
  ELSE [acc EXCEPT !.nodes = Append(@, IF @ = << >> THEN NoId ELSE Last(@))]
\* fate says what happens to a record: it is restored, skipped before a
\* component is made of it, or made and removed.
RestoreComponent(acc, type, fate) ==
  CASE fate = "restored" ->
         [circuit |-> CreateComponent(acc.circuit, type),
          nodes |-> Append(acc.nodes, acc.circuit.graph.nextNode)]
    [] fate = "skipped" -> [acc EXCEPT !.nodes = Append(@, NoId)]
    [] fate = "discarded" ->
         [circuit |-> CreateAndDiscard(acc.circuit, type), nodes |-> Append(acc.nodes, NoId)]
\* What became of the components of the file: new_node_ids, with NoId for a
\* record that is skipped.
RestoreComponents(c, comps, fate) ==
  LET made[i \in 0..Len(comps)] ==
        IF i = 0 THEN [circuit |-> c, nodes |-> << >>]
        ELSE RestoreComponent(made[i - 1], comps[i].type, fate[i])
  IN  made[Len(comps)]
\* The pin a record names, through new_node_ids; a component of another shape
\* may lack the port.
PinAt(c, nodes, record) ==
  IF record = NoId THEN NoId
  ELSE IF nodes[record.comp] = NoId THEN NoId
  ELSE LET node == c.graph.nodes[nodes[record.comp]]
           pins == IF record.out THEN node.outs ELSE node.ins
       IN  IF record.port \in DOMAIN pins THEN pins[record.port] ELSE NoId

ConnectIfAllowed(c, start, end) ==
  IF start # NoId /\ end # NoId /\ CanConnect(c, start, end) THEN Connect(c, start, end) ELSE c
RestoreLinks(c, nodes, links) ==
  LET linked[i \in 0..Len(links)] ==
        IF i = 0 THEN c
        ELSE ConnectIfAllowed(linked[i - 1], PinAt(c, nodes, links[i].from),
                              PinAt(c, nodes, links[i].to))
  IN  linked[Len(links)]

ProbeIfAllowed(g, pin) == IF pin # NoId /\ CanProbe(g, pin) THEN AddProbe(g, pin) ELSE g
RestoreProbes(c, nodes, probes) ==
  LET probed[i \in 0..Len(probes)] ==
        IF i = 0 THEN c.graph ELSE ProbeIfAllowed(probed[i - 1], PinAt(c, nodes, probes[i]))
  IN  [c EXCEPT !.graph = probed[Len(probes)]]

\* Mutant: every subcircuit comes back collapsed.
GroupCollapsed(g, members, collapsed) == IF CanGroup(g, members) THEN AddGroup(g, members) ELSE g
GroupIfAllowed(g, members, collapsed) ==
  IF CanGroup(g, members)
  THEN SetCollapsed(AddGroup(g, members), g.nextGroup, collapsed)
  ELSE g
MembersAt(nodes, record) == {nodes[i] : i \in record.members} \ {NoId}
RestoreGroups(c, nodes, groups) ==
  LET grouped[i \in 0..Len(groups)] ==
        IF i = 0 THEN c.graph
        ELSE GroupIfAllowed(grouped[i - 1], MembersAt(nodes, groups[i]), groups[i].collapsed)
  IN  [c EXCEPT !.graph = grouped[Len(groups)]]

\* The counter keeps what the reconstruction consumed.
RestoreCounter(c, saved) == [c EXCEPT !.nextCid = Max({@, saved})]

\* The last of fromJson: the subcircuits, where the nodes are, the points of
\* the instruments.  (The parameters were set as each component was made.)
RestoreRest(probed, nodes, file) ==
  [circuit |-> RestoreCounter(TopologyChanged(RestoreGroups(probed, nodes, file.groups)),
                              file.nextCid),
   place |-> [n \in ToSet(nodes) \ {NoId} |-> file.comps[IndexIn(nodes, n)].pos],
   params |-> [n \in ToSet(nodes) \ {NoId} |-> file.comps[IndexIn(nodes, n)].params],
   points |-> [w \in DOMAIN file.points |-> PinAt(probed, nodes, file.points[w])]]
RestoreOnto(made, file) ==
  RestoreRest(RestoreProbes(RestoreLinks(made.circuit, made.nodes, file.links),
                            made.nodes, file.probes),
              made.nodes, file)

\* fromJson after its checks: what the circuit c becomes.
Restore(c, file, fate) == RestoreOnto(RestoreComponents(Reset(c), file.comps, fate), file)

-----------------------------------------------------------------------------
\* The file without some of its components, by what a reader expects of a
\* damaged record: it takes along what refers to it and nothing else.
Without(file, lost) ==
  LET kept == Ascending(DOMAIN file.comps \ lost)
      renamed(record) == [record EXCEPT !.comp = IndexIn(kept, @)]
      keeps(record) == record # NoId /\ record.comp \notin lost
      links == SelectSeq(file.links, LAMBDA l : keeps(l.from) /\ keeps(l.to))
      probes == SelectSeq(file.probes, LAMBDA p : keeps(p))
      groups == SelectSeq(file.groups, LAMBDA g : Cardinality(g.members \ lost) >= 2)
  IN  [comps  |-> [i \in DOMAIN kept |-> file.comps[kept[i]]],
       links  |-> [i \in DOMAIN links |->
                     [from |-> renamed(links[i].from), to |-> renamed(links[i].to)]],
       probes |-> [i \in DOMAIN probes |-> renamed(probes[i])],
       points |-> [w \in DOMAIN file.points |->
                     IF keeps(file.points[w]) THEN renamed(file.points[w]) ELSE NoId],
       groups |-> [i \in DOMAIN groups |->
                     [groups[i] EXCEPT !.members = {IndexIn(kept, m) : m \in @ \ lost}]],
       nextCid |-> file.nextCid]
=============================================================================
