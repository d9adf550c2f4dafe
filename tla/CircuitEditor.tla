--------------------------- MODULE CircuitEditor ---------------------------
(***************************************************************************)
(* The editor: EditorCommands (app/src/editor_commands.cpp) and the parts  *)
(* of RfSimulatorApp (app/src/app.cpp) that replace the project, around    *)
(* one circuit, with what belongs to it outside the graph: the parameters  *)
(* of the components, the positions of the nodes and which one is          *)
(* selected, the layout's undo record, the instruments' points, the views  *)
(* of the PFB channelizers, the project's file and an agent's checkpoint.  *)
(* Everything runs on the frame loop's thread: one action per command.     *)
(***************************************************************************)
EXTENDS ProjectFile

CONSTANTS
  Positions,      \* where a node can be drawn
  Settings,       \* what the parameters of a component can be, but for
  Channels,       \* the active channel, which is a parameter of a PFB
  Points,         \* the Network Analyzer's points, which the file keeps
  Meters,         \* the power meter, whose source the file does not keep
  \* bounds of the exploration, not of the code
  Kept,                            \* the snapshots taken: "file", "checkpoint"
  MaxNodes, MaxLinks, MaxGroups,   \* ids handed out in one circuit
  MaxRevision, MaxEpoch
ASSUME InstrumentsAssumption == Points \cap Meters = {}
ASSUME SeedAssumption == {"generator", "amplifier"} \subseteq Types
ASSUME PositionsAssumption == Positions # {}
ASSUME ParamsAssumption == Settings # {} /\ Channels # {}
ASSUME BoundsAssumption == MaxRevision \in Nat /\ MaxEpoch \in Nat

VARIABLES
  circuit,
  place,        \* the position of each node
  params,       \* what each component is set to
  selection,    \* the only node that is selected, which the inspector shows
  views,        \* the PFB views: the node each is keyed by, and its engine
  watch,        \* the pin each instrument is set to, and what was meant
  revision, clean,
  undo, undoRevision,
  file,         \* the project's file
  checkpoint,   \* the agent's latest checkpoint
  baseline      \* history: what the circuit was when it last became clean
vars == <<circuit, place, params, selection, views, watch, revision, clean, undo, undoRevision,
          file, checkpoint, baseline>>

NoChannel == CHOOSE ch \in Channels : TRUE   \* of a component that has none
Default == [setting |-> CHOOSE x \in Settings : TRUE, channel |-> NoChannel]

Instruments == Points \cup Meters
Nodes == DOMAIN circuit.comps
LivePins == InPins(circuit.graph) \cup OutPins(circuit.graph)
Dirty == revision # clean

-----------------------------------------------------------------------------
(* What the properties compare *)

\* Who a pin belongs to and which port it is: a replaced part stays who it is.
PortOf(c, pin) ==
  LET n == NodeOf(c.graph, pin)
      outs == c.graph.nodes[n].outs
      out == pin \in ToSet(outs)
  IN  [who |-> c.comps[n].who, out |-> out,
       port |-> IndexIn(IF out THEN outs ELSE c.graph.nodes[n].ins, pin)]

Unset == [pin |-> NoId, meant |-> NoId]
SetTo(pin) == IF pin = NoId THEN Unset ELSE [pin |-> pin, meant |-> PortOf(circuit, pin)]

CaptureOf(c, pos, par, w) == Capture(c, pos, par, [p \in Points |-> w[p].pin])
Captured == CaptureOf(circuit, place, params, watch)

-----------------------------------------------------------------------------
(* Side effects of the commands *)

MarkModified == revision < MaxRevision /\ revision' = revision + 1 /\ clean' = clean
MarkClean == clean' = revision /\ revision' = revision

\* PFBViewManager::sync: a view whose node is still there is kept.
Pfbs(c) == {n \in DOMAIN c.comps : c.comps[n].type = "pfb"}
SyncViews(old, c) ==
  {v \in old : v.node \in Pfbs(c)}
    \cup {[node |-> n, engine |-> <<c.epoch, n>>] : n \in Pfbs(c) \ {v.node : v \in old}}

\* Mutant: a reset that leaves it.
KeptUndo(old) == old
\* What reset() does to the views before the engines are destroyed, and
\* clearLayoutUndo
ClearedViews(old) == {}
ClearedUndo(old) == {}

\* f of the nodes with n, without n, and with its successor in n's place
With(f, n, x) == [m \in DOMAIN f \cup {n} |-> IF m = n THEN x ELSE f[m]]
But(f, n) == [m \in DOMAIN f \ {n} |-> f[m]]

\* The parameters that a component of a type can have
AllParams == [setting : Settings, channel : Channels]
ParamsOf(type) == {p \in AllParams : type # "pfb" => p.channel = NoChannel}

\* A selected node that is gone is not shown by the inspector.
Shown(sel, c) == IF sel \in DOMAIN c.comps THEN sel ELSE NoId

Seed(epoch) ==
  CreateComponent(CreateComponent(EmptyCircuit(epoch), "generator"), "amplifier")
Home == CHOOSE p \in Positions : TRUE
SeedPlace == [n \in {1, 2} |-> Home]
SeedParams == [n \in {1, 2} |-> Default]

Init ==
  /\ circuit = Seed(0)
  /\ place = SeedPlace /\ params = SeedParams /\ selection = NoId
  /\ views = {}
  /\ watch = [w \in Instruments |-> Unset]
  /\ revision = 0 /\ clean = 0
  /\ undo = {} /\ undoRevision = 0
  /\ file = NoId /\ checkpoint = NoId
  /\ baseline = Captured

-----------------------------------------------------------------------------
(* Components *)

RoomForNode == circuit.graph.nextNode <= MaxNodes
Others == <<undo, undoRevision, file, checkpoint, baseline>>

\* createComponent, addLibraryPart, duplicateComponent: every way of placing
\* one more component that succeeds
AddComponent(type, pos, p) ==
  /\ RoomForNode
  /\ circuit' = CreateComponent(circuit, type)
  /\ place' = With(place, circuit.graph.nextNode, pos)
  /\ params' = With(params, circuit.graph.nextNode, p)
  /\ views' = SyncViews(views, circuit')
  /\ MarkModified
  /\ UNCHANGED <<selection, watch, Others>>

\* createComponentWithParams and addLibraryPart with invalid parameters
RefuseComponent(type) ==
  /\ RoomForNode
  /\ circuit' = CreateAndDiscard(circuit, type)
  /\ UNCHANGED <<place, params, selection, views, watch, revision, clean, Others>>

RemoveNodeComponent(n) ==
  /\ circuit' = TopologyChanged(RemoveComponent(circuit, n))
  /\ place' = But(place, n) /\ params' = But(params, n)
  /\ selection' = Shown(selection, circuit')
  /\ views' = SyncViews(views, circuit')
  /\ MarkModified
  /\ UNCHANGED <<watch, Others>>

InstrumentPins == {watch[w].pin : w \in Instruments} \ {NoId}

\* Mutant: the successor is left where a new component is put.
PlacedAtHome(n, new) == With(But(place, n), new, Home)
\* setNodeEditorSpacePosition of the successor, which no command can see
PlacedAsWas(n, new) == With(But(place, n), new, place[n])

\* RfSimulatorApp::swapLibraryPart: the command, then what the app keeps.  The
\* parameters are those of the library, and the new part is what is selected.
SwapPart(n, type, p) ==
  /\ RoomForNode
  /\ circuit.graph.nextLink - FirstLink + Cardinality(LinksOf(circuit, n)) <= MaxLinks
  /\ SwapFits(circuit, n, type, InstrumentPins)
  /\ Attach(circuit, n, type).ok
  /\ circuit' = SwapComponent(circuit, n, type)
  /\ LET map == SwapMap(circuit, n, type)
         moved == [w \in Instruments |-> [watch[w] EXCEPT !.pin = Mapped(map, @)]]
     IN  watch' = moved
  /\ place' = PlacedAsWas(n, circuit.graph.nextNode)
  /\ params' = With(But(params, n), circuit.graph.nextNode, p)
  /\ selection' = circuit.graph.nextNode
  /\ views' = SyncViews(views, circuit')
  /\ MarkModified
  /\ UNCHANGED Others

\* A successor that does not fit is discarded before anything is rewired; the
\* second case is the way back the code calls unreachable.
RefuseSwap(n, type) ==
  /\ RoomForNode
  /\ IF ~SwapFits(circuit, n, type, InstrumentPins)
     THEN circuit' = DiscardSuccessor(circuit, n, type)
     ELSE ~Attach(circuit, n, type).ok /\ circuit' = Reattach(circuit, n, type)
  /\ UNCHANGED <<place, params, selection, views, watch, revision, clean, Others>>

\* Mutant: an edit of the inspector that forgets onParamChange.
SetParamsUnmarked(n, p) ==
  /\ params' = [params EXCEPT ![n] = p]
  /\ UNCHANGED <<circuit, place, selection, views, watch, revision, clean, Others>>
\* A field of the inspector, the PFB calculator, or setComponentParams
SetParams(n, p) ==
  /\ params' = [params EXCEPT ![n] = p]
  /\ MarkModified
  /\ UNCHANGED <<circuit, place, selection, views, watch, Others>>

\* A click on a cell of a PFB's channelizer grid
ClickChannel(v, ch) ==
  /\ params' = [params EXCEPT ![v.node].channel = ch]
  /\ UNCHANGED <<circuit, place, selection, views, watch, revision, clean, Others>>

-----------------------------------------------------------------------------
(* Links, probes and groups *)

\* A command that changes the circuit and nothing around it
Edit(c) ==
  /\ circuit' = c
  /\ MarkModified
  /\ UNCHANGED <<place, params, selection, views, watch, Others>>

ConnectPins(start, end) ==
  /\ circuit.graph.nextLink - FirstLink < MaxLinks
  /\ CanConnect(circuit, start, end)
  /\ Edit(TopologyChanged(Connect(circuit, start, end)))
DisconnectLink(id) == Edit(TopologyChanged(Disconnect(circuit, id)))

GraphEdit(g) == Edit([circuit EXCEPT !.graph = g])
AddProbePin(pin) == CanProbe(circuit.graph, pin) /\ GraphEdit(AddProbe(circuit.graph, pin))
RemoveProbePin(pin) == GraphEdit(RemoveProbes(circuit.graph, {pin}))

CreateGroup(members) ==
  /\ circuit.graph.nextGroup - FirstGroup < MaxGroups
  /\ CanGroup(circuit.graph, members)
  /\ GraphEdit(AddGroup(circuit.graph, members))
RemoveGroupOf(gid) == GraphEdit(RemoveGroup(circuit.graph, gid))
CollapseGroup(gid, collapsed) == GraphEdit(SetCollapsed(circuit.graph, gid, collapsed))
\* A click on a collapsed block, or on a node or beside all of them (NoId),
\* which is all of the selection then
Click(gid, sel) ==
  /\ circuit' = [circuit EXCEPT !.graph.selected = gid]
  /\ selection' = sel
  /\ UNCHANGED <<place, params, views, watch, revision, clean, Others>>
SelectGroup(gid) == Click(gid, NoId)
SelectNode(n) == Click(NoId, n)

-----------------------------------------------------------------------------
(* Layout *)

Hidden(n) ==
  \E gid \in DOMAIN circuit.graph.groups :
    <<n, gid>> \in circuit.graph.cache /\ circuit.graph.groups[gid].collapsed

Moved(moves) == {n \in DOMAIN moves : place[n] # moves[n]}
Reposition(moves) == [n \in DOMAIN place |-> IF n \in DOMAIN moves THEN moves[n] ELSE place[n]]

\* meant and to are history: who the node was, and where it was moved to.
UndoRecord(moves) ==
  {[node |-> n, from |-> place[n], meant |-> circuit.comps[n].who, to |-> moves[n]] :
     n \in Moved(moves)}

MoveNodes(moves) ==
  /\ \A n \in DOMAIN moves : n \in Nodes /\ ~Hidden(n)
  /\ Moved(moves) # {}
  /\ place' = Reposition(moves)
  /\ MarkModified
  /\ undo' = UndoRecord(moves)
  /\ undoRevision' = revision'
  /\ UNCHANGED <<circuit, params, selection, views, watch, file, checkpoint, baseline>>

CanUndoLayout == undo # {} /\ undoRevision = revision
UndoLayout ==
  /\ CanUndoLayout
  /\ \A r \in undo : r.node \in DOMAIN circuit.graph.nodes
  /\ place' = [n \in DOMAIN place |->
                 IF \E r \in undo : r.node = n THEN (CHOOSE r \in undo : r.node = n).from
                 ELSE place[n]]
  /\ undo' = {}
  /\ MarkModified
  /\ UNCHANGED <<circuit, params, selection, views, watch, undoRevision, file, checkpoint, baseline>>

\* A drag or a snap to the grid, which no command makes: onNodeMoved
DragNode(n, pos) ==
  /\ ~Hidden(n) /\ place[n] # pos
  /\ place' = [place EXCEPT ![n] = pos]
  /\ MarkModified
  /\ UNCHANGED <<circuit, params, selection, views, watch, Others>>

-----------------------------------------------------------------------------
(* Instruments *)

SetPoint(w, pin) ==
  /\ w \in Points
  /\ watch' = [watch EXCEPT ![w] = SetTo(pin)]
  /\ MarkModified
  /\ UNCHANGED <<circuit, place, params, selection, views, Others>>
\* The power meter's source is not part of the project.
SetSource(w, pin) ==
  /\ w \in Meters
  /\ watch' = [watch EXCEPT ![w] = SetTo(pin)]
  /\ UNCHANGED <<circuit, place, params, selection, views, revision, clean, Others>>

\* Mutant: a reset that forgets what an instrument was set to
ClearNothing(w) == w
ClearPoints(w) == [i \in Instruments |-> IF i \in Points THEN Unset ELSE w[i]]
ClearSource(w) == [i \in Instruments |-> IF i \in Meters THEN Unset ELSE w[i]]

-----------------------------------------------------------------------------
(* Replacing the project *)

RoomForEpoch == circuit.epoch < MaxEpoch

SaveProject ==
  /\ "file" \in Kept
  /\ file' = Captured
  /\ MarkClean
  /\ baseline' = Captured
  /\ UNCHANGED <<circuit, place, params, selection, views, watch, undo, undoRevision, checkpoint>>

\* ProjectSerializer::reset and what newProject does around it
ResetProject(c, pos, par) ==
  /\ circuit' = c
  /\ place' = pos /\ params' = par /\ selection' = Shown(selection, c)
  /\ views' = SyncViews(ClearedViews(views), c)
  /\ watch' = ClearPoints(ClearSource(watch))
  /\ undo' = ClearedUndo(undo) /\ UNCHANGED undoRevision
  /\ checkpoint' = NoId
  /\ UNCHANGED file

NewProject ==
  /\ RoomForEpoch
  /\ ResetProject(Reset(circuit), << >>, << >>)
  /\ MarkClean
  /\ baseline' = Captured'

\* newProject, then the seed of the first launch
StartTutorial ==
  /\ RoomForEpoch
  /\ ResetProject(Seed(circuit.epoch + 1), SeedPlace, SeedParams)
  /\ MarkClean
  /\ baseline' = Captured'

\* A file with a top-level section of the wrong shape leaves an empty project.
LoadUnusable ==
  /\ RoomForEpoch
  /\ ResetProject(Reset(circuit), << >>, << >>)
  /\ MarkModified
  /\ UNCHANGED baseline

\* A file that cannot be read, or with a malformed counter, flag or filter
\* band, is refused before anything is reset.
LoadRefused ==
  /\ views' = SyncViews(views, circuit)
  /\ UNCHANGED <<circuit, place, params, selection, watch, revision, clean, Others>>

\* A restored project takes the place of the one before.  What its points
\* mean is what the records name.
ReplaceWith(r) ==
  LET set(pin) == IF pin = NoId THEN Unset ELSE [pin |-> pin, meant |-> PortOf(r.circuit, pin)]
      w == ClearSource(ClearPoints(watch))
  IN  /\ circuit' = r.circuit
      /\ place' = r.place /\ params' = r.params /\ selection' = Shown(selection, r.circuit)
      /\ views' = SyncViews(ClearedViews(views), r.circuit)
      /\ watch' = [i \in Instruments |->
                    IF i \in Points /\ r.points[i] # NoId THEN set(r.points[i]) ELSE w[i]]
      /\ checkpoint' = NoId
      /\ UNCHANGED file

\* loadProject; the records whose fate is not "restored" are damaged.
LoadProject(fate) ==
  /\ RoomForEpoch
  /\ ReplaceWith(Restore(circuit, file, fate))
  /\ undo' = ClearedUndo(undo) /\ UNCHANGED undoRevision
  /\ MarkClean
  /\ baseline' = Captured'

\* beginCheckpoint before an agent's edit; committed ones are kept for a revert
TakeCheckpoint ==
  /\ "checkpoint" \in Kept
  /\ checkpoint' = Captured
  /\ UNCHANGED <<circuit, place, params, selection, views, watch, revision, clean, undo,
                 undoRevision, file, baseline>>

\* revertAgentCheckpoint does not clear the layout's undo: the revision does.
RevertCheckpoint ==
  /\ RoomForEpoch
  /\ ReplaceWith(Restore(circuit, checkpoint, [i \in DOMAIN checkpoint.comps |-> "restored"]))
  /\ MarkModified
  /\ UNCHANGED <<undo, undoRevision, baseline>>

-----------------------------------------------------------------------------
\* A file loads whole, or with one damaged record.
Fates(comps) ==
  {f \in [DOMAIN comps -> {"restored", "skipped", "discarded"}] :
     Cardinality({i \in DOMAIN comps : f[i] # "restored"}) <= 1}
MoveLists == UNION {[S -> Positions] : S \in {T \in SUBSET Nodes : Cardinality(T) \in 1..2}}

PlaceStepOf(types) ==
  \/ \E t \in types, pos \in Positions : \E p \in ParamsOf(t) : AddComponent(t, pos, p)
  \/ \E t \in types : RefuseComponent(t)
  \/ \E n \in Nodes : RemoveNodeComponent(n)
ComponentStepOf(types) ==
  \/ PlaceStepOf(types)
  \/ \E n \in Nodes, t \in types : RefuseSwap(n, t) \/ \E p \in ParamsOf(t) : SwapPart(n, t, p)
ComponentStep == ComponentStepOf(Types)
ParamStep ==
  \/ \E n \in Nodes : \E p \in ParamsOf(circuit.comps[n].type) : SetParams(n, p)
  \/ \E v \in views, ch \in Channels : ClickChannel(v, ch)
GraphStep ==
  \/ \E s \in OutPins(circuit.graph), e \in InPins(circuit.graph) : ConnectPins(s, e)
  \/ \E l \in circuit.graph.links : DisconnectLink(l.id)
  \/ \E p \in LivePins : AddProbePin(p)
  \/ \E p \in ToSet(circuit.graph.probes) : RemoveProbePin(p)
  \/ \E S \in SUBSET Nodes : CreateGroup(S)
  \/ \E gid \in DOMAIN circuit.graph.groups :
       RemoveGroupOf(gid) \/ SelectGroup(gid) \/ (\E b \in BOOLEAN : CollapseGroup(gid, b))
SelectStep == \E n \in {m \in Nodes : ~Hidden(m)} \cup {NoId} : SelectNode(n)
LayoutStep ==
  \/ \E moves \in MoveLists : MoveNodes(moves)
  \/ UndoLayout
  \/ \E n \in Nodes, p \in Positions : DragNode(n, p)
InstrumentStep ==
  \E w \in Instruments, p \in OutPins(circuit.graph) \cup {NoId} : SetPoint(w, p) \/ SetSource(w, p)
ProjectStep ==
  \/ SaveProject \/ NewProject \/ StartTutorial \/ LoadUnusable \/ LoadRefused
  \/ file # NoId /\ \E fate \in Fates(file.comps) : LoadProject(fate)
  \/ TakeCheckpoint
  \/ checkpoint # NoId /\ RevertCheckpoint

Next ==
  \/ ComponentStep \/ ParamStep \/ GraphStep \/ SelectStep \/ LayoutStep \/ InstrumentStep
  \/ ProjectStep
Spec == Init /\ [][Next]_vars

-----------------------------------------------------------------------------
(* Properties *)

TypeOK ==
  /\ DOMAIN circuit.graph.nodes = Nodes
  /\ DOMAIN place = Nodes /\ DOMAIN params = Nodes /\ selection \in Nodes \cup {NoId}
  /\ DOMAIN circuit.wiring = InPins(circuit.graph)
  /\ \A n \in Nodes : circuit.comps[n].type \in Types
  /\ \A n \in Nodes : place[n] \in Positions /\ params[n] \in AllParams
  /\ DOMAIN watch = Instruments
  /\ revision \in 0..MaxRevision /\ clean \in 0..revision /\ undoRevision \in 0..revision
  /\ circuit.epoch \in 0..MaxEpoch

\* Whatever is connected, disconnected, replaced, removed, restored from a
\* file or reverted, the graph the update loop sorts (topologicalOrder) has no
\* cycle, an input has one link at most, the PFB's policy holds, and every
\* link and probe has its pins.
GraphIsSound ==
  LET g == circuit.graph
  IN  /\ Acyclic(Edges(g), Nodes)
      /\ \A l \in g.links : l.start \in OutPins(g) /\ l.end \in InPins(g)
      /\ \A l, m \in g.links : l.end = m.end => l = m
      /\ \A l \in g.links : GraphLinkAllowed(circuit, l.start, l.end)
      /\ ToSet(g.probes) \subseteq LivePins /\ IsInjective(g.probes)

\* After every command each input reads the output it is linked to, and an
\* input without a link reads nothing: no component is left with a pointer
\* into an engine that was destroyed.
WiringFollowsLinks ==
  \A pin \in InPins(circuit.graph) :
    LET sources == {l.start : l \in {m \in circuit.graph.links : m.end = pin}}
    IN  IF sources = {} THEN circuit.wiring[pin] = NoId ELSE circuit.wiring[pin] \in sources

\* Subcircuits survive the edits of their members: two live members or more,
\* none shared, a cache and a selection that agree, and on every collapsed
\* block one boundary pin for each link that crosses it.
GroupsAreSound ==
  LET g == circuit.graph
  IN  /\ \A gid \in DOMAIN g.groups :
           /\ g.groups[gid].members \subseteq Nodes
           /\ Cardinality(g.groups[gid].members) >= 2
           /\ g.groups[gid].collapsed =>
                g.groups[gid].pins = BoundaryPins(g, g.groups[gid].members)
      /\ \A i, j \in DOMAIN g.groups :
           i # j => g.groups[i].members \cap g.groups[j].members = {}
      /\ g.cache = CacheOf(g.groups)
      /\ g.selected \in DOMAIN g.groups \cup {NoId}

\* An instrument's point never comes to mean another port than the one the
\* user chose: pin ids start again with every project, so a point that a
\* replacement forgets to clear would read whatever is given its number next.
PointsKeepTheirPort ==
  \A w \in Instruments :
    watch[w].pin \in LivePins => PortOf(circuit, watch[w].pin) = watch[w].meant

\* The views of the PFBs are those of the engines in the circuit, one each: a
\* view keyed by a node id that is given out again must not keep the engine
\* of the project before, which is gone.
ViewsShowLiveEngines ==
  views = {[node |-> n, engine |-> <<circuit.epoch, n>>] : n \in Pfbs(circuit)}

\* While a layout can be undone, its nodes are the ones it moved, still where
\* it put them and still visible, so the undo overwrites no later edit.
UndoIsSafe ==
  CanUndoLayout =>
    \A r \in undo : /\ r.node \in Nodes /\ ~Hidden(r.node)
                    /\ circuit.comps[r.node].who = r.meant
                    /\ place[r.node] = r.to

\* A project that reads as saved is what was saved, opened or created: every
\* edit of the components, their parameters and positions, links, probes,
\* subcircuits and analyzer points advances the revision.  Two things a file
\* keeps are left out, since they change in a clean project: the component
\* counter, of which a refused component consumes an id, and the channel that
\* is picked in a PFB's grid (see CleanMeansSaved).
Content(capture) ==
  [capture EXCEPT !.nextCid = NoId,
     !.comps = [i \in DOMAIN @ |-> [type |-> @[i].type, pos |-> @[i].pos,
                                    setting |-> @[i].params.setting]]]
CleanMeansUnchanged == ~Dirty => Content(Captured) = Content(baseline)


\* A part that fits is replaced with all its links: the way back that the code
\* keeps for a link rejected half way, and calls unreachable, is never taken.
SwapsAttachEveryLink ==
  \A n \in {m \in Nodes : LinksOf(circuit, m) # {}}, t \in Types :
    SwapFits(circuit, n, t, InstrumentPins) => Attach(circuit, n, t).ok

\* The circuit is sound, whatever it was edited, restored or reverted to.
CircuitIsSound ==
  TypeOK /\ GraphIsSound /\ WiringFollowsLinks /\ GroupsAreSound /\ SwapsAttachEveryLink

\* What a user sees of the circuit, by who the components are
Picture(c, w, pos, sel) ==
  [parts  |-> {<<c.comps[n].who, c.comps[n].cid, pos[n]>> : n \in DOMAIN c.comps},
   shown  |-> IF sel \in DOMAIN c.comps THEN c.comps[sel].who ELSE NoId,
   links  |-> {<<PortOf(c, l.start), PortOf(c, l.end)>> : l \in c.graph.links},
   probes |-> [i \in DOMAIN c.graph.probes |-> PortOf(c, c.graph.probes[i])],
   groups |-> [gid \in DOMAIN c.graph.groups |->
                 {c.comps[n].who : n \in c.graph.groups[gid].members}],
   points |-> [i \in Instruments |-> IF NodeOf(c.graph, w[i].pin) = NoId THEN NoId
                                     ELSE PortOf(c, w[i].pin)]]
Replaced(n) ==
  \E m \in DOMAIN circuit'.comps : n # m /\ circuit.comps[n].who = circuit'.comps[m].who

\* Replacing a part in place changes the part and nothing else: its links,
\* probes, subcircuit, component id, instrument points and position go over to
\* the successor, though every id of theirs is new, and the inspector, in
\* which it was replaced, shows the successor.  (The parameters start from
\* the library.)
SwapKeepsPicture ==
  [][\A n \in Nodes : Replaced(n) =>
       Picture(circuit', watch', place', selection') = Picture(circuit, watch, place, n)]_vars

\* Opening a file with a damaged component restores the rest of it: every link,
\* probe, point and subcircuit is on the component and port it named.
OpeningRestoresTheRest ==
  [][circuit'.epoch # circuit.epoch /\ file # NoId =>
       \A fate \in Fates(file.comps) :
         LoadProject(fate) =>
           Captured'
             = Without(file, {i \in DOMAIN fate : fate[i] # "restored"})]_vars

\* Reverting to a checkpoint restores the project it was taken of.
RevertingRestoresAll ==
  [][circuit'.epoch # circuit.epoch /\ checkpoint # NoId /\ RevertCheckpoint =>
       Captured' = checkpoint]_vars

\* "A rejected command changes nothing" (editor_commands.h:40): a step that
\* leaves the project and its revision alone leaves the circuit alone, but
\* for the counters of the ids and the selection.
Outline(c) ==
  [c EXCEPT !.nextCid = NoId, !.graph.nextNode = NoId, !.graph.nextPin = NoId,
            !.graph.nextLink = NoId, !.graph.selected = NoId]
RejectedChangesNothing ==
  [][revision' = revision /\ circuit'.epoch = circuit.epoch
       => Outline(circuit') = Outline(circuit)]_vars

\* No panel keeps what is gone or means another thing than the user chose: the
\* instruments' points, and the views of the channelizers.
PanelsAreSound == PointsKeepTheirPort /\ ViewsShowLiveEngines
=============================================================================
