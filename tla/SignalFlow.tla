---------------------------- MODULE SignalFlow ----------------------------
(***************************************************************************)
(* What flows through a circuit from frame to frame: CircuitRuntime::update *)
(* runs the engines in topological order, each recomputes when its flag or *)
(* its inputs' generations say so, and the spectrum analyzer draws the     *)
(* probed outputs with its cache and its held traces, which it finds by    *)
(* address (spectrum_analyzer_engine.cpp, spectrum_analyzer_widget.cpp).   *)
(*                                                                         *)
(* An address is a place and a port: the engine of a place that is removed *)
(* frees it, and a later engine may get it.  The panels edit the circuit   *)
(* between two updates, before or after the analyzer draws.                *)
(***************************************************************************)
EXTENDS Engines, SequencesExt

CONSTANTS
  Places,          \* where engines can be
  Settings,        \* the settings of each kind
  DefaultSetting,  \* that of a new engine
  NewKinds,        \* the kinds that are added
  Seeds,           \* what the session opens: kinds and settings by place, links, probes;
                   \* and how many edits the user then makes
  TraceModes,      \* trace modes the user takes
  Bandwidths,      \* RBW values
  MaxProbes        \* MAX_PROBES

VARIABLES
  phase,     \* "update": engines are running; "ui": panels; "drawn": the analyzer has drawn
  engines,   \* the engine of each place in use
  links,     \* from an output's address to an input's
  probes,    \* the probed outputs, in the order of the slots
  shown,     \* the output each shown engine is drawn with, set by update_dsp
  counter,   \* nextGeneration
  ids,       \* engines created so far
  todo,      \* engines this update has not come to
  edited,    \* the circuit was edited since the last update
  left,      \* edits left, the bound of the model
  analyzer   \* mode, rbw, the render cache, and the two kinds of held traces

vars == <<phase, engines, links, probes, shown, counter, ids, todo, edited, left, analyzer>>
circuit == <<engines, links, counter, ids, todo>>

-----------------------------------------------------------------------------
(* The wiring *)

Into(p, k) == {l \in links : l.to = <<p, k>>}
\* The pointer that rewireComponentInputs leaves in an input
SourceOf(p, k) ==
  IF Into(p, k) = {} THEN NoInput ELSE (CHOOSE l \in Into(p, k) : TRUE).from
At(address) == engines[address[1]].outs[address[2]]
Inputs(p) == [k \in 1..InputsOf(engines[p].kind) |->
                IF SourceOf(p, k) = NoInput THEN NoInput ELSE At(SourceOf(p, k))]
Now(p) == [k \in 1..InputsOf(engines[p].kind) |->
             [at |-> SourceOf(p, k),
              gen |-> IF SourceOf(p, k) = NoInput THEN 0 ELSE At(SourceOf(p, k)).gen]]

Addresses(es) == {<<p, port>> : p \in DOMAIN es, port \in 1..2} \cap
                 UNION {{<<p, port>> : port \in 1..OutputsOf(es[p].kind)} : p \in DOMAIN es}

\* Whether the signal of p reaches q
Reaches(p, q) ==
  \A S \in SUBSET DOMAIN engines :
    p \in S /\ (\A l \in links : l.from[1] \in S => l.to[1] \in S) => q \in S

-----------------------------------------------------------------------------
(* The update *)

BeginUpdate ==
  /\ phase \in {"ui", "drawn"}
  /\ phase' = "update"
  /\ todo' = DOMAIN engines
  /\ edited' = FALSE
  /\ UNCHANGED <<engines, links, probes, shown, counter, ids, left, analyzer>>

\* topologicalOrder takes an engine once all engines that feed it are taken.
Turn(p) == \A l \in links : l.to[1] = p => l.from[1] \notin todo

\* Mutant: an output counts its own generations.
PerObject(p) ==
  LET e == engines[p]
      new == Updated(e, Now(p), Inputs(p), counter)
  IN  [new EXCEPT !.outs = [port \in DOMAIN @ |-> [@[port] EXCEPT !.gen = e.outs[port].gen + 1]]]
Recomputed(p) == Updated(engines[p], Now(p), Inputs(p), counter)

UpdateEngine(p) ==
  /\ phase = "update"
  /\ p \in todo /\ Turn(p)
  /\ todo' = todo \ {p}
  /\ IF NeedsUpdate(engines[p], Now(p))
     THEN /\ engines' = [engines EXCEPT ![p] = Recomputed(p)]
          /\ counter' = counter + OutputsOf(engines[p].kind)
     ELSE UNCHANGED <<engines, counter>>
  /\ UNCHANGED <<phase, links, probes, shown, ids, edited, left, analyzer>>

\* update_dsp goes on to the probes: each probed engine is drawn once, with the
\* output of its last probe.
Targets ==
  [p \in {probes[i][1] : i \in DOMAIN probes} |->
     LET i == Max({j \in DOMAIN probes : probes[j][1] = p}) IN probes[i][2]]
EndUpdate ==
  /\ phase = "update" /\ todo = {}
  /\ phase' = "ui"
  /\ shown' = Targets
  /\ UNCHANGED <<engines, links, probes, counter, ids, todo, edited, left, analyzer>>

-----------------------------------------------------------------------------
(* The spectrum analyzer *)

NoCache == [at |-> NoInput, identity |-> 0, gen |-> 0, rbw |-> 0, width |-> 0, of |-> NoInput]
Width(grid) == IF Cardinality(grid) >= 2 THEN Min(grid \ {Min(grid)}) - Min(grid) ELSE 1
Identity(address) == engines[address[1]].id

Hit(cache, address) ==
  /\ cache.at = address /\ cache.identity = Identity(address)
  /\ cache.gen = At(address).gen
  /\ cache.rbw = analyzer.rbw /\ cache.width = Width(At(address).grid)
Rendered(cache, address) ==
  IF Hit(cache, address) THEN cache
  ELSE [at |-> address, identity |-> Identity(address), gen |-> At(address).gen,
        rbw |-> analyzer.rbw, width |-> Width(At(address).grid),
        of |-> <<Content(At(address)), analyzer.rbw>>]

\* A held trace is its identity, its size, and what has been measured into it.
Measured(address) == [identity |-> Identity(address), grid |-> At(address).grid]
\* Mutant: a trace is its address.
GoesOnAtAddress(held, address) ==
  address \in DOMAIN held /\ held[address].size = Cardinality(At(address).grid)
GoesOn(held, address) ==
  /\ address \in DOMAIN held
  /\ held[address].identity = Identity(address)
  /\ held[address].size = Cardinality(At(address).grid)
Advanced(held, drawn) ==
  [address \in DOMAIN held \cup drawn |->
     IF address \notin drawn THEN held[address]
     ELSE [identity |-> Identity(address), size |-> Cardinality(At(address).grid),
           from |-> {Measured(address)} \cup
                    (IF GoesOn(held, address) THEN held[address].from ELSE {})]]
Pruned(held, active) == [address \in DOMAIN held \cap active |-> held[address]]

NothingHeld == [address \in {} |-> NoInput]
ResetHistory(a) == [a EXCEPT !.traces = NothingHeld, !.readout = NothingHeld]

\* SpectrumAnalyzerWidget::draw: with no grid to draw it returns before it prunes.
Draw ==
  LET active == {<<p, shown[p]>> : p \in DOMAIN shown}
      drawn == {address \in active : At(address).grid # {}}
      inOrder == SetToSortSeq(drawn, LAMBDA x, y : Identity(x) < Identity(y))
      holds == analyzer.mode \in {"MaxHold", "MinHold"}
  IN  /\ phase = "ui"
      /\ phase' = "drawn"
      /\ analyzer' =
           IF drawn = {} THEN analyzer
           ELSE [analyzer EXCEPT
                   !.cache = FoldLeft(Rendered, @, inOrder),
                   !.traces = IF analyzer.mode = "ClearWrite" THEN Pruned(@, active)
                              ELSE Advanced(Pruned(@, active), drawn),
                   !.readout = IF holds THEN Advanced(Pruned(@, active), drawn)
                               ELSE Pruned(@, active)]
      /\ UNCHANGED <<circuit, probes, shown, edited, left>>

-----------------------------------------------------------------------------
(* The user *)

Edit ==
  /\ phase \in {"ui", "drawn"} /\ left > 0
  /\ left' = left - 1
  /\ UNCHANGED <<phase, counter, todo>>
EditCircuit == Edit /\ edited' = TRUE /\ UNCHANGED analyzer
EditPanel == Edit /\ UNCHANGED <<engines, links, ids, shown, edited>>

CreateComponent(kind, p) ==
  /\ EditCircuit
  /\ p \notin DOMAIN engines
  /\ ids' = ids + 1
  /\ engines' = (p :> Fresh(kind, ids + 1, DefaultSetting[kind])) @@ engines
  /\ UNCHANGED <<links, probes, shown>>

ShownWithout(p) == [q \in DOMAIN shown \ {p} |-> shown[q]]
RemoveComponent(p) ==
  /\ EditCircuit
  /\ engines' = [q \in DOMAIN engines \ {p} |-> engines[q]]
  /\ links' = {l \in links : l.from[1] # p /\ l.to[1] # p}
  /\ probes' = SelectSeq(probes, LAMBDA address : address[1] # p)
  /\ shown' = ShownWithout(p)
  /\ UNCHANGED ids

GraphLinkAllowed(from, to) ==
  engines[to[1]].kind = "pfb" => engines[from[1]].kind = "adc" /\ from[2] = 1 /\ to[2] = 1
Connect(from, to) ==
  /\ EditCircuit
  /\ GraphLinkAllowed(from, to)
  /\ Into(to[1], to[2]) = {} /\ ~Reaches(to[1], from[1])
  /\ links' = links \cup {[from |-> from, to |-> to]}
  /\ UNCHANGED <<engines, probes, shown, ids>>
Disconnect(l) ==
  /\ EditCircuit
  /\ links' = links \ {l}
  /\ UNCHANGED <<engines, probes, shown, ids>>

\* A setter, or deserialize, which may bring the same values
SetParams(p, s) ==
  /\ EditCircuit
  /\ engines' = [engines EXCEPT ![p].setting = s, ![p].dirty = TRUE]
  /\ UNCHANGED <<links, probes, shown, ids>>

Probe(address) ==
  /\ EditPanel
  /\ address \notin ToSet(probes) /\ Len(probes) < MaxProbes
  /\ probes' = Append(probes, address)
  /\ UNCHANGED analyzer
Unprobe(address) ==
  /\ EditPanel
  /\ probes' = SelectSeq(probes, LAMBDA other : other # address)
  /\ UNCHANGED analyzer
SetTraceMode(mode) ==
  /\ EditPanel
  /\ analyzer' = ResetHistory([analyzer EXCEPT !.mode = mode])
  /\ UNCHANGED probes
SetResBw(rbw) ==
  /\ EditPanel
  /\ rbw # analyzer.rbw
  /\ analyzer' = ResetHistory([analyzer EXCEPT !.rbw = rbw])
  /\ UNCHANGED probes

User ==
  \/ \E kind \in NewKinds, p \in Places : CreateComponent(kind, p)
  \/ \E p \in DOMAIN engines : RemoveComponent(p)
  \/ \E from \in Addresses(engines), q \in DOMAIN engines :
       \E k \in 1..InputsOf(engines[q].kind) : Connect(from, <<q, k>>)
  \/ \E l \in links : Disconnect(l)
  \/ \E p \in DOMAIN engines : \E s \in Settings[engines[p].kind] : SetParams(p, s)
  \/ \E address \in Addresses(engines) : Probe(address)
  \/ \E address \in ToSet(probes) : Unprobe(address)
  \/ \E mode \in TraceModes : SetTraceMode(mode)
  \/ \E rbw \in Bandwidths : SetResBw(rbw)

-----------------------------------------------------------------------------
(* The session's first project has been opened: all its engines are new, and the  *)
(* analyzer has drawn nothing.                                                    *)
Init ==
  /\ phase = "drawn" /\ todo = {} /\ edited = TRUE /\ counter = 0
  /\ \E seed \in Seeds :
       /\ engines = [p \in DOMAIN seed.engines |->
                       Fresh(seed.engines[p].kind, p, seed.engines[p].setting)]
       /\ links = seed.links
       /\ probes = seed.probes
       /\ left = seed.edits
       /\ ids = Max(DOMAIN seed.engines)
  /\ shown = [p \in {} |-> 0]
  /\ \E mode \in TraceModes :
       analyzer = [mode |-> mode, rbw |-> Min(Bandwidths), cache |-> NoCache,
                   traces |-> NothingHeld, readout |-> NothingHeld]

Next ==
  \/ BeginUpdate
  \/ \E p \in todo : UpdateEngine(p)
  \/ EndUpdate
  \/ Draw
  \/ User

Spec == Init /\ [][Next]_vars

-----------------------------------------------------------------------------
(* Properties *)

\* Links, probes and shown outputs are of engines that exist; one link per input;
\* every engine has the outputs and the record of inputs of its kind.
TypeOK ==
  /\ phase \in {"update", "ui", "drawn"}
  /\ DOMAIN engines \subseteq Places /\ todo \subseteq DOMAIN engines
  /\ \A p \in DOMAIN engines :
       /\ engines[p].setting \in Settings[engines[p].kind]
       /\ DOMAIN engines[p].outs = 1..OutputsOf(engines[p].kind)
       /\ DOMAIN engines[p].seen = 1..InputsOf(engines[p].kind)
       /\ \A port \in DOMAIN engines[p].outs : engines[p].outs[port].gen \in 0..counter
  /\ \A l \in links : l.from \in Addresses(engines) /\ l.to[1] \in DOMAIN engines
  /\ \A l \in links, m \in links : l.to = m.to => l = m
  /\ ToSet(probes) \subseteq Addresses(engines) /\ Len(probes) <= MaxProbes
  /\ \A p \in DOMAIN shown : <<p, shown[p]>> \in Addresses(engines)

\* The update has run since the last edit.
Settled == phase \in {"ui", "drawn"} /\ ~edited

\* What a new engine with the same setting would put out from the same inputs
FromScratch(p) ==
  LET e == engines[p]
  IN  Updated(Fresh(e.kind, e.id, e.setting), Now(p), Inputs(p), 0).outs
GridIsGiven(p) ==
  \/ engines[p].kind \in {"generator", "adc", "pfb"}
  \/ \E k \in 1..InputsOf(engines[p].kind) : HasGrid(Inputs(p)[k])
SameSignal(p, a, b) ==
  /\ a.tones = b.tones /\ a.noise = b.noise
  /\ GridIsGiven(p) => a.grid = b.grid
  /\ Cardinality(a.grid) # 1 => a.fs = b.fs /\ a.complex = b.complex

\* After an update every output is what the engine's parameters make of its present
\* inputs, whatever was edited, relinked or replaced at the same address before:
\* nothing is skipped that had to be recomputed.  Left out is what the code does
\* keep: the grid of an output whose input has none, and the sample rate and the
\* domain of a grid of one bin.
OutputsFollowInputs ==
  Settled => \A p \in DOMAIN engines : \A port \in DOMAIN engines[p].outs :
    SameSignal(p, engines[p].outs[port], FromScratch(p)[port])

\* One update is enough: the next one would recompute nothing.
OneFrameSettles == Settled => \A p \in DOMAIN engines : ~NeedsUpdate(engines[p], Now(p))

\* A trace that would go on is of the very spectrum it is drawn for, also when a
\* new component's output lies where a removed one's was.
HoldsAreOfTheirTrace ==
  \A held \in {analyzer.traces, analyzer.readout} : \A address \in DOMAIN held :
    address \in Addresses(engines) /\ GoesOn(held, address) =>
      \A m \in held[address].from : m.identity = Identity(address)

\* What the analyzer would take from its cache is what it would compute.
RenderCacheIsCurrent ==
  \A address \in Addresses(engines) :
    Hit(analyzer.cache, address) =>
      analyzer.cache.of = <<Content(At(address)), analyzer.rbw>>

\* Each trace is held per bin on its own grid: what a trace holds was measured on
\* the grid it is drawn on.
HoldsAreOnTheirGrid ==
  Settled => \A p \in DOMAIN shown :
    <<p, shown[p]>> \in DOMAIN analyzer.traces /\ GoesOn(analyzer.traces, <<p, shown[p]>>) =>
      \A m \in analyzer.traces[<<p, shown[p]>>].from : m.grid = At(<<p, shown[p]>>).grid

\* computeActiveChannelSNRdB compares the tones with the noise of the active channel.
ActiveChannel(e) == e.bank.channels[e.setting.active + 1]
SnrIsShown(e) ==
  /\ e.setting.active + 1 \in DOMAIN e.bank.channels
  /\ ActiveChannel(e).tones # {} /\ ActiveChannel(e).noise # {}
\* The ratio a channelizer reports is of the signal at its input.
SnrIsOfTheInput ==
  Settled => \A p \in DOMAIN engines :
    engines[p].kind = "pfb" /\ SnrIsShown(engines[p]) =>
      ActiveChannel(engines[p]).tones \subseteq
        Through(TonesOf(Inputs(p)[1]),
                Append(engines[p].bank.design, engines[p].setting.active + 1))

\* After one update every output is what its inputs make of it, and the next update
\* would recompute nothing.
FramesAreCurrent == TypeOK /\ OutputsFollowInputs /\ OneFrameSettles

\* The analyzer shows the spectra of now: the traces it holds and its cached rendering
\* are of the outputs they are drawn for.
AnalyzerIsCurrent == HoldsAreOfTheirTrace /\ RenderCacheIsCurrent
=============================================================================
