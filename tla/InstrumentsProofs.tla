-------------------------- MODULE InstrumentsProofs --------------------------
(***************************************************************************)
(* Proofs about the instruments: what is drawn in a frame in which nothing *)
(* was changed is of the circuit, the points, the sweep and the            *)
(* requirements of now, for any circuit and any readings; and a chain of   *)
(* clones is measured as the live circuit would be.                        *)
(*                                                                         *)
(* The trace: the analyzer's result is that of the key it was cached       *)
(* under, and the stimulus is that of the sweep unless it is marked dirty. *)
(* The verdict: each value that is judged is the one the circuit gives, or *)
(* is missing, and a value that is missing neither passes nor fails.  The  *)
(* form: its fields are those of its snapshot until the user edits them.   *)
(* The clones: the chain's order is sorted and has every component between *)
(* the points, its edges lead forward, and so the clone at place i agrees  *)
(* with the live component from round i - 1 of the live circuit on.        *)
(***************************************************************************)
EXTENDS MCInstruments, FiniteSetTheorems, SequenceTheorems, WellFoundedInduction, TLAPS

-----------------------------------------------------------------------------
(* The analyzer *)

\* The engine's arrays are of the chain and sweep they are cached under, and its stimulus
\* is of the sweep that is set, but for a change that is marked.
Coherent(n) ==
    /\ n \in [sweep : Sweeps, built : {n.built}, dirty : BOOLEAN, cached : {n.cached},
              result : {n.result}]
    /\ ~n.dirty => n.built = n.sweep
    /\ n.result # NoData => n.result = <<n.cached[1], n.cached[2]>>

\* The analyzer after an update: of chain c.
IsOf(n, c) ==
    /\ ~n.dirty
    /\ n.result # NoData => c # NoChain /\ n.result = <<c, n.sweep>>

LEMMA SweptCoherent ==
  ASSUME NEW n, Coherent(n), NEW s \in Sweeps
  PROVE  Coherent(Swept(n, s))
BY DEF Coherent, Swept

LEMMA RecachedCoherent ==
  ASSUME NEW n, Coherent(n), NEW k, NEW x
  PROVE  LET u == [n EXCEPT !.cached = k, !.result = x]
         IN  /\ u.sweep = n.sweep /\ u.built = n.built /\ u.dirty = n.dirty /\ u.cached = k
             /\ u.result = x
             /\ u \in [sweep : Sweeps, built : {u.built}, dirty : BOOLEAN, cached : {u.cached},
                       result : {u.result}]
BY DEF Coherent

LEMMA UpdatedCoherent ==
  ASSUME NEW n, Coherent(n), NEW c, NEW a, NEW b
  PROVE  Coherent(Updated(n, c, a, b)) /\ IsOf(Updated(n, c, a, b), c)
<1> DEFINE r == Rebuilt(n)
           u == Updated(n, c, a, b)
<1> SUFFICES Coherent(u) /\ IsOf(u, c)
  OBVIOUS
<1>1. Coherent(r) /\ ~r.dirty
  BY DEF Coherent, Rebuilt
<1> HIDE DEF r
<1>2. u = IF c = NoChain THEN [r EXCEPT !.cached = NoKey, !.result = NoData]
          ELSE IF r.cached = Signature(c, r.sweep, a, b) THEN r
          ELSE [r EXCEPT !.cached = Signature(c, r.sweep, a, b),
                         !.result = IF Prepared(c) THEN <<c, r.sweep>> ELSE NoData]
  BY DEF Updated, r
<1> HIDE DEF u
<1>3. CASE c = NoChain
  <2>1. /\ u.sweep = r.sweep /\ u.built = r.built /\ u.dirty = r.dirty /\ u.result = NoData
        /\ u \in [sweep : Sweeps, built : {u.built}, dirty : BOOLEAN, cached : {u.cached},
                  result : {u.result}]
    BY <1>1, <1>2, <1>3, RecachedCoherent
  <2> QED BY <1>1, <2>1 DEF Coherent, IsOf
<1>4. CASE c # NoChain /\ r.cached = Signature(c, r.sweep, a, b)
  <2>1. u = r /\ u.cached[1] = c /\ u.cached[2] = r.sweep
    BY <1>2, <1>4 DEF Signature
  <2> QED BY <1>1, <1>4, <2>1 DEF Coherent, IsOf
<1>5. CASE c # NoChain /\ r.cached # Signature(c, r.sweep, a, b)
  <2>1. /\ u.sweep = r.sweep /\ u.built = r.built /\ u.dirty = r.dirty
        /\ u.cached = Signature(c, r.sweep, a, b)
        /\ u.result = IF Prepared(c) THEN <<c, r.sweep>> ELSE NoData
        /\ u \in [sweep : Sweeps, built : {u.built}, dirty : BOOLEAN, cached : {u.cached},
                  result : {u.result}]
    BY <1>1, <1>2, <1>5, RecachedCoherent
  <2> QED BY <1>1, <1>5, <2>1 DEF Coherent, IsOf, Signature
<1> QED BY <1>3, <1>4, <1>5

\* The inductive invariant of the trace
TraceInv ==
    /\ Coherent(na)
    /\ shown \in [verdict : {shown.verdict}, quiet : BOOLEAN]
    /\ shown.quiet => IsOf(na, Current)

LEMMA TraceInit == Init => TraceInv
<1> SUFFICES ASSUME Init PROVE TraceInv
  OBVIOUS
<1>1. PICK p \in Projects : na = [sweep |-> p.sweep, built |-> p.sweep, dirty |-> TRUE,
                                  cached |-> NoKey, result |-> NoData]
  BY DEF Init
<1> QED BY <1>1, InstrumentsAssumption DEF Init, TraceInv, Coherent

\* A frame without an edit leaves the analyzer with the circuit of now.
LEMMA FrameTraces ==
  ASSUME TraceInv, NEW d, NEW panel \in PanelInputs, NEW input, Frame(d, panel, input)
  PROVE  TraceInv' /\ (shown'.quiet => Current' = Current /\ IsOf(na', Current))
<1> DEFINE n1 == Updated(na, Current, pointA, pointB)
           n2 == IF panel.do = "sweep" THEN Swept(n1, panel.to) ELSE n1
<1>1. Coherent(n1) /\ IsOf(n1, Current)
  BY UpdatedCoherent DEF TraceInv
<1>2. /\ na' = n2 /\ links' = links /\ value' = value
      /\ pointA' = (IF panel.do = "a" THEN panel.to ELSE pointA)
      /\ pointB' = (IF panel.do = "b" THEN panel.to ELSE pointB)
      /\ \E v : \E w \in BOOLEAN : shown' = [verdict |-> v, quiet |-> panel.do = "leave" /\ w]
  <2>1. CASE "rx" \in panels
    BY <2>1 DEF Frame
  <2>2. CASE "rx" \notin panels
    BY <2>2 DEF Frame
  <2> QED BY <2>1, <2>2
<1>6. shown' \in [verdict : {shown'.verdict}, quiet : BOOLEAN] /\ (shown'.quiet => panel.do = "leave")
  <2>1. PICK v : \E w \in BOOLEAN : shown' = [verdict |-> v, quiet |-> panel.do = "leave" /\ w]
    BY <1>2
  <2>2. PICK w \in BOOLEAN : shown' = [verdict |-> v, quiet |-> panel.do = "leave" /\ w]
    BY <2>1
  <2>3. (panel.do = "leave" /\ w) \in BOOLEAN
    OBVIOUS
  <2>4. shown'.quiet = (panel.do = "leave" /\ w) /\ shown'.verdict = v
    BY <2>2
  <2> QED BY <2>2, <2>3, <2>4
<1> HIDE DEF n1
<1>3. Coherent(n2)
  <2>1. CASE panel.do = "sweep"
    <3>1. panel.to \in Sweeps
      BY <2>1 DEF PanelInputs
    <3> QED BY <1>1, <2>1, <3>1, SweptCoherent
  <2> QED BY <1>1, <2>1
<1>4. ASSUME panel.do = "leave" PROVE n2 = n1 /\ pointA' = pointA /\ pointB' = pointB
  BY <1>2, <1>4
<1>5. ASSUME shown'.quiet PROVE Current' = Current /\ IsOf(na', Current)
  BY <1>1, <1>2, <1>4, <1>5, <1>6 DEF Current
<1> HIDE DEF n2
<1> QED BY <1>2, <1>3, <1>5, <1>6 DEF TraceInv

LEMMA TraceStep == TraceInv /\ [Next]_vars => TraceInv'
<1> SUFFICES ASSUME TraceInv, [Next]_vars PROVE TraceInv'
  OBVIOUS
<1>1. CASE Frames
  BY <1>1, FrameTraces DEF Frames
<1>2. CASE Edit
  BY <1>2 DEF Edit, Disturbed, TraceInv
<1>3. ASSUME NEW p \in {"na", "rx"}, Toggle(p) PROVE TraceInv'
  BY <1>3 DEF Toggle, Disturbed, TraceInv
<1>4. ASSUME NEW p \in Projects, Load(p) PROVE TraceInv'
  <2>1. na' = Swept(na, p.sweep) /\ p.sweep \in Sweeps /\ Coherent(na)
    BY <1>4, InstrumentsAssumption DEF Load, TraceInv
  <2>2. Coherent(na')
    BY <2>1, SweptCoherent
  <2>3. shown' = [shown EXCEPT !.quiet = FALSE]
    BY <1>4 DEF Load, Disturbed
  <2> QED BY <2>2, <2>3 DEF TraceInv
<1>5. ASSUME NEW s \in Sweeps, NEW a \in Pins, NEW b \in Pins, AgentSweep(s, a, b) PROVE TraceInv'
  <2>1. Coherent(Swept(na, s))
    BY SweptCoherent DEF TraceInv
  <2>2. Coherent(na')
    BY <1>5, <2>1, UpdatedCoherent DEF AgentSweep
  <2>3. shown' = [shown EXCEPT !.quiet = FALSE]
    BY <1>5 DEF AgentSweep, Disturbed
  <2> QED BY <2>2, <2>3 DEF TraceInv
<1>6. ASSUME NEW q \in Requests, NEW d, AgentMeasure(q, d) PROVE TraceInv'
  BY <1>6 DEF AgentMeasure, TraceInv, Current, chainVars
<1>7. CASE UNCHANGED vars
  BY <1>7 DEF vars, TraceInv, Current, chainVars
<1> QED BY <1>1, <1>2, <1>3, <1>4, <1>5, <1>6, <1>7 DEF Next

\* The trace that is drawn is of the circuit, the points and the sweep of now
\* (TraceIsOfTheCircuit), whatever was edited, opened or called in between.
THEOREM TraceIsAlwaysOfTheCircuit == Spec => []TraceIsOfTheCircuit
<1>1. TraceInv => TraceIsOfTheCircuit
  BY DEF TraceInv, IsOf, TraceIsOfTheCircuit
<1> QED BY <1>1, TraceInit, TraceStep, PTL DEF Spec

-----------------------------------------------------------------------------
(* The form *)

\* The fields are those of the snapshot, with the lone tone where none is selected, until the
\* user edits the draft; a tone once selected is not taken back.
FormOk(g) ==
    /\ g \in [snapshot : {g.snapshot},
              baseline : [core : {g.baseline.core}, tone : {g.baseline.tone}],
              draft : [core : {g.draft.core}, tone : {g.draft.tone}]]
    /\ g.draft.tone = NoTone => g.baseline.tone = NoTone
    /\ g.snapshot \in Configs =>
          /\ g.baseline.core = g.snapshot.core
          /\ g.snapshot.tone # NoTone => g.baseline.tone = g.snapshot.tone

LEMMA FilledOk ==
  ASSUME NEW r, NEW t
  PROVE  FormOk(Filled(r, t)) /\ Filled(r, t).snapshot = r
<1> DEFINE d == IF r \in {NoConfig, Invalid} THEN [core |-> Blank, tone |-> NoTone]
                ELSE [core |-> r.core, tone |-> r.tone]
           e == Preselected(d, t)
<1>1. d \in [core : {d.core}, tone : {d.tone}]
      /\ (r \in Configs => d.core = r.core /\ d.tone = r.tone)
  BY InstrumentsAssumption
<1> HIDE DEF d
<1>2. /\ e \in [core : {e.core}, tone : {e.tone}] /\ e.core = d.core
      /\ d.tone # NoTone => e.tone = d.tone
  BY <1>1 DEF Preselected
<1>3. Filled(r, t) = [snapshot |-> r, baseline |-> e, draft |-> e]
  BY DEF Filled, d
<1> HIDE DEF e
<1> QED BY <1>1, <1>2, <1>3 DEF FormOk

LEMMA OpenedOk ==
  ASSUME FormOk(form), NEW r, NEW t
  PROVE  FormOk(Opened(r, t)) /\ Opened(r, t).snapshot = r
<1> DEFINE kept == IF MatchesSnapshot(form, r) THEN form ELSE Filled(r, t)
<1>1. FormOk(kept) /\ kept.snapshot = r
  BY FilledOk DEF MatchesSnapshot
<1>2. Opened(r, t) = IF kept.draft.tone = NoTone
                     THEN [kept EXCEPT !.draft.tone = t, !.baseline.tone = t] ELSE kept
  BY DEF Opened
<1> HIDE DEF kept
<1>3. CASE kept.draft.tone = NoTone
  <2> DEFINE o == [kept EXCEPT !.draft.tone = t, !.baseline.tone = t]
  <2>1. /\ o.snapshot = kept.snapshot /\ o.baseline.core = kept.baseline.core
        /\ o.baseline.tone = t /\ o.draft.tone = t /\ o.draft.core = kept.draft.core
        /\ o \in [snapshot : {o.snapshot}, baseline : [core : {o.baseline.core}, tone : {o.baseline.tone}],
                  draft : [core : {o.draft.core}, tone : {o.draft.tone}]]
    BY <1>1 DEF FormOk
  <2>2. kept.baseline.tone = NoTone
    BY <1>1, <1>3 DEF FormOk
  <2> HIDE DEF o
  <2>3. FormOk(o)
    BY <1>1, <2>1, <2>2 DEF FormOk
  <2> QED BY <1>1, <1>2, <1>3, <2>1, <2>3 DEF o
<1> QED BY <1>1, <1>2, <1>3

LEMMA DrawnOk ==
  ASSUME FormOk(form), NEW r, NEW t, NEW input \in FormInputs
  PROVE  /\ FormOk(Drawn(r, t, input)[1])
         /\ input.do = "leave" => Drawn(r, t, input) = <<Opened(r, t), r>>
<1> DEFINE open == Opened(r, t)
<1>1. FormOk(open)
  BY OpenedOk
<1> HIDE DEF open
<1>2. input.do \in {"leave", "cancel", "core", "tone", "apply"}
      /\ (input.do = "tone" => input.to # NoTone)
  BY InstrumentsAssumption DEF FormInputs
<1>3. CASE input.do = "leave"
  <2>1. Drawn(r, t, input) = <<open, r>>
    BY <1>3 DEF Drawn, open
  <2> QED BY <1>1, <2>1 DEF open
<1>4. CASE input.do = "core"
  <2> DEFINE o == [open EXCEPT !.draft.core = input.to]
  <2>1. Drawn(r, t, input) = <<o, r>>
    BY <1>4 DEF Drawn, open
  <2>2. /\ o.snapshot = open.snapshot /\ o.baseline = open.baseline /\ o.draft.tone = open.draft.tone
        /\ o \in [snapshot : {o.snapshot}, baseline : [core : {o.baseline.core}, tone : {o.baseline.tone}],
                  draft : [core : {o.draft.core}, tone : {o.draft.tone}]]
    BY <1>1 DEF FormOk
  <2> HIDE DEF o
  <2>3. FormOk(o)
    BY <1>1, <2>2 DEF FormOk
  <2> QED BY <1>4, <2>1, <2>3
<1>5. CASE input.do = "tone"
  <2> DEFINE o == [open EXCEPT !.draft.tone = input.to]
  <2>1. Drawn(r, t, input) = <<o, r>>
    BY <1>5 DEF Drawn, open
  <2>2. /\ o.snapshot = open.snapshot /\ o.baseline = open.baseline /\ o.draft.tone = input.to
        /\ o \in [snapshot : {o.snapshot}, baseline : [core : {o.baseline.core}, tone : {o.baseline.tone}],
                  draft : [core : {o.draft.core}, tone : {o.draft.tone}]]
    BY <1>1 DEF FormOk
  <2> HIDE DEF o
  <2>3. FormOk(o)
    BY <1>1, <1>2, <1>5, <2>2 DEF FormOk
  <2> QED BY <1>5, <2>1, <2>3
<1>6. CASE input.do = "cancel"
  <2>1. Drawn(r, t, input) = <<Filled(r, t), r>>
    BY <1>6 DEF Drawn
  <2> QED BY <1>6, <2>1, FilledOk
<1>7. CASE input.do = "apply" /\ open.draft.core = Blank
  <2>1. Drawn(r, t, input) = <<open, r>>
    BY <1>7 DEF Drawn, open
  <2> QED BY <1>1, <1>7, <2>1
<1>8. CASE input.do = "apply" /\ open.draft.core # Blank
  <2>1. Drawn(r, t, input) = <<Filled(Applied(open.draft), t), Applied(open.draft)>>
    BY <1>8 DEF Drawn, open
  <2> QED BY <1>8, <2>1, FilledOk
<1> QED BY <1>2, <1>3, <1>4, <1>5, <1>6, <1>7, <1>8

-----------------------------------------------------------------------------
(* The verdict *)

\* What chain c gives for a metric of requirements r.
TruthOf(r, c, m, f) ==
    LET tone == IF c = NoChain THEN NoTone ELSE Selected(Asked(r), c)
    IN  IF c = NoChain \/ (m = "power" /\ tone = NoTone) \/ (m = "iip3" /\ f \notin Iip3Centers)
        THEN NoValue
        ELSE Reading(m, c, f, CASE m = "power" -> tone [] m = "iip3" -> r.core.levels [] OTHER -> 0)

\* What is read of the engines
ReadOf(n, x, m, f) == IF m \in {"gain", "nf"} THEN GainAt(n, m, f) ELSE ReceivedAt(x, m, f)

\* A value that was measured is the truth.
LEMMA ReadIsTrue ==
  ASSUME NEW r \in Configs, NEW c, NEW n, IsOf(n, c), NEW x, x.key.q = Asked(r), x.key.chain = c,
         NEW m \in r.core.metrics, NEW f, ReadOf(n, x, m, f) # NoValue
  PROVE  ReadOf(n, x, m, f) = TruthOf(r, c, m, f)
<1>1. r.core \in Cores /\ m \in Metrics /\ r \notin {NoConfig, Invalid}
  BY InstrumentsAssumption DEF Configs
<1>2. CASE m \in {"gain", "nf"}
  <2>1. n.result # NoData /\ n.result[1] = c /\ c # NoChain
    BY <1>2 DEF ReadOf, GainAt, IsOf
  <2>2. ReadOf(n, x, m, f) = Reading(m, c, f, 0)
    BY <1>2, <2>1 DEF ReadOf, GainAt
  <2>3. m # "power" /\ m # "iip3"
    BY <1>2
  <2>4. TruthOf(r, c, m, f) = Reading(m, c, f, 0)
    BY <2>1, <2>3 DEF TruthOf
  <2> QED BY <2>2, <2>4
<1>3. CASE m = "power"
  <2>1. /\ c # NoChain /\ PowerRuns(x.key) = 1
        /\ ReadOf(n, x, m, f) = Reading(m, c, f, Selected(Asked(r), c))
    BY <1>3 DEF ReadOf, ReceivedAt
  <2>2. Selected(Asked(r), c) # NoTone
    BY <2>1 DEF PowerRuns
  <2>3. TruthOf(r, c, m, f) = Reading(m, c, f, Selected(Asked(r), c))
    BY <1>3, <2>1, <2>2 DEF TruthOf
  <2> QED BY <2>1, <2>3
<1>4. CASE m = "iip3"
  <2>1. /\ c # NoChain /\ LevelRuns(x.key, f) > 0
        /\ ReadOf(n, x, m, f) = Reading(m, c, f, x.key.q.levels)
    BY <1>4 DEF ReadOf, ReceivedAt
  <2>2. f \in Iip3Centers
    BY <2>1 DEF LevelRuns
  <2>3. x.key.q.levels = r.core.levels
    BY <1>1, <1>4 DEF Asked
  <2>4. TruthOf(r, c, m, f) = Reading(m, c, f, r.core.levels)
    BY <1>4, <2>1, <2>2 DEF TruthOf
  <2> QED BY <2>1, <2>3, <2>4
<1> QED BY <1>1, <1>2, <1>3, <1>4 DEF Metrics

\* What a verdict says of the circuit
SaysTrue(r, n, c, verdict) ==
    LET band == {f \in Grid(n.sweep) : f \in r.core.lo..r.core.hi}
        at == {<<m, f>> : m \in r.core.metrics, f \in band}
    IN  /\ verdict = "pass" =>
             /\ r.core.lo >= n.sweep.lo /\ r.core.hi <= n.sweep.hi
             /\ \A p \in at : /\ TruthOf(r, c, p[1], p[2]) # NoValue
                              /\ ~(TruthOf(r, c, p[1], p[2]) < r.core.min)
        /\ verdict = "fail" =>
             \E p \in at : TruthOf(r, c, p[1], p[2]) # NoValue /\ TruthOf(r, c, p[1], p[2]) < r.core.min

LEMMA VerdictIsTrue ==
  ASSUME NEW r \in Configs, NEW c, NEW n, Coherent(n), IsOf(n, c),
         NEW x, x.key.q = Asked(r), x.key.chain = c
  PROVE  SaysTrue(r, n, c, Evaluated(r, n, x))
<1> DEFINE Reads(m) == [f \in Grid(n.built) |-> ReadOf(n, x, m, f)]
           Of(m) == Assessed(r.core, n.sweep, Reads(m))
           all == {Of(m) : m \in r.core.metrics}
           verdict == Evaluated(r, n, x)
           band == {f \in Grid(n.sweep) : f \in r.core.lo..r.core.hi}
<1>1. /\ r \notin {NoConfig, Invalid} /\ n.built = n.sweep /\ n.sweep \in Sweeps
      /\ r.core \in Cores /\ r.core.lo \in Nat /\ r.core.hi \in Nat
      /\ n.sweep.lo \in Nat /\ n.sweep.hi \in Nat
  BY InstrumentsAssumption DEF Configs, Coherent, IsOf
<1>2. verdict = IF all = {} THEN "unconfigured" ELSE IF "fail" \in all THEN "fail"
                ELSE IF all = {"pass"} THEN "pass" ELSE "incomplete"
  BY <1>1 DEF Evaluated, ReadOf
<1> HIDE DEF verdict
<1>3. ASSUME NEW m \in r.core.metrics
      PROVE  /\ Of(m) = "pass" =>
                  /\ r.core.lo >= n.sweep.lo /\ r.core.hi <= n.sweep.hi
                  /\ \A f \in band : ReadOf(n, x, m, f) # NoValue /\ ~(ReadOf(n, x, m, f) < r.core.min)
             /\ Of(m) = "fail" =>
                  \E f \in band : ReadOf(n, x, m, f) # NoValue /\ ReadOf(n, x, m, f) < r.core.min
  <2> DEFINE inBand == {f \in DOMAIN Reads(m) : f >= r.core.lo /\ f <= r.core.hi}
  <2>1. inBand = band /\ \A f \in band : Reads(m)[f] = ReadOf(n, x, m, f)
    BY <1>1 DEF Grid
  <2>2. Of(m) = IF \E f \in inBand : Reads(m)[f] # NoValue /\ Reads(m)[f] < r.core.min THEN "fail"
                ELSE IF inBand = {} \/ (\E f \in inBand : Reads(m)[f] = NoValue)
                        \/ r.core.lo < n.sweep.lo \/ r.core.hi > n.sweep.hi THEN "incomplete"
                ELSE "pass"
    BY DEF Assessed
  <2> HIDE DEF inBand, Reads, Of, band
  <2> QED BY <1>1, <2>1, <2>2
<1>4. \A m \in r.core.metrics, f \in band :
        ReadOf(n, x, m, f) # NoValue => ReadOf(n, x, m, f) = TruthOf(r, c, m, f)
  BY ReadIsTrue
<1>5. \A m \in r.core.metrics : Of(m) \in all
  OBVIOUS
<1>6. ASSUME verdict = "pass"
      PROVE  /\ r.core.lo >= n.sweep.lo /\ r.core.hi <= n.sweep.hi
             /\ \A m \in r.core.metrics, f \in band :
                  TruthOf(r, c, m, f) # NoValue /\ ~(TruthOf(r, c, m, f) < r.core.min)
  <2>1. all = {"pass"}
    BY <1>2, <1>6
  <2>2. \A m \in r.core.metrics : Of(m) = "pass"
    BY <1>5, <2>1
  <2>3. \E m \in r.core.metrics : Of(m) = "pass"
    BY <2>1
  <2> HIDE DEF Of, all, band
  <2> QED BY <1>3, <1>4, <2>2, <2>3
<1>7. ASSUME verdict = "fail"
      PROVE  \E m \in r.core.metrics, f \in band :
               TruthOf(r, c, m, f) # NoValue /\ TruthOf(r, c, m, f) < r.core.min
  <2>1. "fail" \in all
    BY <1>2, <1>7
  <2>2. PICK m \in r.core.metrics : Of(m) = "fail"
    BY <2>1
  <2> HIDE DEF Of, all, band
  <2> QED BY <1>3, <1>4, <2>2
<1> HIDE DEF band
<1>8. \A p \in {<<m, f>> : m \in r.core.metrics, f \in band} : p[1] \in r.core.metrics /\ p[2] \in band
  OBVIOUS
<1>9. \A m \in r.core.metrics, f \in band :
        \E p \in {<<k, g>> : k \in r.core.metrics, g \in band} : p[1] = m /\ p[2] = f
  <2> SUFFICES ASSUME NEW m \in r.core.metrics, NEW f \in band
               PROVE  \E p \in {<<k, g>> : k \in r.core.metrics, g \in band} : p[1] = m /\ p[2] = f
    OBVIOUS
  <2> DEFINE q == <<m, f>>
  <2>1. q \in {<<k, g>> : k \in r.core.metrics, g \in band} /\ q[1] = m /\ q[2] = f
    OBVIOUS
  <2> HIDE DEF q
  <2> QED BY <2>1
<1> QED BY <1>6, <1>7, <1>8, <1>9 DEF SaysTrue, verdict, band

\* The inductive invariant of verdict and form
VerdictInv ==
    /\ TraceInv /\ FormOk(form)
    /\ VerdictIsMeasured /\ FormShowsWhatIsJudged

LEMMA VerdictInit == Init => VerdictInv
<1> SUFFICES ASSUME Init PROVE VerdictInv
  OBVIOUS
<1>1. ~shown.quiet /\ form = Filled(NoConfig, NoTone)
  BY DEF Init
<1> QED BY <1>1, TraceInit, FilledOk DEF VerdictInv, VerdictIsMeasured, FormShowsWhatIsJudged

LEMMA FrameJudges ==
  ASSUME VerdictInv, NEW d, NEW panel \in PanelInputs, NEW input \in FormInputs, Frame(d, panel, input)
  PROVE  VerdictInv'
<1> DEFINE n1 == Updated(na, Current, pointA, pointB)
           n2 == IF panel.do = "sweep" THEN Swept(n1, panel.to) ELSE n1
           a == IF panel.do = "a" THEN panel.to ELSE pointA
           b == IF panel.do = "b" THEN panel.to ELSE pointB
           x == Measured(rx, Key(Asked(required), a, b, n2.built, Chain(links, value, a, b)), d)
           tone == IF a = NoPin THEN NoTone ELSE LoneTone(a[1])
           drawn == Drawn(required, tone, input)
           plain == drawn[1].draft = drawn[1].baseline /\ drawn[2] \in Configs
<1>1. TraceInv' /\ (shown'.quiet => Current' = Current /\ IsOf(na', Current))
  BY FrameTraces DEF VerdictInv
<1>2. FormOk(drawn[1]) /\ (input.do = "leave" => drawn = <<Opened(required, tone), required>>)
  BY DrawnOk DEF VerdictInv
<1>3. CASE "rx" \notin panels
  <2>1. UNCHANGED <<form, required>> /\ shown' = [verdict |-> "hidden", quiet |-> panel.do = "leave"]
    BY <1>3 DEF Frame
  <2>2. shown'.verdict = "hidden"
    BY <2>1
  <2> QED BY <1>1, <2>1, <2>2 DEF VerdictInv, VerdictIsMeasured, FormShowsWhatIsJudged
<1>4. CASE "rx" \in panels
  <2>1. /\ na' = n2 /\ form' = drawn[1] /\ required' = drawn[2]
        /\ shown' = [verdict |-> IF plain THEN Evaluated(required, n2, x) ELSE "hidden",
                     quiet |-> panel.do = "leave" /\ input.do = "leave"]
    BY <1>4 DEF Frame
  <2>2. /\ shown'.quiet <=> panel.do = "leave" /\ input.do = "leave"
        /\ shown'.verdict = IF plain THEN Evaluated(required, n2, x) ELSE "hidden"
    BY <2>1
  <2>3. ASSUME panel.do = "leave", input.do = "leave"
        PROVE  /\ drawn = <<Opened(required, tone), required>> /\ a = pointA /\ b = pointB
               /\ x.key.q = Asked(required) /\ x.key.chain = Current
               /\ IsOf(n2, Current) /\ Current' = Current /\ Coherent(n2)
    BY <1>1, <1>2, <2>1, <2>2, <2>3 DEF Measured, Key, Current, TraceInv
  <2> HIDE DEF n1, n2, a, b, x, tone, drawn, plain
  <2>4. VerdictIsMeasured'
    <3> SUFFICES ASSUME shown'.quiet, required' \in Configs
                 PROVE  SaysTrue(required', na', Current', shown'.verdict)
      BY DEF VerdictIsMeasured, SaysTrue, Truth, TruthOf
    <3>1. required' = required /\ na' = n2 /\ Current' = Current
      BY <2>1, <2>2, <2>3
    <3>2. CASE plain
      BY <2>2, <2>3, <3>1, <3>2, VerdictIsTrue
    <3>3. CASE ~plain
      BY <2>2, <3>3 DEF SaysTrue
    <3> QED BY <3>2, <3>3
  <2>5. FormShowsWhatIsJudged'
    <3> SUFFICES ASSUME shown'.quiet, shown'.verdict # "hidden"
                 PROVE  /\ form'.draft.core = required'.core
                        /\ required'.tone # NoTone => form'.draft.tone = required'.tone
      BY DEF FormShowsWhatIsJudged
    <3>1. plain /\ form' = Opened(required, tone) /\ required' = required
      BY <2>1, <2>2, <2>3
    <3>2. form'.draft = form'.baseline /\ required \in Configs
      BY <2>1, <3>1 DEF plain
    <3>3. FormOk(form') /\ form'.snapshot = required
      BY <3>1, OpenedOk DEF VerdictInv
    <3> QED BY <3>1, <3>2, <3>3 DEF FormOk
  <2> QED BY <1>1, <1>2, <2>1, <2>4, <2>5 DEF VerdictInv
<1> QED BY <1>3, <1>4

LEMMA VerdictStep == VerdictInv /\ [Next]_vars => VerdictInv'
<1> SUFFICES ASSUME VerdictInv, [Next]_vars PROVE VerdictInv'
  OBVIOUS
<1>1. TraceInv' /\ shown \in [verdict : {shown.verdict}, quiet : BOOLEAN]
  BY TraceStep DEF VerdictInv, TraceInv
<1>2. CASE Frames
  BY <1>2, FrameJudges DEF Frames
<1>3. ASSUME UNCHANGED form, Disturbed PROVE VerdictInv'
  <2>1. ~shown'.quiet
    BY <1>1, <1>3 DEF Disturbed
  <2> QED BY <1>1, <1>3, <2>1 DEF VerdictInv, VerdictIsMeasured, FormShowsWhatIsJudged
<1>4. ASSUME UNCHANGED <<chainVars, na, required, form, shown>> PROVE VerdictInv'
  BY <1>1, <1>4 DEF VerdictInv, VerdictIsMeasured, FormShowsWhatIsJudged, Truth, Current, chainVars
<1>5. CASE Edit
  BY <1>3, <1>5 DEF Edit
<1>6. ASSUME NEW p \in {"na", "rx"}, Toggle(p) PROVE VerdictInv'
  BY <1>3, <1>6 DEF Toggle
<1>7. ASSUME NEW p \in Projects, Load(p) PROVE VerdictInv'
  BY <1>3, <1>7 DEF Load
<1>8. ASSUME NEW s \in Sweeps, NEW a \in Pins, NEW b \in Pins, AgentSweep(s, a, b) PROVE VerdictInv'
  BY <1>3, <1>8 DEF AgentSweep
<1>9. ASSUME NEW q \in Requests, NEW d, AgentMeasure(q, d) PROVE VerdictInv'
  BY <1>4, <1>9 DEF AgentMeasure
<1>10. CASE UNCHANGED vars
  BY <1>4, <1>10 DEF vars
<1> QED BY <1>2, <1>5, <1>6, <1>7, <1>8, <1>9, <1>10 DEF Next

\* A verdict that is shown is true of the circuit of now, and stands beside the requirements it
\* is about (VerdictIsSound): while a measurement goes on, after a project was opened over an
\* edited form, whatever has been measured before.
THEOREM VerdictIsAlwaysSound == Spec => []VerdictIsSound
<1>1. VerdictInv => VerdictIsSound
  BY DEF VerdictInv, VerdictIsSound
<1> QED BY <1>1, VerdictInit, VerdictStep, PTL DEF Spec

-----------------------------------------------------------------------------
(* What is measured on clones is the circuit *)

LEMMA LeastOf ==
  ASSUME NEW S \in SUBSET Nat, S # {}
  PROVE  \E m \in S : \A n \in S : m <= n
<1> DEFINE R == OpToRel(<, Nat)
<1>1. IsWellFoundedOn(R, Nat)
  BY NatLessThanWellFounded
<1> HIDE DEF R
<1>2. PICK m \in S : \A n \in S : ~ (<<n, m>> \in R)
  BY <1>1, WFMin
<1>3. \A n \in S : ~ (n < m)
  BY <1>2 DEF R, OpToRel
<1> QED BY <1>3

LEMMA Counting ==
  ASSUME NEW N \in SUBSET Nat, 0 \in N, \A n \in N : n + 1 \in N
  PROVE  N = Nat
<1>1. SUFFICES ASSUME Nat \ N # {} PROVE FALSE
  OBVIOUS
<1>2. PICK m \in Nat \ N : \A n \in Nat \ N : m <= n
  BY <1>1, LeastOf
<1>3. m # 0 /\ m - 1 \in Nat /\ (m - 1) + 1 = m
  OBVIOUS
<1>4. m - 1 \in N
  BY <1>2, <1>3
<1> QED BY <1>3, <1>4

LEMMA MinOf ==
  ASSUME NEW S \in SUBSET Nat, S # {}
  PROVE  W!Min(S) \in S
BY LeastOf DEF W!Min

\* The instance of the chain counts as this module does.
LEMMA SameCount ==
  /\ \A S : W!Cardinality(S) = Cardinality(S)
  /\ \A S : W!IsFiniteSet(S) <=> IsFiniteSet(S)
BY DEF W!Cardinality, Cardinality, W!IsFiniteSet, IsFiniteSet

LEMMA WiringFacts ==
  /\ WiringNodes \subseteq Nat \ {0} /\ IsFiniteSet(WiringNodes)
  /\ Cardinality(WiringNodes) \in Nat
  /\ WiringIns \in [WiringNodes -> Nat] /\ WiringOuts \in [WiringNodes -> Nat]
  /\ NoPin \notin W!Pins
  /\ \A w \in WiringWires : <<w.from, w.out>> \in W!Pins /\ w.to \in WiringNodes
                            /\ w.in \in 1..WiringIns[w.to]
BY WiringInstance, SameCount, FS_CardinalityType DEF W!ChainAssumption

LEMMA PinFacts ==
  ASSUME NEW x \in W!Pins
  PROVE  x[1] \in WiringNodes /\ x[2] \in 1..WiringOuts[x[1]] /\ x = <<x[1], x[2]>>
BY DEF W!Pins

LEMMA WireFacts ==
  ASSUME NEW w \in WiringWires
  PROVE  /\ w.from \in WiringNodes /\ w.out \in 1..WiringOuts[w.from]
         /\ w.to \in WiringNodes /\ w.in \in 1..WiringIns[w.to]
<1>1. /\ <<w.from, w.out>> \in W!Pins
      /\ w.to \in WiringNodes /\ w.in \in 1..WiringIns[w.to]
  BY WiringFacts
<1>2. PICK p \in W!Pins : p = <<w.from, w.out>>
  BY <1>1
<1>3. p[1] \in WiringNodes /\ p[2] \in 1..WiringOuts[p[1]]
  BY PinFacts
<1> QED BY <1>1, <1>2, <1>3

\* The first n steps of the walk from S.
Walk(n, E, S, v, r) ==
  r = [k \in 0..n |->
         IF k = 0 THEN S
         ELSE r[k - 1] \cup ({e[2] : e \in {d \in E : d[1] \in r[k - 1]}} \ {v})]

LEMMA WalkExists == ASSUME NEW E, NEW S, NEW v PROVE \A n \in Nat : \E r : Walk(n, E, S, v, r)
<1> DEFINE Onward(x) == x \cup ({e[2] : e \in {d \in E : d[1] \in x}} \ {v})
           N == {n \in Nat : \E r : Walk(n, E, S, v, r)}
<1>1. 0 \in N
  <2> DEFINE r0 == [k \in 0..0 |-> S]
  <2>1. Walk(0, E, S, v, r0)
    BY DEF Walk
  <2> QED BY <2>1
<1>2. ASSUME NEW n \in N PROVE n + 1 \in N
  <2>1. PICK r : Walk(n, E, S, v, r)
    OBVIOUS
  <2> DEFINE h == [k \in 0..(n + 1) |-> IF k = n + 1 THEN Onward(r[n]) ELSE r[k]]
  <2>2. \A k \in 0..n : r[k] = IF k = 0 THEN S ELSE Onward(r[k - 1])
    BY <2>1 DEF Walk
  <2> HIDE DEF Onward
  <2>3. ASSUME NEW k \in 0..(n + 1) PROVE h[k] = IF k = 0 THEN S ELSE Onward(h[k - 1])
    <3>1. CASE k = n + 1
      BY <3>1
    <3>2. CASE k # n + 1
      BY <3>2, <2>2
    <3> QED BY <3>1, <3>2
  <2>4. h = [k \in 0..(n + 1) |-> h[k]]
    OBVIOUS
  <2> HIDE DEF h
  <2>5. Walk(n + 1, E, S, v, h)
    BY <2>3, <2>4 DEF Walk, Onward
  <2> QED BY <2>5
<1>3. N = Nat
  <2> HIDE DEF N
  <2> QED BY <1>1, <1>2, Counting DEF N
<1> QED BY <1>3

\* What was reached and is not of S has an edge that leads to it, and is not avoided.
LEMMA ReachedIs ==
  ASSUME NEW E, NEW S, NEW v, NEW R, R = W!Reached(E, S, v)
  PROVE  /\ S \subseteq R
         /\ \A x \in R : x \in S \/ (x # v /\ \E e \in E : e[2] = x)
<1> DEFINE c == Cardinality(WiringNodes)
           r == CHOOSE r : Walk(c, E, S, v, r)
<1>1. c \in Nat
  BY WiringFacts
<1>2. Walk(c, E, S, v, r)
  BY <1>1, WalkExists
<1>3. R = r[c]
  BY SameCount DEF W!Reached, Walk
<1> HIDE DEF r, c
<1> DEFINE Fine(x) == S \subseteq x /\ \A y \in x : y \in S \/ (y # v /\ \E e \in E : e[2] = y)
           N == {n \in Nat : n <= c => Fine(r[n])}
           Onward(x) == x \cup ({e[2] : e \in {d \in E : d[1] \in x}} \ {v})
<1>4. \A k \in 0..c : r[k] = IF k = 0 THEN S ELSE Onward(r[k - 1])
  BY <1>2 DEF Walk
<1> HIDE DEF Onward
<1>5. 0 \in N
  <2>1. 0 \in 0..c
    BY <1>1
  <2>2. r[0] = S
    BY <2>1, <1>4
  <2> QED BY <2>2
<1>6. ASSUME NEW n \in N PROVE n + 1 \in N
  <2>1. SUFFICES ASSUME n + 1 <= c PROVE Fine(r[n + 1])
    OBVIOUS
  <2>2. Fine(r[n])
    BY <2>1, <1>1
  <2>3. n + 1 \in 0..c /\ n + 1 # 0 /\ (n + 1) - 1 = n
    BY <2>1, <1>1
  <2>4. r[n + 1] = Onward(r[n])
    BY <2>3, <1>4
  <2>5. PICK x : x = r[n] /\ Fine(x)
    BY <2>2
  <2>6. Fine(Onward(x))
    BY <2>5 DEF Onward
  <2> QED BY <2>4, <2>5, <2>6
<1>7. N = Nat
  <2> HIDE DEF N
  <2> QED BY <1>5, <1>6, Counting DEF N
<1>8. c \in N /\ c <= c
  BY <1>1, <1>7
<1> QED BY <1>3, <1>8

\* Every component that is measured is fed, and Point A's is not among them.
LEMMA MembersAre ==
  ASSUME NEW L \in SUBSET WiringWires, NEW a, NEW b, b \in W!Forward(L, a),
         NEW M, M = W!Members(L, a, b)
  PROVE  b \in M /\ M \subseteq WiringNodes \ {a} /\ \A n \in M : \E l \in L : l.to = n
<1>1. PICK E, G, F : /\ E = W!Edges(L) /\ G = {<<e[2], e[1]>> : e \in {d \in E : d[1] \in F}}
                     /\ F = W!Forward(L, a)
  OBVIOUS
<1>2. ASSUME NEW x \in F PROVE x # a /\ x \in WiringNodes /\ \E l \in L : l.to = x
  <2>1. x # a /\ \E e \in E : e[2] = x
    BY <1>1, <1>2, ReachedIs DEF W!Forward
  <2>2. PICK l \in L : <<l.from, l.to>>[2] = x
    BY <1>1, <2>1 DEF W!Edges
  <2>3. l.to \in WiringNodes
    BY WireFacts
  <2> QED BY <2>1, <2>2, <2>3
<1>3. M = W!Reached(G, {b}, a)
  BY <1>1 DEF W!Members
<1>4. b \in M /\ \A x \in M : x = b \/ (x # a /\ \E g \in G : g[2] = x)
  BY <1>3, ReachedIs
<1>5. ASSUME NEW x \in M PROVE x \in F
  <2>1. CASE x = b
    BY <2>1, <1>1
  <2>2. CASE \E g \in G : g[2] = x
    BY <2>2, <1>1
  <2> QED BY <1>4, <2>1, <2>2
<1> QED BY <1>2, <1>4, <1>5

\* The members that may come next, all of whose feeds are in s.
Ready(F, M, s) == {n \in M \ W!ToSet(s) : \A l \in F : l.to = n => l.from \in W!ToSet(s)}
Longer(F, M, s) == IF Ready(F, M, s) = {} THEN s ELSE Append(s, W!Min(Ready(F, M, s)))

Sorting(n, F, M, a, s) ==
  s = [i \in 0..n |-> IF i = 0 THEN <<a>>
                      ELSE LET done == W!ToSet(s[i - 1])
                               ready == {m \in M \ done :
                                           \A l \in F : l.to = m => l.from \in done}
                           IN  IF ready = {} THEN s[i - 1] ELSE Append(s[i - 1], W!Min(ready))]

LEMMA SortingIs ==
  ASSUME NEW n \in Nat, NEW F, NEW M, NEW a, NEW s
  PROVE  Sorting(n, F, M, a, s) <=>
           s = [i \in 0..n |-> IF i = 0 THEN <<a>> ELSE Longer(F, M, s[i - 1])]
BY DEF Sorting, Longer, Ready

LEMMA SortingExists ==
  ASSUME NEW F, NEW M, NEW a PROVE \A n \in Nat : \E s : Sorting(n, F, M, a, s)
<1> DEFINE N == {n \in Nat : \E s : Sorting(n, F, M, a, s)}
<1>1. 0 \in N
  <2> DEFINE s0 == [i \in 0..0 |-> <<a>>]
  <2>1. s0 = [i \in 0..0 |-> IF i = 0 THEN <<a>> ELSE Longer(F, M, s0[i - 1])]
    OBVIOUS
  <2> HIDE DEF s0
  <2>2. Sorting(0, F, M, a, s0)
    BY <2>1, SortingIs
  <2> QED BY <2>2
<1>2. ASSUME NEW n \in N PROVE n + 1 \in N
  <2>1. PICK s : Sorting(n, F, M, a, s)
    OBVIOUS
  <2> DEFINE h == [i \in 0..(n + 1) |-> IF i = n + 1 THEN Longer(F, M, s[n]) ELSE s[i]]
  <2>2. s = [i \in 0..n |-> IF i = 0 THEN <<a>> ELSE Longer(F, M, s[i - 1])]
    BY <2>1, SortingIs
  <2>3. \A i \in 0..n : s[i] = IF i = 0 THEN <<a>> ELSE Longer(F, M, s[i - 1])
    BY <2>2
  <2>4. ASSUME NEW i \in 0..(n + 1) PROVE h[i] = IF i = 0 THEN <<a>> ELSE Longer(F, M, h[i - 1])
    <3>1. CASE i = n + 1
      BY <3>1
    <3>2. CASE i # n + 1
      BY <3>2, <2>3
    <3> QED BY <3>1, <3>2
  <2>5. h = [i \in 0..(n + 1) |-> h[i]]
    OBVIOUS
  <2> HIDE DEF h
  <2>6. h = [i \in 0..(n + 1) |-> IF i = 0 THEN <<a>> ELSE Longer(F, M, h[i - 1])]
    BY <2>4, <2>5
  <2>7. Sorting(n + 1, F, M, a, h)
    <3>1. n + 1 \in Nat
      OBVIOUS
    <3> QED BY <2>6, <3>1, SortingIs
  <2> QED BY <2>7
<1>3. N = Nat
  <2> HIDE DEF N
  <2> QED BY <1>1, <1>2, Counting DEF N
<1> QED BY <1>3

\* Point A's component comes first, each member once, and after all that feed it.
Sorted(s, F, M, a) ==
  /\ s \in Seq(M \cup {a}) /\ Len(s) >= 1 /\ s[1] = a
  /\ \A i, j \in 1..Len(s) : s[i] = s[j] => i = j
  /\ \A i \in 2..Len(s) :
       s[i] \in M /\ \A l \in F : l.to = s[i] => \E j \in 1..(i - 1) : s[j] = l.from

LEMMA LongerIsSorted ==
  ASSUME NEW M \in SUBSET Nat, NEW F, NEW a, NEW s, Sorted(s, F, M, a)
  PROVE  Sorted(Longer(F, M, s), F, M, a)
<1>1. CASE Ready(F, M, s) = {}
  BY <1>1 DEF Longer
<1>2. CASE Ready(F, M, s) # {}
  <2>1. PICK m \in M : /\ m = W!Min(Ready(F, M, s)) /\ m \notin W!ToSet(s)
                       /\ \A l \in F : l.to = m => l.from \in W!ToSet(s)
    <3>1. Ready(F, M, s) \in SUBSET Nat
      BY DEF Ready
    <3>2. W!Min(Ready(F, M, s)) \in Ready(F, M, s)
      BY <1>2, <3>1, MinOf
    <3> QED BY <3>2 DEF Ready
  <2>2. PICK n \in Nat : n = Len(s)
    BY DEF Sorted
  <2>3. W!ToSet(s) = {s[i] : i \in 1..n}
    BY <2>2 DEF Sorted, W!ToSet
  <2>4. PICK t : t = Append(s, m)
    OBVIOUS
  <2>5. /\ t \in Seq(M \cup {a}) /\ Len(t) = n + 1 /\ t[n + 1] = m
        /\ \A i \in 1..n : t[i] = s[i]
    BY <2>2, <2>4, AppendProperties DEF Sorted
  <2>6. ASSUME NEW i \in 1..(n + 1), NEW j \in 1..(n + 1), t[i] = t[j] PROVE i = j
    <3>1. CASE i \in 1..n /\ j \in 1..n
      BY <3>1, <2>2, <2>5, <2>6 DEF Sorted
    <3>2. CASE i = n + 1 /\ j \in 1..n
      BY <3>2, <2>1, <2>3, <2>5, <2>6
    <3>3. CASE j = n + 1 /\ i \in 1..n
      BY <3>3, <2>1, <2>3, <2>5, <2>6
    <3>4. i \in 1..n \/ i = n + 1
      OBVIOUS
    <3>5. j \in 1..n \/ j = n + 1
      OBVIOUS
    <3> QED BY <3>1, <3>2, <3>3, <3>4, <3>5
  <2>7. ASSUME NEW i \in 2..(n + 1)
        PROVE  t[i] \in M /\ \A l \in F : l.to = t[i] => \E j \in 1..(i - 1) : t[j] = l.from
    <3>1. CASE i = n + 1
      <4>1. SUFFICES ASSUME NEW l \in F, l.to = m PROVE \E j \in 1..(i - 1) : t[j] = l.from
        BY <3>1, <2>5
      <4>2. PICK j \in 1..n : s[j] = l.from
        BY <4>1, <2>1, <2>3
      <4>3. j \in 1..(i - 1) /\ t[j] = l.from
        BY <3>1, <4>2, <2>5
      <4> QED BY <4>3
    <3>2. CASE i # n + 1
      <4>1. i \in 2..n /\ i \in 1..n /\ t[i] = s[i]
        BY <3>2, <2>5
      <4>2. s[i] \in M /\ \A l \in F : l.to = s[i] => \E j \in 1..(i - 1) : s[j] = l.from
        BY <4>1, <2>2 DEF Sorted
      <4>3. \A j \in 1..(i - 1) : t[j] = s[j]
        BY <4>1, <2>5
      <4> QED BY <4>1, <4>2, <4>3
    <3> QED BY <3>1, <3>2
  <2>8. t[1] = a /\ Len(t) >= 1
    BY <2>2, <2>5 DEF Sorted
  <2>9. Sorted(t, F, M, a)
    BY <2>5, <2>6, <2>7, <2>8 DEF Sorted
  <2> QED BY <1>2, <2>1, <2>4, <2>9 DEF Longer
<1> QED BY <1>1, <1>2

LEMMA OrderIsSorted ==
  ASSUME NEW M \in SUBSET Nat, IsFiniteSet(M), NEW F, NEW a, NEW o, o = W!Order(F, M, a)
  PROVE  Sorted(o, F, M, a)
<1> DEFINE c == Cardinality(M)
           s == CHOOSE s : Sorting(c, F, M, a, s)
<1>1. c \in Nat
  BY FS_CardinalityType
<1>2. Sorting(c, F, M, a, s)
  BY <1>1, SortingExists
<1>3. o = s[c]
  BY SameCount DEF W!Order, Sorting
<1> HIDE DEF s, c
<1> DEFINE N == {n \in Nat : n <= c => Sorted(s[n], F, M, a)}
<1>4. s = [i \in 0..c |-> IF i = 0 THEN <<a>> ELSE Longer(F, M, s[i - 1])]
  BY <1>1, <1>2, SortingIs
<1>5. \A i \in 0..c : s[i] = IF i = 0 THEN <<a>> ELSE Longer(F, M, s[i - 1])
  BY <1>4
<1>6. 0 \in N
  <2>1. s[0] = <<a>>
    BY <1>1, <1>5
  <2>2. Sorted(<<a>>, F, M, a)
    BY DEF Sorted
  <2> QED BY <2>1, <2>2
<1>7. ASSUME NEW n \in N PROVE n + 1 \in N
  <2>1. SUFFICES ASSUME n + 1 <= c PROVE Sorted(s[n + 1], F, M, a)
    OBVIOUS
  <2>2. Sorted(s[n], F, M, a)
    BY <2>1, <1>1
  <2>3. n + 1 \in 0..c /\ n + 1 # 0 /\ (n + 1) - 1 = n
    BY <2>1, <1>1
  <2>4. s[n + 1] = Longer(F, M, s[n])
    BY <2>3, <1>5
  <2> QED BY <2>2, <2>4, LongerIsSorted
<1>8. N = Nat
  <2> HIDE DEF N
  <2> QED BY <1>6, <1>7, Counting DEF N
<1>9. c \in N /\ c <= c
  BY <1>1, <1>8
<1> QED BY <1>3, <1>9

\* An order as long as there are components has all of them.
LEMMA OrderCovers ==
  ASSUME NEW M, IsFiniteSet(M), NEW a, a \notin M, NEW F, NEW s, Sorted(s, F, M, a),
         Len(s) = Cardinality(M) + 1
  PROVE  \A n \in M \cup {a} : \E i \in 1..Len(s) : s[i] = n
<1>1. IsFiniteSet(M \cup {a}) /\ Cardinality(M \cup {a}) = Len(s)
  BY FS_AddElement
<1>2. Len(s) \in Nat /\ s \in [1..Len(s) -> M \cup {a}]
  BY DEF Sorted
<1>3. s \in Injection(1..Len(s), M \cup {a})
  BY <1>2 DEF Injection, IsInjective, Sorted
<1>4. Cardinality(1..Len(s)) = Len(s)
  BY <1>2, FS_Interval
<1>5. s \in Surjection(1..Len(s), M \cup {a})
  BY <1>1, <1>3, <1>4, FS_Injection
<1> QED BY <1>5 DEF Surjection

\* Where a component is in the order, and the edge that a link of the circuit becomes.
Position(s, n) == CHOOSE i \in DOMAIN s : s[i] = n
EdgeOf(s, l) == [from |-> Position(s, l.from), out |-> l.out, to |-> Position(s, l.to), in |-> l.in]

\* c is the chain between two pins, of the members M in the order s.
IsChain(c, L, val, x, y, M, s) ==
  /\ x \in W!Pins /\ y \in W!Pins
  /\ M \subseteq WiringNodes \ {x[1]} /\ IsFiniteSet(M)
  /\ \A n \in M : \E l \in L : l.to = n
  /\ W!Reproducible(W!Feeds(L, M), M, x[1])
  /\ Sorted(s, W!Feeds(L, M), M, x[1])
  /\ Len(s) = Cardinality(M) + 1 /\ Len(s) >= 2 /\ s[Len(s)] = y[1]
  /\ \A n \in M \cup {x[1]} : \E i \in 1..Len(s) : s[i] = n
  /\ c = [nodes |-> s, values |-> [i \in DOMAIN s |-> val[s[i]]],
          edges |-> {EdgeOf(s, l) : l \in W!Feeds(L, M)}, port |-> y[2]]

LEMMA ChainIs ==
  ASSUME NEW L \in SUBSET WiringWires, NEW val,
         NEW x \in W!Pins \cup {NoPin}, NEW y \in W!Pins \cup {NoPin},
         NEW c, c = W!Chain(L, val, x, y), c # NoChain
  PROVE  \E M, s : IsChain(c, L, val, x, y, M, s)
<1>1. PICK M, F, s : /\ M = W!Members(L, x[1], y[1]) /\ F = W!Feeds(L, M)
                     /\ s = W!Order(F, M, x[1])
  OBVIOUS
<1>2. /\ x # NoPin /\ y # NoPin
      /\ y[1] \in W!Forward(L, x[1])
      /\ W!Reproducible(F, M, x[1])
      /\ Len(s) = W!Cardinality(M) + 1 /\ W!Last(s) = y[1]
      /\ c = [nodes |-> s, values |-> [i \in DOMAIN s |-> val[s[i]]],
              edges |-> {EdgeOf(s, l) : l \in F}, port |-> y[2]]
  BY <1>1, SMTT(30) DEF W!Chain, EdgeOf, Position
<1>3. x \in W!Pins /\ y \in W!Pins
  BY <1>2
<1>4. y[1] \in M /\ M \subseteq WiringNodes \ {x[1]} /\ \A n \in M : \E l \in L : l.to = n
  BY <1>1, <1>2, MembersAre
<1>5. IsFiniteSet(M) /\ M \in SUBSET Nat /\ x[1] \notin M
  BY <1>4, WiringFacts, FS_Subset
<1>6. Sorted(s, F, M, x[1])
  BY <1>1, <1>5, OrderIsSorted
<1>7. Len(s) = Cardinality(M) + 1 /\ Cardinality(M) \in Nat /\ Cardinality(M) # 0
  BY <1>2, <1>4, <1>5, SameCount, FS_CardinalityType, FS_EmptySet
<1>8. \A n \in M \cup {x[1]} : \E i \in 1..Len(s) : s[i] = n
  BY <1>5, <1>6, <1>7, OrderCovers
<1>9. s[Len(s)] = y[1]
  BY <1>2 DEF W!Last
<1>10. IsChain(c, L, val, x, y, M, s)
  BY <1>1, <1>2, <1>3, <1>4, <1>5, <1>6, <1>7, <1>8, <1>9 DEF IsChain
<1> QED BY <1>10

LeadsForward(c, s, a, l, e) ==
  /\ e \in c.edges /\ e.to \in 2..Len(s) /\ e.from \in 1..(e.to - 1)
  /\ s[e.to] = l.to /\ s[e.from] = l.from /\ e.in = l.in /\ e.out = l.out
  /\ (e.from = 1 <=> l.from = a)

\* The edge of a feed leads forward, between the components of the link.
LEMMA FeedsEdge ==
  ASSUME NEW L \in SUBSET WiringWires, NEW val, NEW x, NEW y, NEW M, NEW s, NEW c,
         IsChain(c, L, val, x, y, M, s), NEW l \in L, l.to \in M, NEW e, e = EdgeOf(s, l)
  PROVE  LeadsForward(c, s, x[1], l, e)
<1> DEFINE F == W!Feeds(L, M)
<1>1. l \in F
  BY DEF W!Feeds
<1>2. e \in c.edges
  BY <1>1 DEF IsChain
<1>3. e.from = Position(s, l.from) /\ e.to = Position(s, l.to) /\ e.in = l.in /\ e.out = l.out
  BY DEF EdgeOf
<1>4. l.from \in M \cup {x[1]}
  BY <1>1 DEF IsChain, W!Reproducible
<1>5. DOMAIN s = 1..Len(s) /\ Len(s) \in Nat /\ s[1] = x[1] /\ x[1] \notin M
  BY DEF IsChain, Sorted
<1>6. Position(s, l.from) \in 1..Len(s) /\ s[Position(s, l.from)] = l.from
  BY <1>4, <1>5 DEF IsChain, Position
<1>7. Position(s, l.to) \in 1..Len(s) /\ s[Position(s, l.to)] = l.to
  BY <1>5 DEF IsChain, Position
<1>8. PICK i \in 1..Len(s), j \in 1..Len(s) : /\ i = e.from /\ j = e.to
                                              /\ s[i] = l.from /\ s[j] = l.to
  BY <1>3, <1>6, <1>7
<1>9. j # 1 /\ j \in 2..Len(s)
  BY <1>5, <1>8
<1>10. PICK k \in 1..(j - 1) : s[k] = l.from
  <2>1. Sorted(s, F, M, x[1])
    BY DEF IsChain
  <2>2. \A f \in F : f.to = s[j] => \E q \in 1..(j - 1) : s[q] = f.from
    BY <1>9, <2>1 DEF Sorted
  <2> QED BY <1>1, <1>8, <2>2
<1>11. k \in 1..Len(s)
  BY <1>5, <1>8
<1>12. k = i
  <2>1. \A p, q \in 1..Len(s) : s[p] = s[q] => p = q
    BY DEF IsChain, Sorted
  <2> QED BY <1>8, <1>10, <1>11, <2>1
<1>13. i = 1 <=> l.from = x[1]
  <2>1. 1 \in 1..Len(s)
    BY <1>5, <1>8
  <2> QED BY <1>5, <1>8, <2>1 DEF IsChain, Sorted
<1> QED BY <1>2, <1>3, <1>8, <1>9, <1>10, <1>12, <1>13 DEF LeadsForward

\* Every edge is that of a feed.
LEMMA EdgesFeed ==
  ASSUME NEW L, NEW val, NEW x, NEW y, NEW M, NEW s, NEW c,
         IsChain(c, L, val, x, y, M, s), NEW e \in c.edges
  PROVE  \E l \in L : l.to \in M /\ e = EdgeOf(s, l)
BY DEF IsChain, W!Feeds

\* An input has one edge.
LEMMA EdgesSingle ==
  ASSUME NEW L \in SUBSET WiringWires, NEW val, NEW x, NEW y, NEW M, NEW s, NEW c,
         IsChain(c, L, val, x, y, M, s),
         NEW e \in c.edges, NEW d \in c.edges, d.to = e.to, d.in = e.in
  PROVE  d = e
<1>1. PICK l \in L : l.to \in M /\ e = EdgeOf(s, l)
  BY EdgesFeed
<1>2. PICK k \in L : k.to \in M /\ d = EdgeOf(s, k)
  BY EdgesFeed
<1>3. s[e.to] = l.to /\ e.in = l.in
  <2>1. LeadsForward(c, s, x[1], l, e)
    BY <1>1, FeedsEdge
  <2> QED BY <2>1 DEF LeadsForward
<1>4. s[d.to] = k.to /\ d.in = k.in
  <2>1. LeadsForward(c, s, x[1], k, d)
    BY <1>2, FeedsEdge
  <2> QED BY <2>1 DEF LeadsForward
<1>5. l.to = k.to /\ l.in = k.in
  BY <1>3, <1>4
<1>6. l \in W!Feeds(L, M) /\ k \in W!Feeds(L, M)
  BY <1>1, <1>2 DEF W!Feeds
<1>7. l = k
  BY <1>5, <1>6 DEF IsChain, W!Reproducible
<1> QED BY <1>1, <1>2, <1>7

LEMMA ChainIsPrepared ==
  ASSUME NEW L \in SUBSET WiringWires, NEW val, NEW x, NEW y, NEW M, NEW s, NEW c,
         IsChain(c, L, val, x, y, M, s)
  PROVE  W!Prepared(c)
<1>1. c.nodes = s /\ c.port = y[2] /\ Len(s) \in Nat /\ Len(s) >= 2 /\ W!Last(s) = y[1]
  BY DEF IsChain, Sorted, W!Last
<1>2. ASSUME NEW e \in c.edges
      PROVE  /\ e.from < e.to /\ e.to \in 2..Len(s)
             /\ e.in \in 1..WiringIns[s[e.to]] /\ e.out \in 1..WiringOuts[s[e.from]]
  <2>1. PICK l \in L : l.to \in M /\ e = EdgeOf(s, l)
    BY EdgesFeed
  <2>2. /\ e.to \in 2..Len(s) /\ e.from \in 1..(e.to - 1)
        /\ s[e.to] = l.to /\ s[e.from] = l.from /\ e.in = l.in /\ e.out = l.out
    <3>1. LeadsForward(c, s, x[1], l, e)
      BY <2>1, FeedsEdge
    <3> QED BY <3>1 DEF LeadsForward
  <2>3. l.out \in 1..WiringOuts[l.from] /\ l.in \in 1..WiringIns[l.to]
    BY WireFacts
  <2>4. e.from < e.to
    BY <1>1, <2>2
  <2> QED BY <2>2, <2>3, <2>4
<1>3. \E e \in c.edges : e.from = 1
  <2>1. 2 \in 2..Len(s) /\ s[2] \in M
    BY <1>1 DEF IsChain, Sorted
  <2>2. PICK l \in L : l.to = s[2]
    BY <2>1 DEF IsChain
  <2>3. PICK e : e = EdgeOf(s, l)
    OBVIOUS
  <2>4. /\ e \in c.edges /\ e.to \in 2..Len(s) /\ e.from \in 1..(e.to - 1) /\ s[e.to] = s[2]
    <3>1. LeadsForward(c, s, x[1], l, e)
      BY <2>1, <2>2, <2>3, FeedsEdge
    <3> QED BY <2>2, <3>1 DEF LeadsForward
  <2>5. e.to = 2
    <3>1. e.to \in 1..Len(s) /\ 2 \in 1..Len(s)
      BY <1>1, <2>4
    <3> QED BY <2>4, <3>1 DEF IsChain, Sorted
  <2>6. e.from = 1
    BY <2>4, <2>5
  <2> QED BY <2>4, <2>6
<1>4. y[2] \in 1..WiringOuts[y[1]]
  BY PinFacts DEF IsChain
<1>5. ASSUME NEW e \in c.edges, NEW d \in c.edges, d.to = e.to, d.in = e.in PROVE d = e
  BY <1>5, EdgesSingle
<1> QED BY <1>1, <1>2, <1>3, <1>4, <1>5 DEF W!Prepared

\* What the clone at place i is fed at its input p, when the clones give "out".
CloneInput(c, i, p, out) ==
  IF \E e \in c.edges : e.to = i /\ e.in = p
  THEN LET e == CHOOSE e \in c.edges : e.to = i /\ e.in = p
       IN  IF e.from = 1 THEN W!Stimulus ELSE <<e.out, out[e.from]>>
  ELSE W!Silence
Clone(c, i, out) ==
  <<c.nodes[i], c.values[i],
    [p \in 1..WiringIns[c.nodes[i]] |->
       IF \E e \in c.edges : e.to = i /\ e.in = p
       THEN LET e == CHOOSE e \in c.edges : e.to = i /\ e.in = p
            IN  IF e.from = 1 THEN W!Stimulus ELSE <<e.out, out[e.from]>>
       ELSE W!Silence]>>
Clones(n, c, out) == out = [i \in 1..n |-> Clone(c, i, out)]

\* Edges lead forward, so a clone depends on those before it.
LEMMA CloneDepends ==
  ASSUME NEW c, \A e \in c.edges : e.from < e.to /\ e.from \in Nat \ {0},
         NEW i \in Nat, NEW f, NEW g, \A j \in 1..(i - 1) : f[j] = g[j]
  PROVE  Clone(c, i, f) = Clone(c, i, g)
<1>1. ASSUME NEW p PROVE CloneInput(c, i, p, f) = CloneInput(c, i, p, g)
  <2>1. CASE ~ \E e \in c.edges : e.to = i /\ e.in = p
    BY <2>1 DEF CloneInput
  <2>2. CASE \E e \in c.edges : e.to = i /\ e.in = p
    <3>1. PICK d \in c.edges : /\ d = CHOOSE e \in c.edges : e.to = i /\ e.in = p
                               /\ d.to = i /\ d.in = p
      BY <2>2
    <3>2. d.from \in 1..(i - 1)
      BY <3>1
    <3>3. f[d.from] = g[d.from]
      BY <3>2
    <3>4. /\ CloneInput(c, i, p, f) = IF d.from = 1 THEN W!Stimulus ELSE <<d.out, f[d.from]>>
          /\ CloneInput(c, i, p, g) = IF d.from = 1 THEN W!Stimulus ELSE <<d.out, g[d.from]>>
      BY <2>2, <3>1 DEF CloneInput
    <3> QED BY <3>3, <3>4
  <2> QED BY <2>1, <2>2
<1>2. /\ Clone(c, i, f) = <<c.nodes[i], c.values[i],
                           [p \in 1..WiringIns[c.nodes[i]] |-> CloneInput(c, i, p, f)]>>
      /\ Clone(c, i, g) = <<c.nodes[i], c.values[i],
                           [p \in 1..WiringIns[c.nodes[i]] |-> CloneInput(c, i, p, g)]>>
  BY DEF Clone, CloneInput
<1>3. [p \in 1..WiringIns[c.nodes[i]] |-> CloneInput(c, i, p, f)]
        = [p \in 1..WiringIns[c.nodes[i]] |-> CloneInput(c, i, p, g)]
  BY <1>1
<1> QED BY <1>2, <1>3

LEMMA ClonesExist ==
  ASSUME NEW c, \A e \in c.edges : e.from < e.to /\ e.from \in Nat \ {0}
  PROVE  \A n \in Nat : \E out : Clones(n, c, out)
<1> DEFINE N == {n \in Nat : \E out : Clones(n, c, out)}
<1>1. 0 \in N
  <2> DEFINE none == [i \in 1..0 |-> Clone(c, i, <<>>)]
  <2>1. none = [i \in 1..0 |-> Clone(c, i, none)]
    OBVIOUS
  <2>2. Clones(0, c, none)
    BY <2>1 DEF Clones
  <2> QED BY <2>2
<1>2. ASSUME NEW n \in N PROVE n + 1 \in N
  <2>1. PICK f : Clones(n, c, f)
    OBVIOUS
  <2>2. PICK h : h = [i \in 1..(n + 1) |-> Clone(c, i, f)]
    OBVIOUS
  <2>3. \A i \in 1..n : f[i] = Clone(c, i, f)
    BY <2>1 DEF Clones
  <2>4. \A i \in 1..n : h[i] = f[i]
    BY <2>2, <2>3
  <2>5. ASSUME NEW i \in 1..(n + 1) PROVE Clone(c, i, f) = Clone(c, i, h)
    <3>1. \A j \in 1..(i - 1) : f[j] = h[j]
      BY <2>4
    <3>2. i \in Nat
      OBVIOUS
    <3> QED BY <3>1, <3>2, CloneDepends, ZenonT(30)
  <2>6. h = [i \in 1..(n + 1) |-> Clone(c, i, h)]
    BY <2>2, <2>5
  <2>7. Clones(n + 1, c, h)
    BY <2>6 DEF Clones
  <2> QED BY <2>7
<1>3. N = Nat
  <2> HIDE DEF N
  <2> QED BY <1>1, <1>2, Counting DEF N
<1> QED BY <1>3

LEMMA ResponseIs ==
  ASSUME NEW c, \A e \in c.edges : e.from < e.to /\ e.from \in Nat \ {0}, Len(c.nodes) \in Nat
  PROVE  \E out : /\ Clones(Len(c.nodes), c, out)
                  /\ W!Response(c) = <<c.port, out[Len(c.nodes)]>>
<1> DEFINE out == CHOOSE out : Clones(Len(c.nodes), c, out)
<1>1. Clones(Len(c.nodes), c, out)
  BY ClonesExist
<1>2. W!Response(c) = <<c.port, out[Len(c.nodes)]>>
  BY DEF W!Response, Clones, Clone
<1> QED BY <1>1, <1>2

\* What component n of the live circuit is fed at its input p, and its signals after k rounds.
LiveInput(L, a, n, p, signal) ==
  LET l == CHOOSE l \in L : l.to = n /\ l.in = p
  IN  IF ~\E k \in L : k.to = n /\ k.in = p THEN W!Silence
      ELSE IF <<l.from, l.out>> = a THEN W!Stimulus ELSE <<l.out, signal[l.from]>>
Round(L, val, a, signal) ==
  [n \in WiringNodes |-> <<n, val[n], [p \in 1..WiringIns[n] |-> LiveInput(L, a, n, p, signal)]>>]
Rounds(m, L, val, a, out) ==
  out = [k \in 0..m |->
           [n \in WiringNodes |->
              IF k = 0 THEN <<n>>
              ELSE <<n, val[n], [p \in 1..WiringIns[n] |-> LiveInput(L, a, n, p, out[k - 1])]>>]]

LEMMA RoundsAre ==
  ASSUME NEW m \in Nat, NEW L, NEW val, NEW a, NEW out
  PROVE  Rounds(m, L, val, a, out) <=>
           out = [k \in 0..m |-> IF k = 0 THEN [n \in WiringNodes |-> <<n>>]
                                 ELSE Round(L, val, a, out[k - 1])]
<1> DEFINE G(k) == [n \in WiringNodes |->
              IF k = 0 THEN <<n>>
              ELSE <<n, val[n], [p \in 1..WiringIns[n] |-> LiveInput(L, a, n, p, out[k - 1])]>>]
           H(k) == IF k = 0 THEN [n \in WiringNodes |-> <<n>>] ELSE Round(L, val, a, out[k - 1])
<1>1. ASSUME NEW k \in 0..m PROVE G(k) = H(k)
  <2>1. CASE k = 0
    BY <2>1
  <2>2. CASE k # 0
    BY <2>2 DEF Round
  <2> QED BY <2>1, <2>2
<1> HIDE DEF G, H
<1>2. [k \in 0..m |-> G(k)] = [k \in 0..m |-> H(k)]
  BY <1>1
<1> QED BY <1>2 DEF Rounds, G, H

LEMMA RoundsExist ==
  ASSUME NEW L, NEW val, NEW a PROVE \A m \in Nat : \E out : Rounds(m, L, val, a, out)
<1> DEFINE N == {m \in Nat : \E out : Rounds(m, L, val, a, out)}
           first == [n \in WiringNodes |-> <<n>>]
<1> HIDE DEF first
<1>1. 0 \in N
  <2> DEFINE f == [k \in 0..0 |-> first]
  <2>1. f = [k \in 0..0 |-> IF k = 0 THEN first ELSE Round(L, val, a, f[k - 1])]
    OBVIOUS
  <2> HIDE DEF f
  <2>2. Rounds(0, L, val, a, f)
    BY <2>1, RoundsAre DEF first
  <2> QED BY <2>2
<1>2. ASSUME NEW m \in N PROVE m + 1 \in N
  <2>1. PICK f : Rounds(m, L, val, a, f)
    OBVIOUS
  <2>2. f = [k \in 0..m |-> IF k = 0 THEN first ELSE Round(L, val, a, f[k - 1])]
    BY <2>1, RoundsAre DEF first
  <2> DEFINE h == [k \in 0..(m + 1) |-> IF k = m + 1 THEN Round(L, val, a, f[m]) ELSE f[k]]
  <2>3. \A k \in 0..m : f[k] = IF k = 0 THEN first ELSE Round(L, val, a, f[k - 1])
    BY <2>2
  <2>4. ASSUME NEW k \in 0..(m + 1)
        PROVE  h[k] = IF k = 0 THEN first ELSE Round(L, val, a, h[k - 1])
    <3>1. CASE k = m + 1
      BY <3>1
    <3>2. CASE k # m + 1
      BY <3>2, <2>3
    <3> QED BY <3>1, <3>2
  <2>5. h = [k \in 0..(m + 1) |-> h[k]]
    OBVIOUS
  <2> HIDE DEF h
  <2>6. h = [k \in 0..(m + 1) |-> IF k = 0 THEN first ELSE Round(L, val, a, h[k - 1])]
    BY <2>4, <2>5
  <2>7. Rounds(m + 1, L, val, a, h)
    <3>1. m + 1 \in Nat
      OBVIOUS
    <3> QED BY <2>6, <3>1, RoundsAre DEF first
  <2> QED BY <2>7
<1>3. N = Nat
  <2> HIDE DEF N
  <2> QED BY <1>1, <1>2, Counting DEF N
<1> QED BY <1>3

LEMMA LiveSignalIs ==
  ASSUME NEW L, NEW val, NEW a, NEW b
  PROVE  \E out : /\ Rounds(Cardinality(WiringNodes), L, val, a, out)
                  /\ W!LiveSignal(L, val, a, b) = <<b[2], out[Cardinality(WiringNodes)][b[1]]>>
<1> DEFINE c == Cardinality(WiringNodes)
           out == CHOOSE out : Rounds(c, L, val, a, out)
<1>1. Rounds(c, L, val, a, out)
  BY RoundsExist, WiringFacts
<1>2. W!LiveSignal(L, val, a, b) = <<b[2], out[c][b[1]]>>
  BY SameCount DEF W!LiveSignal, Rounds, LiveInput
<1> QED BY <1>1, <1>2

\* The clone at place i is fed what its component is fed in the live circuit, if the
\* clones before it give what their components give.
LEMMA SameInput ==
  ASSUME NEW L \in SUBSET WiringWires, NEW val, NEW x, NEW y, NEW M, NEW s, NEW c,
         IsChain(c, L, val, x, y, M, s),
         NEW o, \A l \in L : l.to \in M /\ l.from = x[1] => l.out = o,
         NEW i \in 2..Len(s), NEW p, NEW out, NEW signal,
         \A j \in 2..(i - 1) : signal[s[j]] = out[j]
  PROVE  LiveInput(L, <<x[1], o>>, s[i], p, signal) = CloneInput(c, i, p, out)
<1>1. s[i] \in M /\ Len(s) \in Nat /\ i \in 1..Len(s)
  BY DEF IsChain, Sorted
<1>2. CASE ~ \E l \in L : l.to = s[i] /\ l.in = p
  <2>1. ASSUME NEW e \in c.edges, e.to = i, e.in = p PROVE FALSE
    <3>1. PICK l \in L : l.to \in M /\ e = EdgeOf(s, l)
      BY EdgesFeed
    <3>2. LeadsForward(c, s, x[1], l, e)
      BY <3>1, FeedsEdge
    <3>3. l.to = s[i] /\ l.in = p
      BY <2>1, <3>2 DEF LeadsForward
    <3> QED BY <1>2, <3>3
  <2>2. CloneInput(c, i, p, out) = W!Silence
    BY <2>1 DEF CloneInput
  <2>3. LiveInput(L, <<x[1], o>>, s[i], p, signal) = W!Silence
    BY <1>2 DEF LiveInput
  <2> QED BY <2>2, <2>3
<1>3. CASE \E l \in L : l.to = s[i] /\ l.in = p
  <2>1. PICK l \in L : /\ l = CHOOSE k \in L : k.to = s[i] /\ k.in = p
                       /\ l.to = s[i] /\ l.in = p
    BY <1>3
  <2>2. PICK e : e = EdgeOf(s, l)
    OBVIOUS
  <2>3. LeadsForward(c, s, x[1], l, e)
    BY <1>1, <2>1, <2>2, FeedsEdge
  <2>4. e.to = i
    <3>1. e.to \in 1..Len(s) /\ s[e.to] = s[i]
      BY <1>1, <2>1, <2>3 DEF LeadsForward
    <3> QED BY <1>1, <3>1 DEF IsChain, Sorted
  <2>5. e \in c.edges /\ e.in = p
    BY <2>1, <2>3 DEF LeadsForward
  <2>6. ASSUME NEW d \in c.edges, d.to = i, d.in = p PROVE d = e
    <3>1. W!Prepared(c)
      BY ChainIsPrepared
    <3> QED BY <2>4, <2>5, <2>6, <3>1 DEF W!Prepared
  <2>7. e = CHOOSE d \in c.edges : d.to = i /\ d.in = p
    <3>1. PICK d : d = CHOOSE h \in c.edges : h.to = i /\ h.in = p
      OBVIOUS
    <3>2. d \in c.edges /\ d.to = i /\ d.in = p
      BY <2>4, <2>5, <3>1
    <3> QED BY <2>6, <3>1, <3>2
  <2>8. CloneInput(c, i, p, out) = IF e.from = 1 THEN W!Stimulus ELSE <<e.out, out[e.from]>>
    BY <2>4, <2>5, <2>7 DEF CloneInput
  <2>9. LiveInput(L, <<x[1], o>>, s[i], p, signal)
          = IF <<l.from, l.out>> = <<x[1], o>> THEN W!Stimulus ELSE <<l.out, signal[l.from]>>
    BY <2>1 DEF LiveInput
  <2>10. <<l.from, l.out>> = <<x[1], o>> <=> e.from = 1
    <3>1. l.from = x[1] => l.out = o
      BY <1>1, <2>1
    <3>2. e.from = 1 <=> l.from = x[1]
      BY <2>3 DEF LeadsForward
    <3> QED BY <3>1, <3>2
  <2>11. ASSUME e.from # 1 PROVE <<e.out, out[e.from]>> = <<l.out, signal[l.from]>>
    <3>1. e.from \in 2..(i - 1) /\ s[e.from] = l.from /\ e.out = l.out
      BY <2>3, <2>4, <2>11 DEF LeadsForward
    <3> QED BY <3>1
  <2> QED BY <2>8, <2>9, <2>10, <2>11
<1> QED BY <1>2, <1>3

\* After as many rounds as there are components before it, a member's signal is what
\* its clone gives.
LEMMA ClonesFollow ==
  ASSUME NEW L \in SUBSET WiringWires, NEW val, NEW x, NEW y, NEW M, NEW s, NEW c,
         IsChain(c, L, val, x, y, M, s),
         NEW o, \A l \in L : l.to \in M /\ l.from = x[1] => l.out = o,
         NEW out, Clones(Len(s), c, out),
         NEW m \in Nat, NEW live, Rounds(m, L, val, <<x[1], o>>, live)
  PROVE  \A i \in 2..Len(s) : \A k \in (i - 1)..m : live[k][s[i]] = out[i]
<1> DEFINE N == {n \in Nat : \A i \in 2..n : i <= Len(s) =>
                               \A k \in (i - 1)..m : live[k][s[i]] = out[i]}
<1>1. Len(s) \in Nat
  BY DEF IsChain, Sorted
<1>2. live = [k \in 0..m |-> IF k = 0 THEN [n \in WiringNodes |-> <<n>>]
                             ELSE Round(L, val, <<x[1], o>>, live[k - 1])]
  BY RoundsAre
<1>3. ASSUME NEW k \in 1..m PROVE live[k] = Round(L, val, <<x[1], o>>, live[k - 1])
  <2>1. k \in 0..m /\ k # 0
    OBVIOUS
  <2> QED BY <1>2, <2>1
<1>4. \A i \in 1..Len(s) : out[i] = Clone(c, i, out)
  BY DEF Clones
<1>5. 0 \in N
  OBVIOUS
<1>6. ASSUME NEW n \in N PROVE n + 1 \in N
  <2>1. SUFFICES ASSUME NEW i \in 2..Len(s), i = n + 1, NEW k \in (i - 1)..m
                 PROVE  live[k][s[i]] = out[i]
    OBVIOUS
  <2>2. k \in 1..m /\ i \in 1..Len(s)
    BY <1>1, <2>1
  <2>3. s[i] \in M /\ s[i] \in WiringNodes
    BY DEF IsChain, Sorted
  <2>4. PICK signal : signal = live[k - 1]
    OBVIOUS
  <2>5. ASSUME NEW j \in 2..(i - 1) PROVE signal[s[j]] = out[j]
    <3>1. j \in 2..n /\ j <= Len(s) /\ k - 1 \in (j - 1)..m
      BY <1>1, <2>1
    <3> QED BY <2>4, <3>1
  <2>6. live[k] = Round(L, val, <<x[1], o>>, signal)
    BY <1>3, <2>2, <2>4
  <2>7. live[k][s[i]] = <<s[i], val[s[i]], [p \in 1..WiringIns[s[i]] |->
                            LiveInput(L, <<x[1], o>>, s[i], p, signal)]>>
    BY <2>3, <2>6 DEF Round
  <2>8. c.nodes[i] = s[i] /\ c.values[i] = val[s[i]]
    BY <2>2 DEF IsChain, Sorted
  <2>9. out[i] = <<s[i], val[s[i]], [p \in 1..WiringIns[s[i]] |-> CloneInput(c, i, p, out)]>>
    BY <1>4, <2>2, <2>8 DEF Clone, CloneInput
  <2>10. ASSUME NEW p
         PROVE  LiveInput(L, <<x[1], o>>, s[i], p, signal) = CloneInput(c, i, p, out)
    BY <2>5, SameInput
  <2>11. [p \in 1..WiringIns[s[i]] |-> LiveInput(L, <<x[1], o>>, s[i], p, signal)]
           = [p \in 1..WiringIns[s[i]] |-> CloneInput(c, i, p, out)]
    BY <2>10
  <2> QED BY <2>7, <2>9, <2>11
<1>7. N = Nat
  <2> HIDE DEF N
  <2> QED BY <1>5, <1>6, Counting DEF N
<1>8. Len(s) \in N
  BY <1>1, <1>7
<1> QED BY <1>1, <1>8

\* What the clones give is what the live circuit gives.
LEMMA ChainIsLive ==
  ASSUME NEW L \in SUBSET WiringWires, NEW val, NEW x, NEW y, NEW M, NEW s, NEW c,
         IsChain(c, L, val, x, y, M, s)
  PROVE  \E o \in 1..WiringOuts[x[1]] :
           W!Response(c) = W!LiveSignal(L, val, <<x[1], o>>, y)
<1>1. W!Prepared(c)
  BY ChainIsPrepared
<1>2. c.nodes = s /\ c.port = y[2] /\ Len(s) \in Nat /\ Len(s) >= 2
      /\ M \in SUBSET WiringNodes /\ Len(s) = Cardinality(M) + 1 /\ s[Len(s)] = y[1]
  BY DEF IsChain, Sorted
<1>3. PICK e \in c.edges : e.from = 1
  BY <1>1 DEF W!Prepared
<1>4. PICK f \in L : f.to \in M /\ e = EdgeOf(s, f)
  BY EdgesFeed
<1>5. LeadsForward(c, s, x[1], f, e)
  BY <1>4, FeedsEdge
<1>6. PICK o : o = f.out
  OBVIOUS
<1>7. f.from = x[1] /\ o \in 1..WiringOuts[x[1]]
  BY <1>3, <1>5, <1>6, WireFacts DEF LeadsForward
<1>8. ASSUME NEW l \in L, l.to \in M, l.from = x[1] PROVE l.out = o
  <2>1. l \in W!Feeds(L, M) /\ f \in W!Feeds(L, M)
    BY <1>4, <1>8 DEF W!Feeds
  <2> QED BY <1>6, <1>7, <1>8, <2>1 DEF IsChain, W!Reproducible
<1>9. ASSUME NEW d \in c.edges PROVE d.from < d.to /\ d.from \in Nat \ {0}
  <2>1. PICK l \in L : l.to \in M /\ d = EdgeOf(s, l)
    BY EdgesFeed
  <2>2. LeadsForward(c, s, x[1], l, d)
    BY <2>1, FeedsEdge
  <2>3. d.to \in 2..Len(s) /\ d.from \in 1..(d.to - 1)
    BY <2>2 DEF LeadsForward
  <2> QED BY <1>2, <2>3
<1>10. PICK out : Clones(Len(s), c, out) /\ W!Response(c) = <<y[2], out[Len(s)]>>
  BY <1>2, <1>9, ResponseIs
<1>11. PICK live : /\ Rounds(Cardinality(WiringNodes), L, val, <<x[1], o>>, live)
                   /\ W!LiveSignal(L, val, <<x[1], o>>, y)
                        = <<y[2], live[Cardinality(WiringNodes)][y[1]]>>
  BY LiveSignalIs
<1>12. PICK m \in Nat : m = Cardinality(WiringNodes)
  BY WiringFacts
<1>13. \A i \in 2..Len(s) : \A k \in (i - 1)..m : live[k][s[i]] = out[i]
  <2>1. Rounds(m, L, val, <<x[1], o>>, live)
    BY <1>11, <1>12
  <2>2. \A l \in L : l.to \in M /\ l.from = x[1] => l.out = o
    BY <1>8
  <2>3. Clones(Len(s), c, out)
    BY <1>10
  <2> QED BY <2>1, <2>2, <2>3, ClonesFollow
<1>14. Len(s) \in 2..Len(s) /\ m \in (Len(s) - 1)..m
  <2>1. Cardinality(M) \in Nat /\ Cardinality(M) <= m
    BY <1>2, <1>12, WiringFacts, FS_Subset, FS_CardinalityType
  <2> QED BY <1>2, <2>1
<1>15. live[m][y[1]] = out[Len(s)]
  BY <1>2, <1>13, <1>14
<1> QED BY <1>7, <1>10, <1>11, <1>12, <1>15

\* The links are of those that may be drawn, and the points are pins.
WiringInv == /\ wLinks \in SUBSET WiringWires
             /\ wA \in W!Pins \cup {NoPin} /\ wB \in W!Pins \cup {NoPin}

LEMMA WiringMeasures == WiringInv => ClonesAreTheCircuit
<1> SUFFICES ASSUME WiringInv, NEW c, c = W!Chain(wLinks, wValue, wA, wB), c # NoChain
             PROVE  /\ W!Prepared(c)
                    /\ \E o \in 1..WiringOuts[wA[1]] :
                         W!Response(c) = W!LiveSignal(wLinks, wValue, <<wA[1], o>>, wB)
  BY DEF ClonesAreTheCircuit, W!MeasuredIsTheCircuit
<1>1. PICK M, s : IsChain(c, wLinks, wValue, wA, wB, M, s)
  BY ChainIs DEF WiringInv
<1> QED BY <1>1, ChainIsPrepared, ChainIsLive DEF WiringInv

LEMMA MCInitWiring == MCInit => WiringInv
BY DEF MCInit, WiringInv

LEMMA MCNextKeepsWiring == WiringInv /\ [MCNext]_allVars => WiringInv'
<1> SUFFICES ASSUME WiringInv, [MCNext]_allVars PROVE WiringInv'
  OBVIOUS
<1>1. CASE UNCHANGED wiringVars
  BY <1>1 DEF wiringVars, WiringInv
<1>2. CASE W!EditCircuit
  BY <1>2 DEF W!EditCircuit, W!Wire, W!Unwire, W!Tune, WiringInv
<1>3. CASE W!PickPoint
  BY <1>3 DEF W!PickPoint, W!PickA, W!PickB, WiringInv
<1> QED BY <1>1, <1>2, <1>3 DEF MCNext, allVars

\* Whatever is linked, tuned and picked, what the clones of a chain give at Point B is
\* what the live circuit would give there with the stimulus at an output of Point A's
\* component, and the chain can be prepared (findMeasurementChainPath, prepare, run).
THEOREM TheClonesAreTheCircuit == MCSpec => []ClonesAreTheCircuit
<1>1. MCSpec => []WiringInv
  BY MCInitWiring, MCNextKeepsWiring, PTL DEF MCSpec
<1> QED BY <1>1, WiringMeasures, PTL
=============================================================================
