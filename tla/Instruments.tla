---------------------------- MODULE Instruments ----------------------------
(***************************************************************************)
(* The network analyzer and the receiver requirements: their engines, the  *)
(* frame of RfSimulatorApp that updates one, lets the user edit, updates   *)
(* the other and judges both, the requirements form, and the agent's tools *)
(* network_analyzer_sweep and receiver_measure.                            *)
(*                                                                         *)
(* Frequencies are the whole numbers of a sweep's range.  What is read of  *)
(* a chain at a frequency is left open (Reading); an engine's arrays are   *)
(* represented by what was measured and how far it has come.               *)
(***************************************************************************)
EXTENDS MeasurementChain

CONSTANTS
    Sweeps,           \* settings of the analyzer: [lo, hi]
    Cores,            \* requirements: [lo, hi, metrics, min, levels]
    Tones,            \* frequencies of the generators' tones
    ToneList,         \* [Values -> Seq(Tones)]: the tones of a generator with these settings
    Generators,       \* the components that are generators
    Iip3Centers,      \* the frequencies around which four tones fit the range of the program
    Reading(_, _, _, _), \* what a metric reads of a chain at a frequency under a condition
    Projects,         \* what can be opened: [links, value, sweep, a, b, required]
    Requests,         \* what receiver_measure is called with: [power, tone, levels, a, b, sweep]
    MaxRuns,          \* runs that fit the budget of one update
    MaxEdits,         \* bound: edits, loads, openings of panels and analyzer calls
    NoData, NoValue, NoTone, Unset, NoConfig, Invalid, Blank, NoKey

Metrics == {"gain", "nf", "power", "iip3"}
Grid(s) == s.lo..s.hi
Configs == [core : Cores, tone : Tones \cup {NoTone}]

ASSUME ChainInstance == ChainAssumption
ASSUME InstrumentsAssumption ==
    /\ \A s \in Sweeps : s.lo \in Nat /\ s.hi \in Nat /\ s.lo <= s.hi
    /\ \A c \in Cores : c.metrics \subseteq Metrics /\ c.levels \in {0} \cup 3..101
    /\ \A c \in Cores : "iip3" \in c.metrics => c.levels > 0
    /\ \A c \in Cores : c.lo \in Nat /\ c.hi \in Nat
    /\ NoTone \notin Tones /\ {NoConfig, Invalid} \cap Configs = {}
    /\ \A p \in Projects : p.sweep \in Sweeps /\ p.required \in Configs \cup {NoConfig, Invalid}
    /\ MaxRuns \in Nat \ {0} /\ MaxEdits \in Nat

VARIABLES
    na,        \* NetworkAnalyzerEngine: [sweep, built, dirty, cached, result]
    rx,        \* ReceiverPerformanceMeasurementEngine of the app: [key, done]
    agentRx,   \* the one of the agent's tools
    required,  \* m_receiver_requirements
    form,      \* ReceiverRequirementsWidget: [snapshot, baseline, draft]
    panels,    \* which of the two are open
    shown,     \* the verdict that was drawn, and whether the frame was without an edit
    edits      \* counts to MaxEdits

vars == <<chainVars, na, rx, agentRx, required, form, panels, shown, edits>>

Current == Chain(links, value, pointA, pointB)

-----------------------------------------------------------------------------
(* NetworkAnalyzerEngine.  *)

\* The setters mark the stimulus for rebuilding when the sweep differs.
Swept(n, s) == [n EXCEPT !.sweep = s, !.dirty = n.dirty \/ s # n.sweep]

Rebuilt(n) == IF n.dirty THEN [n EXCEPT !.built = n.sweep, !.dirty = FALSE, !.result = NoData] ELSE n

\* Mutant: only the nodes and the wiring of a chain are compared, not the settings.
SignatureWithoutValues(c, s, a, b) == <<c.nodes, c.edges, c.port, s, a, b>>

Signature(c, s, a, b) == <<c, s, a, b>>

(* update(): the arrays are cleared when the sweep has changed, and filled  *)
(* unless the chain is the one they were last computed of.                  *)
Updated(n, c, a, b) ==
    LET r == Rebuilt(n)
    IN  IF c = NoChain THEN [r EXCEPT !.cached = NoKey, !.result = NoData]
        ELSE IF r.cached = Signature(c, r.sweep, a, b) THEN r
        ELSE [r EXCEPT !.cached = Signature(c, r.sweep, a, b),
                       !.result = IF Prepared(c) THEN <<c, r.sweep>> ELSE NoData]

GainAt(n, m, f) == IF n.result = NoData THEN NoValue ELSE Reading(m, n.result[1], f, 0)

-----------------------------------------------------------------------------
(* ReceiverPerformanceMeasurementEngine.  *)

Key(q, a, b, s, c) == [q |-> q, a |-> a, b |-> b, grid |-> s, chain |-> c]

(* The app asks for what is required.  Without a selected tone it names a   *)
(* frequency no tone has, so that the lone tone is not taken for it.        *)
Asked(r) ==
    IF r \in {NoConfig, Invalid} THEN [power |-> FALSE, tone |-> NoTone, levels |-> 0]
    ELSE LET power == "power" \in r.core.metrics
         IN  [power |-> power,
              tone |-> IF ~power THEN NoTone ELSE IF r.tone = NoTone THEN Unset ELSE r.tone,
              levels |-> IF "iip3" \in r.core.metrics THEN r.core.levels ELSE 0]

\* The one tone of Point A's generator that is asked for, or its only one.
Selected(q, c) ==
    LET list == ToneList[c.values[1]]
        tone == IF q.tone # NoTone THEN q.tone ELSE list[1]
    IN  IF /\ q.power /\ c.nodes[1] \in Generators
           /\ q.tone # NoTone \/ Len(list) = 1
           /\ Cardinality({i \in DOMAIN list : list[i] = tone}) = 1
        THEN tone ELSE NoTone

PowerRuns(k) == IF Selected(k.q, k.chain) = NoTone THEN 0 ELSE 1
LevelRuns(k, f) == IF f \in Iip3Centers THEN k.q.levels ELSE 0

\* The runs of the frequencies of the sweep up to f.
RunsTo(k, f) ==
    LET to[g \in (k.grid.lo - 1)..f] ==
          IF g < k.grid.lo THEN 0 ELSE to[g - 1] + PowerRuns(k) + LevelRuns(k, g)
    IN  to[f]

Runs(k) ==
    IF k = NoKey \/ k.chain = NoChain THEN 0
    ELSE IF ~Prepared(k.chain) THEN 0 ELSE RunsTo(k, k.grid.hi)

InProgress(r) == r.done < Runs(r.key)

\* Mutant: every update begins again.
AlwaysRestarted(r, k, d) == [key |-> k, done |-> Min({d, Runs(k)})]

\* Mutant: what lies between the points is not part of the request.
MeasuredBetweenPoints(r, k, d) ==
    IF r.key # NoKey /\ r.key = [k EXCEPT !.chain = r.key.chain]
    THEN [r EXCEPT !.done = Min({r.done + d, Runs(r.key)})]
    ELSE [key |-> k, done |-> Min({d, Runs(k)})]

\* update(): another request begins anew, the same one goes on where it was; d
\* runs fit the budget.
Measured(r, k, d) ==
    [key |-> k, done |-> Min({(IF r.key = k THEN r.done ELSE 0) + d, Runs(k)})]

\* A power is known after its run, an intercept point after its last level.
ReceivedAt(r, m, f) ==
    LET k == r.key
        begun == RunsTo(k, f - 1)
    IN  IF k.chain = NoChain THEN NoValue
        ELSE IF m = "power"
        THEN IF PowerRuns(k) = 1 /\ r.done > begun
             THEN Reading(m, k.chain, f, Selected(k.q, k.chain)) ELSE NoValue
        ELSE IF LevelRuns(k, f) > 0 /\ r.done >= RunsTo(k, f)
             THEN Reading(m, k.chain, f, k.q.levels) ELSE NoValue

-----------------------------------------------------------------------------
(* evaluateReceiverRequirements().  *)

(* assess(): a value beyond the limit fails, whatever else is missing; a    *)
(* pass takes the whole band and every frequency of it.                     *)
Assessed(core, s, read) ==
    LET band == {f \in DOMAIN read : f >= core.lo /\ f <= core.hi}
    IN  IF \E f \in band : read[f] # NoValue /\ read[f] < core.min THEN "fail"
        ELSE IF \/ band = {} \/ \E f \in band : read[f] = NoValue
                \/ core.lo < s.lo \/ core.hi > s.hi THEN "incomplete"
        ELSE "pass"

Evaluated(r, n, x) ==
    IF r = Invalid THEN "invalid"
    ELSE IF r = NoConfig THEN "unconfigured"
    ELSE LET ReadAt(m, f) == IF m \in {"gain", "nf"} THEN GainAt(n, m, f) ELSE ReceivedAt(x, m, f)
             Of(m) == Assessed(r.core, n.sweep, [f \in Grid(n.built) |-> ReadAt(m, f)])
             all == {Of(m) : m \in r.core.metrics}
         IN  IF all = {} THEN "unconfigured"
             ELSE IF "fail" \in all THEN "fail"
             ELSE IF all = {"pass"} THEN "pass" ELSE "incomplete"

-----------------------------------------------------------------------------
(* ReceiverRequirementsWidget: a draft is the text of the fields and the    *)
(* selected tone.  Blank is text that does not parse.                       *)

LoneTone(c) ==
    IF c \in Generators /\ Len(ToneList[value[c]]) = 1 THEN ToneList[value[c]][1] ELSE NoTone

Preselected(draft, tone) == IF draft.tone = NoTone THEN [draft EXCEPT !.tone = tone] ELSE draft

\* resetDraft()
Filled(r, tone) ==
    LET draft == Preselected(IF r \in {NoConfig, Invalid} THEN [core |-> Blank, tone |-> NoTone]
                             ELSE [core |-> r.core, tone |-> r.tone], tone)
    IN  [snapshot |-> r, baseline |-> draft, draft |-> draft]

\* stateMatchesSnapshot()
MatchesSnapshot(form1, r) == form1.snapshot = r

\* What an applied draft requires; the tone counts where the power is required.
Applied(draft) ==
    IF draft.core.metrics = {} THEN NoConfig
    ELSE [draft EXCEPT !.tone = IF "power" \in draft.core.metrics THEN @ ELSE NoTone]

(* draw() up to the buttons: other requirements than the form's reset it,   *)
(* a tone that is the only one is selected, and the user may edit.          *)
Opened(r, tone) ==
    LET kept == IF MatchesSnapshot(form, r) THEN form ELSE Filled(r, tone)
    IN  IF kept.draft.tone = NoTone
        THEN [kept EXCEPT !.draft.tone = tone, !.baseline.tone = tone] ELSE kept

\* What the user can do to it: [do, to].
FormInputs ==
    [do : {"leave", "cancel"}, to : {0}] \cup [do : {"core"}, to : Cores \cup {Blank}]
      \cup [do : {"tone"}, to : Tones]
      \cup [do : {"apply"}, to : {0}]

\* The form and the requirements after it.
Drawn(r, tone, input) ==
    LET open == Opened(r, tone)
    IN  CASE input.do = "leave" -> <<open, r>>
          [] input.do = "core" -> <<[open EXCEPT !.draft.core = input.to], r>>
          [] input.do = "tone" -> <<[open EXCEPT !.draft.tone = input.to], r>>
          [] input.do = "cancel" -> <<Filled(r, tone), r>>
          [] input.do = "apply" /\ open.draft.core = Blank -> <<open, r>>
          [] OTHER -> <<Filled(Applied(open.draft), tone), Applied(open.draft)>>

-----------------------------------------------------------------------------
Init ==
    /\ \E p \in Projects :
         /\ links = p.links /\ value = p.value /\ pointA = p.a /\ pointB = p.b
         /\ na = [sweep |-> p.sweep, built |-> p.sweep, dirty |-> TRUE, cached |-> NoKey,
                  result |-> NoData]
         /\ required = p.required
    /\ rx = [key |-> NoKey, done |-> 0] /\ agentRx = rx
    /\ form = Filled(NoConfig, NoTone) /\ panels = {}
    /\ shown = [verdict |-> "hidden", quiet |-> FALSE] /\ edits = 0

Disturbed == shown' = [shown EXCEPT !.quiet = FALSE]
Counted(n) == edits + n <= MaxEdits /\ edits' = edits + n

\* What the user can do to the analyzer's panel in one frame: [do, to].
PanelInputs ==
    [do : {"leave"}, to : {0}] \cup [do : {"sweep"}, to : Sweeps]
      \cup [do : {"a", "b"}, to : Pins \cup {NoPin}]

(* A frame: the analyzer updates, its panel may change the points or the    *)
(* sweep, the receiver's measurement goes on with the points of now and the *)
(* frequencies of the update, both are judged, and the form is drawn.       *)
Frame(d, panel, input) ==
    LET n1 == Updated(na, Current, pointA, pointB)
        n2 == IF panel.do = "sweep" THEN Swept(n1, panel.to) ELSE n1
        a == IF panel.do = "a" THEN panel.to ELSE pointA
        b == IF panel.do = "b" THEN panel.to ELSE pointB
        x == Measured(rx, Key(Asked(required), a, b, n2.built, Chain(links, value, a, b)), d)
        drawn == Drawn(required, IF a = NoPin THEN NoTone ELSE LoneTone(a[1]), input)
        plain == drawn[1].draft = drawn[1].baseline /\ drawn[2] \in Configs
    IN  /\ panels # {}
        /\ panel.do # "leave" => "na" \in panels
        /\ input.do # "leave" => "rx" \in panels
        /\ Counted(Cardinality({k \in {panel.do, input.do} : k # "leave"}))
        /\ na' = n2 /\ pointA' = a /\ pointB' = b
        /\ IF "rx" \in panels
           THEN /\ rx' = x /\ form' = drawn[1] /\ required' = drawn[2]
                /\ shown' = [verdict |-> IF plain THEN Evaluated(required, n2, x) ELSE "hidden",
                             quiet |-> panel.do = "leave" /\ input.do = "leave"]
           ELSE /\ d = 0 /\ UNCHANGED <<rx, form, required>>
                /\ shown' = [verdict |-> "hidden", quiet |-> panel.do = "leave"]
        /\ UNCHANGED <<links, value, agentRx, panels>>

(* Between two frames: the user edits the circuit or opens and closes the   *)
(* panels.                                                                  *)
Edit ==
    /\ EditCircuit /\ Counted(1) /\ Disturbed
    /\ UNCHANGED <<na, rx, agentRx, required, form, panels>>

Toggle(p) ==
    /\ panels' = IF p \in panels THEN panels \ {p} ELSE panels \cup {p}
    /\ Counted(1) /\ Disturbed
    /\ UNCHANGED <<chainVars, na, rx, agentRx, required, form>>

(* Another project is opened, or a change of the agent is reverted: the     *)
(* points and requirements are reset and restored, the sweep is set.  The   *)
(* ids are given anew, so that equal circuits have equal pins.              *)
Load(p) ==
    /\ links' = p.links /\ value' = p.value /\ pointA' = p.a /\ pointB' = p.b
    /\ na' = Swept(na, p.sweep) /\ required' = p.required
    /\ Counted(1) /\ Disturbed
    /\ UNCHANGED <<rx, agentRx, form, panels>>

(* network_analyzer_sweep, at any time between two frames: it always names  *)
(* both points, which have to be outputs that are there, sets them and what *)
(* it names of the sweep, and updates at once.                              *)
AgentSweep(s, a, b) ==
    /\ pointA' = a /\ pointB' = b
    /\ na' = Updated(Swept(na, s), Chain(links, value, a, b), a, b)
    /\ Counted(1) /\ Disturbed
    /\ UNCHANGED <<links, value, rx, agentRx, required, form, panels>>

(* receiver_measure has an engine of its own, which goes on with a repeated *)
(* call; it refuses points that no chain joins.                             *)
AgentMeasure(q, d) ==
    LET c == Chain(links, value, q.a, q.b)
        k == Key([power |-> q.power, tone |-> q.tone, levels |-> q.levels], q.a, q.b, q.sweep, c)
    IN  /\ c # NoChain
        /\ agentRx' = Measured(agentRx, k, d) /\ agentRx' # agentRx
        /\ UNCHANGED <<chainVars, na, rx, required, form, panels, shown, edits>>

Frames == \E d \in 0..MaxRuns, panel \in PanelInputs, input \in FormInputs : Frame(d, panel, input)
Next ==
    \/ Frames
    \/ Edit
    \/ \E p \in {"na", "rx"} : Toggle(p)
    \/ \E p \in Projects : Load(p)
    \/ \E s \in Sweeps, a, b \in Pins : AgentSweep(s, a, b)
    \/ \E q \in Requests, d \in 0..MaxRuns : AgentMeasure(q, d)

Spec == Init /\ [][Next]_vars

(* Frames follow one another while a panel is open, the user does not edit  *)
(* in every one of them, and the budget of one is enough for a run now and  *)
(* then; an agent repeats its call while the answer says in_progress.  (The *)
(* weak fairness of such a frame and call, with what enables them written   *)
(* out.)                                                                    *)
Answered(q) == Chain(links, value, q.a, q.b) # NoChain
Fairness ==
    /\ \/ []<>("rx" \notin panels \/ ~InProgress(rx)) 
       \/ []<><<shown'.quiet /\ rx' # rx>>_vars
    /\ \A q \in Requests :
         \/ []<>(~Answered(q) \/ ~InProgress(agentRx))
         \/ []<><<agentRx' # agentRx>>_vars
LiveSpec == Spec /\ Fairness

-----------------------------------------------------------------------------
(* After a frame in which nothing was changed the trace, if there is one,   *)
(* is of the circuit, the points and the sweep of now, however it came to   *)
(* be: after edits while the panels were closed, a project that was opened, *)
(* a call of the agent.                                                     *)
TraceIsOfTheCircuit ==
    shown.quiet /\ na.result # NoData => na.result = <<Current, na.sweep>>

\* What the circuit of now gives for a metric of the requirements.
Truth(m, f) ==
    LET c == Current
        tone == IF c = NoChain THEN NoTone ELSE Selected(Asked(required), c)
    IN  IF c = NoChain \/ (m = "power" /\ tone = NoTone) \/ (m = "iip3" /\ f \notin Iip3Centers)
        THEN NoValue
        ELSE Reading(m, c, f, CASE m = "power" -> tone [] m = "iip3" -> required.core.levels
                                [] OTHER -> 0)

(* A verdict that is shown is true of the circuit: a pass, that every       *)
(* metric keeps its limit at every frequency of the band and the sweep      *)
(* reaches over the band; a fail, that some metric does not.  It stands     *)
(* while a measurement is still in progress.                                *)
VerdictIsMeasured ==
    shown.quiet /\ required \in Configs =>
      LET band == {f \in Grid(na.sweep) : f \in required.core.lo..required.core.hi}
          at == {<<m, f>> : m \in required.core.metrics, f \in band}
      IN  /\ shown.verdict = "pass" =>
               /\ required.core.lo >= na.sweep.lo /\ required.core.hi <= na.sweep.hi
               /\ \A t \in at : /\ Truth(t[1], t[2]) # NoValue
                                /\ ~(Truth(t[1], t[2]) < required.core.min)
          /\ shown.verdict = "fail" =>
               \E t \in at : Truth(t[1], t[2]) # NoValue /\ Truth(t[1], t[2]) < required.core.min

(* A verdict is shown beside the requirements it is about: the fields hold  *)
(* what is required, also after another project with requirements of its    *)
(* own was opened over a form with a draft.                                 *)
FormShowsWhatIsJudged ==
    shown.quiet /\ shown.verdict # "hidden" =>
      /\ form.draft.core = required.core
      /\ required.tone # NoTone => form.draft.tone = required.tone

(* What openwiki/domains/measurement-chains.md says of the analyzer: its last result is reused   *)
(* while the path and the sweep are unchanged.                              *)
AnalyzerReusesItsResult ==
    shown.quiet /\ panels # {} /\ Current # NoChain => na.result # NoData

(* The measurements end: a panel that stays open and an agent that repeats  *)
(* its call come to the last run, however small the budget of an update.    *)
SweepsEnd ==
    /\ <>[]("rx" \notin panels \/ ~InProgress(rx))
    /\ <>[]\A q \in Requests : Answered(q) => ~InProgress(agentRx)

\* The requirements form shows what is judged, and the verdict is measured against it.
VerdictIsSound == VerdictIsMeasured /\ FormShowsWhatIsJudged
=============================================================================
