----------------------------- MODULE FlowPanel -----------------------------
(***************************************************************************)
(* The Test Flow panel (app/src/test_flow_widget.cpp): a flow is loaded     *)
(* from a file or authored in a draft, edited through a form, saved and     *)
(* loaded back (test_flow/src/flow_author.cpp, LoadFlowFile), run on the    *)
(* circuit, and its result exported.  Meanwhile the circuit is edited and   *)
(* replaced, and the files are edited by hand.                              *)
(*                                                                         *)
(* A component is its id, it has at most one key to sweep and at most one   *)
(* output to measure.  A list of values is "fits", "misfit" (numbers that   *)
(* the slot does not take) or "junk" (no numbers).  A condition carries a   *)
(* tag, which the code does not have: it tells conditions apart that have   *)
(* been updated.                                                            *)
(***************************************************************************)
EXTENDS Integers, Sequences, SequencesExt, FiniteSets

CONSTANTS
  Components, Keyed, Sourced,  \* ids; those with a key; those with an output port
  Written,                     \* the flows one may find in a file, written by hand
  NoFlow, NoResult, Garbage,
  MaxTag, MaxConds, MaxEpoch   \* bounds of the exploration

\* The first tag the panel gives: what is written by hand has smaller ones.
FirstTag == 10

Docs ==
  {doc \in [conds : Seq([comp : Components, values : {"fits", "misfit", "junk"}, tag : Nat]),
            measure : Seq(Components)] :
     \A i, j \in DOMAIN doc.conds : doc.conds[i].tag = doc.conds[j].tag => i = j}

PanelAssumption ==
  /\ Keyed \subseteq Components /\ Sourced \subseteq Components /\ Components \subseteq Nat \ {0}
  /\ MaxTag \in Nat /\ MaxTag >= FirstTag /\ MaxConds \in Nat /\ MaxEpoch \in Nat
  /\ Written \subseteq Docs /\ NoFlow \notin Docs /\ Garbage \notin Docs
  /\ \A doc \in Written : \A i \in DOMAIN doc.conds : doc.conds[i].tag \in 1..(FirstTag - 1)

VARIABLES
  present,     \* the components of the circuit
  selected,    \* whether a file is selected
  loaded, draft,
  form,        \* the condition form: component (0: none), key, values, edit index (0: none)
  result,      \* the epoch of the successful run on the screen
  latched,
  \* history: how often a file was loaded or a circuit replaced; the next tag; the
  \* tag of the condition the author chose to edit
  epoch, nextTag, chosen
vars == <<present, selected, loaded, draft, form, result, latched, epoch, nextTag, chosen>>
circuitVars == <<present, latched>>
fileVars == <<selected, loaded>>

EmptyFlow == [conds |-> <<>>, measure |-> <<>>]
EmptyForm == [comp |-> 0, key |-> FALSE, values |-> "junk", index |-> 0]

Init ==
  /\ present \in {Components, {}}
  /\ selected = FALSE /\ loaded = NoFlow /\ draft = NoFlow
  /\ form = EmptyForm
  /\ result = NoResult /\ latched = FALSE
  /\ epoch = 0 /\ nextTag = FirstTag /\ chosen = 0

HasSpec == draft # NoFlow \/ loaded # NoFlow
Effective == IF draft # NoFlow THEN draft ELSE IF loaded # NoFlow THEN loaded ELSE EmptyFlow

-----------------------------------------------------------------------------
(* The loader and the pre-flight *)

\* LoadFlowFile: two conditions on one key, two equal measurements, or none
Loads(doc) ==
  /\ doc # Garbage
  /\ \A i, j \in DOMAIN doc.conds : doc.conds[i].comp = doc.conds[j].comp => i = j
  /\ \A i \in DOMAIN doc.conds : doc.conds[i].values # "junk"
  /\ doc.measure # <<>> /\ IsInjective(doc.measure)

\* ValidateFlow
CondApplies(c, values) == c \in present \cap Keyed /\ values = "fits"
MeasureApplies(c) == c \in present \cap Sourced
Applies(flow) ==
  /\ \A i \in DOMAIN flow.conds : CondApplies(flow.conds[i].comp, flow.conds[i].values)
  /\ \A i \in DOMAIN flow.measure : MeasureApplies(flow.measure[i])

-----------------------------------------------------------------------------
(* Files: Open Flow, Reload, Save Flow *)

\* Mutant: the rows go when a flow comes
ClearedOnSuccess(doc) == IF Loads(doc) THEN NoResult ELSE result
ResultAfterLoad(doc) == NoResult

\* loadFlow: the file is the flow, whatever was there
LoadFlow(doc) ==
  /\ epoch < MaxEpoch /\ epoch' = epoch + 1
  /\ selected' = TRUE
  /\ result' = ResultAfterLoad(doc)
  /\ draft' = NoFlow
  /\ form' = [form EXCEPT !.index = 0]
  /\ chosen' = 0
  /\ loaded' = IF Loads(doc) THEN doc ELSE NoFlow
  /\ UNCHANGED circuitVars

\* A file may be edited outside of the program at any time, and hold any flow.
OpenFlow(doc) == LoadFlow(doc) /\ UNCHANGED nextTag
ReloadFlow(doc) == selected /\ OpenFlow(doc)

\* What was written is loaded straight back.
SaveFlow ==
  /\ HasSpec
  /\ Effective.measure # <<>>
  /\ Applies(Effective)
  /\ LoadFlow(Effective)
  /\ UNCHANGED nextTag

-----------------------------------------------------------------------------
(* The draft *)

First(S) == CHOOSE c \in S : \A d \in S : c <= d
PrefilledForm(c, key) ==
  [comp |-> c, key |-> key, values |-> IF key THEN "fits" ELSE "junk", index |-> 0]

\* The first component with an output is measured, the first with a key offered.
NewFlowFromCircuit ==
  /\ present \cap Sourced # {}
  /\ epoch < MaxEpoch /\ epoch' = epoch + 1
  /\ LET measured == First(present \cap Sourced)
     IN  /\ draft' = [conds |-> <<>>, measure |-> <<measured>>]
         /\ form' = IF present \cap Keyed # {} THEN PrefilledForm(First(present \cap Keyed), TRUE)
                                               ELSE PrefilledForm(measured, FALSE)
  /\ selected' = FALSE /\ loaded' = NoFlow /\ result' = NoResult
  /\ chosen' = 0
  /\ UNCHANGED <<circuitVars, nextTag>>

\* An edit goes to the draft, which begins as a copy of what is effective.
Edit(flow) ==
  /\ draft' = flow
  /\ UNCHANGED <<circuitVars, fileVars, result, epoch>>

\* placeCondition: the duplicate rule spares the condition that is being updated.
DuplicateFree(conds, index, c) ==
  \A i \in DOMAIN conds : conds[i].comp = c => i = index

Placed(flow, index, c, values) ==
  LET conds == flow.conds
  IN  [flow EXCEPT !.conds =
         IF index \in DOMAIN conds THEN [conds EXCEPT ![index].comp = c, ![index].values = values]
         ELSE Append(conds, [comp |-> c, values |-> values, tag |-> nextTag])]

\* commitAuthoringForm; a commit that is refused changes nothing but a message.
CommitCondition ==
  /\ form.comp # 0 /\ form.key
  /\ form.values # "junk"
  /\ CondApplies(form.comp, form.values)
  /\ DuplicateFree(Effective.conds, form.index, form.comp)
  /\ form.index = 0 => nextTag < MaxTag /\ Len(Effective.conds) < MaxConds
  /\ Edit(Placed(Effective, form.index, form.comp, form.values))
  /\ nextTag' = IF form.index = 0 THEN nextTag + 1 ELSE nextTag
  /\ form' = [form EXCEPT !.index = 0]
  /\ chosen' = 0

\* removeCondition: the edit index goes on naming the same condition.
IndexAfter(index, removed) ==
  IF index = removed THEN 0 ELSE IF index > removed THEN index - 1 ELSE index
RemoveCondition(i) ==
  /\ Edit([Effective EXCEPT !.conds = RemoveAt(@, i)])
  /\ form' = [form EXCEPT !.index = IndexAfter(@, i)]
  /\ chosen' = IF Effective.conds[i].tag = chosen THEN 0 ELSE chosen
  /\ UNCHANGED nextTag

AddMeasurement(c) ==
  /\ MeasureApplies(c)
  /\ ~Contains(Effective.measure, c)
  /\ Edit([Effective EXCEPT !.measure = Append(@, c)])
  /\ UNCHANGED <<form, nextTag, chosen>>

RemoveMeasurement(i) ==
  /\ Edit([Effective EXCEPT !.measure = RemoveAt(@, i)])
  /\ UNCHANGED <<form, nextTag, chosen>>

-----------------------------------------------------------------------------
(* The form *)

Fill(f) ==
  /\ form' = f
  /\ UNCHANGED <<circuitVars, fileVars, draft, result, epoch, nextTag>>

SetAuthoringComponent(c) ==
  Fill([form EXCEPT !.comp = c, !.key = FALSE, !.values = "junk"]) /\ UNCHANGED chosen

\* The component may have gone since it was picked.
SetAuthoringPath ==
  /\ form.comp \in present \cap Keyed
  /\ Fill([form EXCEPT !.key = TRUE, !.values = "fits"])
  /\ UNCHANGED chosen

SetAuthoringValues(values) == Fill([form EXCEPT !.values = values]) /\ UNCHANGED chosen

\* Also of a condition whose component or key is gone
BeginEditingCondition(i) ==
  /\ Fill([comp |-> Effective.conds[i].comp, key |-> TRUE, values |-> Effective.conds[i].values,
           index |-> i])
  /\ chosen' = Effective.conds[i].tag

CancelEditingCondition == form.index # 0 /\ Fill([form EXCEPT !.index = 0]) /\ chosen' = 0

-----------------------------------------------------------------------------
(* Run, and the circuit under the panel *)

\* The run may fail, which the pre-flight could not tell, or not put the circuit back.
Run(outcome) ==
  /\ ~latched
  /\ HasSpec
  /\ Applies(Effective)
  /\ result' = IF outcome = "done" THEN epoch ELSE NoResult
  /\ latched' = (outcome = "notRestored")
  /\ UNCHANGED <<present, fileVars, draft, form, epoch, nextTag, chosen>>

AddComponent(c) ==
  /\ c \notin present
  /\ present' = present \cup {c}
  /\ UNCHANGED <<fileVars, draft, form, result, latched, epoch, nextTag, chosen>>
RemoveComponent(c) ==
  /\ present' = present \ {c}
  /\ UNCHANGED <<fileVars, draft, form, result, latched, epoch, nextTag, chosen>>

\* resetAfterCircuitReload: the flow is kept for the new circuit.
ReplaceCircuit(cs) ==
  /\ epoch < MaxEpoch /\ epoch' = epoch + 1
  /\ present' = cs
  /\ latched' = FALSE
  /\ result' = NoResult
  /\ UNCHANGED <<fileVars, draft, form, nextTag, chosen>>

Next ==
  \/ \E doc \in Written \cup {Garbage} : OpenFlow(doc) \/ ReloadFlow(doc)
  \/ SaveFlow
  \/ NewFlowFromCircuit
  \/ CommitCondition
  \/ \E i \in DOMAIN Effective.conds : RemoveCondition(i) \/ BeginEditingCondition(i)
  \/ \E c \in Components : AddMeasurement(c)
  \/ \E i \in DOMAIN Effective.measure : RemoveMeasurement(i)
  \/ \E c \in present : SetAuthoringComponent(c)
  \/ SetAuthoringPath
  \/ \E values \in {"fits", "misfit", "junk"} : SetAuthoringValues(values)
  \/ CancelEditingCondition
  \/ \E outcome \in {"done", "failed", "notRestored"} : Run(outcome)
  \/ \E c \in Components : AddComponent(c) \/ RemoveComponent(c)
  \/ \E cs \in SUBSET Components : ReplaceCircuit(cs)
Spec == Init /\ [][Next]_vars

-----------------------------------------------------------------------------
(* Properties *)

Flow ==
  [conds : Seq([comp : Components, values : {"fits", "misfit"}, tag : 0..MaxTag]),
   measure : Seq(Components)]
TypeOK ==
  /\ present \subseteq Components
  /\ loaded \in Flow \cup {NoFlow} /\ draft \in Flow \cup {NoFlow}
  /\ form.comp \in Components \cup {0} /\ form.index \in 0..Len(Effective.conds)
  /\ latched => result = NoResult

\* What the form is said to edit is what Update condition will replace: the index
\* goes on naming the condition the author chose, whatever is removed, loaded, seeded
\* or replaced in the meantime.
FormEditsItsCondition ==
  IF form.index = 0 THEN chosen = 0
  ELSE form.index \in DOMAIN Effective.conds /\ Effective.conds[form.index].tag = chosen

\* Whatever was authored, with files edited by hand to begin from, the flow in the
\* panel is one that the loader takes as soon as it measures something: a save can
\* always be loaded back, and never costs the author the draft.
EffectiveFlowLoads == Effective.measure # <<>> => Loads(Effective)

\* A result is of the circuit and of the file that are there: no load, failed load,
\* new flow or replaced circuit leaves the rows of another on the screen.
ResultIsOfTheCircuit == result # NoResult => result = epoch
=============================================================================
