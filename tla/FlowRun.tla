------------------------------ MODULE FlowRun ------------------------------
(***************************************************************************)
(* A test flow over the live circuit: the flow's rows, the checks before a *)
(* run, and the boundary that puts every component back                    *)
(* (test_flow/src/flow_runner.cpp, flow_params.cpp, flow_boundary.cpp).    *)
(*                                                                         *)
(* A circuit maps the ids of its components to their settings; a component *)
(* has one number that a flow can sweep.  A flow is a record of            *)
(*   conds    its conditions, each a component and the values asked of it  *)
(*   measure  the component whose output it measures                       *)
(* A row is named by the index of each condition's value.                  *)
(***************************************************************************)
EXTENDS Integers, Sequences, FiniteSets

CONSTANTS
  Components,  \* the ids of components
  Top,         \* the highest setting an engine can hold
  Asked        \* the numbers a condition may ask for

ASSUME SettingsAssumption == Top \in Nat /\ Asked \subseteq Nat

Settings == 0..Top

\* A flow as its two parsers let it through: no condition is without a value.
Condition == [comp : Components, values : Seq(Asked) \ {<<>>}]
FlowSpec == [conds : Seq(Condition), measure : Components]

-----------------------------------------------------------------------------
(* One slot *)

\* What a slot takes, and what the engine makes of it: one past the highest is
\* clamped when it is deserialized, anything further is no value for the slot.
Accepts(v) == v <= Top + 1
Stored(v) == IF v \in Settings THEN v ELSE Top

-----------------------------------------------------------------------------
(* The rows, the last condition fastest *)

Indices(conds) == UNION {DOMAIN conds[i].values : i \in DOMAIN conds}
Rows(conds) ==
  {n \in [DOMAIN conds -> Indices(conds)] :
     \A i \in DOMAIN conds : n[i] \in DOMAIN conds[i].values}
RowCount(conds) == Cardinality(Rows(conds))
FirstRow(conds) == [i \in DOMAIN conds |-> 1]

\* The odometer of RunFlow and advanceCounter: the last counter that still has a
\* value moves on, those after it start over.
NextRow(conds, n) ==
  LET k == CHOOSE i \in DOMAIN conds :
             /\ n[i] < Len(conds[i].values)
             /\ \A j \in DOMAIN conds : j > i => n[j] = Len(conds[j].values)
  IN  [i \in DOMAIN conds |-> IF i < k THEN n[i] ELSE IF i = k THEN n[i] + 1 ELSE 1]

\* The order the rows are meant to come in
Before(m, n) == \E k \in DOMAIN m : m[k] < n[k] /\ \A j \in DOMAIN m : j < k => m[j] = n[j]

-----------------------------------------------------------------------------
(* Before a run *)

Targets(conds) == {conds[i].comp : i \in DOMAIN conds}
NoDuplicates(conds) == \A i, j \in DOMAIN conds : conds[i].comp = conds[j].comp => i = j

\* ValidateFlow finds no issue.
Applies(flow, circuit) ==
  /\ Targets(flow.conds) \subseteq DOMAIN circuit
  /\ \A i \in DOMAIN flow.conds : \A k \in DOMAIN flow.conds[i].values :
       Accepts(flow.conds[i].values[k])
  /\ flow.measure \in DOMAIN circuit

-----------------------------------------------------------------------------
(* A run *)

\* The circuit during row n: the baseline patched, deserialized, rewired, updated
Swept(circuit, conds, n) ==
  [c \in DOMAIN circuit |->
     IF c \in Targets(conds)
     THEN LET i == CHOOSE i \in DOMAIN conds : conds[i].comp = c
          IN  Stored(conds[i].values[n[i]])
     ELSE circuit[c]]

\* What a row tells: the values as they were applied, and a measurement, which
\* depends on the settings of all components.
RowOf(circuit, conds, n) ==
  [values |-> [i \in DOMAIN conds |-> Stored(conds[i].values[n[i]])],
   measured |-> Swept(circuit, conds, n)]

\* Mutant: a run that leaves the circuit as it is
NotRestored(circuit, snaps, stuck) == circuit
\* restoreSnapshots: every component that can be put back is; `stuck' are those
\* whose deserialize throws.
Restored(circuit, snaps, stuck) ==
  [c \in DOMAIN circuit |->
     IF c \in DOMAIN snaps /\ c \notin stuck THEN snaps[c] ELSE circuit[c]]

\* RunFlowWithinBoundary: the run ends with row n, its last one or the one in
\* which something throws; a component that is stuck keeps what that row set.
BoundaryLeaves(circuit, conds, n, stuck) ==
  Restored(Swept(circuit, conds, n), circuit, stuck)

-----------------------------------------------------------------------------
(* A run in slices: FlowRunSession.  `engines' are the engines it points to. *)

Session(flow, circuit, epoch, revision) ==
  [flow |-> flow, epoch |-> epoch, revision |-> revision,
   engines |-> {<<epoch, c>> : c \in DOMAIN circuit},
   snaps |-> circuit, next |-> FirstRow(flow.conds), rows |-> <<>>, status |-> "Running"]

\* The session after the row it was at, which the circuit it found decided
WithRow(s, circuit) ==
  LET rows == Append(s.rows, [n |-> s.next, row |-> RowOf(circuit, s.flow.conds, s.next)])
      done == Len(rows) = RowCount(s.flow.conds)
  IN  [s EXCEPT !.rows = rows,
                !.status = IF done THEN "Completed" ELSE "Running",
                !.next = IF done THEN @ ELSE NextRow(s.flow.conds, @)]
=============================================================================
