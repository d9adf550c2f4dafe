------------------------------ MODULE MCFlows ------------------------------
(***************************************************************************)
(* Test flows, one of two parts being chosen at first.  "work": flows of   *)
(* the panel and of an agent, in slices, among edits, saves, replacements  *)
(* of the project and reverts.  "panel": the panel that opens, authors and *)
(* saves flows.                                                            *)
(***************************************************************************)
EXTENDS AgentWork

CONSTANTS Keyed, Sourced, Written, NoFlow, NoResult, Garbage,
          PanelTags, PanelConds, PanelEpochs                    \* of "panel"

VARIABLES
  part, present, selected, loaded, draft, form, result, latched, changes, nextTag, chosen

Cond(c, values) == [comp |-> c, values |-> values]
Flow(conds, c) == [conds |-> conds, measure |-> c]
Op(op, c, v) == [op |-> op, comp |-> c, value |-> v]

MCComponents == {1, 2}
MCAsked == 0..3
\* Both components swept, with a value that is
\* clamped; one whose value no slot takes; one that sweeps a component twice
MCFlows ==
  {Flow(<<Cond(1, <<0, 1>>), Cond(2, <<2, 0>>)>>, 1),
   Flow(<<Cond(2, <<3>>)>>, 1),
   Flow(<<Cond(1, <<1>>), Cond(1, <<0>>)>>, 1)}
MCEditCalls ==
  {<<Op("set", 1, 0), Op("set", 2, 1), Op("refuse", 1, 0)>>,
   <<Op("remove", 2, 0), Op("throw", 1, 0)>>,
   <<Op("tear", 1, 1), Op("set", 2, 1)>>,
   <<Op("wire", 1, 0), Op("refuse", 1, 0), Op("set", 1, 1)>>}
MCNoEdits == {}

Fits(c, t) == [comp |-> c, values |-> "fits", tag |-> t]
\* What a file may hold: two conditions, one component twice, nothing to measure.
MCWritten ==
  {[conds |-> <<Fits(1, 1), Fits(2, 2)>>, measure |-> <<1>>],
   [conds |-> <<Fits(1, 1), Fits(1, 2)>>, measure |-> <<1>>],
   [conds |-> <<Fits(2, 1)>>, measure |-> <<>>]}
P == INSTANCE FlowPanel WITH
       MaxTag <- PanelTags, MaxConds <- PanelConds, MaxEpoch <- PanelEpochs,
       epoch <- changes
panelVars ==
  <<present, selected, loaded, draft, form, result, latched, changes, nextTag, chosen>>

ASSUME PanelInstance == P!PanelAssumption

MCInit ==
  /\ part \in {"work", "panel"} /\ Init /\ P!Init
  /\ part = "work" => present = {}
MCNext ==
  \/ part = "work" /\ Next /\ UNCHANGED <<part, panelVars>>
  \/ part = "panel" /\ P!Next /\ UNCHANGED <<part, vars>>
MCSpec == MCInit /\ [][MCNext]_<<part, vars, panelVars>>

\* The panel's form updates the condition it says it edits, what is authored can be
\* loaded back, and a result on the screen is of the file and circuit of now.
PanelIsSound == P!TypeOK /\ P!FormEditsItsCondition /\ P!EffectiveFlowLoads /\ P!ResultIsOfTheCircuit
=============================================================================
