--------------------------- MODULE MCCircuitFiles ---------------------------
(***************************************************************************)
(* The circuit editor under five sets of bounds, one of which is chosen    *)
(* at first. "graph": two more nodes, three links, a subcircuit and the    *)
(* PFB policy, with replacements. "swap": two more nodes, two links, a     *)
(* probe, a subcircuit, two positions and a selection, with replacements.  *)
(* "files": one more node, a link and a subcircuit, two settings of a      *)
(* component, of which one differs from the library's, between saves; and  *)
(* a file with one damaged record at most, opened over any project.        *)
(* "meter": an instrument that reads an output, and a point, under edits,  *)
(* new projects, opened files and a revert. "layout": a layout and its     *)
(* undo, a checkpoint, a probe, a point, the views of PFBs and the         *)
(* channels picked in them, with a replacement of the project. The         *)
(* configuration's own bounds are those none of them exceeds.              *)
(***************************************************************************)
EXTENDS CircuitEditor

CONSTANTS a, m
VARIABLE part

Port(ins, outs) == [ins |-> ins, outs |-> outs]
MCPorts ==
  [generator |-> Port(0, 1), amplifier |-> Port(1, 1), adc |-> Port(1, 1), pfb |-> Port(1, 2)]
Plain == {"generator", "amplifier"}
One == {Home}
OneSetting == {Default.setting}
OneChannel == {Default.channel}

G == INSTANCE CircuitEditor WITH
       Positions <- One, Settings <- OneSetting, Channels <- OneChannel,
       MaxProbes <- 0, Kept <- {}, MaxNodes <- 4, MaxLinks <- 3, MaxGroups <- 1,
       MaxRevision <- 4, MaxEpoch <- 0
S == INSTANCE CircuitEditor WITH
       Settings <- OneSetting, Channels <- OneChannel,
       MaxProbes <- 1, Kept <- {}, MaxNodes <- 4, MaxLinks <- 2, MaxGroups <- 1,
       MaxRevision <- 3, MaxEpoch <- 0
F == INSTANCE CircuitEditor WITH
       Positions <- One, Channels <- OneChannel,
       MaxProbes <- 0, Kept <- {"file"}, MaxNodes <- 3, MaxLinks <- 1, MaxGroups <- 1,
       MaxRevision <- 3, MaxEpoch <- 1
M == INSTANCE CircuitEditor WITH
       Positions <- One, Settings <- OneSetting, Channels <- OneChannel,
       MaxProbes <- 1, MaxNodes <- 2, MaxLinks <- 1, MaxGroups <- 1,
       MaxRevision <- 2, MaxEpoch <- 1
L == INSTANCE CircuitEditor WITH
       Settings <- OneSetting,
       MaxProbes <- 1, Kept <- {"checkpoint"}, MaxNodes <- 2, MaxLinks <- 1, MaxGroups <- 1,
       MaxRevision <- 3, MaxEpoch <- 1

Unselected == circuit'.graph.selected = NoId
OneIsSet == Cardinality({n \in DOMAIN params' : params'[n] # Default}) <= 1
MCInit == Init /\ part \in {"graph", "swap", "files", "meter", "layout"}
MCNext ==
  /\ \/ part = "graph" /\ (G!ComponentStep \/ G!GraphStep \/ G!LoadRefused) /\ Unselected
     \/ part = "swap" /\ (S!ComponentStepOf(Plain) \/ S!GraphStep \/ S!SelectStep)
     \/ /\ part = "files"
        /\ F!PlaceStepOf(Plain) \/ F!ParamStep \/ F!GraphStep \/ F!ProjectStep
        /\ Unselected /\ OneIsSet
     \/ /\ part = "meter"
        /\ M!ComponentStepOf(Plain) \/ M!GraphStep \/ M!InstrumentStep \/ M!ProjectStep
        /\ Unselected
     \/ /\ part = "layout"
        /\ \/ L!ComponentStepOf(Plain \cup {"pfb"}) \/ L!ParamStep \/ L!GraphStep \/ L!LayoutStep
           \/ L!InstrumentStep \/ L!ProjectStep
        /\ Unselected /\ watch'[m] = watch[m]
  /\ UNCHANGED part
MCSpec == MCInit /\ [][MCNext]_<<part, vars>>
=============================================================================
