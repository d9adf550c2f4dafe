---------------------------- MODULE MCSignalFlow ----------------------------
(***************************************************************************)
(* Values for TLC.  Between them the opened circuits have every kind of    *)
(* engine.                                                                 *)
(***************************************************************************)
EXTENDS SignalFlow

Plain(value) == [value |-> value, sparam |-> FALSE]
Table(value) == [value |-> value, sparam |-> TRUE]
Source(value, fs) == [value |-> value, fs |-> fs]
Bank(shape, count, active) ==
  [value |-> 1, shape |-> shape, ratio |-> 1, count |-> count, active |-> active]

Kinds == {"generator", "amplifier", "attenuator", "equalizer", "ideal_filter", "coax", "mixer",
          "splitter", "rf_switch", "rf_switch_2to1", "combiner", "adc", "pfb"}
MCSettings == [kind \in Kinds |->
  CASE kind = "generator" -> {Source(0, 0), Source(1, 0), Source(2, 4)}
    [] kind \in {"mixer", "splitter"} -> {Plain(1)}
    [] kind \in {"coax", "rf_switch", "rf_switch_2to1"} -> {Plain(0), Plain(1)}
    [] kind = "ideal_filter" -> {Plain(0), Plain(1), Table(1)}
    [] kind = "adc" -> {Plain(1), Plain(2)}
    [] kind = "pfb" -> {Bank(1, 2, 0), Bank(2, 2, 0), Bank(1, 2, 1), Bank(1, 4, 0)}
    [] OTHER -> {Plain(1), Table(1)}]
MCDefaultSetting == [kind \in Kinds |->
  CASE kind = "generator" -> Source(0, 0)
    [] kind = "pfb" -> Bank(1, 2, 0)
    [] OTHER -> Plain(1)]

Part(kind, setting) == [kind |-> kind, setting |-> setting]
Link(p, port, q, k) == [from |-> <<p, port>>, to |-> <<q, k>>]
Generator == Part("generator", Source(1, 0))

Merge == [engines |-> <<Generator, Part("equalizer", Table(1)),
                        Part("combiner", Plain(1)), Part("generator", Source(2, 4))>>,
          links |-> {Link(1, 1, 2, 1), Link(2, 1, 3, 1), Link(4, 1, 3, 2)},
          probes |-> <<<<3, 1>>, <<1, 1>>>>, edits |-> 2]
Receiver == [engines |-> <<Generator, Part("adc", Plain(1)), Part("pfb", Bank(1, 2, 0)),
                           Part("attenuator", Plain(1))>>,
             links |-> {Link(1, 1, 2, 1), Link(2, 1, 3, 1), Link(3, 1, 4, 1)},
             probes |-> <<<<3, 1>>>>, edits |-> 2]
Chain == [engines |-> <<Generator, Part("splitter", Plain(1)), Part("ideal_filter", Plain(1)),
                        Part("rf_switch_2to1", Plain(0))>>,
          links |-> {Link(1, 1, 2, 1), Link(2, 1, 3, 1), Link(3, 1, 4, 1), Link(2, 2, 4, 2)},
          probes |-> <<<<2, 1>>, <<2, 2>>>>, edits |-> 2]
FrontEnd == [engines |-> <<Part("coax", Plain(1)), Part("mixer", Plain(1)),
                        Part("amplifier", Plain(1)), Generator>>,
          links |-> {Link(4, 1, 1, 1), Link(1, 1, 3, 1), Link(3, 1, 2, 1)},
          probes |-> <<<<2, 1>>>>, edits |-> 2]
Throw == [engines |-> <<Generator, Part("rf_switch", Plain(0)), Part("amplifier", Table(1))>>,
          links |-> {Link(1, 1, 2, 1), Link(2, 2, 3, 1)},
          probes |-> <<<<3, 1>>>>, edits |-> 2]
Pair == [engines |-> <<Generator, Part("attenuator", Plain(1))>>,
         links |-> {Link(1, 1, 2, 1)}, probes |-> <<<<1, 1>>>>, edits |-> 3]
MCSeeds == {Merge, Receiver, Chain, FrontEnd, Throw, Pair}
MCReceiver == {Receiver}
=============================================================================
