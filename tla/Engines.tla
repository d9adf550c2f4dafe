------------------------------ MODULE Engines ------------------------------
(***************************************************************************)
(* What the engines of the components compute, and when they do it: the    *)
(* update() of each engine, beginUpdate of common/component_engine_base.h, *)
(* and Spectrum of common/spectrum.h.                                      *)
(*                                                                         *)
(* A spectrum is a record of                                               *)
(*   grid     its frequencies, an ascending vector without repetitions:    *)
(*            the set of them                                              *)
(*   tones    the tones, each the sequence of the settings it went through *)
(*   noise    the noise, likewise: what was added where and then passed    *)
(*   fs, complex   the sample rate and whether it is complex baseband      *)
(*   gen      its generation                                               *)
(* The powers, phases and frequencies of a spectrum are functions of its   *)
(* paths, so two outputs of the same paths differ in no number.  A tone    *)
(* sits where the ADC moves it to 0.                                       *)
(*                                                                         *)
(* An engine is a record of                                                *)
(*   kind, id  its type; the number of its creation, which stands for the  *)
(*             SpectrumIdentity of its outputs                             *)
(*   setting   its parameters                                              *)
(*   dirty     m_dirty                                                     *)
(*   seen      m_cached_input*_ptr and _generation of each input           *)
(*   seenS     m_cached_sparam_input and _generation                       *)
(*   outs      the spectra of its outputs                                  *)
(*   bank      what a PFB channelizer keeps between updates                *)
(***************************************************************************)
EXTENDS Integers, Sequences, FiniteSets, FiniteSetsExt

CONSTANTS
  NoInput,      \* the null input pointer
  DefaultGrid,  \* buildDefaultFrequencyGrid
  AdcRate,      \* the sample rate of the ADCs
  FewBins       \* the size of an ADC's grid when its input has one bin

SParamKinds == {"amplifier", "attenuator", "equalizer", "ideal_filter", "combiner"}
InputsOf(kind) ==
  CASE kind = "generator" -> 0 [] kind \in {"combiner", "rf_switch_2to1"} -> 2 [] OTHER -> 1
OutputsOf(kind) == IF kind \in {"splitter", "rf_switch", "pfb"} THEN 2 ELSE 1

-----------------------------------------------------------------------------
(* Spectra *)

BlankSpectrum ==
  [grid |-> {}, tones |-> {}, noise |-> {}, fs |-> 0, complex |-> FALSE, gen |-> 0]
\* what the spectrum says, without the bookkeeping
Content(s) == [s EXCEPT !.gen = 0]

Through(paths, label) == {Append(p, label) : p \in paths}
TonesOf(in) == IF in = NoInput THEN {} ELSE in.tones
NoiseOf(in) == IF in = NoInput THEN {} ELSE in.noise
FsOf(in) == IF in = NoInput THEN 0 ELSE in.fs
IsComplex(in) == in # NoInput /\ in.complex
HasGrid(in) == in # NoInput /\ in.grid # {}

\* The grid of the input, else the one the output has, else the default one
GridOf(in, own) ==
  IF HasGrid(in) THEN in.grid ELSE IF Cardinality(own) >= 2 THEN own ELSE DefaultGrid

-----------------------------------------------------------------------------
(* Engines of one input *)

\* The generator adds its own noise and passes nothing on.
Generated(s, own) ==
  LET usable == Cardinality(own.grid) >= 2
  IN  [own EXCEPT !.tones = IF s.value = 0 THEN {} ELSE {<<s.value>>},
                  !.noise = IF usable THEN {<<0>>} ELSE {},
                  !.fs = IF usable THEN s.fs ELSE @,
                  !.complex = IF usable THEN FALSE ELSE @]

\* What most of them do, and what some of them do in its place: set the sample rate
\* only after they have returned for a grid of one bin; put nothing out.
Carried(in, own, label) ==
  LET grid == GridOf(in, own.grid)
  IN  [grid |-> grid,
       tones |-> Through(TonesOf(in), label),
       noise |-> IF Cardinality(grid) < 2 THEN {}
                 ELSE Through(NoiseOf(in), label) \cup {<<label>>},
       fs |-> FsOf(in), complex |-> IsComplex(in), gen |-> own.gen]
RateLast(new, own) == IF Cardinality(new.grid) < 2 THEN [new EXCEPT !.fs = own.fs] ELSE new
Silent(new) == [new EXCEPT !.tones = {}, !.noise = {}]

\* The gain set by hand, or the S-parameters of a file
Gain(s) == IF s.sparam THEN 10 + s.value ELSE s.value

Split(s, in, own) == Carried(in, own, s.value)
Thrown(s, in, own, port) == Carried(in, own, IF s.value = port - 1 THEN 1 ELSE 0)
Mixed(s, in, own) == Carried(in, own, s.value)
Amplified(s, in, own) ==
  LET new == Carried(in, own, Gain(s)) IN IF s.sparam THEN RateLast(new, own) ELSE new
Attenuated(s, in, own) == RateLast(Carried(in, own, Gain(s)), own)
Equalized(s, in, own) == RateLast(Carried(in, own, Gain(s)), own)
\* Without a file it adds no noise; setting 0 has all of the signal outside its band.
BandPassed(s, in, own) ==
  LET new == RateLast(Carried(in, own, Gain(s)), own)
  IN  IF s.sparam THEN new
      ELSE IF s.value = 0 THEN Silent(new)
      ELSE [new EXCEPT !.noise = @ \ {<<s.value>>}]
\* Setting 0 is a preset without a datasheet model.
Cabled(s, in, own) ==
  LET new == Carried(in, own, s.value)
  IN  IF s.value = 0 THEN Silent(new)
      ELSE [new EXCEPT !.noise = Through(NoiseOf(in), s.value) \cup {<<s.value>>}]

\* The ADC's grid: bins as wide as the input's, centred in the output band
AdcGrid(grid, rate) ==
  LET size == Cardinality(grid)
      width == (Max(grid) - Min(grid)) \div (size - 1)
      n == IF size < 2 THEN FewBins ELSE Max({2, (rate + width - 1) \div width})
  IN  {(rate \div n) * i + (rate \div n) \div 2 - rate \div 2 : i \in 0..(n - 1)}

Sampled(s, in, own) ==
  LET rate == AdcRate \div s.value
      some == HasGrid(in)
  IN  [grid |-> IF some THEN AdcGrid(in.grid, rate) ELSE {},
       tones |-> IF some THEN Through(in.tones, s.value) ELSE {},
       noise |-> IF some THEN Through(in.noise, s.value) \cup {<<s.value>>} ELSE {},
       fs |-> rate, complex |-> TRUE, gen |-> own.gen]

-----------------------------------------------------------------------------
(* Engines of two inputs *)

FirstFs(a, b) == IF a # NoInput THEN a.fs ELSE FsOf(b)
TwoGrid(a, b, own) == IF HasGrid(a) THEN a.grid ELSE GridOf(b, own)

\* combineRefusal: baseband with RF, or two different grids
Refuses(a, b) ==
  a # NoInput /\ b # NoInput /\ (a.complex # b.complex \/ a.grid # b.grid)

\* Each input has a gain of its own; one without a link is a termination that adds noise.
Combined(s, a, b, own) ==
  LET ins == <<a, b>>
      grid == TwoGrid(a, b, own.grid)
      usable == Cardinality(grid) >= 2
      sums == usable /\ ~Refuses(a, b)
      path(k) == 20 * k + Gain(s)
      all(of(_)) == UNION {Through(of(ins[k]), path(k)) : k \in 1..2}
  IN  [grid |-> grid,
       tones |-> IF sums THEN all(TonesOf) ELSE {},
       noise |-> IF sums THEN all(NoiseOf) \cup {<<0>>} \cup
                              {<<path(k)>> : k \in {j \in 1..2 : ins[j] = NoInput}}
                 ELSE {},
       fs |-> IF usable THEN FirstFs(a, b) ELSE own.fs,
       complex |-> IF usable THEN IsComplex(a) \/ IsComplex(b) ELSE own.complex,
       gen |-> own.gen]

\* The selected throw at insertion loss, the other one leaking
Switched(s, in0, in1, own) ==
  LET sel == IF s.value = 0 THEN in0 ELSE in1
      other == IF s.value = 0 THEN in1 ELSE in0
      grid == TwoGrid(sel, other, own.grid)
      both(of(_)) == Through(of(sel), 1) \cup Through(of(other), 0)
  IN  [grid |-> grid,
       tones |-> both(TonesOf),
       noise |-> IF Cardinality(grid) >= 2 THEN both(NoiseOf) \cup {<<s.value>>} ELSE {},
       fs |-> FirstFs(sel, other),
       complex |-> IsComplex(sel) \/ IsComplex(other),
       gen |-> own.gen]

-----------------------------------------------------------------------------
(* The PFB channelizer: its bank is the sample rate it took from its input, *)
(* the filter, its channels, and what it computed the channels for.         *)

BlankBank ==
  [fs |-> 0, fromInput |-> FALSE, grid |-> {}, gridFs |-> 0, shape |-> 0, ratio |-> 0,
   design |-> << >>, channels |-> << >>]

Detuned(bank, fs, fromInput) ==
  [bank EXCEPT !.fs = fs, !.fromInput = fromInput, !.grid = {}, !.gridFs = 0,
               !.channels = << >>]
Retuned(bank, in) ==
  IF FsOf(in) > 0
  THEN IF bank.fs # in.fs \/ ~bank.fromInput THEN Detuned(bank, in.fs, TRUE) ELSE bank
  ELSE IF bank.fromInput THEN Detuned(bank, 0, FALSE) ELSE bank

Size(x) == IF x < 0 THEN -x ELSE x
\* |f - center| <= bandwidth for the channel k, counted from 0, of s.count
InChannel(f, fs, s, k) ==
  Size(2 * s.count * f + s.count * fs - fs - 2 * k * fs) <= 2 * fs * s.ratio
InBand(f, fs) == 2 * Size(f) <= fs

Channels(grid, fs, s) ==
  [k \in 1..s.count |->
     [bins |-> {f \in grid : InBand(f, fs) /\ InChannel(f, fs, s, k - 1)},
      weights |-> <<s.count, s.shape, s.ratio, k>>, atZero |-> InChannel(0, fs, s, k - 1),
      tones |-> {}, noise |-> {}]]

OutOfDate(bank, grid, s) ==
  \/ grid # bank.grid \/ bank.fs # bank.gridFs
  \/ s.shape # bank.shape \/ s.ratio # bank.ratio
  \/ Len(bank.channels) # s.count
Designed(bank, grid, s) ==
  IF OutOfDate(bank, grid, s)
  THEN [bank EXCEPT !.grid = grid, !.gridFs = bank.fs, !.shape = s.shape, !.ratio = s.ratio,
                    !.design = <<s.count, s.shape, s.ratio>>, !.channels = Channels(grid, bank.fs, s)]
  ELSE bank

\* The noise of a channel with fewer than two bins has no estimate: none.
Filtered(bank, in) ==
  [bank EXCEPT !.channels = [k \in DOMAIN @ |->
     LET c == @[k]
     IN  [c EXCEPT !.tones = IF c.atZero THEN Through(in.tones, Append(bank.design, k)) ELSE {},
                   !.noise = IF Cardinality(c.bins) >= 2
                             THEN Through(in.noise, c.weights) ELSE {}]]]

Unusable(bank, in) == in = NoInput \/ Cardinality(in.grid) < 2 \/ bank.fs <= 0

\* An unusable input clears the outputs and leaves the channels.
Banked(bank, s, in) ==
  LET tuned == Retuned(bank, in)
  IN  IF Unusable(tuned, in) THEN tuned ELSE Filtered(Designed(tuned, in.grid, s), in)

\* Its outputs: the active channel, and the whole band, where each tone is once, in
\* its strongest form, and the noise is the mean of the channels.
Channelized(bank, s, in) ==
  LET active == bank.channels[s.active + 1]
      channels == {bank.channels[k] : k \in DOMAIN bank.channels}
      first == [grid |-> {}, tones |-> {}, noise |-> {},
                fs |-> (bank.fs * s.ratio) \div s.count, complex |-> IsComplex(in), gen |-> 0]
      second == [first EXCEPT !.fs = bank.fs]
  IN  IF Unusable(bank, in) THEN <<first, second>>
      ELSE <<[first EXCEPT !.grid = active.bins, !.tones = active.tones,
                           !.noise = IF active.bins = {} THEN {}
                                     ELSE Through(in.noise, active.weights)],
             [second EXCEPT
                !.grid = in.grid,
                !.tones = IF \E c \in channels : c.tones # {}
                          THEN Through(in.tones, Append(bank.design, 0)) ELSE {},
                !.noise = IF \E c \in channels : c.noise # {}
                          THEN Through(in.noise, Append(bank.design, 0)) ELSE {}]>>

-----------------------------------------------------------------------------
(* Every engine *)

\* The results from the inputs ins, where own are the outputs so far and bank is
\* what Banked left
Outputs(kind, s, ins, own, bank) ==
  CASE kind = "generator"      -> <<Generated(s, own[1])>>
    [] kind = "splitter"       -> [port \in 1..2 |-> Split(s, ins[1], own[port])]
    [] kind = "rf_switch"      -> [port \in 1..2 |-> Thrown(s, ins[1], own[port], port)]
    [] kind = "mixer"          -> <<Mixed(s, ins[1], own[1])>>
    [] kind = "amplifier"      -> <<Amplified(s, ins[1], own[1])>>
    [] kind = "attenuator"     -> <<Attenuated(s, ins[1], own[1])>>
    [] kind = "equalizer"      -> <<Equalized(s, ins[1], own[1])>>
    [] kind = "ideal_filter"   -> <<BandPassed(s, ins[1], own[1])>>
    [] kind = "coax"           -> <<Cabled(s, ins[1], own[1])>>
    [] kind = "adc"            -> <<Sampled(s, ins[1], own[1])>>
    [] kind = "combiner"       -> <<Combined(s, ins[1], ins[2], own[1])>>
    [] kind = "rf_switch_2to1" -> <<Switched(s, ins[1], ins[2], own[1])>>
    [] kind = "pfb"            -> Channelized(bank, s, ins[1])

NothingSeen(kind) == [k \in 1..InputsOf(kind) |-> [at |-> NoInput, gen |-> 0]]
Fresh(kind, id, setting) ==
  [kind |-> kind, id |-> id, setting |-> setting, dirty |-> TRUE,
   seen |-> NothingSeen(kind), seenS |-> [at |-> NoInput, gen |-> 0],
   outs |-> [port \in 1..OutputsOf(kind) |->
               IF kind = "generator" THEN [BlankSpectrum EXCEPT !.grid = DefaultGrid]
               ELSE BlankSpectrum],
   bank |-> BlankBank]

\* now: the address of an input and the generation found there
Same(seen, now) == seen.at = now.at /\ (now.at # NoInput => seen.gen = now.gen)
Noted(seen, now) == [at |-> now.at, gen |-> IF now.at = NoInput THEN seen.gen ELSE now.gen]

SeenAll(e, now) == \A k \in DOMAIN now : Same(e.seen[k], now[k])
SParams(e) == e.kind \in SParamKinds /\ e.setting.sparam

\* beginUpdate, and what the engines have in its place.  The generator looks at its
\* flag only; the S-parameters of an equalizer have a pair of their own, those of
\* an amplifier and a filter a second one.
NeedsUpdate(e, now) ==
  \/ e.dirty
  \/ IF SParams(e) /\ e.kind = "equalizer" THEN ~Same(e.seenS, now[1])
     ELSE /\ ~SeenAll(e, now)
          /\ SParams(e) /\ e.kind \in {"amplifier", "ideal_filter"} => ~Same(e.seenS, now[1])

\* What update() leaves, when it recomputes: ins are the spectra at now.  Each output
\* takes a new generation from counter on.
Updated(e, now, ins, counter) ==
  LET bank == IF e.kind = "pfb" THEN Banked(e.bank, e.setting, ins[1]) ELSE e.bank
      outs == Outputs(e.kind, e.setting, ins, e.outs, bank)
      separate == SParams(e) /\ e.kind \in {"equalizer", "amplifier", "ideal_filter"}
  IN  [e EXCEPT
         !.dirty = FALSE,
         !.seen = IF SParams(e) /\ e.kind = "equalizer" THEN @
                  ELSE [k \in DOMAIN @ |-> Noted(@[k], now[k])],
         !.seenS = IF separate THEN Noted(@, now[1]) ELSE @,
         !.bank = bank,
         !.outs = [port \in DOMAIN outs |-> [outs[port] EXCEPT !.gen = counter + port]]]
=============================================================================
