-------------------------- MODULE AgentServerProofs --------------------------
(***************************************************************************)
(* Proofs about the agent server.                                          *)
(*                                                                         *)
(* The invariant is built in layers, each inductive with those before it:  *)
(* the types and the account of the queue; the control, that is what the   *)
(* places of the pump and of stop() say of the shared state; the session   *)
(* numbers and their peers; the status line; who made each call; and the   *)
(* routes, that is whose reply each call on its way will become.           *)
(*                                                                         *)
(* `Keeping' and `SizeOf' are recursive functions.  What they compute is   *)
(* proved by induction over Nat, stated with a set and not an operator.    *)
(***************************************************************************)
EXTENDS AgentServer, SequenceTheorems, FiniteSetTheorems, WellFoundedInduction, TLAPS

(* Induction, and what Keeping gives *)

LEMMA Induction ==
  ASSUME NEW S \in SUBSET Nat, 0 \in S, \A n \in S : n + 1 \in S
  PROVE  S = Nat
<1>1. SUFFICES ASSUME Nat \ S # {} PROVE FALSE
  OBVIOUS
<1>2. PICK m \in Nat \ S : \A n \in Nat \ S : ~ (<<n, m>> \in OpToRel(<, Nat))
  <2> DEFINE R == OpToRel(<, Nat)
  <2>1. IsWellFoundedOn(R, Nat)
    BY NatLessThanWellFounded
  <2> HIDE DEF R
  <2>2. \E m \in Nat \ S : \A n \in Nat \ S : ~ (<<n, m>> \in R)
    BY <1>1, <2>1, WFMin
  <2> QED BY <2>2 DEF R
<1>3. \A n \in Nat \ S : ~ (n < m)
  BY <1>2 DEF OpToRel
<1>4. m # 0
  OBVIOUS
<1>5. m - 1 \in S
  <2>1. m - 1 \in Nat /\ m - 1 < m
    BY <1>4
  <2> QED BY <1>3, <2>1
<1>6. (m - 1) + 1 \in S
  BY <1>5
<1>7. (m - 1) + 1 = m
  OBVIOUS
<1> QED BY <1>6, <1>7

KeptUpTo(n, s, S, g) ==
  g = [i \in 0..n |-> IF i = 0 THEN <<>> ELSE IF s[i] \in S THEN Append(g[i - 1], s[i]) ELSE g[i - 1]]

LEMMA KeptExists ==
  ASSUME NEW s, NEW S
  PROVE  \A n \in Nat : \E g : KeptUpTo(n, s, S, g)
<1> DEFINE N == {n \in Nat : \E g : KeptUpTo(n, s, S, g)}
<1>1. 0 \in N
  <2> DEFINE g0 == [i \in 0..0 |-> <<>>]
  <2>1. KeptUpTo(0, s, S, g0)
    BY DEF KeptUpTo
  <2> QED BY <2>1
<1>2. ASSUME NEW n \in N PROVE n + 1 \in N
  <2>1. PICK g : KeptUpTo(n, s, S, g)
    OBVIOUS
  <2> DEFINE h == [i \in 0..(n + 1) |-> IF i = n + 1
                     THEN (IF s[n + 1] \in S THEN Append(g[n], s[n + 1]) ELSE g[n]) ELSE g[i]]
  <2>2. KeptUpTo(n + 1, s, S, h)
    <3>1. \A i \in 0..n : g[i] = IF i = 0 THEN <<>> ELSE IF s[i] \in S THEN Append(g[i - 1], s[i]) ELSE g[i - 1]
      BY <2>1 DEF KeptUpTo
    <3>2. ASSUME NEW i \in 0..(n + 1)
          PROVE  h[i] = IF i = 0 THEN <<>> ELSE IF s[i] \in S THEN Append(h[i - 1], s[i]) ELSE h[i - 1]
      <4>1. CASE i = n + 1
        BY <4>1
      <4>2. CASE i # n + 1
        BY <4>2, <3>1
      <4> QED BY <4>1, <4>2
    <3>3. h = [i \in 0..(n + 1) |-> h[i]]
      OBVIOUS
    <3> QED BY <3>2, <3>3 DEF KeptUpTo
  <2> QED BY <2>2
<1>3. N = Nat
  <2> HIDE DEF N
  <2> QED BY <1>1, <1>2, Induction DEF N
<1> QED BY <1>3

LEMMA KeepingIs ==
  ASSUME NEW T, NEW s \in Seq(T), NEW S
  PROVE  \E g : KeptUpTo(Len(s), s, S, g) /\ Keeping(s, S) = g[Len(s)]
<1> DEFINE k == CHOOSE g : KeptUpTo(Len(s), s, S, g)
<1>1. KeptUpTo(Len(s), s, S, k)
  BY KeptExists
<1>2. Keeping(s, S) = k[Len(s)]
  BY DEF Keeping, KeptUpTo
<1> QED BY <1>1, <1>2

\* k is what Keeping has of the first n elements of s: f tells where each of them was.
Embeds(k, n, s, S) ==
  \E f \in [1..Len(k) -> 1..n] :
    /\ \A i \in 1..Len(k) : k[i] = s[f[i]] /\ s[f[i]] \in S
    /\ \A i, j \in 1..Len(k) : i < j => f[i] < f[j]
    /\ \A m \in 1..n : s[m] \in S => \E i \in 1..Len(k) : f[i] = m

LEMMA EmbedsOne ==
  ASSUME NEW T, NEW s \in Seq(T), NEW S, NEW n \in Nat, n + 1 <= Len(s),
         NEW k \in Seq(T), Embeds(k, n, s, S)
  PROVE  LET h == IF s[n + 1] \in S THEN Append(k, s[n + 1]) ELSE k
         IN  h \in Seq(T) /\ Embeds(h, n + 1, s, S)
<1>1. PICK f \in [1..Len(k) -> 1..n] :
    /\ \A i \in 1..Len(k) : k[i] = s[f[i]] /\ s[f[i]] \in S
    /\ \A i, j \in 1..Len(k) : i < j => f[i] < f[j]
    /\ \A m \in 1..n : s[m] \in S => \E i \in 1..Len(k) : f[i] = m
  BY DEF Embeds
<1>2. CASE s[n + 1] \notin S
  <2>1. f \in [1..Len(k) -> 1..(n + 1)]
    OBVIOUS
  <2>2. \A m \in 1..(n + 1) : s[m] \in S => \E i \in 1..Len(k) : f[i] = m
    BY <1>1, <1>2
  <2> QED BY <1>1, <1>2, <2>1, <2>2, ZenonT(30) DEF Embeds
<1>3. CASE s[n + 1] \in S
  <2> DEFINE h == Append(k, s[n + 1])
             e == [i \in 1..(Len(k) + 1) |-> IF i = Len(k) + 1 THEN n + 1 ELSE f[i]]
  <2>1. /\ h \in Seq(T) /\ Len(h) = Len(k) + 1 /\ h[Len(k) + 1] = s[n + 1]
        /\ \A i \in 1..Len(k) : h[i] = k[i]
    BY AppendProperties
  <2>2. e \in [1..(Len(k) + 1) -> 1..(n + 1)]
    OBVIOUS
  <2>3. \A i \in 1..(Len(k) + 1) : h[i] = s[e[i]] /\ s[e[i]] \in S
    BY <1>1, <1>3, <2>1
  <2>4. ASSUME NEW i \in 1..(Len(k) + 1), NEW j \in 1..(Len(k) + 1), i < j PROVE e[i] < e[j]
    <3>1. i \in 1..Len(k) /\ f[i] \in 1..n /\ e[i] = f[i]
      BY <2>4
    <3>2. CASE j = Len(k) + 1
      <4>1. e[j] = n + 1
        BY <3>2
      <4>2. f[i] < n + 1
        BY <3>1
      <4> QED BY <3>1, <4>1, <4>2
    <3>3. CASE j # Len(k) + 1
      <4>1. j \in 1..Len(k) /\ e[j] = f[j]
        BY <3>3
      <4>2. f[i] < f[j]
        BY <1>1, <2>4, <3>1, <4>1
      <4> QED BY <3>1, <4>1, <4>2
    <3> QED BY <3>2, <3>3
  <2>5. ASSUME NEW m \in 1..(n + 1), s[m] \in S
        PROVE  \E i \in 1..(Len(k) + 1) : e[i] = m
    <3>1. CASE m = n + 1
      BY <3>1
    <3>2. CASE m # n + 1
      <4>1. PICK i \in 1..Len(k) : f[i] = m
        BY <1>1, <2>5, <3>2
      <4>2. i \in 1..(Len(k) + 1) /\ e[i] = m
        BY <4>1
      <4> QED BY <4>2
    <3> QED BY <3>1, <3>2
  <2> HIDE DEF h, e
  <2>6. Embeds(h, n + 1, s, S)
    <3>1. /\ e \in [1..Len(h) -> 1..(n + 1)]
          /\ \A i \in 1..Len(h) : h[i] = s[e[i]] /\ s[e[i]] \in S
          /\ \A i, j \in 1..Len(h) : i < j => e[i] < e[j]
          /\ \A m \in 1..(n + 1) : s[m] \in S => \E i \in 1..Len(h) : e[i] = m
      BY <2>1, <2>2, <2>3, <2>4, <2>5
    <3> QED BY <3>1 DEF Embeds
  <2> QED BY <1>3, <2>1, <2>6 DEF h
<1> QED BY <1>2, <1>3

\* What Keeping gives, whatever it keeps.
LEMMA KeepingEmbeds ==
  ASSUME NEW T, NEW s \in Seq(T), NEW S
  PROVE  Keeping(s, S) \in Seq(T) /\ Embeds(Keeping(s, S), Len(s), s, S)
<1>1. PICK g : KeptUpTo(Len(s), s, S, g) /\ Keeping(s, S) = g[Len(s)]
  BY KeepingIs
<1> DEFINE N == {n \in Nat : n <= Len(s) => g[n] \in Seq(T) /\ Embeds(g[n], n, s, S)}
<1>2. \A n \in 0..Len(s) : g[n] = IF n = 0 THEN <<>>
                       ELSE IF s[n] \in S THEN Append(g[n - 1], s[n]) ELSE g[n - 1]
  BY <1>1 DEF KeptUpTo
<1>3. 0 \in N
  <2>1. g[0] = <<>> /\ <<>> \in Seq(T)
    BY <1>2
  <2>2. Embeds(<<>>, 0, s, S)
    <3>1. <<>> \in [1..Len(<<>>) -> 1..0] /\ 1..Len(<<>>) = {} /\ 1..0 = {}
      OBVIOUS
    <3> QED BY <3>1 DEF Embeds
  <2> QED BY <2>1, <2>2
<1>4. ASSUME NEW n \in N PROVE n + 1 \in N
  <2> SUFFICES ASSUME n + 1 <= Len(s) PROVE g[n + 1] \in Seq(T) /\ Embeds(g[n + 1], n + 1, s, S)
    OBVIOUS
  <2>1. g[n] \in Seq(T) /\ Embeds(g[n], n, s, S)
    BY <1>4
  <2>2. g[n + 1] = IF s[n + 1] \in S THEN Append(g[n], s[n + 1]) ELSE g[n]
    BY <1>2
  <2> QED BY <2>1, <2>2, EmbedsOne
<1>5. Len(s) \in N
  <2> HIDE DEF N
  <2>1. N = Nat
    BY <1>3, <1>4, Induction DEF N
  <2> QED BY <2>1
<1> QED BY <1>1, <1>5

-----------------------------------------------------------------------------
(* Sequences, element by element *)

\* A sequence that is given element by element.
LEMMA MappedSeq ==
  ASSUME NEW T, NEW U, NEW s \in Seq(T), NEW t, t = [i \in DOMAIN s |-> t[i]],
         \A i \in DOMAIN s : t[i] \in U
  PROVE  t \in Seq(U) /\ Len(t) = Len(s) /\ DOMAIN t = DOMAIN s
<1>1. DOMAIN s = 1..Len(s) /\ Len(s) \in Nat
  OBVIOUS
<1>2. t \in [1..Len(s) -> U]
  BY <1>1
<1> QED BY <1>1, <1>2, SeqDef, LenProperties

LEMMA AllClocked ==
  ASSUME NEW s \in Seq(PendingCall)
  PROVE  /\ ClockAll(s) \in Seq(PendingCall) /\ UnclockAll(s) \in Seq(PendingCall)
         /\ Len(ClockAll(s)) = Len(s) /\ Len(UnclockAll(s)) = Len(s)
<1>1. \A p \in PendingCall : Clocked(p) \in PendingCall /\ Unclocked(p) \in PendingCall
  BY BoundsAssumption DEF Clocked, Unclocked, PendingCall, ParkAges, NotParked
<1>2. \A i \in DOMAIN s : s[i] \in PendingCall
  OBVIOUS
<1>3. \A i \in DOMAIN s : ClockAll(s)[i] = Clocked(s[i]) /\ UnclockAll(s)[i] = Unclocked(s[i])
  BY DEF ClockAll, UnclockAll
<1>4. ClockAll(s) = [i \in DOMAIN s |-> ClockAll(s)[i]]
  BY DEF ClockAll
<1>5. UnclockAll(s) = [i \in DOMAIN s |-> UnclockAll(s)[i]]
  BY DEF UnclockAll
<1>6. ClockAll(s) \in Seq(PendingCall) /\ Len(ClockAll(s)) = Len(s)
  BY <1>1, <1>2, <1>3, <1>4, MappedSeq
<1>7. UnclockAll(s) \in Seq(PendingCall) /\ Len(UnclockAll(s)) = Len(s)
  BY <1>1, <1>2, <1>3, <1>5, MappedSeq
<1> QED BY <1>6, <1>7

LEMMA AllAnswered ==
  ASSUME NEW s \in Seq(PendingCall), NEW d \in Seq(Completion), NEW kind \in ResultKinds
  PROVE  /\ ResponsesFor(s, kind) \in Seq(Response) /\ CompletionsFor(s, kind) \in Seq(Completion)
         /\ AnswersOf(d) \in Seq(Answer)
         /\ Len(ResponsesFor(s, kind)) = Len(s) /\ Len(CompletionsFor(s, kind)) = Len(s)
         /\ Len(AnswersOf(d)) = Len(d)
<1>1. /\ \A i \in DOMAIN s : s[i] \in PendingCall
      /\ \A i \in DOMAIN d : d[i] \in Completion
  OBVIOUS
<1>2. \A i \in DOMAIN s : /\ ResponsesFor(s, kind)[i] \in Response
                         /\ CompletionsFor(s, kind)[i] \in Completion
  BY <1>1 DEF ResponsesFor, CompletionsFor, ResponseFor, CompletionFor, PendingCall, Response,
              Completion
<1>3. \A i \in DOMAIN d : AnswersOf(d)[i] \in Answer
  BY <1>1 DEF AnswersOf, Answer, Completion
<1>4. ResponsesFor(s, kind) = [i \in DOMAIN s |-> ResponsesFor(s, kind)[i]]
  BY DEF ResponsesFor
<1>5. CompletionsFor(s, kind) = [i \in DOMAIN s |-> CompletionsFor(s, kind)[i]]
  BY DEF CompletionsFor
<1>6. AnswersOf(d) = [i \in DOMAIN d |-> AnswersOf(d)[i]]
  BY DEF AnswersOf
<1>7. ResponsesFor(s, kind) \in Seq(Response) /\ Len(ResponsesFor(s, kind)) = Len(s)
  BY <1>2, <1>4, MappedSeq
<1>8. CompletionsFor(s, kind) \in Seq(Completion) /\ Len(CompletionsFor(s, kind)) = Len(s)
  BY <1>2, <1>5, MappedSeq
<1>9. AnswersOf(d) \in Seq(Answer) /\ Len(AnswersOf(d)) = Len(d)
  BY <1>3, <1>6, MappedSeq
<1> QED BY <1>7, <1>8, <1>9

-----------------------------------------------------------------------------
(* The bytes of a queue *)

SumUpTo(n, s, g) == g = [i \in 0..n |-> IF i = 0 THEN 0 ELSE g[i - 1] + Size[s[i].call]]

LEMMA SumExists == ASSUME NEW s PROVE \A n \in Nat : \E g : SumUpTo(n, s, g)
<1> DEFINE N == {n \in Nat : \E g : SumUpTo(n, s, g)}
<1>1. 0 \in N
  <2> DEFINE g0 == [i \in 0..0 |-> 0]
  <2>1. SumUpTo(0, s, g0)
    BY DEF SumUpTo
  <2> QED BY <2>1
<1>2. ASSUME NEW n \in N PROVE n + 1 \in N
  <2>1. PICK g : SumUpTo(n, s, g)
    OBVIOUS
  <2> DEFINE h == [i \in 0..(n + 1) |-> IF i = n + 1 THEN g[n] + Size[s[n + 1].call] ELSE g[i]]
  <2>2. \A i \in 0..n : g[i] = IF i = 0 THEN 0 ELSE g[i - 1] + Size[s[i].call]
    BY <2>1 DEF SumUpTo
  <2>3. ASSUME NEW i \in 0..(n + 1)
        PROVE  h[i] = IF i = 0 THEN 0 ELSE h[i - 1] + Size[s[i].call]
    <3>1. CASE i = n + 1
      BY <3>1
    <3>2. CASE i # n + 1
      BY <3>2, <2>2
    <3> QED BY <3>1, <3>2
  <2>4. h = [i \in 0..(n + 1) |-> h[i]]
    OBVIOUS
  <2>5. SumUpTo(n + 1, s, h)
    BY <2>3, <2>4 DEF SumUpTo
  <2> QED BY <2>5
<1>3. N = Nat
  <2> HIDE DEF N
  <2> QED BY <1>1, <1>2, Induction DEF N
<1> QED BY <1>3

LEMMA SizeIs ==
  ASSUME NEW s \in Seq(PendingCall)
  PROVE  \E g : SumUpTo(Len(s), s, g) /\ SizeOf(s) = g[Len(s)]
<1> DEFINE k == CHOOSE g : SumUpTo(Len(s), s, g)
<1>1. SumUpTo(Len(s), s, k)
  BY SumExists
<1>2. SizeOf(s) = k[Len(s)]
  BY DEF SizeOf, SumUpTo
<1> QED BY <1>1, <1>2

LEMMA CallSizes ==
  ASSUME NEW s \in Seq(PendingCall)
  PROVE  \A i \in 1..Len(s) : s[i] \in PendingCall /\ Size[s[i].call] \in Nat
<1>1. \A p \in PendingCall : Size[p.call] \in Nat
  BY BoundsAssumption DEF PendingCall
<1>2. \A i \in 1..Len(s) : s[i] \in PendingCall
  OBVIOUS
<1> QED BY <1>1, <1>2

Shifted(s, t, d, m) ==
  m + d <= Len(s) /\ m <= Len(t) /\ \A i \in 1..m : t[i].call = s[i + d].call

\* The sums of two sequences with the same calls, one of which starts d places later.
LEMMA SumsAgree ==
  ASSUME NEW s \in Seq(PendingCall), NEW t \in Seq(PendingCall), NEW d \in Nat,
         NEW m \in Nat, Shifted(s, t, d, m), NEW g, NEW h,
         SumUpTo(Len(s), s, g), SumUpTo(Len(t), t, h), g[d] \in Nat
  PROVE  h[m] \in Nat /\ g[m + d] = h[m] + g[d]
<1>0. m + d <= Len(s) /\ m <= Len(t) /\ \A i \in 1..m : t[i].call = s[i + d].call
  BY DEF Shifted
<1>1. /\ \A i \in 0..Len(s) : g[i] = IF i = 0 THEN 0 ELSE g[i - 1] + Size[s[i].call]
      /\ \A i \in 0..Len(t) : h[i] = IF i = 0 THEN 0 ELSE h[i - 1] + Size[t[i].call]
  BY DEF SumUpTo
<1>2. /\ \A i \in 1..Len(s) : Size[s[i].call] \in Nat
      /\ \A i \in 1..Len(t) : Size[t[i].call] \in Nat
  BY CallSizes
<1> DEFINE N == {n \in Nat : n <= m => h[n] \in Nat /\ g[n + d] = h[n] + g[d]}
<1>4. 0 \in N
  <2>1. h[0] = 0 /\ 0 + d = d
    BY <1>1
  <2> QED BY <2>1
<1>5. ASSUME NEW n \in N PROVE n + 1 \in N
  <2> SUFFICES ASSUME n + 1 <= m PROVE h[n + 1] \in Nat /\ g[(n + 1) + d] = h[n + 1] + g[d]
    OBVIOUS
  <2>1. h[n] \in Nat /\ g[n + d] = h[n] + g[d]
    BY <1>5
  <2>2. n + 1 \in 1..Len(t) /\ h[n + 1] = h[n] + Size[t[n + 1].call]
    BY <1>0, <1>1
  <2>3. (n + 1) + d \in 1..Len(s) /\ g[(n + 1) + d] = g[n + d] + Size[s[(n + 1) + d].call]
    <3>1. (n + 1) + d \in 1..Len(s) /\ ((n + 1) + d) - 1 = n + d /\ (n + 1) + d # 0
      BY <1>0
    <3> QED BY <1>1, <3>1
  <2>4. t[n + 1].call = s[(n + 1) + d].call
    BY <1>0
  <2>5. Size[t[n + 1].call] \in Nat
    BY <1>2, <2>2
  <2>6. h[n + 1] = h[n] + Size[t[n + 1].call] /\ g[(n + 1) + d] = g[n + d] + Size[t[n + 1].call]
    BY <2>2, <2>3, <2>4
  <2> HIDE DEF N
  <2> QED BY <2>1, <2>5, <2>6
<1>6. m \in N
  <2> HIDE DEF N
  <2>1. N = Nat
    BY <1>4, <1>5, Induction DEF N
  <2> QED BY <2>1
<1> QED BY <1>6

LEMMA SumsSame ==
  ASSUME NEW s \in Seq(PendingCall), NEW t \in Seq(PendingCall), NEW m \in Nat,
         m <= Len(s), m <= Len(t), NEW g, NEW h,
         SumUpTo(Len(s), s, g), SumUpTo(Len(t), t, h), \A i \in 1..m : t[i].call = s[i].call
  PROVE  h[m] \in Nat /\ g[m] = h[m]
<1>1. PICK d \in Nat : d = 0
  OBVIOUS
<1>2. m + d = m
  BY <1>1
<1>3. Shifted(s, t, d, m)
  BY <1>1 DEF Shifted
<1>4. g[d] = 0 /\ g[d] \in Nat
  BY <1>1 DEF SumUpTo
<1>5. h[m] \in Nat /\ g[m + d] = h[m] + g[d]
  BY <1>3, <1>4, SumsAgree
<1> QED BY <1>2, <1>4, <1>5

LEMMA SizeOfSame ==
  ASSUME NEW s \in Seq(PendingCall), NEW t \in Seq(PendingCall), Len(s) = Len(t),
         \A i \in 1..Len(s) : t[i].call = s[i].call
  PROVE  SizeOf(t) = SizeOf(s) /\ SizeOf(s) \in Nat
<1>1. PICK g : SumUpTo(Len(s), s, g) /\ SizeOf(s) = g[Len(s)]
  BY SizeIs
<1>2. PICK h : SumUpTo(Len(t), t, h) /\ SizeOf(t) = h[Len(t)]
  BY SizeIs
<1> QED BY <1>1, <1>2, SumsSame

LEMMA SizeOfNone == SizeOf(<<>>) = 0
<1>1. PICK g : SumUpTo(0, <<>>, g) /\ SizeOf(<<>>) = g[0]
  <2>1. <<>> \in Seq(PendingCall) /\ Len(<<>>) = 0
    OBVIOUS
  <2>2. \E g : SumUpTo(Len(<<>>), <<>>, g) /\ SizeOf(<<>>) = g[Len(<<>>)]
    BY <2>1, SizeIs
  <2> QED BY <2>1, <2>2
<1> QED BY <1>1 DEF SumUpTo

LEMMA SizeOfMore ==
  ASSUME NEW s \in Seq(PendingCall), NEW p \in PendingCall
  PROVE  SizeOf(Append(s, p)) = SizeOf(s) + Size[p.call]
<1> DEFINE t == Append(s, p)
<1>1. /\ t \in Seq(PendingCall) /\ Len(t) = Len(s) + 1 /\ t[Len(s) + 1] = p
      /\ \A i \in 1..Len(s) : t[i] = s[i]
  BY AppendProperties
<1> HIDE DEF t
<1>2. PICK g : SumUpTo(Len(t), t, g) /\ SizeOf(t) = g[Len(t)]
  BY <1>1, SizeIs
<1>3. PICK h : SumUpTo(Len(s), s, h) /\ SizeOf(s) = h[Len(s)]
  BY SizeIs
<1>4. h[Len(s)] \in Nat /\ g[Len(s)] = h[Len(s)]
  <2>1. Len(s) \in Nat /\ Len(s) <= Len(t) /\ \A i \in 1..Len(s) : s[i].call = t[i].call
    BY <1>1
  <2> QED BY <1>1, <1>2, <1>3, <2>1, SumsSame
<1>5. g[Len(s) + 1] = g[Len(s)] + Size[t[Len(s) + 1].call]
  BY <1>1, <1>2 DEF SumUpTo
<1>6. SizeOf(t) = SizeOf(s) + Size[p.call]
  BY <1>1, <1>2, <1>3, <1>4, <1>5
<1> QED BY <1>6 DEF t

LEMMA SizeOfRest ==
  ASSUME NEW s \in Seq(PendingCall), s # <<>>
  PROVE  SizeOf(s) = SizeOf(Tail(s)) + Size[Head(s).call] /\ SizeOf(Tail(s)) \in Nat
<1> DEFINE t == Tail(s)
<1>1. /\ t \in Seq(PendingCall) /\ Len(s) = Len(t) + 1 /\ Head(s) = s[1]
      /\ \A i \in 1..Len(t) : t[i] = s[i + 1]
  OBVIOUS
<1> HIDE DEF t
<1>2. PICK g : SumUpTo(Len(s), s, g) /\ SizeOf(s) = g[Len(s)]
  BY SizeIs
<1>3. PICK h : SumUpTo(Len(t), t, h) /\ SizeOf(t) = h[Len(t)]
  BY <1>1, SizeIs
<1>4. g[1] = 0 + Size[s[1].call]
  <2>1. g[0] = 0 /\ g[1] = g[0] + Size[s[1].call]
    BY <1>1, <1>2 DEF SumUpTo
  <2> QED BY <2>1
<1>5. Size[s[1].call] \in Nat
  BY <1>1, CallSizes
<1>6. h[Len(t)] \in Nat /\ g[Len(t) + 1] = h[Len(t)] + g[1]
  <2>1. Len(t) \in Nat /\ Shifted(s, t, 1, Len(t))
    BY <1>1 DEF Shifted
  <2>2. g[1] \in Nat
    BY <1>4, <1>5
  <2> QED BY <1>1, <1>2, <1>3, <2>1, <2>2, SumsAgree
<1>7. SizeOf(s) = SizeOf(t) + Size[Head(s).call] /\ SizeOf(t) \in Nat
  BY <1>1, <1>2, <1>3, <1>4, <1>5, <1>6
<1> QED BY <1>7 DEF t

-----------------------------------------------------------------------------
(* Types *)

TypeInv == TypeOK /\ QueueIsAccounted /\ IsFiniteSet(Made)

\* The same, one part for each group of variables
FlagTypes == {isRunning, stopping, stopRequested, endpointWritten} \subseteq BOOLEAN
QueueTypes ==
  /\ inbox \in Seq(PendingCall) /\ inboxBytes \in Nat /\ QueueIsAccounted
  /\ active \in PendingCall \cup {NoCall} /\ outbox \in Seq(Response) /\ executing \in BOOLEAN
SessionTypes ==
  {nextSession, activeSession, authSession} \subseteq Nat /\ admitted \in Seq(Conns)
ListenerTypes ==
  /\ lpc \in {"off", "accept", "read", "handle", "newcomer", "flush", "check", "exit"}
  /\ {client, waiting} \subseteq Conns \cup {NoConn} /\ clientSession \in Nat
  /\ authenticated \in BOOLEAN /\ line \in Calls \cup {Hello, NoCall}
PumpTypes ==
  /\ ppc \in {"idle", "loop", "resume", "next", "run", "leave", "notify"}
  /\ held \in PendingCall \cup {NoCall} /\ completed \in BOOLEAN /\ completions \in Seq(Completion)
StopTypes ==
  /\ spc \in {"idle", "drain", "join", "notify"}
  /\ stopCompletions \in Seq(Completion) /\ starts \in 0..MaxStarts
WorldTypes ==
  /\ dialog \in BOOLEAN /\ order \in [Calls -> Nat] /\ IsFiniteSet(Made)
  /\ freshConns \subseteq Conns /\ caller \in [Calls -> Conns \cup {NoConn}]
  /\ answers \in Seq(Answer) /\ dialogAge \in ParkAges

Records == [state : {"Off", "Waiting", "Connected", "Busy", "Error"}, client : Conns \cup {NoConn}]

LEMMA TypeParts ==
  /\ TypeInv => /\ FlagTypes /\ QueueTypes /\ SessionTypes /\ status \in Records
                /\ ListenerTypes /\ PumpTypes /\ StopTypes /\ WorldTypes
  /\ /\ FlagTypes' /\ QueueTypes' /\ SessionTypes' /\ status' \in Records
     /\ ListenerTypes' /\ PumpTypes' /\ StopTypes' /\ WorldTypes'
     => TypeInv'
BY DEF TypeInv, TypeOK, FlagTypes, QueueTypes, SessionTypes, Records, ListenerTypes, PumpTypes,
       StopTypes, WorldTypes

LEMMA Unchanged ==
  ASSUME TypeInv
  PROVE  /\ UNCHANGED flagVars => FlagTypes'
         /\ UNCHANGED queueVars => QueueTypes'
         /\ UNCHANGED sessionVars => SessionTypes'
         /\ UNCHANGED status => status' \in Records
         /\ UNCHANGED listenerVars => ListenerTypes'
         /\ UNCHANGED pumpVars => PumpTypes'
         /\ UNCHANGED stopVars => StopTypes'
         /\ UNCHANGED worldVars => WorldTypes'
<1> USE TypeParts
<1>1. (UNCHANGED flagVars => FlagTypes') /\ (UNCHANGED sessionVars => SessionTypes')
  BY DEF FlagTypes, flagVars, SessionTypes, sessionVars
<1>2. UNCHANGED queueVars => QueueTypes'
  BY DEF QueueTypes, queueVars, QueueIsAccounted
<1>3. UNCHANGED listenerVars => ListenerTypes'
  BY DEF ListenerTypes, listenerVars
<1>4. UNCHANGED pumpVars => PumpTypes'
  BY DEF PumpTypes, pumpVars
<1>5. UNCHANGED stopVars => StopTypes'
  BY DEF StopTypes, stopVars
<1>6. UNCHANGED worldVars => WorldTypes'
  BY DEF WorldTypes, worldVars, Made
<1> QED BY <1>1, <1>2, <1>3, <1>4, <1>5, <1>6

LEMMA StatusTypes ==
  ASSUME NEW current \in Records, NEW stop \in BOOLEAN, NEW exec \in BOOLEAN, NEW box,
         NEW run \in BOOLEAN, NEW auth
  PROVE  StatusFromWork(current, stop, exec, box, run, auth) \in Records
BY DEF StatusFromWork, Records, OffStatus, WaitingStatus

LEMMA CloseTypes ==
  ASSUME TypeOK, CloseSession
  PROVE  /\ client' \in Conns \cup {NoConn} /\ clientSession' \in Nat /\ authenticated' \in BOOLEAN
         /\ activeSession' \in Nat /\ authSession' \in Nat
         /\ outbox' \in Seq(Response) /\ status' \in Records
         /\ UNCHANGED <<inbox, inboxBytes, active, executing, nextSession, admitted>>
<1>1. outbox' \in Seq(Response)
  BY KeepingEmbeds DEF CloseSession, TypeOK
<1>2. [status EXCEPT !.client = NoConn] \in Records
  BY DEF TypeOK, Records
<1>3. status' \in Records
  BY <1>2, StatusTypes DEF CloseSession, TypeOK, Records
<1>4. authSession' \in Nat /\ activeSession' \in Nat
  BY DEF CloseSession, TypeOK
<1>5. client' \in Conns \cup {NoConn} /\ clientSession' \in Nat /\ authenticated' \in BOOLEAN
  BY DEF CloseSession
<1>6. UNCHANGED <<inbox, inboxBytes, active, executing, nextSession, admitted>>
  BY DEF CloseSession
<1> QED BY <1>1, <1>3, <1>4, <1>5, <1>6

LEMMA QueueRoom ==
  ASSUME TypeInv, NEW c \in Calls, NEW session \in Nat,
         QueueCapacityAvailable(Len(inbox), inboxBytes, Size[c]),
         inbox' = Append(inbox, Arrival(c, session)), inboxBytes' = inboxBytes + Size[c]
  PROVE  inbox' \in Seq(PendingCall) /\ inboxBytes' \in Nat /\ QueueIsAccounted'
<1>1. Arrival(c, session) \in PendingCall /\ Arrival(c, session).call = c
  BY BoundsAssumption DEF Arrival, PendingCall, ParkAges, NotParked
<1>2. Size[c] \in Nat /\ MaxBytes \in Nat /\ MaxQueued \in Nat
  BY BoundsAssumption
<1>3. inbox \in Seq(PendingCall) /\ inboxBytes \in Nat /\ inboxBytes = SizeOf(inbox)
      /\ Len(inbox) <= MaxQueued
  BY DEF TypeInv, TypeOK, QueueIsAccounted
<1>4. inbox' \in Seq(PendingCall) /\ Len(inbox') = Len(inbox) + 1
  BY <1>1, <1>3, AppendProperties
<1>5. SizeOf(inbox') = inboxBytes + Size[c]
  BY <1>1, <1>3, SizeOfMore
<1> QED BY <1>2, <1>3, <1>4, <1>5 DEF QueueIsAccounted, QueueCapacityAvailable

LEMMA QueueTaken ==
  ASSUME TypeInv, inbox # <<>>, NEW box \in Seq(PendingCall), Len(box) = Len(inbox),
         \A i \in 1..Len(inbox) : box[i].call = inbox[i].call, TakeHead(box)
  PROVE  /\ inbox' \in Seq(PendingCall) /\ inboxBytes' \in Nat /\ QueueIsAccounted'
         /\ Head(inbox) \in PendingCall
<1>1. inbox \in Seq(PendingCall) /\ inboxBytes \in Nat /\ inboxBytes = SizeOf(inbox)
      /\ Len(inbox) <= MaxQueued /\ inboxBytes <= MaxBytes
  BY DEF TypeInv, TypeOK, QueueIsAccounted
<1>2. SizeOf(box) = SizeOf(inbox)
  BY <1>1, SizeOfSame
<1>3. box # <<>>
  BY <1>1
<1>4. SizeOf(box) = SizeOf(Tail(box)) + Size[Head(box).call] /\ SizeOf(Tail(box)) \in Nat
  BY <1>3, SizeOfRest
<1>5. Size[Head(box).call] \in Nat
  <2>1. Head(box) \in PendingCall
    BY <1>3
  <2> QED BY <2>1, BoundsAssumption DEF PendingCall
<1>6. inboxBytes' = SizeOf(Tail(box))
  BY <1>1, <1>2, <1>4, <1>5 DEF TakeHead
<1>7. inbox' = Tail(box) /\ Tail(box) \in Seq(PendingCall) /\ Len(Tail(box)) <= Len(inbox)
  BY <1>1, <1>3 DEF TakeHead
<1> QED BY <1>1, <1>2, <1>4, <1>5, <1>6, <1>7, BoundsAssumption DEF QueueIsAccounted

LEMMA ArrivalTypes ==
  ASSUME TypeInv, NEW c \in Calls, Arrives(c)
  PROVE  order' \in [Calls -> Nat] /\ Made' = Made \cup {c} /\ IsFiniteSet(Made')
<1>1. Cardinality(Made) + 1 \in Nat /\ Cardinality(Made) + 1 # 0
  BY FS_CardinalityType DEF TypeInv
<1>2. order' = [order EXCEPT ![c] = Cardinality(Made) + 1]
  BY DEF Arrives
<1> HIDE DEF Made
<1>3. order \in [Calls -> Nat]
  BY DEF TypeInv, TypeOK
<1>4. order' \in [Calls -> Nat] /\ order'[c] # 0 /\ \A d \in Calls : d # c => order'[d] = order[d]
  BY <1>1, <1>2, <1>3
<1>5. Made' = Made \cup {c}
  BY <1>4 DEF Made
<1> QED BY <1>4, <1>5, FS_AddElement DEF TypeInv

LEMMA AnswerTypes ==
  ASSUME TypeOK, NEW c \in Calls, NEW k \in Conns \cup {NoConn}, NEW kind \in ResultKinds
  PROVE  Append(answers, [call |-> c, to |-> k, result |-> kind]) \in Seq(Answer)
<1>1. [call |-> c, to |-> k, result |-> kind] \in Answer
  BY DEF Answer
<1>2. answers \in Seq(Answer)
  BY DEF TypeOK
<1> QED BY <1>1, <1>2, AppendProperties

LEMMA SubmitTypes ==
  ASSUME TypeInv, NEW c \in Calls, Submit(c)
  PROVE  TypeInv'
<1>1. order' \in [Calls -> Nat] /\ IsFiniteSet(Made')
  BY ArrivalTypes DEF Submit
<1>2. answers' \in Seq(Answer)
  <2>1. \/ answers' = answers
        \/ \E kind \in {"Unavailable", "Overloaded"} :
             answers' = Append(answers, [call |-> c, to |-> NoConn, result |-> kind])
    BY DEF Submit
  <2>2. {"Unavailable", "Overloaded"} \subseteq ResultKinds /\ NoConn \in Conns \cup {NoConn}
    BY DEF ResultKinds
  <2>3. TypeOK /\ answers \in Seq(Answer)
    BY DEF TypeInv, TypeOK
  <2> QED BY <2>1, <2>2, <2>3, AnswerTypes
<1>3. inbox' \in Seq(PendingCall) /\ inboxBytes' \in Nat /\ QueueIsAccounted'
  BY QueueRoom DEF Submit, queueVars, TypeInv, TypeOK, QueueIsAccounted
<1>4. status' \in Records
  BY StatusTypes, SMTT(30) DEF Submit, queueVars, flagVars, TypeInv, TypeOK, Records, UpdateStatus
<1>5. UNCHANGED <<active, outbox, executing>>
  BY DEF Submit, queueVars
<1> QED BY <1>1, <1>2, <1>3, <1>4, <1>5, SMTT(30)
    DEF Submit, flagVars, sessionVars, listenerVars, pumpVars, stopVars, TypeInv, TypeOK, Records

\* The steps of the listener that leave the queues alone
LEMMA AdmitTypes ==
  ASSUME TypeInv, NEW k \in Conns, Admit(k)
  PROVE  /\ SessionTypes' /\ client' \in Conns /\ clientSession' \in Nat /\ authenticated' = FALSE
<1>1. admitted' \in Seq(Conns)
  BY AppendProperties DEF TypeInv, TypeOK, Admit
<1> QED BY <1>1 DEF TypeInv, TypeOK, Admit, FreshSession, SessionTypes

LEMMA AcceptTypes == ASSUME TypeInv, ListenerAccept PROVE TypeInv'
<1>1. CASE UNCHANGED <<freshConns, waiting, client, clientSession, authenticated, sessionVars>>
  <2>1. UNCHANGED sessionVars /\ UNCHANGED worldVars
    BY <1>1 DEF ListenerAccept, worldVars
  <2>2. ListenerTypes'
    BY <1>1 DEF ListenerAccept, ListenerTypes, TypeInv, TypeOK
  <2> QED BY <2>1, <2>2, Unchanged, TypeParts DEF ListenerAccept
<1>2. ASSUME NEW k \in freshConns, freshConns' = freshConns \ {k},
             \/ Admit(k) /\ UNCHANGED waiting
             \/ waiting' \in {k, waiting} /\ UNCHANGED <<client, clientSession, authenticated, sessionVars>>
      PROVE  TypeInv'
  <2>1. k \in Conns
    BY DEF TypeInv, TypeOK
  <2>2. SessionTypes'
    BY <1>2, <2>1, AdmitTypes, Unchanged
  <2>3. ListenerTypes'
    BY <1>2, <2>1, AdmitTypes DEF ListenerAccept, ListenerTypes, TypeInv, TypeOK
  <2>4. WorldTypes'
    BY <1>2 DEF ListenerAccept, WorldTypes, TypeInv, TypeOK, Made
  <2> QED BY <2>2, <2>3, <2>4, Unchanged, TypeParts DEF ListenerAccept
<1> QED BY <1>1, <1>2 DEF ListenerAccept

LEMMA ConnectedTypes == ASSUME TypeInv, ListenerConnected PROVE TypeInv'
<1>1. [status EXCEPT !.client = client] \in Records
  BY DEF TypeInv, TypeOK, Records
<1>2. status' \in Records
  BY <1>1, StatusTypes DEF ListenerConnected, TypeInv, TypeOK, Records
<1>3. SessionTypes' /\ ListenerTypes'
  BY DEF ListenerConnected, SessionTypes, ListenerTypes, TypeInv, TypeOK
<1> QED BY <1>2, <1>3, Unchanged, TypeParts DEF ListenerConnected

LEMMA NewcomerTypes == ASSUME TypeInv, ListenerNewcomer PROVE TypeInv'
<1>1. waiting \in Conns \/ UNCHANGED sessionVars
  BY DEF ListenerNewcomer, TypeInv, TypeOK
<1>2. SessionTypes'
  BY <1>1, AdmitTypes, Unchanged DEF ListenerNewcomer, TypeInv, TypeOK
<1>3. ListenerTypes'
  BY <1>1, AdmitTypes DEF ListenerNewcomer, ListenerTypes, TypeInv, TypeOK
<1> QED BY <1>2, <1>3, Unchanged, TypeParts DEF ListenerNewcomer

LEMMA CheckTypes == ASSUME TypeInv, ListenerCheck PROVE TypeInv'
<1>1. ListenerTypes'
  BY DEF ListenerCheck, ListenerTypes, TypeInv, TypeOK
<1> QED BY <1>1, Unchanged, TypeParts DEF ListenerCheck

LEMMA FailTypes == ASSUME TypeInv, ListenerFail PROVE TypeInv'
<1>1. ListenerTypes' /\ FlagTypes'
  BY DEF ListenerFail, ListenerTypes, FlagTypes, TypeInv, TypeOK
<1>2. status' \in Records
  BY DEF ListenerFail, Records, ErrorStatus, TypeInv, TypeOK
<1> QED BY <1>1, <1>2, Unchanged, TypeParts DEF ListenerFail

\* What CloseSession leaves
LEMMA ClosedTypes ==
  ASSUME TypeInv, CloseSession
  PROVE  /\ QueueTypes' /\ SessionTypes' /\ status' \in Records
         /\ client' \in Conns \cup {NoConn} /\ clientSession' \in Nat /\ authenticated' \in BOOLEAN
<1>1. TypeOK
  BY DEF TypeInv
<1>2. QueueTypes'
  BY <1>1, CloseTypes DEF QueueTypes, TypeInv, TypeOK, QueueIsAccounted
<1> QED BY <1>1, <1>2, CloseTypes DEF SessionTypes, TypeOK

LEMMA ReadTypes == ASSUME TypeInv, ListenerRead PROVE TypeInv'
<1>1. QueueTypes' /\ SessionTypes' /\ status' \in Records
  BY ClosedTypes, Unchanged DEF ListenerRead
<1>2. ListenerTypes'
  <2>1. CASE /\ CloseSession /\ lpc' = "newcomer" /\ line' = line
    <3>1. client' \in Conns \cup {NoConn} /\ clientSession' \in Nat /\ authenticated' \in BOOLEAN
      BY <2>1, ClosedTypes
    <3>2. waiting' = waiting
      BY DEF ListenerRead
    <3> QED BY <2>1, <3>1, <3>2 DEF ListenerTypes, TypeInv, TypeOK
  <2>2. CASE /\ UNCHANGED <<client, clientSession>> /\ authenticated' \in {TRUE, authenticated}
             /\ lpc' \in {"newcomer", "handle"} /\ line' \in Calls \cup {Hello, line}
    BY <2>2 DEF ListenerRead, ListenerTypes, TypeInv, TypeOK
  <2> QED BY <2>1, <2>2 DEF ListenerRead, NetworkCalls
<1>3. WorldTypes'
  <2>1. CASE UNCHANGED <<order, caller>>
    BY <2>1 DEF ListenerRead, WorldTypes, TypeInv, TypeOK, Made
  <2>2. ASSUME NEW c \in NetworkCalls, Arrives(c), caller' = [caller EXCEPT ![c] = client]
        PROVE  WorldTypes'
    <3>1. c \in Calls
      BY DEF NetworkCalls
    <3>2. order' \in [Calls -> Nat] /\ IsFiniteSet(Made')
      BY <2>2, <3>1, ArrivalTypes
    <3>3. caller' \in [Calls -> Conns \cup {NoConn}]
      BY <2>2, <3>1 DEF TypeInv, TypeOK
    <3> QED BY <3>2, <3>3 DEF ListenerRead, WorldTypes, TypeInv, TypeOK
  <2> QED BY <2>1, <2>2 DEF ListenerRead
<1> QED BY <1>1, <1>2, <1>3, Unchanged, TypeParts DEF ListenerRead

LEMMA ReplyTypes ==
  ASSUME TypeInv, lpc = "handle", line \in Calls, NEW kind \in ResultKinds, ReplyDirectly(kind)
  PROVE  /\ QueueTypes' /\ SessionTypes' /\ status' \in Records /\ answers' \in Seq(Answer)
         /\ client' \in Conns \cup {NoConn} /\ clientSession' \in Nat /\ authenticated' \in BOOLEAN
<1>1. answers' \in Seq(Answer)
  <2>1. answers \in Seq(Answer) /\ client \in Conns \cup {NoConn} /\ TypeOK
    BY DEF TypeInv, TypeOK
  <2> QED BY <2>1, AnswerTypes DEF ReplyDirectly
<1>2. CASE CloseSession
  BY <1>1, <1>2, ClosedTypes
<1>3. CASE UNCHANGED <<client, clientSession, authenticated, queueVars, sessionVars, status>>
  BY <1>1, <1>3, Unchanged DEF TypeInv, TypeOK
<1> QED BY <1>2, <1>3 DEF ReplyDirectly

LEMMA ArrivedResponse ==
  ASSUME NEW c \in Calls, NEW session \in Nat, NEW kind \in ResultKinds
  PROVE  /\ ResponseFor(Arrival(c, session), kind) \in Response
         /\ ResponseFor(Arrival(c, session), kind) = [call |-> c, session |-> session, result |-> kind]
BY DEF ResponseFor, Arrival, Response

LEMMA EnqueueTypes ==
  ASSUME TypeInv, NEW c \in Calls, EnqueueNetworkCall(c), UNCHANGED flagVars
  PROVE  QueueTypes' /\ status' \in Records /\ UNCHANGED authSession
<1>1. CASE ~Accepting
  <2>1. outbox' \in Seq(Response)
    <3>1. ResponseFor(Arrival(c, clientSession), "Unavailable") \in Response
      BY ArrivedResponse DEF TypeInv, TypeOK, ResultKinds
    <3>2. outbox' = Append(outbox, ResponseFor(Arrival(c, clientSession), "Unavailable"))
      BY <1>1 DEF EnqueueNetworkCall
    <3>3. outbox \in Seq(Response)
      BY DEF TypeInv, TypeOK
    <3> QED BY <3>1, <3>2, <3>3, AppendProperties
  <2> QED BY <1>1, <2>1, TypeParts DEF EnqueueNetworkCall, QueueTypes, QueueIsAccounted
<1>2. CASE Accepting
  <2>1. inbox' \in Seq(PendingCall) /\ inboxBytes' \in Nat /\ QueueIsAccounted'
    BY <1>2, QueueRoom DEF EnqueueNetworkCall, TypeInv, TypeOK
  <2>2. status' \in Records
    BY <1>2, StatusTypes, SMTT(30)
       DEF EnqueueNetworkCall, UpdateStatus, TypeInv, TypeOK, Records, flagVars
  <2> QED BY <1>2, <2>1, <2>2, TypeParts DEF EnqueueNetworkCall, QueueTypes
<1> QED BY <1>1, <1>2

LEMMA CallTypes == ASSUME TypeInv, ListenerCall PROVE TypeInv'
<1>1. ASSUME NEW kind \in {"Invalid", "Overloaded"}, ReplyDirectly(kind) PROVE TypeInv'
  <2>1. /\ QueueTypes' /\ SessionTypes' /\ status' \in Records /\ answers' \in Seq(Answer)
        /\ client' \in Conns \cup {NoConn} /\ clientSession' \in Nat /\ authenticated' \in BOOLEAN
    BY <1>1, ReplyTypes DEF ListenerCall, ResultKinds
  <2>2. ListenerTypes' /\ WorldTypes'
    BY <2>1 DEF ListenerCall, ListenerTypes, WorldTypes, TypeInv, TypeOK, Made
  <2> QED BY <2>1, <2>2, Unchanged, TypeParts DEF ListenerCall
<1>2. CASE /\ EnqueueNetworkCall(line)
           /\ UNCHANGED <<client, clientSession, authenticated, nextSession, activeSession,
                          admitted, answers>>
  <2>1. QueueTypes' /\ status' \in Records /\ UNCHANGED authSession
    BY <1>2, EnqueueTypes DEF ListenerCall
  <2>2. SessionTypes' /\ ListenerTypes' /\ WorldTypes'
    BY <1>2, <2>1 DEF ListenerCall, SessionTypes, ListenerTypes, WorldTypes, TypeInv, TypeOK, Made
  <2> QED BY <2>1, <2>2, Unchanged, TypeParts DEF ListenerCall
<1> QED BY <1>1, <1>2 DEF ListenerCall

\* What flushOutbox does in one step
FlushKeeps == UNCHANGED <<client, clientSession, authenticated, inbox, inboxBytes, active, executing,
                          sessionVars, status>>
Flushed == outbox = <<>> /\ lpc' = "check" /\ FlushKeeps /\ UNCHANGED <<outbox, answers>>
Dropped ==
  /\ outbox # <<>> /\ outbox' = Tail(outbox) /\ FlushKeeps /\ UNCHANGED <<lpc, answers>>
  /\ client = NoConn \/ ~authenticated \/ Head(outbox).session # clientSession
Written ==
  /\ outbox # <<>> /\ client # NoConn /\ authenticated /\ Head(outbox).session = clientSession
  /\ outbox' = Tail(outbox) /\ FlushKeeps /\ UNCHANGED lpc
  /\ answers' = Append(answers, [call |-> Head(outbox).call, to |-> client,
                                result |-> Head(outbox).result])
Closed ==
  /\ outbox # <<>> /\ client # NoConn /\ authenticated /\ Head(outbox).session = clientSession
  /\ CloseSession /\ lpc' = "check" /\ UNCHANGED answers

LEMMA FlushCases ==
  ASSUME ListenerFlush
  PROVE  /\ Flushed \/ Dropped \/ Written \/ Closed
         /\ UNCHANGED <<flagVars, waiting, line, pumpVars, stopVars, dialog, order, freshConns,
                       caller, dialogAge>>
BY DEF ListenerFlush, Flushed, Dropped, Written, Closed, FlushKeeps, queueVars

LEMMA FlushTypes == ASSUME TypeInv, ListenerFlush PROVE TypeInv'
<1>1. UNCHANGED <<flagVars, waiting, line, pumpVars, stopVars, dialog, order, freshConns, caller,
                  dialogAge>>
  BY FlushCases
<1>2. ASSUME answers' \in Seq(Answer) PROVE WorldTypes'
  BY <1>1, <1>2 DEF WorldTypes, TypeInv, TypeOK, Made
<1>3. CASE Closed
  <2>1. WorldTypes'
    BY <1>2, <1>3 DEF Closed, TypeInv, TypeOK
  <2>2. client' \in Conns \cup {NoConn} /\ clientSession' \in Nat /\ authenticated' \in BOOLEAN
        /\ QueueTypes' /\ SessionTypes' /\ status' \in Records
    BY <1>3, ClosedTypes DEF Closed
  <2>3. ListenerTypes'
    BY <1>1, <1>3, <2>2 DEF Closed, ListenerTypes, TypeInv, TypeOK
  <2> QED BY <1>1, <2>1, <2>2, <2>3, Unchanged, TypeParts
<1>4. CASE Flushed \/ Dropped \/ Written
  <2>1. outbox' \in Seq(Response)
    <3>1. outbox \in Seq(Response) /\ (outbox # <<>> => Tail(outbox) \in Seq(Response))
      BY DEF TypeInv, TypeOK
    <3> QED BY <1>4, <3>1 DEF Flushed, Dropped, Written
  <2>2. QueueTypes' /\ SessionTypes' /\ status' \in Records
    BY <1>4, <2>1, TypeParts DEF Flushed, Dropped, Written, FlushKeeps, QueueTypes, SessionTypes,
                                 sessionVars, QueueIsAccounted
  <2>3. answers' \in Seq(Answer)
    <3>1. ASSUME outbox # <<>> PROVE Head(outbox).call \in Calls /\ Head(outbox).result \in ResultKinds
      <4>1. Head(outbox) \in Response
        BY <3>1 DEF TypeInv, TypeOK
      <4> QED BY <4>1 DEF Response
    <3>2. answers \in Seq(Answer) /\ client \in Conns \cup {NoConn} /\ TypeOK
      BY DEF TypeInv, TypeOK
    <3> QED BY <1>4, <3>1, <3>2, AnswerTypes DEF Flushed, Dropped, Written
  <2>4. ListenerTypes'
    BY <1>1, <1>4 DEF Flushed, Dropped, Written, FlushKeeps, ListenerTypes, TypeInv, TypeOK
  <2> QED BY <1>1, <1>2, <2>2, <2>3, <2>4, Unchanged, TypeParts
<1> QED BY <1>3, <1>4, FlushCases

LEMMA ExitTypes == ASSUME TypeInv, ListenerExit PROVE TypeInv'
<1>1. QueueTypes' /\ SessionTypes' /\ status' \in Records
  BY ClosedTypes, Unchanged DEF ListenerExit
<1>2. ListenerTypes'
  BY ClosedTypes DEF ListenerExit, ListenerTypes, TypeInv, TypeOK
<1> QED BY <1>1, <1>2, Unchanged, TypeParts DEF ListenerExit

-----------------------------------------------------------------------------
(* Control: what the places of the three threads say of the shared state *)

\* held is a call just when the pump works on one; the pump that goes into the inbox finds it
\* as it left it; stop() has the server stopping; once it has drained, nothing is left or comes.
ControlInv ==
  /\ held # NoCall <=> ppc \in {"resume", "run"}
  /\ ppc \in {"resume", "next", "run"} => active = NoCall
  /\ ppc = "next" => inbox # <<>>
  /\ stopping <=> spc \in {"drain", "join"}
  /\ isRunning => spc = "idle"
  /\ spc = "join" => inbox = <<>> /\ active = NoCall /\ ppc \in {"idle", "notify"}
  /\ ppc = "run" => ~dialog

LEMMA FinishTypes ==
  ASSUME TypeInv, NEW p \in PendingCall, NEW kind \in ResultKinds, FinishCall(p, kind)
  PROVE  outbox' \in Seq(Response) /\ PumpTypes'
<1>1. ResponseFor(p, kind) \in Response /\ CompletionFor(p, kind) \in Completion
  BY DEF ResponseFor, CompletionFor, Response, Completion, PendingCall
<1>2. outbox \in Seq(Response) /\ completions \in Seq(Completion)
  BY DEF TypeInv, TypeOK
<1>3. outbox' \in Seq(Response) /\ completions' \in Seq(Completion)
  <2>1. /\ Append(outbox, ResponseFor(p, kind)) \in Seq(Response)
        /\ Append(completions, CompletionFor(p, kind)) \in Seq(Completion)
    BY <1>1, <1>2, AppendProperties
  <2> QED BY <1>2, <2>1 DEF FinishCall, QueueResult, Complete
<1> QED BY <1>3 DEF FinishCall, PumpTypes

LEMMA UpdateTypes ==
  ASSUME TypeInv, UpdateStatus, executing' \in BOOLEAN, isRunning' \in BOOLEAN
  PROVE  status' \in Records
BY StatusTypes DEF UpdateStatus, TypeInv, TypeOK, Records

\* What a look at the dialog leaves of the queue
LEMMA LookTypes ==
  ASSUME TypeInv
  PROVE  /\ ClockAll(inbox) \in Seq(PendingCall) /\ UnclockAll(inbox) \in Seq(PendingCall)
         /\ \A i \in 1..Len(inbox) : /\ ClockAll(inbox)[i] = Clocked(inbox[i])
                                     /\ UnclockAll(inbox)[i] = Unclocked(inbox[i])
                                     /\ ClockAll(inbox)[i].call = inbox[i].call
                                     /\ UnclockAll(inbox)[i].call = inbox[i].call
         /\ Len(ClockAll(inbox)) = Len(inbox) /\ Len(UnclockAll(inbox)) = Len(inbox)
         /\ SizeOf(ClockAll(inbox)) = SizeOf(inbox) /\ SizeOf(UnclockAll(inbox)) = SizeOf(inbox)
         /\ \A p \in PendingCall : Clocked(p) \in PendingCall /\ Unclocked(p) \in PendingCall
<1>1. inbox \in Seq(PendingCall)
  BY DEF TypeInv, TypeOK
<1>2. /\ ClockAll(inbox) \in Seq(PendingCall) /\ UnclockAll(inbox) \in Seq(PendingCall)
      /\ Len(ClockAll(inbox)) = Len(inbox) /\ Len(UnclockAll(inbox)) = Len(inbox)
  BY <1>1, AllClocked
<1>3. \A p \in PendingCall : /\ Clocked(p) \in PendingCall /\ Unclocked(p) \in PendingCall
                             /\ Clocked(p).call = p.call /\ Unclocked(p).call = p.call
  BY BoundsAssumption DEF Clocked, Unclocked, PendingCall, ParkAges, NotParked
<1>4. \A i \in 1..Len(inbox) : /\ ClockAll(inbox)[i] = Clocked(inbox[i])
                               /\ UnclockAll(inbox)[i] = Unclocked(inbox[i])
                               /\ inbox[i] \in PendingCall
  BY <1>1 DEF ClockAll, UnclockAll
<1>5. \A i \in 1..Len(inbox) : /\ ClockAll(inbox)[i].call = inbox[i].call
                               /\ UnclockAll(inbox)[i].call = inbox[i].call
  BY <1>3, <1>4
<1>6. SizeOf(ClockAll(inbox)) = SizeOf(inbox) /\ SizeOf(UnclockAll(inbox)) = SizeOf(inbox)
  BY <1>1, <1>2, <1>5, SizeOfSame
<1> QED BY <1>2, <1>3, <1>4, <1>5, <1>6

\* The queue after its clocks were set
LEMMA ClocksTypes ==
  ASSUME TypeInv, inbox' \in {ClockAll(inbox), UnclockAll(inbox)}, UNCHANGED inboxBytes
  PROVE  inbox' \in Seq(PendingCall) /\ inboxBytes' \in Nat /\ QueueIsAccounted'
BY LookTypes DEF QueueIsAccounted, TypeInv, TypeOK

LEMMA LookAges ==
  ASSUME TypeInv, LookDialogOpen \/ LookDialogClosed \/ UNCHANGED dialogAge
  PROVE  dialogAge' \in ParkAges
BY BoundsAssumption, SMTT(30)
   DEF TypeInv, TypeOK, LookDialogOpen, LookDialogClosed, ParkAges, NotParked

LEMMA LookKeepsWorld ==
  ASSUME TypeInv, LookDialogOpen \/ LookDialogClosed \/ UNCHANGED dialogAge,
         UNCHANGED <<dialog, order, freshConns, caller, answers>>
  PROVE  WorldTypes'
BY LookAges DEF WorldTypes, TypeInv, TypeOK, Made

LEMMA ResumeTypes == ASSUME TypeInv, ControlInv, PumpResume PROVE TypeInv'
<1>1. held \in PendingCall
  BY DEF ControlInv, PumpResume, TypeInv, TypeOK
<1>2. {"Internal", "Busy"} \subseteq ResultKinds
  BY DEF ResultKinds
<1>3. FlagTypes' /\ SessionTypes' /\ ListenerTypes' /\ StopTypes'
  BY Unchanged DEF PumpResume
<1>4. WorldTypes'
  BY LookKeepsWorld DEF PumpResume
<1>5. status' \in Records
  BY UpdateTypes DEF PumpResume, TypeInv, TypeOK, Records, flagVars
<1>6. inbox' \in Seq(PendingCall) /\ inboxBytes' \in Nat /\ QueueIsAccounted'
  BY ClocksTypes DEF PumpResume, TypeInv, TypeOK, QueueIsAccounted
<1>7. active' \in PendingCall \cup {NoCall} /\ executing' \in BOOLEAN
  BY <1>1, LookTypes DEF PumpResume, TypeInv, TypeOK
<1>8. outbox' \in Seq(Response) /\ PumpTypes'
  <2>1. CASE \E kind \in {"Internal", "Busy"} : FinishCall(held, kind)
    BY <1>1, <1>2, <2>1, FinishTypes
  <2>2. CASE /\ UNCHANGED <<outbox, completed, completions>>
             /\ held' \in {NoCall, Unclocked(held)} /\ ppc' \in {"leave", "run"}
    BY <1>1, <2>2, LookTypes DEF PumpTypes, TypeInv, TypeOK
  <2> QED BY <2>1, <2>2 DEF PumpResume
<1> QED BY <1>3, <1>4, <1>5, <1>6, <1>7, <1>8, TypeParts DEF QueueTypes

LEMMA TakeNextTypes == ASSUME TypeInv, ControlInv, PumpTakeNext PROVE TypeInv'
<1>1. inbox # <<>> /\ inbox \in Seq(PendingCall) /\ Head(inbox) \in PendingCall
  <2>1. inbox # <<>> /\ inbox \in Seq(PendingCall)
    BY DEF ControlInv, PumpTakeNext, TypeInv, TypeOK
  <2> QED BY <2>1
<1>2. {"Internal", "Busy"} \subseteq ResultKinds
  BY DEF ResultKinds
<1>3. FlagTypes' /\ SessionTypes' /\ ListenerTypes' /\ StopTypes'
  BY Unchanged DEF PumpTakeNext
<1>4. WorldTypes'
  BY LookKeepsWorld DEF PumpTakeNext, queueVars
<1>5. status' \in Records
  BY UpdateTypes DEF PumpTakeNext, TypeInv, TypeOK, Records, flagVars
<1>6. inbox' \in Seq(PendingCall) /\ inboxBytes' \in Nat /\ QueueIsAccounted'
  <2>1. ASSUME NEW box \in {inbox, ClockAll(inbox), UnclockAll(inbox)}, TakeHead(box)
        PROVE  inbox' \in Seq(PendingCall) /\ inboxBytes' \in Nat /\ QueueIsAccounted'
    <3>1. box \in Seq(PendingCall) /\ Len(box) = Len(inbox)
          /\ \A i \in 1..Len(inbox) : box[i].call = inbox[i].call
      BY <1>1, LookTypes
    <3>2. TakeHead(box)
      BY <2>1
    <3> QED BY <1>1, <3>1, <3>2, QueueTaken
  <2>2. CASE UNCHANGED <<inbox, inboxBytes>>
    BY <2>2 DEF TypeInv, TypeOK, QueueIsAccounted
  <2>3. CASE inbox' = ClockAll(inbox) /\ UNCHANGED inboxBytes
    BY <2>3, ClocksTypes
  <2> QED BY <2>1, <2>2, <2>3 DEF PumpTakeNext, queueVars
<1>7. active' \in PendingCall \cup {NoCall} /\ executing' \in BOOLEAN
  BY DEF PumpTakeNext, queueVars, TypeInv, TypeOK
<1>8. outbox' \in Seq(Response) /\ PumpTypes'
  <2>1. CASE \E kind \in {"Internal", "Busy"} : FinishCall(Head(inbox), kind)
    BY <1>1, <1>2, <2>1, FinishTypes
  <2>2. CASE /\ UNCHANGED <<outbox, completed, completions>>
             /\ held' \in {held, Unclocked(Head(inbox))} /\ ppc' \in {"leave", "run"}
    BY <1>1, <2>2, LookTypes DEF PumpTypes, TypeInv, TypeOK
  <2> QED BY <2>1, <2>2 DEF PumpTakeNext, queueVars
<1> QED BY <1>3, <1>4, <1>5, <1>6, <1>7, <1>8, TypeParts DEF QueueTypes

LEMMA RunTypes == ASSUME TypeInv, ControlInv, PumpRun PROVE TypeInv'
<1>1. held \in PendingCall
  BY DEF ControlInv, PumpRun, TypeInv, TypeOK
<1>2. {"Internal", "Done"} \subseteq ResultKinds
  BY DEF ResultKinds
<1>3. FlagTypes' /\ SessionTypes' /\ ListenerTypes' /\ StopTypes' /\ WorldTypes'
  BY Unchanged DEF PumpRun
<1>4. status' \in Records
  BY UpdateTypes DEF PumpRun, TypeInv, TypeOK, flagVars
<1>5. outbox' \in Seq(Response) /\ PumpTypes'
  <2>1. CASE \E kind \in {"Done", "Internal"} : FinishCall(held, kind)
    BY <1>1, <1>2, <2>1, FinishTypes
  <2>2. CASE UNCHANGED <<outbox, completed, completions>> /\ held' = NoCall /\ ppc' = "leave"
    BY <2>2 DEF PumpTypes, TypeInv, TypeOK
  <2> QED BY <2>1, <2>2 DEF PumpRun
<1>6. QueueTypes'
  BY <1>1, <1>5 DEF PumpRun, QueueTypes, TypeInv, TypeOK, QueueIsAccounted
<1> QED BY <1>3, <1>4, <1>5, <1>6, TypeParts

\* The pump's steps that move no call, or only the active one
LEMMA PumpMoves ==
  ASSUME TypeInv, PumpBegin \/ PumpBreak \/ PumpTakeActive \/ PumpLookInbox \/ PumpLeave
  PROVE  TypeInv'
<1>1. FlagTypes' /\ SessionTypes' /\ ListenerTypes' /\ StopTypes' /\ WorldTypes'
  BY Unchanged DEF PumpBegin, PumpBreak, PumpTakeActive, TakeActive, PumpLookInbox, PumpLeave
<1>2. QueueTypes'
  BY DEF PumpBegin, PumpBreak, PumpTakeActive, TakeActive, PumpLookInbox, PumpLeave, queueVars,
         QueueTypes, QueueIsAccounted, TypeInv, TypeOK
<1>3. PumpTypes'
  BY DEF PumpBegin, PumpBreak, PumpTakeActive, TakeActive, PumpLookInbox, PumpLeave, PumpTypes,
         TypeInv, TypeOK
<1>4. status' \in Records
  BY UpdateTypes DEF PumpBegin, PumpBreak, PumpTakeActive, TakeActive, PumpLookInbox, PumpLeave,
                     TypeInv, TypeOK, Records, queueVars, flagVars
<1> QED BY <1>1, <1>2, <1>3, <1>4, TypeParts

LEMMA NotifyTypes == ASSUME TypeInv, PumpNotify \/ StopNotify PROVE TypeInv'
<1>1. answers' \in Seq(Answer)
  <2>1. /\ answers \in Seq(Answer) /\ completions \in Seq(Completion)
        /\ stopCompletions \in Seq(Completion)
    BY DEF TypeInv, TypeOK
  <2>2. \A d \in Seq(Completion) : AnswersOf(d) \in Seq(Answer)
    <3>1. <<>> \in Seq(PendingCall) /\ "Done" \in ResultKinds
      BY DEF ResultKinds
    <3> QED BY <3>1, AllAnswered
  <2> QED BY <2>1, <2>2, ConcatProperties DEF PumpNotify, StopNotify
<1>2. PumpTypes' /\ StopTypes'
  <2>1. <<>> \in Seq(Completion)
    OBVIOUS
  <2>2. CASE PumpNotify
    BY <2>1, <2>2 DEF PumpNotify, PumpTypes, StopTypes, TypeInv, TypeOK, stopVars
  <2>3. CASE StopNotify
    BY <2>1, <2>3 DEF StopNotify, PumpTypes, StopTypes, TypeInv, TypeOK, pumpVars
  <2> QED BY <2>2, <2>3
<1>3. WorldTypes'
  BY <1>1 DEF PumpNotify, StopNotify, WorldTypes, TypeInv, TypeOK, Made
<1> QED BY <1>2, <1>3, Unchanged, TypeParts DEF PumpNotify, StopNotify

LEMMA StartTypes == ASSUME TypeInv, StartListening \/ StartFails PROVE TypeInv'
<1>1. StopTypes'
  <2>0. starts \in 0..MaxStarts /\ MaxStarts \in Nat
    BY BoundsAssumption DEF TypeInv, TypeOK
  <2>1. starts < MaxStarts /\ starts' = starts + 1
    BY DEF StartListening, StartFails, StartBegin
  <2>2. starts' \in 0..MaxStarts
    BY <2>0, <2>1
  <2>3. UNCHANGED <<spc, stopCompletions>>
    BY DEF StartListening, StartFails, StartBegin
  <2> QED BY <2>2, <2>3 DEF StopTypes, TypeInv, TypeOK
<1>2. FlagTypes'
  BY DEF StartListening, StartFails, StartBegin, FlagTypes
<1>3. SessionTypes'
  <2>1. CASE UNCHANGED sessionVars
    BY <2>1, Unchanged
  <2>2. CASE activeSession' = 0 /\ authSession' = 0 /\ UNCHANGED <<nextSession, admitted>>
    BY <2>2 DEF SessionTypes, TypeInv, TypeOK
  <2> QED BY <2>1, <2>2 DEF StartListening, StartFails
<1>4. ListenerTypes'
  <2>1. UNCHANGED <<client, clientSession, authenticated, waiting, line>> /\ lpc' \in {"accept", lpc}
    BY DEF StartListening, StartFails, StartBegin
  <2> QED BY <2>1 DEF ListenerTypes, TypeInv, TypeOK
<1>5. status' \in Records
  <2>1. WaitingStatus \in Records /\ ErrorStatus \in Records /\ executing \in BOOLEAN
    BY DEF WaitingStatus, ErrorStatus, Records, TypeInv, TypeOK
  <2> QED BY <2>1, StatusTypes DEF StartListening, StartFails
<1>6. UNCHANGED <<queueVars, pumpVars, worldVars>>
  BY DEF StartListening, StartFails, StartBegin
<1> QED BY <1>1, <1>2, <1>3, <1>4, <1>5, <1>6, Unchanged, TypeParts

LEMMA StopTypesKept == ASSUME TypeInv, StopBegin \/ StopJoin PROVE TypeInv'
<1>1. CASE StopBegin
  <2>1. FlagTypes' /\ StopTypes'
    BY <1>1 DEF StopBegin, FlagTypes, StopTypes, TypeInv, TypeOK
  <2>2. UNCHANGED <<queueVars, sessionVars, status, listenerVars, pumpVars, worldVars>>
    BY <1>1 DEF StopBegin
  <2> QED BY <2>1, <2>2, Unchanged, TypeParts
<1>2. CASE StopJoin
  <2>1. FlagTypes' /\ StopTypes'
    BY <1>2 DEF StopJoin, FlagTypes, StopTypes, TypeInv, TypeOK
  <2>4. SessionTypes'
    <3>1. activeSession' = 0 /\ authSession' = 0 /\ UNCHANGED <<nextSession, admitted>>
      BY <1>2 DEF StopJoin
    <3> QED BY <3>1 DEF SessionTypes, TypeInv, TypeOK
  <2>2. status' \in Records
    BY <1>2 DEF StopJoin, Records, OffStatus
  <2>3. UNCHANGED <<queueVars, listenerVars, pumpVars, worldVars>>
    BY <1>2 DEF StopJoin
  <2> QED BY <2>1, <2>2, <2>3, <2>4, Unchanged, TypeParts
<1> QED BY <1>1, <1>2

\* What stop() drains, as the calls that have waited the longest come first
LEMMA DrainedTypes == ASSUME TypeInv PROVE Unfinished \in Seq(PendingCall)
<1>1. inbox \in Seq(PendingCall) /\ active \in PendingCall \cup {NoCall}
  BY DEF TypeInv, TypeOK
<1>2. ASSUME active # NoCall PROVE <<active>> \o inbox \in Seq(PendingCall)
  <2>1. <<active>> \in Seq(PendingCall)
    BY <1>1, <1>2
  <2> QED BY <1>1, <2>1, ConcatProperties
<1> QED BY <1>1, <1>2 DEF Unfinished

LEMMA DrainTypes == ASSUME TypeInv, StopDrain PROVE TypeInv'
<1> DEFINE remote == Keeping(Unfinished, {p \in PendingCall : HasRequest(p)})
           local  == Keeping(Unfinished, {p \in PendingCall : ~HasRequest(p)})
<1>1. remote \in Seq(PendingCall) /\ local \in Seq(PendingCall)
  BY DrainedTypes, KeepingEmbeds
<1> HIDE DEF remote, local
<1>2. /\ ResponsesFor(remote, "Unavailable") \in Seq(Response)
      /\ CompletionsFor(local, "Unavailable") \in Seq(Completion)
  <2>1. <<>> \in Seq(Completion) /\ "Unavailable" \in ResultKinds
    BY DEF ResultKinds
  <2> QED BY <1>1, <2>1, AllAnswered
<1>3. outbox' \in Seq(Response) /\ stopCompletions' \in Seq(Completion)
  <2>1. outbox \in Seq(Response)
    BY DEF TypeInv, TypeOK
  <2>2. /\ outbox' = outbox \o ResponsesFor(remote, "Unavailable")
        /\ stopCompletions' = CompletionsFor(local, "Unavailable")
    BY DEF StopDrain, remote, local
  <2> QED BY <1>2, <2>1, <2>2, ConcatProperties
<1>4. inbox' = <<>> /\ inboxBytes' = 0 /\ QueueIsAccounted'
  BY SizeOfNone, BoundsAssumption, SMTT(30) DEF StopDrain, TypeInv, TypeOK, QueueIsAccounted
<1>5. QueueTypes'
  <2>1. active' = NoCall /\ executing' = FALSE /\ <<>> \in Seq(PendingCall) /\ 0 \in Nat
    BY DEF StopDrain
  <2> QED BY <1>3, <1>4, <2>1 DEF QueueTypes
<1>6. StopTypes'
  BY <1>3 DEF StopDrain, StopTypes, TypeInv, TypeOK
<1>7. FlagTypes'
  BY DEF StopDrain, FlagTypes, TypeInv, TypeOK
<1> QED BY <1>5, <1>6, <1>7, Unchanged, TypeParts DEF StopDrain

LEMMA SurroundTypes == ASSUME TypeInv, ToggleDialog PROVE TypeInv'
<1>1. WorldTypes'
  BY DEF ToggleDialog, WorldTypes, TypeInv, TypeOK, Made
<1> QED BY <1>1, Unchanged, TypeParts DEF ToggleDialog

\* A tick makes calls older and is otherwise nothing
LEMMA TickTypes == ASSUME TypeInv, Tick PROVE TypeInv'
<1>1. \A p \in PendingCall : OlderCall(p) \in PendingCall /\ OlderCall(p).call = p.call
  <2>1. \A p \in PendingCall : p # NoCall => Older(p.parked) \in ParkAges
    BY BoundsAssumption DEF PendingCall, Older, ParkAges, NotParked
  <2> QED BY <2>1 DEF OlderCall, PendingCall
<1>2. inbox \in Seq(PendingCall) /\ {active, held} \subseteq PendingCall \cup {NoCall}
  BY DEF TypeInv, TypeOK
<1>3. inbox' = [i \in DOMAIN inbox |-> OlderCall(inbox[i])]
  BY DEF Tick
<1>4. \A i \in DOMAIN inbox : inbox'[i] = OlderCall(inbox[i]) /\ inbox[i] \in PendingCall
  BY <1>2, <1>3
<1>5. inbox' \in Seq(PendingCall) /\ Len(inbox') = Len(inbox)
  <2>1. inbox' = [i \in DOMAIN inbox |-> inbox'[i]]
    BY <1>3
  <2>2. \A i \in DOMAIN inbox : inbox'[i] \in PendingCall
    BY <1>1, <1>4
  <2> QED BY <1>2, <2>1, <2>2, MappedSeq
<1>6. SizeOf(inbox') = SizeOf(inbox)
  <2>1. \A i \in 1..Len(inbox) : inbox'[i].call = inbox[i].call
    BY <1>1, <1>2, <1>4
  <2> QED BY <1>2, <1>5, <2>1, SizeOfSame
<1>7. OlderCall(NoCall) = NoCall
  BY DEF OlderCall
<1>8. QueueTypes'
  <2>1. UNCHANGED <<inboxBytes, outbox, executing>> /\ active' = OlderCall(active)
    BY DEF Tick
  <2>2. QueueIsAccounted'
    BY <1>5, <1>6, <2>1 DEF QueueIsAccounted, TypeInv, TypeOK
  <2>3. active' \in PendingCall \cup {NoCall}
    BY <1>1, <1>2, <1>7, <2>1
  <2> QED BY <1>5, <2>1, <2>2, <2>3 DEF QueueTypes, TypeInv, TypeOK
<1>9. PumpTypes'
  <2>1. held' \in PendingCall \cup {NoCall}
    BY <1>1, <1>2, <1>7 DEF Tick
  <2> QED BY <2>1 DEF Tick, PumpTypes, TypeInv, TypeOK
<1>10. WorldTypes'
  <2>1. dialogAge' \in ParkAges
    BY BoundsAssumption DEF Tick, Older, ParkAges, NotParked, TypeInv, TypeOK
  <2> QED BY <2>1 DEF Tick, WorldTypes, TypeInv, TypeOK, Made
<1> QED BY <1>8, <1>9, <1>10, Unchanged, TypeParts DEF Tick

LEMMA TypesInit == Init => TypeInv
<1> SUFFICES ASSUME Init PROVE TypeInv
  OBVIOUS
<1>1. Made = {}
  BY DEF Init, Made
<1>2. QueueIsAccounted
  BY SizeOfNone, BoundsAssumption DEF Init, QueueIsAccounted
<1>3. TypeOK
  <2>1. NotParked \in ParkAges /\ 0 \in 0..MaxStarts
    BY BoundsAssumption DEF ParkAges, NotParked
  <2>2. OffStatus \in Records
    BY DEF OffStatus, Records
  <2>3. /\ [c \in Calls |-> 0] \in [Calls -> Nat]
        /\ [c \in Calls |-> NoConn] \in [Calls -> Conns \cup {NoConn}]
    OBVIOUS
  <2>4. /\ <<>> \in Seq(PendingCall) /\ <<>> \in Seq(Response) /\ <<>> \in Seq(Completion)
        /\ <<>> \in Seq(Answer) /\ <<>> \in Seq(Conns)
    OBVIOUS
  <2>5. /\ order \in [Calls -> Nat] /\ caller \in [Calls -> Conns \cup {NoConn}]
        /\ status \in Records /\ dialogAge \in ParkAges /\ starts \in 0..MaxStarts
        /\ inbox \in Seq(PendingCall) /\ outbox \in Seq(Response) /\ answers \in Seq(Answer)
        /\ completions \in Seq(Completion) /\ stopCompletions \in Seq(Completion)
        /\ admitted \in Seq(Conns)
    BY <2>1, <2>2, <2>3, <2>4 DEF Init
  <2>6. {isRunning, stopping, stopRequested, endpointWritten, executing, authenticated, completed,
         dialog} \subseteq BOOLEAN
    BY DEF Init
  <2>7. /\ {nextSession, activeSession, authSession, clientSession, inboxBytes} \subseteq Nat
        /\ {active, held} \subseteq PendingCall \cup {NoCall}
        /\ {client, waiting} \subseteq Conns \cup {NoConn} /\ line \in Calls \cup {Hello, NoCall}
        /\ freshConns \subseteq Conns
        /\ lpc = "off" /\ ppc = "idle" /\ spc = "idle"
    BY DEF Init
  <2> HIDE DEF Init
  <2> QED BY <2>5, <2>6, <2>7 DEF TypeOK, Records
<1> QED BY <1>1, <1>2, <1>3, FS_EmptySet DEF TypeInv

LEMMA TypesStep == TypeInv /\ ControlInv /\ [Next]_vars => TypeInv'
<1> SUFFICES ASSUME TypeInv, ControlInv, [Next]_vars PROVE TypeInv'
  OBVIOUS
<1>1. ASSUME NEW c \in Calls, Submit(c) PROVE TypeInv'
  BY <1>1, SubmitTypes
<1>2. CASE ListenerStep
  BY <1>2, AcceptTypes, ReadTypes, ConnectedTypes, CallTypes, NewcomerTypes, FlushTypes, CheckTypes,
     ExitTypes DEF ListenerStep
<1>3. CASE ListenerFail
  BY <1>3, FailTypes
<1>4. CASE PumpBegin \/ PumpStep
  BY <1>4, PumpMoves, ResumeTypes, TakeNextTypes, RunTypes, NotifyTypes DEF PumpStep
<1>5. CASE StartListening \/ StartFails
  BY <1>5, StartTypes
<1>6. CASE StopBegin \/ StopStep
  BY <1>6, StopTypesKept, DrainTypes, NotifyTypes DEF StopStep
<1>7. CASE ToggleDialog \/ Tick
  BY <1>7, SurroundTypes, TickTypes
<1>8. CASE UNCHANGED vars
  BY <1>8, Unchanged, TypeParts DEF vars
<1> QED BY <1>1, <1>2, <1>3, <1>4, <1>5, <1>6, <1>7, <1>8 DEF Next

LEMMA ControlInit == Init => ControlInv
BY DEF Init, ControlInv

\* The steps of the other threads leave the pump and stop() where they are
LEMMA ControlKept ==
  ASSUME TypeInv, ControlInv, UNCHANGED <<pumpVars, stopVars, stopping, dialog, active>>,
         isRunning' => isRunning, inbox = <<>> => inbox' = <<>> \/ ~stopping,
         inbox # <<>> => inbox' # <<>>
  PROVE  ControlInv'
BY DEF ControlInv, pumpVars, stopVars

LEMMA AppendIsSomething == ASSUME NEW T, NEW s \in Seq(T), NEW x PROVE Append(s, x) # <<>>
BY AppendProperties, EmptySeq

LEMMA ControlSubmit == ASSUME TypeInv, ControlInv, NEW c \in Calls, Submit(c) PROVE ControlInv'
<1>1. inbox \in Seq(PendingCall)
  BY DEF TypeInv, TypeOK
<1>2. inbox' = inbox \/ (~stopping /\ inbox' # <<>>)
  <2>1. \A p : Append(inbox, p) # <<>>
    BY <1>1, AppendIsSomething
  <2>2. CASE UNCHANGED queueVars
    BY <2>2 DEF queueVars
  <2>3. CASE Accepting /\ inbox' = Append(inbox, Arrival(c, 0))
    BY <2>1, <2>3 DEF Accepting
  <2> QED BY <2>2, <2>3 DEF Submit
<1>3. UNCHANGED <<pumpVars, stopVars, stopping, dialog, active, isRunning>>
  BY DEF Submit, flagVars, queueVars
<1> QED BY <1>2, <1>3, ControlKept

LEMMA ControlListener == ASSUME TypeInv, ControlInv, ListenerStep \/ ListenerFail PROVE ControlInv'
<1>1. UNCHANGED <<pumpVars, stopVars, stopping, dialog>>
  BY DEF ListenerStep, ListenerFail, ListenerAccept, ListenerRead, ListenerConnected, ListenerCall,
         ListenerNewcomer, ListenerFlush, ListenerCheck, ListenerExit, flagVars, worldVars
<1>2. isRunning' => isRunning
  BY DEF ListenerStep, ListenerFail, ListenerAccept, ListenerRead, ListenerConnected, ListenerCall,
         ListenerNewcomer, ListenerFlush, ListenerCheck, ListenerExit, flagVars, TypeInv, TypeOK
<1>3. active' = active /\ (inbox' = inbox \/ (~stopping /\ inbox' # <<>>))
  <2>1. CASE ListenerCall
    <3>1. \A p : Append(inbox, p) # <<>>
      BY AppendIsSomething DEF TypeInv, TypeOK
    <3>2. CASE EnqueueNetworkCall(line)
      BY <3>1, <3>2 DEF EnqueueNetworkCall, Accepting
    <3>3. CASE \E kind \in {"Invalid", "Overloaded"} : ReplyDirectly(kind)
      BY <3>3 DEF ReplyDirectly, CloseSession, queueVars
    <3> QED BY <2>1, <3>2, <3>3 DEF ListenerCall
  <2>2. CASE ListenerRead
    BY <2>2 DEF ListenerRead, CloseSession, queueVars
  <2>3. CASE ListenerFlush
    BY <2>3 DEF ListenerFlush, CloseSession, queueVars
  <2>4. CASE ListenerExit
    BY <2>4 DEF ListenerExit, CloseSession, queueVars
  <2>5. CASE UNCHANGED queueVars
    BY <2>5 DEF queueVars
  <2> QED BY <2>1, <2>2, <2>3, <2>4, <2>5
          DEF ListenerStep, ListenerAccept, ListenerConnected, ListenerNewcomer, ListenerCheck,
              ListenerFail
<1> QED BY <1>1, <1>2, <1>3, ControlKept

LEMMA ControlPump == ASSUME TypeInv, ControlInv, PumpBegin \/ PumpStep PROVE ControlInv'
<1>1. UNCHANGED <<stopVars, stopping, isRunning, dialog>>
  BY DEF PumpStep, PumpBegin, PumpBreak, PumpTakeActive, TakeActive, PumpLookInbox, PumpResume,
         PumpTakeNext, PumpRun, PumpLeave, PumpNotify, flagVars, worldVars
<1>2. ASSUME UNCHANGED <<spc, stopping, isRunning, dialog>>, spc # "join",
             held' # NoCall <=> ppc' \in {"resume", "run"},
             ppc' \in {"resume", "next", "run"} => active' = NoCall,
             ppc' = "next" => inbox' # <<>>, ppc' = "run" => ~dialog
      PROVE  ControlInv'
  BY <1>2 DEF ControlInv
<1>3. \A p \in PendingCall : Unclocked(p) # NoCall
  BY NoCallAssumption, LookTypes
<1>4. CASE PumpNotify
  BY <1>1, <1>4 DEF PumpNotify, ControlInv, stopVars, queueVars
<1>5. CASE PumpBegin \/ PumpBreak \/ PumpTakeActive \/ PumpLookInbox \/ PumpLeave
  <2>1. spc # "join" \/ ppc \notin {"idle", "notify"}
    BY <1>5 DEF PumpBegin, PumpBreak, PumpTakeActive, TakeActive, PumpLookInbox, PumpLeave, ControlInv
  <2>2. spc # "join"
    BY <1>5, <2>1 DEF ControlInv, PumpBegin
  <2>3. /\ held' # NoCall <=> ppc' \in {"resume", "run"}
        /\ ppc' \in {"resume", "next", "run"} => active' = NoCall
        /\ ppc' = "next" => inbox' # <<>>
        /\ ppc' # "run"
    BY <1>5 DEF PumpBegin, PumpBreak, PumpTakeActive, TakeActive, PumpLookInbox, PumpLeave, queueVars,
                ControlInv
  <2> QED BY <1>1, <1>2, <2>2, <2>3 DEF stopVars
<1>6. CASE PumpResume
  <2>1. held \in PendingCall /\ active = NoCall /\ spc # "join"
    BY <1>6 DEF PumpResume, ControlInv, TypeInv, TypeOK
  <2>2. /\ held' # NoCall <=> ppc' \in {"resume", "run"}
        /\ ppc' \in {"resume", "next", "run"} => active' = NoCall
        /\ ppc' # "next"
        /\ ppc' = "run" => ~dialog
    BY <1>3, <1>6, <2>1 DEF PumpResume, FinishCall
  <2> QED BY <1>1, <1>2, <2>1, <2>2 DEF stopVars
<1>7. CASE PumpTakeNext
  <2>1. inbox # <<>> /\ inbox \in Seq(PendingCall) /\ held = NoCall /\ active = NoCall /\ spc # "join"
    BY <1>7 DEF PumpTakeNext, ControlInv, TypeInv, TypeOK
  <2>2. Unclocked(Head(inbox)) # NoCall
    BY <1>3, <2>1
  <2>3. /\ held' # NoCall <=> ppc' \in {"resume", "run"}
        /\ active' = NoCall
        /\ ppc' # "next"
        /\ ppc' = "run" => ~dialog
    BY <1>7, <2>1, <2>2 DEF PumpTakeNext, FinishCall, queueVars
  <2> QED BY <1>1, <1>2, <2>1, <2>3 DEF stopVars
<1>8. CASE PumpRun
  <2>1. spc # "join"
    BY <1>8 DEF PumpRun, ControlInv
  <2>2. held' = NoCall /\ ppc' \in {"loop", "leave"}
    BY <1>8 DEF PumpRun, FinishCall
  <2> QED BY <1>1, <1>2, <2>1, <2>2 DEF stopVars
<1> QED BY <1>4, <1>5, <1>6, <1>7, <1>8 DEF PumpStep

LEMMA ControlStart ==
  ASSUME TypeInv, ControlInv, StartListening \/ StartFails PROVE ControlInv'
<1>1. UNCHANGED <<queueVars, pumpVars, spc, dialog>> /\ spc = "idle" /\ stopping' = FALSE
  BY DEF StartListening, StartFails, StartBegin, worldVars
<1> QED BY <1>1 DEF ControlInv, queueVars, pumpVars

LEMMA ControlStop == ASSUME TypeInv, ControlInv, StopBegin \/ StopStep PROVE ControlInv'
<1>1. CASE StopBegin
  BY <1>1 DEF StopBegin, ControlInv, queueVars, pumpVars, worldVars
<1>2. CASE StopDrain
  BY <1>2 DEF StopDrain, ControlInv, pumpVars, worldVars
<1>3. CASE StopJoin
  BY <1>3 DEF StopJoin, ControlInv, queueVars, pumpVars, worldVars
<1>4. CASE StopNotify
  BY <1>4 DEF StopNotify, ControlInv, queueVars, pumpVars, flagVars
<1> QED BY <1>1, <1>2, <1>3, <1>4 DEF StopStep

LEMMA ControlWorld == ASSUME TypeInv, ControlInv, ToggleDialog \/ Tick PROVE ControlInv'
<1>1. CASE ToggleDialog
  BY <1>1 DEF ToggleDialog, ControlInv, queueVars, pumpVars, stopVars, flagVars
<1>2. CASE Tick
  <2>1. \A p \in PendingCall \cup {NoCall} : OlderCall(p) = NoCall <=> p = NoCall
    <3>1. \A p \in PendingCall : p # NoCall /\ OlderCall(p) \in PendingCall
      <4>1. \A p \in PendingCall : Older(p.parked) \in ParkAges
        BY BoundsAssumption DEF PendingCall, Older, ParkAges, NotParked
      <4> QED BY <4>1, NoCallAssumption DEF OlderCall, PendingCall
    <3> QED BY <3>1, NoCallAssumption DEF OlderCall
  <2>2. (held' = NoCall <=> held = NoCall) /\ (active' = NoCall <=> active = NoCall)
    BY <1>2, <2>1 DEF Tick, TypeInv, TypeOK
  <2>3. inbox' = <<>> <=> inbox = <<>>
    <3>1. inbox \in Seq(PendingCall) /\ DOMAIN inbox' = DOMAIN inbox /\ inbox' \in Seq(PendingCall)
      BY <1>2, TickTypes DEF Tick, TypeInv, TypeOK
    <3> QED BY <3>1, EmptySeq, LenProperties
  <2>4. UNCHANGED <<ppc, stopVars, flagVars, dialog>>
    BY <1>2 DEF Tick
  <2> QED BY <2>2, <2>3, <2>4 DEF ControlInv, stopVars, flagVars
<1> QED BY <1>1, <1>2

LEMMA ControlStep == TypeInv /\ ControlInv /\ [Next]_vars => ControlInv'
<1> SUFFICES ASSUME TypeInv, ControlInv, [Next]_vars PROVE ControlInv'
  OBVIOUS
<1>1. ASSUME NEW c \in Calls, Submit(c) PROVE ControlInv'
  BY <1>1, ControlSubmit
<1>2. CASE UNCHANGED vars
  BY <1>2 DEF ControlInv, vars, flagVars, queueVars, pumpVars, stopVars, worldVars
<1> QED BY <1>1, <1>2, ControlListener, ControlPump, ControlStart, ControlStop, ControlWorld DEF Next

-----------------------------------------------------------------------------
(* What is in a sequence *)

Items(s) == {s[i] : i \in DOMAIN s}

LEMMA ItemsOfMore ==
  ASSUME NEW T, NEW s \in Seq(T), NEW x \in T
  PROVE  Items(Append(s, x)) = Items(s) \cup {x}
<1>1. /\ Append(s, x) \in Seq(T) /\ Len(Append(s, x)) = Len(s) + 1
      /\ Append(s, x)[Len(s) + 1] = x /\ \A i \in 1..Len(s) : Append(s, x)[i] = s[i]
  BY AppendProperties
<1>2. DOMAIN s = 1..Len(s) /\ DOMAIN Append(s, x) = 1..(Len(s) + 1) /\ Len(s) \in Nat
  BY <1>1
<1>3. \A i \in 1..(Len(s) + 1) : i \in 1..Len(s) \/ i = Len(s) + 1
  BY <1>2
<1>4. 1..Len(s) \subseteq 1..(Len(s) + 1) /\ Len(s) + 1 \in 1..(Len(s) + 1)
  BY <1>2
<1> DEFINE t == Append(s, x)
           n == Len(s) + 1
<1> HIDE DEF t, n
<1>5. /\ DOMAIN t = 1..n /\ t[n] = x /\ n \in 1..n /\ \A i \in 1..n : i \in 1..Len(s) \/ i = n
      /\ \A i \in 1..Len(s) : t[i] = s[i] /\ i \in 1..n
  BY <1>1, <1>2, <1>3, <1>4 DEF t, n
<1>6. Items(t) = Items(s) \cup {x}
  BY <1>2, <1>5, Zenon DEF Items
<1> QED BY <1>6 DEF t

LEMMA ItemsOfRest ==
  ASSUME NEW T, NEW s \in Seq(T), s # <<>>
  PROVE  /\ Items(Tail(s)) \subseteq Items(s) /\ Head(s) \in Items(s) /\ Head(s) \in T
         /\ Tail(s) \in Seq(T)
<1>1. /\ Tail(s) \in Seq(T) /\ Head(s) = s[1] /\ DOMAIN s = 1..Len(s) /\ Len(s) \in Nat
      /\ DOMAIN Tail(s) = 1..(Len(s) - 1)
      /\ \A i \in 1..(Len(s) - 1) : Tail(s)[i] = s[i + 1] /\ i + 1 \in 1..Len(s)
  OBVIOUS
<1>2. 1 \in DOMAIN s /\ s[1] \in T
  OBVIOUS
<1>3. \A i \in DOMAIN Tail(s) : \E j \in DOMAIN s : Tail(s)[i] = s[j]
  BY <1>1
<1>4. Items(Tail(s)) \subseteq Items(s)
  BY <1>3 DEF Items
<1>5. Head(s) \in Items(s)
  BY <1>1, <1>2 DEF Items
<1> QED BY <1>1, <1>2, <1>4, <1>5

LEMMA ItemsOfBoth ==
  ASSUME NEW T, NEW s \in Seq(T), NEW t \in Seq(T)
  PROVE  Items(s \o t) = Items(s) \cup Items(t) /\ s \o t \in Seq(T)
<1>1. /\ s \o t \in Seq(T) /\ Len(s \o t) = Len(s) + Len(t)
      /\ \A i \in 1..(Len(s) + Len(t)) : (s \o t)[i] = IF i <= Len(s) THEN s[i] ELSE t[i - Len(s)]
      /\ Len(s) \in Nat /\ Len(t) \in Nat
  BY ConcatProperties
<1> DEFINE u == s \o t
<1> HIDE DEF u
<1>2. DOMAIN u = 1..(Len(s) + Len(t)) /\ DOMAIN s = 1..Len(s) /\ DOMAIN t = 1..Len(t)
  BY <1>1 DEF u
<1>3. \A i \in 1..Len(s) : i \in DOMAIN u /\ u[i] = s[i]
  BY <1>1, <1>2 DEF u
<1>4. \A i \in 1..Len(t) : i + Len(s) \in DOMAIN u /\ u[i + Len(s)] = t[i]
  <2> TAKE i \in 1..Len(t)
  <2>1. i + Len(s) \in 1..(Len(s) + Len(t)) /\ ~ (i + Len(s) <= Len(s)) /\ (i + Len(s)) - Len(s) = i
    BY <1>1
  <2> QED BY <1>1, <1>2, <2>1 DEF u
<1>5. ASSUME NEW i \in DOMAIN u PROVE u[i] \in Items(s) \cup Items(t)
  <2>1. CASE i <= Len(s)
    <3>1. i \in DOMAIN s /\ u[i] = s[i]
      BY <1>1, <1>2, <2>1 DEF u
    <3> QED BY <3>1 DEF Items
  <2>2. CASE ~ (i <= Len(s))
    <3>1. i - Len(s) \in DOMAIN t /\ u[i] = t[i - Len(s)]
      BY <1>1, <1>2, <2>2 DEF u
    <3> QED BY <3>1 DEF Items
  <2> QED BY <2>1, <2>2
<1>6. Items(u) \subseteq Items(s) \cup Items(t)
  BY <1>5 DEF Items
<1>7. Items(s) \cup Items(t) \subseteq Items(u)
  <2>1. \A i \in DOMAIN s : \E j \in DOMAIN u : s[i] = u[j]
    BY <1>2, <1>3
  <2>2. \A i \in DOMAIN t : \E j \in DOMAIN u : t[i] = u[j]
    BY <1>2, <1>4
  <2> QED BY <2>1, <2>2 DEF Items
<1> QED BY <1>1, <1>6, <1>7 DEF u

LEMMA ItemsKept ==
  ASSUME NEW T, NEW s \in Seq(T), NEW S
  PROVE  Items(Keeping(s, S)) \subseteq Items(s) \cap S /\ Keeping(s, S) \in Seq(T)
<1> DEFINE k == Keeping(s, S)
<1>1. k \in Seq(T) /\ Embeds(k, Len(s), s, S)
  BY KeepingEmbeds
<1> HIDE DEF k
<1>2. PICK f \in [1..Len(k) -> 1..Len(s)] : \A i \in 1..Len(k) : k[i] = s[f[i]] /\ s[f[i]] \in S
  BY <1>1 DEF Embeds
<1>3. DOMAIN k = 1..Len(k) /\ DOMAIN s = 1..Len(s)
  BY <1>1
<1>4. Items(k) \subseteq Items(s) \cap S
  BY <1>2, <1>3 DEF Items
<1> QED BY <1>1, <1>4 DEF k

LEMMA ItemsOfNone == Items(<<>>) = {}
BY DEF Items

LEMMA ItemsTyped == ASSUME NEW T, NEW s \in Seq(T) PROVE Items(s) \subseteq T
BY DEF Items

-----------------------------------------------------------------------------
(* Sessions *)

\* The session numbers in use are those given out, and each leads to the peer it was given to.
SessionInv ==
  /\ nextSession = Len(admitted)
  /\ IF client = NoConn THEN clientSession = 0
     ELSE clientSession \in 1..nextSession /\ admitted[clientSession] = client
  /\ authSession <= nextSession

LEMMA AdmitSession == ASSUME TypeInv, SessionInv, NEW k \in Conns, Admit(k) PROVE SessionInv'
<1>1. admitted \in Seq(Conns) /\ nextSession = Len(admitted) /\ authSession \in Nat
      /\ authSession <= nextSession
  BY DEF TypeInv, TypeOK, SessionInv
<1>2. Len(admitted') = Len(admitted) + 1 /\ admitted'[Len(admitted) + 1] = k
  BY <1>1, AppendProperties DEF Admit
<1>3. nextSession' = Len(admitted) + 1 /\ clientSession' = Len(admitted) + 1 /\ client' = k
      /\ authSession' = authSession
  BY <1>1 DEF Admit, FreshSession
<1>4. k # NoConn
  BY ConnsAssumption
<1> QED BY <1>1, <1>2, <1>3, <1>4 DEF SessionInv

LEMMA ClosedSession == ASSUME TypeInv, SessionInv, CloseSession PROVE SessionInv'
BY DEF SessionInv, CloseSession, TypeInv, TypeOK

LEMMA SessionStays ==
  ASSUME SessionInv, TypeInv, UNCHANGED <<client, clientSession, nextSession, admitted>>,
         authSession' \in {authSession, clientSession, 0}
  PROVE  SessionInv'
BY DEF SessionInv, TypeInv, TypeOK

LEMMA SessionStep == TypeInv /\ SessionInv /\ [Next]_vars => SessionInv'
<1> SUFFICES ASSUME TypeInv, SessionInv, [Next]_vars PROVE SessionInv'
  OBVIOUS
<1>1. CASE ListenerAccept
  <2>1. ASSUME NEW k \in freshConns, Admit(k) PROVE SessionInv'
    BY <2>1, AdmitSession DEF TypeInv, TypeOK
  <2>2. CASE UNCHANGED <<client, clientSession, sessionVars>>
    BY <2>2, SessionStays DEF sessionVars
  <2> QED BY <1>1, <2>1, <2>2 DEF ListenerAccept
<1>2. CASE ListenerNewcomer
  <2>1. CASE waiting \in Conns /\ Admit(waiting)
    BY <2>1, AdmitSession
  <2>2. CASE UNCHANGED <<client, clientSession, sessionVars>>
    BY <2>2, SessionStays DEF sessionVars
  <2> QED BY <1>2, <2>1, <2>2 DEF ListenerNewcomer, TypeInv, TypeOK
<1>3. CASE ListenerRead \/ ListenerFlush \/ ListenerExit \/ ListenerCall
  <2>1. CASE CloseSession
    BY <2>1, ClosedSession
  <2>2. CASE UNCHANGED <<client, clientSession, sessionVars>>
    BY <2>2, SessionStays DEF sessionVars
  <2>3. CASE ListenerCall /\ ~CloseSession
    <3>1. UNCHANGED <<client, clientSession, nextSession, admitted, authSession>>
      BY <2>3 DEF ListenerCall, ReplyDirectly, EnqueueNetworkCall, sessionVars
    <3> QED BY <3>1, SessionStays
  <2> QED BY <1>3, <2>1, <2>2, <2>3 DEF ListenerRead, ListenerFlush, ListenerExit
<1>4. CASE ListenerConnected
  BY <1>4, SessionStays DEF ListenerConnected
<1>5. CASE StartListening \/ StartFails
  <2>1. UNCHANGED <<client, clientSession, nextSession, admitted>> /\ authSession' \in {authSession, 0}
    BY <1>5 DEF StartListening, StartFails, StartBegin, sessionVars
  <2> QED BY <2>1, SessionStays
<1>6. CASE StopBegin \/ StopStep
  <2>1. UNCHANGED <<client, clientSession, nextSession, admitted>> /\ authSession' \in {authSession, 0}
    BY <1>6 DEF StopStep, StopBegin, StopDrain, StopJoin, StopNotify, sessionVars, listenerVars
  <2> QED BY <2>1, SessionStays
<1>7. ASSUME UNCHANGED sessionVars, UNCHANGED listenerVars PROVE SessionInv'
  BY <1>7, SessionStays DEF sessionVars, listenerVars
<1>8. ASSUME NEW c \in Calls, Submit(c) PROVE SessionInv'
  BY <1>7, <1>8 DEF Submit
<1>9. CASE PumpBegin \/ PumpStep \/ ToggleDialog \/ Tick \/ UNCHANGED vars
  BY <1>7, <1>9 DEF PumpBegin, PumpStep, PumpBreak, PumpTakeActive, TakeActive, PumpLookInbox,
     PumpResume, PumpTakeNext, PumpRun, PumpLeave, PumpNotify, ToggleDialog, Tick, vars
<1>10. CASE ListenerCheck \/ ListenerFail
  BY <1>10, SessionStays DEF ListenerCheck, ListenerFail, sessionVars
<1> QED BY <1>1, <1>2, <1>3, <1>4, <1>5, <1>6, <1>8, <1>9, <1>10 DEF Next, ListenerStep

-----------------------------------------------------------------------------
(* The status line *)

ClientOf(session) == IF session # 0 THEN admitted[session] ELSE NoConn
StateShown ==
  IF executing \/ inbox # <<>> THEN "Busy" ELSE IF authSession # 0 THEN "Connected" ELSE "Waiting"

\* While the server runs the status names the authenticated client, and between pumps the state;
\* a pump in progress sets the state as it leaves.
StatusInv ==
  isRunning => /\ status.client = ClientOf(authSession)
               /\ ppc \in {"idle", "notify"} => status.state = StateShown

LEMMA StatusUpdated ==
  ASSUME NEW current \in Records, NEW exec, NEW box, NEW auth
  PROVE  LET new == StatusFromWork(current, FALSE, exec, box, TRUE, auth)
         IN  /\ new.state = IF HasWork(exec, box) THEN "Busy"
                            ELSE IF auth # 0 THEN "Connected" ELSE "Waiting"
             /\ auth # 0 => new.client = current.client
             /\ current.client = NoConn => new.client = NoConn
BY DEF StatusFromWork, Records, WaitingStatus

\* A session's peer stays known.
LEMMA ClientStays ==
  ASSUME TypeInv, SessionInv, UNCHANGED authSession,
         admitted' = admitted \/ \E k \in Conns : admitted' = Append(admitted, k)
  PROVE  ClientOf(authSession)' = ClientOf(authSession)
<1>1. admitted \in Seq(Conns) /\ authSession \in Nat /\ authSession <= Len(admitted)
  BY DEF TypeInv, TypeOK, SessionInv
<1>2. ASSUME NEW k \in Conns, admitted' = Append(admitted, k), authSession # 0
      PROVE  admitted'[authSession] = admitted[authSession]
  BY <1>1, <1>2, AppendProperties
<1> QED BY <1>2 DEF ClientOf

\* A step that leaves the status alone, and what it shows
LEMMA StatusStays ==
  ASSUME TypeInv, SessionInv, StatusInv, UNCHANGED <<status, executing, authSession>>,
         isRunning' => isRunning,
         ppc' \in {"idle", "notify"} => ppc \in {"idle", "notify"} /\ (inbox' = <<>> <=> inbox = <<>>),
         admitted' = admitted \/ \E k \in Conns : admitted' = Append(admitted, k)
  PROVE  StatusInv'
<1>1. ClientOf(authSession)' = ClientOf(authSession)
  BY ClientStays
<1>2. CASE ppc' \in {"idle", "notify"}
  BY <1>1, <1>2 DEF StatusInv, StateShown
<1>3. CASE ppc' \notin {"idle", "notify"}
  BY <1>1, <1>3 DEF StatusInv
<1> QED BY <1>2, <1>3

\* A step that ends by setting the status from the work, with the client it had
LEMMA StatusSet ==
  ASSUME TypeInv, ControlInv, SessionInv, StatusInv, UpdateStatus,
         UNCHANGED <<isRunning, authSession, admitted>>
  PROVE  StatusInv'
<1> SUFFICES ASSUME isRunning PROVE StatusInv'
  BY DEF StatusInv
<1>1. stopping = FALSE /\ isRunning = TRUE /\ status \in Records
  BY DEF ControlInv, TypeInv, TypeOK, Records
<1>2. status' = StatusFromWork(status, FALSE, executing', inbox', TRUE, authSession)
  BY <1>1 DEF UpdateStatus
<1>3. /\ status'.state = IF HasWork(executing', inbox') THEN "Busy"
                         ELSE IF authSession # 0 THEN "Connected" ELSE "Waiting"
      /\ authSession # 0 => status'.client = status.client
      /\ status.client = NoConn => status'.client = NoConn
  BY <1>1, <1>2, StatusUpdated, ZenonT(30)
<1>4. status.client = ClientOf(authSession) /\ ClientOf(authSession)' = ClientOf(authSession)
  BY ClientStays DEF StatusInv
<1>5. status'.client = ClientOf(authSession)'
  BY <1>3, <1>4 DEF ClientOf
<1> QED BY <1>3, <1>5 DEF StatusInv, StateShown, HasWork

LEMMA StatusClosed ==
  ASSUME TypeInv, ControlInv, SessionInv, StatusInv, CloseSession, UNCHANGED <<isRunning, ppc>>
  PROVE  StatusInv'
<1>1. UNCHANGED <<inbox, executing, admitted>>
  BY DEF CloseSession
<1>2. CASE UNCHANGED <<authSession, status>>
  BY <1>1, <1>2, StatusStays
<1>3. CASE /\ authSession' = 0
           /\ status' = StatusFromWork([status EXCEPT !.client = NoConn], stopping, executing, inbox,
                                       isRunning, 0)
  <2> SUFFICES ASSUME isRunning PROVE StatusInv'
    BY DEF StatusInv
  <2> DEFINE cleared == [status EXCEPT !.client = NoConn]
  <2>1. stopping = FALSE /\ isRunning = TRUE /\ cleared \in Records /\ cleared.client = NoConn
    BY DEF ControlInv, TypeInv, TypeOK, Records
  <2>2. status' = StatusFromWork(cleared, FALSE, executing, inbox, TRUE, 0)
    BY <1>3, <2>1
  <2> HIDE DEF cleared
  <2>3. status'.state = (IF HasWork(executing, inbox) THEN "Busy" ELSE "Waiting")
        /\ status'.client = NoConn
    BY <2>1, <2>2, StatusUpdated
  <2> QED BY <1>1, <1>3, <2>3 DEF StatusInv, StateShown, HasWork, ClientOf
<1> QED BY <1>2, <1>3 DEF CloseSession

LEMMA StatusConnected ==
  ASSUME TypeInv, ControlInv, SessionInv, StatusInv, ListenerConnected
  PROVE  StatusInv'
<1>1. UNCHANGED <<inbox, executing, admitted, isRunning, ppc>>
  BY DEF ListenerConnected, flagVars, queueVars, pumpVars
<1>2. CASE UNCHANGED <<authSession, status>>
  BY <1>1, <1>2, StatusStays
<1>3. CASE /\ authSession' = clientSession
           /\ status' = StatusFromWork([status EXCEPT !.client = client], stopping, executing, inbox,
                                       isRunning, clientSession)
  <2> SUFFICES ASSUME isRunning PROVE StatusInv'
    BY <1>1 DEF StatusInv
  <2> DEFINE named == [status EXCEPT !.client = client]
  <2>1. stopping = FALSE /\ isRunning = TRUE /\ named \in Records /\ named.client = client
    BY DEF ControlInv, TypeInv, TypeOK, Records
  <2>2. status' = StatusFromWork(named, FALSE, executing, inbox, TRUE, clientSession)
    BY <1>3, <2>1
  <2> HIDE DEF named
  <2>3. /\ status'.state = IF HasWork(executing, inbox) THEN "Busy"
                           ELSE IF clientSession # 0 THEN "Connected" ELSE "Waiting"
        /\ clientSession # 0 => status'.client = client
        /\ client = NoConn => status'.client = NoConn
    BY <2>1, <2>2, StatusUpdated, ZenonT(30)
  <2>4. IF client = NoConn THEN clientSession = 0
        ELSE clientSession # 0 /\ admitted[clientSession] = client
    BY DEF SessionInv
  <2>5. status'.client = ClientOf(authSession)'
    BY <1>1, <1>3, <2>3, <2>4 DEF ClientOf
  <2> QED BY <1>1, <1>3, <2>3, <2>5 DEF StatusInv, StateShown, HasWork
<1> QED BY <1>2, <1>3 DEF ListenerConnected

LEMMA StatusListener ==
  ASSUME TypeInv, ControlInv, SessionInv, StatusInv, ListenerStep \/ ListenerFail
  PROVE  StatusInv'
<1>1. CASE ListenerAccept \/ ListenerNewcomer
  <2>1. UNCHANGED <<status, executing, authSession, inbox, isRunning, ppc>>
    BY <1>1 DEF ListenerAccept, ListenerNewcomer, Admit, sessionVars, flagVars, queueVars, pumpVars
  <2>2. admitted' = admitted \/ \E k \in Conns : admitted' = Append(admitted, k)
    BY <1>1 DEF ListenerAccept, ListenerNewcomer, Admit, sessionVars, TypeInv, TypeOK
  <2> QED BY <2>1, <2>2, StatusStays
<1>2. CASE ListenerRead \/ ListenerFlush \/ ListenerExit \/ ListenerCheck
  <2>0. UNCHANGED <<isRunning, ppc>>
    BY <1>2 DEF ListenerRead, ListenerFlush, ListenerExit, ListenerCheck, flagVars, pumpVars
  <2>1. CASE CloseSession
    BY <2>0, <2>1, StatusClosed
  <2>2. CASE UNCHANGED <<inbox, executing, authSession, admitted, status>>
    BY <2>0, <2>2, StatusStays
  <2> QED BY <1>2, <2>1, <2>2
          DEF ListenerRead, ListenerFlush, ListenerExit, ListenerCheck, queueVars, sessionVars
<1>3. CASE ListenerCall
  <2>0. UNCHANGED <<isRunning, ppc>>
    BY <1>3 DEF ListenerCall, flagVars, pumpVars
  <2>1. CASE CloseSession
    BY <2>0, <2>1, StatusClosed
  <2>2. CASE UNCHANGED <<inbox, executing, authSession, admitted, status>>
    BY <2>0, <2>2, StatusStays
  <2>3. CASE UpdateStatus /\ UNCHANGED <<authSession, admitted>>
    BY <2>0, <2>3, StatusSet
  <2> QED BY <1>3, <2>1, <2>2, <2>3
          DEF ListenerCall, ReplyDirectly, EnqueueNetworkCall, queueVars, sessionVars
<1>4. CASE ListenerFail
  <2>1. CASE isRunning' = FALSE
    BY <2>1 DEF StatusInv
  <2>2. CASE UNCHANGED <<isRunning, status>>
    BY <1>4, <2>2, StatusStays DEF ListenerFail, queueVars, sessionVars, pumpVars
  <2> QED BY <1>4, <2>1, <2>2 DEF ListenerFail
<1> QED BY <1>1, <1>2, <1>3, <1>4, StatusConnected DEF ListenerStep

LEMMA StatusPump ==
  ASSUME TypeInv, ControlInv, SessionInv, StatusInv, PumpBegin \/ PumpStep
  PROVE  StatusInv'
<1>1. UNCHANGED <<isRunning, authSession, admitted>>
  BY DEF PumpStep, PumpBegin, PumpBreak, PumpTakeActive, TakeActive, PumpLookInbox, PumpResume,
         PumpTakeNext, PumpRun, PumpLeave, PumpNotify, flagVars, sessionVars
<1>2. CASE UpdateStatus
  BY <1>1, <1>2, StatusSet
<1>3. CASE PumpNotify
  BY <1>1, <1>3, StatusStays DEF PumpNotify, queueVars
<1>4. ASSUME ppc' \notin {"idle", "notify"}, UNCHANGED status PROVE StatusInv'
  BY <1>1, <1>4, ClientStays DEF StatusInv
<1> QED BY <1>2, <1>3, <1>4
    DEF PumpStep, PumpBegin, PumpBreak, PumpTakeActive, TakeActive, PumpLookInbox, PumpResume,
        PumpTakeNext, PumpRun, PumpLeave, FinishCall

LEMMA StatusOfStart ==
  ASSUME TypeInv, ControlInv, SessionInv, StatusInv,
         StartListening \/ StartFails \/ StopBegin \/ StopStep
  PROVE  StatusInv'
<1>1. CASE StartListening
  <2>1. UNCHANGED <<inbox, executing>> /\ authSession' = 0
        /\ status' = StatusFromWork(WaitingStatus, FALSE, executing, inbox, TRUE, 0)
    BY <1>1 DEF StartListening, StartBegin, queueVars
  <2>2. WaitingStatus \in Records /\ WaitingStatus.client = NoConn
    BY DEF WaitingStatus, Records
  <2>3. status'.state = (IF HasWork(executing, inbox) THEN "Busy" ELSE "Waiting")
        /\ status'.client = NoConn
    BY <2>1, <2>2, StatusUpdated
  <2> QED BY <2>1, <2>3 DEF StatusInv, StateShown, HasWork, ClientOf
<1>2. CASE StartFails \/ StopBegin \/ StopStep
  <2>1. isRunning' = FALSE \/ (UNCHANGED isRunning /\ (spc = "idle" => isRunning' = FALSE))
    BY <1>2 DEF StartFails, StopBegin, StopStep, StopDrain, StopJoin, StopNotify, flagVars
  <2>2. isRunning' = FALSE
    BY <2>1 DEF ControlInv, TypeInv, TypeOK
  <2> QED BY <2>2 DEF StatusInv
<1> QED BY <1>1, <1>2

LEMMA StatusStep ==
  TypeInv /\ ControlInv /\ SessionInv /\ StatusInv /\ [Next]_vars => StatusInv'
<1> SUFFICES ASSUME TypeInv, ControlInv, SessionInv, StatusInv, [Next]_vars PROVE StatusInv'
  OBVIOUS
<1>1. ASSUME NEW c \in Calls, Submit(c) PROVE StatusInv'
  <2>1. UNCHANGED <<isRunning, authSession, admitted, ppc>>
    BY <1>1 DEF Submit, flagVars, sessionVars, pumpVars
  <2>2. CASE UpdateStatus
    BY <2>1, <2>2, StatusSet
  <2>3. CASE UNCHANGED <<queueVars, status>>
    BY <2>1, <2>3, StatusStays DEF queueVars
  <2> QED BY <1>1, <2>2, <2>3 DEF Submit
<1>2. CASE ToggleDialog \/ UNCHANGED vars
  BY <1>2, StatusStays DEF ToggleDialog, vars, flagVars, sessionVars, pumpVars, queueVars
<1>3. CASE Tick
  <2>1. inbox' = <<>> <=> inbox = <<>>
    <3>1. inbox \in Seq(PendingCall) /\ DOMAIN inbox' = DOMAIN inbox /\ inbox' \in Seq(PendingCall)
      BY <1>3, TickTypes DEF Tick, TypeInv, TypeOK
    <3> QED BY <3>1, EmptySeq, LenProperties
  <2> QED BY <1>3, <2>1, StatusStays DEF Tick, flagVars, sessionVars
<1> QED BY <1>1, <1>2, <1>3, StatusListener, StatusPump, StatusOfStart DEF Next

-----------------------------------------------------------------------------
(* Where replies go *)

\* A call on its way, in the world of the orders o, the admitted peers a and the callers k:
\* a local call carries no session, any other the session of the peer that made it.
Credited(x, o, a, k) ==
  /\ x.call \in Calls /\ o[x.call] # 0
  /\ IF x.session = 0 THEN x.call \in LocalCalls
     ELSE /\ x.call \in NetworkCalls /\ x.session \in 1..Len(a)
          /\ a[x.session] = k[x.call]

Told(x, o, k) == x.call \in Calls /\ o[x.call] # 0 /\ x.to = k[x.call]

CallerInv ==
  /\ \A c \in LocalCalls : caller[c] = NoConn
  /\ \A c \in NetworkCalls : order[c] # 0 => caller[c] \in Conns
  /\ lpc = "handle" => client # NoConn
  /\ line \in Calls => /\ lpc = "handle" /\ line \in NetworkCalls
                       /\ order[line] # 0 /\ caller[line] = client

RoutesInv ==
  /\ \A x \in Items(inbox) : Credited(x, order, admitted, caller)
  /\ active # NoCall => Credited(active, order, admitted, caller)
  /\ held # NoCall => Credited(held, order, admitted, caller)
  /\ \A x \in Items(outbox) : Credited(x, order, admitted, caller) /\ x.session # 0
  /\ \A x \in Items(completions) \cup Items(stopCompletions) :
       x.call \in LocalCalls /\ order[x.call] # 0
  /\ \A x \in Items(answers) : Told(x, order, caller)

\* What is made stays made, by the peer that made it, and sessions stay those of their peers.
HistoryGrows ==
  /\ \A c \in Calls : order[c] # 0 => order'[c] # 0 /\ caller'[c] = caller[c]
  /\ Len(admitted) <= Len(admitted') /\ \A i \in 1..Len(admitted) : admitted'[i] = admitted[i]

LEMMA CreditGrows ==
  ASSUME TypeInv, TypeInv', HistoryGrows
  PROVE  /\ \A x : Credited(x, order, admitted, caller) => Credited(x, order', admitted', caller')
         /\ \A x : Told(x, order, caller) => Told(x, order', caller')
         /\ \A c \in Calls : order[c] # 0 => order'[c] # 0
<1>1. Len(admitted) \in Nat /\ Len(admitted') \in Nat
  <2>1. admitted \in Seq(Conns)
    BY DEF TypeInv, TypeOK
  <2>2. admitted' \in Seq(Conns)
    BY TypeParts DEF TypeInv, TypeOK
  <2> QED BY <2>1, <2>2, LenProperties
<1> QED BY <1>1 DEF HistoryGrows, Credited, Told

LEMMA HistoryStays ==
  ASSUME TypeInv, UNCHANGED <<order, caller>>,
         admitted' = admitted \/ \E k \in Conns : admitted' = Append(admitted, k)
  PROVE  HistoryGrows
<1>1. admitted \in Seq(Conns)
  BY DEF TypeInv, TypeOK
<1>2. ASSUME NEW k \in Conns, admitted' = Append(admitted, k)
      PROVE  /\ Len(admitted) <= Len(admitted')
             /\ \A i \in 1..Len(admitted) : admitted'[i] = admitted[i]
  BY <1>1, <1>2, AppendProperties
<1> QED BY <1>1, <1>2 DEF HistoryGrows

LEMMA HistoryOfArrival ==
  ASSUME TypeInv, NEW c \in Calls \ Made, Arrives(c), UNCHANGED admitted,
         \A d \in Calls \ {c} : caller'[d] = caller[d]
  PROVE  HistoryGrows /\ order'[c] # 0
<1>1. Cardinality(Made) + 1 \in Nat /\ Cardinality(Made) + 1 # 0
  BY FS_CardinalityType DEF TypeInv
<1> DEFINE n == Cardinality(Made) + 1
<1>2. order' = [order EXCEPT ![c] = n]
  BY DEF Arrives
<1>3. order[c] = 0 /\ order \in [Calls -> Nat]
  BY DEF Made, TypeInv, TypeOK
<1> HIDE DEF n
<1>4. order'[c] = n /\ \A d \in Calls \ {c} : order'[d] = order[d]
  BY <1>2, <1>3
<1>5. n # 0
  BY <1>1 DEF n
<1>6. \A i \in 1..Len(admitted) : admitted'[i] = admitted[i]
  OBVIOUS
<1>7. Len(admitted) <= Len(admitted')
  BY DEF TypeInv, TypeOK
<1> QED BY <1>3, <1>4, <1>5, <1>6, <1>7 DEF HistoryGrows

LEMMA CallerKept ==
  ASSUME TypeInv, CallerInv, UNCHANGED <<order, caller>>,
         \/ UNCHANGED <<lpc, client, line>>
         \/ lpc' # "handle" /\ line' \notin Calls
  PROVE  CallerInv'
BY DEF CallerInv

LEMMA CallerStep == TypeInv /\ CallerInv /\ [Next]_vars => CallerInv'
<1> SUFFICES ASSUME TypeInv, CallerInv, [Next]_vars PROVE CallerInv'
  OBVIOUS
<1>0. NoCall \notin Calls /\ Hello \notin Calls
  BY CallsAssumption
<1>1. ASSUME NEW c \in Calls, Submit(c) PROVE CallerInv'
  <2>1. c \in LocalCalls /\ c \in Calls \ Made /\ Arrives(c) /\ UNCHANGED <<caller, admitted>>
        /\ UNCHANGED <<lpc, client, line>>
    BY <1>1 DEF Submit, sessionVars, listenerVars
  <2>2. \A d \in Calls \ {c} : order'[d] = order[d]
    BY <2>1 DEF Arrives, TypeInv, TypeOK
  <2>3. \A d \in NetworkCalls : d \in Calls \ {c}
    BY <2>1 DEF NetworkCalls
  <2> QED BY <2>1, <2>2, <2>3 DEF CallerInv
<1>2. CASE ListenerRead
  <2>1. ASSUME NEW c \in NetworkCalls \ Made, line' = c, Arrives(c), client # NoConn,
               caller' = [caller EXCEPT ![c] = client], UNCHANGED <<client, admitted>>,
               lpc' = "handle"
        PROVE  CallerInv'
    <3>1. c \in Calls \ Made /\ c \notin LocalCalls /\ LocalCalls \subseteq Calls
      BY <2>1, CallsAssumption DEF NetworkCalls
    <3>2. caller'[c] = client /\ \A d \in Calls \ {c} : caller'[d] = caller[d]
      BY <2>1, <3>1 DEF TypeInv, TypeOK
    <3>3. HistoryGrows /\ order'[c] # 0
      BY <2>1, <3>1, <3>2, HistoryOfArrival
    <3>4. \A d \in Calls \ {c} : order'[d] = order[d]
      BY <2>1 DEF Arrives, TypeInv, TypeOK
    <3>5. client \in Conns
      BY <2>1 DEF TypeInv, TypeOK
    <3> QED BY <2>1, <3>1, <3>2, <3>3, <3>4, <3>5 DEF CallerInv, NetworkCalls
  <2>2. CASE /\ lpc' = "newcomer" /\ UNCHANGED <<line, order, caller>>
    <3>1. line \notin Calls
      BY <1>2 DEF ListenerRead, CallerInv
    <3> QED BY <2>2, <3>1, CallerKept
  <2>3. CASE /\ client # NoConn /\ line' = Hello /\ lpc' = "handle"
             /\ UNCHANGED <<client, order, caller>>
    BY <1>0, <2>3 DEF CallerInv
  <2> QED BY <1>2, <2>1, <2>2, <2>3 DEF ListenerRead, sessionVars
<1>3. CASE ListenerAccept \/ ListenerNewcomer \/ ListenerFlush \/ ListenerCheck \/ ListenerExit
           \/ ListenerFail \/ ListenerConnected \/ ListenerCall
  <2>1. UNCHANGED <<order, caller>> /\ lpc' # "handle"
    BY <1>3 DEF ListenerAccept, ListenerNewcomer, ListenerFlush, ListenerCheck, ListenerExit,
                ListenerFail, ListenerConnected, ListenerCall, worldVars
  <2>2. line' = NoCall \/ (line' = line /\ lpc # "handle")
    BY <1>3 DEF ListenerAccept, ListenerNewcomer, ListenerFlush, ListenerCheck, ListenerExit,
                ListenerFail, ListenerConnected, ListenerCall
  <2>3. line' \notin Calls
    BY <1>0, <2>2 DEF CallerInv
  <2> QED BY <2>1, <2>3, CallerKept
<1>4. ASSUME UNCHANGED <<order, caller>>, UNCHANGED listenerVars PROVE CallerInv'
  BY <1>4, CallerKept DEF listenerVars
<1>5. CASE PumpBegin \/ PumpStep \/ ToggleDialog \/ Tick \/ UNCHANGED vars
  BY <1>4, <1>5 DEF PumpBegin, PumpStep, PumpBreak, PumpTakeActive, TakeActive, PumpLookInbox,
     PumpResume, PumpTakeNext, PumpRun, PumpLeave, PumpNotify, ToggleDialog, Tick, vars, worldVars
<1>6. CASE StartListening
  <2>1. lpc = "off" /\ lpc' = "accept" /\ UNCHANGED <<order, caller, line>>
    BY <1>6 DEF StartListening, StartBegin, worldVars
  <2>2. line \notin Calls
    BY <2>1 DEF CallerInv
  <2> QED BY <2>1, <2>2, CallerKept
<1>7. CASE StartFails \/ StopBegin \/ StopStep
  <2>1. UNCHANGED <<order, caller, lpc, client, line>>
    BY <1>7 DEF StartFails, StartBegin, StopBegin, StopStep, StopDrain, StopJoin, StopNotify,
                worldVars, listenerVars
  <2> QED BY <2>1, CallerKept
<1> QED BY <1>1, <1>2, <1>3, <1>5, <1>6, <1>7 DEF Next, ListenerStep

\* The calls that are on their way keep their callers when nothing but the history grows.
LEMMA RoutesKept ==
  ASSUME TypeInv, TypeInv', RoutesInv, HistoryGrows,
         \A y \in Items(inbox') : (\E x \in Items(inbox) : y.call = x.call /\ y.session = x.session)
                                   \/ Credited(y, order', admitted', caller'),
         active' # NoCall => \/ active # NoCall /\ active'.call = active.call
                                                /\ active'.session = active.session
                             \/ held # NoCall /\ active'.call = held.call
                                              /\ active'.session = held.session,
         held' # NoCall => \/ held # NoCall /\ held'.call = held.call /\ held'.session = held.session
                           \/ active # NoCall /\ held'.call = active.call
                                              /\ held'.session = active.session
                           \/ \E x \in Items(inbox) : held'.call = x.call /\ held'.session = x.session,
         \A y \in Items(outbox') : y \in Items(outbox) \/ (Credited(y, order', admitted', caller')
                                                              /\ y.session # 0),
         \A y \in Items(completions') \cup Items(stopCompletions') :
            \/ y \in Items(completions) \cup Items(stopCompletions)
            \/ y.call \in LocalCalls /\ order[y.call] # 0,
         \A y \in Items(answers') : y \in Items(answers) \/ Told(y, order', caller')
  PROVE  RoutesInv'
<1>1. \A x, y : Credited(x, order, admitted, caller) /\ y.call = x.call /\ y.session = x.session
                  => Credited(y, order', admitted', caller')
  <2>1. \A x, y : Credited(x, order, admitted, caller) /\ y.call = x.call /\ y.session = x.session
                  => Credited(y, order, admitted, caller)
    BY DEF Credited
  <2> QED BY <2>1, CreditGrows
<1>2. \A x \in Items(inbox') : Credited(x, order', admitted', caller')
  BY <1>1 DEF RoutesInv
<1>3. active' # NoCall => Credited(active', order', admitted', caller')
  BY <1>1 DEF RoutesInv
<1>4. held' # NoCall => Credited(held', order', admitted', caller')
  BY <1>1 DEF RoutesInv
<1>5. \A x \in Items(outbox') : Credited(x, order', admitted', caller') /\ x.session # 0
  BY CreditGrows DEF RoutesInv
<1>6. \A x \in Items(completions') \cup Items(stopCompletions') :
       x.call \in LocalCalls /\ order'[x.call] # 0
  BY CreditGrows, CallsAssumption DEF RoutesInv
<1>7. \A x \in Items(answers') : Told(x, order', caller')
  BY CreditGrows DEF RoutesInv
<1> QED BY <1>2, <1>3, <1>4, <1>5, <1>6, <1>7 DEF RoutesInv

\* Steps that touch neither the queues nor what hangs on them
LEMMA RoutesStay ==
  ASSUME TypeInv, TypeInv', RoutesInv, HistoryGrows,
         UNCHANGED <<inbox, active, held, outbox, completions, stopCompletions, answers>>
  PROVE  RoutesInv'
BY RoutesKept

LEMMA RoutesSubmit ==
  ASSUME TypeInv, TypeInv', CallerInv, RoutesInv, NEW c \in Calls, Submit(c)
  PROVE  RoutesInv'
<1>1. c \in LocalCalls /\ c \in Calls \ Made /\ Arrives(c) /\ UNCHANGED <<caller, admitted>>
  BY DEF Submit, sessionVars
<1>2. HistoryGrows /\ order'[c] # 0
  BY <1>1, HistoryOfArrival
<1>3. inbox \in Seq(PendingCall) /\ answers \in Seq(Answer)
  BY DEF TypeInv, TypeOK
<1>4. UNCHANGED <<active, held, outbox, completions, stopCompletions>>
  BY DEF Submit, pumpVars, stopVars, queueVars
<1>5. CASE inbox' = Append(inbox, Arrival(c, 0)) /\ UNCHANGED answers
  <2>1. Arrival(c, 0) \in PendingCall /\ Arrival(c, 0).call = c /\ Arrival(c, 0).session = 0
    BY BoundsAssumption DEF Arrival, PendingCall, ParkAges, NotParked
  <2>2. Items(inbox') = Items(inbox) \cup {Arrival(c, 0)}
    BY <1>3, <1>5, <2>1, ItemsOfMore
  <2>3. Credited(Arrival(c, 0), order', admitted', caller')
    BY <1>1, <1>2, <2>1 DEF Credited
  <2> QED BY <1>2, <1>4, <1>5, <2>2, <2>3, RoutesKept
<1>6. ASSUME NEW kind \in ResultKinds, UNCHANGED inbox,
             answers' = Append(answers, [call |-> c, to |-> NoConn, result |-> kind])
      PROVE  RoutesInv'
  <2> DEFINE x == [call |-> c, to |-> NoConn, result |-> kind]
  <2>1. x \in Answer /\ x.call = c /\ x.to = NoConn
    BY DEF Answer
  <2> HIDE DEF x
  <2>2. Items(answers') = Items(answers) \cup {x}
    BY <1>3, <1>6, <2>1, ItemsOfMore DEF x
  <2>3. Told(x, order', caller')
    BY <1>1, <1>2, <2>1 DEF Told, CallerInv
  <2> QED BY <1>2, <1>4, <1>6, <2>2, <2>3, RoutesKept
<1>7. {"Unavailable", "Overloaded"} \subseteq ResultKinds
  BY DEF ResultKinds
<1> QED BY <1>5, <1>6, <1>7 DEF Submit, queueVars

\* A closed session takes replies away and changes nothing else of the routes.
LEMMA RoutesClosed ==
  ASSUME TypeInv, TypeInv', RoutesInv, CloseSession,
         UNCHANGED <<held, completions, stopCompletions, answers, order, caller>>
  PROVE  RoutesInv'
<1>1. Items(outbox') \subseteq Items(outbox)
  <2>1. outbox \in Seq(Response)
    BY DEF TypeInv, TypeOK
  <2> QED BY <2>1, ItemsKept DEF CloseSession
<1>2. UNCHANGED <<inbox, active, admitted>>
  BY DEF CloseSession
<1>3. HistoryGrows
  BY <1>2, HistoryStays
<1> QED BY <1>1, <1>2, <1>3, RoutesKept

LEMMA RoutesReply ==
  ASSUME TypeInv, TypeInv', CallerInv, RoutesInv, lpc = "handle", line \in Calls,
         NEW kind \in ResultKinds, ReplyDirectly(kind),
         UNCHANGED <<held, completions, stopCompletions, order, caller>>
  PROVE  RoutesInv'
<1>1. CASE CloseSession /\ UNCHANGED answers
  BY <1>1, RoutesClosed
<1>2. CASE /\ answers' = Append(answers, [call |-> line, to |-> client, result |-> kind])
           /\ UNCHANGED <<queueVars, sessionVars>>
  <2> DEFINE x == [call |-> line, to |-> client, result |-> kind]
  <2>1. x \in Answer /\ x.call = line /\ x.to = client /\ answers \in Seq(Answer)
    BY DEF Answer, TypeInv, TypeOK
  <2> HIDE DEF x
  <2>2. Items(answers') = Items(answers) \cup {x}
    BY <1>2, <2>1, ItemsOfMore DEF x
  <2>3. Told(x, order', caller')
    BY <2>1 DEF Told, CallerInv
  <2>4. HistoryGrows
    BY <1>2, HistoryStays DEF sessionVars
  <2> QED BY <1>2, <2>2, <2>3, <2>4, RoutesKept DEF queueVars
<1> QED BY <1>1, <1>2 DEF ReplyDirectly

LEMMA RoutesCall ==
  ASSUME TypeInv, TypeInv', SessionInv, CallerInv, RoutesInv, ListenerCall
  PROVE  RoutesInv'
<1>1. /\ lpc = "handle" /\ line \in Calls
      /\ UNCHANGED <<held, completions, stopCompletions, order, caller>>
  BY DEF ListenerCall, pumpVars, stopVars
<1>2. ASSUME NEW kind \in {"Invalid", "Overloaded"}, ReplyDirectly(kind) PROVE RoutesInv'
  BY <1>1, <1>2, RoutesReply DEF ResultKinds
<1>3. CASE EnqueueNetworkCall(line) /\ UNCHANGED <<admitted, answers>>
  <2> DEFINE x == Arrival(line, clientSession)
             y == ResponseFor(Arrival(line, clientSession), "Unavailable")
  <2>1. /\ clientSession \in 1..Len(admitted) /\ admitted[clientSession] = client
        /\ line \in NetworkCalls /\ order[line] # 0 /\ caller[line] = client
    BY <1>1 DEF SessionInv, CallerInv
  <2>2. /\ x \in PendingCall /\ x.call = line /\ x.session = clientSession
        /\ y \in Response /\ y.call = line /\ y.session = clientSession
    BY <1>1, <2>1, BoundsAssumption
    DEF Arrival, ResponseFor, PendingCall, Response, ParkAges, NotParked, ResultKinds, TypeInv, TypeOK
  <2> HIDE DEF x, y
  <2>3. /\ Credited(x, order', admitted', caller')
        /\ Credited(y, order', admitted', caller') /\ y.session # 0
    BY <1>1, <1>3, <2>1, <2>2 DEF Credited
  <2>4. HistoryGrows
    BY <1>1, <1>3, HistoryStays
  <2>5. CASE outbox' = Append(outbox, y) /\ UNCHANGED <<inbox, active>>
    <3>1. outbox \in Seq(Response)
      BY DEF TypeInv, TypeOK
    <3>2. Items(outbox') = Items(outbox) \cup {y}
      BY <2>2, <2>5, <3>1, ItemsOfMore
    <3> QED BY <1>1, <1>3, <2>3, <2>4, <2>5, <3>2, RoutesKept
  <2>6. CASE inbox' = Append(inbox, x) /\ UNCHANGED <<active, outbox>>
    <3>1. inbox \in Seq(PendingCall)
      BY DEF TypeInv, TypeOK
    <3>2. Items(inbox') = Items(inbox) \cup {x}
      BY <2>2, <2>6, <3>1, ItemsOfMore
    <3> QED BY <1>1, <1>3, <2>3, <2>4, <2>6, <3>2, RoutesKept
  <2> QED BY <1>3, <2>5, <2>6 DEF EnqueueNetworkCall, x, y
<1> QED BY <1>2, <1>3 DEF ListenerCall

LEMMA RoutesFlush ==
  ASSUME TypeInv, TypeInv', SessionInv, CallerInv, RoutesInv, ListenerFlush
  PROVE  RoutesInv'
<1>1. UNCHANGED <<held, completions, stopCompletions, order, caller>>
  BY FlushCases DEF pumpVars, stopVars
<1>2. CASE Closed
  BY <1>1, <1>2, RoutesClosed DEF Closed
<1>3. CASE Flushed \/ Dropped \/ Written
  <2>1. UNCHANGED <<inbox, active, admitted>>
    BY <1>3 DEF Flushed, Dropped, Written, FlushKeeps, sessionVars
  <2>2. HistoryGrows
    BY <1>1, <2>1, HistoryStays
  <2>3. outbox \in Seq(Response) /\ answers \in Seq(Answer)
    BY DEF TypeInv, TypeOK
  <2>4. outbox # <<>> => Items(Tail(outbox)) \subseteq Items(outbox) /\ Head(outbox) \in Items(outbox)
                           /\ Head(outbox) \in Response
    BY <2>3, ItemsOfRest
  <2>5. Items(outbox') \subseteq Items(outbox)
    BY <1>3, <2>4 DEF Flushed, Dropped, Written
  <2>6. CASE UNCHANGED answers
    BY <1>1, <2>1, <2>2, <2>5, <2>6, RoutesKept
  <2>7. CASE Written
    <3> DEFINE x == [call |-> Head(outbox).call, to |-> client, result |-> Head(outbox).result]
    <3>1. x \in Answer /\ x.call = Head(outbox).call /\ x.to = client
      BY <2>4, <2>7 DEF Written, Answer, Response, TypeInv, TypeOK
    <3>2. answers' = Append(answers, x)
      BY <2>7 DEF Written
    <3> HIDE DEF x
    <3>3. Items(answers') = Items(answers) \cup {x}
      BY <2>3, <3>1, <3>2, ItemsOfMore
    <3>4. Credited(Head(outbox), order, admitted, caller) /\ Head(outbox).session # 0
      BY <2>4, <2>7 DEF Written, RoutesInv
    <3>5. Head(outbox).session = clientSession /\ client # NoConn
      BY <2>7 DEF Written
    <3>6. admitted[clientSession] = client
      BY <3>5 DEF SessionInv
    <3>7. Told(x, order', caller')
      BY <1>1, <3>1, <3>4, <3>5, <3>6 DEF Told, Credited
    <3> QED BY <1>1, <2>1, <2>2, <2>5, <3>3, <3>7, RoutesKept
  <2> QED BY <1>3, <2>6, <2>7 DEF Flushed, Dropped
<1> QED BY <1>2, <1>3, FlushCases

LEMMA RoutesListener ==
  ASSUME TypeInv, TypeInv', SessionInv, CallerInv, RoutesInv, ListenerStep \/ ListenerFail
  PROVE  RoutesInv'
<1>1. CASE ListenerAccept \/ ListenerNewcomer \/ ListenerConnected \/ ListenerCheck \/ ListenerFail
  <2>1. UNCHANGED <<inbox, active, held, outbox, completions, stopCompletions, answers, order, caller>>
    BY <1>1 DEF ListenerAccept, ListenerNewcomer, ListenerConnected, ListenerCheck, ListenerFail,
                queueVars, pumpVars, stopVars, worldVars
  <2>2. admitted' = admitted \/ \E k \in Conns : admitted' = Append(admitted, k)
    BY <1>1 DEF ListenerAccept, ListenerNewcomer, ListenerConnected, ListenerCheck, ListenerFail,
                Admit, sessionVars, TypeInv, TypeOK
  <2> QED BY <2>1, <2>2, HistoryStays, RoutesStay
<1>2. CASE ListenerRead
  <2>1. UNCHANGED <<held, completions, stopCompletions, answers>>
    BY <1>2 DEF ListenerRead, pumpVars, stopVars
  <2>2. CASE CloseSession /\ UNCHANGED <<order, caller>>
    BY <2>1, <2>2, RoutesClosed
  <2>3. CASE UNCHANGED <<queueVars, sessionVars, order, caller>>
    <3>1. HistoryGrows
      BY <2>3, HistoryStays DEF sessionVars
    <3> QED BY <2>1, <2>3, <3>1, RoutesStay DEF queueVars
  <2>4. ASSUME NEW c \in NetworkCalls \ Made, Arrives(c), caller' = [caller EXCEPT ![c] = client],
               UNCHANGED <<queueVars, sessionVars>>
        PROVE  RoutesInv'
    <3>1. c \in Calls \ Made /\ \A d \in Calls \ {c} : caller'[d] = caller[d]
      BY <2>4 DEF NetworkCalls, TypeInv, TypeOK
    <3>2. HistoryGrows
      BY <2>4, <3>1, HistoryOfArrival DEF sessionVars
    <3> QED BY <2>1, <2>4, <3>2, RoutesStay DEF queueVars
  <2> QED BY <1>2, <2>2, <2>3, <2>4 DEF ListenerRead
<1>3. CASE ListenerExit
  <2>1. UNCHANGED <<held, completions, stopCompletions, answers, order, caller>>
    BY <1>3 DEF ListenerExit, pumpVars, stopVars, worldVars
  <2>2. CASE CloseSession
    BY <2>1, <2>2, RoutesClosed
  <2>3. CASE UNCHANGED <<queueVars, sessionVars>>
    <3>1. HistoryGrows
      BY <2>1, <2>3, HistoryStays DEF sessionVars
    <3> QED BY <2>1, <2>3, <3>1, RoutesStay DEF queueVars
  <2> QED BY <1>3, <2>2, <2>3 DEF ListenerExit
<1> QED BY <1>1, <1>2, <1>3, RoutesCall, RoutesFlush DEF ListenerStep

\* The clock does not change whose call it is.
LEMMA SameCalls ==
  /\ \A p \in PendingCall : /\ Clocked(p).call = p.call /\ Clocked(p).session = p.session
                            /\ Unclocked(p).call = p.call /\ Unclocked(p).session = p.session
                            /\ OlderCall(p).call = p.call /\ OlderCall(p).session = p.session
  /\ \A s \in Seq(PendingCall) :
       /\ \A y \in Items(ClockAll(s)) \cup Items(UnclockAll(s)) :
            \E x \in Items(s) : y.call = x.call /\ y.session = x.session
       /\ \A y \in Items([i \in DOMAIN s |-> OlderCall(s[i])]) :
            \E x \in Items(s) : y.call = x.call /\ y.session = x.session
<1>1. \A p \in PendingCall : /\ Clocked(p).call = p.call /\ Clocked(p).session = p.session
                             /\ Unclocked(p).call = p.call /\ Unclocked(p).session = p.session
                             /\ OlderCall(p).call = p.call /\ OlderCall(p).session = p.session
  BY DEF Clocked, Unclocked, OlderCall, PendingCall
<1>2. ASSUME NEW s \in Seq(PendingCall)
      PROVE  /\ \A y \in Items(ClockAll(s)) \cup Items(UnclockAll(s)) :
                  \E x \in Items(s) : y.call = x.call /\ y.session = x.session
             /\ \A y \in Items([i \in DOMAIN s |-> OlderCall(s[i])]) :
                  \E x \in Items(s) : y.call = x.call /\ y.session = x.session
  <2>1. \A i \in DOMAIN s : s[i] \in PendingCall /\ s[i] \in Items(s)
    BY DEF Items
  <2>2. /\ DOMAIN ClockAll(s) = DOMAIN s /\ \A i \in DOMAIN s : ClockAll(s)[i] = Clocked(s[i])
        /\ DOMAIN UnclockAll(s) = DOMAIN s /\ \A i \in DOMAIN s : UnclockAll(s)[i] = Unclocked(s[i])
    BY DEF ClockAll, UnclockAll
  <2> DEFINE t == [i \in DOMAIN s |-> OlderCall(s[i])]
  <2>3. DOMAIN t = DOMAIN s /\ \A i \in DOMAIN s : t[i] = OlderCall(s[i])
    OBVIOUS
  <2> HIDE DEF t
  <2>4. \A y \in Items(ClockAll(s)) : \E i \in DOMAIN s : y = Clocked(s[i])
    BY <2>2 DEF Items
  <2>5. \A y \in Items(UnclockAll(s)) : \E i \in DOMAIN s : y = Unclocked(s[i])
    BY <2>2 DEF Items
  <2>6. \A y \in Items(t) : \E i \in DOMAIN s : y = OlderCall(s[i])
    BY <2>3 DEF Items
  <2>7. /\ \A y \in Items(ClockAll(s)) \cup Items(UnclockAll(s)) :
             \E x \in Items(s) : y.call = x.call /\ y.session = x.session
        /\ \A y \in Items(t) : \E x \in Items(s) : y.call = x.call /\ y.session = x.session
    BY <1>1, <2>1, <2>4, <2>5, <2>6
  <2> QED BY <2>7 DEF t
<1> QED BY <1>1, <1>2

\* Where a finished call goes: what is new in the outbox or in the completions is its result.
LEMMA FinishGoes ==
  ASSUME TypeInv, NEW p \in PendingCall, NEW kind \in ResultKinds, FinishCall(p, kind)
  PROVE  /\ Items(outbox') \subseteq Items(outbox) \cup (IF HasRequest(p) THEN {ResponseFor(p, kind)} ELSE {})
         /\ Items(completions')
              \subseteq Items(completions) \cup (IF HasRequest(p) THEN {} ELSE {CompletionFor(p, kind)})
         /\ ResponseFor(p, kind).call = p.call /\ ResponseFor(p, kind).session = p.session
         /\ CompletionFor(p, kind).call = p.call /\ held' = NoCall
<1>1. /\ ResponseFor(p, kind) \in Response /\ CompletionFor(p, kind) \in Completion
      /\ ResponseFor(p, kind).call = p.call /\ ResponseFor(p, kind).session = p.session
      /\ CompletionFor(p, kind).call = p.call
  BY DEF ResponseFor, CompletionFor, Response, Completion, PendingCall
<1>2. outbox \in Seq(Response) /\ completions \in Seq(Completion)
  BY DEF TypeInv, TypeOK
<1>3. /\ Items(Append(outbox, ResponseFor(p, kind))) = Items(outbox) \cup {ResponseFor(p, kind)}
      /\ Items(Append(completions, CompletionFor(p, kind)))
           = Items(completions) \cup {CompletionFor(p, kind)}
  BY <1>1, <1>2, ItemsOfMore
<1> QED BY <1>1, <1>3 DEF FinishCall, QueueResult, Complete

\* A call that the pump finishes goes back the way it came.
LEMMA RoutesFinish ==
  ASSUME TypeInv, TypeInv', RoutesInv, NEW p \in PendingCall, NEW kind \in ResultKinds,
         FinishCall(p, kind), Credited(p, order, admitted, caller),
         UNCHANGED <<active, stopCompletions, answers, order, caller, admitted>>,
         \A y \in Items(inbox') : \E x \in Items(inbox) : y.call = x.call /\ y.session = x.session
  PROVE  RoutesInv'
<1>1. HistoryGrows
  BY HistoryStays
<1>2. \A y \in Items(outbox') : y \in Items(outbox) \/ (Credited(y, order', admitted', caller')
                                                            /\ y.session # 0)
  <2>1. ASSUME HasRequest(p)
        PROVE  Credited(ResponseFor(p, kind), order', admitted', caller')
               /\ ResponseFor(p, kind).session # 0
    BY <2>1, FinishGoes DEF Credited, HasRequest
  <2> QED BY <2>1, FinishGoes
<1>3. \A y \in Items(completions') \cup Items(stopCompletions') :
            \/ y \in Items(completions) \cup Items(stopCompletions)
            \/ y.call \in LocalCalls /\ order[y.call] # 0
  <2>1. ASSUME ~HasRequest(p)
        PROVE  CompletionFor(p, kind).call \in LocalCalls /\ order[CompletionFor(p, kind).call] # 0
    BY <2>1, FinishGoes DEF Credited, HasRequest
  <2> QED BY <2>1, FinishGoes
<1>4. held' = NoCall
  BY FinishGoes
<1> QED BY <1>1, <1>2, <1>3, <1>4, RoutesKept

LEMMA LookKeepsCalls ==
  ASSUME TypeInv, inbox' \in {inbox, ClockAll(inbox), UnclockAll(inbox)}
  PROVE  \A y \in Items(inbox') : \E x \in Items(inbox) : y.call = x.call /\ y.session = x.session
BY SameCalls DEF TypeInv, TypeOK

LEMMA TakeKeepsCalls ==
  ASSUME TypeInv, inbox # <<>>, NEW box \in {inbox, ClockAll(inbox), UnclockAll(inbox)},
         inbox' = Tail(box)
  PROVE  \A y \in Items(inbox') : \E x \in Items(inbox) : y.call = x.call /\ y.session = x.session
<1>1. inbox \in Seq(PendingCall)
  BY DEF TypeInv, TypeOK
<1>2. box \in Seq(PendingCall) /\ box # <<>>
  <2>1. box \in Seq(PendingCall) /\ Len(box) = Len(inbox)
    BY LookTypes, <1>1
  <2> QED BY <1>1, <2>1
<1>3. Items(inbox') \subseteq Items(box)
  BY <1>2, ItemsOfRest
<1>4. \A y \in Items(box) : \E x \in Items(inbox) : y.call = x.call /\ y.session = x.session
  BY <1>1, SameCalls
<1> QED BY <1>3, <1>4

LEMMA RoutesResume ==
  ASSUME TypeInv, TypeInv', ControlInv, RoutesInv, PumpResume
  PROVE  RoutesInv'
<1>1. /\ UNCHANGED <<stopCompletions, answers, order, caller, admitted>>
      /\ held \in PendingCall /\ held # NoCall /\ active = NoCall
      /\ Credited(held, order, admitted, caller)
  BY DEF PumpResume, ControlInv, RoutesInv, TypeInv, TypeOK, stopVars, sessionVars
<1>2. HistoryGrows
  BY <1>1, HistoryStays
<1>3. inbox' \in {inbox, ClockAll(inbox), UnclockAll(inbox)}
  BY DEF PumpResume
<1>4. \A y \in Items(inbox') : \E x \in Items(inbox) : y.call = x.call /\ y.session = x.session
  BY <1>3, LookKeepsCalls
<1>5. ASSUME NEW kind \in {"Internal", "Busy"}, FinishCall(held, kind), UNCHANGED active
      PROVE  RoutesInv'
  BY <1>1, <1>4, <1>5, RoutesFinish DEF ResultKinds
<1>6. CASE /\ UNCHANGED <<outbox, completions>>
           /\ active' \in {held, Clocked(held), active} /\ held' \in {NoCall, Unclocked(held)}
  <2>1. /\ Clocked(held).call = held.call /\ Clocked(held).session = held.session
        /\ Unclocked(held).call = held.call /\ Unclocked(held).session = held.session
    BY <1>1, SameCalls
  <2> QED BY <1>1, <1>2, <1>4, <1>6, <2>1, RoutesKept
<1> QED BY <1>5, <1>6 DEF PumpResume

LEMMA RoutesTakeNext ==
  ASSUME TypeInv, TypeInv', ControlInv, RoutesInv, PumpTakeNext
  PROVE  RoutesInv'
<1>1. /\ UNCHANGED <<active, stopCompletions, answers, order, caller, admitted>>
      /\ inbox \in Seq(PendingCall) /\ inbox # <<>> /\ held = NoCall
  BY DEF PumpTakeNext, ControlInv, TypeInv, TypeOK, stopVars, sessionVars, queueVars
<1>2. Head(inbox) \in Items(inbox) /\ Head(inbox) \in PendingCall
  BY <1>1, ItemsOfRest
<1>3. Credited(Head(inbox), order, admitted, caller)
  BY <1>2 DEF RoutesInv
<1>4. HistoryGrows
  BY <1>1, HistoryStays
<1>5. \/ inbox' \in {inbox, ClockAll(inbox)}
      \/ \E box \in {inbox, ClockAll(inbox), UnclockAll(inbox)} : inbox' = Tail(box)
  BY DEF PumpTakeNext, TakeHead, queueVars
<1>6. \A y \in Items(inbox') : \E x \in Items(inbox) : y.call = x.call /\ y.session = x.session
  BY <1>1, <1>5, LookKeepsCalls, TakeKeepsCalls
<1>7. ASSUME NEW kind \in {"Internal", "Busy"}, FinishCall(Head(inbox), kind)
      PROVE  RoutesInv'
  BY <1>1, <1>2, <1>3, <1>6, <1>7, RoutesFinish DEF ResultKinds
<1>8. CASE UNCHANGED <<outbox, completions>> /\ held' \in {held, Unclocked(Head(inbox))}
  <2>1. /\ Unclocked(Head(inbox)).call = Head(inbox).call
        /\ Unclocked(Head(inbox)).session = Head(inbox).session
    BY <1>2, SameCalls
  <2> QED BY <1>1, <1>2, <1>4, <1>6, <1>8, <2>1, RoutesKept
<1> QED BY <1>7, <1>8 DEF PumpTakeNext, queueVars

LEMMA RoutesRun ==
  ASSUME TypeInv, TypeInv', ControlInv, RoutesInv, PumpRun
  PROVE  RoutesInv'
<1>1. /\ UNCHANGED <<inbox, stopCompletions, answers, order, caller, admitted>>
      /\ held \in PendingCall /\ held # NoCall /\ active = NoCall
      /\ Credited(held, order, admitted, caller)
  BY DEF PumpRun, ControlInv, RoutesInv, TypeInv, TypeOK, stopVars, sessionVars, worldVars
<1>2. HistoryGrows
  BY <1>1, HistoryStays
<1>3. ASSUME NEW kind \in {"Done", "Internal"}, FinishCall(held, kind), UNCHANGED active
      PROVE  RoutesInv'
  BY <1>1, <1>3, RoutesFinish DEF ResultKinds
<1>4. CASE UNCHANGED <<outbox, completions>> /\ active' = held /\ held' = NoCall
  BY <1>1, <1>2, <1>4, RoutesKept
<1> QED BY <1>3, <1>4 DEF PumpRun

\* The completions of a pump, or of stop(), are told to the callers of submit().
LEMMA RoutesTold ==
  ASSUME TypeInv, TypeInv', CallerInv, RoutesInv,
         NEW dones \in Seq(Completion),
         \A x \in Items(dones) : x.call \in LocalCalls /\ order[x.call] # 0,
         answers' = answers \o AnswersOf(dones),
         Items(completions') \cup Items(stopCompletions')
           \subseteq Items(completions) \cup Items(stopCompletions),
         UNCHANGED <<inbox, active, held, outbox, order, caller, admitted>>
  PROVE  RoutesInv'
<1>1. AnswersOf(dones) \in Seq(Answer) /\ answers \in Seq(Answer)
  <2>1. <<>> \in Seq(PendingCall) /\ "Done" \in ResultKinds
    BY DEF ResultKinds
  <2> QED BY <2>1, AllAnswered DEF TypeInv, TypeOK
<1>2. Items(answers') = Items(answers) \cup Items(AnswersOf(dones))
  BY <1>1, ItemsOfBoth
<1>3. ASSUME NEW i \in DOMAIN dones
      PROVE  Told(AnswersOf(dones)[i], order', caller')
  <2>1. dones[i] \in Items(dones) /\ dones[i] \in Completion
    BY <1>3 DEF Items
  <2>2. AnswersOf(dones)[i].call = dones[i].call /\ AnswersOf(dones)[i].to = NoConn
    BY DEF AnswersOf
  <2> QED BY <2>1, <2>2, CallsAssumption DEF Told, CallerInv
<1>4. \A y \in Items(AnswersOf(dones)) : Told(y, order', caller')
  <2>1. DOMAIN AnswersOf(dones) = DOMAIN dones
    BY DEF AnswersOf
  <2> QED BY <1>3, <2>1 DEF Items
<1>5. HistoryGrows
  BY HistoryStays
<1> QED BY <1>2, <1>4, <1>5, RoutesKept

LEMMA RoutesNotify ==
  ASSUME TypeInv, TypeInv', CallerInv, RoutesInv, PumpNotify \/ StopNotify
  PROVE  RoutesInv'
<1>1. completions \in Seq(Completion) /\ stopCompletions \in Seq(Completion)
  BY DEF TypeInv, TypeOK
<1>2. UNCHANGED <<inbox, active, held, outbox, order, caller, admitted>>
  BY DEF PumpNotify, StopNotify, queueVars, sessionVars, pumpVars
<1>3. Items(completions') \cup Items(stopCompletions')
        \subseteq Items(completions) \cup Items(stopCompletions)
  BY ItemsOfNone DEF PumpNotify, StopNotify, stopVars, pumpVars
<1>4. CASE PumpNotify
  BY <1>1, <1>2, <1>3, <1>4, RoutesTold DEF PumpNotify, RoutesInv
<1>5. CASE StopNotify
  BY <1>1, <1>2, <1>3, <1>5, RoutesTold DEF StopNotify, RoutesInv
<1> QED BY <1>4, <1>5

\* stop() answers every call it drains by the way it came.
LEMMA DrainedCalls ==
  ASSUME TypeInv, NEW S
  PROVE  /\ Keeping(Unfinished, S) \in Seq(PendingCall)
         /\ \A x \in Items(Keeping(Unfinished, S)) :
              x \in S /\ (x \in Items(inbox) \/ (x = active /\ active # NoCall))
<1>1. Keeping(Unfinished, S) \in Seq(PendingCall)
      /\ Items(Keeping(Unfinished, S)) \subseteq Items(Unfinished) \cap S
  BY DrainedTypes, ItemsKept
<1>2. inbox \in Seq(PendingCall) /\ active \in PendingCall \cup {NoCall}
  BY DEF TypeInv, TypeOK
<1>3. ASSUME active # NoCall PROVE Items(<<active>> \o inbox) = {active} \cup Items(inbox)
  <2> DEFINE first == <<active>>
  <2>1. first \in Seq(PendingCall) /\ Items(first) = {active}
    BY <1>2, <1>3 DEF Items
  <2> HIDE DEF first
  <2>2. Items(first \o inbox) = {active} \cup Items(inbox)
    BY <1>2, <2>1, ItemsOfBoth
  <2> QED BY <2>2 DEF first
<1>4. \A x \in Items(Unfinished) : x \in Items(inbox) \/ (x = active /\ active # NoCall)
  BY <1>3 DEF Unfinished
<1> QED BY <1>1, <1>4

LEMMA RoutesDrain ==
  ASSUME TypeInv, TypeInv', RoutesInv, StopDrain
  PROVE  RoutesInv'
<1> DEFINE remote == Keeping(Unfinished, {p \in PendingCall : HasRequest(p)})
           local  == Keeping(Unfinished, {p \in PendingCall : ~HasRequest(p)})
           replies == ResponsesFor(remote, "Unavailable")
           dones   == CompletionsFor(local, "Unavailable")
<1>1. /\ remote \in Seq(PendingCall) /\ local \in Seq(PendingCall)
      /\ \A x \in Items(remote) : HasRequest(x) /\ Credited(x, order, admitted, caller)
      /\ \A x \in Items(local) : ~HasRequest(x) /\ Credited(x, order, admitted, caller)
  BY DrainedCalls DEF RoutesInv
<1>2. /\ outbox' = outbox \o replies /\ stopCompletions' = dones
      /\ inbox' = <<>> /\ active' = NoCall
      /\ UNCHANGED <<held, completions, answers, order, caller, admitted>>
  BY DEF StopDrain, pumpVars, worldVars, sessionVars
<1> HIDE DEF remote, local
<1>3. outbox \in Seq(Response) /\ replies \in Seq(Response)
  <2>1. <<>> \in Seq(Completion) /\ "Unavailable" \in ResultKinds
    BY DEF ResultKinds
  <2> QED BY <1>1, <2>1, AllAnswered DEF TypeInv, TypeOK
<1>4. \A i \in DOMAIN remote : /\ Credited(replies[i], order, admitted, caller)
                               /\ replies[i].session # 0
  <2> TAKE i \in DOMAIN remote
  <2>1. remote[i] \in Items(remote)
    BY DEF Items
  <2>2. replies[i].call = remote[i].call /\ replies[i].session = remote[i].session
    BY DEF ResponsesFor, ResponseFor
  <2> QED BY <1>1, <2>1, <2>2 DEF Credited, HasRequest
<1>5. \A i \in DOMAIN local : dones[i].call \in LocalCalls /\ order[dones[i].call] # 0
  <2> TAKE i \in DOMAIN local
  <2>1. local[i] \in Items(local)
    BY DEF Items
  <2>2. dones[i].call = local[i].call
    BY DEF CompletionsFor, CompletionFor
  <2> QED BY <1>1, <2>1, <2>2 DEF Credited, HasRequest
<1>6. DOMAIN replies = DOMAIN remote /\ DOMAIN dones = DOMAIN local
  BY DEF ResponsesFor, CompletionsFor
<1> HIDE DEF replies, dones
<1>7. \A y \in Items(replies) : Credited(y, order, admitted, caller) /\ y.session # 0
  BY <1>4, <1>6 DEF Items
<1>8. \A y \in Items(dones) : y.call \in LocalCalls /\ order[y.call] # 0
  BY <1>5, <1>6 DEF Items
<1>9. Items(outbox') = Items(outbox) \cup Items(replies)
  BY <1>2, <1>3, ItemsOfBoth
<1>10. Items(inbox') = {}
  BY <1>2, ItemsOfNone
<1>11. HistoryGrows
  BY <1>2, HistoryStays
<1>12. \A y \in Items(outbox') : y \in Items(outbox) \/ (Credited(y, order', admitted', caller')
                                                            /\ y.session # 0)
  BY <1>2, <1>7, <1>9
<1>13. \A y \in Items(completions') \cup Items(stopCompletions') :
            \/ y \in Items(completions) \cup Items(stopCompletions)
            \/ y.call \in LocalCalls /\ order[y.call] # 0
  BY <1>2, <1>8
<1> QED BY <1>2, <1>10, <1>11, <1>12, <1>13, RoutesKept

LEMMA RoutesTick ==
  ASSUME TypeInv, TypeInv', RoutesInv, Tick
  PROVE  RoutesInv'
<1>1. UNCHANGED <<outbox, completions, stopCompletions, answers, order, caller, admitted>>
  BY DEF Tick, sessionVars, stopVars
<1>2. HistoryGrows
  BY <1>1, HistoryStays
<1>3. \A y \in Items(inbox') : \E x \in Items(inbox) : y.call = x.call /\ y.session = x.session
  BY SameCalls DEF Tick, TypeInv, TypeOK
<1>4. \A p \in PendingCall \cup {NoCall} :
         OlderCall(p) # NoCall =>
           p # NoCall /\ OlderCall(p).call = p.call /\ OlderCall(p).session = p.session
  BY SameCalls DEF OlderCall
<1>5. active' = OlderCall(active) /\ held' = OlderCall(held)
      /\ {active, held} \subseteq PendingCall \cup {NoCall}
  BY DEF Tick, TypeInv, TypeOK
<1> QED BY <1>1, <1>2, <1>3, <1>4, <1>5, RoutesKept

LEMMA RoutesPump ==
  ASSUME TypeInv, TypeInv', ControlInv, CallerInv, RoutesInv, PumpBegin \/ PumpStep
  PROVE  RoutesInv'
<1>1. CASE PumpBegin \/ PumpBreak \/ PumpTakeActive \/ PumpLookInbox \/ PumpLeave
  <2>1. UNCHANGED <<inbox, outbox, completions, stopCompletions, answers, order, caller, admitted>>
    BY <1>1 DEF PumpBegin, PumpBreak, PumpTakeActive, TakeActive, PumpLookInbox, PumpLeave,
                queueVars, stopVars, sessionVars, worldVars
  <2>2. UNCHANGED <<active, held>> \/ (held' = active /\ active' = NoCall)
    BY <1>1 DEF PumpBegin, PumpBreak, PumpTakeActive, TakeActive, PumpLookInbox, PumpLeave,
                queueVars
  <2>3. HistoryGrows
    BY <2>1, HistoryStays
  <2> QED BY <2>1, <2>2, <2>3, RoutesKept
<1> QED BY <1>1, RoutesResume, RoutesTakeNext, RoutesRun, RoutesNotify DEF PumpStep

LEMMA RoutesStep ==
  TypeInv /\ TypeInv' /\ ControlInv /\ SessionInv /\ CallerInv /\ RoutesInv /\ [Next]_vars
    => RoutesInv'
<1> SUFFICES ASSUME TypeInv, TypeInv', ControlInv, SessionInv, CallerInv, RoutesInv, [Next]_vars
             PROVE  RoutesInv'
  OBVIOUS
<1>1. CASE StartListening \/ StartFails \/ StopBegin \/ StopJoin \/ ToggleDialog \/ UNCHANGED vars
  <2>1. UNCHANGED <<inbox, active, held, outbox, completions, stopCompletions, answers, order, caller,
                    admitted>>
    BY <1>1 DEF StartListening, StartFails, StartBegin, StopBegin, StopJoin, ToggleDialog, vars,
                queueVars, pumpVars, stopVars, worldVars, sessionVars
  <2>2. HistoryGrows
    BY <2>1, HistoryStays
  <2> QED BY <2>1, <2>2, RoutesStay
<1> QED BY <1>1, RoutesSubmit, RoutesListener, RoutesPump, RoutesDrain, RoutesNotify, RoutesTick
    DEF Next, StopStep

-----------------------------------------------------------------------------
(* The theorems *)

ServerInv == TypeInv /\ ControlInv /\ SessionInv /\ StatusInv /\ CallerInv /\ RoutesInv

LEMMA ServerInit == Init => ServerInv
<1> SUFFICES ASSUME Init PROVE ServerInv
  OBVIOUS
<1>1. TypeInv /\ ControlInv
  BY TypesInit, ControlInit
<1>2. SessionInv
  BY DEF Init, SessionInv
<1>3. StatusInv
  BY DEF Init, StatusInv
<1>4. CallerInv
  BY CallsAssumption DEF Init, CallerInv, NetworkCalls
<1>5. RoutesInv
  BY ItemsOfNone DEF Init, RoutesInv
<1> QED BY <1>1, <1>2, <1>3, <1>4, <1>5 DEF ServerInv

LEMMA ServerStep == ServerInv /\ [Next]_vars => ServerInv'
BY TypesStep, ControlStep, SessionStep, StatusStep, CallerStep, RoutesStep DEF ServerInv

\* The invariant of the server, for any calls, connections, limits and faults: its layers say
\* what listener, pump and stop() may rely on when they meet at the queue.
THEOREM ServerInvariant == Spec => []ServerInv
<1>1. ServerInv /\ [Next]_vars => ServerInv'
  BY ServerStep
<1> QED BY ServerInit, <1>1, PTL DEF Spec

\* A reply is written to the connection its call came from, and to no other
\* (RepliesReachTheirCaller): whatever is closed, replaced, stopped or started in between,
\* the session a queued call carries still names the peer that made it.
THEOREM RepliesAlwaysReachTheirCaller == Spec => []RepliesReachTheirCaller
<1>1. ServerInv => RepliesReachTheirCaller
  BY DEF ServerInv, RoutesInv, Told, Items, RepliesReachTheirCaller
<1> QED BY <1>1, ServerInvariant, PTL

-----------------------------------------------------------------------------
(***************************************************************************)
(* What becomes of the calls: a call is told Busy only after the timeout,  *)
(* answers come in the order of the calls, and each call is in one place   *)
(* until its answer.  They rest on ServerInv, and each adds a layer to it: *)
(* how long a call has been parked (AgeInv); the turn of every call on its *)
(* way, which grows from the settled over the replied, the current and the *)
(* queued to the one being read (OrderInv); and in how many places a call  *)
(* is, with the connections that were admitted (ConnInv, PlacesInv).       *)
(***************************************************************************)

-----------------------------------------------------------------------------
(* The clocks of parked calls *)

\* No call has been parked for longer than every look has found a dialog open.
NotOlder(p, age) == p.parked <= age

AgeInv ==
  /\ \A x \in Items(inbox) : NotOlder(x, dialogAge)
  /\ active # NoCall => NotOlder(active, dialogAge)
  /\ held # NoCall => NotOlder(held, dialogAge)

LEMMA Ages ==
  ASSUME NEW age \in ParkAges, NEW p \in PendingCall
  PROVE  /\ age \in Int /\ p.parked \in Int /\ -1 <= age
         /\ NotOlder(p, age) => NotOlder(Clocked(p), IF age = NotParked THEN 0 ELSE age)
         /\ NotOlder(Unclocked(p), NotParked)
         /\ NotOlder(p, age) => NotOlder(OlderCall(p), Older(age))
         /\ NotOlder(p, age) /\ ParkedTooLong(Clocked(p)) => age > ParkTimeout
<1>1. ParkTimeout \in Nat /\ p # NoCall
  BY BoundsAssumption, NoCallAssumption
<1>2. age \in Int /\ -1 <= age /\ age <= ParkTimeout + 1
      /\ p.parked \in Int /\ -1 <= p.parked /\ p.parked <= ParkTimeout + 1
  BY <1>1 DEF ParkAges, NotParked, PendingCall
<1>3. Clocked(p).parked = IF p.parked = -1 THEN 0 ELSE p.parked
  BY DEF Clocked, PendingCall, NotParked
<1>4. Unclocked(p).parked = -1
  BY DEF Unclocked, PendingCall, NotParked
<1>5. OlderCall(p).parked = Older(p.parked)
  BY <1>1 DEF OlderCall, PendingCall
<1>6. NotOlder(p, age) => NotOlder(OlderCall(p), Older(age))
  BY <1>1, <1>2, <1>5 DEF NotOlder, Older, NotParked
<1> QED BY <1>1, <1>2, <1>3, <1>4, <1>6 DEF NotOlder, ParkedTooLong, NotParked

\* A step that lets no clock run ahead
LEMMA AgesKept ==
  ASSUME TypeInv, AgeInv, UNCHANGED dialogAge,
         \A y \in Items(inbox') : y \in Items(inbox) \/ y.parked = NotParked,
         active' # NoCall => (active # NoCall /\ active' = active) \/ (held # NoCall /\ active' = held),
         held' # NoCall => (active # NoCall /\ held' = active) \/ (held # NoCall /\ held' = held)
  PROVE  AgeInv'
<1>1. dialogAge \in ParkAges
  BY DEF TypeInv, TypeOK
<1>2. -1 <= dialogAge
  BY <1>1, BoundsAssumption DEF ParkAges, NotParked
<1>3. \A y \in Items(inbox') : NotOlder(y, dialogAge)
  BY <1>2 DEF AgeInv, NotOlder, NotParked
<1> QED BY <1>3 DEF AgeInv

LEMMA AgesOfListener ==
  ASSUME TypeInv, AgeInv, ListenerStep \/ ListenerFail PROVE AgeInv'
<1>1. UNCHANGED <<dialogAge, held, active>>
  BY DEF ListenerStep, ListenerAccept, ListenerRead, ListenerConnected, ListenerCall, ListenerNewcomer,
         ListenerFlush, ListenerCheck, ListenerExit, ListenerFail, ReplyDirectly, EnqueueNetworkCall,
         CloseSession, queueVars, pumpVars, worldVars
<1>2. inbox' = inbox \/ \E c \in Calls : \E session \in Nat : inbox' = Append(inbox, Arrival(c, session))
  BY DEF ListenerStep, ListenerAccept, ListenerRead, ListenerConnected, ListenerCall, ListenerNewcomer,
         ListenerFlush, ListenerCheck, ListenerExit, ListenerFail, ReplyDirectly, EnqueueNetworkCall,
         CloseSession, queueVars, TypeInv, TypeOK
<1>3. ASSUME NEW c \in Calls, NEW session \in Nat, inbox' = Append(inbox, Arrival(c, session))
      PROVE  \A y \in Items(inbox') : y \in Items(inbox) \/ y.parked = NotParked
  <2>1. Arrival(c, session) \in PendingCall /\ Arrival(c, session).parked = NotParked
    BY BoundsAssumption DEF Arrival, PendingCall, ParkAges, NotParked
  <2>2. inbox \in Seq(PendingCall)
    BY DEF TypeInv, TypeOK
  <2> QED BY <1>3, <2>1, <2>2, ItemsOfMore
<1> QED BY <1>1, <1>2, <1>3, AgesKept

\* What a look of the pump leaves, with the dialog open or closed
LEMMA AgesOfLook ==
  ASSUME TypeInv, AgeInv
  PROVE  /\ LookDialogOpen => /\ \A y \in Items(ClockAll(inbox)) : NotOlder(y, dialogAge')
                              /\ held # NoCall => NotOlder(Clocked(held), dialogAge')
         /\ LookDialogClosed => /\ \A y \in Items(UnclockAll(inbox)) : NotOlder(y, dialogAge')
                                /\ \A p \in PendingCall : NotOlder(Unclocked(p), dialogAge')
<1>1. inbox \in Seq(PendingCall) /\ dialogAge \in ParkAges /\ held \in PendingCall \cup {NoCall}
  BY DEF TypeInv, TypeOK
<1>2. \A i \in DOMAIN inbox : inbox[i] \in PendingCall /\ NotOlder(inbox[i], dialogAge)
  BY <1>1 DEF AgeInv, Items
<1>3. ASSUME LookDialogOpen
      PROVE  /\ \A y \in Items(ClockAll(inbox)) : NotOlder(y, dialogAge')
             /\ held # NoCall => NotOlder(Clocked(held), dialogAge')
  <2>1. dialogAge' = IF dialogAge = NotParked THEN 0 ELSE dialogAge
    BY <1>3 DEF LookDialogOpen
  <2>2. \A i \in DOMAIN inbox : NotOlder(Clocked(inbox[i]), dialogAge')
    BY <1>1, <1>2, <2>1, Ages
  <2>3. Items(ClockAll(inbox)) = {Clocked(inbox[i]) : i \in DOMAIN inbox}
    BY DEF Items, ClockAll
  <2>4. held # NoCall => NotOlder(Clocked(held), dialogAge')
    BY <1>1, <2>1, Ages DEF AgeInv
  <2> QED BY <2>2, <2>3, <2>4
<1>4. ASSUME LookDialogClosed
      PROVE  /\ \A y \in Items(UnclockAll(inbox)) : NotOlder(y, dialogAge')
             /\ \A p \in PendingCall : NotOlder(Unclocked(p), dialogAge')
  <2>1. \A p \in PendingCall : NotOlder(Unclocked(p), dialogAge')
    BY <1>1, <1>4, Ages DEF LookDialogClosed
  <2>2. Items(UnclockAll(inbox)) = {Unclocked(inbox[i]) : i \in DOMAIN inbox}
    BY DEF Items, UnclockAll
  <2> QED BY <1>2, <2>1, <2>2
<1> QED BY <1>3, <1>4

LEMMA AgesOfTake ==
  ASSUME TypeInv, inbox # <<>>, NEW box \in {inbox, ClockAll(inbox), UnclockAll(inbox)},
         \A y \in Items(box) : NotOlder(y, dialogAge'), inbox' = Tail(box)
  PROVE  \A y \in Items(inbox') : NotOlder(y, dialogAge')
<1>1. inbox \in Seq(PendingCall)
  BY DEF TypeInv, TypeOK
<1>2. box \in Seq(PendingCall) /\ Len(box) = Len(inbox)
  BY <1>1, LookTypes
<1>3. box # <<>>
  BY <1>1, <1>2
<1> QED BY <1>2, <1>3, ItemsOfRest

LEMMA AgesOfPump ==
  ASSUME TypeInv, ControlInv, AgeInv, PumpBegin \/ PumpStep PROVE AgeInv'
<1>0. inbox \in Seq(PendingCall) /\ dialogAge \in ParkAges /\ held \in PendingCall \cup {NoCall}
  BY DEF TypeInv, TypeOK
<1>1. CASE PumpBegin \/ PumpBreak \/ PumpTakeActive \/ PumpLookInbox \/ PumpLeave \/ PumpNotify
           \/ PumpRun
  <2>1. UNCHANGED <<inbox, dialogAge>>
    BY <1>1 DEF PumpBegin, PumpBreak, PumpTakeActive, TakeActive, PumpLookInbox, PumpLeave, PumpNotify,
                PumpRun, queueVars, worldVars
  <2>2. \/ UNCHANGED <<active, held>> \/ (held' = active /\ active' = NoCall)
        \/ (held' = NoCall /\ active' \in {active, held})
    BY <1>1 DEF PumpBegin, PumpBreak, PumpTakeActive, TakeActive, PumpLookInbox, PumpLeave, PumpNotify,
                PumpRun, FinishCall, queueVars
  <2> QED BY <2>1, <2>2, AgesKept
<1>2. CASE PumpResume
  <2>1. held \in PendingCall /\ active = NoCall /\ held # NoCall
    BY <1>0, <1>2 DEF PumpResume, ControlInv
  <2>2. CASE UNCHANGED <<inbox, dialogAge>> /\ held' = NoCall /\ active' \in {held, active}
    BY <2>2, AgesKept
  <2>3. CASE LookDialogOpen /\ inbox' = ClockAll(inbox) /\ held' = NoCall
             /\ active' \in {Clocked(held), active}
    BY <2>1, <2>3, AgesOfLook DEF AgeInv
  <2>4. CASE LookDialogClosed /\ inbox' = UnclockAll(inbox) /\ held' = Unclocked(held)
             /\ UNCHANGED active
    BY <2>1, <2>4, AgesOfLook DEF AgeInv
  <2> QED BY <1>2, <2>2, <2>3, <2>4 DEF PumpResume, FinishCall
<1>3. CASE PumpTakeNext
  <2>1. inbox # <<>> /\ active = NoCall /\ held = NoCall /\ active' = NoCall
    BY <1>3 DEF PumpTakeNext, ControlInv, queueVars
  <2>2. Head(inbox) \in PendingCall
    BY <1>0, <2>1
  <2>3. CASE UNCHANGED <<inbox, dialogAge, held>>
    BY <2>1, <2>3 DEF AgeInv
  <2>4. CASE inbox' = Tail(inbox) /\ UNCHANGED dialogAge /\ held' = NoCall
    <3>1. \A y \in Items(inbox) : NotOlder(y, dialogAge')
      BY <2>4 DEF AgeInv
    <3> QED BY <2>1, <2>4, <3>1, AgesOfTake DEF AgeInv
  <2>5. CASE LookDialogOpen /\ inbox' \in {ClockAll(inbox), Tail(ClockAll(inbox))} /\ held' = NoCall
    <3>1. \A y \in Items(ClockAll(inbox)) : NotOlder(y, dialogAge')
      BY <2>5, AgesOfLook
    <3> QED BY <2>1, <2>5, <3>1, AgesOfTake DEF AgeInv
  <2>6. CASE LookDialogClosed /\ inbox' = Tail(UnclockAll(inbox)) /\ held' = Unclocked(Head(inbox))
    <3>1. \A y \in Items(UnclockAll(inbox)) : NotOlder(y, dialogAge')
      BY <2>6, AgesOfLook
    <3> QED BY <2>1, <2>2, <2>6, <3>1, AgesOfLook, AgesOfTake DEF AgeInv
  <2> QED BY <1>3, <2>1, <2>3, <2>4, <2>5, <2>6 DEF PumpTakeNext, TakeHead, FinishCall, queueVars
<1> QED BY <1>1, <1>2, <1>3 DEF PumpStep

LEMMA AgeStep == TypeInv /\ ControlInv /\ AgeInv /\ [Next]_vars => AgeInv'
<1> SUFFICES ASSUME TypeInv, ControlInv, AgeInv, [Next]_vars PROVE AgeInv'
  OBVIOUS
<1>1. ASSUME NEW c \in Calls, Submit(c) PROVE AgeInv'
  <2>1. Arrival(c, 0) \in PendingCall /\ Arrival(c, 0).parked = NotParked
    BY BoundsAssumption DEF Arrival, PendingCall, ParkAges, NotParked
  <2>2. inbox \in Seq(PendingCall)
    BY DEF TypeInv, TypeOK
  <2>3. Items(Append(inbox, Arrival(c, 0))) = Items(inbox) \cup {Arrival(c, 0)}
    BY <2>1, <2>2, ItemsOfMore
  <2>4. UNCHANGED <<active, held, dialogAge>> /\ inbox' \in {inbox, Append(inbox, Arrival(c, 0))}
    BY <1>1 DEF Submit, queueVars, pumpVars
  <2> QED BY <2>1, <2>3, <2>4, AgesKept
<1>2. CASE StartListening \/ StartFails \/ StopBegin \/ StopJoin \/ StopNotify \/ ToggleDialog
           \/ UNCHANGED vars
  <2>1. UNCHANGED <<inbox, active, held, dialogAge>>
    BY <1>2 DEF StartListening, StartFails, StartBegin, StopBegin, StopJoin, StopNotify, ToggleDialog,
                vars, queueVars, pumpVars, worldVars
  <2> QED BY <2>1, AgesKept
<1>3. CASE StopDrain
  BY <1>3, ItemsOfNone, AgesKept DEF StopDrain, pumpVars, worldVars
<1>4. CASE Tick
  <2>1. inbox \in Seq(PendingCall) /\ {active, held} \subseteq PendingCall \cup {NoCall}
        /\ dialogAge \in ParkAges
    BY DEF TypeInv, TypeOK
  <2>2. /\ inbox' = [i \in DOMAIN inbox |-> OlderCall(inbox[i])] /\ dialogAge' = Older(dialogAge)
        /\ active' = OlderCall(active) /\ held' = OlderCall(held)
    BY <1>4 DEF Tick
  <2>3. \A i \in DOMAIN inbox : NotOlder(OlderCall(inbox[i]), dialogAge')
    BY <2>1, <2>2, Ages DEF AgeInv, Items
  <2>4. \A y \in Items(inbox') : NotOlder(y, dialogAge')
    BY <2>2, <2>3 DEF Items
  <2>5. OlderCall(NoCall) = NoCall
    BY DEF OlderCall
  <2> QED BY <2>1, <2>2, <2>4, <2>5, Ages DEF AgeInv
<1> QED BY <1>1, <1>2, <1>3, <1>4, AgesOfListener, AgesOfPump DEF Next, StopStep

\* A parked call's clock runs only while each look of the pump finds a dialog open.
THEOREM AgeInvariant == Spec => []AgeInv
<1>1. Init => AgeInv
  BY ItemsOfNone DEF Init, AgeInv
<1>2. ServerInv /\ AgeInv /\ [Next]_vars => AgeInv'
  BY AgeStep DEF ServerInv
<1> QED BY <1>1, <1>2, ServerInvariant, PTL DEF Spec

\* Only the pump answers Busy.
LEMMA NewlyBusy ==
  ASSUME NEW c,
         \A y \in Items(outbox') : y \in Items(outbox) \/ y.result # "Busy",
         \A y \in Items(completions') : y \in Items(completions) \/ y.result # "Busy",
         AnsweredBusy(c)'
  PROVE  AnsweredBusy(c)
<1>1. \/ \E y \in Items(outbox') : y.call = c /\ y.result = "Busy"
      \/ \E y \in Items(completions') : y.call = c /\ y.result = "Busy"
  BY DEF AnsweredBusy, Items
<1>2. \/ \E y \in Items(outbox) : y.call = c /\ y.result = "Busy"
      \/ \E y \in Items(completions) : y.call = c /\ y.result = "Busy"
  BY <1>1
<1> QED BY <1>2 DEF AnsweredBusy, Items

LEMMA BusyOfListener ==
  ASSUME TypeInv, ListenerStep \/ ListenerFail
  PROVE  /\ \A y \in Items(outbox') : y \in Items(outbox) \/ y.result # "Busy"
         /\ UNCHANGED completions
<1>1. outbox \in Seq(Response)
  BY DEF TypeInv, TypeOK
<1>2. UNCHANGED completions
  BY DEF ListenerStep, ListenerAccept, ListenerRead, ListenerConnected, ListenerCall, ListenerNewcomer,
         ListenerFlush, ListenerCheck, ListenerExit, ListenerFail, pumpVars
<1>3. CASE CloseSession
  BY <1>1, <1>2, <1>3, ItemsKept DEF CloseSession
<1>4. CASE UNCHANGED outbox
  BY <1>2, <1>4
<1>5. CASE ListenerFlush
  <2>1. CASE outbox # <<>> /\ outbox' = Tail(outbox)
    BY <1>1, <1>2, <2>1, ItemsOfRest
  <2> QED BY <1>3, <1>4, <1>5, <2>1 DEF ListenerFlush, queueVars
<1>6. CASE ListenerCall
  <2> DEFINE y == ResponseFor(Arrival(line, clientSession), "Unavailable")
  <2>1. y \in Response /\ y.result = "Unavailable"
    BY <1>6 DEF ListenerCall, ResponseFor, Arrival, Response, ResultKinds, TypeInv, TypeOK
  <2>2. CASE outbox' = Append(outbox, y)
    <3> HIDE DEF y
    <3> QED BY <1>1, <1>2, <2>1, <2>2, ItemsOfMore
  <2> QED BY <1>3, <1>4, <1>6, <2>2 DEF ListenerCall, ReplyDirectly, EnqueueNetworkCall, queueVars
<1> QED BY <1>2, <1>3, <1>4, <1>5, <1>6
    DEF ListenerStep, ListenerAccept, ListenerRead, ListenerConnected, ListenerNewcomer,
        ListenerCheck, ListenerExit, ListenerFail, queueVars

LEMMA BusyOfFinish ==
  ASSUME TypeInv, NEW p \in PendingCall, NEW kind \in ResultKinds \ {"Busy"}, FinishCall(p, kind)
  PROVE  /\ \A y \in Items(outbox') : y \in Items(outbox) \/ y.result # "Busy"
         /\ \A y \in Items(completions') : y \in Items(completions) \/ y.result # "Busy"
<1>1. ResponseFor(p, kind).result # "Busy" /\ CompletionFor(p, kind).result # "Busy"
  BY DEF ResponseFor, CompletionFor
<1> QED BY <1>1, FinishGoes

\* In a step of the pump a call is called Busy only if its clock has run out.
LEMMA BusyOfPump ==
  ASSUME TypeInv, ControlInv, AgeInv, PumpResume \/ PumpTakeNext
  PROVE  \/ dialogAge > ParkTimeout
         \/ /\ \A y \in Items(outbox') : y \in Items(outbox) \/ y.result # "Busy"
            /\ \A y \in Items(completions') : y \in Items(completions) \/ y.result # "Busy"
<1>1. inbox \in Seq(PendingCall) /\ dialogAge \in ParkAges /\ held \in PendingCall \cup {NoCall}
  BY DEF TypeInv, TypeOK
<1>2. "Internal" \in ResultKinds \ {"Busy"}
  BY DEF ResultKinds
<1>3. CASE PumpResume
  <2>1. held \in PendingCall /\ held # NoCall /\ NotOlder(held, dialogAge)
    BY <1>1, <1>3 DEF PumpResume, ControlInv, AgeInv
  <2>2. CASE FinishCall(held, "Internal")
    BY <1>2, <2>1, <2>2, BusyOfFinish
  <2>3. CASE ParkedTooLong(Clocked(held))
    BY <1>1, <2>1, <2>3, Ages
  <2>4. CASE UNCHANGED <<outbox, completions>>
    BY <2>4
  <2> QED BY <1>3, <2>2, <2>3, <2>4 DEF PumpResume
<1>4. CASE PumpTakeNext
  <2>1. inbox # <<>>
    BY <1>4 DEF PumpTakeNext, ControlInv
  <2>2. Head(inbox) \in PendingCall /\ NotOlder(Head(inbox), dialogAge)
    BY <1>1, <2>1, ItemsOfRest DEF AgeInv
  <2>3. CASE FinishCall(Head(inbox), "Internal")
    BY <1>2, <2>2, <2>3, BusyOfFinish
  <2>4. CASE ParkedTooLong(Clocked(Head(inbox)))
    BY <1>1, <2>2, <2>4, Ages
  <2>5. CASE UNCHANGED <<outbox, completions>>
    BY <2>5
  <2> QED BY <1>4, <2>3, <2>4, <2>5 DEF PumpTakeNext, queueVars
<1> QED BY <1>3, <1>4

LEMMA BusyOfOthers ==
  ASSUME TypeInv, [Next]_vars, ppc \in {"resume", "next"}, ~PumpResume, ~PumpTakeNext
  PROVE  /\ \A y \in Items(outbox') : y \in Items(outbox) \/ y.result # "Busy"
         /\ \A y \in Items(completions') : y \in Items(completions) \/ y.result # "Busy"
<1>1. CASE UNCHANGED <<outbox, completions>>
  BY <1>1
<1>2. CASE ListenerStep \/ ListenerFail
  BY <1>2, BusyOfListener
<1>3. ASSUME NEW c \in Calls, Submit(c) PROVE UNCHANGED <<outbox, completions>>
  BY <1>3 DEF Submit, queueVars, pumpVars
<1>4. ~PumpBegin /\ ~PumpBreak /\ ~PumpTakeActive /\ ~PumpLookInbox /\ ~PumpRun /\ ~PumpLeave
      /\ ~PumpNotify /\ ~StopDrain /\ ~ToggleDialog
  BY DEF PumpBegin, PumpBreak, PumpTakeActive, TakeActive, PumpLookInbox, PumpRun, PumpLeave,
         PumpNotify, StopDrain, ToggleDialog
<1>5. StartListening \/ StartFails \/ StopBegin \/ StopJoin \/ StopNotify \/ Tick \/ UNCHANGED vars
        => UNCHANGED <<outbox, completions>>
  BY DEF StartListening, StartFails, StartBegin, StopBegin, StopJoin, StopNotify, Tick, vars,
         queueVars, pumpVars
<1> QED BY <1>1, <1>2, <1>3, <1>4, <1>5 DEF Next, PumpStep, StopStep

\* A call is answered Busy only if every look of the pump, for longer than the timeout, has
\* found a dialog open (BusyOnlyAfterTimeout): a look that finds none stops the clock of every
\* call that waits, so a call's age never passes that of the dialog.
THEOREM BusyIsOnlyAfterTimeout == Spec => BusyOnlyAfterTimeout
<1>1. ASSUME TypeInv, ControlInv, AgeInv, [Next]_vars, NEW c \in Calls,
             ppc \in {"resume", "next"}, ~AnsweredBusy(c), AnsweredBusy(c)'
      PROVE  dialogAge > ParkTimeout
  BY <1>1, NewlyBusy, BusyOfPump, BusyOfOthers
<1>2. ServerInv /\ AgeInv /\ [Next]_vars
        => [\A c \in Calls : (ppc \in {"resume", "next"} /\ ~AnsweredBusy(c) /\ AnsweredBusy(c)')
              => dialogAge > ParkTimeout]_vars
  BY <1>1 DEF ServerInv
<1> QED BY <1>2, ServerInvariant, AgeInvariant, PTL DEF Spec, BusyOnlyAfterTimeout

-----------------------------------------------------------------------------
(* The order of calls *)

\* The calls of one side, those made with submit() or those of clients, do not overtake each
\* other.  A call is read, queued, current (active, or in the hands of the pump), replied to,
\* and settled; a sequence is in turn if those of its elements that count are in order.
SameSide(a, b) == a \in LocalCalls <=> b \in LocalCalls
Precede(A, B, o) == \A a \in A, b \in B : SameSide(a, b) => o[a] < o[b]
CallsIn(s, S) == {x.call : x \in Items(s) \cap S}
InTurn(s, S, o) ==
  \A i, j \in DOMAIN s : i < j /\ s[i] \in S /\ s[j] \in S /\ SameSide(s[i].call, s[j].call)
                           => o[s[i].call] < o[s[j].call]

LEMMA InTurnMore ==
  ASSUME NEW T, NEW s \in Seq(T), NEW x \in T, NEW S, NEW o, InTurn(s, S, o),
         x \in S => Precede(CallsIn(s, S), {x.call}, o)
  PROVE  /\ InTurn(Append(s, x), S, o)
         /\ CallsIn(Append(s, x), S) = CallsIn(s, S) \cup (IF x \in S THEN {x.call} ELSE {})
<1> DEFINE t == Append(s, x)
           n == Len(s)
<1>1. /\ t \in Seq(T) /\ Len(t) = n + 1 /\ t[n + 1] = x /\ n \in Nat
      /\ \A i \in 1..n : t[i] = s[i]
  BY AppendProperties
<1>2. Items(t) = Items(s) \cup {x}
  BY ItemsOfMore
<1>3. DOMAIN s = 1..n /\ DOMAIN t = 1..(n + 1)
  BY <1>1
<1> HIDE DEF t, n
<1>4. ASSUME NEW i \in DOMAIN t, NEW j \in DOMAIN t, i < j, t[i] \in S, t[j] \in S,
             SameSide(t[i].call, t[j].call)
      PROVE  o[t[i].call] < o[t[j].call]
  <2>1. i \in 1..n /\ t[i] = s[i]
    BY <1>1, <1>3, <1>4
  <2>2. CASE j \in 1..n
    BY <1>1, <1>3, <1>4, <2>1, <2>2 DEF InTurn
  <2>3. CASE j = n + 1
    <3>1. t[j] = x
      BY <1>1, <2>3
    <3>2. s[i].call \in CallsIn(s, S)
      BY <1>3, <1>4, <2>1 DEF CallsIn, Items
    <3> QED BY <1>4, <2>1, <3>1, <3>2 DEF Precede
  <2> QED BY <1>1, <1>3, <2>2, <2>3
<1>5. InTurn(t, S, o)
  BY <1>4 DEF InTurn
<1>6. CallsIn(t, S) = CallsIn(s, S) \cup (IF x \in S THEN {x.call} ELSE {})
  BY <1>2 DEF CallsIn
<1> QED BY <1>5, <1>6 DEF t

LEMMA InTurnAtMost ==
  ASSUME NEW T, NEW s \in Seq(T), NEW x \in T, NEW S, NEW o, InTurn(s, S, o),
         Precede(CallsIn(s, S), {x.call}, o)
  PROVE  /\ InTurn(Append(s, x), S, o)
         /\ CallsIn(Append(s, x), S) \subseteq CallsIn(s, S) \cup {x.call}
<1>1. /\ InTurn(Append(s, x), S, o)
      /\ CallsIn(Append(s, x), S) = CallsIn(s, S) \cup (IF x \in S THEN {x.call} ELSE {})
  BY InTurnMore
<1> QED BY <1>1

LEMMA InTurnRest ==
  ASSUME NEW T, NEW s \in Seq(T), s # <<>>, NEW S, NEW o, InTurn(s, S, o)
  PROVE  /\ InTurn(Tail(s), S, o) /\ CallsIn(Tail(s), S) \subseteq CallsIn(s, S)
         /\ Head(s) \in S => /\ Head(s).call \in CallsIn(s, S)
                             /\ Precede({Head(s).call}, CallsIn(Tail(s), S), o)
<1> DEFINE t == Tail(s)
<1>1. /\ DOMAIN s = 1..Len(s) /\ Len(s) \in Nat \ {0} /\ Head(s) = s[1] /\ DOMAIN t = 1..(Len(s) - 1)
      /\ \A i \in DOMAIN t : t[i] = s[i + 1] /\ i + 1 \in DOMAIN s
  OBVIOUS
<1>2. Items(t) \subseteq Items(s) /\ Head(s) \in Items(s)
  BY ItemsOfRest
<1> HIDE DEF t
<1>3. ASSUME NEW i \in DOMAIN t, NEW j \in DOMAIN t, i < j, t[i] \in S, t[j] \in S,
             SameSide(t[i].call, t[j].call)
      PROVE  o[t[i].call] < o[t[j].call]
  <2>1. i + 1 \in DOMAIN s /\ j + 1 \in DOMAIN s /\ i + 1 < j + 1
    BY <1>1, <1>3
  <2> QED BY <1>1, <1>3, <2>1 DEF InTurn
<1>4. CallsIn(t, S) \subseteq CallsIn(s, S)
  BY <1>2 DEF CallsIn
<1>5. ASSUME s[1] \in S, NEW j \in DOMAIN t, t[j] \in S, SameSide(s[1].call, t[j].call)
      PROVE  o[s[1].call] < o[t[j].call]
  <2>1. 1 \in DOMAIN s /\ j + 1 \in DOMAIN s /\ 1 < j + 1
    BY <1>1
  <2> QED BY <1>1, <1>5, <2>1 DEF InTurn
<1>6. Head(s) \in S => Precede({Head(s).call}, CallsIn(t, S), o)
  BY <1>1, <1>5 DEF Precede, CallsIn, Items
<1>7. Head(s) \in S => Head(s).call \in CallsIn(s, S)
  BY <1>2 DEF CallsIn
<1>8. InTurn(t, S, o)
  BY <1>3 DEF InTurn
<1> QED BY <1>4, <1>6, <1>7, <1>8 DEF t

LEMMA InTurnKept ==
  ASSUME NEW T, NEW s \in Seq(T), NEW S, NEW o, InTurn(s, S, o), NEW R
  PROVE  InTurn(Keeping(s, R), S, o) /\ CallsIn(Keeping(s, R), S) \subseteq CallsIn(s, S)
<1> DEFINE k == Keeping(s, R)
<1>1. k \in Seq(T) /\ Embeds(k, Len(s), s, R)
  BY KeepingEmbeds
<1>2. Items(k) \subseteq Items(s)
  BY ItemsKept
<1> HIDE DEF k
<1>3. PICK f \in [1..Len(k) -> 1..Len(s)] : /\ \A m \in 1..Len(k) : k[m] = s[f[m]]
                                             /\ \A i, j \in 1..Len(k) : i < j => f[i] < f[j]
  BY <1>1 DEF Embeds
<1>4. DOMAIN k = 1..Len(k) /\ DOMAIN s = 1..Len(s)
  BY <1>1
<1>5. InTurn(k, S, o)
  BY <1>3, <1>4 DEF InTurn
<1>6. CallsIn(k, S) \subseteq CallsIn(s, S)
  BY <1>2 DEF CallsIn
<1> QED BY <1>5, <1>6 DEF k

LEMMA InTurnBoth ==
  ASSUME NEW T, NEW s \in Seq(T), NEW t \in Seq(T), NEW S, NEW o, InTurn(s, S, o), InTurn(t, S, o),
         Precede(CallsIn(s, S), CallsIn(t, S), o)
  PROVE  InTurn(s \o t, S, o) /\ CallsIn(s \o t, S) = CallsIn(s, S) \cup CallsIn(t, S)
<1> DEFINE u == s \o t
           n == Len(s)
<1>1. /\ u \in Seq(T) /\ Len(u) = n + Len(t) /\ n \in Nat /\ Len(t) \in Nat
      /\ \A i \in 1..(n + Len(t)) : u[i] = IF i <= n THEN s[i] ELSE t[i - n]
      /\ DOMAIN s = 1..n /\ DOMAIN t = 1..Len(t)
  BY ConcatProperties
<1>2. Items(u) = Items(s) \cup Items(t)
  BY ItemsOfBoth
<1>3. DOMAIN u = 1..(n + Len(t))
  BY <1>1
<1> HIDE DEF u, n
<1>4. ASSUME NEW i \in DOMAIN u, NEW j \in DOMAIN u, i < j, u[i] \in S, u[j] \in S,
             SameSide(u[i].call, u[j].call)
      PROVE  o[u[i].call] < o[u[j].call]
  <2>1. CASE j <= n
    <3>1. i \in DOMAIN s /\ j \in DOMAIN s /\ u[i] = s[i] /\ u[j] = s[j]
      BY <1>1, <1>3, <1>4, <2>1
    <3> QED BY <1>4, <3>1 DEF InTurn
  <2>2. CASE i > n
    <3>1. i - n \in DOMAIN t /\ j - n \in DOMAIN t /\ u[i] = t[i - n] /\ u[j] = t[j - n] /\ i - n < j - n
      BY <1>1, <1>3, <1>4, <2>2
    <3> QED BY <1>4, <3>1 DEF InTurn
  <2>3. CASE i <= n /\ j > n
    <3>1. i \in DOMAIN s /\ j - n \in DOMAIN t /\ u[i] = s[i] /\ u[j] = t[j - n]
      BY <1>1, <1>3, <1>4, <2>3
    <3>2. s[i].call \in CallsIn(s, S) /\ t[j - n].call \in CallsIn(t, S)
      BY <1>4, <3>1 DEF CallsIn, Items
    <3> QED BY <1>4, <3>1, <3>2 DEF Precede
  <2> QED BY <1>1, <1>3, <2>1, <2>2, <2>3
<1>5. InTurn(u, S, o)
  BY <1>4 DEF InTurn
<1>6. CallsIn(u, S) = CallsIn(s, S) \cup CallsIn(t, S)
  BY <1>2 DEF CallsIn
<1> QED BY <1>5, <1>6 DEF u

\* Another sequence with the same calls in the same places
LEMMA InTurnSame ==
  ASSUME NEW s, NEW t, NEW S, NEW R, NEW o, InTurn(s, S, o), DOMAIN t = DOMAIN s,
         \A i \in DOMAIN s : t[i].call = s[i].call /\ (t[i] \in R => s[i] \in S)
  PROVE  InTurn(t, R, o) /\ CallsIn(t, R) \subseteq CallsIn(s, S)
BY DEF InTurn, CallsIn, Items

\* Another order that agrees on the calls
LEMMA InTurnAgain ==
  ASSUME NEW s, NEW S, NEW o, NEW p, InTurn(s, S, o), \A c \in CallsIn(s, S) : p[c] = o[c]
  PROVE  InTurn(s, S, p)
<1>1. \A i \in DOMAIN s : s[i] \in S => s[i].call \in CallsIn(s, S)
  BY DEF CallsIn, Items
<1> QED BY <1>1 DEF InTurn

\* Calls further on come before calls further back.
Ranked(settled, replied, current, queued, read, o) ==
  /\ Precede(settled, replied \cup current \cup queued \cup read, o)
  /\ Precede(replied, current \cup queued \cup read, o)
  /\ Precede(current, queued \cup read, o)
  /\ Precede(queued, read, o)

LEMMA RankedLess ==
  ASSUME NEW st, NEW rp, NEW cu, NEW qu, NEW rd, NEW o, Ranked(st, rp, cu, qu, rd, o),
         NEW st2, NEW rp2, NEW cu2, NEW qu2, NEW rd2,
         st2 \subseteq st, rp2 \subseteq rp, cu2 \subseteq cu, qu2 \subseteq qu, rd2 \subseteq rd
  PROVE  Ranked(st2, rp2, cu2, qu2, rd2, o)
BY DEF Ranked, Precede

LEMMA RankedMoves ==
  ASSUME NEW st, NEW rp, NEW cu, NEW qu, NEW rd, NEW o, Ranked(st, rp, cu, qu, rd, o)
  PROVE  /\ Ranked(st, rp, cu, qu \cup rd, {}, o)
         /\ Ranked(st, rp \cup cu, {}, qu, rd, o)
         /\ \A qu2 \in SUBSET qu, h \in qu :
              Precede({h}, qu2, o) => /\ Ranked(st, rp, {h}, qu2, rd, o)
                                      /\ Ranked(st, rp \cup {h}, {}, qu2, rd, o)
         /\ \A m \in SUBSET rp, rp2 \in SUBSET rp :
              Precede(m, rp2, o) => Ranked(st \cup m, rp2, cu, qu, rd, o)
<1>2. Ranked(st, rp, cu, qu \cup rd, {}, o)
  BY DEF Ranked, Precede
<1>3. Ranked(st, rp \cup cu, {}, qu, rd, o)
  BY DEF Ranked, Precede
<1>4. ASSUME NEW qu2 \in SUBSET qu, NEW h \in qu, Precede({h}, qu2, o)
      PROVE  Ranked(st, rp, {h}, qu2, rd, o) /\ Ranked(st, rp \cup {h}, {}, qu2, rd, o)
  BY <1>4 DEF Ranked, Precede
<1>5. ASSUME NEW m \in SUBSET rp, NEW rp2 \in SUBSET rp, Precede(m, rp2, o)
      PROVE  Ranked(st \cup m, rp2, cu, qu, rd, o)
  BY <1>5 DEF Ranked, Precede
<1> QED BY <1>2, <1>3, <1>4, <1>5

\* With another order that agrees on the calls there are, and a new call after all of them
LEMMA RankedArrival ==
  ASSUME NEW st, NEW rp, NEW cu, NEW qu, NEW rd, NEW o, Ranked(st, rp, cu, qu, rd, o), NEW p, NEW d,
         \A c \in st \cup rp \cup cu \cup qu \cup rd : p[c] = o[c] /\ p[c] < p[d]
  PROVE  /\ Ranked(st, rp, cu, qu, rd, p)
         /\ (\A c \in rd : ~SameSide(d, c)) => Ranked(st, rp, cu, qu \cup {d}, rd, p)
BY DEF Ranked, Precede

LEMMA RankedReading ==
  ASSUME NEW st, NEW rp, NEW cu, NEW qu, NEW rd, NEW o, Ranked(st, rp, cu, qu, rd, o), NEW p, NEW d,
         \A c \in st \cup rp \cup cu \cup qu : p[c] = o[c] /\ p[c] < p[d]
  PROVE  Ranked(st, rp, cu, qu, {d}, p)
BY DEF Ranked, Precede

PumpedReplies == {r \in Response : ByPump(r.result)}
PumpedDones   == {d \in Completion : ByPump(d.result)}
PumpedAnswers == {a \in Answer : ByPump(a.result)}

SlotCalls(slot) == IF slot = NoCall THEN {} ELSE {slot.call}
Settled == CallsIn(answers, PumpedAnswers)
Replied == CallsIn(outbox, PumpedReplies) \cup CallsIn(completions, PumpedDones)
Current == SlotCalls(active) \cup SlotCalls(held)
Queued  == CallsIn(inbox, PendingCall)
Read    == {line} \cap Calls
AllRanked == Ranked(Settled, Replied, Current, Queued, Read, order)

OrderInv ==
  /\ \A c \in Calls : order[c] <= Cardinality(Made)
  /\ InTurn(answers, PumpedAnswers, order) /\ InTurn(outbox, PumpedReplies, order)
  /\ InTurn(completions, PumpedDones, order) /\ InTurn(inbox, PendingCall, order)
  /\ \A x \in Items(stopCompletions) : ~ByPump(x.result)
  /\ AllRanked

\* The calls in the ranks are calls that were made.
LEMMA RanksMade ==
  ASSUME TypeInv, CallerInv, RoutesInv
  PROVE  /\ Settled \cup Replied \cup Current \cup Queued \cup Read \subseteq Made
         /\ CallsIn(outbox, PumpedReplies) \cap LocalCalls = {}
         /\ CallsIn(completions, PumpedDones) \subseteq LocalCalls
<1>1. Settled \subseteq Made
  BY DEF Settled, CallsIn, RoutesInv, Told, Made
<1>2. CallsIn(outbox, PumpedReplies) \subseteq Made /\ CallsIn(outbox, PumpedReplies) \cap LocalCalls = {}
  BY DEF CallsIn, RoutesInv, Credited, Made, NetworkCalls
<1>3. CallsIn(completions, PumpedDones) \subseteq Made \cap LocalCalls
  BY CallsAssumption DEF CallsIn, RoutesInv, Made
<1>4. Current \subseteq Made
  BY DEF Current, SlotCalls, RoutesInv, Credited, Made
<1>5. Queued \subseteq Made
  BY DEF Queued, CallsIn, RoutesInv, Credited, Made
<1>6. Read \subseteq Made
  BY DEF Read, CallerInv, Made, NetworkCalls
<1> QED BY <1>1, <1>2, <1>3, <1>4, <1>5, <1>6 DEF Replied

\* Steps that take calls away from the ranks, or leave them
LEMMA OrderKept ==
  ASSUME OrderInv, UNCHANGED order,
         Settled' \subseteq Settled, Replied' \subseteq Replied, Current' \subseteq Current,
         Queued' \subseteq Queued, Read' \subseteq Read,
         InTurn(answers', PumpedAnswers, order), InTurn(outbox', PumpedReplies, order),
         InTurn(completions', PumpedDones, order), InTurn(inbox', PendingCall, order),
         \A x \in Items(stopCompletions') : ~ByPump(x.result)
  PROVE  OrderInv'
<1>1. Made' = Made
  BY DEF Made
<1>2. Ranked(Settled', Replied', Current', Queued', Read', order)
  <2>1. Ranked(Settled, Replied, Current, Queued, Read, order)
    BY DEF OrderInv, AllRanked
  <2> QED BY <2>1, RankedLess
<1>3. /\ PumpedAnswers' = PumpedAnswers /\ PumpedReplies' = PumpedReplies /\ PumpedDones' = PumpedDones
      /\ PendingCall' = PendingCall
  BY DEF PumpedAnswers, PumpedReplies, PumpedDones, PendingCall
<1>4. AllRanked'
  BY <1>2 DEF AllRanked
<1> QED BY <1>1, <1>3, <1>4 DEF OrderInv

\* Steps of the listener that only take things away, or answer what the pump did not
LEMMA OrderOfUnpumped ==
  ASSUME TypeInv, NEW x \in Answer, ~ByPump(x.result), OrderInv, answers' = Append(answers, x)
  PROVE  InTurn(answers', PumpedAnswers, order) /\ Settled' \subseteq Settled
<1>1. answers \in Seq(Answer) /\ x \notin PumpedAnswers
  BY DEF TypeInv, TypeOK, PumpedAnswers
<1>2. /\ InTurn(Append(answers, x), PumpedAnswers, order)
      /\ CallsIn(Append(answers, x), PumpedAnswers) = CallsIn(answers, PumpedAnswers) \cup {}
  BY <1>1, InTurnMore DEF OrderInv
<1> QED BY <1>2 DEF Settled, PumpedAnswers

LEMMA OrderClosed ==
  ASSUME TypeInv, OrderInv, CloseSession, line' \in {line, NoCall},
         UNCHANGED <<held, completions, stopCompletions, answers, order>>
  PROVE  OrderInv'
<1>1. outbox \in Seq(Response)
  BY DEF TypeInv, TypeOK
<1>2. InTurn(outbox', PumpedReplies, order)
      /\ CallsIn(outbox', PumpedReplies) \subseteq CallsIn(outbox, PumpedReplies)
  BY <1>1, InTurnKept DEF CloseSession, OrderInv
<1>3. UNCHANGED <<inbox, active>>
  BY DEF CloseSession
<1>4. Settled' = Settled /\ Replied' \subseteq Replied /\ Current' = Current /\ Queued' = Queued
      /\ Read' \subseteq Read
  BY <1>2, <1>3, CallsAssumption
     DEF Settled, Replied, Current, Queued, Read, PumpedReplies, PumpedDones, PumpedAnswers
<1> QED BY <1>2, <1>3, <1>4, OrderKept DEF OrderInv

\* Steps that touch nothing of it
LEMMA OrderStays ==
  ASSUME OrderInv, line' \in {line, NoCall, Hello},
         UNCHANGED <<inbox, active, held, outbox, completions, stopCompletions, answers, order>>
  PROVE  OrderInv'
<1>1. Settled' = Settled /\ Replied' = Replied /\ Current' = Current /\ Queued' = Queued
      /\ Read' \subseteq Read
  BY CallsAssumption
     DEF Settled, Replied, Current, Queued, Read, PumpedReplies, PumpedDones, PumpedAnswers
<1> QED BY <1>1, OrderKept DEF OrderInv

\* What an arrival does to the order
LEMMA OrderOfArrival ==
  ASSUME TypeInv, OrderInv, NEW d \in Calls \ Made, Arrives(d)
  PROVE  /\ \A c \in Made : order'[c] = order[c] /\ order'[c] < order'[d]
         /\ \A c \in Calls : order'[c] <= Cardinality(Made')
<1> DEFINE n == Cardinality(Made)
<1>1. n \in Nat /\ order' = [order EXCEPT ![d] = n + 1] /\ order \in [Calls -> Nat]
  BY FS_CardinalityType DEF TypeInv, TypeOK, Arrives
<1>2. \A c \in Calls : order[c] <= n
  BY DEF OrderInv
<1>3. Made' = Made \cup {d} /\ d \notin Made /\ IsFiniteSet(Made)
  BY ArrivalTypes DEF TypeInv
<1>4. Cardinality(Made') = n + 1
  BY <1>3, FS_AddElement
<1>5. Made \subseteq Calls
  BY DEF Made
<1> HIDE DEF n, Made
<1>6. \A c \in Calls : order'[c] = IF c = d THEN n + 1 ELSE order[c]
  BY <1>1
<1> QED BY <1>1, <1>2, <1>3, <1>4, <1>5, <1>6

LEMMA OrderSubmit ==
  ASSUME TypeInv, CallerInv, RoutesInv, OrderInv, NEW d \in Calls, Submit(d)
  PROVE  OrderInv'
<1>1. d \in LocalCalls /\ d \in Calls \ Made /\ Arrives(d)
      /\ UNCHANGED <<active, held, outbox, completions, stopCompletions, line>>
  BY DEF Submit, queueVars, pumpVars, stopVars, listenerVars
<1>2. /\ \A c \in Made : order'[c] = order[c] /\ order'[c] < order'[d]
      /\ \A c \in Calls : order'[c] <= Cardinality(Made')
  BY <1>1, OrderOfArrival
<1>3. \A c \in Settled \cup Replied \cup Current \cup Queued \cup Read :
         order'[c] = order[c] /\ order'[c] < order'[d]
  BY <1>2, RanksMade
<1>4. \A c \in Read : ~SameSide(d, c)
  BY <1>1 DEF Read, CallerInv, SameSide, NetworkCalls
<1>5. /\ Ranked(Settled, Replied, Current, Queued, Read, order')
      /\ Ranked(Settled, Replied, Current, Queued \cup {d}, Read, order')
  <2>1. Ranked(Settled, Replied, Current, Queued, Read, order)
    BY DEF OrderInv, AllRanked
  <2> QED BY <1>3, <1>4, <2>1, RankedArrival
<1>6. InTurn(answers, PumpedAnswers, order')
  BY <1>3, InTurnAgain DEF OrderInv, Settled
<1>7. InTurn(outbox, PumpedReplies, order') /\ InTurn(completions, PumpedDones, order')
  BY <1>3, InTurnAgain DEF OrderInv, Replied
<1>8. InTurn(inbox, PendingCall, order')
  BY <1>3, InTurnAgain DEF OrderInv, Queued
<1>9. Replied' = Replied /\ Current' = Current /\ Read' = Read
  BY <1>1 DEF Replied, Current, Read, PumpedReplies, PumpedDones
<1>10. CASE inbox' = Append(inbox, Arrival(d, 0)) /\ UNCHANGED answers
  <2>1. Arrival(d, 0) \in PendingCall /\ Arrival(d, 0).call = d
    BY BoundsAssumption DEF Arrival, PendingCall, ParkAges, NotParked
  <2>2. inbox \in Seq(PendingCall)
    BY DEF TypeInv, TypeOK
  <2>3. Precede(CallsIn(inbox, PendingCall), {d}, order')
    BY <1>3 DEF Precede, Queued
  <2>4. /\ InTurn(inbox', PendingCall, order')
        /\ CallsIn(inbox', PendingCall) = CallsIn(inbox, PendingCall) \cup {d}
    <3> DEFINE x == Arrival(d, 0)
    <3>1. x \in PendingCall /\ x.call = d /\ inbox' = Append(inbox, x)
      BY <1>10, <2>1
    <3> HIDE DEF x
    <3> QED BY <1>8, <2>2, <2>3, <3>1, InTurnMore, ZenonT(30)
  <2>5. Queued' = Queued \cup {d} /\ Settled' = Settled
    BY <1>10, <2>4 DEF Queued, Settled, PumpedAnswers
  <2>6. AllRanked'
    BY <1>5, <1>9, <2>5 DEF AllRanked
  <2> QED BY <1>1, <1>2, <1>6, <1>7, <1>10, <2>4, <2>6 DEF OrderInv, PumpedAnswers, PumpedReplies, PumpedDones
<1>11. ASSUME NEW kind \in {"Unavailable", "Overloaded"}, UNCHANGED inbox,
              answers' = Append(answers, [call |-> d, to |-> NoConn, result |-> kind])
       PROVE  OrderInv'
  <2> DEFINE x == [call |-> d, to |-> NoConn, result |-> kind]
  <2>1. x \in Answer /\ ~ByPump(x.result)
    BY DEF Answer, ByPump, ResultKinds
  <2>2. answers \in Seq(Answer) /\ answers' = Append(answers, x)
    BY <1>11 DEF TypeInv, TypeOK
  <2> HIDE DEF x
  <2>3. x \notin PumpedAnswers
    BY <2>1 DEF PumpedAnswers
  <2>4. /\ InTurn(answers', PumpedAnswers, order')
        /\ CallsIn(answers', PumpedAnswers) = CallsIn(answers, PumpedAnswers) \cup {}
    BY <1>6, <2>1, <2>2, <2>3, InTurnMore
  <2>5. Queued' = Queued /\ Settled' = Settled
    BY <1>11, <2>4 DEF Queued, Settled, PumpedAnswers
  <2>6. AllRanked'
    BY <1>5, <1>9, <2>5 DEF AllRanked
  <2> QED BY <1>1, <1>2, <1>7, <1>8, <1>11, <2>4, <2>6
          DEF OrderInv, PumpedAnswers, PumpedReplies, PumpedDones
<1> QED BY <1>10, <1>11 DEF Submit, queueVars

LEMMA OrderRead ==
  ASSUME TypeInv, CallerInv, RoutesInv, OrderInv, ListenerRead
  PROVE  OrderInv'
<1>1. UNCHANGED <<held, completions, stopCompletions, answers>>
  BY DEF ListenerRead, pumpVars, stopVars
<1>2. CASE CloseSession /\ UNCHANGED <<line, order>>
  BY <1>1, <1>2, OrderClosed
<1>3. CASE line' \in {line, Hello} /\ UNCHANGED <<queueVars, order>>
  BY <1>1, <1>3, OrderStays DEF queueVars
<1>4. ASSUME NEW d \in NetworkCalls \ Made, line' = d, Arrives(d), UNCHANGED queueVars
      PROVE  OrderInv'
  <2>1. d \in Calls \ Made
    BY DEF NetworkCalls
  <2>2. /\ \A c \in Made : order'[c] = order[c] /\ order'[c] < order'[d]
        /\ \A c \in Calls : order'[c] <= Cardinality(Made')
    BY <1>4, <2>1, OrderOfArrival
  <2>3. \A c \in Settled \cup Replied \cup Current \cup Queued \cup Read :
           order'[c] = order[c] /\ order'[c] < order'[d]
    BY <2>2, RanksMade
  <2>4. Ranked(Settled, Replied, Current, Queued, {d}, order')
    <3>1. Ranked(Settled, Replied, Current, Queued, Read, order)
      BY DEF OrderInv, AllRanked
    <3> HIDE DEF Settled, Replied, Current, Queued, Read
    <3> QED BY <2>3, <3>1, RankedReading
  <2>5. InTurn(answers, PumpedAnswers, order')
    BY <2>3, InTurnAgain DEF OrderInv, Settled
  <2>6. InTurn(outbox, PumpedReplies, order') /\ InTurn(completions, PumpedDones, order')
    BY <2>3, InTurnAgain DEF OrderInv, Replied
  <2>7. InTurn(inbox, PendingCall, order')
    BY <2>3, InTurnAgain DEF OrderInv, Queued
  <2>8. Settled' = Settled /\ Replied' = Replied /\ Current' = Current /\ Queued' = Queued
        /\ Read' = {d}
    BY <1>1, <1>4, <2>1 DEF queueVars, Settled, Replied, Current, Queued, Read, PumpedReplies,
                            PumpedDones, PumpedAnswers
  <2>9. AllRanked'
    BY <2>4, <2>8 DEF AllRanked
  <2> QED BY <1>1, <1>4, <2>2, <2>5, <2>6, <2>7, <2>9
          DEF OrderInv, PumpedAnswers, PumpedReplies, PumpedDones, queueVars
<1> QED BY <1>2, <1>3, <1>4 DEF ListenerRead
\* Steps that move calls along the ranks
LEMMA OrderMoves ==
  ASSUME OrderInv, UNCHANGED order, Ranked(Settled', Replied', Current', Queued', Read', order),
         InTurn(answers', PumpedAnswers, order), InTurn(outbox', PumpedReplies, order),
         InTurn(completions', PumpedDones, order), InTurn(inbox', PendingCall, order),
         \A x \in Items(stopCompletions') : ~ByPump(x.result)
  PROVE  OrderInv'
<1>1. Made' = Made
  BY DEF Made
<1>2. /\ PumpedAnswers' = PumpedAnswers /\ PumpedReplies' = PumpedReplies /\ PumpedDones' = PumpedDones
      /\ PendingCall' = PendingCall
  BY DEF PumpedAnswers, PumpedReplies, PumpedDones, PendingCall
<1>3. AllRanked'
  BY DEF AllRanked
<1> QED BY <1>1, <1>2, <1>3 DEF OrderInv

LEMMA OrderCall ==
  ASSUME TypeInv, CallerInv, OrderInv, ListenerCall
  PROVE  OrderInv'
<1>1. /\ line \in Calls /\ line' = NoCall /\ UNCHANGED <<held, completions, stopCompletions, order>>
      /\ clientSession \in Nat /\ client \in Conns \cup {NoConn}
  BY DEF ListenerCall, pumpVars, stopVars, TypeInv, TypeOK
<1>2. Read = {line} /\ Read' = {}
  BY <1>1, CallsAssumption DEF Read
<1>3. ASSUME NEW kind \in {"Invalid", "Overloaded"}, ReplyDirectly(kind) PROVE OrderInv'
  <2>1. CASE CloseSession /\ UNCHANGED answers
    BY <1>1, <2>1, OrderClosed
  <2>2. CASE /\ answers' = Append(answers, [call |-> line, to |-> client, result |-> kind])
             /\ UNCHANGED queueVars
    <3> DEFINE x == [call |-> line, to |-> client, result |-> kind]
    <3>1. x \in Answer /\ ~ByPump(x.result) /\ answers' = Append(answers, x)
      BY <1>1, <2>2 DEF Answer, ByPump, ResultKinds
    <3> HIDE DEF x
    <3>2. InTurn(answers', PumpedAnswers, order) /\ Settled' \subseteq Settled
      BY <3>1, OrderOfUnpumped
    <3>3. Replied' = Replied /\ Current' = Current /\ Queued' = Queued
      BY <1>1, <2>2 DEF queueVars, Replied, Current, Queued, PumpedReplies, PumpedDones
    <3> QED BY <1>1, <1>2, <2>2, <3>2, <3>3, OrderKept DEF OrderInv, queueVars
  <2> QED BY <1>3, <2>1, <2>2 DEF ReplyDirectly
<1>4. CASE EnqueueNetworkCall(line) /\ UNCHANGED answers
  <2> DEFINE x == Arrival(line, clientSession)
             y == ResponseFor(Arrival(line, clientSession), "Unavailable")
  <2>1. /\ x \in PendingCall /\ x.call = line
        /\ y \in Response /\ y \notin PumpedReplies
    BY <1>1, BoundsAssumption DEF Arrival, ResponseFor, PendingCall, Response, ParkAges, NotParked,
                                  ResultKinds, PumpedReplies, ByPump
  <2> HIDE DEF x, y
  <2>2. outbox \in Seq(Response) /\ inbox \in Seq(PendingCall)
    BY DEF TypeInv, TypeOK
  <2>3. Ranked(Settled, Replied, Current, Queued, Read, order)
    BY DEF OrderInv, AllRanked
  <2>4. Settled' = Settled /\ PumpedReplies' = PumpedReplies /\ PumpedDones' = PumpedDones
    BY <1>4 DEF Settled, PumpedAnswers, PumpedReplies, PumpedDones
  <2>5. CASE outbox' = Append(outbox, y) /\ UNCHANGED <<inbox, active>>
    <3>1. /\ InTurn(outbox', PumpedReplies, order)
          /\ CallsIn(outbox', PumpedReplies) = CallsIn(outbox, PumpedReplies) \cup {}
      BY <2>1, <2>2, <2>5, InTurnMore DEF OrderInv
    <3>2. Replied' = Replied /\ Current' = Current /\ Queued' = Queued
      BY <1>1, <2>4, <2>5, <3>1 DEF Replied, Current, Queued
    <3> QED BY <1>1, <1>2, <1>4, <2>4, <2>5, <3>1, <3>2, OrderKept DEF OrderInv
  <2>6. CASE inbox' = Append(inbox, x) /\ UNCHANGED <<active, outbox>>
    <3>1. Precede(CallsIn(inbox, PendingCall), {x.call}, order) /\ InTurn(inbox, PendingCall, order)
      BY <1>2, <2>1, <2>3 DEF Ranked, Queued, OrderInv
    <3>2. /\ InTurn(inbox', PendingCall, order)
          /\ CallsIn(inbox', PendingCall) = CallsIn(inbox, PendingCall) \cup {line}
      <4>1. ASSUME NEW z \in PendingCall, Precede(CallsIn(inbox, PendingCall), {z.call}, order)
            PROVE  /\ InTurn(Append(inbox, z), PendingCall, order)
                   /\ CallsIn(Append(inbox, z), PendingCall) = CallsIn(inbox, PendingCall) \cup {z.call}
        BY <2>2, <3>1, <4>1, InTurnMore
      <4> QED BY <2>1, <2>6, <3>1, <4>1
    <3>3. Replied' = Replied /\ Current' = Current /\ Queued' = Queued \cup Read
      BY <1>1, <1>2, <2>4, <2>6, <3>2 DEF Replied, Current, Queued
    <3>4. Ranked(Settled, Replied, Current, Queued \cup Read, {}, order)
      BY <2>3, RankedMoves
    <3>5. Ranked(Settled', Replied', Current', Queued', Read', order)
      BY <1>2, <2>4, <3>3, <3>4
    <3> QED BY <1>1, <1>4, <2>6, <3>2, <3>5, OrderMoves DEF OrderInv
  <2> QED BY <1>4, <2>5, <2>6 DEF EnqueueNetworkCall, x, y
<1> QED BY <1>3, <1>4 DEF ListenerCall

\* The oldest reply is written: it settles its call, after all those settled before.
LEMMA OrderWritten ==
  ASSUME TypeInv, CallerInv, RoutesInv, OrderInv, Written,
         UNCHANGED <<line, held, completions, stopCompletions, order>>
  PROVE  OrderInv'
<1> DEFINE h == Head(outbox)
           x == [call |-> h.call, to |-> client, result |-> h.result]
<1>1. /\ outbox \in Seq(Response) /\ outbox # <<>> /\ answers \in Seq(Answer)
      /\ client \in Conns \cup {NoConn}
      /\ outbox' = Tail(outbox) /\ answers' = Append(answers, x) /\ UNCHANGED <<inbox, active>>
  BY DEF TypeInv, TypeOK, Written, FlushKeeps
<1>2. h \in Response
  BY <1>1, ItemsOfRest
<1> HIDE DEF h
<1>3. x \in Answer /\ x.call = h.call /\ (x \in PumpedAnswers <=> h \in PumpedReplies)
  BY <1>1, <1>2 DEF Answer, Response, PumpedAnswers, PumpedReplies
<1> HIDE DEF x
<1>4. /\ InTurn(outbox', PumpedReplies, order)
      /\ CallsIn(outbox', PumpedReplies) \subseteq CallsIn(outbox, PumpedReplies)
      /\ h \in PumpedReplies => /\ h.call \in CallsIn(outbox, PumpedReplies)
                                /\ Precede({h.call}, CallsIn(outbox', PumpedReplies), order)
  BY <1>1, InTurnRest DEF OrderInv, h
<1>5. Ranked(Settled, Replied, Current, Queued, Read, order)
  BY DEF OrderInv, AllRanked
<1>6. Current' = Current /\ Queued' = Queued /\ Read' = Read /\ Replied' \subseteq Replied
      /\ Replied' = CallsIn(outbox', PumpedReplies) \cup CallsIn(completions, PumpedDones)
  BY <1>1, <1>4 DEF Replied, Current, Queued, Read, PumpedReplies, PumpedDones
<1>7. CASE h \notin PumpedReplies
  <2>1. /\ InTurn(answers', PumpedAnswers, order)
        /\ CallsIn(answers', PumpedAnswers) = CallsIn(answers, PumpedAnswers) \cup {}
    BY <1>1, <1>3, <1>7, InTurnMore DEF OrderInv
  <2>2. Settled' = Settled
    BY <2>1 DEF Settled, PumpedAnswers
  <2> QED BY <1>1, <1>4, <1>6, <2>1, <2>2, OrderKept DEF OrderInv
<1>8. CASE h \in PumpedReplies
  <2>1. h.call \in Replied
    BY <1>4, <1>8 DEF Replied
  <2>2. Precede(Settled, {h.call}, order)
    BY <1>5, <2>1 DEF Ranked, Precede
  <2>3. /\ InTurn(answers', PumpedAnswers, order)
        /\ CallsIn(answers', PumpedAnswers) = CallsIn(answers, PumpedAnswers) \cup {h.call}
    <3>0. answers \in Seq(Answer)
      BY <1>1
    <3>1. Precede(CallsIn(answers, PumpedAnswers), {x.call}, order)
          /\ InTurn(answers, PumpedAnswers, order)
      BY <1>3, <2>2 DEF OrderInv, Settled
    <3>2. ASSUME NEW z \in Answer, Precede(CallsIn(answers, PumpedAnswers), {z.call}, order),
                 z \in PumpedAnswers
          PROVE  /\ InTurn(Append(answers, z), PumpedAnswers, order)
                 /\ CallsIn(Append(answers, z), PumpedAnswers)
                      = CallsIn(answers, PumpedAnswers) \cup {z.call}
      BY <3>0, <3>1, <3>2, InTurnMore
    <3> QED BY <1>1, <1>3, <1>8, <3>1, <3>2
  <2>4. Settled' = Settled \cup {h.call}
    BY <2>3 DEF Settled, PumpedAnswers
  <2>5. Precede({h.call}, CallsIn(completions, PumpedDones), order)
    BY <1>4, <1>8, RanksMade DEF Precede, SameSide
  <2>6. Precede({h.call}, Replied', order)
    BY <1>4, <1>6, <1>8, <2>5 DEF Precede
  <2>7. Ranked(Settled \cup {h.call}, Replied', Current, Queued, Read, order)
    BY <1>5, <1>6, <2>1, <2>6, RankedMoves
  <2>8. Ranked(Settled', Replied', Current', Queued', Read', order)
    BY <1>6, <2>4, <2>7
  <2> QED BY <1>1, <1>4, <2>3, <2>8, OrderMoves DEF OrderInv
<1> QED BY <1>7, <1>8

LEMMA OrderFlush ==
  ASSUME TypeInv, CallerInv, RoutesInv, OrderInv, ListenerFlush
  PROVE  OrderInv'
<1>1. UNCHANGED <<line, held, completions, stopCompletions, order>>
  BY FlushCases DEF pumpVars, stopVars
<1>2. CASE Flushed
  BY <1>1, <1>2, OrderStays DEF Flushed, FlushKeeps
<1>3. CASE Dropped
  <2>1. outbox \in Seq(Response) /\ outbox # <<>> /\ outbox' = Tail(outbox)
        /\ UNCHANGED <<inbox, active, answers>>
    BY <1>3 DEF Dropped, FlushKeeps, TypeInv, TypeOK
  <2>2. /\ InTurn(outbox', PumpedReplies, order)
        /\ CallsIn(outbox', PumpedReplies) \subseteq CallsIn(outbox, PumpedReplies)
    BY <2>1, InTurnRest DEF OrderInv
  <2>3. Current' = Current /\ Queued' = Queued /\ Read' = Read /\ Settled' = Settled
        /\ Replied' \subseteq Replied
    BY <1>1, <2>1, <2>2 DEF Replied, Current, Queued, Read, Settled, PumpedReplies, PumpedDones,
                            PumpedAnswers
  <2> QED BY <1>1, <2>1, <2>2, <2>3, OrderKept DEF OrderInv
<1>4. CASE Closed
  BY <1>1, <1>4, OrderClosed DEF Closed
<1> QED BY <1>1, <1>2, <1>3, <1>4, FlushCases, OrderWritten

LEMMA OrderListener ==
  ASSUME TypeInv, CallerInv, RoutesInv, OrderInv, ListenerStep \/ ListenerFail
  PROVE  OrderInv'
<1>1. CASE ListenerAccept \/ ListenerConnected \/ ListenerNewcomer \/ ListenerCheck \/ ListenerFail
  BY <1>1, OrderStays DEF ListenerAccept, ListenerConnected, ListenerNewcomer, ListenerCheck,
                          ListenerFail, queueVars, pumpVars, stopVars, worldVars
<1>2. CASE ListenerExit
  BY <1>2, OrderStays, OrderClosed DEF ListenerExit, queueVars, pumpVars, stopVars, worldVars
<1> QED BY <1>1, <1>2, OrderRead, OrderCall, OrderFlush DEF ListenerStep
\* A look at the dialog, and a tick, leave the calls that wait in their order.
LEMMA OrderOfLook ==
  ASSUME TypeInv, OrderInv, NEW box \in {inbox, ClockAll(inbox), UnclockAll(inbox)}
  PROVE  /\ InTurn(box, PendingCall, order) /\ CallsIn(box, PendingCall) \subseteq Queued
         /\ box \in Seq(PendingCall) /\ Len(box) = Len(inbox)
         /\ \A i \in 1..Len(inbox) : box[i].call = inbox[i].call
<1>1. inbox \in Seq(PendingCall)
  BY DEF TypeInv, TypeOK
<1>2. /\ box \in Seq(PendingCall) /\ Len(box) = Len(inbox)
      /\ \A i \in 1..Len(inbox) : box[i].call = inbox[i].call
  BY <1>1, LookTypes
<1>3. DOMAIN box = DOMAIN inbox /\ DOMAIN inbox = 1..Len(inbox)
      /\ \A i \in DOMAIN inbox : inbox[i] \in PendingCall
  BY <1>1, <1>2
<1>4. InTurn(inbox, PendingCall, order)
  BY DEF OrderInv
<1> QED BY <1>2, <1>3, <1>4, InTurnSame DEF Queued

\* The head of the queue is taken; the rest waits behind it.
LEMMA OrderOfTaken ==
  ASSUME TypeInv, OrderInv, inbox # <<>>, NEW box \in {inbox, ClockAll(inbox), UnclockAll(inbox)},
         inbox' = Tail(box)
  PROVE  /\ InTurn(inbox', PendingCall, order)
         /\ Queued' \in SUBSET Queued /\ Head(inbox) \in PendingCall /\ Head(inbox).call \in Queued
         /\ Precede({Head(inbox).call}, Queued', order)
<1>1. /\ InTurn(box, PendingCall, order) /\ CallsIn(box, PendingCall) \subseteq Queued
      /\ box \in Seq(PendingCall) /\ Len(box) = Len(inbox)
      /\ \A i \in 1..Len(inbox) : box[i].call = inbox[i].call
  BY OrderOfLook
<1>2. inbox \in Seq(PendingCall) /\ Len(inbox) \in Nat \ {0}
  BY DEF TypeInv, TypeOK
<1>3. box # <<>> /\ Head(box) = box[1] /\ Head(inbox) = inbox[1] /\ Head(inbox) \in PendingCall
      /\ Head(box) \in PendingCall /\ Head(box).call = Head(inbox).call
  BY <1>1, <1>2
<1>4. /\ InTurn(Tail(box), PendingCall, order)
      /\ CallsIn(Tail(box), PendingCall) \subseteq CallsIn(box, PendingCall)
      /\ Head(box).call \in CallsIn(box, PendingCall)
      /\ Precede({Head(box).call}, CallsIn(Tail(box), PendingCall), order)
  BY <1>1, <1>3, InTurnRest
<1>5. Queued' = CallsIn(Tail(box), PendingCall)
  BY DEF Queued, PendingCall
<1> QED BY <1>1, <1>3, <1>4, <1>5

\* A call that the pump finishes is replied to after those it has finished before.
LEMMA OrderFinish ==
  ASSUME TypeInv, OrderInv, NEW p \in PendingCall, NEW kind \in ResultKinds, FinishCall(p, kind),
         UNCHANGED <<answers, order, line, stopCompletions>>, active' = NoCall,
         Ranked(Settled, Replied \cup {p.call}, {}, Queued', Read, order),
         Precede(Replied, {p.call}, order), InTurn(inbox', PendingCall, order)
  PROVE  OrderInv'
<1> DEFINE r == ResponseFor(p, kind)
           d == CompletionFor(p, kind)
<1>1. r \in Response /\ r.call = p.call /\ d \in Completion /\ d.call = p.call
  BY DEF ResponseFor, CompletionFor, Response, Completion, PendingCall
<1>2. /\ \/ outbox' = Append(outbox, r) /\ UNCHANGED completions
         \/ completions' = Append(completions, d) /\ UNCHANGED outbox
      /\ held' = NoCall
  BY DEF FinishCall, QueueResult, Complete
<1> HIDE DEF r, d
<1>3. outbox \in Seq(Response) /\ InTurn(outbox, PumpedReplies, order)
      /\ completions \in Seq(Completion) /\ InTurn(completions, PumpedDones, order)
  BY DEF TypeInv, TypeOK, OrderInv
<1>4. /\ Precede(CallsIn(outbox, PumpedReplies), {p.call}, order)
      /\ Precede(CallsIn(completions, PumpedDones), {p.call}, order)
  BY DEF Precede, Replied
<1>5. ASSUME NEW x \in Response, x.call = p.call
      PROVE  /\ InTurn(Append(outbox, x), PumpedReplies, order)
             /\ CallsIn(Append(outbox, x), PumpedReplies)
                  \subseteq CallsIn(outbox, PumpedReplies) \cup {p.call}
  <2>1. Precede(CallsIn(outbox, PumpedReplies), {x.call}, order)
    BY <1>4, <1>5
  <2>2. outbox \in Seq(Response) /\ InTurn(outbox, PumpedReplies, order)
    BY <1>3
  <2>3. /\ InTurn(Append(outbox, x), PumpedReplies, order)
        /\ CallsIn(Append(outbox, x), PumpedReplies) \subseteq CallsIn(outbox, PumpedReplies) \cup {x.call}
    BY <2>1, <2>2, InTurnAtMost
  <2> QED BY <1>5, <2>3
<1>6. ASSUME NEW x \in Completion, x.call = p.call
      PROVE  /\ InTurn(Append(completions, x), PumpedDones, order)
             /\ CallsIn(Append(completions, x), PumpedDones)
                  \subseteq CallsIn(completions, PumpedDones) \cup {p.call}
  <2>1. Precede(CallsIn(completions, PumpedDones), {x.call}, order)
    BY <1>4, <1>6
  <2>2. completions \in Seq(Completion) /\ InTurn(completions, PumpedDones, order)
    BY <1>3
  <2>3. /\ InTurn(Append(completions, x), PumpedDones, order)
        /\ CallsIn(Append(completions, x), PumpedDones)
             \subseteq CallsIn(completions, PumpedDones) \cup {x.call}
    BY <2>1, <2>2, InTurnAtMost
  <2> QED BY <1>6, <2>3
<1>7. /\ InTurn(outbox', PumpedReplies, order) /\ InTurn(completions', PumpedDones, order)
      /\ CallsIn(outbox', PumpedReplies) \subseteq CallsIn(outbox, PumpedReplies) \cup {p.call}
      /\ CallsIn(completions', PumpedDones) \subseteq CallsIn(completions, PumpedDones) \cup {p.call}
  BY <1>1, <1>2, <1>3, <1>5, <1>6
<1>8. Replied' \subseteq Replied \cup {p.call}
  BY <1>7 DEF Replied, PumpedReplies, PumpedDones
<1>9. Current' = {} /\ Settled' = Settled /\ Read' = Read
  BY <1>2 DEF Current, SlotCalls, Settled, Read, PumpedAnswers
<1>10. Ranked(Settled', Replied', Current', Queued', Read', order)
  BY <1>8, <1>9, RankedLess
<1> QED BY <1>7, <1>10, OrderMoves DEF OrderInv

LEMMA OrderResume ==
  ASSUME TypeInv, ControlInv, OrderInv, PumpResume
  PROVE  OrderInv'
<1>1. /\ held \in PendingCall /\ held # NoCall /\ active = NoCall
      /\ UNCHANGED <<answers, order, line, stopCompletions>>
  BY DEF PumpResume, ControlInv, TypeInv, TypeOK, listenerVars, stopVars
<1>2. Current = {held.call} /\ Ranked(Settled, Replied, Current, Queued, Read, order)
  BY <1>1 DEF Current, SlotCalls, OrderInv, AllRanked
<1>3. inbox' \in {inbox, ClockAll(inbox), UnclockAll(inbox)}
  BY DEF PumpResume
<1>4. InTurn(inbox', PendingCall, order) /\ Queued' \subseteq Queued
  <2>1. \A box \in {inbox, ClockAll(inbox), UnclockAll(inbox)} :
           InTurn(box, PendingCall, order) /\ CallsIn(box, PendingCall) \subseteq Queued
    BY OrderOfLook
  <2>2. Queued' = CallsIn(inbox', PendingCall)
    BY DEF Queued, PendingCall
  <2> QED BY <1>3, <2>1, <2>2
<1>5. ASSUME NEW kind \in {"Internal", "Busy"}, FinishCall(held, kind), UNCHANGED active
      PROVE  OrderInv'
  <2>1. Ranked(Settled, Replied \cup {held.call}, {}, Queued, Read, order)
    BY <1>2, RankedMoves
  <2>2. Ranked(Settled, Replied \cup {held.call}, {}, Queued', Read, order)
    BY <1>4, <2>1, RankedLess
  <2>3. Precede(Replied, {held.call}, order)
    BY <1>2 DEF Ranked, Precede
  <2>4. kind \in ResultKinds
    BY DEF ResultKinds
  <2> QED BY <1>1, <1>4, <1>5, <2>2, <2>3, <2>4, OrderFinish
<1>6. CASE UNCHANGED <<outbox, completions>> /\ Current' \subseteq Current
  <2>1. Settled' = Settled /\ Replied' = Replied /\ Read' = Read
    BY <1>1, <1>6 DEF Settled, Replied, Read, PumpedAnswers, PumpedReplies, PumpedDones
  <2> QED BY <1>1, <1>4, <1>6, <2>1, OrderKept DEF OrderInv
<1>7. Clocked(held).call = held.call /\ Unclocked(held).call = held.call
  BY <1>1, SameCalls
<1>8. CASE active' = held /\ held' = NoCall /\ UNCHANGED <<outbox, completions>>
  BY <1>1, <1>2, <1>6, <1>8 DEF Current, SlotCalls
<1>9. CASE active' = Clocked(held) /\ held' = NoCall /\ UNCHANGED <<outbox, completions>>
  BY <1>1, <1>2, <1>6, <1>7, <1>9 DEF Current, SlotCalls
<1>10. CASE held' = Unclocked(held) /\ UNCHANGED <<active, outbox, completions>>
  BY <1>1, <1>2, <1>6, <1>7, <1>10 DEF Current, SlotCalls
<1> QED BY <1>5, <1>8, <1>9, <1>10 DEF PumpResume
LEMMA OrderTakeNext ==
  ASSUME TypeInv, ControlInv, OrderInv, PumpTakeNext
  PROVE  OrderInv'
<1>1. /\ inbox # <<>> /\ active = NoCall /\ held = NoCall
      /\ UNCHANGED <<answers, order, line, stopCompletions>>
  BY DEF PumpTakeNext, ControlInv, TypeInv, TypeOK, listenerVars, stopVars
<1>2. Ranked(Settled, Replied, Current, Queued, Read, order)
  BY DEF OrderInv, AllRanked
<1> DEFINE h == Head(inbox)
<1>3. ASSUME NEW box \in {inbox, ClockAll(inbox), UnclockAll(inbox)}, inbox' = Tail(box)
      PROVE  /\ InTurn(inbox', PendingCall, order)
             /\ h \in PendingCall
             /\ Precede(Replied, {h.call}, order)
             /\ Ranked(Settled, Replied, {h.call}, Queued', Read, order)
             /\ Ranked(Settled, Replied \cup {h.call}, {}, Queued', Read, order)
  <2>1. /\ InTurn(inbox', PendingCall, order)
        /\ Queued' \in SUBSET Queued /\ h \in PendingCall /\ h.call \in Queued
        /\ Precede({h.call}, Queued', order)
    BY <1>1, <1>3, OrderOfTaken
  <2> HIDE DEF h
  <2>2. Precede(Replied, {h.call}, order)
    BY <1>2, <2>1 DEF Ranked, Precede
  <2> QED BY <1>2, <2>1, <2>2, RankedMoves
<1>4. ASSUME NEW kind \in {"Internal", "Busy"}, FinishCall(h, kind), active' = active,
             NEW box \in {inbox, ClockAll(inbox), UnclockAll(inbox)}, inbox' = Tail(box)
      PROVE  OrderInv'
  <2>1. kind \in ResultKinds
    BY DEF ResultKinds
  <2>2. /\ InTurn(inbox', PendingCall, order)
        /\ h \in PendingCall
        /\ Precede(Replied, {h.call}, order)
        /\ Ranked(Settled, Replied \cup {h.call}, {}, Queued', Read, order)
    BY <1>3, <1>4
  <2> HIDE DEF h
  <2> QED BY <1>1, <1>4, <2>1, <2>2, OrderFinish
<1>5. CASE /\ inbox' = Tail(UnclockAll(inbox)) /\ held' = Unclocked(h)
           /\ UNCHANGED <<active, outbox, completions>>
  <2>1. /\ InTurn(inbox', PendingCall, order) /\ h \in PendingCall
        /\ Ranked(Settled, Replied, {h.call}, Queued', Read, order)
    BY <1>3, <1>5
  <2> HIDE DEF h
  <2>2. Unclocked(h).call = h.call
    BY <2>1, SameCalls
  <2>3. Current' \subseteq {h.call} /\ Settled' = Settled /\ Replied' = Replied /\ Read' = Read
    BY <1>1, <1>5, <2>2 DEF Current, SlotCalls, Settled, Replied, Read, PumpedAnswers, PumpedReplies,
                            PumpedDones
  <2>4. Ranked(Settled', Replied', Current', Queued', Read', order)
    BY <2>1, <2>3, RankedLess
  <2> QED BY <1>1, <1>5, <2>1, <2>4, OrderMoves DEF OrderInv
<1>6. CASE /\ inbox' \in {inbox, ClockAll(inbox)}
           /\ UNCHANGED <<active, held, outbox, completions>>
  <2>1. \A box \in {inbox, ClockAll(inbox), UnclockAll(inbox)} :
           InTurn(box, PendingCall, order) /\ CallsIn(box, PendingCall) \subseteq Queued
    BY OrderOfLook
  <2>2. Queued' = CallsIn(inbox', PendingCall)
    BY DEF Queued, PendingCall
  <2>3. InTurn(inbox', PendingCall, order) /\ Queued' \subseteq Queued
    BY <1>6, <2>1, <2>2
  <2>4. Current' = Current /\ Settled' = Settled /\ Replied' = Replied /\ Read' = Read
    BY <1>1, <1>6 DEF Current, Settled, Replied, Read, PumpedAnswers, PumpedReplies, PumpedDones
  <2> QED BY <1>1, <1>6, <2>3, <2>4, OrderKept DEF OrderInv
<1> HIDE DEF h
<1>7. PumpTakeNext =>
        \/ FinishCall(h, "Internal") /\ inbox' = Tail(inbox) /\ UNCHANGED active
        \/ FinishCall(h, "Busy") /\ inbox' = Tail(ClockAll(inbox)) /\ UNCHANGED active
        \/ inbox' = Tail(UnclockAll(inbox)) /\ held' = Unclocked(h)
           /\ UNCHANGED <<active, outbox, completions>>
        \/ inbox' \in {inbox, ClockAll(inbox)} /\ UNCHANGED <<active, held, outbox, completions>>
  BY DEF PumpTakeNext, TakeHead, queueVars, h
<1> QED BY <1>4, <1>5, <1>6, <1>7

\* The results of a pump reach the callers of submit(); those of clients wait in the outbox.
LEMMA OrderNotify ==
  ASSUME TypeInv, CallerInv, RoutesInv, OrderInv, PumpNotify
  PROVE  OrderInv'
<1> DEFINE t == AnswersOf(completions)
           m == CallsIn(completions, PumpedDones)
<1>1. /\ completions \in Seq(Completion) /\ answers \in Seq(Answer) /\ t \in Seq(Answer)
      /\ answers' = answers \o t /\ completions' = <<>>
      /\ UNCHANGED <<inbox, active, held, outbox, line, order, stopCompletions>>
  <2>1. completions \in Seq(Completion) /\ answers \in Seq(Answer) /\ inbox \in Seq(PendingCall)
        /\ "Done" \in ResultKinds
    BY DEF TypeInv, TypeOK, ResultKinds
  <2>2. t \in Seq(Answer)
    BY <2>1, AllAnswered
  <2> QED BY <2>1, <2>2 DEF PumpNotify, queueVars, listenerVars, stopVars
<1>2. DOMAIN t = DOMAIN completions
      /\ \A i \in DOMAIN completions : t[i].call = completions[i].call
                                       /\ (t[i] \in PumpedAnswers => completions[i] \in PumpedDones)
  <2>1. \A i \in DOMAIN completions : completions[i] \in Completion
    BY <1>1
  <2> QED BY <2>1 DEF AnswersOf, PumpedAnswers, PumpedDones
<1> HIDE DEF t
<1>3. InTurn(completions, PumpedDones, order) /\ InTurn(answers, PumpedAnswers, order)
      /\ Ranked(Settled, Replied, Current, Queued, Read, order)
  BY DEF OrderInv, AllRanked
<1>4. InTurn(t, PumpedAnswers, order) /\ CallsIn(t, PumpedAnswers) \subseteq m
  BY <1>2, <1>3, InTurnSame
<1>5. Precede(Settled, CallsIn(t, PumpedAnswers), order)
  BY <1>3, <1>4 DEF Ranked, Precede, Replied
<1>6. /\ InTurn(answers', PumpedAnswers, order)
      /\ CallsIn(answers', PumpedAnswers) = Settled \cup CallsIn(t, PumpedAnswers)
  BY <1>1, <1>3, <1>4, <1>5, InTurnBoth DEF Settled
<1>7. Settled' \subseteq Settled \cup m
  <2>1. Settled' = CallsIn(answers', PumpedAnswers)
    BY DEF Settled, PumpedAnswers
  <2> QED BY <1>4, <1>6, <2>1
<1>8. CallsIn(<<>>, PumpedDones) = {} /\ InTurn(<<>>, PumpedDones, order)
  BY ItemsOfNone DEF CallsIn, InTurn
<1>9. /\ Replied' = CallsIn(outbox, PumpedReplies)
      /\ Current' = Current /\ Queued' = Queued /\ Read' = Read
  BY <1>1, <1>8 DEF Replied, Current, Queued, Read, PumpedReplies, PumpedDones
<1>10. Precede(m, CallsIn(outbox, PumpedReplies), order)
  BY RanksMade DEF Precede, SameSide
<1>11. m \in SUBSET Replied /\ CallsIn(outbox, PumpedReplies) \in SUBSET Replied
  BY DEF Replied
<1> HIDE DEF m
<1>12. Ranked(Settled \cup m, CallsIn(outbox, PumpedReplies), Current, Queued, Read, order)
  BY <1>3, <1>10, <1>11, RankedMoves
<1>13. Ranked(Settled', Replied', Current', Queued', Read', order)
  BY <1>7, <1>9, <1>12, RankedLess
<1> QED BY <1>1, <1>6, <1>8, <1>13, OrderMoves DEF OrderInv

LEMMA OrderPump ==
  ASSUME TypeInv, ControlInv, CallerInv, RoutesInv, OrderInv, PumpBegin \/ PumpStep
  PROVE  OrderInv'
<1>1. CASE PumpBegin \/ PumpBreak \/ PumpLookInbox \/ PumpLeave
  BY <1>1, OrderStays DEF PumpBegin, PumpBreak, PumpLookInbox, PumpLeave, queueVars, listenerVars,
                          stopVars, worldVars
<1>2. CASE PumpTakeActive
  <2>1. /\ held' = active /\ active' = NoCall
        /\ UNCHANGED <<inbox, outbox, line, completions, stopCompletions, answers, order>>
    BY <1>2 DEF PumpTakeActive, TakeActive, listenerVars, stopVars, worldVars
  <2>2. Settled' = Settled /\ Replied' = Replied /\ Queued' = Queued /\ Read' = Read
        /\ Current' \subseteq Current
    BY <2>1 DEF Current, SlotCalls, Settled, Replied, Queued, Read, PumpedAnswers, PumpedReplies,
                PumpedDones
  <2> QED BY <2>1, <2>2, OrderKept DEF OrderInv
<1>3. CASE PumpRun
  <2>1. /\ held \in PendingCall /\ held # NoCall /\ active = NoCall
        /\ UNCHANGED <<inbox, answers, order, line, stopCompletions>>
    BY <1>3 DEF PumpRun, ControlInv, TypeInv, TypeOK, listenerVars, stopVars, worldVars
  <2>2. Current = {held.call} /\ Ranked(Settled, Replied, Current, Queued, Read, order)
        /\ Queued' = Queued /\ InTurn(inbox', PendingCall, order)
    BY <2>1 DEF Current, SlotCalls, OrderInv, AllRanked, Queued
  <2>3. ASSUME NEW kind \in {"Done", "Internal"}, FinishCall(held, kind), UNCHANGED active
        PROVE  OrderInv'
    <3>1. Ranked(Settled, Replied \cup {held.call}, {}, Queued', Read, order)
      BY <2>2, RankedMoves
    <3>2. Precede(Replied, {held.call}, order) /\ kind \in ResultKinds
      BY <2>2 DEF Ranked, Precede, ResultKinds
    <3> QED BY <2>1, <2>2, <2>3, <3>1, <3>2, OrderFinish
  <2>4. CASE active' = held /\ held' = NoCall /\ UNCHANGED <<outbox, completions>>
    <3>1. Settled' = Settled /\ Replied' = Replied /\ Read' = Read /\ Current' = Current
      BY <2>1, <2>4 DEF Settled, Replied, Read, Current, PumpedAnswers, PumpedReplies, PumpedDones
    <3> QED BY <2>1, <2>2, <2>4, <3>1, OrderKept DEF OrderInv
  <2> QED BY <1>3, <2>3, <2>4 DEF PumpRun
<1> QED BY <1>1, <1>2, <1>3, OrderResume, OrderTakeNext, OrderNotify DEF PumpStep
\* stop() drains the queue: what it answers is not the pump's, and nothing waits after it.
LEMMA OrderDrain ==
  ASSUME TypeInv, OrderInv, StopDrain
  PROVE  OrderInv'
<1> DEFINE remote == Keeping(Unfinished, {p \in PendingCall : HasRequest(p)})
           local  == Keeping(Unfinished, {p \in PendingCall : ~HasRequest(p)})
           rs == ResponsesFor(remote, "Unavailable")
           ds == CompletionsFor(local, "Unavailable")
<1>1. remote \in Seq(PendingCall) /\ local \in Seq(PendingCall)
  BY DrainedTypes, KeepingEmbeds
<1> HIDE DEF remote, local
<1>2. rs \in Seq(Response) /\ ds \in Seq(Completion)
  <2>1. <<>> \in Seq(Completion) /\ "Unavailable" \in ResultKinds
    BY DEF ResultKinds
  <2> QED BY <1>1, <2>1, AllAnswered
<1>3. (\A i \in DOMAIN rs : rs[i].result = "Unavailable")
      /\ (\A i \in DOMAIN ds : ds[i].result = "Unavailable")
  BY DEF ResponsesFor, CompletionsFor, ResponseFor, CompletionFor
<1>4. /\ outbox' = outbox \o rs /\ stopCompletions' = ds /\ inbox' = <<>> /\ active' = NoCall
      /\ UNCHANGED <<held, completions, answers, order, line>>
  BY DEF StopDrain, remote, local, pumpVars, worldVars, listenerVars
<1> HIDE DEF rs, ds
<1>5. outbox \in Seq(Response) /\ InTurn(outbox, PumpedReplies, order)
  BY DEF TypeInv, TypeOK, OrderInv
<1>6. CallsIn(rs, PumpedReplies) = {} /\ InTurn(rs, PumpedReplies, order)
  BY <1>3 DEF CallsIn, Items, InTurn, PumpedReplies, ByPump
<1>7. Precede(CallsIn(outbox, PumpedReplies), CallsIn(rs, PumpedReplies), order)
  BY <1>6 DEF Precede
<1>8. /\ InTurn(outbox', PumpedReplies, order)
      /\ CallsIn(outbox', PumpedReplies) = CallsIn(outbox, PumpedReplies) \cup CallsIn(rs, PumpedReplies)
  <2>1. rs \in Seq(Response) /\ InTurn(rs, PumpedReplies, order)
    BY <1>2, <1>6
  <2>2. /\ InTurn(outbox \o rs, PumpedReplies, order)
        /\ CallsIn(outbox \o rs, PumpedReplies)
             = CallsIn(outbox, PumpedReplies) \cup CallsIn(rs, PumpedReplies)
    BY <1>5, <1>7, <2>1, InTurnBoth
  <2> QED BY <1>4, <2>2
<1>9. CallsIn(<<>>, PendingCall) = {} /\ InTurn(<<>>, PendingCall, order)
  BY ItemsOfNone DEF CallsIn, InTurn
<1>10. /\ Settled' = Settled /\ Replied' = Replied /\ Current' \subseteq Current
       /\ Queued' \subseteq Queued /\ Read' = Read
  <2>1. CallsIn(outbox', PumpedReplies) = CallsIn(outbox, PumpedReplies)
    BY <1>6, <1>8
  <2>2. Queued' = {}
    BY <1>4, <1>9 DEF Queued, PendingCall
  <2> QED BY <1>4, <2>1, <2>2 DEF Settled, Replied, Current, SlotCalls, Read, PumpedAnswers,
                                  PumpedReplies, PumpedDones
<1>11. \A x \in Items(stopCompletions') : ~ByPump(x.result)
  BY <1>3, <1>4 DEF Items, ByPump
<1> QED BY <1>4, <1>8, <1>9, <1>10, <1>11, OrderKept DEF OrderInv

LEMMA OrderStopNotify ==
  ASSUME TypeInv, OrderInv, StopNotify
  PROVE  OrderInv'
<1> DEFINE t == AnswersOf(stopCompletions)
<1>1. /\ answers \in Seq(Answer) /\ t \in Seq(Answer) /\ answers' = answers \o t
      /\ stopCompletions' = <<>>
      /\ UNCHANGED <<inbox, active, held, outbox, line, order, completions>>
  <2>1. stopCompletions \in Seq(Completion) /\ answers \in Seq(Answer) /\ inbox \in Seq(PendingCall)
        /\ "Done" \in ResultKinds
    BY DEF TypeInv, TypeOK, ResultKinds
  <2>2. t \in Seq(Answer)
    BY <2>1, AllAnswered
  <2> QED BY <2>1, <2>2 DEF StopNotify, queueVars, listenerVars, pumpVars
<1>2. \A i \in DOMAIN t : ~ByPump(t[i].result)
  BY DEF AnswersOf, OrderInv, Items
<1> HIDE DEF t
<1>3. CallsIn(t, PumpedAnswers) = {} /\ InTurn(t, PumpedAnswers, order)
  BY <1>2 DEF CallsIn, Items, InTurn, PumpedAnswers
<1>4. Precede(CallsIn(answers, PumpedAnswers), CallsIn(t, PumpedAnswers), order)
      /\ InTurn(answers, PumpedAnswers, order)
  BY <1>3 DEF Precede, OrderInv
<1>5. /\ InTurn(answers', PumpedAnswers, order)
      /\ CallsIn(answers', PumpedAnswers) = CallsIn(answers, PumpedAnswers) \cup {}
  <2>1. answers \in Seq(Answer) /\ t \in Seq(Answer) /\ InTurn(t, PumpedAnswers, order)
    BY <1>1, <1>3
  <2>2. /\ InTurn(answers \o t, PumpedAnswers, order)
        /\ CallsIn(answers \o t, PumpedAnswers)
             = CallsIn(answers, PumpedAnswers) \cup CallsIn(t, PumpedAnswers)
    BY <1>4, <2>1, InTurnBoth
  <2> QED BY <1>1, <1>3, <2>2
<1>6. /\ Settled' = Settled /\ Replied' = Replied /\ Current' = Current /\ Queued' = Queued
      /\ Read' = Read
  BY <1>1, <1>5 DEF Settled, Replied, Current, Queued, Read, PumpedAnswers, PumpedReplies, PumpedDones
<1> QED BY <1>1, <1>5, <1>6, ItemsOfNone, OrderKept DEF OrderInv

LEMMA OrderTick ==
  ASSUME TypeInv, OrderInv, Tick
  PROVE  OrderInv'
<1>1. /\ inbox \in Seq(PendingCall) /\ {active, held} \subseteq PendingCall \cup {NoCall}
      /\ inbox' = [i \in DOMAIN inbox |-> OlderCall(inbox[i])]
      /\ active' = OlderCall(active) /\ held' = OlderCall(held)
      /\ UNCHANGED <<outbox, line, completions, stopCompletions, answers, order>>
  BY DEF TypeInv, TypeOK, Tick, listenerVars, stopVars
<1>2. \A p \in PendingCall : OlderCall(p).call = p.call
  BY SameCalls
<1>3. DOMAIN inbox' = DOMAIN inbox
      /\ \A i \in DOMAIN inbox : inbox'[i].call = inbox[i].call /\ inbox[i] \in PendingCall
  BY <1>1, <1>2
<1>4. InTurn(inbox, PendingCall, order)
  BY DEF OrderInv
<1>5. InTurn(inbox', PendingCall, order) /\ CallsIn(inbox', PendingCall) \subseteq CallsIn(inbox, PendingCall)
  BY <1>3, <1>4, InTurnSame
<1>6. OlderCall(NoCall) = NoCall
  BY DEF OlderCall
<1>7. SlotCalls(active') \subseteq SlotCalls(active) /\ SlotCalls(held') \subseteq SlotCalls(held)
  BY <1>1, <1>2, <1>6 DEF SlotCalls
<1>8. /\ Settled' = Settled /\ Replied' = Replied /\ Read' = Read
      /\ Current' \subseteq Current /\ Queued' \subseteq Queued
  BY <1>1, <1>5, <1>7 DEF Settled, Replied, Current, Queued, Read, PumpedAnswers, PumpedReplies,
                          PumpedDones, PendingCall
<1> QED BY <1>1, <1>5, <1>8, OrderKept DEF OrderInv

LEMMA OrderInit == Init => OrderInv
<1> SUFFICES ASSUME Init PROVE OrderInv
  OBVIOUS
<1>1. \A S, o : InTurn(<<>>, S, o)
  BY DEF InTurn
<1>2. Cardinality(Made) = 0 /\ \A c \in Calls : order[c] = 0
  <2>1. Made = {} /\ \A c \in Calls : order[c] = 0
    BY DEF Init, Made
  <2> QED BY <2>1, FS_EmptySet
<1>3. Settled = {} /\ Replied = {} /\ Current = {} /\ Queued = {} /\ Read = {}
  BY ItemsOfNone, CallsAssumption DEF Init, Settled, Replied, Current, SlotCalls, Queued, Read, CallsIn
<1>4. AllRanked
  BY <1>3 DEF AllRanked, Ranked, Precede
<1> QED BY <1>1, <1>2, <1>4, ItemsOfNone DEF Init, OrderInv

LEMMA OrderStep == ServerInv /\ OrderInv /\ [Next]_vars => OrderInv'
<1> SUFFICES ASSUME TypeInv, ControlInv, CallerInv, RoutesInv, OrderInv, [Next]_vars PROVE OrderInv'
  BY DEF ServerInv
<1>1. CASE StartListening \/ StartFails \/ StopBegin \/ StopJoin \/ ToggleDialog \/ UNCHANGED vars
  BY <1>1, OrderStays DEF StartListening, StartFails, StartBegin, StopBegin, StopJoin, ToggleDialog, vars,
     queueVars, listenerVars, pumpVars, stopVars, worldVars
<1> QED BY <1>1, OrderSubmit, OrderListener, OrderPump, OrderDrain, OrderStopNotify, OrderTick
        DEF Next, StopStep

\* The calls on their way, of one client or of submit(), stand in the order they were made in
\* wherever they are, so that none overtakes another from the line to the answer.
THEOREM OrderInvariant == Spec => []OrderInv
<1>1. ServerInv /\ OrderInv /\ [Next]_vars => OrderInv'
  BY OrderStep
<1> QED BY <1>1, OrderInit, ServerInvariant, PTL DEF Spec

\* Answers to one peer are all of one side: calls made with submit(), or those of a client.
LEMMA InOrder == TypeInv /\ CallerInv /\ RoutesInv /\ OrderInv => AnswersInOrder
<1> SUFFICES ASSUME TypeInv, CallerInv, RoutesInv, OrderInv,
                    NEW i \in DOMAIN answers, NEW j \in DOMAIN answers, i < j,
                    answers[i].to = answers[j].to, ByPump(answers[i].result), ByPump(answers[j].result)
             PROVE  order[answers[i].call] < order[answers[j].call]
  BY DEF AnswersInOrder
<1>1. answers[i] \in Answer /\ answers[j] \in Answer
  BY DEF TypeInv, TypeOK
<1>2. answers[i] \in PumpedAnswers /\ answers[j] \in PumpedAnswers
  BY <1>1 DEF PumpedAnswers
<1>3. Told(answers[i], order, caller) /\ Told(answers[j], order, caller)
  BY DEF RoutesInv, Items
<1>4. SameSide(answers[i].call, answers[j].call)
  BY <1>3, ConnsAssumption DEF Told, CallerInv, SameSide, NetworkCalls
<1> QED BY <1>2, <1>4 DEF OrderInv, InTurn

\* Between the steps of its threads the server is sound (ServerIsSound): it has its types,
\* the status line tells the truth, the queue keeps its limits and its counter, nothing is
\* advanced under a dialog, nothing enters once stop() has drained, answers come in order.
THEOREM ServerIsAlwaysSound == Spec => []ServerIsSound
<1>1. ServerInv /\ OrderInv => ServerIsSound
  <2> SUFFICES ASSUME ServerInv, OrderInv PROVE ServerIsSound
    OBVIOUS
  <2>1. TypeOK /\ QueueIsAccounted
    BY DEF ServerInv, TypeInv
  <2>2. NoWorkUnderDialog /\ QuietWhileStopping
    BY DEF ServerInv, ControlInv, NoWorkUnderDialog, QuietWhileStopping
  <2>3. StatusIsCurrent
    BY DEF ServerInv, StatusInv, ClientOf, StateShown, StatusIsCurrent
  <2>4. AnswersInOrder
    BY InOrder DEF ServerInv
  <2> QED BY <2>1, <2>2, <2>3, <2>4 DEF ServerIsSound
<1> QED BY <1>1, ServerInvariant, OrderInvariant, PTL
-----------------------------------------------------------------------------
(* How often a call occurs in a sequence *)

Where(s, c) == {i \in DOMAIN s : s[i].call = c}

LEMMA OccursType ==
  ASSUME NEW T, NEW s \in Seq(T), NEW c
  PROVE  IsFiniteSet(Where(s, c)) /\ OccursIn(s, c) = Cardinality(Where(s, c)) /\ OccursIn(s, c) \in Nat
<1>1. Where(s, c) \in SUBSET (1..Len(s)) /\ Len(s) \in Nat
  BY DEF Where
<1>2. IsFiniteSet(1..Len(s))
  BY <1>1, FS_Interval
<1>3. IsFiniteSet(Where(s, c))
  BY <1>1, <1>2, FS_Subset
<1>4. Cardinality(Where(s, c)) \in Nat
  BY <1>3, FS_CardinalityType
<1> QED BY <1>3, <1>4 DEF OccursIn, Where

LEMMA OccursNot ==
  ASSUME NEW s, NEW c, \A x \in Items(s) : x.call # c
  PROVE  OccursIn(s, c) = 0
<1>1. {i \in DOMAIN s : s[i].call = c} = {}
  BY DEF Items
<1> QED BY <1>1, FS_EmptySet DEF OccursIn

LEMMA OccursOnce ==
  ASSUME NEW T, NEW s \in Seq(T), NEW c, NEW x \in Items(s), x.call = c
  PROVE  OccursIn(s, c) >= 1
<1>1. IsFiniteSet(Where(s, c)) /\ OccursIn(s, c) = Cardinality(Where(s, c)) /\ OccursIn(s, c) \in Nat
  BY OccursType
<1>2. Where(s, c) # {}
  BY DEF Where, Items
<1>3. OccursIn(s, c) # 0
  BY <1>1, <1>2, FS_EmptySet
<1> QED BY <1>1, <1>3

LEMMA OccursMore ==
  ASSUME NEW T, NEW s \in Seq(T), NEW x \in T, NEW c
  PROVE  OccursIn(Append(s, x), c) = OccursIn(s, c) + (IF x.call = c THEN 1 ELSE 0)
<1> DEFINE t == Append(s, x)
           n == Len(s)
<1>1. /\ t \in Seq(T) /\ n \in Nat /\ DOMAIN t = 1..(n + 1) /\ DOMAIN s = 1..n
      /\ t[n + 1] = x /\ \A i \in 1..n : t[i] = s[i]
  BY AppendProperties
<1>2. IsFiniteSet(Where(s, c)) /\ OccursIn(s, c) = Cardinality(Where(s, c)) /\ OccursIn(s, c) \in Nat
  BY OccursType
<1>3. OccursIn(t, c) = Cardinality(Where(t, c))
  BY <1>1, OccursType
<1> HIDE DEF t, n
<1>4. CASE x.call = c
  <2>1. Where(t, c) = Where(s, c) \cup {n + 1} /\ n + 1 \notin Where(s, c)
    BY <1>1, <1>4 DEF Where
  <2>2. Cardinality(Where(s, c) \cup {n + 1}) = Cardinality(Where(s, c)) + 1
    BY <1>2, <2>1, FS_AddElement
  <2> QED BY <1>2, <1>3, <1>4, <2>1, <2>2 DEF t
<1>5. CASE x.call # c
  <2>1. Where(t, c) = Where(s, c)
    BY <1>1, <1>5 DEF Where
  <2> QED BY <1>2, <1>3, <1>5, <2>1 DEF t
<1> QED BY <1>4, <1>5

LEMMA ShiftedWhere ==
  ASSUME NEW W \in SUBSET Nat, IsFiniteSet(W), NEW n \in Nat
  PROVE  LET V == {i + n : i \in W} IN IsFiniteSet(V) /\ Cardinality(V) = Cardinality(W)
<1> DEFINE V == {i + n : i \in W}
           f == [i \in W |-> i + n]
<1>1. f \in [W -> V] /\ (\A i, j \in W : f[i] = f[j] => i = j) /\ (\A v \in V : \E i \in W : f[i] = v)
  OBVIOUS
<1>2. f \in Bijection(W, V)
  BY <1>1 DEF Bijection, Injection, IsInjective, Surjection
<1>3. ExistsBijection(W, V)
  BY <1>2 DEF ExistsBijection
<1> QED BY <1>3, FS_Bijection

LEMMA OccursBoth ==
  ASSUME NEW T, NEW s \in Seq(T), NEW t \in Seq(T), NEW c
  PROVE  OccursIn(s \o t, c) = OccursIn(s, c) + OccursIn(t, c)
<1> DEFINE u == s \o t
           n == Len(s)
           V == {i + n : i \in Where(t, c)}
<1>1. /\ u \in Seq(T) /\ Len(u) = n + Len(t) /\ n \in Nat /\ Len(t) \in Nat
      /\ \A i \in 1..(n + Len(t)) : u[i] = IF i <= n THEN s[i] ELSE t[i - n]
      /\ DOMAIN s = 1..n /\ DOMAIN t = 1..Len(t)
  BY ConcatProperties
<1>2. IsFiniteSet(Where(s, c)) /\ OccursIn(s, c) = Cardinality(Where(s, c)) /\ OccursIn(s, c) \in Nat
  BY OccursType
<1>3. IsFiniteSet(Where(t, c)) /\ OccursIn(t, c) = Cardinality(Where(t, c)) /\ OccursIn(t, c) \in Nat
  BY OccursType
<1>4. OccursIn(u, c) = Cardinality(Where(u, c)) /\ DOMAIN u = 1..(n + Len(t))
  <2>1. u \in Seq(T) /\ DOMAIN u = 1..Len(u) /\ Len(u) = n + Len(t)
    BY <1>1
  <2> HIDE DEF u, n
  <2>2. OccursIn(u, c) = Cardinality(Where(u, c))
    BY <2>1, OccursType
  <2> QED BY <2>1, <2>2
<1> HIDE DEF u, n
<1>5. Where(s, c) \in SUBSET (1..n) /\ Where(t, c) \in SUBSET (1..Len(t))
  BY <1>1 DEF Where
<1>6. Where(t, c) \in SUBSET Nat
  BY <1>1, <1>5
<1>7. IsFiniteSet(V) /\ Cardinality(V) = Cardinality(Where(t, c))
  BY <1>1, <1>3, <1>6, ShiftedWhere
<1>8. Where(s, c) \cap V = {}
  BY <1>1, <1>5
<1>9. Where(u, c) = Where(s, c) \cup V
  <2>1. ASSUME NEW i \in Where(u, c) PROVE i \in Where(s, c) \cup V
    <3>1. i \in 1..(n + Len(t)) /\ u[i].call = c
      BY <1>4, <2>1 DEF Where
    <3>2. CASE i <= n
      BY <1>1, <3>1, <3>2 DEF Where
    <3>3. CASE i > n
      <4>1. i - n \in DOMAIN t /\ t[i - n].call = c /\ (i - n) + n = i
        BY <1>1, <3>1, <3>3
      <4> QED BY <4>1 DEF Where
    <3> QED BY <1>1, <3>1, <3>2, <3>3
  <2>2. ASSUME NEW i \in Where(s, c) PROVE i \in Where(u, c)
    BY <1>1, <1>4, <1>5, <2>2 DEF Where
  <2>3. ASSUME NEW j \in Where(t, c) PROVE j + n \in Where(u, c)
    <3>1. j \in 1..Len(t) /\ t[j].call = c
      BY <1>5, <2>3 DEF Where
    <3>2. j + n \in 1..(n + Len(t)) /\ ~(j + n <= n) /\ (j + n) - n = j
      BY <1>1, <3>1
    <3> QED BY <1>1, <1>4, <3>1, <3>2 DEF Where
  <2> QED BY <2>1, <2>2, <2>3
<1>10. Cardinality(Where(s, c) \cup V) = Cardinality(Where(s, c)) + Cardinality(V) - Cardinality({})
  BY <1>2, <1>7, <1>8, FS_Union
<1>11. Cardinality({}) = 0
  BY FS_EmptySet
<1> HIDE DEF V
<1> QED BY <1>2, <1>3, <1>4, <1>7, <1>9, <1>10, <1>11 DEF u

LEMMA OccursRest ==
  ASSUME NEW T, NEW s \in Seq(T), s # <<>>, NEW c
  PROVE  OccursIn(s, c) = OccursIn(Tail(s), c) + (IF Head(s).call = c THEN 1 ELSE 0)
<1> DEFINE t == Tail(s)
           V == {i + 1 : i \in Where(t, c)}
<1>1. /\ t \in Seq(T) /\ Len(s) \in Nat \ {0} /\ DOMAIN s = 1..Len(s) /\ DOMAIN t = 1..(Len(s) - 1)
      /\ Head(s) = s[1] /\ \A i \in 1..(Len(s) - 1) : t[i] = s[i + 1]
  OBVIOUS
<1>2. OccursIn(s, c) = Cardinality(Where(s, c))
  BY OccursType
<1>3. IsFiniteSet(Where(t, c)) /\ OccursIn(t, c) = Cardinality(Where(t, c)) /\ OccursIn(t, c) \in Nat
  BY <1>1, OccursType
<1> HIDE DEF t
<1>4. Where(t, c) \in SUBSET Nat
  BY <1>1 DEF Where
<1>5. IsFiniteSet(V) /\ Cardinality(V) = Cardinality(Where(t, c))
  BY <1>3, <1>4, ShiftedWhere
<1>6. 1 \notin V
  <2>1. \A i \in Where(t, c) : i \in Nat /\ i >= 1
    BY <1>1 DEF Where
  <2> QED BY <2>1
<1>7. Where(s, c) = V \cup (IF Head(s).call = c THEN {1} ELSE {})
  <2>1. ASSUME NEW i \in Where(s, c), i # 1 PROVE i \in V
    <3>1. i - 1 \in DOMAIN t /\ t[i - 1].call = c /\ (i - 1) + 1 = i
      BY <1>1, <2>1 DEF Where
    <3> QED BY <3>1 DEF Where
  <2>2. ASSUME NEW j \in Where(t, c) PROVE j + 1 \in Where(s, c)
    <3>1. j \in 1..(Len(s) - 1) /\ t[j].call = c
      BY <1>1, <2>2 DEF Where
    <3>2. j + 1 \in 1..Len(s)
      BY <1>1, <3>1
    <3> QED BY <1>1, <3>1, <3>2 DEF Where
  <2>3. 1 \in Where(s, c) <=> Head(s).call = c
    BY <1>1 DEF Where
  <2> QED BY <2>1, <2>2, <2>3
<1> HIDE DEF V
<1>8. CASE Head(s).call = c
  <2>1. Cardinality(V \cup {1}) = Cardinality(V) + 1
    BY <1>5, <1>6, FS_AddElement
  <2> QED BY <1>2, <1>3, <1>5, <1>7, <1>8, <2>1 DEF t
<1>9. CASE Head(s).call # c
  BY <1>2, <1>3, <1>5, <1>7, <1>9 DEF t
<1> QED BY <1>8, <1>9

LEMMA OccursSame ==
  ASSUME NEW s, NEW t, DOMAIN t = DOMAIN s, \A i \in DOMAIN s : t[i].call = s[i].call, NEW c
  PROVE  OccursIn(t, c) = OccursIn(s, c)
BY DEF OccursIn

\* What is kept of a sequence has no call more often, and just as often those it keeps.
LEMMA OccursKept ==
  ASSUME NEW T, NEW s \in Seq(T), NEW S, NEW c
  PROVE  /\ OccursIn(Keeping(s, S), c) <= OccursIn(s, c)
         /\ OccursIn(Keeping(s, S), c) \in Nat
         /\ (\A x \in Items(s) : x.call = c => x \in S) => OccursIn(Keeping(s, S), c) = OccursIn(s, c)
         /\ (\A x \in Items(s) : x.call = c => x \notin S) => OccursIn(Keeping(s, S), c) = 0
<1> DEFINE k == Keeping(s, S)
<1>1. k \in Seq(T) /\ Embeds(k, Len(s), s, S)
  BY KeepingEmbeds
<1>2. Items(k) \subseteq Items(s) \cap S
  BY ItemsKept
<1>3. IsFiniteSet(Where(s, c)) /\ OccursIn(s, c) = Cardinality(Where(s, c)) /\ OccursIn(s, c) \in Nat
  BY OccursType
<1>4. IsFiniteSet(Where(k, c)) /\ OccursIn(k, c) = Cardinality(Where(k, c)) /\ OccursIn(k, c) \in Nat
  BY <1>1, OccursType
<1> HIDE DEF k
<1>5. DOMAIN k = 1..Len(k) /\ DOMAIN s = 1..Len(s) /\ Len(k) \in Nat
  BY <1>1
<1>6. PICK f \in [1..Len(k) -> 1..Len(s)] :
        /\ \A i \in 1..Len(k) : k[i] = s[f[i]] /\ s[f[i]] \in S
        /\ \A i, j \in 1..Len(k) : i < j => f[i] < f[j]
        /\ \A m \in 1..Len(s) : s[m] \in S => \E i \in 1..Len(k) : f[i] = m
  BY <1>1 DEF Embeds
<1> DEFINE g == [i \in Where(k, c) |-> f[i]]
<1>7. g \in [Where(k, c) -> Where(s, c)]
  BY <1>5, <1>6 DEF Where
<1>8. \A i, j \in Where(k, c) : g[i] = g[j] => i = j
  <2> SUFFICES ASSUME NEW i \in Where(k, c), NEW j \in Where(k, c), i # j PROVE f[i] # f[j]
    OBVIOUS
  <2>1. i \in 1..Len(k) /\ j \in 1..Len(k) /\ f[i] \in Int /\ f[j] \in Int
    BY <1>5, <1>6 DEF Where
  <2>2. i < j \/ j < i
    BY <2>1
  <2> QED BY <1>6, <2>1, <2>2
<1>9. g \in Injection(Where(k, c), Where(s, c))
  BY <1>7, <1>8 DEF Injection, IsInjective
<1>10. Cardinality(Where(k, c)) <= Cardinality(Where(s, c))
  BY <1>3, <1>9, FS_Injection
<1>11. ASSUME \A x \in Items(s) : x.call = c => x \in S
       PROVE  OccursIn(k, c) = OccursIn(s, c)
  <2>1. \A m \in Where(s, c) : \E i \in Where(k, c) : g[i] = m
    <3> SUFFICES ASSUME NEW m \in Where(s, c) PROVE \E i \in Where(k, c) : g[i] = m
      OBVIOUS
    <3>1. m \in 1..Len(s) /\ s[m].call = c /\ s[m] \in S
      BY <1>5, <1>11 DEF Where, Items
    <3>2. PICK i \in 1..Len(k) : f[i] = m
      BY <1>6, <3>1
    <3>3. i \in Where(k, c)
      BY <1>5, <1>6, <3>1, <3>2 DEF Where
    <3> QED BY <3>2, <3>3
  <2>2. g \in Surjection(Where(k, c), Where(s, c))
    BY <1>7, <2>1 DEF Surjection
  <2>3. Cardinality(Where(k, c)) = Cardinality(Where(s, c))
    BY <1>3, <1>9, <2>2, FS_Injection
  <2> QED BY <1>3, <1>4, <2>3
<1>12. ASSUME \A x \in Items(s) : x.call = c => x \notin S
       PROVE  OccursIn(k, c) = 0
  BY <1>2, <1>12, OccursNot
<1> QED BY <1>3, <1>4, <1>10, <1>11, <1>12 DEF k
-----------------------------------------------------------------------------
(* Connections: none is admitted twice *)

ConnInv ==
  /\ \A i, j \in DOMAIN admitted : admitted[i] = admitted[j] => i = j
  /\ freshConns \cap Items(admitted) = {}
  /\ waiting # NoConn => waiting \notin Items(admitted) /\ waiting \notin freshConns
  /\ \A c \in NetworkCalls : order[c] # 0 => caller[c] \in Items(admitted)
  /\ client # NoConn => client \in Items(admitted)
  /\ client # NoConn /\ ~authenticated => \A c \in NetworkCalls : order[c] # 0 => caller[c] # client

LEMMA ConnAdmit ==
  ASSUME TypeInv, ConnInv, NEW k \in Conns, Admit(k), k \notin Items(admitted),
         freshConns' \subseteq freshConns \ {k}, waiting' = NoConn, UNCHANGED <<order, caller>>
  PROVE  ConnInv'
<1>1. admitted \in Seq(Conns) /\ admitted' = Append(admitted, k) /\ client' = k
  BY DEF TypeInv, TypeOK, Admit
<1>2. Items(admitted') = Items(admitted) \cup {k}
  BY <1>1, ItemsOfMore
<1>3. /\ DOMAIN admitted = 1..Len(admitted) /\ DOMAIN admitted' = 1..(Len(admitted) + 1)
      /\ \A i \in 1..Len(admitted) : admitted'[i] = admitted[i]
      /\ admitted'[Len(admitted) + 1] = k /\ Len(admitted) \in Nat
  BY <1>1, AppendProperties
<1>4. \A i \in 1..Len(admitted) : admitted[i] # k
  BY <1>3 DEF Items
<1>5. \A i, j \in DOMAIN admitted' : admitted'[i] = admitted'[j] => i = j
  <2> SUFFICES ASSUME NEW i \in DOMAIN admitted', NEW j \in DOMAIN admitted', admitted'[i] = admitted'[j]
               PROVE  i = j
    OBVIOUS
  <2>1. /\ i \in 1..Len(admitted) \/ i = Len(admitted) + 1
        /\ j \in 1..Len(admitted) \/ j = Len(admitted) + 1
    BY <1>3
  <2> QED BY <1>3, <1>4, <2>1 DEF ConnInv
<1>6. \A c \in NetworkCalls : order'[c] # 0 => caller'[c] \in Items(admitted)
  BY DEF ConnInv
<1> QED BY <1>1, <1>2, <1>5, <1>6 DEF ConnInv

LEMMA ConnKept ==
  ASSUME ConnInv, UNCHANGED <<order, caller, admitted>>, freshConns' \subseteq freshConns,
         waiting' \in {waiting, NoConn} \/ (waiting' \notin Items(admitted) /\ waiting' \notin freshConns'),
         client' = NoConn \/ (client' = client /\ (authenticated => authenticated'))
  PROVE  ConnInv'
BY DEF ConnInv

LEMMA ConnStep == TypeInv /\ SessionInv /\ CallerInv /\ ConnInv /\ [Next]_vars => ConnInv'
<1> SUFFICES ASSUME TypeInv, SessionInv, CallerInv, ConnInv, [Next]_vars PROVE ConnInv'
  OBVIOUS
<1>1. ASSUME UNCHANGED <<order, caller, admitted, freshConns, waiting>>,
             client' = NoConn \/ UNCHANGED <<client, authenticated>>
      PROVE  ConnInv'
  BY <1>1, ConnKept
<1>2. ASSUME NEW d \in Calls, Submit(d) PROVE ConnInv'
  <2>1. d \notin NetworkCalls /\ \A c \in NetworkCalls : order'[c] = order[c]
    BY <1>2 DEF Submit, Arrives, NetworkCalls, TypeInv, TypeOK
  <2>2. UNCHANGED <<caller, admitted, freshConns, waiting, client, authenticated>>
    BY <1>2 DEF Submit, sessionVars, listenerVars
  <2> QED BY <2>1, <2>2 DEF ConnInv
<1>3. CASE ListenerAccept
  <2>1. UNCHANGED <<order, caller>>
    BY <1>3 DEF ListenerAccept
  <2>2. CASE UNCHANGED <<freshConns, waiting, client, clientSession, authenticated, sessionVars>>
    BY <1>1, <2>1, <2>2 DEF sessionVars
  <2>3. ASSUME NEW k \in freshConns, freshConns' = freshConns \ {k},
               \/ waiting = NoConn /\ Admit(k) /\ UNCHANGED waiting
               \/ waiting' \in {k, waiting} /\ UNCHANGED <<client, authenticated, sessionVars>>
        PROVE  ConnInv'
    <3>1. k \in Conns /\ k \notin Items(admitted)
      BY DEF TypeInv, TypeOK, ConnInv
    <3>2. CASE waiting = NoConn /\ Admit(k) /\ UNCHANGED waiting
      BY <2>1, <2>3, <3>1, <3>2, ConnAdmit
    <3>3. CASE waiting' \in {k, waiting} /\ UNCHANGED <<client, authenticated, sessionVars>>
      BY <2>1, <2>3, <3>1, <3>3, ConnKept DEF sessionVars
    <3> QED BY <2>3, <3>2, <3>3
  <2> QED BY <1>3, <2>2, <2>3 DEF ListenerAccept
<1>4. CASE ListenerRead
  <2>1. UNCHANGED <<freshConns, waiting>>
    BY <1>4 DEF ListenerRead
  <2>2. CASE CloseSession /\ UNCHANGED <<order, caller>>
    BY <1>1, <2>1, <2>2 DEF CloseSession
  <2>3. CASE authenticated' = TRUE /\ UNCHANGED <<client, sessionVars, order, caller>>
    BY <2>1, <2>3, ConnKept DEF sessionVars
  <2>4. CASE UNCHANGED <<client, authenticated, sessionVars, order, caller>>
    BY <1>1, <2>1, <2>4 DEF sessionVars
  <2>5. ASSUME NEW d \in NetworkCalls \ Made, Arrives(d), caller' = [caller EXCEPT ![d] = client],
               client # NoConn, authenticated, UNCHANGED <<client, authenticated, sessionVars>>
        PROVE  ConnInv'
    <3>1. \A c \in Calls \ {d} : order'[c] = order[c] /\ caller'[c] = caller[c]
      BY <2>5 DEF Arrives, TypeInv, TypeOK
    <3>2. caller'[d] = client
      BY <2>5 DEF NetworkCalls, TypeInv, TypeOK
    <3> QED BY <2>1, <2>5, <3>1, <3>2 DEF ConnInv, sessionVars, NetworkCalls
  <2> QED BY <1>4, <2>2, <2>3, <2>4, <2>5 DEF ListenerRead
<1>5. CASE ListenerNewcomer
  <2>1. UNCHANGED <<order, caller, freshConns>>
    BY <1>5 DEF ListenerNewcomer, worldVars
  <2>2. CASE waiting # NoConn /\ Admit(waiting) /\ waiting' = NoConn
    BY <2>1, <2>2, ConnAdmit DEF ConnInv, TypeInv, TypeOK
  <2>3. CASE waiting' \in {waiting, NoConn} /\ UNCHANGED <<client, authenticated, sessionVars>>
    BY <2>1, <2>3, ConnKept DEF sessionVars
  <2> QED BY <1>5, <2>2, <2>3 DEF ListenerNewcomer
<1>6. CASE ListenerCall
  BY <1>1, <1>6 DEF ListenerCall, ReplyDirectly, EnqueueNetworkCall, CloseSession, sessionVars
<1>7. CASE ListenerFlush
  BY <1>1, <1>7, FlushCases DEF Flushed, Dropped, Written, Closed, FlushKeeps, CloseSession, sessionVars
<1>8. CASE ListenerExit
  <2>1. waiting' = NoConn /\ UNCHANGED <<order, caller, admitted, freshConns>>
    BY <1>8 DEF ListenerExit, worldVars, CloseSession, sessionVars
  <2>2. client' = NoConn \/ UNCHANGED <<client, authenticated>>
    BY <1>8 DEF ListenerExit, CloseSession
  <2> QED BY <2>1, <2>2, ConnKept
<1>9. CASE ListenerConnected \/ ListenerCheck \/ ListenerFail
  BY <1>1, <1>9 DEF ListenerConnected, ListenerCheck, ListenerFail, sessionVars, worldVars
<1>10. CASE PumpBegin \/ PumpStep
  BY <1>1, <1>10 DEF PumpBegin, PumpStep, PumpBreak, PumpTakeActive, TakeActive, PumpLookInbox,
     PumpResume, PumpTakeNext, PumpRun, PumpLeave, PumpNotify, sessionVars, listenerVars, worldVars
<1>11. CASE StartListening \/ StartFails \/ StopBegin \/ StopStep \/ ToggleDialog \/ Tick \/ UNCHANGED vars
  BY <1>1, <1>11 DEF StartListening, StartFails, StartBegin, StopBegin, StopStep, StopDrain, StopJoin,
     StopNotify, ToggleDialog, Tick, vars, sessionVars, listenerVars, worldVars
<1> QED BY <1>2, <1>3, <1>4, <1>5, <1>6, <1>7, <1>8, <1>9, <1>10, <1>11 DEF Next, ListenerStep

-----------------------------------------------------------------------------
(* Every call in one place *)

\* A call whose reply may be dropped: the client that made it has gone, or the listener is leaving.
Lost(c) == c \in NetworkCalls /\ (caller[c] # client \/ lpc = "exit")

LEMMA CallsStay ==
  ASSUME TypeInv, [Next]_vars, NEW c \in Calls, order[c] # 0
  PROVE  order'[c] = order[c] /\ caller'[c] = caller[c]
<1>1. CASE UNCHANGED <<order, caller>>
  BY <1>1
<1>2. ASSUME NEW d \in Calls, Submit(d) PROVE order'[c] = order[c] /\ caller'[c] = caller[c]
  BY <1>2 DEF Submit, Arrives, Made, TypeInv, TypeOK
<1>3. CASE ListenerRead
  <2>1. ASSUME NEW d \in NetworkCalls \ Made, Arrives(d), caller' = [caller EXCEPT ![d] = client]
        PROVE  order'[c] = order[c] /\ caller'[c] = caller[c]
    BY <2>1 DEF Arrives, Made, TypeInv, TypeOK
  <2> QED BY <1>1, <1>3, <2>1 DEF ListenerRead
<1>4. CASE ListenerStep \/ ListenerFail \/ PumpBegin \/ PumpStep \/ StartListening \/ StartFails \/ StopBegin
           \/ StopStep \/ ToggleDialog \/ Tick \/ UNCHANGED vars
  BY <1>1, <1>3, <1>4 DEF ListenerStep, ListenerAccept, ListenerConnected, ListenerCall,
     ListenerNewcomer, ListenerFlush, ListenerCheck, ListenerExit, ListenerFail, PumpBegin, PumpStep,
     PumpBreak, PumpTakeActive, TakeActive, PumpLookInbox, PumpResume, PumpTakeNext, PumpRun, PumpLeave,
     PumpNotify, StartListening, StartFails, StartBegin, StopBegin, StopStep, StopDrain, StopJoin,
     StopNotify, ToggleDialog, Tick, vars, worldVars
<1> QED BY <1>2, <1>4 DEF Next

\* A client that is admitted is new.
LEMMA ClientMoves ==
  ASSUME TypeInv, ConnInv, [Next]_vars
  PROVE  client' \in {client, NoConn} \/ (client' \in Conns /\ client' \notin Items(admitted))
<1>1. CASE client' \in {client, NoConn}
  BY <1>1
<1>2. CASE ListenerAccept \/ ListenerNewcomer
  BY <1>2 DEF ListenerAccept, ListenerNewcomer, Admit, ConnInv, TypeInv, TypeOK
<1>3. CASE UNCHANGED listenerVars
  BY <1>1, <1>3 DEF listenerVars
<1>4. ASSUME NEW d \in Calls, Submit(d) PROVE UNCHANGED listenerVars
  BY <1>4 DEF Submit
<1>5. CASE PumpBegin \/ PumpStep \/ StartListening \/ StartFails \/ StopBegin \/ StopStep \/ ToggleDialog
           \/ Tick \/ UNCHANGED vars
  BY <1>1, <1>5 DEF PumpBegin, PumpStep, PumpBreak, PumpTakeActive, TakeActive, PumpLookInbox,
     PumpResume, PumpTakeNext, PumpRun, PumpLeave, PumpNotify, StartListening, StartFails, StartBegin,
     StopBegin, StopStep, StopDrain, StopJoin, StopNotify, ToggleDialog, Tick, vars, listenerVars
<1>6. CASE ListenerStep \/ ListenerFail
  BY <1>1, <1>2, <1>6 DEF ListenerStep, ListenerRead, ListenerConnected, ListenerCall, ReplyDirectly,
     EnqueueNetworkCall, ListenerFlush, ListenerCheck, ListenerExit, ListenerFail, CloseSession
<1> QED BY <1>3, <1>4, <1>5, <1>6 DEF Next

LEMMA LostStays ==
  ASSUME TypeInv, CallerInv, ConnInv, [Next]_vars, NEW c \in Calls, order[c] # 0, Lost(c)
  PROVE  Lost(c)'
<1>1. /\ c \in NetworkCalls /\ caller'[c] = caller[c] /\ caller[c] \in Items(admitted)
      /\ caller[c] \in Conns /\ caller[c] # NoConn
  BY CallsStay, ConnsAssumption DEF Lost, ConnInv, CallerInv
<1>2. CASE caller[c] # client
  BY <1>1, <1>2, ClientMoves DEF Lost, NetworkCalls
<1>3. CASE lpc = "exit" /\ caller[c] = client
  <2>1. CASE ListenerExit
    BY <1>1, <1>3, <2>1 DEF ListenerExit, CloseSession, Lost, NetworkCalls
  <2>2. CASE lpc' = lpc
    BY <1>1, <1>3, <2>2 DEF Lost, NetworkCalls
  <2>3. ASSUME NEW d \in Calls, Submit(d) PROVE lpc' = lpc
    BY <2>3 DEF Submit, listenerVars
  <2>4. ~ListenerAccept /\ ~ListenerRead /\ ~ListenerConnected /\ ~ListenerCall /\ ~ListenerNewcomer
        /\ ~ListenerFlush /\ ~ListenerCheck /\ ~ListenerFail /\ ~StartListening
    BY <1>3 DEF ListenerAccept, ListenerRead, ListenerConnected, ListenerCall, ListenerNewcomer,
       ListenerFlush, ListenerCheck, ListenerFail, StartListening, StartBegin
  <2>5. CASE PumpBegin \/ PumpStep \/ StartFails \/ StopBegin \/ StopStep \/ ToggleDialog \/ Tick
             \/ UNCHANGED vars
    BY <2>2, <2>5 DEF PumpBegin, PumpStep, PumpBreak, PumpTakeActive, TakeActive, PumpLookInbox,
       PumpResume, PumpTakeNext, PumpRun, PumpLeave, PumpNotify, StartFails, StopBegin, StopStep,
       StopDrain, StopJoin, StopNotify, ToggleDialog, Tick, vars, listenerVars
  <2> QED BY <2>1, <2>2, <2>3, <2>4, <2>5 DEF Next, ListenerStep
<1> QED BY <1>2, <1>3 DEF Lost
PlacesInv ==
  /\ spc \in {"idle", "drain"} => stopCompletions = <<>>
  /\ \A c \in Calls : IF order[c] = 0 THEN Places(c) = 0
                      ELSE Places(c) = 1 \/ (Places(c) = 0 /\ Lost(c))

\* What a step may do to a call: leave it in as many places as it was, make it, or lose it.
Placed(c) ==
  \/ order'[c] = order[c] /\ Places(c)' = Places(c)
  \/ order[c] = 0 /\ order'[c] # 0 /\ Places(c)' = Places(c) + 1
  \/ order[c] # 0 /\ order'[c] = order[c] /\ Places(c)' <= Places(c) /\ Lost(c)'

\* Each of the places holds a call a number of times.
LEMMA PlacesType ==
  ASSUME TypeInv, NEW c \in Calls
  PROVE  /\ Reading(c) \in Nat /\ OccursIn(inbox, c) \in Nat /\ Occupies(active, c) \in Nat
         /\ Occupies(held, c) \in Nat /\ OccursIn(outbox, c) \in Nat /\ OccursIn(completions, c) \in Nat
         /\ OccursIn(stopCompletions, c) \in Nat /\ OccursIn(answers, c) \in Nat /\ Places(c) \in Nat
<1>1. /\ inbox \in Seq(PendingCall) /\ outbox \in Seq(Response) /\ completions \in Seq(Completion)
      /\ stopCompletions \in Seq(Completion) /\ answers \in Seq(Answer)
  BY DEF TypeInv, TypeOK
<1>2. /\ OccursIn(inbox, c) \in Nat /\ OccursIn(outbox, c) \in Nat /\ OccursIn(completions, c) \in Nat
      /\ OccursIn(stopCompletions, c) \in Nat /\ OccursIn(answers, c) \in Nat
  BY <1>1, OccursType
<1>3. Reading(c) \in Nat /\ Occupies(active, c) \in Nat /\ Occupies(held, c) \in Nat
  BY DEF Reading, Occupies
<1> QED BY <1>2, <1>3 DEF Places

LEMMA SamePlaces ==
  ASSUME UNCHANGED <<line, inbox, active, held, outbox, completions, stopCompletions, answers, order>>,
         NEW c \in Calls
  PROVE  Placed(c)
<1>1. Places(c)' = Places(c)
  BY DEF Places, Reading
<1> QED BY <1>1 DEF Placed

\* As many in each place, but for the line
LEMMA LineLeft ==
  ASSUME UNCHANGED <<inbox, active, held, outbox, completions, stopCompletions, answers, order>>,
         NEW c \in Calls, line # c, line' # c
  PROVE  Placed(c)
<1>1. Places(c)' = Places(c)
  BY DEF Places, Reading
<1> QED BY <1>1 DEF Placed

LEMMA Arrived ==
  ASSUME TypeInv, NEW d \in Calls \ Made, Arrives(d)
  PROVE  /\ order[d] = 0 /\ order'[d] # 0 /\ \A c \in Calls \ {d} : order'[c] = order[c]
<1>1. Cardinality(Made) \in Nat
  BY FS_CardinalityType DEF TypeInv
<1>2. order' = [order EXCEPT ![d] = Cardinality(Made) + 1] /\ order \in [Calls -> Nat] /\ order[d] = 0
  BY DEF Arrives, TypeInv, TypeOK, Made
<1> QED BY <1>1, <1>2

LEMMA PlacedSubmit ==
  ASSUME TypeInv, NEW d \in Calls, Submit(d), NEW c \in Calls
  PROVE  Placed(c)
<1>1. /\ d \in Calls \ Made /\ Arrives(d)
      /\ UNCHANGED <<line, active, held, outbox, completions, stopCompletions>>
  BY DEF Submit, queueVars, pumpVars, stopVars, listenerVars
<1>2. order[d] = 0 /\ order'[d] # 0 /\ \A b \in Calls \ {d} : order'[b] = order[b]
  BY <1>1, Arrived
<1>3. inbox \in Seq(PendingCall) /\ answers \in Seq(Answer)
  BY DEF TypeInv, TypeOK
<1>4. /\ Reading(c) \in Nat /\ OccursIn(inbox, c) \in Nat /\ Occupies(active, c) \in Nat
      /\ Occupies(held, c) \in Nat /\ OccursIn(outbox, c) \in Nat /\ OccursIn(completions, c) \in Nat
      /\ OccursIn(stopCompletions, c) \in Nat /\ OccursIn(answers, c) \in Nat
  BY PlacesType
<1>5. Places(c)' = Places(c) + (IF d = c THEN 1 ELSE 0)
  <2>1. CASE inbox' = Append(inbox, Arrival(d, 0)) /\ UNCHANGED answers
    <3> DEFINE x == Arrival(d, 0)
    <3>1. x \in PendingCall /\ x.call = d
      BY BoundsAssumption DEF Arrival, PendingCall, ParkAges, NotParked
    <3> HIDE DEF x
    <3>2. OccursIn(Append(inbox, x), c) = OccursIn(inbox, c) + (IF x.call = c THEN 1 ELSE 0)
      BY <1>3, <3>1, OccursMore
    <3>3. OccursIn(inbox', c) = OccursIn(inbox, c) + (IF d = c THEN 1 ELSE 0)
      BY <2>1, <3>1, <3>2 DEF x
    <3>4. UNCHANGED <<Reading(c), Occupies(active, c), Occupies(held, c), OccursIn(outbox, c),
                        OccursIn(completions, c), OccursIn(stopCompletions, c), OccursIn(answers, c)>>
      BY <1>1, <2>1 DEF Reading
    <3> QED BY <1>4, <3>3, <3>4 DEF Places
  <2>2. ASSUME NEW kind \in {"Unavailable", "Overloaded"}, UNCHANGED inbox,
               answers' = Append(answers, [call |-> d, to |-> NoConn, result |-> kind])
        PROVE  Places(c)' = Places(c) + (IF d = c THEN 1 ELSE 0)
    <3> DEFINE x == [call |-> d, to |-> NoConn, result |-> kind]
    <3>1. x \in Answer /\ x.call = d
      BY DEF Answer, ResultKinds
    <3> HIDE DEF x
    <3>2. OccursIn(Append(answers, x), c) = OccursIn(answers, c) + (IF x.call = c THEN 1 ELSE 0)
      BY <1>3, <3>1, OccursMore
    <3>3. OccursIn(answers', c) = OccursIn(answers, c) + (IF d = c THEN 1 ELSE 0)
      BY <2>2, <3>1, <3>2 DEF x
    <3>4. UNCHANGED <<Reading(c), OccursIn(inbox, c), Occupies(active, c), Occupies(held, c),
                        OccursIn(outbox, c), OccursIn(completions, c), OccursIn(stopCompletions, c)>>
      BY <1>1, <2>2 DEF Reading
    <3> QED BY <1>4, <3>3, <3>4 DEF Places
  <2> QED BY <2>1, <2>2 DEF Submit, queueVars
<1> QED BY <1>2, <1>4, <1>5 DEF Placed, Places

\* Closing a session drops the replies that wait for it, which are those of the client.
LEMMA ClosedPlaces ==
  ASSUME TypeInv, SessionInv, CallerInv, RoutesInv, CloseSession, UNCHANGED caller, NEW c \in Calls
  PROVE  /\ OccursIn(outbox', c) <= OccursIn(outbox, c) /\ OccursIn(outbox', c) \in Nat
         /\ \/ OccursIn(outbox', c) = OccursIn(outbox, c)
            \/ order[c] # 0 /\ Lost(c)'
<1> DEFINE S == {r \in Response : r.session # clientSession}
<1>1. outbox \in Seq(Response) /\ outbox' = Keeping(outbox, S) /\ client' = NoConn
  BY DEF TypeInv, TypeOK, CloseSession
<1> HIDE DEF S
<1>2. /\ OccursIn(outbox', c) <= OccursIn(outbox, c) /\ OccursIn(outbox', c) \in Nat
      /\ (\A x \in Items(outbox) : x.call = c => x \in S) => OccursIn(outbox', c) = OccursIn(outbox, c)
  BY <1>1, OccursKept
<1>3. ASSUME NEW x \in Items(outbox), x.call = c, x \notin S PROVE order[c] # 0 /\ Lost(c)'
  <2>1. Credited(x, order, admitted, caller) /\ x.session # 0
    BY DEF RoutesInv
  <2>2. c \in NetworkCalls /\ order[c] # 0 /\ caller[c] \in Conns
    BY <1>3, <2>1 DEF Credited, CallerInv
  <2> QED BY <1>1, <2>2, ConnsAssumption DEF Lost, NetworkCalls
<1> QED BY <1>2, <1>3

\* A step that closes the session, and does nothing else to calls
LEMMA PlacedClose ==
  ASSUME TypeInv, SessionInv, CallerInv, RoutesInv, CloseSession, NEW c \in Calls, line # c, line' # c,
         UNCHANGED <<held, completions, stopCompletions, answers, order, caller>>
  PROVE  Placed(c)
<1>1. /\ OccursIn(outbox', c) <= OccursIn(outbox, c) /\ OccursIn(outbox', c) \in Nat
      /\ \/ OccursIn(outbox', c) = OccursIn(outbox, c)
         \/ order[c] # 0 /\ Lost(c)'
  BY ClosedPlaces
<1>2. /\ Reading(c) \in Nat /\ OccursIn(inbox, c) \in Nat /\ Occupies(active, c) \in Nat
      /\ Occupies(held, c) \in Nat /\ OccursIn(outbox, c) \in Nat /\ OccursIn(completions, c) \in Nat
      /\ OccursIn(stopCompletions, c) \in Nat /\ OccursIn(answers, c) \in Nat
  BY PlacesType
<1>3. UNCHANGED <<inbox, active>> /\ Reading(c)' = Reading(c)
  BY DEF CloseSession, Reading
<1>4. Places(c)' <= Places(c)
      /\ (OccursIn(outbox', c) = OccursIn(outbox, c) => Places(c)' = Places(c))
  BY <1>1, <1>2, <1>3 DEF Places
<1> QED BY <1>1, <1>4 DEF Placed

LEMMA PlacedRead ==
  ASSUME TypeInv, SessionInv, CallerInv, RoutesInv, ListenerRead, NEW c \in Calls
  PROVE  Placed(c)
<1>1. /\ line # c /\ line \notin Calls /\ UNCHANGED <<held, completions, stopCompletions, answers>>
      /\ c # Hello
  BY CallsAssumption DEF ListenerRead, CallerInv, pumpVars, stopVars
<1>2. CASE CloseSession /\ UNCHANGED <<line, order, caller>>
  BY <1>1, <1>2, PlacedClose
<1>3. CASE line' \in {line, Hello} /\ UNCHANGED <<queueVars, order>>
  BY <1>1, <1>3, LineLeft DEF queueVars
<1>4. ASSUME NEW d \in NetworkCalls \ Made, line' = d, Arrives(d), UNCHANGED queueVars
      PROVE  Placed(c)
  <2>1. d \in Calls \ Made
    BY DEF NetworkCalls
  <2>2. order[d] = 0 /\ order'[d] # 0 /\ \A b \in Calls \ {d} : order'[b] = order[b]
    BY <1>4, <2>1, Arrived
  <2>3. /\ Reading(c) \in Nat /\ OccursIn(inbox, c) \in Nat /\ Occupies(active, c) \in Nat
        /\ Occupies(held, c) \in Nat /\ OccursIn(outbox, c) \in Nat /\ OccursIn(completions, c) \in Nat
        /\ OccursIn(stopCompletions, c) \in Nat /\ OccursIn(answers, c) \in Nat
    BY PlacesType
  <2>4. Reading(c) = 0 /\ Reading(c)' = (IF d = c THEN 1 ELSE 0)
    BY <1>1, <1>4 DEF Reading
  <2>5. Places(c)' = Places(c) + (IF d = c THEN 1 ELSE 0)
    BY <1>1, <1>4, <2>3, <2>4 DEF Places, queueVars
  <2> QED BY <2>2, <2>3, <2>5 DEF Placed, Places
<1> QED BY <1>2, <1>3, <1>4 DEF ListenerRead
LEMMA PlacedCall ==
  ASSUME TypeInv, SessionInv, CallerInv, RoutesInv, ListenerCall, NEW c \in Calls
  PROVE  Placed(c)
<1>1. /\ line \in Calls /\ line' = NoCall /\ line' # c /\ clientSession \in Nat
      /\ client \in Conns \cup {NoConn} /\ line \in NetworkCalls /\ order[line] # 0
      /\ caller[line] = client /\ client \in Conns
      /\ UNCHANGED <<held, completions, stopCompletions, order, caller>>
  BY CallsAssumption DEF ListenerCall, pumpVars, stopVars, CallerInv, TypeInv, TypeOK
<1>2. /\ Reading(c) \in Nat /\ OccursIn(inbox, c) \in Nat /\ Occupies(active, c) \in Nat
      /\ Occupies(held, c) \in Nat /\ OccursIn(outbox, c) \in Nat /\ OccursIn(completions, c) \in Nat
      /\ OccursIn(stopCompletions, c) \in Nat /\ OccursIn(answers, c) \in Nat
  BY PlacesType
<1>3. Reading(c) = (IF line = c THEN 1 ELSE 0) /\ Reading(c)' = 0
  BY <1>1 DEF Reading
<1>4. inbox \in Seq(PendingCall) /\ outbox \in Seq(Response) /\ answers \in Seq(Answer)
  BY DEF TypeInv, TypeOK
<1>5. ASSUME NEW kind \in {"Invalid", "Overloaded"}, ReplyDirectly(kind) PROVE Placed(c)
  <2>1. CASE CloseSession /\ UNCHANGED answers
    <3>1. /\ OccursIn(outbox', c) <= OccursIn(outbox, c) /\ OccursIn(outbox', c) \in Nat
          /\ \/ OccursIn(outbox', c) = OccursIn(outbox, c)
             \/ order[c] # 0 /\ Lost(c)'
      BY <1>1, <2>1, ClosedPlaces
    <3>2. UNCHANGED <<inbox, active>> /\ client' = NoConn
      BY <2>1 DEF CloseSession
    <3>3. /\ Places(c)' <= Places(c)
          /\ (line # c /\ OccursIn(outbox', c) = OccursIn(outbox, c) => Places(c)' = Places(c))
      BY <1>1, <1>2, <1>3, <2>1, <3>1, <3>2 DEF Places
    <3>4. line = c => order[c] # 0 /\ Lost(c)'
      BY <1>1, <3>2, ConnsAssumption DEF Lost, NetworkCalls
    <3> QED BY <1>1, <3>1, <3>3, <3>4 DEF Placed
  <2>2. CASE /\ answers' = Append(answers, [call |-> line, to |-> client, result |-> kind])
             /\ UNCHANGED queueVars
    <3> DEFINE x == [call |-> line, to |-> client, result |-> kind]
    <3>1. x \in Answer /\ x.call = line
      BY <1>1 DEF Answer, ResultKinds
    <3> HIDE DEF x
    <3>2. OccursIn(Append(answers, x), c) = OccursIn(answers, c) + (IF x.call = c THEN 1 ELSE 0)
      BY <1>4, <3>1, OccursMore
    <3>3. OccursIn(answers', c) = OccursIn(answers, c) + (IF line = c THEN 1 ELSE 0)
      BY <2>2, <3>1, <3>2 DEF x
    <3>4. UNCHANGED <<OccursIn(inbox, c), Occupies(active, c), Occupies(held, c), OccursIn(outbox, c),
                        OccursIn(completions, c), OccursIn(stopCompletions, c)>>
      BY <1>1, <2>2 DEF queueVars
    <3>5. Places(c)' = Places(c)
      BY <1>2, <1>3, <3>3, <3>4 DEF Places
    <3> QED BY <1>1, <3>5 DEF Placed
  <2> QED BY <1>5, <2>1, <2>2 DEF ReplyDirectly
<1>6. CASE EnqueueNetworkCall(line) /\ UNCHANGED answers
  <2> DEFINE x == Arrival(line, clientSession)
             y == ResponseFor(Arrival(line, clientSession), "Unavailable")
  <2>1. /\ x \in PendingCall /\ x.call = line /\ y \in Response /\ y.call = line
    BY <1>1, BoundsAssumption DEF Arrival, ResponseFor, PendingCall, Response, ParkAges, NotParked,
                                  ResultKinds
  <2>2. CASE outbox' = Append(outbox, y) /\ UNCHANGED <<inbox, active>>
    <3> HIDE DEF x, y
    <3>1. OccursIn(Append(outbox, y), c) = OccursIn(outbox, c) + (IF y.call = c THEN 1 ELSE 0)
      BY <1>4, <2>1, OccursMore
    <3>2. Places(c)' = Places(c)
      BY <1>1, <1>2, <1>3, <1>6, <2>1, <2>2, <3>1 DEF Places
    <3> QED BY <1>1, <3>2 DEF Placed
  <2>3. CASE inbox' = Append(inbox, x) /\ UNCHANGED <<active, outbox>>
    <3> HIDE DEF x, y
    <3>1. OccursIn(Append(inbox, x), c) = OccursIn(inbox, c) + (IF x.call = c THEN 1 ELSE 0)
      BY <1>4, <2>1, OccursMore
    <3>2. Places(c)' = Places(c)
      BY <1>1, <1>2, <1>3, <1>6, <2>1, <2>3, <3>1 DEF Places
    <3> QED BY <1>1, <3>2 DEF Placed
  <2> QED BY <1>6, <2>2, <2>3 DEF EnqueueNetworkCall
<1> QED BY <1>5, <1>6 DEF ListenerCall

\* A reply that is dropped is one of a client that has gone.
LEMMA DroppedIsLost ==
  ASSUME TypeInv, SessionInv, CallerInv, RoutesInv, ConnInv, outbox # <<>>,
         client = NoConn \/ ~authenticated \/ Head(outbox).session # clientSession
  PROVE  /\ Head(outbox).call \in Calls /\ order[Head(outbox).call] # 0
         /\ Head(outbox).call \in NetworkCalls /\ caller[Head(outbox).call] # client
<1> DEFINE h == Head(outbox)
<1>1. h \in Items(outbox)
  BY ItemsOfRest DEF TypeInv, TypeOK
<1> HIDE DEF h
<1>2. Credited(h, order, admitted, caller) /\ h.session # 0
  BY <1>1 DEF RoutesInv
<1>3. /\ h.call \in Calls /\ order[h.call] # 0 /\ h.call \in NetworkCalls
      /\ h.session \in 1..Len(admitted) /\ admitted[h.session] = caller[h.call]
      /\ caller[h.call] \in Conns
  BY <1>2 DEF Credited, CallerInv
<1>4. CASE client = NoConn
  BY <1>3, <1>4, ConnsAssumption DEF h
<1>5. CASE client # NoConn /\ ~authenticated
  BY <1>3, <1>5 DEF ConnInv, h
<1>6. CASE client # NoConn /\ h.session # clientSession
  <2>1. clientSession \in 1..Len(admitted) /\ admitted[clientSession] = client
    BY <1>6 DEF SessionInv
  <2>2. DOMAIN admitted = 1..Len(admitted)
    BY DEF TypeInv, TypeOK
  <2> QED BY <1>3, <1>6, <2>1, <2>2 DEF ConnInv, h
<1> QED BY <1>4, <1>5, <1>6 DEF h

LEMMA PlacedFlush ==
  ASSUME TypeInv, SessionInv, CallerInv, RoutesInv, ConnInv, ListenerFlush, NEW c \in Calls
  PROVE  Placed(c)
<1>1. UNCHANGED <<line, held, completions, stopCompletions, order, caller>> /\ line # c
  BY FlushCases DEF pumpVars, stopVars, CallerInv, ListenerFlush
<1>2. /\ Reading(c) \in Nat /\ OccursIn(inbox, c) \in Nat /\ Occupies(active, c) \in Nat
      /\ Occupies(held, c) \in Nat /\ OccursIn(outbox, c) \in Nat /\ OccursIn(completions, c) \in Nat
      /\ OccursIn(stopCompletions, c) \in Nat /\ OccursIn(answers, c) \in Nat
  BY PlacesType
<1>3. Reading(c)' = Reading(c)
  BY <1>1 DEF Reading
<1>4. outbox \in Seq(Response) /\ answers \in Seq(Answer) /\ client \in Conns \cup {NoConn}
  BY DEF TypeInv, TypeOK
<1>5. CASE Flushed
  BY <1>1, <1>5, SamePlaces DEF Flushed, FlushKeeps
<1>6. CASE Closed
  BY <1>1, <1>6, PlacedClose DEF Closed
<1>7. CASE Dropped
  <2>1. outbox # <<>> /\ outbox' = Tail(outbox) /\ UNCHANGED <<inbox, active, answers, client>>
    BY <1>7 DEF Dropped, FlushKeeps
  <2>2. OccursIn(outbox, c) = OccursIn(Tail(outbox), c) + (IF Head(outbox).call = c THEN 1 ELSE 0)
        /\ OccursIn(Tail(outbox), c) \in Nat
    <3>1. Tail(outbox) \in Seq(Response)
      BY <1>4, <2>1
    <3> QED BY <1>4, <2>1, <3>1, OccursRest, OccursType
  <2>3. Places(c)' <= Places(c) /\ (Head(outbox).call # c => Places(c)' = Places(c))
    <3>1. UNCHANGED <<Reading(c), OccursIn(inbox, c), Occupies(active, c), Occupies(held, c),
                        OccursIn(completions, c), OccursIn(stopCompletions, c), OccursIn(answers, c)>>
      BY <1>1, <1>3, <2>1
    <3>2. OccursIn(outbox', c) = OccursIn(Tail(outbox), c)
      BY <2>1
    <3>3. /\ OccursIn(outbox', c) \in Nat /\ OccursIn(outbox', c) <= OccursIn(outbox, c)
          /\ Head(outbox).call # c => OccursIn(outbox', c) = OccursIn(outbox, c)
      BY <2>2, <3>2
    <3> QED BY <1>2, <3>1, <3>3 DEF Places
  <2>4. Head(outbox).call = c => order[c] # 0 /\ Lost(c)'
    <3>1. /\ order[Head(outbox).call] # 0 /\ Head(outbox).call \in NetworkCalls
          /\ caller[Head(outbox).call] # client
      BY <1>7, <2>1, DroppedIsLost DEF Dropped
    <3> QED BY <1>1, <2>1, <3>1 DEF Lost, NetworkCalls
  <2> QED BY <1>1, <2>3, <2>4 DEF Placed
<1>8. CASE Written
  <2> DEFINE x == [call |-> Head(outbox).call, to |-> client, result |-> Head(outbox).result]
  <2>1. outbox # <<>> /\ outbox' = Tail(outbox) /\ UNCHANGED <<inbox, active>>
        /\ answers' = Append(answers, x)
    BY <1>8 DEF Written, FlushKeeps
  <2>2. Head(outbox) \in Response /\ Tail(outbox) \in Seq(Response)
    BY <1>4, <2>1, ItemsOfRest
  <2>3. x \in Answer /\ x.call = Head(outbox).call
    BY <1>4, <2>2 DEF Answer, Response
  <2> HIDE DEF x
  <2>4. OccursIn(outbox, c) = OccursIn(Tail(outbox), c) + (IF Head(outbox).call = c THEN 1 ELSE 0)
        /\ OccursIn(Tail(outbox), c) \in Nat
    BY <1>4, <2>1, <2>2, OccursRest, OccursType
  <2>5. OccursIn(Append(answers, x), c) = OccursIn(answers, c) + (IF x.call = c THEN 1 ELSE 0)
    BY <1>4, <2>3, OccursMore
  <2>6. Places(c)' = Places(c)
    <3>1. UNCHANGED <<Reading(c), OccursIn(inbox, c), Occupies(active, c), Occupies(held, c),
                        OccursIn(completions, c), OccursIn(stopCompletions, c)>>
      BY <1>1, <1>3, <2>1
    <3>2. OccursIn(outbox', c) = OccursIn(Tail(outbox), c)
          /\ OccursIn(answers', c) = OccursIn(answers, c) + (IF x.call = c THEN 1 ELSE 0)
      BY <2>1, <2>5
    <3>3. OccursIn(outbox', c) + OccursIn(answers', c) = OccursIn(outbox, c) + OccursIn(answers, c)
          /\ OccursIn(outbox', c) \in Nat /\ OccursIn(answers', c) \in Nat
      BY <1>2, <2>3, <2>4, <3>2
    <3> QED BY <1>2, <3>1, <3>3 DEF Places
  <2> QED BY <1>1, <2>6 DEF Placed
<1> QED BY <1>5, <1>6, <1>7, <1>8, FlushCases

LEMMA PlacedListener ==
  ASSUME TypeInv, SessionInv, CallerInv, RoutesInv, ConnInv, ListenerStep \/ ListenerFail,
         NEW c \in Calls
  PROVE  Placed(c)
<1>1. CASE ListenerAccept \/ ListenerNewcomer \/ ListenerCheck
  BY <1>1, SamePlaces DEF ListenerAccept, ListenerNewcomer, ListenerCheck, queueVars, pumpVars, stopVars,
                          worldVars
<1>2. CASE ListenerConnected
  BY <1>2, LineLeft, CallsAssumption DEF ListenerConnected, queueVars, pumpVars, stopVars, worldVars
<1>3. CASE ListenerExit
  <2>1. line # c /\ UNCHANGED <<line, held, completions, stopCompletions, answers, order, caller>>
    BY <1>3 DEF ListenerExit, CallerInv, pumpVars, stopVars, worldVars
  <2> QED BY <1>3, <2>1, PlacedClose, SamePlaces DEF ListenerExit, queueVars
<1>4. CASE ListenerFail
  <2>1. /\ line' = NoCall /\ lpc' = "exit" /\ c # NoCall
        /\ UNCHANGED <<inbox, active, held, outbox, completions, stopCompletions, answers, order, caller,
                       client>>
    BY <1>4, CallsAssumption DEF ListenerFail, queueVars, pumpVars, stopVars, worldVars
  <2>2. CASE line # c
    BY <2>1, <2>2, LineLeft
  <2>3. CASE line = c
    <3>1. order[c] # 0 /\ Lost(c)'
      BY <2>1, <2>3 DEF CallerInv, Lost, NetworkCalls
    <3>2. Reading(c)' <= Reading(c)
      BY <2>1 DEF Reading
    <3>3. /\ Reading(c) \in Nat /\ OccursIn(inbox, c) \in Nat /\ Occupies(active, c) \in Nat
          /\ Occupies(held, c) \in Nat /\ OccursIn(outbox, c) \in Nat /\ OccursIn(completions, c) \in Nat
          /\ OccursIn(stopCompletions, c) \in Nat /\ OccursIn(answers, c) \in Nat /\ Reading(c)' \in Nat
      BY PlacesType DEF Reading
    <3>4. Places(c)' <= Places(c)
      BY <2>1, <3>2, <3>3 DEF Places
    <3> QED BY <2>1, <3>1, <3>4 DEF Placed
  <2> QED BY <2>2, <2>3
<1> QED BY <1>1, <1>2, <1>3, <1>4, PlacedRead, PlacedCall, PlacedFlush DEF ListenerStep
\* A slot that holds a call holds it once.
LEMMA SlotHolds ==
  ASSUME NEW c
  PROVE  /\ Occupies(NoCall, c) = 0
         /\ \A p \in PendingCall : /\ Occupies(p, c) = (IF p.call = c THEN 1 ELSE 0)
                                   /\ Occupies(Clocked(p), c) = Occupies(p, c)
                                   /\ Occupies(Unclocked(p), c) = Occupies(p, c)
                                   /\ Occupies(OlderCall(p), c) = Occupies(p, c)
<1>1. ASSUME NEW p \in PendingCall
      PROVE  /\ p # NoCall /\ Clocked(p) # NoCall /\ Unclocked(p) # NoCall /\ OlderCall(p) # NoCall
             /\ Clocked(p).call = p.call /\ Unclocked(p).call = p.call /\ OlderCall(p).call = p.call
  <2>1. p # NoCall /\ Clocked(p) \in PendingCall /\ Unclocked(p) \in PendingCall
    BY BoundsAssumption, NoCallAssumption DEF Clocked, Unclocked, PendingCall, ParkAges, NotParked
  <2>2. OlderCall(p) \in PendingCall
    BY <2>1, BoundsAssumption DEF OlderCall, Older, PendingCall, ParkAges, NotParked
  <2> QED BY <2>1, <2>2, SameCalls, NoCallAssumption
<1> QED BY <1>1 DEF Occupies

\* A look at the dialog leaves every call that waits.
LEMMA LookedPlaces ==
  ASSUME TypeInv, NEW box \in {inbox, ClockAll(inbox), UnclockAll(inbox)}, NEW c \in Calls
  PROVE  /\ OccursIn(box, c) = OccursIn(inbox, c)
         /\ inbox # <<>> => /\ OccursIn(inbox, c)
                                 = OccursIn(Tail(box), c) + (IF Head(inbox).call = c THEN 1 ELSE 0)
                            /\ OccursIn(Tail(box), c) \in Nat
                            /\ Head(inbox) \in PendingCall
<1>1. inbox \in Seq(PendingCall)
  BY DEF TypeInv, TypeOK
<1>2. /\ box \in Seq(PendingCall) /\ Len(box) = Len(inbox)
      /\ \A i \in 1..Len(inbox) : box[i].call = inbox[i].call
  BY <1>1, LookTypes
<1>3. DOMAIN box = DOMAIN inbox /\ DOMAIN inbox = 1..Len(inbox)
  BY <1>1, <1>2
<1>4. OccursIn(box, c) = OccursIn(inbox, c)
  BY <1>2, <1>3, OccursSame
<1>5. ASSUME inbox # <<>>
      PROVE  /\ OccursIn(inbox, c)
                  = OccursIn(Tail(box), c) + (IF Head(inbox).call = c THEN 1 ELSE 0)
             /\ OccursIn(Tail(box), c) \in Nat
             /\ Head(inbox) \in PendingCall
  <2>1. box # <<>> /\ Head(box) = box[1] /\ Head(inbox) = inbox[1] /\ 1 \in 1..Len(inbox)
    BY <1>1, <1>2, <1>5
  <2>2. Head(box).call = Head(inbox).call /\ Tail(box) \in Seq(PendingCall) /\ Head(inbox) \in PendingCall
    BY <1>1, <1>2, <2>1
  <2>3. OccursIn(box, c) = OccursIn(Tail(box), c) + (IF Head(box).call = c THEN 1 ELSE 0)
    BY <1>2, <2>1, OccursRest
  <2>4. OccursIn(Tail(box), c) \in Nat
    BY <2>2, OccursType
  <2> QED BY <1>4, <2>2, <2>3, <2>4
<1> QED BY <1>4, <1>5

\* The result of a finished call is in one of two places.
LEMMA FinishedPlaces ==
  ASSUME TypeInv, NEW p \in PendingCall, NEW kind \in ResultKinds, FinishCall(p, kind), NEW c \in Calls
  PROVE  /\ OccursIn(outbox', c) \in Nat /\ OccursIn(completions', c) \in Nat
         /\ OccursIn(outbox', c) + OccursIn(completions', c)
              = OccursIn(outbox, c) + OccursIn(completions, c) + (IF p.call = c THEN 1 ELSE 0)
         /\ held' = NoCall
<1> DEFINE r == ResponseFor(p, kind)
           d == CompletionFor(p, kind)
<1>1. r \in Response /\ r.call = p.call /\ d \in Completion /\ d.call = p.call
  BY DEF ResponseFor, CompletionFor, Response, Completion, PendingCall
<1>2. outbox \in Seq(Response) /\ completions \in Seq(Completion)
  BY DEF TypeInv, TypeOK
<1>3. OccursIn(outbox, c) \in Nat /\ OccursIn(completions, c) \in Nat
  BY PlacesType
<1>4. /\ \/ outbox' = Append(outbox, r) /\ UNCHANGED completions
         \/ completions' = Append(completions, d) /\ UNCHANGED outbox
      /\ held' = NoCall
  BY DEF FinishCall, QueueResult, Complete
<1> HIDE DEF r, d
<1>5. OccursIn(Append(outbox, r), c) = OccursIn(outbox, c) + (IF r.call = c THEN 1 ELSE 0)
  BY <1>1, <1>2, OccursMore
<1>6. OccursIn(Append(completions, d), c) = OccursIn(completions, c) + (IF d.call = c THEN 1 ELSE 0)
  BY <1>1, <1>2, OccursMore
<1>7. CASE outbox' = Append(outbox, r) /\ UNCHANGED completions
  <2>1. OccursIn(outbox', c) = OccursIn(outbox, c) + (IF p.call = c THEN 1 ELSE 0)
        /\ OccursIn(completions', c) = OccursIn(completions, c)
    BY <1>1, <1>5, <1>7
  <2> QED BY <1>3, <1>4, <2>1
<1>8. CASE completions' = Append(completions, d) /\ UNCHANGED outbox
  <2>1. OccursIn(completions', c) = OccursIn(completions, c) + (IF p.call = c THEN 1 ELSE 0)
        /\ OccursIn(outbox', c) = OccursIn(outbox, c)
    BY <1>1, <1>6, <1>8
  <2> QED BY <1>3, <1>4, <2>1
<1> QED BY <1>4, <1>7, <1>8

\* The places the pump moves calls between
InPump(c) == OccursIn(inbox, c) + Occupies(active, c) + Occupies(held, c) + OccursIn(outbox, c)
               + OccursIn(completions, c)
InPumpTyped(c) == /\ OccursIn(inbox, c) \in Nat /\ Occupies(active, c) \in Nat /\ Occupies(held, c) \in Nat
                  /\ OccursIn(outbox, c) \in Nat /\ OccursIn(completions, c) \in Nat

LEMMA PumpPlaces ==
  ASSUME TypeInv, NEW c \in Calls, UNCHANGED <<line, stopCompletions, answers, order>>,
         InPumpTyped(c)', InPump(c)' = InPump(c)
  PROVE  Placed(c)
<1>1. InPumpTyped(c) /\ Reading(c) \in Nat /\ OccursIn(stopCompletions, c) \in Nat
      /\ OccursIn(answers, c) \in Nat
  BY PlacesType DEF InPumpTyped
<1>2. UNCHANGED <<Reading(c), OccursIn(stopCompletions, c), OccursIn(answers, c)>>
  BY DEF Reading
<1>3. Places(c)' = Places(c)
  BY <1>1, <1>2 DEF Places, InPump, InPumpTyped
<1> QED BY <1>3 DEF Placed

LEMMA PlacedResume ==
  ASSUME TypeInv, ControlInv, PumpResume, NEW c \in Calls
  PROVE  Placed(c)
<1>1. /\ held \in PendingCall /\ active = NoCall
      /\ UNCHANGED <<line, stopCompletions, answers, order>>
      /\ inbox' \in {inbox, ClockAll(inbox), UnclockAll(inbox)}
  BY DEF PumpResume, ControlInv, TypeInv, TypeOK, listenerVars, stopVars
<1>2. OccursIn(inbox', c) = OccursIn(inbox, c)
  <2>1. \A box \in {inbox, ClockAll(inbox), UnclockAll(inbox)} : OccursIn(box, c) = OccursIn(inbox, c)
    BY LookedPlaces
  <2> QED BY <1>1, <2>1
<1>3. /\ OccursIn(inbox, c) \in Nat /\ OccursIn(outbox, c) \in Nat /\ OccursIn(completions, c) \in Nat
  BY PlacesType
<1>4. /\ Occupies(held, c) = (IF held.call = c THEN 1 ELSE 0) /\ Occupies(active, c) = 0
      /\ Occupies(Clocked(held), c) = Occupies(held, c) /\ Occupies(Unclocked(held), c) = Occupies(held, c)
      /\ Occupies(NoCall, c) = 0
  BY <1>1, SlotHolds
<1>5. ASSUME NEW kind \in {"Internal", "Busy"}, FinishCall(held, kind), UNCHANGED active
      PROVE  Placed(c)
  <2>1. kind \in ResultKinds
    BY DEF ResultKinds
  <2>2. /\ OccursIn(outbox', c) \in Nat /\ OccursIn(completions', c) \in Nat
        /\ OccursIn(outbox', c) + OccursIn(completions', c)
             = OccursIn(outbox, c) + OccursIn(completions, c) + (IF held.call = c THEN 1 ELSE 0)
        /\ held' = NoCall
    BY <1>1, <1>5, <2>1, FinishedPlaces
  <2>3. Occupies(held', c) = 0 /\ Occupies(active', c) = 0
    BY <1>4, <1>5, <2>2
  <2>4. InPump(c)' = InPump(c) /\ InPumpTyped(c)'
    BY <1>1, <1>2, <1>3, <1>4, <2>2, <2>3 DEF InPump, InPumpTyped
  <2> QED BY <1>1, <2>4, PumpPlaces
<1>6. ASSUME UNCHANGED <<outbox, completions>>,
             \/ active' \in {held, Clocked(held)} /\ held' = NoCall
             \/ held' = Unclocked(held) /\ UNCHANGED active
      PROVE  Placed(c)
  <2>1. /\ Occupies(active', c) + Occupies(held', c) = Occupies(active, c) + Occupies(held, c)
        /\ Occupies(active', c) \in Nat /\ Occupies(held', c) \in Nat
    BY <1>4, <1>6
  <2>2. OccursIn(outbox', c) = OccursIn(outbox, c) /\ OccursIn(completions', c) = OccursIn(completions, c)
    BY <1>6
  <2>3. Occupies(active, c) \in Nat /\ Occupies(held, c) \in Nat
    BY <1>4
  <2>4. InPump(c)' = InPump(c) /\ InPumpTyped(c)'
    BY <1>1, <1>2, <1>3, <2>1, <2>2, <2>3 DEF InPump, InPumpTyped
  <2> QED BY <1>1, <2>4, PumpPlaces
<1> QED BY <1>5, <1>6 DEF PumpResume

LEMMA PlacedTakeNext ==
  ASSUME TypeInv, ControlInv, PumpTakeNext, NEW c \in Calls
  PROVE  Placed(c)
<1> DEFINE h == Head(inbox)
<1>1. /\ inbox # <<>> /\ held = NoCall /\ active = NoCall
      /\ UNCHANGED <<line, stopCompletions, answers, order>>
  BY DEF PumpTakeNext, ControlInv, TypeInv, TypeOK, listenerVars, stopVars
<1>2. /\ OccursIn(inbox, c) \in Nat /\ OccursIn(outbox, c) \in Nat /\ OccursIn(completions, c) \in Nat
  BY PlacesType
<1>3. Occupies(held, c) = 0 /\ Occupies(active, c) = 0 /\ Occupies(NoCall, c) = 0
  BY <1>1, SlotHolds
<1>4. \A box \in {inbox, ClockAll(inbox), UnclockAll(inbox)} :
         /\ OccursIn(box, c) = OccursIn(inbox, c)
         /\ OccursIn(inbox, c) = OccursIn(Tail(box), c) + (IF h.call = c THEN 1 ELSE 0)
         /\ OccursIn(Tail(box), c) \in Nat
         /\ h \in PendingCall
  BY <1>1, LookedPlaces
<1>5. PumpTakeNext =>
        \/ FinishCall(h, "Internal") /\ inbox' = Tail(inbox) /\ UNCHANGED active
        \/ FinishCall(h, "Busy") /\ inbox' = Tail(ClockAll(inbox)) /\ UNCHANGED active
        \/ inbox' = Tail(UnclockAll(inbox)) /\ held' = Unclocked(h)
           /\ UNCHANGED <<active, outbox, completions>>
        \/ inbox' \in {inbox, ClockAll(inbox)} /\ UNCHANGED <<active, held, outbox, completions>>
  BY DEF PumpTakeNext, TakeHead, queueVars
<1>6. h \in PendingCall
  BY <1>4
<1> HIDE DEF h
<1>7. ASSUME NEW kind \in {"Internal", "Busy"}, FinishCall(h, kind), UNCHANGED active,
             NEW box \in {inbox, ClockAll(inbox)}, inbox' = Tail(box)
      PROVE  Placed(c)
  <2>1. kind \in ResultKinds
    BY DEF ResultKinds
  <2>2. /\ OccursIn(outbox', c) \in Nat /\ OccursIn(completions', c) \in Nat
        /\ OccursIn(outbox', c) + OccursIn(completions', c)
             = OccursIn(outbox, c) + OccursIn(completions, c) + (IF h.call = c THEN 1 ELSE 0)
        /\ held' = NoCall
    BY <1>6, <1>7, <2>1, FinishedPlaces
  <2>3. Occupies(held', c) = 0 /\ Occupies(active', c) = 0
    BY <1>3, <1>7, <2>2
  <2>4. OccursIn(inbox, c) = OccursIn(inbox', c) + (IF h.call = c THEN 1 ELSE 0)
        /\ OccursIn(inbox', c) \in Nat
    BY <1>4, <1>7
  <2>5. InPump(c)' = InPump(c) /\ InPumpTyped(c)'
    <3>1. InPumpTyped(c)'
      BY <2>2, <2>3, <2>4 DEF InPumpTyped
    <3>2. InPump(c)' = OccursIn(inbox', c) + (OccursIn(outbox', c) + OccursIn(completions', c))
      BY <2>3, <3>1 DEF InPump, InPumpTyped
    <3>3. InPump(c) = OccursIn(inbox, c) + (OccursIn(outbox, c) + OccursIn(completions, c))
      BY <1>2, <1>3 DEF InPump
    <3>4. OccursIn(inbox', c) + (OccursIn(outbox', c) + OccursIn(completions', c))
            = OccursIn(inbox, c) + (OccursIn(outbox, c) + OccursIn(completions, c))
      BY <1>2, <2>2, <2>4
    <3> QED BY <3>1, <3>2, <3>3, <3>4
  <2> QED BY <1>1, <2>5, PumpPlaces
<1>8. CASE /\ inbox' = Tail(UnclockAll(inbox)) /\ held' = Unclocked(h)
           /\ UNCHANGED <<active, outbox, completions>>
  <2>1. Occupies(held', c) = (IF h.call = c THEN 1 ELSE 0) /\ Occupies(active', c) = 0
    BY <1>3, <1>6, <1>8, SlotHolds
  <2>2. OccursIn(inbox, c) = OccursIn(inbox', c) + (IF h.call = c THEN 1 ELSE 0)
        /\ OccursIn(inbox', c) \in Nat
    BY <1>4, <1>8
  <2>3. OccursIn(outbox', c) = OccursIn(outbox, c) /\ OccursIn(completions', c) = OccursIn(completions, c)
    BY <1>8
  <2>4. InPump(c)' = InPump(c) /\ InPumpTyped(c)'
    BY <1>1, <1>2, <1>3, <2>1, <2>2, <2>3 DEF InPump, InPumpTyped
  <2> QED BY <1>1, <2>4, PumpPlaces
<1>9. CASE inbox' \in {inbox, ClockAll(inbox)} /\ UNCHANGED <<active, held, outbox, completions>>
  <2>1. OccursIn(inbox', c) = OccursIn(inbox, c)
    BY <1>4, <1>9
  <2>2. UNCHANGED <<Occupies(active, c), Occupies(held, c), OccursIn(outbox, c), OccursIn(completions, c)>>
    BY <1>9
  <2>3. InPump(c)' = InPump(c) /\ InPumpTyped(c)'
    BY <1>1, <1>2, <1>3, <2>1, <2>2 DEF InPump, InPumpTyped
  <2> QED BY <1>1, <2>3, PumpPlaces
<1> QED BY <1>5, <1>7, <1>8, <1>9
LEMMA PlacedRun ==
  ASSUME TypeInv, ControlInv, PumpRun, NEW c \in Calls
  PROVE  Placed(c)
<1>1. /\ held \in PendingCall /\ active = NoCall
      /\ UNCHANGED <<inbox, line, stopCompletions, answers, order>>
  BY DEF PumpRun, ControlInv, TypeInv, TypeOK, listenerVars, stopVars, worldVars
<1>2. /\ OccursIn(inbox, c) \in Nat /\ OccursIn(outbox, c) \in Nat /\ OccursIn(completions, c) \in Nat
      /\ OccursIn(inbox', c) = OccursIn(inbox, c)
  BY <1>1, PlacesType
<1>3. /\ Occupies(held, c) = (IF held.call = c THEN 1 ELSE 0) /\ Occupies(active, c) = 0
      /\ Occupies(NoCall, c) = 0
  BY <1>1, SlotHolds
<1>4. ASSUME NEW kind \in {"Done", "Internal"}, FinishCall(held, kind), UNCHANGED active
      PROVE  Placed(c)
  <2>1. kind \in ResultKinds
    BY DEF ResultKinds
  <2>2. /\ OccursIn(outbox', c) \in Nat /\ OccursIn(completions', c) \in Nat
        /\ OccursIn(outbox', c) + OccursIn(completions', c)
             = OccursIn(outbox, c) + OccursIn(completions, c) + (IF held.call = c THEN 1 ELSE 0)
        /\ held' = NoCall
    BY <1>1, <1>4, <2>1, FinishedPlaces
  <2>3. Occupies(held', c) = 0 /\ Occupies(active', c) = 0
    BY <1>3, <1>4, <2>2
  <2>4. InPump(c)' = InPump(c) /\ InPumpTyped(c)'
    BY <1>1, <1>2, <1>3, <2>2, <2>3 DEF InPump, InPumpTyped
  <2> QED BY <1>1, <2>4, PumpPlaces
<1>5. CASE active' = held /\ held' = NoCall /\ UNCHANGED <<outbox, completions>>
  <2>1. Occupies(active', c) = Occupies(held, c) /\ Occupies(held', c) = 0
        /\ Occupies(active', c) \in Nat
    BY <1>3, <1>5
  <2>2. OccursIn(outbox', c) = OccursIn(outbox, c) /\ OccursIn(completions', c) = OccursIn(completions, c)
    BY <1>5
  <2>3. InPump(c)' = InPump(c) /\ InPumpTyped(c)'
    BY <1>1, <1>2, <1>3, <2>1, <2>2 DEF InPump, InPumpTyped
  <2> QED BY <1>1, <2>3, PumpPlaces
<1> QED BY <1>4, <1>5 DEF PumpRun

LEMMA PlacedTake ==
  ASSUME TypeInv, ControlInv, PumpTakeActive, NEW c \in Calls
  PROVE  Placed(c)
<1>1. /\ held' = active /\ active' = NoCall /\ held = NoCall
      /\ UNCHANGED <<inbox, outbox, completions, line, stopCompletions, answers, order>>
  BY DEF PumpTakeActive, TakeActive, ControlInv, listenerVars, stopVars, worldVars
<1>2. Occupies(NoCall, c) = 0
  BY SlotHolds
<1>3. /\ OccursIn(inbox, c) \in Nat /\ Occupies(active, c) \in Nat
      /\ OccursIn(outbox, c) \in Nat /\ OccursIn(completions, c) \in Nat
  BY PlacesType
<1>4. /\ Occupies(held', c) = Occupies(active, c) /\ Occupies(active', c) = 0 /\ Occupies(held, c) = 0
      /\ UNCHANGED <<OccursIn(inbox, c), OccursIn(outbox, c), OccursIn(completions, c)>>
  BY <1>1, <1>2
<1>5. InPump(c)' = InPump(c) /\ InPumpTyped(c)'
  BY <1>1, <1>3, <1>4 DEF InPump, InPumpTyped
<1> QED BY <1>1, <1>5, PumpPlaces

\* Calls that are called back move to the answers.
LEMMA CalledBack ==
  ASSUME TypeInv, NEW s \in Seq(Completion), answers' = answers \o AnswersOf(s), NEW c \in Calls
  PROVE  OccursIn(answers', c) = OccursIn(answers, c) + OccursIn(s, c) /\ OccursIn(s, c) \in Nat
<1> DEFINE t == AnswersOf(s)
<1>1. answers \in Seq(Answer) /\ <<>> \in Seq(PendingCall) /\ "Done" \in ResultKinds
  BY DEF TypeInv, TypeOK, ResultKinds
<1>2. t \in Seq(Answer)
  BY <1>1, AllAnswered
<1>3. OccursIn(t, c) = OccursIn(s, c)
  BY OccursSame DEF AnswersOf
<1> HIDE DEF t
<1>4. OccursIn(answers \o t, c) = OccursIn(answers, c) + OccursIn(t, c)
  BY <1>1, <1>2, OccursBoth
<1> QED BY <1>3, <1>4, OccursType DEF t

LEMMA PlacedNotify ==
  ASSUME TypeInv, PumpNotify, NEW c \in Calls
  PROVE  Placed(c)
<1>1. /\ completions \in Seq(Completion) /\ answers' = answers \o AnswersOf(completions)
      /\ completions' = <<>>
      /\ UNCHANGED <<inbox, active, held, outbox, line, order, stopCompletions>>
  BY DEF PumpNotify, TypeInv, TypeOK, queueVars, listenerVars, stopVars
<1>2. OccursIn(answers', c) = OccursIn(answers, c) + OccursIn(completions, c)
  BY <1>1, CalledBack
<1>3. OccursIn(<<>>, c) = 0
  BY ItemsOfNone, OccursNot
<1>4. OccursIn(completions', c) = 0
  BY <1>1, <1>3
<1>5. /\ Reading(c) \in Nat /\ OccursIn(inbox, c) \in Nat /\ Occupies(active, c) \in Nat
      /\ Occupies(held, c) \in Nat /\ OccursIn(outbox, c) \in Nat /\ OccursIn(completions, c) \in Nat
      /\ OccursIn(stopCompletions, c) \in Nat /\ OccursIn(answers, c) \in Nat
  BY PlacesType
<1>6. UNCHANGED <<Reading(c), OccursIn(inbox, c), Occupies(active, c), Occupies(held, c),
                  OccursIn(outbox, c), OccursIn(stopCompletions, c)>>
  BY <1>1 DEF Reading
<1>7. Places(c)' = Places(c)
  BY <1>2, <1>4, <1>5, <1>6 DEF Places
<1> QED BY <1>1, <1>7 DEF Placed

LEMMA PlacedPump ==
  ASSUME TypeInv, ControlInv, PumpBegin \/ PumpStep, NEW c \in Calls
  PROVE  Placed(c)
<1>1. CASE PumpBegin \/ PumpBreak \/ PumpLookInbox \/ PumpLeave
  BY <1>1, SamePlaces DEF PumpBegin, PumpBreak, PumpLookInbox, PumpLeave, queueVars, listenerVars,
                          stopVars, worldVars
<1> QED BY <1>1, PlacedTake, PlacedResume, PlacedTakeNext, PlacedRun, PlacedNotify DEF PumpStep

\* What stop() drains goes to the outbox or to the callers of submit(), whichever made the call.
LEMMA PlacedDrain ==
  ASSUME TypeInv, ControlInv, RoutesInv, PlacesInv, StopDrain, NEW c \in Calls
  PROVE  Placed(c)
<1> DEFINE R == {p \in PendingCall : HasRequest(p)}
           L == {p \in PendingCall : ~HasRequest(p)}
           remote == Keeping(Unfinished, R)
           local  == Keeping(Unfinished, L)
           rs == ResponsesFor(remote, "Unavailable")
           ds == CompletionsFor(local, "Unavailable")
<1>1. /\ outbox' = outbox \o rs /\ stopCompletions' = ds /\ inbox' = <<>> /\ active' = NoCall
      /\ UNCHANGED <<held, completions, answers, order, line>> /\ stopCompletions = <<>>
  BY DEF StopDrain, pumpVars, worldVars, listenerVars, PlacesInv
<1>2. /\ inbox \in Seq(PendingCall) /\ outbox \in Seq(Response) /\ active \in PendingCall \cup {NoCall}
      /\ Unfinished \in Seq(PendingCall) /\ <<>> \in Seq(Completion) /\ "Unavailable" \in ResultKinds
  BY DrainedTypes DEF TypeInv, TypeOK, ResultKinds
<1>3. /\ Reading(c) \in Nat /\ OccursIn(inbox, c) \in Nat /\ Occupies(active, c) \in Nat
      /\ Occupies(held, c) \in Nat /\ OccursIn(outbox, c) \in Nat /\ OccursIn(completions, c) \in Nat
      /\ OccursIn(stopCompletions, c) \in Nat /\ OccursIn(answers, c) \in Nat
  BY PlacesType
<1>4. OccursIn(Unfinished, c) = Occupies(active, c) + OccursIn(inbox, c)
  <2>1. CASE active = NoCall
    BY <1>3, <2>1, SlotHolds DEF Unfinished
  <2>2. CASE active # NoCall
    <3>1. <<active>> \in Seq(PendingCall) /\ <<active>> # <<>> /\ Head(<<active>>) = active
          /\ Tail(<<active>>) = <<>>
      BY <1>2, <2>2
    <3>2. OccursIn(<<>>, c) = 0
      BY ItemsOfNone, OccursNot
    <3>3. OccursIn(<<active>>, c) = 0 + (IF active.call = c THEN 1 ELSE 0)
      <4>1. OccursIn(<<active>>, c)
              = OccursIn(Tail(<<active>>), c) + (IF Head(<<active>>).call = c THEN 1 ELSE 0)
        BY <3>1, OccursRest
      <4> QED BY <3>1, <3>2, <4>1
    <3>4. OccursIn(<<active>> \o inbox, c) = OccursIn(<<active>>, c) + OccursIn(inbox, c)
      BY <1>2, <3>1, OccursBoth
    <3>5. Occupies(active, c) = (IF active.call = c THEN 1 ELSE 0)
      BY <1>2, <2>2, SlotHolds
    <3> QED BY <1>3, <2>2, <3>3, <3>4, <3>5 DEF Unfinished
  <2> QED BY <2>1, <2>2
<1>5. \A x \in Items(Unfinished) : x \in PendingCall /\ Credited(x, order, admitted, caller)
  <2>1. Items(Unfinished) \subseteq Items(inbox) \cup (IF active = NoCall THEN {} ELSE {active})
    <3>1. CASE active = NoCall
      BY <3>1 DEF Unfinished
    <3>2. CASE active # NoCall
      <4>1. <<active>> \in Seq(PendingCall) /\ Items(<<active>>) = {active}
        BY <1>2, <3>2 DEF Items
      <4>2. <<active>> \in Seq(PendingCall) /\ inbox \in Seq(PendingCall)
        BY <1>2, <4>1
      <4>3. Items(<<active>> \o inbox) = Items(<<active>>) \cup Items(inbox)
        BY <4>2, ItemsOfBoth, ZenonT(30)
      <4> QED BY <3>2, <4>1, <4>3 DEF Unfinished
    <3> QED BY <3>1, <3>2
  <2> QED BY <1>2, <2>1, ItemsTyped DEF RoutesInv
<1>6. OccursIn(remote, c) + OccursIn(local, c) = OccursIn(Unfinished, c)
      /\ OccursIn(remote, c) \in Nat /\ OccursIn(local, c) \in Nat
  <2>1. CASE c \in NetworkCalls
    <3>1. \A x \in Items(Unfinished) : x.call = c => x \in R /\ x \notin L
      BY <1>5, <2>1 DEF Credited, NetworkCalls, HasRequest
    <3>2. OccursIn(remote, c) = OccursIn(Unfinished, c) /\ OccursIn(local, c) = 0
      BY <1>2, <3>1, OccursKept
    <3> QED BY <1>2, <3>2, OccursType
  <2>2. CASE c \in LocalCalls
    <3>1. \A x \in Items(Unfinished) : x.call = c => x \in L /\ x \notin R
      BY <1>5, <2>2 DEF Credited, NetworkCalls, HasRequest
    <3>2. OccursIn(local, c) = OccursIn(Unfinished, c) /\ OccursIn(remote, c) = 0
      BY <1>2, <3>1, OccursKept
    <3> QED BY <1>2, <3>2, OccursType
  <2> QED BY <2>1, <2>2 DEF NetworkCalls
<1>7. remote \in Seq(PendingCall) /\ local \in Seq(PendingCall)
  BY <1>2, KeepingEmbeds
<1> HIDE DEF R, L, remote, local
<1>8. rs \in Seq(Response) /\ ds \in Seq(Completion)
  BY <1>2, <1>7, AllAnswered
<1>9. OccursIn(rs, c) = OccursIn(remote, c)
  BY OccursSame DEF ResponsesFor, ResponseFor
<1>10. OccursIn(ds, c) = OccursIn(local, c)
  BY OccursSame DEF CompletionsFor, CompletionFor
<1> HIDE DEF rs, ds
<1>11. OccursIn(outbox \o rs, c) = OccursIn(outbox, c) + OccursIn(rs, c)
  BY <1>2, <1>8, OccursBoth
<1>12. OccursIn(<<>>, c) = 0 /\ Occupies(NoCall, c) = 0
  BY ItemsOfNone, OccursNot, SlotHolds
<1>13. /\ OccursIn(outbox', c) = OccursIn(outbox, c) + OccursIn(remote, c)
       /\ OccursIn(stopCompletions', c) = OccursIn(local, c) /\ OccursIn(stopCompletions, c) = 0
       /\ OccursIn(inbox', c) = 0 /\ Occupies(active', c) = 0
  BY <1>1, <1>9, <1>10, <1>11, <1>12
<1>14. UNCHANGED <<Reading(c), Occupies(held, c), OccursIn(completions, c), OccursIn(answers, c)>>
  BY <1>1 DEF Reading
<1>15. Places(c)' = Places(c)
  BY <1>3, <1>4, <1>6, <1>13, <1>14 DEF Places
<1> QED BY <1>1, <1>15 DEF Placed

LEMMA PlacedStopNotify ==
  ASSUME TypeInv, StopNotify, NEW c \in Calls
  PROVE  Placed(c)
<1>1. /\ stopCompletions \in Seq(Completion) /\ answers' = answers \o AnswersOf(stopCompletions)
      /\ stopCompletions' = <<>>
      /\ UNCHANGED <<inbox, active, held, outbox, line, order, completions>>
  BY DEF StopNotify, TypeInv, TypeOK, queueVars, listenerVars, pumpVars
<1>2. OccursIn(answers', c) = OccursIn(answers, c) + OccursIn(stopCompletions, c)
  BY <1>1, CalledBack
<1>3. OccursIn(<<>>, c) = 0
  BY ItemsOfNone, OccursNot
<1>4. OccursIn(stopCompletions', c) = 0
  BY <1>1, <1>3
<1>5. /\ Reading(c) \in Nat /\ OccursIn(inbox, c) \in Nat /\ Occupies(active, c) \in Nat
      /\ Occupies(held, c) \in Nat /\ OccursIn(outbox, c) \in Nat /\ OccursIn(completions, c) \in Nat
      /\ OccursIn(stopCompletions, c) \in Nat /\ OccursIn(answers, c) \in Nat
  BY PlacesType
<1>6. UNCHANGED <<Reading(c), OccursIn(inbox, c), Occupies(active, c), Occupies(held, c),
                  OccursIn(outbox, c), OccursIn(completions, c)>>
  BY <1>1 DEF Reading
<1>7. Places(c)' = Places(c)
  BY <1>2, <1>4, <1>5, <1>6 DEF Places
<1> QED BY <1>1, <1>7 DEF Placed

LEMMA PlacedTick ==
  ASSUME TypeInv, Tick, NEW c \in Calls
  PROVE  Placed(c)
<1>1. /\ inbox \in Seq(PendingCall) /\ active \in PendingCall \cup {NoCall}
      /\ held \in PendingCall \cup {NoCall}
      /\ inbox' = [i \in DOMAIN inbox |-> OlderCall(inbox[i])]
      /\ active' = OlderCall(active) /\ held' = OlderCall(held)
      /\ UNCHANGED <<outbox, completions, line, stopCompletions, answers, order>>
  BY DEF TypeInv, TypeOK, Tick, listenerVars, stopVars
<1>2. \A i \in DOMAIN inbox : inbox'[i].call = inbox[i].call
  BY <1>1, SameCalls
<1>3. OccursIn(inbox', c) = OccursIn(inbox, c)
  BY <1>1, <1>2, OccursSame
<1>4. OlderCall(NoCall) = NoCall
  BY DEF OlderCall
<1>5. Occupies(active', c) = Occupies(active, c) /\ Occupies(held', c) = Occupies(held, c)
  BY <1>1, <1>4, SlotHolds
<1>6. UNCHANGED <<Reading(c), OccursIn(outbox, c), OccursIn(completions, c), OccursIn(stopCompletions, c),
                  OccursIn(answers, c)>>
  BY <1>1 DEF Reading
<1>7. Places(c)' = Places(c)
  BY <1>3, <1>5, <1>6 DEF Places
<1> QED BY <1>1, <1>7 DEF Placed

LEMMA AllPlaced ==
  ASSUME ServerInv, ConnInv, PlacesInv, [Next]_vars, NEW c \in Calls
  PROVE  Placed(c)
<1>1. TypeInv /\ ControlInv /\ SessionInv /\ CallerInv /\ RoutesInv
  BY DEF ServerInv
<1>2. CASE StartListening \/ StartFails \/ StopBegin \/ StopJoin \/ ToggleDialog \/ UNCHANGED vars
  BY <1>2, SamePlaces DEF StartListening, StartFails, StartBegin, StopBegin, StopJoin, ToggleDialog, vars,
     queueVars, listenerVars, pumpVars, stopVars, worldVars
<1> QED BY <1>1, <1>2, PlacedSubmit, PlacedListener, PlacedPump, PlacedDrain, PlacedStopNotify, PlacedTick
        DEF Next, StopStep

LEMMA AllCounted == TypeInv => \A c \in Calls : Places(c) \in Nat
  BY PlacesType

LEMMA PlacesStep == ServerInv /\ ConnInv /\ PlacesInv /\ [Next]_vars => PlacesInv'
<1> SUFFICES ASSUME ServerInv, ConnInv, PlacesInv, [Next]_vars PROVE PlacesInv'
  OBVIOUS
<1>1. TypeInv /\ TypeInv' /\ CallerInv
  BY ServerStep DEF ServerInv
<1>0. \A c \in Calls : Places(c)' \in Nat
  <2>1. TypeInv' => (\A c \in Calls : Places(c) \in Nat)'
    BY AllCounted, PTL
  <2> QED BY <1>1, <2>1
<1>2. ASSUME NEW c \in Calls
      PROVE  IF order'[c] = 0 THEN Places(c)' = 0 ELSE Places(c)' = 1 \/ (Places(c)' = 0 /\ Lost(c)')
  <2>1. Placed(c) /\ Places(c) \in Nat
    BY <1>1, AllPlaced, PlacesType
  <2>2. Places(c)' \in Nat
    BY <1>0
  <2>3. IF order[c] = 0 THEN Places(c) = 0 ELSE Places(c) = 1 \/ (Places(c) = 0 /\ Lost(c))
    BY DEF PlacesInv
  <2>4. order[c] # 0 /\ Lost(c) => Lost(c)'
    BY <1>1, LostStays
  <2> HIDE DEF Places, Lost
  <2> QED BY <2>1, <2>2, <2>3, <2>4 DEF Placed
<1>3. spc' \in {"idle", "drain"} => stopCompletions' = <<>>
  <2>1. CASE UNCHANGED <<spc, stopCompletions>>
    BY <2>1 DEF PlacesInv
  <2>2. CASE StopBegin \/ StopStep
    BY <2>2 DEF StopBegin, StopStep, StopDrain, StopJoin, StopNotify, PlacesInv
  <2>3. ASSUME NEW d \in Calls, Submit(d) PROVE UNCHANGED <<spc, stopCompletions>>
    BY <2>3 DEF Submit, stopVars
  <2>4. CASE PumpBegin \/ PumpStep \/ ListenerStep \/ ListenerFail
    BY <2>1, <2>4 DEF PumpBegin, PumpStep, PumpBreak, PumpTakeActive, TakeActive, PumpLookInbox,
       PumpResume, PumpTakeNext, PumpRun, PumpLeave, PumpNotify, ListenerStep, ListenerAccept,
       ListenerRead, ListenerConnected, ListenerCall, ListenerNewcomer, ListenerFlush, ListenerCheck,
       ListenerExit, ListenerFail, stopVars
  <2>5. CASE StartListening \/ StartFails \/ ToggleDialog \/ Tick \/ UNCHANGED vars
    BY <2>1, <2>5 DEF StartListening, StartFails, StartBegin, ToggleDialog, Tick, vars, stopVars
  <2> QED BY <2>1, <2>2, <2>3, <2>4, <2>5 DEF Next
<1> QED BY <1>2, <1>3 DEF PlacesInv

LEMMA PlacesInit == Init => ConnInv /\ PlacesInv
<1> SUFFICES ASSUME Init PROVE ConnInv /\ PlacesInv
  OBVIOUS
<1>1. ConnInv
  <2>1. /\ admitted = <<>> /\ Items(<<>>) = {} /\ DOMAIN <<>> = {} /\ waiting = NoConn /\ client = NoConn
        /\ \A c \in Calls : order[c] = 0
    BY ItemsOfNone DEF Init
  <2> QED BY <2>1 DEF ConnInv, NetworkCalls
<1>2. ASSUME NEW c \in Calls PROVE order[c] = 0 /\ Places(c) = 0
  <2>1. OccursIn(<<>>, c) = 0 /\ Occupies(NoCall, c) = 0 /\ c # NoCall
    BY ItemsOfNone, OccursNot, SlotHolds, CallsAssumption
  <2> QED BY <2>1 DEF Init, Places, Reading
<1> QED BY <1>1, <1>2 DEF PlacesInv, Init

\* A call that was made is in one place or is a lost reply, and a connection that was closed
\* is not admitted again, so that what is lost stays lost.
THEOREM PlacesInvariant == Spec => [](ConnInv /\ PlacesInv)
<1>1. ServerInv /\ ConnInv /\ PlacesInv /\ [Next]_vars => ConnInv' /\ PlacesInv'
  BY ConnStep, PlacesStep DEF ServerInv
<1> QED BY <1>1, PlacesInit, ServerInvariant, PTL DEF Spec

\* No call is executed or answered twice and none vanishes (EveryCallInOnePlace): a call that
\* was made is in exactly one place until it is answered, in whatever order the threads move it,
\* and only a reply to a client that has gone is dropped.
THEOREM CallsAreNeverLost == Spec => []EveryCallInOnePlace
<1>1. PlacesInv => EveryCallInOnePlace
  BY DEF PlacesInv, Lost, Made, EveryCallInOnePlace
<1> QED BY <1>1, PlacesInvariant, PTL

=============================================================================
