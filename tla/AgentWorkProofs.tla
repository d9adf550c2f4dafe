--------------------------- MODULE AgentWorkProofs ---------------------------
(***************************************************************************)
(* Proofs about the agent's work on the project, for any flows, any calls  *)
(* and any number of rows:                                                 *)
(*   - the odometer of a flow visits its rows in their order, each once;   *)
(*   - a sweep leaves no trace, and its answer has the rows of one run;    *)
(*   - an edit that changed anything can be reverted.                      *)
(*                                                                         *)
(* The invariant is about the session that is under way: the rows it has   *)
(* are those before its next one (RowsSoFar), and as long as it is         *)
(* Unchanged, what it would put back is what the user and the agent set    *)
(* last, but for what was clicked or left by a run (StillCurrent).         *)
(***************************************************************************)
EXTENDS MCFlows, FiniteSetTheorems, FunctionTheorems, SequenceTheorems, WellFoundedInduction,
        TLAPS

(* Induction over Nat *)

LEMMA Least ==
  ASSUME NEW S \in SUBSET Nat, S # {}
  PROVE  \E m \in S : \A n \in S : m <= n
<1> DEFINE R == OpToRel(<, Nat)
<1>1. IsWellFoundedOn(R, Nat)
  BY NatLessThanWellFounded
<1> HIDE DEF R
<1>2. PICK m \in S : \A n \in S : ~ (<<n, m>> \in R)
  BY <1>1, WFMin
<1>3. \A n \in S : ~ (n < m)
  BY <1>2 DEF R, OpToRel
<1> QED BY <1>3

LEMMA Induction ==
  ASSUME NEW S \in SUBSET Nat, 0 \in S, \A n \in S : n + 1 \in S
  PROVE  S = Nat
<1>1. SUFFICES ASSUME Nat \ S # {} PROVE FALSE
  OBVIOUS
<1>2. PICK m \in Nat \ S : \A n \in Nat \ S : m <= n
  BY <1>1, Least
<1>3. m # 0 /\ m - 1 \in Nat /\ (m - 1) + 1 = m
  OBVIOUS
<1>4. m - 1 \in S
  BY <1>2, <1>3
<1> QED BY <1>3, <1>4

LEMMA Greatest ==
  ASSUME NEW N \in Nat, NEW S \in SUBSET (1..N), S # {}
  PROVE  \E k \in S : \A j \in 1..N : j > k => j \notin S
<1> DEFINE T == {N - j : j \in S}
<1>1. T \in SUBSET Nat /\ T # {}
  <2>1. \A j \in S : N - j \in Nat
    OBVIOUS
  <2>2. PICK j \in S : TRUE
    OBVIOUS
  <2>3. N - j \in T
    OBVIOUS
  <2> QED BY <2>1, <2>3
<1>2. PICK m \in T : \A n \in T : m <= n
  BY <1>1, Least
<1>3. PICK k \in S : m = N - k
  BY <1>2
<1>4. ASSUME NEW j \in S PROVE j <= k
  <2>1. N - j \in T
    OBVIOUS
  <2>2. m <= N - j
    BY <1>2, <2>1
  <2> QED BY <1>3, <2>2
<1> QED BY <1>4

-----------------------------------------------------------------------------
(* The rows of a flow *)

LEMMA Conds ==
  ASSUME NEW conds \in Seq(Condition)
  PROVE  /\ Len(conds) \in Nat /\ DOMAIN conds = 1..Len(conds)
         /\ \A i \in DOMAIN conds :
              /\ conds[i] \in Condition /\ conds[i].comp \in Components
              /\ conds[i].values \in Seq(Asked)
              /\ Len(conds[i].values) \in Nat \ {0}
              /\ DOMAIN conds[i].values = 1..Len(conds[i].values)
<1>1. Len(conds) \in Nat /\ DOMAIN conds = 1..Len(conds)
  OBVIOUS
<1>2. ASSUME NEW i \in DOMAIN conds
      PROVE  /\ conds[i] \in Condition /\ conds[i].comp \in Components
             /\ conds[i].values \in Seq(Asked)
             /\ Len(conds[i].values) \in Nat \ {0}
             /\ DOMAIN conds[i].values = 1..Len(conds[i].values)
  <2>1. conds[i] \in Condition
    BY <1>1
  <2>2. conds[i].values \in Seq(Asked) /\ conds[i].values # <<>> /\ conds[i].comp \in Components
    BY <2>1 DEF Condition
  <2>3. Len(conds[i].values) \in Nat \ {0}
    BY <2>2, EmptySeq
  <2>4. DOMAIN conds[i].values = 1..Len(conds[i].values)
    BY <2>2
  <2> QED BY <2>1, <2>2, <2>3, <2>4
<1> QED BY <1>1, <1>2

LEMMA RowsAre ==
  ASSUME NEW conds \in Seq(Condition), NEW n
  PROVE  n \in Rows(conds) <=>
           /\ n \in [1..Len(conds) -> Nat]
           /\ \A i \in 1..Len(conds) : n[i] \in 1..Len(conds[i].values)
<1>1. ASSUME n \in Rows(conds)
      PROVE  /\ n \in [1..Len(conds) -> Nat]
             /\ \A i \in 1..Len(conds) : n[i] \in 1..Len(conds[i].values)
  <2>1. n \in [1..Len(conds) -> Indices(conds)] /\ \A i \in 1..Len(conds) : n[i] \in 1..Len(conds[i].values)
    BY <1>1, Conds DEF Rows
  <2> QED BY <2>1
<1>2. ASSUME n \in [1..Len(conds) -> Nat],
             \A i \in 1..Len(conds) : n[i] \in 1..Len(conds[i].values)
      PROVE  n \in Rows(conds)
  <2>1. \A i \in 1..Len(conds) : n[i] \in Indices(conds)
    BY <1>2, Conds DEF Indices
  <2>2. n \in [1..Len(conds) -> Indices(conds)]
    BY <1>2, <2>1
  <2> QED BY <1>2, <2>2, Conds DEF Rows
<1> QED BY <1>1, <1>2

LEMMA RowsTotal ==
  ASSUME NEW conds \in Seq(Condition), NEW m \in Rows(conds), NEW n \in Rows(conds), m # n
  PROVE  Before(m, n) \/ Before(n, m)
<1> DEFINE N == Len(conds)
           D == {i \in 1..N : m[i] # n[i]}
<1>1. m \in [1..N -> Nat] /\ n \in [1..N -> Nat]
  BY RowsAre
<1>2. D # {} /\ D \in SUBSET Nat
  BY <1>1
<1>3. PICK k \in D : \A j \in D : k <= j
  BY <1>2, Least
<1>4. \A j \in 1..N : j < k => m[j] = n[j]
  BY <1>3, Conds
<1>5. m[k] < n[k] \/ n[k] < m[k]
  BY <1>1, <1>3, SMTT(30)
<1> QED BY <1>1, <1>3, <1>4, <1>5 DEF Before

LEMMA FirstIsFirst ==
  ASSUME NEW conds \in Seq(Condition)
  PROVE  /\ FirstRow(conds) \in Rows(conds)
         /\ \A m \in Rows(conds) : ~Before(m, FirstRow(conds))
<1>1. FirstRow(conds) = [i \in 1..Len(conds) |-> 1]
  BY Conds DEF FirstRow
<1>2. FirstRow(conds) \in Rows(conds)
  BY <1>1, Conds, RowsAre, SMTT(30)
<1>3. ASSUME NEW m \in Rows(conds) PROVE ~Before(m, FirstRow(conds))
  <2>1. m \in [1..Len(conds) -> Nat] /\ \A i \in 1..Len(conds) : m[i] >= 1
    BY RowsAre
  <2> QED BY <1>1, <2>1 DEF Before
<1> QED BY <1>2, <1>3

\* The last row: every counter at its end.
IsLast(conds, n) == \A i \in 1..Len(conds) : n[i] = Len(conds[i].values)

LEMMA LastIsLast ==
  ASSUME NEW conds \in Seq(Condition), NEW n \in Rows(conds), IsLast(conds, n),
         NEW m \in Rows(conds), m # n
  PROVE  Before(m, n)
<1>1. m \in [1..Len(conds) -> Nat] /\ \A i \in 1..Len(conds) : m[i] <= n[i]
  BY RowsAre, Conds DEF IsLast
<1>2. n \in [1..Len(conds) -> Nat]
  BY RowsAre
<1>3. ~Before(n, m)
  BY <1>1, <1>2, SMTT(30) DEF Before
<1> QED BY <1>3, RowsTotal

\* The odometer's step, when it has one
LEMMA OdometerStep ==
  ASSUME NEW conds \in Seq(Condition), NEW n \in Rows(conds), ~IsLast(conds, n)
  PROVE  \E k \in 1..Len(conds) :
           /\ n[k] < Len(conds[k].values)
           /\ \A j \in 1..Len(conds) : j > k => n[j] = Len(conds[j].values)
           /\ NextRow(conds, n) =
                [i \in 1..Len(conds) |-> IF i < k THEN n[i] ELSE IF i = k THEN n[i] + 1 ELSE 1]
<1> DEFINE L == Len(conds)
           S == {i \in 1..L : n[i] # Len(conds[i].values)}
           Moves(k) == n[k] < Len(conds[k].values) /\ \A j \in 1..L : j > k => n[j] = Len(conds[j].values)
<1>1. S # {}
  BY DEF IsLast
<1>2. L \in Nat
  OBVIOUS
<1>3. PICK k \in S : \A j \in 1..L : j > k => j \notin S
  <2> HIDE DEF L
  <2> QED BY <1>1, <1>2, Greatest
<1>4. \A i \in 1..L : n[i] \in Nat /\ n[i] <= Len(conds[i].values) /\ Len(conds[i].values) \in Nat
  BY RowsAre, Conds
<1>5. k \in 1..L /\ Moves(k)
  BY <1>3, <1>4
<1>6. DOMAIN conds = 1..L
  OBVIOUS
<1> DEFINE c == CHOOSE i \in 1..L : Moves(i)
<1>7. c \in 1..L /\ Moves(c)
  <2> HIDE DEF Moves, L
  <2> QED BY <1>5
<1>8. NextRow(conds, n) = [i \in 1..L |-> IF i < c THEN n[i] ELSE IF i = c THEN n[i] + 1 ELSE 1]
  BY <1>6 DEF NextRow
<1> QED
  <2> HIDE DEF c
  <2> QED BY <1>7, <1>8

LEMMA NextIsNext ==
  ASSUME NEW conds \in Seq(Condition), NEW n \in Rows(conds), ~IsLast(conds, n)
  PROVE  /\ NextRow(conds, n) \in Rows(conds)
         /\ \A m \in Rows(conds) : Before(m, NextRow(conds, n)) <=> m = n \/ Before(m, n)
<1> DEFINE L == Len(conds)
           N == NextRow(conds, n)
<1>1. PICK k \in 1..L :
        /\ n[k] < Len(conds[k].values)
        /\ \A j \in 1..L : j > k => n[j] = Len(conds[j].values)
        /\ N = [i \in 1..L |-> IF i < k THEN n[i] ELSE IF i = k THEN n[i] + 1 ELSE 1]
  BY OdometerStep
<1> HIDE DEF N
<1>2. n \in [1..L -> Nat] /\ \A i \in 1..L : n[i] \in 1..Len(conds[i].values)
  BY RowsAre
<1>3. \A i \in 1..L : Len(conds[i].values) \in Nat \ {0}
  BY Conds
<1>4. N \in Rows(conds)
  <2>1. N \in [1..L -> Nat]
    BY <1>1, <1>2
  <2>2. \A i \in 1..L : N[i] \in 1..Len(conds[i].values)
    BY <1>1, <1>2, <1>3
  <2> QED BY <2>1, <2>2, RowsAre
<1>5. ASSUME NEW m \in Rows(conds), Before(m, N) PROVE m = n \/ Before(m, n)
  <2>1. m \in [1..L -> Nat] /\ \A i \in 1..L : m[i] \in 1..Len(conds[i].values)
    BY RowsAre
  <2>2. PICK p \in 1..L : m[p] < N[p] /\ \A j \in 1..L : j < p => m[j] = N[j]
    BY <1>5, <2>1 DEF Before
  <2>3. p <= k
    BY <1>1, <1>2, <2>1, <2>2
  <2>4. CASE p < k
    <3>1. m[p] < n[p] /\ \A j \in 1..L : j < p => m[j] = n[j]
      BY <1>1, <2>2, <2>4
    <3> QED BY <3>1, <2>1 DEF Before
  <2>5. CASE p = k
    <3>1. \A j \in 1..L : j < k => m[j] = n[j]
      BY <1>1, <2>2, <2>5
    <3>2. m[k] <= n[k]
      BY <1>1, <1>2, <2>1, <2>2, <2>5
    <3>3. CASE m[k] < n[k]
      BY <3>1, <3>3, <2>1 DEF Before
    <3>4. CASE m[k] = n[k]
      <4>1. ASSUME NEW j \in 1..L PROVE m[j] <= n[j]
        <5>1. CASE j <= k
          BY <5>1, <1>2, <2>1, <3>1, <3>4
        <5>2. CASE j > k
          <6>1. n[j] = Len(conds[j].values) /\ m[j] <= Len(conds[j].values)
            BY <5>2, <1>1, <1>3, <2>1
          <6> QED BY <6>1, <1>2
        <5> QED BY <5>1, <5>2
      <4>2. ~Before(n, m)
        BY <4>1, <1>2, <2>1 DEF Before
      <4> QED BY <4>2, RowsTotal
    <3> QED BY <3>2, <3>3, <3>4, <1>2, <2>1
  <2> QED BY <2>3, <2>4, <2>5
<1>6. Before(n, N)
  <2>1. n[k] < N[k] /\ \A j \in 1..L : j < k => n[j] = N[j]
    BY <1>1, <1>2
  <2> QED BY <2>1, <1>2 DEF Before
<1>7. ASSUME NEW m \in Rows(conds), Before(m, n) PROVE Before(m, N)
  <2>1. m \in [1..L -> Nat]
    BY RowsAre
  <2>2. PICK p \in 1..L : m[p] < n[p] /\ \A j \in 1..L : j < p => m[j] = n[j]
    BY <1>7, <2>1 DEF Before
  <2>3. CASE p <= k
    <3>1. m[p] < N[p]
      <4>1. n[p] \in Nat /\ m[p] \in Nat
        BY <1>2, <2>1
      <4>2. N[p] = n[p] \/ N[p] = n[p] + 1
        BY <1>1, <2>3
      <4> QED BY <4>1, <4>2, <2>2
    <3>2. \A j \in 1..L : j < p => m[j] = N[j]
      BY <1>1, <1>2, <2>1, <2>2, <2>3
    <3> QED BY <3>1, <3>2, <2>1 DEF Before
  <2>4. CASE p > k
    <3>1. m[k] < N[k] /\ \A j \in 1..L : j < k => m[j] = N[j]
      BY <1>1, <1>2, <2>1, <2>2, <2>4
    <3> QED BY <3>1, <2>1 DEF Before
  <2> QED BY <2>3, <2>4
<1>8. \A m \in Rows(conds) : Before(m, N) <=> m = n \/ Before(m, n)
  BY <1>5, <1>6, <1>7
<1> QED BY <1>4, <1>8 DEF N

LEMMA FunctionsFinite ==
  ASSUME NEW S, IsFiniteSet(S)
  PROVE  \A n \in Nat : IsFiniteSet([1..n -> S])
<1> DEFINE N == {n \in Nat : IsFiniteSet([1..n -> S])}
<1>1. 0 \in N
  <2> DEFINE e == [i \in 1..0 |-> i]
  <2>1. [1..0 -> S] = {e}
    <3>1. \A f \in [1..0 -> S] : f = e
      OBVIOUS
    <3>2. e \in [1..0 -> S]
      OBVIOUS
    <3> QED BY <3>1, <3>2
  <2> QED BY <2>1, FS_Singleton
<1>2. ASSUME NEW n \in N PROVE n + 1 \in N
  <2> DEFINE A == [1..n -> S] \X S
             B == [1..(n + 1) -> S]
             g == [p \in A |-> [i \in 1..(n + 1) |-> IF i = n + 1 THEN p[2] ELSE p[1][i]]]
  <2>1. IsFiniteSet(A)
    BY FS_Product
  <2>2. g \in [A -> B]
    <3>1. ASSUME NEW p \in A PROVE g[p] \in B
      <4>1. p[1] \in [1..n -> S] /\ p[2] \in S
        OBVIOUS
      <4>2. \A i \in 1..(n + 1) : i # n + 1 => i \in 1..n
        OBVIOUS
      <4> QED BY <4>1, <4>2
    <3> QED BY <3>1
  <2>3. ASSUME NEW f \in B PROVE \E p \in A : g[p] = f
    <3> DEFINE q == <<[i \in 1..n |-> f[i]], f[n + 1]>>
    <3>1. q \in A
      OBVIOUS
    <3>2. ASSUME NEW i \in 1..(n + 1) PROVE g[q][i] = f[i]
      BY <3>1
    <3>3. g[q] \in B
      BY <2>2, <3>1
    <3>4. g[q] = f
      BY <3>2, <3>3
    <3> QED BY <3>1, <3>4
  <2>4. g \in Surjection(A, B)
    <3> HIDE DEF g, A, B
    <3> QED BY <2>2, <2>3 DEF Surjection
  <2>5. IsFiniteSet(B)
    <3> HIDE DEF g, A, B
    <3> QED BY <2>1, <2>4, FS_Surjection
  <2> QED BY <2>5
<1>3. N = Nat
  <2> HIDE DEF N
  <2> QED BY <1>1, <1>2, Induction DEF N
<1> QED BY <1>3

LEMMA RowsFinite ==
  ASSUME NEW conds \in Seq(Condition)
  PROVE  IsFiniteSet(Rows(conds))
<1> DEFINE L == Len(conds)
           D == {DOMAIN conds[i].values : i \in DOMAIN conds}
           g == [i \in 1..L |-> DOMAIN conds[i].values]
<1>1. DOMAIN conds = 1..L /\ L \in Nat
  OBVIOUS
<1>2. g \in Surjection(1..L, D)
  BY <1>1 DEF Surjection
<1>3. IsFiniteSet(1..L)
  BY <1>1, FS_Interval
<1>4. IsFiniteSet(D)
  BY <1>2, <1>3, FS_Surjection
<1>5. \A T \in D : IsFiniteSet(T)
  <2>1. ASSUME NEW i \in DOMAIN conds PROVE IsFiniteSet(DOMAIN conds[i].values)
    <3>1. DOMAIN conds[i].values = 1..Len(conds[i].values) /\ Len(conds[i].values) \in Int
      BY Conds
    <3>2. IsFiniteSet(1..Len(conds[i].values))
      BY <3>1, FS_Interval
    <3> QED BY <3>1, <3>2
  <2> QED BY <2>1
<1>6. IsFiniteSet(Indices(conds))
  BY <1>4, <1>5, FS_UNION DEF Indices
<1>7. IsFiniteSet([1..L -> Indices(conds)])
  BY <1>1, <1>6, FunctionsFinite
<1>8. Rows(conds) \in SUBSET [1..L -> Indices(conds)]
  BY <1>1 DEF Rows
<1> QED BY <1>7, <1>8, FS_Subset

-----------------------------------------------------------------------------
(* The session that is under way *)

RowAnswer == [n : Seq(Nat), row : [values : Seq(Settings), measured : Circuits]]
SessionType ==
  [flow : FlowSpec, epoch : Nat, revision : Nat, engines : SUBSET (Nat \X Components),
   snaps : Circuits, next : Seq(Nat), rows : Seq(RowAnswer), status : {"Running", "Completed"}]

\* Its rows are those before the next one, in their order, each once.
RowsBefore(s) == {m \in Rows(s.flow.conds) : Before(m, s.next)}
RowsSoFar(s) ==
  /\ s.next \in Rows(s.flow.conds)
  /\ {s.rows[i].n : i \in DOMAIN s.rows} = RowsBefore(s)
  /\ RowsInOrder(s)
  /\ Len(s.rows) = Cardinality(RowsBefore(s))

SessionOK(s) ==
  /\ s \in SessionType
  /\ s.epoch <= epoch /\ s.revision <= revision
  /\ s.status = "Running"
  /\ RowsSoFar(s)

\* As long as nothing told it that the circuit changed, the session puts back what
\* was set last, and its rows are of the circuit it began with.
Disturbed == clicked \cup left["panel"] # {}
StillCurrent(s) ==
  /\ DOMAIN s.snaps = DOMAIN circuit
  /\ s.engines = Engines
  /\ \A c \in DOMAIN circuit :
       s.snaps[c] # meant[c] => c \in left["agent"] \cup left["panel"] \cup clicked
  /\ ~Disturbed =>
       /\ circuit = s.snaps
       /\ \A i \in DOMAIN s.rows : s.rows[i].row = RowOf(s.snaps, s.flow.conds, s.rows[i].n)

WorkInv ==
  /\ TypeOK
  /\ epoch \in Nat /\ revision \in Nat
  /\ nextId \in Nat
  /\ file = NoFile \/ file \in Circuits
  /\ call # NoCall => SessionOK(call) /\ (Unchanged(call) => StillCurrent(call))
  /\ SweepLeavesNoTrace
  /\ SweptMeansLatched

-----------------------------------------------------------------------------
(* A session and its rows *)

LEMMA FirstSession ==
  ASSUME NEW flow \in FlowSpec, WorkInv
  PROVE  LET s == Session(flow, circuit, epoch, revision)
         IN  SessionOK(s) /\ Unchanged(s) /\ StillCurrent(s)
<1> DEFINE s == Session(flow, circuit, epoch, revision)
<1>1. flow.conds \in Seq(Condition)
  BY DEF FlowSpec
<1>2. s.flow = flow /\ s.epoch = epoch /\ s.revision = revision /\ s.engines = Engines
      /\ s.snaps = circuit /\ s.next = FirstRow(flow.conds) /\ s.rows = <<>> /\ s.status = "Running"
  BY DEF Session, Engines
<1>3. FirstRow(flow.conds) \in Rows(flow.conds)
  BY <1>1, FirstIsFirst
<1>4. RowsBefore(s) = {}
  BY <1>1, <1>2, FirstIsFirst DEF RowsBefore
<1>5. RowsSoFar(s)
  <2>1. {s.rows[i].n : i \in DOMAIN s.rows} = {} /\ Len(s.rows) = 0 /\ DOMAIN s.rows = {}
    BY <1>2
  <2>2. RowsInOrder(s)
    BY <2>1 DEF RowsInOrder
  <2> QED BY <1>2, <1>3, <1>4, <2>1, <2>2, FS_EmptySet DEF RowsSoFar
<1>6. s \in SessionType
  <2>1. circuit \in Circuits /\ DOMAIN circuit \subseteq Components
    BY DEF WorkInv, TypeOK, Circuits
  <2>2. Engines \in SUBSET (Nat \X Components)
    BY <2>1 DEF Engines, WorkInv
  <2>3. FirstRow(flow.conds) \in Seq(Nat)
    <3>1. FirstRow(flow.conds) \in [1..Len(flow.conds) -> Nat]
      BY <1>1, <1>3, RowsAre
    <3> QED BY <1>1, <3>1
  <2>4. <<>> \in Seq(RowAnswer)
    OBVIOUS
  <2> QED BY <2>1, <2>2, <2>3, <2>4 DEF Session, SessionType, Engines, WorkInv
<1>7. SessionOK(s)
  BY <1>2, <1>5, <1>6 DEF SessionOK, WorkInv
<1>8. Unchanged(s)
  BY <1>2 DEF Unchanged
<1>9. StillCurrent(s)
  BY <1>2 DEF StillCurrent, WorkInv, SweepLeavesNoTrace
<1> QED BY <1>7, <1>8, <1>9

LEMMA CircuitsAre ==
  ASSUME NEW c
  PROVE  c \in Circuits <=> DOMAIN c \subseteq Components /\ c \in [DOMAIN c -> Settings]
BY DEF Circuits

LEMMA StoredIs ==
  ASSUME NEW v \in Nat PROVE Stored(v) \in Settings
BY SettingsAssumption DEF Stored, Settings

LEMMA RowValue ==
  ASSUME NEW conds \in Seq(Condition), NEW n \in Rows(conds), NEW i \in DOMAIN conds
  PROVE  Stored(conds[i].values[n[i]]) \in Settings
<1>1. n[i] \in 1..Len(conds[i].values)
  BY RowsAre
<1>2. conds[i].values \in Seq(Asked)
  BY Conds
<1>3. conds[i].values[n[i]] \in Nat
  <2>1. (conds[i].values)[n[i]] \in Asked
    BY <1>1, <1>2, ElementOfSeq
  <2> QED BY <2>1, SettingsAssumption
<1> QED BY <1>3, StoredIs

LEMMA SweptIs ==
  ASSUME NEW c \in Circuits, NEW conds \in Seq(Condition), NEW n \in Rows(conds)
  PROVE  Swept(c, conds, n) \in Circuits /\ DOMAIN Swept(c, conds, n) = DOMAIN c
<1>1. DOMAIN c \subseteq Components /\ c \in [DOMAIN c -> Settings]
  BY CircuitsAre
<1>2. ASSUME NEW d \in DOMAIN c PROVE Swept(c, conds, n)[d] \in Settings
  <2>1. CASE d \in Targets(conds)
    <3> DEFINE i == CHOOSE i \in DOMAIN conds : conds[i].comp = d
    <3>1. i \in DOMAIN conds
      BY <2>1 DEF Targets
    <3>2. Swept(c, conds, n)[d] = Stored(conds[i].values[n[i]])
      BY <2>1 DEF Swept
    <3> HIDE DEF i
    <3> QED BY <3>1, <3>2, RowValue
  <2>2. CASE d \notin Targets(conds)
    BY <1>1, <2>2 DEF Swept
  <2> QED BY <2>1, <2>2
<1>3. Swept(c, conds, n) = [d \in DOMAIN c |-> Swept(c, conds, n)[d]]
  BY DEF Swept
<1> QED BY <1>1, <1>2, <1>3, CircuitsAre

LEMMA RestoredIs ==
  ASSUME NEW c \in Circuits, NEW snaps \in Circuits, NEW stuck
  PROVE  /\ Restored(c, snaps, stuck) \in Circuits
         /\ DOMAIN Restored(c, snaps, stuck) = DOMAIN c
         /\ \A d \in DOMAIN c :
              Restored(c, snaps, stuck)[d] =
                IF d \in DOMAIN snaps /\ d \notin stuck THEN snaps[d] ELSE c[d]
<1>1. DOMAIN c \subseteq Components /\ c \in [DOMAIN c -> Settings] /\ snaps \in [DOMAIN snaps -> Settings]
  BY CircuitsAre
<1>2. /\ DOMAIN Restored(c, snaps, stuck) = DOMAIN c
      /\ \A d \in DOMAIN c :
           Restored(c, snaps, stuck)[d] =
             IF d \in DOMAIN snaps /\ d \notin stuck THEN snaps[d] ELSE c[d]
  BY DEF Restored
<1>3. \A d \in DOMAIN c : Restored(c, snaps, stuck)[d] \in Settings
  BY <1>1, <1>2
<1>4. Restored(c, snaps, stuck) = [d \in DOMAIN c |-> Restored(c, snaps, stuck)[d]]
  BY DEF Restored
<1> QED BY <1>1, <1>2, <1>3, <1>4, CircuitsAre

LEMMA RowOfIs ==
  ASSUME NEW c \in Circuits, NEW conds \in Seq(Condition), NEW n \in Rows(conds)
  PROVE  RowOf(c, conds, n) \in [values : Seq(Settings), measured : Circuits]
<1>1. [i \in DOMAIN conds |-> Stored(conds[i].values[n[i]])] \in Seq(Settings)
  <2>1. DOMAIN conds = 1..Len(conds) /\ Len(conds) \in Nat
    OBVIOUS
  <2>2. [i \in DOMAIN conds |-> Stored(conds[i].values[n[i]])] \in [1..Len(conds) -> Settings]
    BY <2>1, RowValue
  <2> HIDE DEF Stored
  <2> QED BY <2>1, <2>2
<1> QED BY <1>1, SweptIs DEF RowOf

\* The session after one more row
LEMMA OneMoreRow ==
  ASSUME NEW s \in SessionType, RowsSoFar(s), NEW c \in Circuits
  PROVE  LET t == WithRow(s, c)
         IN  /\ t \in SessionType
             /\ t.flow = s.flow /\ t.epoch = s.epoch /\ t.revision = s.revision
             /\ t.engines = s.engines /\ t.snaps = s.snaps
             /\ t.rows = Append(s.rows, [n |-> s.next, row |-> RowOf(c, s.flow.conds, s.next)])
             /\ RowsInOrder(t)
             /\ t.status = "Completed" =>
                  {t.rows[i].n : i \in DOMAIN t.rows} = Rows(s.flow.conds)
             /\ t.status = "Running" => RowsSoFar(t)
<1> DEFINE conds == s.flow.conds
           e == [n |-> s.next, row |-> RowOf(c, conds, s.next)]
           r == Append(s.rows, e)
           done == Len(r) = RowCount(conds)
           t == WithRow(s, c)
           A == RowsBefore(s)
<1>1. conds \in Seq(Condition) /\ s.next \in Rows(conds) /\ s.rows \in Seq(RowAnswer) /\ s.next \in Seq(Nat)
  BY DEF SessionType, FlowSpec, RowsSoFar
<1>2. e \in RowAnswer
  BY <1>1, RowOfIs DEF RowAnswer
<1>3. r \in Seq(RowAnswer) /\ Len(r) = Len(s.rows) + 1 /\ DOMAIN r = 1..(Len(s.rows) + 1)
      /\ DOMAIN s.rows = 1..Len(s.rows)
      /\ r[Len(s.rows) + 1] = e /\ \A i \in 1..Len(s.rows) : r[i] = s.rows[i]
  BY <1>1, <1>2
<1>4. t = [s EXCEPT !.rows = r, !.status = IF done THEN "Completed" ELSE "Running",
                    !.next = IF done THEN s.next ELSE NextRow(conds, s.next)]
  BY DEF WithRow
<1> HIDE DEF r, t, done
<1>5. A \in SUBSET Rows(conds) /\ s.next \notin A
  <2>1. s.next \in [1..Len(conds) -> Nat]
    BY <1>1, RowsAre
  <2>2. ~Before(s.next, s.next)
    BY <2>1 DEF Before
  <2> QED BY <2>2 DEF RowsBefore
<1>6. {r[i].n : i \in DOMAIN r} = A \cup {s.next}
  <2>1. {s.rows[i].n : i \in DOMAIN s.rows} = A
    BY DEF RowsSoFar
  <2>2. e.n = s.next
    OBVIOUS
  <2> HIDE DEF e, A
  <2>3. \A i \in DOMAIN r : r[i].n \in A \cup {s.next}
    <3>1. \A i \in DOMAIN r : i \in DOMAIN s.rows \/ i = Len(s.rows) + 1
      BY <1>3
    <3> QED BY <1>3, <2>1, <2>2, <3>1
  <2>4. \A i \in DOMAIN s.rows : i \in DOMAIN r /\ r[i].n = s.rows[i].n
    BY <1>3
  <2>5. Len(s.rows) + 1 \in DOMAIN r /\ r[Len(s.rows) + 1].n = s.next
    BY <1>3, <2>2
  <2> QED BY <2>1, <2>3, <2>4, <2>5
<1>7. Len(r) = Cardinality(A \cup {s.next})
  <2>1. IsFiniteSet(A)
    BY <1>1, <1>5, RowsFinite, FS_Subset
  <2> QED BY <2>1, <1>3, <1>5, FS_AddElement DEF RowsSoFar
<1>8. \A i, j \in DOMAIN r : i < j => Before(r[i].n, r[j].n)
  <2>1. SUFFICES ASSUME NEW i \in DOMAIN r, NEW j \in DOMAIN r, i < j PROVE Before(r[i].n, r[j].n)
    OBVIOUS
  <2>2. i \in DOMAIN s.rows /\ r[i] = s.rows[i]
    BY <1>3, <2>1
  <2>3. CASE j \in DOMAIN s.rows
    BY <1>3, <2>1, <2>2, <2>3 DEF RowsSoFar, RowsInOrder
  <2>4. CASE j \notin DOMAIN s.rows
    <3>1. r[j] = e
      BY <1>3, <2>4
    <3>2. s.rows[i].n \in A
      BY <2>2 DEF RowsSoFar
    <3> QED BY <2>2, <3>1, <3>2 DEF RowsBefore
  <2> QED BY <2>3, <2>4
<1>9. /\ t.flow = s.flow /\ t.epoch = s.epoch /\ t.revision = s.revision
      /\ t.engines = s.engines /\ t.snaps = s.snaps /\ t.rows = r
      /\ t.status = (IF done THEN "Completed" ELSE "Running")
      /\ t.next = (IF done THEN s.next ELSE NextRow(conds, s.next))
  BY <1>4 DEF SessionType
<1>10. CASE done
  <2>1. A \cup {s.next} = Rows(conds)
    <3>1. Cardinality(A \cup {s.next}) = Cardinality(Rows(conds))
      BY <1>7, <1>10 DEF done, RowCount
    <3>2. A \cup {s.next} \in SUBSET Rows(conds) /\ IsFiniteSet(Rows(conds))
      BY <1>1, <1>5, RowsFinite
    <3> QED BY <3>1, <3>2, FS_Subset
  <2>2. t \in SessionType
    BY <1>3, <1>4, <1>10 DEF SessionType
  <2> QED BY <1>6, <1>8, <1>9, <1>10, <2>1, <2>2 DEF RowsInOrder, t, r
<1>11. CASE ~done
  <2>1. ~IsLast(conds, s.next)
    <3>1. SUFFICES ASSUME IsLast(conds, s.next) PROVE FALSE
      OBVIOUS
    <3>2. A \cup {s.next} = Rows(conds)
      BY <1>1, <1>5, <3>1, LastIsLast DEF RowsBefore
    <3> QED BY <1>7, <1>11, <3>2 DEF done, RowCount
  <2>2. /\ NextRow(conds, s.next) \in Rows(conds)
        /\ \A m \in Rows(conds) : Before(m, NextRow(conds, s.next)) <=> m = s.next \/ Before(m, s.next)
    BY <1>1, <2>1, NextIsNext
  <2>3. RowsBefore(t) = A \cup {s.next}
    BY <1>1, <1>9, <1>11, <2>2 DEF RowsBefore
  <2>4. NextRow(conds, s.next) \in Seq(Nat)
    <3>1. NextRow(conds, s.next) \in [1..Len(conds) -> Nat]
      BY <1>1, <2>2, RowsAre
    <3> QED BY <1>1, <3>1
  <2>5. t \in SessionType
    BY <1>3, <1>4, <1>11, <2>4 DEF SessionType
  <2>6. RowsSoFar(t)
    BY <1>6, <1>7, <1>8, <1>9, <1>11, <2>2, <2>3 DEF RowsSoFar, RowsInOrder
  <2> QED BY <1>8, <1>9, <1>11, <2>5, <2>6 DEF RowsInOrder, t, r
<1> QED BY <1>10, <1>11

-----------------------------------------------------------------------------
(* A row of an agent's flow *)

LEMMA Latched ==
  ASSUME NEW failed \in BOOLEAN, Latch(failed), WorkInv
  PROVE  /\ agentLatch' \in BOOLEAN /\ (agentLatch' <=> agentLatch \/ failed)
         /\ revision' \in 0..MaxRevision /\ clean' \in 0..MaxRevision
         /\ revision <= revision' /\ (~failed => revision' = revision)
BY WorkAssumption DEF Latch, MarkModified, WorkInv, TypeOK

LEMMA SessionIs ==
  ASSUME NEW s, SessionOK(s)
  PROVE  /\ s \in SessionType /\ RowsSoFar(s) /\ s.flow \in FlowSpec
         /\ s.flow.conds \in Seq(Condition) /\ s.next \in Rows(s.flow.conds)
         /\ s.snaps \in Circuits /\ s.rows \in Seq(RowAnswer)
BY DEF SessionOK, SessionType, FlowSpec, RowsSoFar

LEMMA AdvanceKeeps ==
  ASSUME WorkInv, NEW s, SessionOK(s), Unchanged(s), StillCurrent(s),
         NEW stuck \in SUBSET DOMAIN circuit, NEW outcome,
         Advance(s, outcome, stuck)
  PROVE  WorkInv' /\ RowsAreTheSweep'
<1> DEFINE conds == s.flow.conds
           e == [n |-> s.next, row |-> RowOf(circuit, conds, s.next)]
<1>1. PICK t : t = WithRow(s, circuit)
  OBVIOUS
<1> DEFINE completed == stuck = {} /\ outcome = "row" /\ t.status = "Completed"
           ended == stuck # {} \/ outcome # "row" \/ completed
<1>2. /\ PutBack(s, s.next, stuck)
      /\ call' = IF ended THEN NoCall ELSE t
      /\ answer' = IF completed
                   THEN [flow |-> s.flow, snaps |-> s.snaps, rows |-> t.rows,
                         disturbed |-> clicked \cup left["panel"] # {}]
                   ELSE NoCall
      /\ Latch(stuck # {})
      /\ UNCHANGED <<epoch, panelLatch, checkpoints, nextId, file, meant, clicked>>
  BY <1>1 DEF Advance
<1>3. /\ s \in SessionType /\ RowsSoFar(s) /\ conds \in Seq(Condition) /\ s.next \in Rows(conds)
      /\ s.snaps \in Circuits /\ s.rows \in Seq(RowAnswer)
  BY SessionIs
<1>4. circuit \in Circuits /\ meant \in Circuits /\ DOMAIN meant = DOMAIN circuit
      /\ left \in [Runners -> SUBSET Components] /\ clicked \subseteq Components
  BY DEF WorkInv, TypeOK
<1>5. DOMAIN circuit \subseteq Components /\ DOMAIN s.snaps = DOMAIN circuit
      /\ circuit \in [DOMAIN circuit -> Settings] /\ s.snaps \in [DOMAIN circuit -> Settings]
  BY <1>3, <1>4, CircuitsAre DEF StillCurrent
<1>6. /\ circuit' \in Circuits /\ DOMAIN circuit' = DOMAIN circuit
      /\ \A c \in DOMAIN circuit : c \notin stuck => circuit'[c] = s.snaps[c]
  <2>1. /\ Swept(circuit, conds, s.next) \in Circuits
        /\ DOMAIN Swept(circuit, conds, s.next) = DOMAIN circuit
    BY <1>3, <1>4, SweptIs
  <2>2. circuit' = Restored(Swept(circuit, conds, s.next), s.snaps, stuck)
    BY <1>2 DEF PutBack
  <2> QED BY <2>1, <2>2, <1>3, <1>5, RestoredIs
<1>7. /\ left' = [left EXCEPT !["agent"] = @ \cup {c \in stuck : circuit'[c] # circuit[c]}]
      /\ left' \in [Runners -> SUBSET Components]
      /\ left'["agent"] = left["agent"] \cup {c \in stuck : circuit'[c] # circuit[c]}
      /\ left'["panel"] = left["panel"]
  <2>1. left' = [left EXCEPT !["agent"] = @ \cup {c \in stuck : circuit'[c] # circuit[c]}]
    BY <1>2 DEF PutBack
  <2>2. {c \in stuck : circuit'[c] # circuit[c]} \subseteq Components
    BY <1>5
  <2> QED BY <2>1, <2>2, <1>4 DEF Runners
<1>8. /\ agentLatch' \in BOOLEAN /\ (agentLatch' <=> agentLatch \/ stuck # {})
      /\ revision' \in 0..MaxRevision /\ clean' \in 0..MaxRevision
      /\ revision <= revision' /\ (stuck = {} => revision' = revision)
  BY <1>2, Latched
<1>9. /\ t \in SessionType
      /\ t.flow = s.flow /\ t.epoch = s.epoch /\ t.revision = s.revision
      /\ t.engines = s.engines /\ t.snaps = s.snaps
      /\ t.rows = Append(s.rows, e)
      /\ RowsInOrder(t)
      /\ t.status = "Completed" => {t.rows[i].n : i \in DOMAIN t.rows} = Rows(conds)
      /\ t.status = "Running" => RowsSoFar(t)
  <2> DEFINE w == WithRow(s, circuit)
  <2>1. /\ w \in SessionType
        /\ w.flow = s.flow /\ w.epoch = s.epoch /\ w.revision = s.revision
        /\ w.engines = s.engines /\ w.snaps = s.snaps
        /\ w.rows = Append(s.rows, e)
        /\ RowsInOrder(w)
        /\ w.status = "Completed" => {w.rows[i].n : i \in DOMAIN w.rows} = Rows(conds)
        /\ w.status = "Running" => RowsSoFar(w)
    BY <1>3, <1>4, OneMoreRow
  <2>2. w = t
    BY <1>1
  <2> HIDE DEF w, e, conds
  <2> QED BY <2>1, <2>2
<1>10. t.status \in {"Completed", "Running"} /\ t.rows \in Seq(RowAnswer)
  BY <1>9 DEF SessionType
<1>11. Disturbed \/ \A i \in DOMAIN t.rows : t.rows[i].row = RowOf(t.snaps, conds, t.rows[i].n)
  <2>1. SUFFICES ASSUME ~Disturbed, NEW i \in DOMAIN t.rows
                 PROVE  t.rows[i].row = RowOf(t.snaps, conds, t.rows[i].n)
    OBVIOUS
  <2>2. circuit = s.snaps /\ \A j \in DOMAIN s.rows : s.rows[j].row = RowOf(s.snaps, conds, s.rows[j].n)
    BY <2>1 DEF StillCurrent
  <2>3. DOMAIN t.rows = 1..(Len(s.rows) + 1) /\ DOMAIN s.rows = 1..Len(s.rows)
    BY <1>3, <1>9, <1>10
  <2>4. CASE i \in DOMAIN s.rows
    <3>1. t.rows[i] = s.rows[i]
      BY <1>3, <1>9, <2>3, <2>4
    <3> QED BY <2>2, <2>4, <3>1, <1>9
  <2>5. CASE i = Len(s.rows) + 1
    <3>1. t.rows[i] = e
      BY <1>3, <1>9, <2>5
    <3> QED BY <2>2, <3>1, <1>9
  <2> QED BY <2>1, <2>3, <2>4, <2>5, <1>3
<1>12. RowsAreTheSweep'
  <2>1. SUFFICES ASSUME answer' # NoCall PROVE RowsAreTheSweep'
    BY DEF RowsAreTheSweep
  <2>2. completed /\ answer' = [flow |-> s.flow, snaps |-> s.snaps, rows |-> t.rows,
                                disturbed |-> clicked \cup left["panel"] # {}]
    BY <1>2, <2>1
  <2>3. {t.rows[i].n : i \in DOMAIN t.rows} = Rows(conds) /\ RowsInOrder(t)
    BY <1>9, <2>2
  <2>4. answer'.flow = s.flow /\ answer'.snaps = s.snaps /\ answer'.rows = t.rows
        /\ answer'.disturbed = Disturbed
    BY <2>2 DEF Disturbed
  <2> QED BY <2>3, <2>4, <1>9, <1>11 DEF RowsAreTheSweep, RowsInOrder
<1>13. SweepLeavesNoTrace'
  <2>1. SUFFICES ASSUME NEW c \in DOMAIN circuit', circuit'[c] # meant'[c]
                 PROVE  c \in left'["agent"] \cup left'["panel"] \cup clicked'
    BY DEF SweepLeavesNoTrace
  <2>2. c \in DOMAIN circuit /\ meant' = meant /\ clicked' = clicked
    BY <1>2, <1>6, <2>1
  <2>3. CASE c \notin stuck
    BY <1>6, <1>7, <2>1, <2>2, <2>3 DEF StillCurrent
  <2>4. CASE c \in stuck /\ circuit'[c] # circuit[c]
    BY <1>7, <2>4
  <2>5. CASE circuit'[c] = circuit[c]
    BY <1>7, <2>1, <2>2, <2>5 DEF WorkInv, SweepLeavesNoTrace
  <2> QED BY <2>3, <2>4, <2>5
<1>14. SweptMeansLatched'
  BY <1>2, <1>7, <1>8 DEF SweptMeansLatched, WorkInv
<1>15. ASSUME call' # NoCall PROVE SessionOK(call)' /\ StillCurrent(call)'
  <2>1. call' = t /\ stuck = {} /\ t.status = "Running"
    BY <1>2, <1>10, <1>15
  <2>2. RowsSoFar(t)
    BY <1>9, <2>1
  <2>3. t.epoch <= epoch' /\ t.revision <= revision'
    BY <1>2, <1>8, <1>9, <2>1 DEF SessionOK
  <2>4. SessionOK(call)'
    BY <2>1, <2>2, <2>3, <1>9 DEF SessionOK, RowsSoFar, RowsBefore, RowsInOrder
  <2>5. circuit' = s.snaps
    BY <1>5, <1>6, <2>1, CircuitsAre
  <2>6. left' = left /\ clicked' = clicked
    <3>1. left'["agent"] = left["agent"]
      BY <1>7, <2>1
    <3> QED BY <3>1, <1>2, <1>4, <1>7 DEF Runners
  <2>7. DOMAIN t.snaps = DOMAIN circuit' /\ t.engines = Engines'
    BY <1>2, <1>5, <1>6, <1>9 DEF StillCurrent, Engines
  <2>8. \A c \in DOMAIN circuit' :
          t.snaps[c] # meant'[c] => c \in left'["agent"] \cup left'["panel"] \cup clicked'
    BY <1>2, <1>6, <1>9, <2>6 DEF StillCurrent
  <2>9. ~Disturbed' => circuit' = t.snaps /\ \A i \in DOMAIN t.rows : t.rows[i].row = RowOf(t.snaps, t.flow.conds, t.rows[i].n)
    BY <1>9, <1>11, <2>5, <2>6 DEF Disturbed
  <2> QED BY <2>1, <2>4, <2>7, <2>8, <2>9 DEF StillCurrent
<1>16. TypeOK'
  <2>1. call' # NoCall => call'.epoch <= epoch' /\ call'.snaps \in Circuits
    BY <1>15 DEF SessionOK, SessionType
  <2> QED BY <1>2, <1>6, <1>7, <1>8, <2>1 DEF WorkInv, TypeOK
<1>17. epoch' \in Nat /\ revision' \in Nat /\ nextId' \in Nat /\ (file' = NoFile \/ file' \in Circuits)
  BY <1>2, <1>8, WorkAssumption DEF WorkInv
<1> QED BY <1>12, <1>13, <1>14, <1>15, <1>16, <1>17 DEF WorkInv

-----------------------------------------------------------------------------
(* The actions *)

LEMMA StartKeeps ==
  ASSUME WorkInv, NEW stuck \in SUBSET DOMAIN circuit, NEW outcome, NEW flow \in Flows,
         StartFlow(flow, outcome, stuck)
  PROVE  WorkInv' /\ RowsAreTheSweep'
<1>1. PICK s : s = Session(flow, circuit, epoch, revision)
  OBVIOUS
<1>2. flow \in FlowSpec
  BY WorkAssumption
<1>3. SessionOK(s) /\ Unchanged(s) /\ StillCurrent(s)
  BY <1>1, <1>2, FirstSession
<1>4. Advance(s, outcome, stuck)
  BY <1>1 DEF StartFlow
<1> QED BY <1>3, <1>4, AdvanceKeeps

LEMMA AdvanceFlowKeeps ==
  ASSUME WorkInv, NEW stuck \in SUBSET DOMAIN circuit, NEW outcome,
         AdvanceFlow(outcome, stuck)
  PROVE  WorkInv' /\ RowsAreTheSweep'
<1>1. PICK s : s = call
  OBVIOUS
<1>2. SessionOK(s) /\ Unchanged(s) /\ StillCurrent(s)
  BY <1>1 DEF AdvanceFlow, WorkInv
<1>3. Advance(s, outcome, stuck)
  BY <1>1 DEF AdvanceFlow
<1> QED BY <1>2, <1>3, AdvanceKeeps

\* What a step that runs no row does to the session
LEMMA SessionStays ==
  ASSUME WorkInv, epoch' \in Nat, revision' \in Nat, epoch <= epoch', revision <= revision',
         \/ call' = NoCall
         \/ call' = call /\ (epoch' # epoch \/ revision' # revision)
         \/ /\ call' = call
            /\ epoch' = epoch /\ DOMAIN circuit' = DOMAIN circuit
            /\ \A c \in DOMAIN circuit :
                 \/ c \in left'["agent"] \cup left'["panel"] \cup clicked'
                 \/ /\ meant'[c] = meant[c]
                    /\ c \notin left["agent"] \cup left["panel"] \cup clicked
            /\ Disturbed' \/ (~Disturbed /\ circuit' = circuit)
         \/ UNCHANGED <<call, epoch, revision, circuit, meant, left, clicked>>
  PROVE  call' # NoCall => SessionOK(call)' /\ (Unchanged(call)' => StillCurrent(call)')
<1> SUFFICES ASSUME call' # NoCall
             PROVE  SessionOK(call)' /\ (Unchanged(call)' => StillCurrent(call)')
  OBVIOUS
<1>1. call' = call /\ SessionOK(call)
  BY DEF WorkInv
<1>2. call \in SessionType /\ call.epoch \in Nat /\ call.revision \in Nat
  BY <1>1 DEF SessionOK, SessionType
<1>3. SessionOK(call)'
  BY <1>1, <1>2 DEF SessionOK, RowsSoFar, RowsBefore, RowsInOrder, WorkInv
<1>4. ASSUME Unchanged(call)' PROVE StillCurrent(call)'
  <2>1. epoch' = epoch /\ revision' = revision /\ Unchanged(call)
    <3>1. call.epoch = epoch' /\ call.revision = revision'
      BY <1>1, <1>4 DEF Unchanged
    <3>2. call.epoch <= epoch /\ call.revision <= revision /\ epoch \in Nat /\ revision \in Nat
      BY <1>1 DEF SessionOK, WorkInv
    <3> QED BY <3>1, <3>2, <1>2 DEF Unchanged
  <2>2. StillCurrent(call)
    BY <1>1, <2>1 DEF WorkInv
  <2>3. CASE /\ DOMAIN circuit' = DOMAIN circuit
             /\ \A c \in DOMAIN circuit :
                 \/ c \in left'["agent"] \cup left'["panel"] \cup clicked'
                 \/ /\ meant'[c] = meant[c]
                    /\ c \notin left["agent"] \cup left["panel"] \cup clicked
             /\ Disturbed' \/ (~Disturbed /\ circuit' = circuit)
    BY <1>1, <2>1, <2>2, <2>3 DEF StillCurrent, Engines
  <2>4. CASE UNCHANGED <<call, epoch, revision, circuit, meant, left, clicked>>
    BY <2>2, <2>4 DEF StillCurrent, Engines, Disturbed
  <2> QED BY <2>1, <2>3, <2>4, <1>1
<1> QED BY <1>3, <1>4

\* What is set or gone is taken off the lists of what runs left and of what was clicked.
LEMMA Settled ==
  ASSUME NEW cs, Settle(cs), WorkInv
  PROVE  /\ left' \in [Runners -> SUBSET Components] /\ clicked' \subseteq Components
         /\ \A r \in Runners : left'[r] = left[r] \ cs
         /\ clicked' = clicked \ cs
         /\ (agentLatch' = agentLatch /\ panelLatch' = panelLatch) => SweptMeansLatched'
<1>1. left \in [Runners -> SUBSET Components] /\ clicked \subseteq Components
  BY DEF WorkInv, TypeOK
<1>2. left' = [r \in Runners |-> left[r] \ cs] /\ clicked' = clicked \ cs
  BY DEF Settle
<1>3. left'["agent"] = left["agent"] \ cs /\ left'["panel"] = left["panel"] \ cs
  BY <1>2 DEF Runners
<1>4. left' \in [Runners -> SUBSET Components]
  BY <1>1, <1>2
<1> QED BY <1>1, <1>2, <1>3, <1>4 DEF SweptMeansLatched, WorkInv

LEMMA WorkFacts ==
  ASSUME WorkInv
  PROVE  /\ circuit \in Circuits /\ meant \in Circuits /\ DOMAIN meant = DOMAIN circuit
         /\ DOMAIN circuit \subseteq Components
         /\ circuit \in [DOMAIN circuit -> Settings] /\ meant \in [DOMAIN circuit -> Settings]
         /\ epoch \in Nat /\ revision \in Nat /\ epoch <= MaxEpoch /\ revision <= MaxRevision
         /\ MaxEpoch \in Nat /\ MaxRevision \in Nat
         /\ left \in [Runners -> SUBSET Components] /\ clicked \subseteq Components
         /\ "agent" \in Runners /\ "panel" \in Runners
BY WorkAssumption, CircuitsAre DEF WorkInv, TypeOK, Runners

LEMMA CircuitWith ==
  ASSUME NEW c \in Circuits, NEW d \in DOMAIN c, NEW v \in Settings
  PROVE  /\ [c EXCEPT ![d] = v] \in Circuits /\ DOMAIN [c EXCEPT ![d] = v] = DOMAIN c
         /\ \A e \in DOMAIN c : [c EXCEPT ![d] = v][e] = IF e = d THEN v ELSE c[e]
<1>1. DOMAIN c \subseteq Components /\ c \in [DOMAIN c -> Settings]
  BY CircuitsAre
<1>2. [c EXCEPT ![d] = v] \in [DOMAIN c -> Settings] /\ DOMAIN [c EXCEPT ![d] = v] = DOMAIN c
  BY <1>1
<1> QED BY <1>1, <1>2, CircuitsAre

LEMMA CircuitWithout ==
  ASSUME NEW c \in Circuits, NEW d
  PROVE  /\ Without(c, d) \in Circuits /\ DOMAIN Without(c, d) = DOMAIN c \ {d}
         /\ \A e \in DOMAIN c \ {d} : Without(c, d)[e] = c[e]
<1>1. DOMAIN c \subseteq Components /\ c \in [DOMAIN c -> Settings]
  BY CircuitsAre
<1>2. Without(c, d) \in [DOMAIN c \ {d} -> Settings] /\ DOMAIN Without(c, d) = DOMAIN c \ {d}
  BY <1>1 DEF Without
<1>3. \A e \in DOMAIN c \ {d} : Without(c, d)[e] = c[e]
  BY DEF Without
<1>4. DOMAIN Without(c, d) \subseteq Components
  BY <1>1, <1>2
<1> QED BY <1>2, <1>3, <1>4, CircuitsAre

LEMMA SetParameterKeeps ==
  ASSUME WorkInv, NEW c \in DOMAIN circuit, NEW v \in Settings, SetParameter(c, v)
  PROVE  WorkInv'
<1>1. /\ circuit' = [circuit EXCEPT ![c] = v] /\ meant' = [meant EXCEPT ![c] = v]
      /\ Settle({c}) /\ revision < MaxRevision /\ revision' = revision + 1
      /\ UNCHANGED <<epoch, clean, call, agentLatch, panelLatch, checkpoints, nextId, file>>
  BY DEF SetParameter, MarkModified
<1>2. /\ circuit' \in Circuits /\ DOMAIN circuit' = DOMAIN circuit
      /\ meant' \in Circuits /\ DOMAIN meant' = DOMAIN circuit
      /\ \A d \in DOMAIN circuit :
           circuit'[d] = (IF d = c THEN v ELSE circuit[d]) /\ meant'[d] = (IF d = c THEN v ELSE meant[d])
  BY <1>1, CircuitWith, WorkFacts
<1>3. /\ left' \in [Runners -> SUBSET Components] /\ clicked' \subseteq Components
      /\ left'["agent"] = left["agent"] \ {c} /\ left'["panel"] = left["panel"] \ {c}
      /\ clicked' = clicked \ {c} /\ SweptMeansLatched'
  BY <1>1, Settled, WorkFacts
<1>4. SweepLeavesNoTrace'
  BY <1>2, <1>3 DEF SweepLeavesNoTrace, WorkInv
<1>5. epoch' \in Nat /\ revision' \in Nat /\ epoch <= epoch' /\ revision <= revision' /\ revision' # revision
  BY <1>1, WorkFacts
<1>6. call' # NoCall => SessionOK(call)' /\ (Unchanged(call)' => StillCurrent(call)')
  BY <1>1, <1>5, SessionStays
<1>7. TypeOK'
  <2>1. revision' \in 0..MaxRevision
    BY <1>1, WorkFacts
  <2> QED BY <1>1, <1>2, <1>3, <1>5, <2>1 DEF WorkInv, TypeOK
<1> QED BY <1>1, <1>3, <1>4, <1>5, <1>6, <1>7 DEF WorkInv

LEMMA RemoveKeeps ==
  ASSUME WorkInv, NEW c \in DOMAIN circuit, RemoveComponent(c)
  PROVE  WorkInv'
<1>1. /\ circuit' = Without(circuit, c) /\ meant' = Without(meant, c)
      /\ Settle({c}) /\ revision < MaxRevision /\ revision' = revision + 1
      /\ UNCHANGED <<epoch, clean, call, agentLatch, panelLatch, checkpoints, nextId, file>>
  BY DEF RemoveComponent, MarkModified
<1>2. /\ circuit' \in Circuits /\ DOMAIN circuit' = DOMAIN circuit \ {c}
      /\ meant' \in Circuits /\ DOMAIN meant' = DOMAIN circuit \ {c}
      /\ \A d \in DOMAIN circuit \ {c} : circuit'[d] = circuit[d] /\ meant'[d] = meant[d]
  BY <1>1, CircuitWithout, WorkFacts
<1>3. /\ left' \in [Runners -> SUBSET Components] /\ clicked' \subseteq Components
      /\ left'["agent"] = left["agent"] \ {c} /\ left'["panel"] = left["panel"] \ {c}
      /\ clicked' = clicked \ {c} /\ SweptMeansLatched'
  BY <1>1, Settled, WorkFacts
<1>4. SweepLeavesNoTrace'
  BY <1>2, <1>3 DEF SweepLeavesNoTrace, WorkInv
<1>5. epoch' \in Nat /\ revision' \in Nat /\ epoch <= epoch' /\ revision <= revision' /\ revision' # revision
  BY <1>1, WorkFacts
<1>6. call' # NoCall => SessionOK(call)' /\ (Unchanged(call)' => StillCurrent(call)')
  BY <1>1, <1>5, SessionStays
<1>7. TypeOK'
  <2>1. revision' \in 0..MaxRevision
    BY <1>1, WorkFacts
  <2> QED BY <1>1, <1>2, <1>3, <1>5, <2>1 DEF WorkInv, TypeOK
<1> QED BY <1>1, <1>3, <1>4, <1>5, <1>6, <1>7 DEF WorkInv

LEMMA ClickKeeps ==
  ASSUME WorkInv, NEW c \in DOMAIN circuit, NEW v \in Settings, ClickCell(c, v)
  PROVE  WorkInv'
<1>1. /\ circuit' = [circuit EXCEPT ![c] = v] /\ meant' = [meant EXCEPT ![c] = v]
      /\ left' = [r \in Runners |-> left[r] \ {c}]
      /\ clicked' = IF Idle THEN clicked \ {c} ELSE clicked \cup {c}
      /\ UNCHANGED <<epoch, revision, clean, call, agentLatch, panelLatch, checkpoints, nextId, file>>
  BY DEF ClickCell
<1>2. /\ circuit' \in Circuits /\ DOMAIN circuit' = DOMAIN circuit
      /\ meant' \in Circuits /\ DOMAIN meant' = DOMAIN circuit
      /\ \A d \in DOMAIN circuit :
           circuit'[d] = (IF d = c THEN v ELSE circuit[d]) /\ meant'[d] = (IF d = c THEN v ELSE meant[d])
  BY <1>1, CircuitWith, WorkFacts
<1>3. /\ left' \in [Runners -> SUBSET Components]
      /\ left'["agent"] = left["agent"] \ {c} /\ left'["panel"] = left["panel"] \ {c}
      /\ clicked' \subseteq Components /\ clicked \ {c} \subseteq clicked'
      /\ (~Idle => clicked' = clicked \cup {c})
  BY <1>1, WorkFacts
<1>4. SweepLeavesNoTrace'
  BY <1>2, <1>3 DEF SweepLeavesNoTrace, WorkInv
<1>5. SweptMeansLatched'
  BY <1>1, <1>3 DEF SweptMeansLatched, WorkInv
<1>6. call' # NoCall => SessionOK(call)' /\ (Unchanged(call)' => StillCurrent(call)')
  <2>1. SUFFICES ASSUME call' # NoCall PROVE SessionOK(call)' /\ (Unchanged(call)' => StillCurrent(call)')
    OBVIOUS
  <2>2. clicked' = clicked \cup {c}
    BY <1>1, <1>3, <2>1 DEF Idle
  <2>3. Disturbed'
    BY <2>2 DEF Disturbed
  <2>4. \A d \in DOMAIN circuit :
          \/ d \in left'["agent"] \cup left'["panel"] \cup clicked'
          \/ meant'[d] = meant[d] /\ d \notin left["agent"] \cup left["panel"] \cup clicked
    BY <1>2, <1>3, <2>2
  <2>5. call' = call /\ epoch' = epoch /\ DOMAIN circuit' = DOMAIN circuit
        /\ epoch' \in Nat /\ revision' \in Nat /\ epoch <= epoch' /\ revision <= revision'
    BY <1>1, <1>2, WorkFacts
  <2> QED BY <2>1, <2>3, <2>4, <2>5, SessionStays
<1>7. TypeOK'
  BY <1>1, <1>2, <1>3 DEF WorkInv, TypeOK
<1> QED BY <1>1, <1>4, <1>5, <1>6, <1>7 DEF WorkInv

\* Nothing of what the invariant speaks of changes, but for the file.
LEMMA QuietKeeps ==
  ASSUME WorkInv, file' \in Circuits \cup {NoFile, file}, clean' \in 0..MaxRevision,
         call' = NoCall \/ call' = call,
         UNCHANGED <<circuit, epoch, revision, agentLatch, panelLatch, checkpoints, nextId,
                     meant, left, clicked>>
  PROVE  WorkInv'
<1>1. call' # NoCall => SessionOK(call)' /\ (Unchanged(call)' => StillCurrent(call)')
  BY SessionStays, WorkFacts
<1>2. TypeOK'
  BY DEF WorkInv, TypeOK
<1>3. SweepLeavesNoTrace' /\ SweptMeansLatched'
  BY DEF WorkInv, SweepLeavesNoTrace, SweptMeansLatched
<1> QED BY <1>1, <1>2, <1>3 DEF WorkInv

\* The project is replaced: nothing is left of what was known of the old one.
LEMMA ReplacedKeeps ==
  ASSUME WorkInv, NEW new \in Circuits, ReplaceCircuit(new), ClearLatches,
         MarkModified \/ MarkClean,
         checkpoints' \in Seq(Checkpoint), Len(checkpoints') <= MaxKept, UNCHANGED <<nextId, file>>
  PROVE  WorkInv'
<1>1. /\ epoch < MaxEpoch /\ epoch' = epoch + 1 /\ circuit' = new /\ meant' = new
      /\ Settle(Components) /\ call' = call
      /\ agentLatch' = FALSE /\ panelLatch' = FALSE
  BY DEF ReplaceCircuit, ClearLatches
<1>2. /\ revision' \in 0..MaxRevision /\ revision' \in Nat /\ revision <= revision'
      /\ clean' \in 0..MaxRevision
  BY WorkFacts DEF MarkModified, MarkClean, WorkInv, TypeOK
<1>3. /\ left' \in [Runners -> SUBSET Components] /\ clicked' = {}
      /\ left'["agent"] = {} /\ left'["panel"] = {}
  BY <1>1, Settled, WorkFacts
<1>4. SweepLeavesNoTrace' /\ SweptMeansLatched'
  BY <1>1, <1>3 DEF SweepLeavesNoTrace, SweptMeansLatched
<1>5. epoch' \in 0..MaxEpoch /\ epoch' \in Nat /\ epoch <= epoch' /\ epoch' # epoch
  BY <1>1, WorkFacts
<1>6. call' # NoCall => SessionOK(call)' /\ (Unchanged(call)' => StillCurrent(call)')
  BY <1>1, <1>2, <1>5, SessionStays
<1>7. call' # NoCall => call'.epoch <= epoch' /\ call'.snaps \in Circuits
  BY <1>6 DEF SessionOK, SessionType
<1>8. TypeOK'
  BY <1>1, <1>2, <1>3, <1>5, <1>7 DEF WorkInv, TypeOK
<1> QED BY <1>2, <1>4, <1>5, <1>6, <1>8 DEF WorkInv

LEMMA EmptyCircuit == <<>> \in Circuits
<1>1. <<>> \in [{} -> Settings] /\ DOMAIN <<>> = {}
  OBVIOUS
<1> QED BY <1>1, CircuitsAre

LEMMA SeedCircuit == Seed \in Circuits
BY CircuitsAre, SettingsAssumption DEF Seed, Settings

LEMMA NoCheckpoints == <<>> \in Seq(Checkpoint) /\ Len(<<>>) <= MaxKept
BY WorkAssumption

LEMMA StartOverKeeps ==
  ASSUME WorkInv, NEW new \in {<<>>, Seed}, StartOver(new)
  PROVE  WorkInv'
<1>1. new \in Circuits
  BY EmptyCircuit, SeedCircuit
<1> QED BY <1>1, NoCheckpoints, ReplacedKeeps DEF StartOver

LEMMA OpenKeeps ==
  ASSUME WorkInv, OpenFile \/ OpenBrokenFile
  PROVE  WorkInv'
<1>1. CASE OpenFile
  <2>1. file \in Circuits
    BY <1>1 DEF OpenFile, WorkInv
  <2> QED BY <1>1, <2>1, NoCheckpoints, ReplacedKeeps DEF OpenFile
<1>2. CASE OpenBrokenFile
  BY <1>2, EmptyCircuit, NoCheckpoints, ReplacedKeeps DEF OpenBrokenFile
<1> QED BY <1>1, <1>2

\* removeCheckpointsFrom leaves the checkpoints up to some place.
LEMMA CheckpointsBeforeAre ==
  ASSUME WorkInv, NEW id \in Nat
  PROVE  CheckpointsBefore(id) \in Seq(Checkpoint) /\ Len(CheckpointsBefore(id)) <= MaxKept
<1> DEFINE L == Len(checkpoints)
           Kept(k) == /\ k > 0 => checkpoints[k].id < id
                      /\ \A i \in (k + 1)..L : checkpoints[i].id >= id
           K == {k \in 0..L : \A i \in (k + 1)..L : checkpoints[i].id >= id}
<1>1. checkpoints \in Seq(Checkpoint) /\ L <= MaxKept /\ L \in Nat /\ MaxKept \in Nat
  BY WorkAssumption DEF WorkInv, TypeOK
<1>2. L \in K
  BY <1>1
<1>3. PICK k \in K : \A m \in K : k <= m
  <2>1. K \in SUBSET Nat /\ K # {}
    BY <1>1, <1>2
  <2> HIDE DEF K
  <2> QED BY <2>1, Least
<1>4. Kept(k)
  <2>1. ASSUME k > 0 PROVE checkpoints[k].id < id
    <3>1. k - 1 \in 0..L /\ k - 1 \notin K
      <4>1. k \in 0..L
        BY <1>3
      <4>2. k - 1 \in 0..L /\ ~(k <= k - 1)
        BY <1>1, <2>1, <4>1
      <4> HIDE DEF K, L
      <4> QED BY <1>3, <4>2
    <3>2. PICK i \in ((k - 1) + 1)..L : ~(checkpoints[i].id >= id)
      BY <3>1
    <3>3. i = k
      BY <3>2, <1>3
    <3>4. checkpoints[k] \in Checkpoint
      BY <1>1, <1>3, <2>1
    <3> QED BY <3>2, <3>3, <3>4 DEF Checkpoint
  <2> QED BY <2>1, <1>3
<1> DEFINE c == CHOOSE j \in 0..L : Kept(j)
<1>5. c \in 0..L
  <2> HIDE DEF Kept, L
  <2> QED BY <1>3, <1>4
<1>6. CheckpointsBefore(id) = SubSeq(checkpoints, 1, c)
  BY DEF CheckpointsBefore
<1> HIDE DEF c
<1>7. \A i \in 1..c : checkpoints[i] \in Checkpoint
  BY <1>1, <1>5
<1>8. SubSeq(checkpoints, 1, c) \in Seq(Checkpoint)
      /\ Len(SubSeq(checkpoints, 1, c)) = IF 1 <= c THEN c - 1 + 1 ELSE 0
  BY <1>5, <1>7, SubSeqProperties
<1> QED BY <1>1, <1>5, <1>6, <1>8

LEMMA RevertKeeps ==
  ASSUME WorkInv, NEW i \in DOMAIN checkpoints, RevertCheckpoint(checkpoints[i])
  PROVE  WorkInv'
<1>1. checkpoints \in Seq(Checkpoint)
  BY DEF WorkInv, TypeOK
<1>2. PICK cp \in Checkpoint : cp = checkpoints[i]
  BY <1>1
<1>3. cp.circuit \in Circuits /\ cp.id \in Nat
  BY DEF Checkpoint
<1>4. /\ ReplaceCircuit(cp.circuit) /\ MarkModified /\ ClearLatches
      /\ checkpoints' = CheckpointsBefore(cp.id) /\ UNCHANGED <<nextId, file>>
  BY <1>2 DEF RevertCheckpoint
<1> QED BY <1>3, <1>4, CheckpointsBeforeAre, ReplacedKeeps

LEMMA CommitKeeps ==
  ASSUME WorkInv, NEW snapshot \in Circuits, CommitCheckpoint(snapshot)
  PROVE  /\ checkpoints' \in Seq(Checkpoint) /\ Len(checkpoints') <= MaxKept
         /\ checkpoints' # <<>> /\ checkpoints'[Len(checkpoints')].circuit = snapshot
         /\ nextId' \in Nat
<1> DEFINE cp == [id |-> nextId, circuit |-> snapshot]
           s == Append(checkpoints, cp)
<1>1. checkpoints \in Seq(Checkpoint) /\ Len(checkpoints) <= MaxKept /\ Len(checkpoints) \in Nat
      /\ MaxKept \in Nat \ {0} /\ nextId \in Nat
  BY WorkAssumption DEF WorkInv, TypeOK
<1>2. cp \in Checkpoint /\ cp.circuit = snapshot
  BY <1>1 DEF Checkpoint
<1>3. checkpoints' = Newest(s) /\ nextId' = nextId + 1
  BY DEF CommitCheckpoint
<1> HIDE DEF cp
<1>4. s \in Seq(Checkpoint) /\ s # <<>> /\ Len(s) = Len(checkpoints) + 1 /\ s[Len(s)] = cp
  BY <1>1, <1>2
<1> HIDE DEF s
<1>5. CASE Len(s) > MaxKept
  <2>1. checkpoints' = Tail(s)
    BY <1>3, <1>5 DEF Newest
  <2>2. Tail(s) \in Seq(Checkpoint) /\ Len(Tail(s)) = Len(s) - 1
    BY <1>4
  <2>3. Len(Tail(s)) >= 1 /\ Tail(s)[Len(Tail(s))] = s[Len(s)]
    BY <1>1, <1>4, <1>5, <2>2
  <2>4. Tail(s) # <<>>
    <3>1. Len(<<>>) = 0
      OBVIOUS
    <3> DEFINE u == Tail(s)
    <3>2. Len(u) >= 1
      BY <2>3
    <3> HIDE DEF u
    <3>3. u # <<>>
      BY <3>1, <3>2
    <3> QED BY <3>3 DEF u
  <2> QED BY <1>1, <1>2, <1>3, <1>4, <2>1, <2>2, <2>3, <2>4
<1>6. CASE ~(Len(s) > MaxKept)
  BY <1>1, <1>2, <1>3, <1>4, <1>6 DEF Newest
<1> QED BY <1>5, <1>6

LEMMA RunPanelKeeps ==
  ASSUME WorkInv, NEW flow \in Flows, NEW stuck \in SUBSET DOMAIN circuit,
         NEW n \in Rows(flow.conds), RunPanel(flow, n, stuck)
  PROVE  WorkInv'
<1>1. /\ ~panelLatch /\ circuit' = BoundaryLeaves(circuit, flow.conds, n, stuck)
      /\ panelLatch' = (stuck # {})
      /\ left' = [left EXCEPT !["panel"] = @ \cup {c \in stuck : circuit'[c] # circuit[c]}]
      /\ UNCHANGED <<epoch, revision, clean, call, agentLatch, checkpoints, nextId, file, meant, clicked>>
  BY DEF RunPanel
<1>2. flow.conds \in Seq(Condition)
  BY WorkAssumption DEF FlowSpec
<1>3. /\ circuit' \in Circuits /\ DOMAIN circuit' = DOMAIN circuit
      /\ \A c \in DOMAIN circuit : c \notin stuck => circuit'[c] = circuit[c]
  <2>1. /\ Swept(circuit, flow.conds, n) \in Circuits
        /\ DOMAIN Swept(circuit, flow.conds, n) = DOMAIN circuit
    BY <1>2, SweptIs, WorkFacts
  <2> QED BY <1>1, <2>1, RestoredIs, WorkFacts DEF BoundaryLeaves
<1>4. /\ left' \in [Runners -> SUBSET Components] /\ left'["agent"] = left["agent"]
      /\ left'["panel"] = left["panel"] \cup {c \in stuck : circuit'[c] # circuit[c]}
  <2>1. {c \in stuck : circuit'[c] # circuit[c]} \subseteq Components
    BY WorkFacts
  <2> QED BY <1>1, <2>1, WorkFacts
<1>5. SweepLeavesNoTrace'
  BY <1>1, <1>3, <1>4 DEF SweepLeavesNoTrace, WorkInv
<1>6. SweptMeansLatched'
  BY <1>1, <1>4 DEF SweptMeansLatched, WorkInv
<1>7. call' # NoCall => SessionOK(call)' /\ (Unchanged(call)' => StillCurrent(call)')
  <2>1. \A c \in DOMAIN circuit :
          \/ c \in left'["agent"] \cup left'["panel"] \cup clicked'
          \/ meant'[c] = meant[c] /\ c \notin left["agent"] \cup left["panel"] \cup clicked
    BY <1>1, <1>4
  <2>2. Disturbed' \/ (~Disturbed /\ circuit' = circuit)
    <3>1. SUFFICES ASSUME ~Disturbed' PROVE ~Disturbed /\ circuit' = circuit
      OBVIOUS
    <3>2. left'["panel"] = {} /\ clicked' = {}
      BY <3>1 DEF Disturbed
    <3>3. ~Disturbed
      BY <1>1, <1>4, <3>2 DEF Disturbed
    <3>4. \A c \in DOMAIN circuit : circuit'[c] = circuit[c]
      BY <1>3, <1>4, <3>2
    <3>5. circuit' = circuit
      BY <1>3, <3>4, CircuitsAre, WorkFacts
    <3> QED BY <3>3, <3>5
  <2>3. call' = call /\ epoch' = epoch /\ DOMAIN circuit' = DOMAIN circuit
        /\ epoch' \in Nat /\ revision' \in Nat /\ epoch <= epoch' /\ revision <= revision'
    BY <1>1, <1>3, WorkFacts
  <2> QED BY <2>1, <2>2, <2>3, SessionStays
<1>8. TypeOK'
  BY <1>1, <1>3, <1>4 DEF WorkInv, TypeOK
<1> QED BY <1>1, <1>5, <1>6, <1>7, <1>8 DEF WorkInv

LEMMA InVainKeeps ==
  ASSUME WorkInv, NEW flow \in Flows, NEW stuck \in SUBSET DOMAIN circuit,
         StartFlowInVain(flow, stuck)
  PROVE  WorkInv'
<1>1. /\ call = NoCall /\ call' = NoCall /\ Latch(stuck # {})
      /\ UNCHANGED <<circuit, epoch, panelLatch, checkpoints, nextId, file, meant, left, clicked>>
  BY DEF StartFlowInVain, Idle, history
<1>2. /\ agentLatch' \in BOOLEAN /\ (agentLatch => agentLatch')
      /\ revision' \in 0..MaxRevision /\ clean' \in 0..MaxRevision
  BY <1>1, Latched
<1>3. SweepLeavesNoTrace' /\ SweptMeansLatched'
  BY <1>1, <1>2 DEF WorkInv, SweepLeavesNoTrace, SweptMeansLatched
<1>4. revision' \in Nat
  BY <1>2, WorkFacts
<1>5. TypeOK'
  BY <1>1, <1>2 DEF WorkInv, TypeOK
<1> QED BY <1>1, <1>3, <1>4, <1>5 DEF WorkInv

LEMMA CancelKeeps ==
  ASSUME WorkInv, NEW stuck \in SUBSET DOMAIN circuit, CancelFlow(stuck)
  PROVE  WorkInv'
<1>1. /\ call # NoCall /\ call' = NoCall
      /\ UNCHANGED <<epoch, panelLatch, checkpoints, nextId, file, meant, left, clicked>>
  BY DEF CancelFlow
<1>2. CASE Unchanged(call)
  <2>1. circuit' = Restored(circuit, call.snaps, stuck) /\ Latch(stuck # {})
    BY <1>2 DEF CancelFlow
  <2>2. /\ agentLatch' \in BOOLEAN /\ (agentLatch => agentLatch')
        /\ revision' \in 0..MaxRevision /\ clean' \in 0..MaxRevision
    BY <2>1, Latched
  <2>3. call.snaps \in Circuits /\ StillCurrent(call)
    BY <1>1, <1>2 DEF WorkInv, SessionOK, SessionType
  <2>4. /\ circuit' \in Circuits /\ DOMAIN circuit' = DOMAIN circuit
        /\ \A c \in DOMAIN circuit : circuit'[c] = circuit[c] \/ circuit'[c] = call.snaps[c]
    BY <2>1, <2>3, RestoredIs, WorkFacts
  <2>5. SweepLeavesNoTrace'
    BY <1>1, <2>3, <2>4 DEF WorkInv, SweepLeavesNoTrace, StillCurrent
  <2>6. SweptMeansLatched'
    BY <1>1, <2>2 DEF WorkInv, SweptMeansLatched
  <2>7. revision' \in Nat
    BY <2>2, WorkFacts
  <2>8. TypeOK'
    BY <1>1, <2>2, <2>4 DEF WorkInv, TypeOK
  <2> QED BY <1>1, <2>5, <2>6, <2>7, <2>8 DEF WorkInv
<1>3. CASE ~Unchanged(call)
  <2>1. UNCHANGED <<circuit, revision, clean, agentLatch>>
    BY <1>3 DEF CancelFlow
  <2>2. file' \in Circuits \cup {NoFile, file} /\ clean' \in 0..MaxRevision
    BY <1>1, <2>1 DEF WorkInv, TypeOK
  <2> QED BY <1>1, <2>1, <2>2, QuietKeeps
<1> QED BY <1>2, <1>3

-----------------------------------------------------------------------------
(* circuit_edit *)

EditType ==
  [circuit : Circuits, meant : Circuits, changed : Nat,
   outcome : {"done", "torn", "thrown", "refused"}]

\* What the operations so far made of the circuit: a component is as it was, or as
\* the agent set it, and where anything changed, that was counted or went wrong.
EditOK(r) ==
  /\ r \in EditType
  /\ DOMAIN r.meant = DOMAIN r.circuit /\ DOMAIN r.circuit \subseteq DOMAIN circuit
  /\ \A c \in DOMAIN r.circuit :
       \/ r.circuit[c] = r.meant[c]
       \/ r.circuit[c] = circuit[c] /\ r.meant[c] = meant[c]
  /\ r.circuit # circuit => r.changed > 0 \/ r.outcome = "torn"

LEMMA BegunOK ==
  ASSUME WorkInv PROVE EditOK(Begun(circuit))
BY WorkFacts DEF EditOK, EditType, Begun

LEMMA OperationOK ==
  ASSUME WorkInv, NEW r, EditOK(r), NEW o \in EditOp
  PROVE  EditOK(Operation(r, o))
<1>1. /\ r \in EditType /\ r.circuit \in Circuits /\ r.meant \in Circuits /\ r.changed \in Nat
      /\ DOMAIN r.meant = DOMAIN r.circuit
  BY DEF EditOK, EditType
<1>2. o.op \in {"set", "remove", "tear", "wire", "refuse", "throw"} /\ o.value \in Settings
  BY DEF EditOp
<1>3. CASE r.outcome # "done"
  BY <1>3 DEF Operation
<1>4. CASE r.outcome = "done" /\ o.op = "throw"
  <2>1. Operation(r, o) = [r EXCEPT !.outcome = "thrown"]
    BY <1>4 DEF Operation
  <2> QED BY <2>1, <1>4, <1>1 DEF EditOK, EditType
<1>5. CASE r.outcome = "done" /\ o.op # "throw" /\ (o.op = "refuse" \/ o.comp \notin DOMAIN r.circuit)
  <2>1. Operation(r, o) = [r EXCEPT !.outcome = "refused"]
    BY <1>5 DEF Operation
  <2> QED BY <2>1, <1>5, <1>1 DEF EditOK, EditType
<1>6. CASE r.outcome = "done" /\ o.op \in {"remove", "set", "tear", "wire"} /\ o.comp \in DOMAIN r.circuit
  <2> DEFINE d == o.comp
             q == Operation(r, o)
  <2>1. CASE o.op = "remove"
    <3>1. q = [r EXCEPT !.circuit = Without(r.circuit, d), !.meant = Without(r.meant, d),
                        !.changed = r.changed + 1]
      BY <1>6, <2>1 DEF Operation, Removal
    <3> HIDE DEF q
    <3>2. /\ Without(r.circuit, d) \in Circuits /\ DOMAIN Without(r.circuit, d) = DOMAIN r.circuit \ {d}
          /\ \A e \in DOMAIN r.circuit \ {d} : Without(r.circuit, d)[e] = r.circuit[e]
          /\ Without(r.meant, d) \in Circuits /\ DOMAIN Without(r.meant, d) = DOMAIN r.circuit \ {d}
          /\ \A e \in DOMAIN r.circuit \ {d} : Without(r.meant, d)[e] = r.meant[e]
      <4>1. /\ Without(r.circuit, d) \in Circuits /\ DOMAIN Without(r.circuit, d) = DOMAIN r.circuit \ {d}
            /\ \A e \in DOMAIN r.circuit \ {d} : Without(r.circuit, d)[e] = r.circuit[e]
        BY <1>1, CircuitWithout
      <4>2. /\ Without(r.meant, d) \in Circuits /\ DOMAIN Without(r.meant, d) = DOMAIN r.meant \ {d}
            /\ \A e \in DOMAIN r.meant \ {d} : Without(r.meant, d)[e] = r.meant[e]
        BY <1>1, CircuitWithout
      <4> QED BY <1>1, <4>1, <4>2
    <3>3. /\ q.circuit = Without(r.circuit, d) /\ q.meant = Without(r.meant, d)
          /\ q.changed = r.changed + 1 /\ q.outcome = r.outcome
      BY <1>1, <3>1 DEF EditType
    <3>4. q \in EditType
      <4>1. r.changed + 1 \in Nat
        BY <1>1
      <4> QED BY <1>1, <3>1, <3>2, <4>1 DEF EditType
    <3> QED BY <1>1, <3>2, <3>3, <3>4 DEF EditOK, q
  <2>2. CASE o.op \in {"set", "tear"}
    <3> DEFINE n == IF o.op = "set" /\ r.circuit[d] # o.value THEN r.changed + 1 ELSE r.changed
               u == IF o.op = "set" THEN r.outcome ELSE "torn"
    <3>1. q = [r EXCEPT !.circuit = [r.circuit EXCEPT ![d] = o.value],
                        !.meant = [r.meant EXCEPT ![d] = o.value],
                        !.changed = n, !.outcome = u]
      BY <1>1, <1>6, <2>2 DEF Operation, ParameterWrite, TornWrite, EditType
    <3> HIDE DEF q
    <3>2. /\ [r.circuit EXCEPT ![d] = o.value] \in Circuits
          /\ DOMAIN [r.circuit EXCEPT ![d] = o.value] = DOMAIN r.circuit
          /\ \A e \in DOMAIN r.circuit :
               [r.circuit EXCEPT ![d] = o.value][e] = IF e = d THEN o.value ELSE r.circuit[e]
          /\ [r.meant EXCEPT ![d] = o.value] \in Circuits
          /\ DOMAIN [r.meant EXCEPT ![d] = o.value] = DOMAIN r.circuit
          /\ \A e \in DOMAIN r.circuit :
               [r.meant EXCEPT ![d] = o.value][e] = IF e = d THEN o.value ELSE r.meant[e]
      BY <1>1, <1>2, <1>6, CircuitWith
    <3>3. /\ q.circuit = [r.circuit EXCEPT ![d] = o.value] /\ q.meant = [r.meant EXCEPT ![d] = o.value]
          /\ q.changed = n /\ q.outcome = u
      BY <1>1, <3>1 DEF EditType
    <3>4. n \in Nat /\ u \in {"done", "torn"}
      BY <1>1, <1>6
    <3>5. q \in EditType
      BY <1>1, <3>1, <3>2, <3>4 DEF EditType
    <3>6. q.circuit # circuit => q.changed > 0 \/ q.outcome = "torn"
      <4>1. CASE o.op = "tear"
        BY <3>3, <4>1
      <4>2. CASE o.op = "set" /\ r.circuit[d] # o.value
        BY <1>1, <3>3, <4>2
      <4>3. CASE o.op = "set" /\ r.circuit[d] = o.value
        <5>1. q.circuit = r.circuit
          BY <1>1, <3>2, <3>3, <4>3, CircuitsAre
        <5> QED BY <1>6, <3>3, <4>3, <5>1 DEF EditOK
      <4> QED BY <2>2, <4>1, <4>2, <4>3
    <3>7. \A c \in DOMAIN q.circuit :
            \/ q.circuit[c] = q.meant[c]
            \/ q.circuit[c] = circuit[c] /\ q.meant[c] = meant[c]
      BY <1>1, <3>2, <3>3 DEF EditOK
    <3> QED BY <1>1, <3>2, <3>3, <3>5, <3>6, <3>7 DEF EditOK, q
  <2>3. CASE o.op = "wire"
    <3>1. q = [r EXCEPT !.changed = r.changed + 1]
      BY <1>6, <2>3 DEF Operation, Wire
    <3> HIDE DEF q
    <3>2. q \in EditType /\ q.circuit = r.circuit /\ q.meant = r.meant /\ q.changed = r.changed + 1
      BY <1>1, <3>1 DEF EditType
    <3> QED BY <1>1, <3>2 DEF EditOK, q
  <2> QED BY <1>6, <2>1, <2>2, <2>3
<1> QED BY <1>2, <1>3, <1>4, <1>5, <1>6

OperatedUpTo(ops, n, g) ==
  g = [i \in 0..n |-> IF i = 0 THEN Begun(circuit) ELSE Operation(g[i - 1], ops[i])]

LEMMA OperatedExists ==
  ASSUME NEW ops
  PROVE  \A n \in Nat : \E g : OperatedUpTo(ops, n, g)
<1> DEFINE N == {n \in Nat : \E g : OperatedUpTo(ops, n, g)}
<1>1. 0 \in N
  <2> DEFINE g0 == [i \in 0..0 |-> Begun(circuit)]
  <2>1. OperatedUpTo(ops, 0, g0)
    BY DEF OperatedUpTo
  <2> QED BY <2>1
<1>2. ASSUME NEW n \in N PROVE n + 1 \in N
  <2>1. PICK g : OperatedUpTo(ops, n, g)
    OBVIOUS
  <2> DEFINE h == [i \in 0..(n + 1) |-> IF i = n + 1 THEN Operation(g[n], ops[n + 1]) ELSE g[i]]
  <2>2. \A i \in 0..n : g[i] = IF i = 0 THEN Begun(circuit) ELSE Operation(g[i - 1], ops[i])
    BY <2>1 DEF OperatedUpTo
  <2>3. ASSUME NEW i \in 0..(n + 1)
        PROVE  h[i] = IF i = 0 THEN Begun(circuit) ELSE Operation(h[i - 1], ops[i])
    <3>1. CASE i = n + 1
      BY <3>1
    <3>2. CASE i # n + 1
      BY <3>2, <2>2
    <3> QED BY <3>1, <3>2
  <2>4. h = [i \in 0..(n + 1) |-> h[i]]
    OBVIOUS
  <2>5. OperatedUpTo(ops, n + 1, h)
    BY <2>3, <2>4 DEF OperatedUpTo
  <2> QED BY <2>5
<1>3. N = Nat
  <2> HIDE DEF N
  <2> QED BY <1>1, <1>2, Induction DEF N
<1> QED BY <1>3

LEMMA OperatedOK ==
  ASSUME WorkInv, NEW ops \in EditCalls
  PROVE  EditOK(Operated(ops))
<1>1. ops \in Seq(EditOp) /\ Len(ops) \in Nat
  BY WorkAssumption
<1> DEFINE g == CHOOSE g : OperatedUpTo(ops, Len(ops), g)
<1>2. OperatedUpTo(ops, Len(ops), g)
  BY <1>1, OperatedExists
<1>3. Operated(ops) = g[Len(ops)]
  BY DEF Operated, OperatedUpTo
<1> HIDE DEF g
<1>4. \A i \in 0..Len(ops) : g[i] = IF i = 0 THEN Begun(circuit) ELSE Operation(g[i - 1], ops[i])
  BY <1>2 DEF OperatedUpTo
<1> DEFINE N == {n \in Nat : n <= Len(ops) => EditOK(g[n])}
<1>5. 0 \in N
  BY <1>1, <1>4, BegunOK
<1>6. ASSUME NEW n \in N PROVE n + 1 \in N
  <2>1. SUFFICES ASSUME n + 1 <= Len(ops) PROVE EditOK(g[n + 1])
    OBVIOUS
  <2>2. g[n + 1] = Operation(g[n], ops[n + 1])
    BY <1>1, <1>4, <2>1
  <2>3. EditOK(g[n])
    BY <1>1, <2>1
  <2>4. ops[n + 1] \in EditOp
    BY <1>1, <2>1
  <2> QED BY <2>2, <2>3, <2>4, OperationOK
<1>7. N = Nat
  <2> HIDE DEF N
  <2> QED BY <1>5, <1>6, Induction DEF N
<1> QED BY <1>1, <1>3, <1>7

LEMMA EditKeeps ==
  ASSUME WorkInv, NEW ops \in EditCalls, EditCircuit(ops)
  PROVE  /\ WorkInv'
         /\ <<circuit, revision>>' # <<circuit, revision>> =>
              checkpoints' # <<>> /\ checkpoints'[Len(checkpoints')].circuit = circuit
<1>1. PICK r : r = Operated(ops)
  OBVIOUS
<1> DEFINE bumps == r.changed + (IF r.outcome = "torn" THEN 1 ELSE 0)
           cs == {c \in OpsTouch(ops) : c \notin DOMAIN circuit' \/ circuit'[c] # circuit[c]}
<1>2. /\ call = NoCall /\ revision + bumps <= MaxRevision
      /\ circuit' = r.circuit /\ meant' = r.meant /\ revision' = revision + bumps
      /\ IF KeepsCheckpoint(r) THEN CommitCheckpoint(circuit) ELSE UNCHANGED <<checkpoints, nextId>>
      /\ Settle(cs)
      /\ UNCHANGED <<epoch, clean, call, agentLatch, panelLatch, file>>
  BY <1>1 DEF EditCircuit, Idle
<1>3. EditOK(r)
  BY <1>1, OperatedOK
<1>4. /\ r.circuit \in Circuits /\ r.meant \in Circuits /\ r.changed \in Nat
      /\ DOMAIN r.meant = DOMAIN r.circuit /\ DOMAIN r.circuit \subseteq DOMAIN circuit
  BY <1>3 DEF EditOK, EditType
<1>5. bumps \in Nat /\ revision' \in 0..MaxRevision /\ revision' \in Nat
  BY <1>2, <1>4, WorkFacts
<1>6. /\ left' \in [Runners -> SUBSET Components] /\ clicked' \subseteq Components
      /\ left'["agent"] = left["agent"] \ cs /\ left'["panel"] = left["panel"] \ cs
      /\ clicked' = clicked \ cs /\ SweptMeansLatched'
  BY <1>2, Settled, WorkFacts
<1>7. SweepLeavesNoTrace'
  <2>1. SUFFICES ASSUME NEW c \in DOMAIN circuit', circuit'[c] # meant'[c]
                 PROVE  c \in left'["agent"] \cup left'["panel"] \cup clicked'
    BY DEF SweepLeavesNoTrace
  <2>2. c \in DOMAIN circuit /\ circuit'[c] = circuit[c] /\ meant'[c] = meant[c]
    BY <1>2, <1>3, <1>4, <2>1 DEF EditOK
  <2>3. c \notin cs
    BY <2>1, <2>2
  <2>4. c \in left["agent"] \cup left["panel"] \cup clicked
    BY <2>1, <2>2 DEF WorkInv, SweepLeavesNoTrace
  <2> QED BY <1>6, <2>3, <2>4
<1>8. /\ checkpoints' \in Seq(Checkpoint) /\ Len(checkpoints') <= MaxKept /\ nextId' \in Nat
      /\ KeepsCheckpoint(r) => checkpoints' # <<>> /\ checkpoints'[Len(checkpoints')].circuit = circuit
  <2>1. CASE KeepsCheckpoint(r)
    BY <1>2, <2>1, CommitKeeps, WorkFacts
  <2>2. CASE ~KeepsCheckpoint(r)
    BY <1>2, <2>2 DEF WorkInv, TypeOK
  <2> QED BY <2>1, <2>2
<1>9. TypeOK'
  BY <1>2, <1>4, <1>5, <1>6, <1>8 DEF WorkInv, TypeOK
<1>10. WorkInv'
  BY <1>2, <1>5, <1>6, <1>7, <1>8, <1>9 DEF WorkInv
<1>11. <<circuit, revision>>' # <<circuit, revision>> => KeepsCheckpoint(r)
  <2>1. CASE circuit' # circuit
    BY <1>2, <1>3, <2>1 DEF EditOK, KeepsCheckpoint
  <2>2. CASE circuit' = circuit /\ revision' # revision
    <3>1. bumps # 0
      BY <1>2, <1>5, <2>2, WorkFacts
    <3> QED BY <1>4, <3>1 DEF KeepsCheckpoint
  <2> QED BY <2>1, <2>2
<1> QED BY <1>8, <1>10, <1>11

-----------------------------------------------------------------------------
(* The invariant *)

LEMMA InitOK == Init => WorkInv /\ RowsAreTheSweep
<1> SUFFICES ASSUME Init PROVE WorkInv /\ RowsAreTheSweep
  OBVIOUS
<1>1. Seed \in Circuits /\ circuit = Seed /\ meant = Seed
  BY SeedCircuit DEF Init
<1>2. left = [r \in Runners |-> {}] /\ clicked = {}
  BY DEF Init
<1>3. left \in [Runners -> SUBSET Components] /\ left["agent"] = {} /\ left["panel"] = {}
  BY <1>2 DEF Runners
<1>4. TypeOK
  <2>1. epoch = 0 /\ revision = 0 /\ clean = 0 /\ call = NoCall /\ agentLatch = FALSE /\ panelLatch = FALSE
    BY DEF Init
  <2>2. epoch \in 0..MaxEpoch /\ revision \in 0..MaxRevision /\ clean \in 0..MaxRevision
    BY <2>1, WorkAssumption
  <2>3. checkpoints \in Seq(Checkpoint) /\ Len(checkpoints) <= MaxKept
    <3>1. checkpoints = <<>>
      BY DEF Init
    <3> QED BY <3>1, NoCheckpoints
  <2> QED BY <1>1, <1>2, <1>3, <2>1, <2>2, <2>3 DEF TypeOK
<1>5. SweepLeavesNoTrace /\ SweptMeansLatched
  BY <1>1, <1>2, <1>3 DEF SweepLeavesNoTrace, SweptMeansLatched
<1>6. RowsAreTheSweep
  BY DEF Init, RowsAreTheSweep
<1> QED BY <1>4, <1>5, <1>6 DEF Init, WorkInv

\* Saves, and calls that do nothing to the circuit
LEMMA SaveKeeps ==
  ASSUME WorkInv, SaveByUser \/ SaveByAgent \/ RefuseCall \/ AbandonFlow
  PROVE  WorkInv'
<1>1. CASE SaveByUser \/ SaveByAgent
  <2>1. /\ file' = circuit /\ clean' = revision
        /\ UNCHANGED <<circuit, epoch, revision, call, agentLatch, panelLatch, checkpoints,
                       nextId, meant, left, clicked>>
    BY <1>1 DEF SaveByUser, SaveByAgent, SaveProject, MarkClean, history
  <2>2. file' \in Circuits \cup {NoFile, file} /\ clean' \in 0..MaxRevision
    BY <2>1 DEF WorkInv, TypeOK
  <2> QED BY <2>1, <2>2, QuietKeeps
<1>2. CASE RefuseCall \/ AbandonFlow
  <2>1. /\ call' = NoCall \/ call' = call
        /\ UNCHANGED <<circuit, epoch, revision, clean, agentLatch, panelLatch, checkpoints,
                       nextId, file, meant, left, clicked>>
    BY <1>2 DEF RefuseCall, AbandonFlow, history
  <2>2. file' \in Circuits \cup {NoFile, file} /\ clean' \in 0..MaxRevision
    BY <2>1 DEF WorkInv, TypeOK
  <2> QED BY <2>1, <2>2, QuietKeeps
<1> QED BY <1>1, <1>2

LEMMA WorkKeeps ==
  ASSUME WorkInv, Work PROVE WorkInv'
<1>1. ASSUME NEW c \in DOMAIN circuit, NEW v \in Settings, SetParameter(c, v) PROVE WorkInv'
  BY <1>1, SetParameterKeeps
<1>2. ASSUME NEW c \in DOMAIN circuit, NEW v \in Settings, ClickCell(c, v) PROVE WorkInv'
  BY <1>2, ClickKeeps
<1>3. ASSUME NEW c \in DOMAIN circuit, RemoveComponent(c) PROVE WorkInv'
  BY <1>3, RemoveKeeps
<1>4. ASSUME StartOver(<<>>) \/ StartOver(Seed) PROVE WorkInv'
  BY <1>4, StartOverKeeps
<1>5. ASSUME SaveByUser \/ SaveByAgent \/ RefuseCall \/ AbandonFlow PROVE WorkInv'
  BY <1>5, SaveKeeps
<1>6. ASSUME LoadByUser \/ LoadByAgent PROVE WorkInv'
  BY <1>6, OpenKeeps DEF LoadByUser, LoadByAgent
<1>7. ASSUME NEW i \in DOMAIN checkpoints, RevertCheckpoint(checkpoints[i]) PROVE WorkInv'
  BY <1>7, RevertKeeps
<1>8. ASSUME NEW flow \in Flows, NEW stuck \in SUBSET DOMAIN circuit,
             NEW n \in Rows(flow.conds), RunPanel(flow, n, stuck)
      PROVE  WorkInv'
  BY <1>8, RunPanelKeeps
<1>9. ASSUME NEW ops \in EditCalls, EditCircuit(ops) PROVE WorkInv'
  BY <1>9, EditKeeps
<1>10. ASSUME NEW flow \in Flows, NEW stuck \in SUBSET DOMAIN circuit, StartFlowInVain(flow, stuck)
       PROVE  WorkInv'
  BY <1>10, InVainKeeps
<1>11. ASSUME NEW stuck \in SUBSET DOMAIN circuit, CancelFlow(stuck) PROVE WorkInv'
  BY <1>11, CancelKeeps
<1> QED BY <1>1, <1>2, <1>3, <1>4, <1>5, <1>6, <1>7, <1>8, <1>9, <1>10, <1>11 DEF Work

LEMMA StutterKeeps ==
  ASSUME WorkInv, RowsAreTheSweep, UNCHANGED vars PROVE WorkInv' /\ RowsAreTheSweep'
<1>1. file' \in Circuits \cup {NoFile, file} /\ clean' \in 0..MaxRevision
  BY DEF vars, WorkInv, TypeOK
<1>2. WorkInv'
  BY <1>1, QuietKeeps DEF vars
<1>3. RowsAreTheSweep'
  BY DEF vars, RowsAreTheSweep, RowsInOrder
<1> QED BY <1>2, <1>3

LEMMA NextKeeps ==
  WorkInv /\ RowsAreTheSweep /\ [Next]_vars => WorkInv' /\ RowsAreTheSweep'
<1> SUFFICES ASSUME WorkInv, RowsAreTheSweep, [Next]_vars PROVE WorkInv' /\ RowsAreTheSweep'
  OBVIOUS
<1>1. CASE Work /\ answer' = NoCall
  BY <1>1, WorkKeeps DEF RowsAreTheSweep
<1>2. ASSUME NEW outcome, NEW stuck \in SUBSET DOMAIN circuit, NEW flow \in Flows,
             StartFlow(flow, outcome, stuck)
      PROVE  WorkInv' /\ RowsAreTheSweep'
  BY <1>2, StartKeeps
<1>3. ASSUME NEW outcome, NEW stuck \in SUBSET DOMAIN circuit, AdvanceFlow(outcome, stuck)
      PROVE  WorkInv' /\ RowsAreTheSweep'
  BY <1>3, AdvanceFlowKeeps
<1>4. CASE UNCHANGED vars
  BY <1>4, StutterKeeps
<1> QED BY <1>1, <1>2, <1>3, <1>4 DEF Next

THEOREM WorkInvariant == Spec => [](WorkInv /\ RowsAreTheSweep)
<1> QED BY InitOK, NextKeeps, PTL DEF Spec

\* A component holds what the user or the agent set last, unless a run reported that
\* it could not be put back or it was set behind the back of a run
\* (restoreSnapshots, FlowRunSession::advance, AgentTestFlowRunTask::cancel).
THEOREM NoTrace == Spec => []SweepLeavesNoTrace
<1>1. WorkInv => SweepLeavesNoTrace
  BY DEF WorkInv
<1> QED BY <1>1, WorkInvariant, PTL

\* A flow run in slices answers with all its rows in the order of the odometer, each
\* once and each measured on the circuit it began with; no session that outlived an
\* edit touches an engine that is gone; what a failed restore left latches its runner.
THEOREM SoundRows == Spec => []RowsAreSound
<1>1. WorkInv /\ RowsAreTheSweep => RowsAreSound
  BY DEF WorkInv, RowsAreSound, RunsTouchLiveEngines, StillCurrent
<1> QED BY <1>1, WorkInvariant, PTL

LEMMA StepIsReverted ==
  WorkInv /\ [Next]_vars =>
    (calls' # calls /\ epoch' = epoch /\ agentLatch' = agentLatch
     /\ <<circuit, revision>>' # <<circuit, revision>> =>
       checkpoints' # <<>> /\ checkpoints'[Len(checkpoints')].circuit = circuit)
<1> SUFFICES ASSUME WorkInv, Next, calls' # calls, epoch' = epoch, agentLatch' = agentLatch,
                    <<circuit, revision>>' # <<circuit, revision>>
             PROVE  checkpoints' # <<>> /\ checkpoints'[Len(checkpoints')].circuit = circuit
  BY DEF vars
<1>1. ASSUME NEW ops \in EditCalls, EditCircuit(ops)
      PROVE  checkpoints' # <<>> /\ checkpoints'[Len(checkpoints')].circuit = circuit
  BY <1>1, EditKeeps
<1>2. ASSUME NEW flow \in Flows, NEW outcome, NEW stuck \in SUBSET DOMAIN circuit,
             StartFlow(flow, outcome, stuck)
      PROVE  FALSE
  <2>1. PICK s : s = Session(flow, circuit, epoch, revision)
    OBVIOUS
  <2>2. ~agentLatch /\ PutBack(s, s.next, stuck) /\ Latch(stuck # {})
    BY <1>2, <2>1 DEF StartFlow, Advance
  <2>3. stuck = {}
    BY <2>2, Latched
  <2>4. revision' = revision
    BY <2>2, <2>3 DEF Latch
  <2>5. SessionOK(s) /\ flow \in FlowSpec
    BY <2>1, FirstSession, WorkAssumption
  <2>6. s.snaps = circuit
    BY <2>1 DEF Session
  <2>7. Swept(circuit, s.flow.conds, s.next) \in Circuits
        /\ DOMAIN Swept(circuit, s.flow.conds, s.next) = DOMAIN circuit
    BY <2>5, SessionIs, SweptIs, WorkFacts
  <2>8. /\ circuit' \in Circuits /\ DOMAIN circuit' = DOMAIN circuit
        /\ \A c \in DOMAIN circuit : circuit'[c] = circuit[c]
    BY <2>2, <2>3, <2>6, <2>7, RestoredIs, WorkFacts DEF PutBack
  <2>9. circuit' = circuit
    BY <2>8, CircuitsAre, WorkFacts
  <2> QED BY <2>4, <2>9
<1>3. ASSUME NEW flow \in Flows, NEW stuck \in SUBSET DOMAIN circuit, StartFlowInVain(flow, stuck)
      PROVE  FALSE
  <2>1. ~agentLatch /\ Latch(stuck # {}) /\ circuit' = circuit
    BY <1>3 DEF StartFlowInVain
  <2>2. stuck = {}
    BY <2>1, Latched
  <2> QED BY <2>1, <2>2 DEF Latch
<1>4. ASSUME LoadByAgent \/ LoadByUser PROVE FALSE
  <2>1. epoch' = epoch + 1
    BY <1>4 DEF LoadByAgent, LoadByUser, OpenFile, OpenBrokenFile, ReplaceCircuit
  <2> QED BY <2>1, WorkFacts
<1>5. ASSUME SaveByAgent \/ SaveByUser \/ RefuseCall \/ AbandonFlow PROVE FALSE
  BY <1>5 DEF SaveByAgent, SaveByUser, RefuseCall, AbandonFlow, SaveProject, MarkClean
<1>6. ASSUME NEW c, NEW v, SetParameter(c, v) \/ ClickCell(c, v) \/ RemoveComponent(c) PROVE FALSE
  BY <1>6 DEF SetParameter, ClickCell, RemoveComponent
<1>7. ASSUME StartOver(<<>>) \/ StartOver(Seed) PROVE FALSE
  BY <1>7 DEF StartOver
<1>8. ASSUME NEW cp, RevertCheckpoint(cp) PROVE FALSE
  BY <1>8 DEF RevertCheckpoint
<1>9. ASSUME NEW flow, NEW n, NEW stuck, RunPanel(flow, n, stuck) PROVE FALSE
  BY <1>9 DEF RunPanel
<1>10. ASSUME NEW stuck, CancelFlow(stuck) PROVE FALSE
  BY <1>10 DEF CancelFlow
<1>11. ASSUME NEW outcome, NEW stuck, AdvanceFlow(outcome, stuck) PROVE FALSE
  BY <1>11 DEF AdvanceFlow
<1>12. CASE Work
  BY <1>12, <1>1, <1>3, <1>4, <1>5, <1>6, <1>7, <1>8, <1>9, <1>10 DEF Work
<1> QED BY <1>2, <1>11, <1>12 DEF Next

\* An edit call that changed anything leaves a checkpoint of the circuit it found
\* (circuit_edit's finish() and the guard that closes the checkpoint on an exception).
THEOREM EditsAreReverted == Spec => EditsCanBeReverted
<1>1. Spec => [][WorkInv]_vars
  BY WorkInvariant, PTL
<1> QED BY <1>1, WorkInvariant, StepIsReverted, PTL DEF Spec, EditsCanBeReverted

-----------------------------------------------------------------------------
(* The panel *)

\* A flow the loader takes once it measures something, its tags given before t.
FlowOK(f, t) ==
  /\ f \in P!Flow
  /\ \A i, j \in DOMAIN f.conds : f.conds[i].comp = f.conds[j].comp => i = j
  /\ \A i, j \in DOMAIN f.conds : f.conds[i].tag = f.conds[j].tag => i = j
  /\ \A i \in DOMAIN f.conds : f.conds[i].tag \in 1..(t - 1)
  /\ \A i, j \in DOMAIN f.measure : f.measure[i] = f.measure[j] => i = j

Forms == [comp : Components \cup {0}, key : BOOLEAN, values : {"fits", "misfit", "junk"}, index : Nat]

PanelInv ==
  /\ P!TypeOK /\ form \in Forms
  /\ nextTag \in P!FirstTag..PanelTags
  /\ loaded # NoFlow => FlowOK(loaded, nextTag)
  /\ draft # NoFlow => FlowOK(draft, nextTag)
  /\ P!FormEditsItsCondition /\ P!ResultIsOfTheCircuit

ValuesSet == {"fits", "misfit"}
PanelCond == [comp : Components, values : ValuesSet, tag : 0..PanelTags]

LEMMA FlowIs ==
  ASSUME NEW f, NEW t, FlowOK(f, t)
  PROVE  /\ f = [conds |-> f.conds, measure |-> f.measure]
         /\ f.conds \in Seq(PanelCond) /\ f.measure \in Seq(Components)
         /\ f # NoFlow /\ f # Garbage
         /\ f.measure # <<>> => P!Loads(f)
<1>1. /\ f = [conds |-> f.conds, measure |-> f.measure]
      /\ f.conds \in Seq(PanelCond) /\ f.measure \in Seq(Components)
  BY DEF FlowOK, P!Flow, PanelCond, ValuesSet
<1>2. f.conds \in Seq([comp : Components, values : {"fits", "misfit", "junk"}, tag : Nat])
  <2>1. PICK C : C = [comp : Components, values : {"fits", "misfit", "junk"}, tag : Nat]
    OBVIOUS
  <2>2. \A i \in 1..Len(f.conds) : f.conds[i] \in PanelCond
    BY <1>1
  <2>3. \A x \in PanelCond : x \in C
    BY <2>1, PanelInstance DEF PanelCond, ValuesSet, P!PanelAssumption
  <2>4. f.conds \in Seq(C)
    BY <1>1, <2>2, <2>3
  <2> QED BY <2>1, <2>4
<1>3. f \in P!Docs
  BY <1>1, <1>2 DEF FlowOK, P!Docs
<1>4. \A i \in DOMAIN f.conds : f.conds[i].values # "junk"
  <2>1. \A x \in PanelCond : x.values # "junk"
    BY DEF PanelCond, ValuesSet
  <2>2. \A i \in DOMAIN f.conds : f.conds[i] \in PanelCond
    BY <1>1
  <2> QED BY <2>1, <2>2
<1>5. f # NoFlow /\ f # Garbage
  BY <1>3, PanelInstance DEF P!PanelAssumption
<1> QED BY <1>1, <1>4, <1>5 DEF P!Loads, FlowOK, P!IsInjective

LEMMA FlowMade ==
  ASSUME NEW f, NEW t, NEW cs \in Seq(PanelCond), NEW ms \in Seq(Components),
         f = [conds |-> cs, measure |-> ms],
         \A i, j \in 1..Len(cs) : cs[i].comp = cs[j].comp => i = j,
         \A i, j \in 1..Len(cs) : cs[i].tag = cs[j].tag => i = j,
         \A i \in 1..Len(cs) : cs[i].tag \in 1..(t - 1),
         \A i, j \in 1..Len(ms) : ms[i] = ms[j] => i = j
  PROVE  FlowOK(f, t)
<1>1. f \in P!Flow
  BY DEF P!Flow, PanelCond, ValuesSet
<1>2. DOMAIN f.conds = 1..Len(cs) /\ DOMAIN f.measure = 1..Len(ms) /\ f.conds = cs /\ f.measure = ms
  OBVIOUS
<1> QED BY <1>1, <1>2 DEF FlowOK

LEMMA Removed ==
  ASSUME NEW T, NEW s \in Seq(T), NEW i \in 1..Len(s), NEW r, r = P!RemoveAt(s, i)
  PROVE  /\ r \in Seq(T) /\ Len(r) = Len(s) - 1
         /\ \A j \in 1..Len(r) : r[j] = s[IF j < i THEN j ELSE j + 1]
<1>1. PICK a : a = SubSeq(s, 1, i - 1)
  OBVIOUS
<1>2. PICK b : b = SubSeq(s, i + 1, Len(s))
  OBVIOUS
<1>3. Len(s) \in Nat /\ i \in Nat /\ 1 <= i /\ i <= Len(s)
  OBVIOUS
<1>4. a \in Seq(T) /\ Len(a) = i - 1 /\ \A j \in 1..(i - 1) : a[j] = s[j]
  <2>1. \A j \in 1..(i - 1) : s[j] \in T
    OBVIOUS
  <2>2. PICK e \in Int : e = i - 1
    BY <1>3
  <2>3. /\ a \in Seq(T) /\ Len(a) = IF 1 <= e THEN e - 1 + 1 ELSE 0
        /\ \A j \in 1..(e - 1 + 1) : a[j] = s[1 + j - 1]
    BY <1>1, <2>1, <2>2, SubSeqProperties
  <2> QED BY <1>3, <2>2, <2>3
<1>6. b \in Seq(T) /\ Len(b) = Len(s) - i /\ \A j \in 1..(Len(s) - i) : b[j] = s[j + i]
  <2>1. \A j \in (i + 1)..Len(s) : s[j] \in T
    OBVIOUS
  <2>2. PICK e \in Int, l \in Int : e = i + 1 /\ l = Len(s)
    BY <1>3
  <2>3. /\ b \in Seq(T) /\ Len(b) = IF e <= l THEN l - e + 1 ELSE 0
        /\ \A j \in 1..(l - e + 1) : b[j] = s[e + j - 1]
    BY <1>2, <2>1, <2>2, SubSeqProperties
  <2>4. l - e + 1 = Len(s) - i /\ \A j \in Int : e + j - 1 = j + i
    BY <1>3, <2>2
  <2> QED BY <1>3, <2>2, <2>3, <2>4
<1>7. r = a \o b
  BY <1>1, <1>2 DEF P!RemoveAt
<1>8. /\ r \in Seq(T) /\ Len(r) = Len(a) + Len(b)
      /\ \A j \in 1..(Len(a) + Len(b)) : r[j] = IF j <= Len(a) THEN a[j] ELSE b[j - Len(a)]
  <2>1. /\ a \o b \in Seq(T) /\ Len(a \o b) = Len(a) + Len(b)
        /\ \A j \in 1..(Len(a) + Len(b)) :
             (a \o b)[j] = IF j <= Len(a) THEN a[j] ELSE b[j - Len(a)]
    <3>1. a \in Seq(T) /\ b \in Seq(T)
      BY <1>4, <1>6
    <3> QED BY <3>1, ConcatProperties
  <2> QED BY <1>7, <2>1
<1>9. Len(r) = Len(s) - 1
  BY <1>3, <1>4, <1>6, <1>8
<1>10. ASSUME NEW j \in 1..Len(r) PROVE r[j] = s[IF j < i THEN j ELSE j + 1]
  <2>1. CASE j < i
    BY <1>3, <1>4, <1>8, <1>9, <2>1
  <2>2. CASE ~(j < i)
    <3>1. PICK k \in 1..(Len(s) - i) : k = j - (i - 1)
      BY <1>3, <1>9, <2>2
    <3>2. r[j] = b[k]
      BY <1>3, <1>4, <1>6, <1>8, <2>2, <3>1
    <3>3. b[k] = s[k + i] /\ k + i = j + 1
      BY <1>3, <1>6, <3>1
    <3> QED BY <2>2, <3>2, <3>3
  <2> QED BY <2>1, <2>2
<1> QED BY <1>8, <1>9, <1>10

\* What is left of a list whose members differ still differs.
Apart(r, s, i) ==
  \A j, k \in 1..Len(r) :
    \E m, n \in 1..Len(s) : r[j] = s[m] /\ r[k] = s[n] /\ (m = n => j = k) /\ m # i

LEMMA RemovedApart ==
  ASSUME NEW T, NEW s \in Seq(T), NEW i \in 1..Len(s), NEW r, r = P!RemoveAt(s, i)
  PROVE  r \in Seq(T) /\ Apart(r, s, i)
<1>0. r \in Seq(T) /\ Len(r) = Len(s) - 1
      /\ \A j \in 1..Len(r) : r[j] = s[IF j < i THEN j ELSE j + 1]
  BY Removed
<1> SUFFICES ASSUME NEW j \in 1..Len(r), NEW k \in 1..Len(r)
             PROVE  \E m, n \in 1..Len(s) :
                      r[j] = s[m] /\ r[k] = s[n] /\ (m = n => j = k) /\ m # i
  BY <1>0 DEF Apart
<1>1. PICK m : m = IF j < i THEN j ELSE j + 1
  OBVIOUS
<1>2. PICK n : n = IF k < i THEN k ELSE k + 1
  OBVIOUS
<1>3. Len(r) = Len(s) - 1 /\ r[j] = s[m] /\ r[k] = s[n]
  BY <1>0, <1>1, <1>2
<1>4. m \in 1..Len(s) /\ n \in 1..Len(s) /\ (m = n => j = k) /\ m # i
  <2>1. PICK l \in Nat : l = Len(s)
    OBVIOUS
  <2>2. j \in 1..(l - 1) /\ k \in 1..(l - 1) /\ i \in 1..l
    BY <1>3, <2>1
  <2> QED BY <1>1, <1>2, <2>1, <2>2
<1> QED BY <1>3, <1>4

LEMMA CondRemoved ==
  ASSUME NEW f, NEW t, FlowOK(f, t), NEW i \in DOMAIN f.conds,
         NEW g, g = [f EXCEPT !.conds = P!RemoveAt(@, i)]
  PROVE  FlowOK(g, t)
<1>1. /\ f = [conds |-> f.conds, measure |-> f.measure]
      /\ f.conds \in Seq(PanelCond) /\ f.measure \in Seq(Components)
  BY FlowIs
<1>2. PICK cs \in Seq(PanelCond), ms \in Seq(Components) : cs = f.conds /\ ms = f.measure
  BY <1>1
<1>3. PICK r : r = P!RemoveAt(cs, i)
  OBVIOUS
<1>4. g = [conds |-> r, measure |-> ms]
  BY <1>1, <1>2, <1>3
<1>5. i \in 1..Len(cs)
  BY <1>2
<1>6. r \in Seq(PanelCond)
  BY <1>3, <1>5, Removed
<1>7. /\ \A j, k \in 1..Len(cs) : cs[j].comp = cs[k].comp => j = k
      /\ \A j, k \in 1..Len(cs) : cs[j].tag = cs[k].tag => j = k
      /\ \A j \in 1..Len(cs) : cs[j].tag \in 1..(t - 1)
      /\ \A j, k \in 1..Len(ms) : ms[j] = ms[k] => j = k
  BY <1>2 DEF FlowOK
<1>8. \A j, k \in 1..Len(r) :
        \E m, n \in 1..Len(cs) : r[j] = cs[m] /\ r[k] = cs[n] /\ (m = n => j = k) /\ m # i
  <2>1. Apart(r, cs, i)
    BY <1>3, <1>5, RemovedApart
  <2> QED BY <2>1 DEF Apart
<1>9. /\ \A j, k \in 1..Len(r) : r[j].comp = r[k].comp => j = k
      /\ \A j, k \in 1..Len(r) : r[j].tag = r[k].tag => j = k
      /\ \A j \in 1..Len(r) : r[j].tag \in 1..(t - 1)
  <2>1. ASSUME NEW j \in 1..Len(r), NEW k \in 1..Len(r)
        PROVE  /\ r[j].comp = r[k].comp => j = k
               /\ r[j].tag = r[k].tag => j = k
               /\ r[j].tag \in 1..(t - 1)
    <3>1. PICK m \in 1..Len(cs), n \in 1..Len(cs) :
            r[j] = cs[m] /\ r[k] = cs[n] /\ (m = n => j = k) /\ m # i
      BY <1>8
    <3> QED BY <1>7, <3>1
  <2> QED BY <2>1
<1> QED BY <1>4, <1>6, <1>7, <1>9, FlowMade

LEMMA MeasureRemoved ==
  ASSUME NEW f, NEW t, FlowOK(f, t), NEW i \in DOMAIN f.measure,
         NEW g, g = [f EXCEPT !.measure = P!RemoveAt(@, i)]
  PROVE  FlowOK(g, t) /\ g.conds = f.conds
<1>1. /\ f = [conds |-> f.conds, measure |-> f.measure]
      /\ f.conds \in Seq(PanelCond) /\ f.measure \in Seq(Components)
  BY FlowIs
<1>2. PICK cs \in Seq(PanelCond), ms \in Seq(Components) : cs = f.conds /\ ms = f.measure
  BY <1>1
<1>3. PICK r : r = P!RemoveAt(ms, i)
  OBVIOUS
<1>4. g = [conds |-> cs, measure |-> r]
  BY <1>1, <1>2, <1>3
<1>5. i \in 1..Len(ms)
  BY <1>2
<1>6. r \in Seq(Components)
  BY <1>3, <1>5, Removed
<1>7. /\ \A j, k \in 1..Len(cs) : cs[j].comp = cs[k].comp => j = k
      /\ \A j, k \in 1..Len(cs) : cs[j].tag = cs[k].tag => j = k
      /\ \A j \in 1..Len(cs) : cs[j].tag \in 1..(t - 1)
      /\ \A j, k \in 1..Len(ms) : ms[j] = ms[k] => j = k
  BY <1>2 DEF FlowOK
<1>8. \A j, k \in 1..Len(r) :
        \E m, n \in 1..Len(ms) : r[j] = ms[m] /\ r[k] = ms[n] /\ (m = n => j = k) /\ m # i
  <2>1. Apart(r, ms, i)
    BY <1>3, <1>5, RemovedApart
  <2> QED BY <2>1 DEF Apart
<1>9. ASSUME NEW j \in 1..Len(r), NEW k \in 1..Len(r), r[j] = r[k] PROVE j = k
  <2>1. PICK m \in 1..Len(ms), n \in 1..Len(ms) :
          r[j] = ms[m] /\ r[k] = ms[n] /\ (m = n => j = k) /\ m # i
    BY <1>8
  <2> QED BY <1>7, <1>9, <2>1
<1>10. FlowOK(g, t)
  BY <1>4, <1>6, <1>7, <1>9, FlowMade
<1> QED BY <1>2, <1>4, <1>10

LEMMA MeasureAdded ==
  ASSUME NEW f, NEW t, FlowOK(f, t), NEW c \in Components, ~P!Contains(f.measure, c),
         NEW g, g = [f EXCEPT !.measure = Append(@, c)]
  PROVE  FlowOK(g, t) /\ g.conds = f.conds
<1>1. /\ f = [conds |-> f.conds, measure |-> f.measure]
      /\ f.conds \in Seq(PanelCond) /\ f.measure \in Seq(Components)
  BY FlowIs
<1>2. PICK cs \in Seq(PanelCond), ms \in Seq(Components) : cs = f.conds /\ ms = f.measure
  BY <1>1
<1>3. PICK r : r = Append(ms, c)
  OBVIOUS
<1>4. g = [conds |-> cs, measure |-> r]
  BY <1>1, <1>2, <1>3
<1>5. /\ r \in Seq(Components) /\ Len(r) = Len(ms) + 1 /\ r[Len(ms) + 1] = c
      /\ \A j \in 1..Len(ms) : r[j] = ms[j]
  BY <1>3, AppendProperties
<1>6. /\ \A j, k \in 1..Len(cs) : cs[j].comp = cs[k].comp => j = k
      /\ \A j, k \in 1..Len(cs) : cs[j].tag = cs[k].tag => j = k
      /\ \A j \in 1..Len(cs) : cs[j].tag \in 1..(t - 1)
      /\ \A j, k \in 1..Len(ms) : ms[j] = ms[k] => j = k
  BY <1>2 DEF FlowOK
<1>7. \A j \in 1..Len(ms) : ms[j] # c
  BY <1>2 DEF P!Contains
<1>8. \A j, k \in 1..Len(r) : r[j] = r[k] => j = k
  BY <1>5, <1>6, <1>7
<1>9. FlowOK(g, t)
  BY <1>4, <1>5, <1>6, <1>8, FlowMade
<1> QED BY <1>2, <1>4, <1>9

LEMMA Replacing ==
  ASSUME NEW f, NEW t, FlowOK(f, t), NEW i \in DOMAIN f.conds, NEW c \in Components,
         NEW v \in ValuesSet, P!DuplicateFree(f.conds, i, c)
  PROVE  FlowOK(P!Placed(f, i, c, v), t)
<1>1. /\ f = [conds |-> f.conds, measure |-> f.measure]
      /\ f.conds \in Seq(PanelCond) /\ f.measure \in Seq(Components)
  BY FlowIs
<1>2. PICK cs \in Seq(PanelCond), ms \in Seq(Components) : cs = f.conds /\ ms = f.measure
  BY <1>1
<1>3. i \in 1..Len(cs)
  BY <1>2
<1>4. PICK x \in PanelCond : x = cs[i]
  BY <1>3
<1>5. PICK y : y = [x EXCEPT !.comp = c, !.values = v]
  OBVIOUS
<1>6. y \in PanelCond /\ y.comp = c /\ y.tag = x.tag
  BY <1>5 DEF PanelCond
<1>7. PICK r : r = [cs EXCEPT ![i] = y]
  OBVIOUS
<1>8. P!Placed(f, i, c, v) = [conds |-> r, measure |-> ms]
  <2>1. r = [cs EXCEPT ![i].comp = c, ![i].values = v]
    BY <1>3, <1>4, <1>5, <1>7
  <2>2. P!Placed(f, i, c, v) = [f EXCEPT !.conds = r]
    BY <1>2, <1>3, <2>1 DEF P!Placed
  <2> QED BY <1>1, <1>2, <2>2
<1>9. /\ r \in Seq(PanelCond) /\ Len(r) = Len(cs) /\ r[i] = y
      /\ \A j \in 1..Len(cs) : j # i => r[j] = cs[j]
  BY <1>3, <1>6, <1>7, ExceptSeq
<1>10. /\ \A j, k \in 1..Len(cs) : cs[j].comp = cs[k].comp => j = k
       /\ \A j, k \in 1..Len(cs) : cs[j].tag = cs[k].tag => j = k
       /\ \A j \in 1..Len(cs) : cs[j].tag \in 1..(t - 1)
       /\ \A j, k \in 1..Len(ms) : ms[j] = ms[k] => j = k
       /\ \A j \in 1..Len(cs) : cs[j].comp = c => j = i
  BY <1>2 DEF FlowOK, P!DuplicateFree
<1>11. ASSUME NEW j \in 1..Len(r) PROVE r[j].tag = cs[j].tag
  BY <1>4, <1>6, <1>9
<1>12. ASSUME NEW j \in 1..Len(r), NEW k \in 1..Len(r), r[j].comp = r[k].comp PROVE j = k
  <2>1. CASE j = i /\ k # i
    BY <1>6, <1>9, <1>10, <1>12, <2>1
  <2>2. CASE k = i /\ j # i
    BY <1>6, <1>9, <1>10, <1>12, <2>2
  <2>3. CASE j # i /\ k # i
    BY <1>9, <1>10, <1>12, <2>3
  <2> QED BY <2>1, <2>2, <2>3
<1>13. /\ \A j, k \in 1..Len(r) : r[j].tag = r[k].tag => j = k
       /\ \A j \in 1..Len(r) : r[j].tag \in 1..(t - 1)
  BY <1>9, <1>10, <1>11
<1> QED BY <1>8, <1>9, <1>10, <1>12, <1>13, FlowMade

LEMMA Adding ==
  ASSUME NEW f, FlowOK(f, nextTag), nextTag \in P!FirstTag..PanelTags, nextTag < PanelTags,
         NEW c \in Components, NEW v \in ValuesSet, P!DuplicateFree(f.conds, 0, c)
  PROVE  FlowOK(P!Placed(f, 0, c, v), nextTag + 1)
<1>1. /\ f = [conds |-> f.conds, measure |-> f.measure]
      /\ f.conds \in Seq(PanelCond) /\ f.measure \in Seq(Components)
  BY FlowIs
<1>2. PICK cs \in Seq(PanelCond), ms \in Seq(Components) : cs = f.conds /\ ms = f.measure
  BY <1>1
<1>3. nextTag \in Nat /\ 1 <= nextTag /\ nextTag \in 0..PanelTags
  BY PanelInstance DEF P!FirstTag, P!PanelAssumption
<1>4. PICK y \in PanelCond : y = [comp |-> c, values |-> v, tag |-> nextTag]
  BY <1>3 DEF PanelCond
<1>5. PICK r : r = Append(cs, y)
  OBVIOUS
<1>6. P!Placed(f, 0, c, v) = [conds |-> r, measure |-> ms]
  <2>1. 0 \notin DOMAIN f.conds
    BY <1>2
  <2>2. P!Placed(f, 0, c, v) = [f EXCEPT !.conds = r]
    BY <1>2, <1>4, <1>5, <2>1 DEF P!Placed
  <2> QED BY <1>1, <1>2, <2>2
<1>7. /\ r \in Seq(PanelCond) /\ Len(r) = Len(cs) + 1 /\ r[Len(cs) + 1] = y
      /\ \A j \in 1..Len(cs) : r[j] = cs[j]
  BY <1>5, AppendProperties
<1>8. /\ \A j, k \in 1..Len(cs) : cs[j].comp = cs[k].comp => j = k
      /\ \A j, k \in 1..Len(cs) : cs[j].tag = cs[k].tag => j = k
      /\ \A j \in 1..Len(cs) : cs[j].tag \in 1..(nextTag - 1)
      /\ \A j, k \in 1..Len(ms) : ms[j] = ms[k] => j = k
      /\ \A j \in 1..Len(cs) : cs[j].comp # c
  BY <1>2 DEF FlowOK, P!DuplicateFree
<1>9. y.comp = c /\ y.tag = nextTag
  BY <1>4
<1>10. PICK l \in Nat : l = Len(cs)
  OBVIOUS
<1>11. ASSUME NEW j \in 1..Len(r), NEW k \in 1..Len(r)
       PROVE  /\ r[j].comp = r[k].comp => j = k
              /\ r[j].tag = r[k].tag => j = k
              /\ r[j].tag \in 1..nextTag
  <2>1. j \in 1..l \/ j = l + 1
    BY <1>7, <1>10
  <2>2. k \in 1..l \/ k = l + 1
    BY <1>7, <1>10
  <2>3. \A n \in 1..l : r[n].comp # c /\ r[n].tag # nextTag /\ r[n].tag \in 1..(nextTag - 1)
    BY <1>3, <1>7, <1>8, <1>10
  <2>4. r[l + 1].comp = c /\ r[l + 1].tag = nextTag
    BY <1>7, <1>9, <1>10
  <2>5. CASE j \in 1..l /\ k \in 1..l
    BY <1>3, <1>7, <1>8, <1>10, <2>5
  <2>6. CASE j = l + 1 \/ k = l + 1
    BY <1>3, <2>1, <2>2, <2>3, <2>4, <2>6
  <2> QED BY <2>1, <2>2, <2>5, <2>6
<1>12. PICK u \in Nat : u = nextTag + 1 /\ 1..(u - 1) = 1..nextTag
  BY <1>3
<1>13. \A j, k \in 1..Len(r) : r[j].comp = r[k].comp => j = k
  BY <1>11
<1>14. \A j, k \in 1..Len(r) : r[j].tag = r[k].tag => j = k
  BY <1>11
<1>15. \A j \in 1..Len(r) : r[j].tag \in 1..(u - 1)
  BY <1>11, <1>12
<1>16. r \in Seq(PanelCond) /\ \A j, k \in 1..Len(ms) : ms[j] = ms[k] => j = k
  BY <1>7, <1>8
<1>17. FlowOK(P!Placed(f, 0, c, v), u)
  BY <1>6, <1>13, <1>14, <1>15, <1>16, FlowMade
<1> QED BY <1>12, <1>17

\* What the panel shows is always such a flow.
LEMMA EffectiveOK == ASSUME PanelInv PROVE FlowOK(P!Effective, nextTag)
<1>1. FlowOK(P!EmptyFlow, nextTag)
  <2>1. P!EmptyFlow = [conds |-> <<>>, measure |-> <<>>]
    BY DEF P!EmptyFlow
  <2>2. <<>> \in Seq(PanelCond) /\ <<>> \in Seq(Components) /\ 1..Len(<<>>) = {}
    OBVIOUS
  <2> QED BY <2>1, <2>2, FlowMade
<1> QED BY <1>1 DEF PanelInv, P!Effective

LEMMA Grown == ASSUME NEW f, NEW t \in Nat, NEW u \in Nat, t <= u, FlowOK(f, t) PROVE FlowOK(f, u)
BY DEF FlowOK

\* The components have a smallest one, if any.
LEMMA FirstIs == ASSUME NEW S \in SUBSET Components, S # {} PROVE P!First(S) \in S
<1> DEFINE R == OpToRel(<, Nat)
<1>1. S \subseteq Nat
  BY PanelInstance DEF P!PanelAssumption
<1>2. PICK m \in S : \A n \in S : ~ (<<n, m>> \in R)
  <2>1. IsWellFoundedOn(R, Nat)
    BY NatLessThanWellFounded
  <2> HIDE DEF R
  <2> QED BY <1>1, <2>1, WFMin
<1>3. \A n \in S : m <= n
  <2>1. \A n \in S : ~ (n < m)
    BY <1>1, <1>2 DEF OpToRel
  <2> QED BY <1>1, <2>1
<1> QED BY <1>3 DEF P!First

\* What the form may say, and which condition it says it edits.
FormOK(m, c, f) ==
  /\ m \in Forms /\ m.index \in 0..Len(f.conds)
  /\ IF m.index = 0 THEN c = 0 ELSE f.conds[m.index].tag = c

\* A step that leaves the flow alone.
LEMMA FlowKept ==
  ASSUME PanelInv, UNCHANGED <<loaded, draft, nextTag>>,
         present' \subseteq Components, latched' => result' = NoResult,
         result' # NoResult => result' = changes', FormOK(form', chosen', P!Effective)
  PROVE  PanelInv'
<1>1. P!Effective' = P!Effective
  BY DEF P!Effective, P!EmptyFlow
<1>2. P!Effective.conds \in Seq(PanelCond)
  BY EffectiveOK, FlowIs
<1>3. P!FormEditsItsCondition'
  BY <1>1, <1>2 DEF FormOK, Forms, P!FormEditsItsCondition
<1>4. P!TypeOK'
  BY <1>1 DEF PanelInv, P!TypeOK, FormOK, Forms
<1> QED BY <1>3, <1>4 DEF PanelInv, FormOK, P!ResultIsOfTheCircuit

\* A step that makes another draft.
LEMMA DraftMade ==
  ASSUME PanelInv, NEW f, FlowOK(f, nextTag'), draft' = f,
         nextTag' \in nextTag..PanelTags, present' = present,
         loaded' \in {loaded, NoFlow}, latched' = latched, result' \in {result, NoResult},
         result' # NoResult => changes' = changes, FormOK(form', chosen', f)
  PROVE  PanelInv'
<1>1. f # NoFlow /\ f \in P!Flow
  BY FlowIs DEF FlowOK
<1>2. P!Effective' = f
  BY <1>1 DEF P!Effective
<1>3. f.conds \in Seq(PanelCond)
  BY FlowIs
<1>4. P!FormEditsItsCondition'
  BY <1>2, <1>3 DEF FormOK, Forms, P!FormEditsItsCondition
<1>5. P!TypeOK'
  BY <1>1, <1>2 DEF PanelInv, P!TypeOK, FormOK, Forms
<1>6. nextTag \in Nat /\ nextTag' \in Nat /\ nextTag <= nextTag' /\ nextTag' \in P!FirstTag..PanelTags
  BY DEF PanelInv, P!FirstTag
<1>7. loaded' # NoFlow => FlowOK(loaded', nextTag')
  BY <1>6, Grown DEF PanelInv
<1> QED BY <1>4, <1>5, <1>6, <1>7 DEF PanelInv, FormOK, P!ResultIsOfTheCircuit

\* The form as it stands, without an index.
LEMMA NoIndex ==
  ASSUME NEW m \in Forms, NEW f, f.conds \in Seq(PanelCond)
  PROVE  FormOK([m EXCEPT !.index = 0], 0, f)
BY DEF FormOK, Forms

LEMMA FormNow ==
  ASSUME PanelInv
  PROVE  /\ FormOK(form, chosen, P!Effective) /\ P!Effective.conds \in Seq(PanelCond)
         /\ P!Effective.measure \in Seq(Components)
         /\ P!EmptyFlow.conds = <<>>
<1>1. P!Effective.conds \in Seq(PanelCond) /\ P!Effective.measure \in Seq(Components)
  BY EffectiveOK, FlowIs
<1> QED BY <1>1 DEF PanelInv, P!TypeOK, FormOK, P!FormEditsItsCondition, P!EmptyFlow

\* What a file holds is such a flow, or is not loaded.
LEMMA WrittenIs ==
  ASSUME PanelInv, NEW doc \in Written \cup {Garbage}, P!Loads(doc)
  PROVE  FlowOK(doc, nextTag)
<1>1. doc \in P!Docs /\ \A i \in DOMAIN doc.conds : doc.conds[i].tag \in 1..(P!FirstTag - 1)
  BY PanelInstance DEF P!Loads, P!PanelAssumption
<1>2. PICK C : C = [comp : Components, values : {"fits", "misfit", "junk"}, tag : Nat]
  OBVIOUS
<1>3. PICK cs \in Seq(C), ms \in Seq(Components) : doc = [conds |-> cs, measure |-> ms]
  BY <1>1, <1>2 DEF P!Docs
<1>4. P!FirstTag <= nextTag /\ nextTag \in Nat /\ P!FirstTag = 10 /\ nextTag <= PanelTags
  BY DEF PanelInv, P!FirstTag
<1>5. \A i \in 1..Len(cs) : cs[i].tag \in 1..9 /\ cs[i].values # "junk"
  BY <1>1, <1>3, <1>4 DEF P!Loads
<1>6. ASSUME NEW i \in 1..Len(cs) PROVE cs[i] \in PanelCond
  <2>1. cs[i] \in C
    OBVIOUS
  <2>2. cs[i].tag \in 0..PanelTags
    BY <1>4, <1>5, PanelInstance, SMTT(30) DEF P!PanelAssumption
  <2>3. cs[i].values \in ValuesSet
    BY <1>2, <1>5, <2>1 DEF ValuesSet
  <2> QED BY <1>2, <2>1, <2>2, <2>3 DEF PanelCond
<1>7. cs \in Seq(PanelCond)
  BY <1>6
<1>8. /\ \A i, j \in 1..Len(cs) : cs[i].comp = cs[j].comp => i = j
      /\ \A i, j \in 1..Len(ms) : ms[i] = ms[j] => i = j
  BY <1>3 DEF P!Loads, P!IsInjective
<1>9. \A i, j \in 1..Len(cs) : cs[i].tag = cs[j].tag => i = j
  BY <1>1, <1>3 DEF P!Docs
<1>10. \A i \in 1..Len(cs) : cs[i].tag \in 1..(nextTag - 1)
  BY <1>4, <1>5, SMTT(30)
<1> QED BY <1>3, <1>7, <1>8, <1>9, <1>10, FlowMade

LEMMA LoadKeeps ==
  ASSUME PanelInv, NEW doc, P!LoadFlow(doc), nextTag' = nextTag,
         P!Loads(doc) => FlowOK(doc, nextTag)
  PROVE  PanelInv'
<1>1. PICK f : f = IF P!Loads(doc) THEN doc ELSE NoFlow
  OBVIOUS
<1>2. /\ loaded' = f /\ draft' = NoFlow /\ form' = [form EXCEPT !.index = 0] /\ chosen' = 0
      /\ result' = NoResult /\ present' = present /\ latched' = latched
  BY <1>1 DEF P!LoadFlow, P!ResultAfterLoad, P!circuitVars
<1>3. f # NoFlow => FlowOK(f, nextTag)
  BY <1>1
<1>4. P!Effective'.conds \in Seq(PanelCond)
  <2>1. CASE f = NoFlow
    BY <1>2, <2>1 DEF P!Effective, P!EmptyFlow
  <2>2. CASE f # NoFlow
    <3>1. f.conds \in Seq(PanelCond)
      BY <1>3, <2>2, FlowIs
    <3> QED BY <1>2, <2>2, <3>1 DEF P!Effective
  <2> QED BY <2>1, <2>2
<1>5. FormOK(form', chosen', P!Effective')
  BY <1>2, <1>4, NoIndex DEF PanelInv
<1>6. f \in P!Flow \cup {NoFlow}
  BY <1>3 DEF FlowOK
<1>7. P!TypeOK'
  BY <1>2, <1>5, <1>6 DEF PanelInv, P!TypeOK, FormOK, Forms
<1>8. P!FormEditsItsCondition'
  BY <1>2 DEF PanelInv, Forms, P!FormEditsItsCondition
<1> QED BY <1>2, <1>3, <1>5, <1>7, <1>8 DEF PanelInv, FormOK, P!ResultIsOfTheCircuit

LEMMA NewFlowKeeps == ASSUME PanelInv, P!NewFlowFromCircuit PROVE PanelInv'
<1>1. present \subseteq Components
  BY DEF PanelInv, P!TypeOK
<1>2. PICK c \in Components : c = P!First(present \cap Sourced)
  <2>1. present \cap Sourced \in SUBSET Components /\ present \cap Sourced # {}
    BY <1>1 DEF P!NewFlowFromCircuit
  <2> QED BY <2>1, FirstIs
<1>3. present \cap Keyed # {} => P!First(present \cap Keyed) \in Components
  <2>1. present \cap Keyed \in SUBSET Components
    BY <1>1
  <2> QED BY <2>1, FirstIs
<1>4. PICK ms \in Seq(Components) : ms = <<c>> /\ Len(ms) = 1
  <2>1. <<c>> \in Seq(Components) /\ Len(<<c>>) = 1
    OBVIOUS
  <2> QED BY <2>1
<1>5. PICK cs \in Seq(PanelCond) : cs = <<>> /\ Len(cs) = 0
  <2>1. <<>> \in Seq(PanelCond) /\ Len(<<>>) = 0
    OBVIOUS
  <2> QED BY <2>1
<1>6. PICK f : f = [conds |-> cs, measure |-> ms]
  OBVIOUS
<1>7. FlowOK(f, nextTag)
  <2>1. 1..Len(cs) = {} /\ \A i, j \in 1..Len(ms) : i = j
    BY <1>4, <1>5
  <2> QED BY <1>6, <2>1, FlowMade
<1>8. PICK key \in BOOLEAN, d \in Components : form' = P!PrefilledForm(d, key)
  BY <1>2, <1>3 DEF P!NewFlowFromCircuit
<1>9. /\ draft' = f /\ nextTag' = nextTag /\ present' = present /\ loaded' = NoFlow
      /\ latched' = latched /\ result' = NoResult /\ chosen' = 0
  BY <1>2, <1>4, <1>5, <1>6 DEF P!NewFlowFromCircuit, P!circuitVars
<1>10. FormOK(form', chosen', f)
  BY <1>5, <1>6, <1>8, <1>9 DEF FormOK, Forms, P!PrefilledForm
<1>11. nextTag' \in nextTag..PanelTags
  BY <1>9, PanelInstance DEF PanelInv, P!FirstTag, P!PanelAssumption
<1> QED BY <1>7, <1>9, <1>10, <1>11, DraftMade

LEMMA PlaceKeeps == ASSUME PanelInv, P!CommitCondition PROVE PanelInv'
<1>1. PICK f : f = P!Effective
  OBVIOUS
<1>2. FlowOK(f, nextTag) /\ FormOK(form, chosen, f) /\ f.conds \in Seq(PanelCond)
  BY <1>1, EffectiveOK, FormNow
<1>3. form \in Forms /\ form.index \in 0..Len(f.conds)
  BY <1>2 DEF FormOK
<1>4. form.comp \in Components /\ form.values \in ValuesSet
  <2>1. form.comp \in Keyed /\ form.values = "fits"
    BY DEF P!CommitCondition, P!CondApplies
  <2> QED BY <2>1, PanelInstance DEF P!PanelAssumption, ValuesSet
<1>5. PICK g : g = P!Placed(f, form.index, form.comp, form.values)
  OBVIOUS
<1>6. /\ draft' = g /\ nextTag' = (IF form.index = 0 THEN nextTag + 1 ELSE nextTag)
      /\ form' = [form EXCEPT !.index = 0] /\ chosen' = 0
      /\ present' = present /\ loaded' = loaded /\ latched' = latched /\ result' = result
      /\ changes' = changes
      /\ P!DuplicateFree(f.conds, form.index, form.comp)
      /\ form.index = 0 => nextTag < PanelTags
  BY <1>1, <1>5 DEF P!CommitCondition, P!Edit, P!circuitVars, P!fileVars
<1>7. nextTag \in P!FirstTag..PanelTags
  BY DEF PanelInv
<1>8. FlowOK(g, nextTag')
  <2>1. CASE form.index = 0
    BY <1>2, <1>4, <1>5, <1>6, <1>7, <2>1, Adding
  <2>2. CASE form.index # 0
    <3>1. form.index \in DOMAIN f.conds
      BY <1>2, <1>3, <2>2
    <3> QED BY <1>2, <1>4, <1>5, <1>6, <2>2, <3>1, Replacing
  <2> QED BY <2>1, <2>2
<1>9. nextTag' \in nextTag..PanelTags
  BY <1>6, <1>7, PanelInstance DEF P!FirstTag, P!PanelAssumption
<1>10. FormOK(form', chosen', g)
  <2>1. g.conds \in Seq(PanelCond)
    BY <1>8, FlowIs
  <2> QED BY <1>3, <1>6, <2>1, NoIndex
<1> QED BY <1>6, <1>8, <1>9, <1>10, DraftMade

LEMMA RemoveCondKeeps ==
  ASSUME PanelInv, NEW i \in DOMAIN P!Effective.conds, P!RemoveCondition(i)
  PROVE  PanelInv'
<1>1. PICK f : f = P!Effective
  OBVIOUS
<1>2. FlowOK(f, nextTag) /\ FormOK(form, chosen, f)
  BY <1>1, EffectiveOK, FormNow
<1>3. PICK cs \in Seq(PanelCond) : cs = f.conds
  BY <1>2, FlowIs
<1>4. i \in 1..Len(cs)
  BY <1>1, <1>3
<1>5. PICK g : g = [f EXCEPT !.conds = P!RemoveAt(@, i)]
  OBVIOUS
<1>6. FlowOK(g, nextTag)
  BY <1>1, <1>2, <1>5, CondRemoved
<1>7. PICK r \in Seq(PanelCond) : r = P!RemoveAt(cs, i)
  BY <1>4, Removed
<1>8. Len(r) = Len(cs) - 1 /\ \A j \in 1..Len(r) : r[j] = cs[IF j < i THEN j ELSE j + 1]
  BY <1>4, <1>7, Removed
<1>9. g.conds = r
  <2>1. f = [conds |-> f.conds, measure |-> f.measure]
    BY <1>2, FlowIs
  <2> QED BY <1>3, <1>5, <1>7, <2>1
<1>10. PICK n : n = form.index
  OBVIOUS
<1>11. /\ draft' = g /\ nextTag' = nextTag
       /\ form' = [form EXCEPT !.index = P!IndexAfter(n, i)]
       /\ chosen' = (IF cs[i].tag = chosen THEN 0 ELSE chosen)
       /\ present' = present /\ loaded' = loaded /\ latched' = latched /\ result' = result
       /\ changes' = changes
  BY <1>1, <1>3, <1>5, <1>10 DEF P!RemoveCondition, P!Edit, P!circuitVars, P!fileVars
<1>12. form \in Forms /\ n \in 0..Len(cs)
       /\ (IF n = 0 THEN chosen = 0 ELSE cs[n].tag = chosen)
  BY <1>2, <1>3, <1>10 DEF FormOK
<1>13. /\ \A j, k \in 1..Len(cs) : cs[j].tag = cs[k].tag => j = k
       /\ \A j \in 1..Len(cs) : cs[j].tag # 0
  BY <1>2, <1>3 DEF FlowOK
<1>14. PICK m : m = P!IndexAfter(n, i)
  OBVIOUS
<1>15. /\ m \in 0..Len(r)
       /\ IF m = 0 THEN chosen' = 0 ELSE r[m].tag = chosen'
  <2>1. PICK l \in Nat : l = Len(cs) /\ Len(r) = l - 1
    BY <1>8
  <2>2. CASE n = 0
    <3>1. m = 0
      BY <1>4, <1>14, <2>2 DEF P!IndexAfter
    <3>2. chosen = 0
      BY <1>12, <2>2
    <3> QED BY <1>4, <1>11, <2>1, <3>1, <3>2
  <2>3. CASE n = i
    <3>1. m = 0
      BY <1>14, <2>3 DEF P!IndexAfter
    <3>2. cs[i].tag = chosen
      BY <1>4, <1>12, <2>3
    <3> QED BY <1>4, <1>11, <2>1, <3>1, <3>2
  <2>4. CASE n # 0 /\ n # i
    <3>1. n \in 1..l /\ cs[n].tag = chosen /\ cs[i].tag # chosen /\ i \in 1..l
      BY <1>4, <1>12, <1>13, <2>1, <2>4
    <3>2. chosen' = chosen
      BY <1>11, <3>1
    <3>3. CASE n > i
      <4>1. m = n - 1 /\ m \in 1..Len(r) /\ ~(m < i) /\ m + 1 = n
        BY <1>14, <2>1, <2>4, <3>1, <3>3 DEF P!IndexAfter
      <4>2. r[m] = cs[n]
        BY <1>8, <4>1
      <4> QED BY <3>1, <3>2, <4>1, <4>2
    <3>4. CASE n < i
      <4>1. m = n /\ m \in 1..Len(r) /\ m < i
        BY <1>14, <2>1, <2>4, <3>1, <3>4 DEF P!IndexAfter
      <4>2. r[m] = cs[n]
        BY <1>8, <4>1
      <4> QED BY <3>1, <3>2, <4>1, <4>2
    <3> QED BY <2>4, <3>1, <3>3, <3>4
  <2> QED BY <2>2, <2>3, <2>4
<1>16. FormOK(form', chosen', g)
  <2>1. form' = [form EXCEPT !.index = m] /\ m \in Nat
    BY <1>11, <1>14, <1>15
  <2>2. form' \in Forms /\ form'.index = m
    BY <1>12, <2>1 DEF Forms
  <2> QED BY <1>9, <1>15, <2>2 DEF FormOK
<1>17. nextTag' \in nextTag..PanelTags
  BY <1>11, PanelInstance DEF PanelInv, P!FirstTag, P!PanelAssumption
<1> QED BY <1>6, <1>11, <1>16, <1>17, DraftMade

LEMMA MeasurementKeeps ==
  ASSUME PanelInv,
         \/ \E c \in Components : P!AddMeasurement(c)
         \/ \E i \in DOMAIN P!Effective.measure : P!RemoveMeasurement(i)
  PROVE  PanelInv'
<1>1. PICK f : f = P!Effective
  OBVIOUS
<1>2. FlowOK(f, nextTag) /\ FormOK(form, chosen, f)
  BY <1>1, EffectiveOK, FormNow
<1>3. PICK g : P!Edit(g) /\ FlowOK(g, nextTag) /\ g.conds = f.conds
                 /\ UNCHANGED <<form, nextTag, chosen>>
  <2>1. CASE \E c \in Components : P!AddMeasurement(c)
    BY <1>1, <1>2, <2>1, MeasureAdded DEF P!AddMeasurement
  <2>2. CASE \E i \in DOMAIN P!Effective.measure : P!RemoveMeasurement(i)
    BY <1>1, <1>2, <2>2, MeasureRemoved DEF P!RemoveMeasurement
  <2> QED BY <2>1, <2>2
<1>4. FormOK(form', chosen', g)
  BY <1>2, <1>3 DEF FormOK
<1>5. nextTag' \in nextTag..PanelTags
  BY <1>3, PanelInstance DEF PanelInv, P!FirstTag, P!PanelAssumption
<1>6. /\ draft' = g /\ present' = present /\ loaded' = loaded /\ latched' = latched
      /\ result' = result /\ changes' = changes
  BY <1>3 DEF P!Edit, P!circuitVars, P!fileVars
<1> QED BY <1>3, <1>4, <1>5, <1>6, DraftMade

\* The steps that fill the form.
LEMMA FormKeeps ==
  ASSUME PanelInv,
         \/ \E i \in DOMAIN P!Effective.conds : P!BeginEditingCondition(i)
         \/ \E c \in present : P!SetAuthoringComponent(c)
         \/ P!SetAuthoringPath
         \/ \E values \in {"fits", "misfit", "junk"} : P!SetAuthoringValues(values)
         \/ P!CancelEditingCondition
  PROVE  PanelInv'
<1>1. PICK f : f = P!Effective
  OBVIOUS
<1>2. FormOK(form, chosen, f) /\ f.conds \in Seq(PanelCond)
  BY <1>1, FormNow
<1>3. form \in Forms /\ present \subseteq Components
  BY DEF PanelInv, P!TypeOK
<1>4. PICK m : P!Fill(m) /\ FormOK(m, chosen', f)
  <2>1. CASE \E i \in DOMAIN P!Effective.conds : P!BeginEditingCondition(i)
    <3>1. PICK i \in DOMAIN f.conds : P!BeginEditingCondition(i)
      BY <1>1, <2>1
    <3>2. PICK x \in PanelCond : x = f.conds[i]
      BY <1>2, <3>1
    <3>3. PICK m : m = [comp |-> x.comp, key |-> TRUE, values |-> x.values, index |-> i]
      OBVIOUS
    <3>4. P!Fill(m) /\ chosen' = x.tag
      BY <1>1, <3>1, <3>2, <3>3 DEF P!BeginEditingCondition
    <3>5. i \in 1..Len(f.conds) /\ i # 0 /\ i \in Nat
      BY <1>2
    <3>6. m \in Forms /\ m.index = i
      BY <3>3, <3>5 DEF Forms, PanelCond, ValuesSet
    <3>7. FormOK(m, chosen', f)
      BY <3>2, <3>4, <3>5, <3>6 DEF FormOK
    <3> QED BY <3>4, <3>7
  <2>2. CASE \E c \in present : P!SetAuthoringComponent(c)
    <3>1. PICK c \in present : P!SetAuthoringComponent(c)
      BY <2>2
    <3>2. PICK m : m = [form EXCEPT !.comp = c, !.key = FALSE, !.values = "junk"]
      OBVIOUS
    <3>3. m \in Forms /\ m.index = form.index
      BY <1>3, <3>1, <3>2 DEF Forms
    <3> QED BY <1>2, <3>1, <3>2, <3>3 DEF P!SetAuthoringComponent, FormOK
  <2>3. CASE P!SetAuthoringPath
    <3>1. PICK m : m = [form EXCEPT !.key = TRUE, !.values = "fits"]
      OBVIOUS
    <3>2. m \in Forms /\ m.index = form.index
      BY <1>3, <3>1 DEF Forms
    <3> QED BY <1>2, <2>3, <3>1, <3>2 DEF P!SetAuthoringPath, FormOK
  <2>4. CASE \E values \in {"fits", "misfit", "junk"} : P!SetAuthoringValues(values)
    <3>1. PICK values \in {"fits", "misfit", "junk"} : P!SetAuthoringValues(values)
      BY <2>4
    <3>2. PICK m : m = [form EXCEPT !.values = values]
      OBVIOUS
    <3>3. m \in Forms /\ m.index = form.index
      BY <1>3, <3>1, <3>2 DEF Forms
    <3> QED BY <1>2, <3>1, <3>2, <3>3 DEF P!SetAuthoringValues, FormOK
  <2>5. CASE P!CancelEditingCondition
    BY <1>2, <1>3, <2>5, NoIndex DEF P!CancelEditingCondition
  <2> QED BY <2>1, <2>2, <2>3, <2>4, <2>5
<1>5. /\ form' = m /\ present' = present /\ latched' = latched /\ result' = result
      /\ changes' = changes /\ UNCHANGED <<loaded, draft, nextTag>>
  BY <1>4 DEF P!Fill, P!circuitVars, P!fileVars
<1> QED BY <1>1, <1>4, <1>5, FlowKept DEF PanelInv, P!TypeOK, P!ResultIsOfTheCircuit

\* The steps of the circuit, and a run.
LEMMA CircuitKeeps ==
  ASSUME PanelInv,
         \/ \E outcome \in {"done", "failed", "notRestored"} : P!Run(outcome)
         \/ \E c \in Components : P!AddComponent(c) \/ P!RemoveComponent(c)
         \/ \E cs \in SUBSET Components : P!ReplaceCircuit(cs)
  PROVE  PanelInv'
<1>1. /\ UNCHANGED <<loaded, draft, nextTag, form, chosen>> /\ present' \subseteq Components
      /\ latched' => result' = NoResult
      /\ result' # NoResult => result' = changes'
  <2>1. CASE \E outcome \in {"done", "failed", "notRestored"} : P!Run(outcome)
    BY <2>1 DEF P!Run, P!fileVars, PanelInv, P!TypeOK, P!ResultIsOfTheCircuit
  <2>2. CASE \E c \in Components : P!AddComponent(c) \/ P!RemoveComponent(c)
    BY <2>2 DEF P!AddComponent, P!RemoveComponent, P!fileVars, PanelInv, P!TypeOK,
                P!ResultIsOfTheCircuit
  <2>3. CASE \E cs \in SUBSET Components : P!ReplaceCircuit(cs)
    BY <2>3 DEF P!ReplaceCircuit, P!fileVars
  <2> QED BY <2>1, <2>2, <2>3
<1>2. FormOK(form', chosen', P!Effective)
  BY <1>1, FormNow
<1> QED BY <1>1, <1>2, FlowKept

LEMMA PanelStarts == ASSUME P!Init PROVE PanelInv
<1>1. P!Effective = P!EmptyFlow /\ P!EmptyFlow.conds = <<>> /\ Len(P!EmptyFlow.conds) = 0
  BY DEF P!Init, P!Effective, P!EmptyFlow
<1>2. form.comp = 0 /\ form.index = 0 /\ form \in Forms
  BY DEF P!Init, P!EmptyForm, Forms
<1>3. nextTag \in P!FirstTag..PanelTags
  BY PanelInstance DEF P!Init, P!FirstTag, P!PanelAssumption
<1>4. P!TypeOK
  BY <1>1, <1>2 DEF P!Init, P!TypeOK
<1> QED BY <1>2, <1>3, <1>4 DEF P!Init, PanelInv, P!FormEditsItsCondition, P!ResultIsOfTheCircuit

LEMMA PanelStep == ASSUME PanelInv, P!Next PROVE PanelInv'
<1>1. CASE \E doc \in Written \cup {Garbage} : P!OpenFlow(doc) \/ P!ReloadFlow(doc)
  <2>1. PICK doc \in Written \cup {Garbage} : P!LoadFlow(doc) /\ nextTag' = nextTag
    BY <1>1 DEF P!OpenFlow, P!ReloadFlow
  <2> QED BY <2>1, WrittenIs, LoadKeeps
<1>2. CASE P!SaveFlow
  <2>1. P!LoadFlow(P!Effective) /\ nextTag' = nextTag
    BY <1>2 DEF P!SaveFlow
  <2> QED BY <2>1, EffectiveOK, LoadKeeps
<1>3. CASE P!NewFlowFromCircuit
  BY <1>3, NewFlowKeeps
<1>4. CASE P!CommitCondition
  BY <1>4, PlaceKeeps
<1>5. CASE \E i \in DOMAIN P!Effective.conds : P!RemoveCondition(i)
  BY <1>5, RemoveCondKeeps
<1>6. CASE \/ \E c \in Components : P!AddMeasurement(c)
           \/ \E i \in DOMAIN P!Effective.measure : P!RemoveMeasurement(i)
  BY <1>6, MeasurementKeeps
<1>7. CASE \/ \E i \in DOMAIN P!Effective.conds : P!BeginEditingCondition(i)
           \/ \E c \in present : P!SetAuthoringComponent(c)
           \/ P!SetAuthoringPath
           \/ \E values \in {"fits", "misfit", "junk"} : P!SetAuthoringValues(values)
           \/ P!CancelEditingCondition
  BY <1>7, FormKeeps
<1>8. CASE \/ \E outcome \in {"done", "failed", "notRestored"} : P!Run(outcome)
           \/ \E c \in Components : P!AddComponent(c) \/ P!RemoveComponent(c)
           \/ \E cs \in SUBSET Components : P!ReplaceCircuit(cs)
  BY <1>8, CircuitKeeps
<1> QED BY <1>1, <1>2, <1>3, <1>4, <1>5, <1>6, <1>7, <1>8 DEF P!Next

LEMMA PanelStays ==
  ASSUME PanelInv, [MCNext]_<<part, vars, panelVars>> PROVE PanelInv'
<1>1. CASE P!Next
  BY <1>1, PanelStep
<1>2. CASE UNCHANGED panelVars
  BY <1>2 DEF panelVars, PanelInv, P!TypeOK, P!FormEditsItsCondition, P!ResultIsOfTheCircuit,
              P!Effective, P!EmptyFlow
<1> QED BY <1>1, <1>2 DEF MCNext

\* The panel's form updates the condition it says it edits, what is authored can be loaded
\* back, and a result on the screen is of the file and circuit of now, for any components,
\* files and number of conditions (test_flow_widget.cpp, flow_author.cpp).
THEOREM ThePanelIsSound == MCSpec => []PanelIsSound
<1>1. MCInit => PanelInv
  BY PanelStarts DEF MCInit
<1>2. PanelInv => PanelIsSound
  <2> SUFFICES ASSUME PanelInv PROVE PanelIsSound
    OBVIOUS
  <2>1. P!EffectiveFlowLoads
    BY EffectiveOK, FlowIs DEF P!EffectiveFlowLoads
  <2> QED BY <2>1 DEF PanelInv, PanelIsSound
<1> QED BY <1>1, <1>2, PanelStays, PTL DEF MCSpec
=============================================================================
