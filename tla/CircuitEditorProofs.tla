------------------------- MODULE CircuitEditorProofs -------------------------
(***************************************************************************)
(* Proofs about the circuit editor, for graphs, circuits and projects of   *)
(* any size.  The node graph comes first, then the circuit, the file it is *)
(* written to and read from, the replacement of a part, and what refers to *)
(* a circuit from outside; the last part is the inductive invariant of the *)
(* editor (EditorInv) and what follows from it.                            *)
(***************************************************************************)
EXTENDS CircuitEditor, TLAPS, FiniteSetTheorems, WellFoundedInduction

-----------------------------------------------------------------------------
(* Numbers in order *)

LEMMA Least ==
  ASSUME NEW S \in SUBSET Nat, S # {}
  PROVE  \E m \in S : \A n \in S : m <= n
<1> DEFINE R == OpToRel(<, Nat)
<1>1. IsWellFoundedOn(R, Nat)
  BY NatLessThanWellFounded
<1> HIDE DEF R
<1>2. PICK m \in S : \A n \in S : ~ (<<n, m>> \in R)
  BY <1>1, WFMin
<1>3. \A n \in S : ~ (n < m)
  BY <1>2 DEF R, OpToRel
<1> QED BY <1>3

LEMMA Induction ==
  ASSUME NEW S \in SUBSET Nat, 0 \in S, \A n \in S : n + 1 \in S
  PROVE  S = Nat
<1>1. SUFFICES ASSUME Nat \ S # {} PROVE FALSE
  OBVIOUS
<1>2. PICK m \in Nat \ S : \A n \in Nat \ S : m <= n
  BY <1>1, Least
<1>3. m # 0 /\ m - 1 \in Nat /\ (m - 1) + 1 = m
  OBVIOUS
<1>4. m - 1 \in S
  BY <1>2, <1>3
<1> QED BY <1>3, <1>4

\* s lists the elements of S by their keys.
Lists(s, S, key) ==
  /\ s \in [1..Cardinality(S) -> S]
  /\ \A i, j \in 1..Cardinality(S) : i < j => key[s[i]] < key[s[j]]

LEMMA ListsExist ==
  ASSUME NEW S, IsFiniteSet(S), NEW key \in [S -> Nat],
         \A x, y \in S : key[x] = key[y] => x = y
  PROVE  \E s : Lists(s, S, key)
<1> DEFINE N == {n \in Nat : \A T \in SUBSET S : Cardinality(T) = n => \E s : Lists(s, T, key)}
<1>1. 0 \in N
  <2> SUFFICES ASSUME NEW T \in SUBSET S, Cardinality(T) = 0
               PROVE  \E s : Lists(s, T, key)
    OBVIOUS
  <2> DEFINE s == [i \in 1..0 |-> CHOOSE x \in T : TRUE]
  <2>1. Lists(s, T, key)
    BY DEF Lists
  <2> QED BY <2>1
<1>2. ASSUME NEW n \in N PROVE n + 1 \in N
  <2> SUFFICES ASSUME NEW T \in SUBSET S, Cardinality(T) = n + 1
               PROVE  \E s : Lists(s, T, key)
    OBVIOUS
  <2>0. IsFiniteSet(T)
    BY FS_Subset
  <2>1. T # {}
    BY <2>0, FS_EmptySet
  <2> DEFINE K == {key[x] : x \in T}
  <2>2. PICK k \in K : \A m \in K : k <= m
    <3>1. K \in SUBSET Nat /\ K # {}
      BY <2>1
    <3> HIDE DEF K
    <3> QED BY <3>1, Least
  <2>3. PICK x \in T : k = key[x]
    BY <2>2
  <2>4. \A y \in T \ {x} : key[x] < key[y]
    <3>1. ASSUME NEW y \in T \ {x} PROVE key[x] < key[y]
      <4>1. key[y] \in K /\ key[x] \in Nat /\ key[y] \in Nat /\ key[x] # key[y]
        OBVIOUS
      <4> HIDE DEF K
      <4> QED BY <4>1, <2>2, <2>3
    <3> QED BY <3>1
  <2> DEFINE U == T \ {x}
  <2>5. U \in SUBSET S /\ Cardinality(U) = n
    <3>1. Cardinality(U) = Cardinality(T) - 1
      BY <2>0, FS_RemoveElement
    <3> HIDE DEF U
    <3>2. U \in SUBSET S
      BY DEF U
    <3> QED BY <3>1, <3>2
  <2> HIDE DEF U
  <2>6. PICK s : Lists(s, U, key)
    BY <2>5
  <2>7. s \in [1..n -> U] /\ \A i, j \in 1..n : i < j => key[s[i]] < key[s[j]]
    BY <2>5, <2>6 DEF Lists
  <2> DEFINE t == [i \in 1..(n + 1) |-> IF i = 1 THEN x ELSE s[i - 1]]
  <2>8. ASSUME NEW i \in 1..(n + 1), i # 1 PROVE i - 1 \in 1..n /\ t[i] = s[i - 1] /\ t[i] \in U
    BY <2>7, <2>8
  <2>9. t \in [1..(n + 1) -> T]
    <3>1. \A i \in 1..(n + 1) : t[i] \in T
      BY <2>8 DEF U
    <3> QED BY <3>1
  <2>10. ASSUME NEW i \in 1..(n + 1), NEW j \in 1..(n + 1), i < j PROVE key[t[i]] < key[t[j]]
    <3>1. j # 1
      BY <2>10
    <3>2. CASE i = 1
      <4>1. t[i] = x /\ t[j] \in U
        BY <2>8, <3>1, <3>2
      <4> QED BY <4>1, <2>4 DEF U
    <3>3. CASE i # 1
      <4>1. t[i] = s[i - 1] /\ t[j] = s[j - 1] /\ i - 1 \in 1..n /\ j - 1 \in 1..n /\ i - 1 < j - 1
        BY <2>8, <3>1, <3>3, <2>10
      <4> QED BY <4>1, <2>7
    <3> QED BY <3>2, <3>3
  <2> HIDE DEF t
  <2>11. Lists(t, T, key)
    BY <2>9, <2>10 DEF Lists
  <2> QED BY <2>11
<1>3. N = Nat
  <2> HIDE DEF N
  <2> QED BY <1>1, <1>2, Induction DEF N
<1>4. Cardinality(S) \in N
  BY <1>3, FS_CardinalityType
<1> QED BY <1>4

\* A list has every element, each once.
LEMMA ListsAll ==
  ASSUME NEW S, IsFiniteSet(S), NEW key \in [S -> Nat], NEW s, Lists(s, S, key)
  PROVE  /\ Cardinality(S) \in Nat
         /\ \A i, j \in 1..Cardinality(S) : s[i] = s[j] => i = j
         /\ s \in Surjection(1..Cardinality(S), S)
<1> DEFINE n == Cardinality(S)
<1>1. n \in Nat
  BY FS_CardinalityType
<1>2. s \in [1..n -> S] /\ \A i, j \in 1..n : i < j => key[s[i]] < key[s[j]]
  BY DEF Lists
<1>3. ASSUME NEW i \in 1..n, NEW j \in 1..n, s[i] = s[j] PROVE i = j
  <2>1. ~(key[s[i]] < key[s[j]]) /\ ~(key[s[j]] < key[s[i]])
    BY <1>2, <1>3
  <2> QED BY <1>1, <1>2, <2>1
<1>4. s \in Injection(1..n, S)
  BY <1>2, <1>3 DEF Injection, IsInjective
<1>5. IsFiniteSet(1..n) /\ Cardinality(1..n) = n
  BY <1>1, FS_Interval
<1>6. s \in Surjection(1..n, S)
  <2> HIDE DEF n
  <2> QED BY <1>4, <1>5, FS_Injection DEF n
<1> QED BY <1>1, <1>3, <1>6

LEMMA AscendingIs ==
  ASSUME NEW S \in SUBSET Nat, IsFiniteSet(S)
  PROVE  LET s == Ascending(S)
         IN  /\ Cardinality(S) \in Nat
             /\ s \in [1..Cardinality(S) -> S]
             /\ \A i, j \in 1..Cardinality(S) : i < j => s[i] < s[j]
             /\ \A i, j \in 1..Cardinality(S) : s[i] = s[j] => i = j
             /\ S = {s[i] : i \in 1..Cardinality(S)}
<1>1. PICK key : key = [x \in S |-> x]
  OBVIOUS
<1>2. PICK s : s = Ascending(S)
  OBVIOUS
<1>3. PICK t : Lists(t, S, key)
  BY <1>1, ListsExist
<1>4. t \in [1..Cardinality(S) -> S] /\ \A i, j \in 1..Cardinality(S) : i < j => t[i] < t[j]
  BY <1>1, <1>3 DEF Lists
<1>5. s \in [1..Cardinality(S) -> S] /\ \A i, j \in DOMAIN s : i < j => s[i] < s[j]
  BY <1>2, <1>4 DEF Ascending
<1>6. Lists(s, S, key)
  BY <1>1, <1>5 DEF Lists
<1>7. /\ Cardinality(S) \in Nat
      /\ \A i, j \in 1..Cardinality(S) : s[i] = s[j] => i = j
      /\ s \in Surjection(1..Cardinality(S), S)
  <2>1. key \in [S -> Nat]
    BY <1>1
  <2>2. Cardinality(S) \in Nat
    BY <2>1, <1>6, ListsAll
  <2>3. \A i, j \in 1..Cardinality(S) : s[i] = s[j] => i = j
    BY <2>1, <1>6, ListsAll
  <2>4. s \in Surjection(1..Cardinality(S), S)
    BY <2>1, <1>6, ListsAll
  <2> QED BY <2>2, <2>3, <2>4
<1>8. DOMAIN s = 1..Cardinality(S)
  BY <1>5
<1>9. \A i, j \in 1..Cardinality(S) : i < j => s[i] < s[j]
  BY <1>5, <1>8
<1>10. S = {s[i] : i \in 1..Cardinality(S)}
  <2>1. \A x \in S : \E i \in 1..Cardinality(S) : s[i] = x
    BY <1>7 DEF Surjection
  <2>2. \A i \in 1..Cardinality(S) : s[i] \in S
    BY <1>5
  <2> QED BY <2>1, <2>2
<1> QED BY <1>2, <1>5, <1>7, <1>9, <1>10

-----------------------------------------------------------------------------
(* What a graph is *)

GraphFields == {"nodes", "links", "probes", "groups", "cache", "selected",
                "nextNode", "nextPin", "nextLink", "nextGroup"}
IsGraph(g) == DOMAIN g = GraphFields

\* Each node has pins of its own.
NodesOK(g) ==
  /\ g.nextNode \in Nat /\ g.nextPin \in Nat
  /\ DOMAIN g.nodes \subseteq Nat
  /\ g.nodes \in [DOMAIN g.nodes -> [ins : Seq(Nat), outs : Seq(Nat)]]
  /\ \A n \in DOMAIN g.nodes :
       /\ n < g.nextNode
       /\ \A pin \in PinsOf(g, n) : pin < g.nextPin
       /\ IsInjective(g.nodes[n].ins) /\ IsInjective(g.nodes[n].outs)
       /\ ToSet(g.nodes[n].ins) \cap ToSet(g.nodes[n].outs) = {}
  /\ \A n, m \in DOMAIN g.nodes : n # m => PinsOf(g, n) \cap PinsOf(g, m) = {}

\* Each link has an id, an output and an input of its own; they close no cycle.
LinksOK(g) ==
  /\ g.nextLink \in Nat
  /\ g.links \in SUBSET [id : Nat, start : Nat, end : Nat] /\ IsFiniteSet(g.links)
  /\ \A l \in g.links : l.id < g.nextLink
  /\ \A l, m \in g.links : l.id = m.id \/ l.end = m.end => l = m
  /\ \A l \in g.links : l.start \in OutPins(g) /\ l.end \in InPins(g)
  /\ Acyclic(Edges(g), DOMAIN g.nodes)

ProbesOK(g) ==
  /\ g.probes \in Seq(Nat) /\ IsInjective(g.probes)
  /\ ToSet(g.probes) \subseteq InPins(g) \cup OutPins(g)

\* Two members or more, none in another group; a cache and a selection that agree.
Two(S) == \E a, b \in S : a # b
GroupsOK(g) ==
  /\ g.nextGroup \in Nat
  /\ DOMAIN g.groups \subseteq Nat
  /\ g.groups = [gid \in DOMAIN g.groups |->
                   [members   |-> g.groups[gid].members,
                    collapsed |-> g.groups[gid].collapsed, pins |-> g.groups[gid].pins]]
  /\ \A gid \in DOMAIN g.groups :
       /\ gid < g.nextGroup
       /\ g.groups[gid].members \subseteq DOMAIN g.nodes
       /\ Two(g.groups[gid].members)
  /\ \A i, j \in DOMAIN g.groups :
       i # j => g.groups[i].members \cap g.groups[j].members = {}
  /\ g.cache = CacheOf(g.groups)
  /\ g.selected \in DOMAIN g.groups \cup {NoId}

GraphOK(g) == IsGraph(g) /\ NodesOK(g) /\ LinksOK(g) /\ ProbesOK(g) /\ GroupsOK(g)

\* The boundary pins of the collapsed groups are those of their links.
BoundariesOK(g) ==
  \A gid \in DOMAIN g.groups :
    g.groups[gid].collapsed => g.groups[gid].pins = BoundaryPins(g, g.groups[gid].members)

-----------------------------------------------------------------------------
(* Pins and nodes *)

LEMMA PinsAre ==
  ASSUME NEW g, NodesOK(g), NEW n \in DOMAIN g.nodes
  PROVE  /\ PinsOf(g, n) \subseteq Nat
         /\ ToSet(g.nodes[n].ins) \subseteq PinsOf(g, n)
         /\ ToSet(g.nodes[n].outs) \subseteq PinsOf(g, n)
<1>1. g.nodes[n] \in [ins : Seq(Nat), outs : Seq(Nat)]
  BY DEF NodesOK
<1>2. ASSUME NEW s \in Seq(Nat) PROVE ToSet(s) \subseteq Nat
  BY DEF ToSet
<1>3. ToSet(g.nodes[n].ins) \subseteq Nat /\ ToSet(g.nodes[n].outs) \subseteq Nat
  BY <1>1, <1>2
<1> QED BY <1>3 DEF PinsOf

\* A pin of a node is found by nodeIdForPin.
LEMMA NodeOfPin ==
  ASSUME NEW g, NodesOK(g), NEW n \in DOMAIN g.nodes, NEW pin \in PinsOf(g, n)
  PROVE  NodeOf(g, pin) = n /\ n # NoId /\ n \in Nat
<1>1. n \in Nat /\ n # NoId
  BY NoIdAssumption DEF NodesOK
<1>2. \A m \in DOMAIN g.nodes : pin \in PinsOf(g, m) => m = n
  BY DEF NodesOK
<1> QED BY <1>1, <1>2 DEF NodeOf

LEMMA InPinOf ==
  ASSUME NEW g, NodesOK(g), NEW pin \in InPins(g)
  PROVE  /\ NodeOf(g, pin) \in DOMAIN g.nodes /\ NodeOf(g, pin) # NoId
         /\ pin \in ToSet(g.nodes[NodeOf(g, pin)].ins)
         /\ pin \in PinsOf(g, NodeOf(g, pin)) /\ pin \in Nat /\ pin < g.nextPin
<1>1. PICK n \in DOMAIN g.nodes : pin \in ToSet(g.nodes[n].ins)
  BY DEF InPins
<1>2. pin \in PinsOf(g, n) /\ pin \in Nat
  BY <1>1, PinsAre
<1>3. NodeOf(g, pin) = n /\ n # NoId
  BY <1>2, NodeOfPin
<1> QED BY <1>1, <1>2, <1>3 DEF NodesOK

LEMMA OutPinOf ==
  ASSUME NEW g, NodesOK(g), NEW pin \in OutPins(g)
  PROVE  /\ NodeOf(g, pin) \in DOMAIN g.nodes /\ NodeOf(g, pin) # NoId
         /\ pin \in ToSet(g.nodes[NodeOf(g, pin)].outs)
         /\ pin \in PinsOf(g, NodeOf(g, pin)) /\ pin \in Nat /\ pin < g.nextPin
<1>1. PICK n \in DOMAIN g.nodes : pin \in ToSet(g.nodes[n].outs)
  BY DEF OutPins
<1>2. pin \in PinsOf(g, n) /\ pin \in Nat
  BY <1>1, PinsAre
<1>3. NodeOf(g, pin) = n /\ n # NoId
  BY <1>2, NodeOfPin
<1> QED BY <1>1, <1>2, <1>3 DEF NodesOK

LEMMA LivePin ==
  ASSUME NEW g, NodesOK(g), NEW n \in DOMAIN g.nodes, NEW pin \in PinsOf(g, n)
  PROVE  pin \in InPins(g) \cup OutPins(g) /\ pin \in Nat /\ pin < g.nextPin
<1>1. pin \in Nat /\ pin < g.nextPin
  BY PinsAre DEF NodesOK
<1>2. pin \in ToSet(g.nodes[n].ins) \/ pin \in ToSet(g.nodes[n].outs)
  BY DEF PinsOf
<1>3. pin \in InPins(g) \cup OutPins(g)
  BY <1>2 DEF InPins, OutPins
<1> QED BY <1>1, <1>3

\* The pins and their nodes depend on the nodes only.
LEMMA SameNodes ==
  ASSUME NEW g, NEW h, g.nodes = h.nodes
  PROVE  /\ InPins(h) = InPins(g) /\ OutPins(h) = OutPins(g)
         /\ \A n : PinsOf(h, n) = PinsOf(g, n)
         /\ \A pin : NodeOf(h, pin) = NodeOf(g, pin)
         /\ h.links = g.links => Edges(h) = Edges(g)
         /\ NodesOK(g) /\ h.nextNode = g.nextNode /\ h.nextPin = g.nextPin => NodesOK(h)
<1>1. /\ InPins(h) = InPins(g) /\ OutPins(h) = OutPins(g)
      /\ \A n : PinsOf(h, n) = PinsOf(g, n)
  BY DEF InPins, OutPins, PinsOf
<1>2. ASSUME NEW pin PROVE NodeOf(h, pin) = NodeOf(g, pin)
  BY DEF NodeOf, PinsOf
<1>3. h.links = g.links => Edges(h) = Edges(g)
  BY <1>2 DEF Edges
<1>4. NodesOK(g) /\ h.nextNode = g.nextNode /\ h.nextPin = g.nextPin => NodesOK(h)
  BY <1>1 DEF NodesOK
<1> QED BY <1>1, <1>2, <1>3, <1>4

LEMMA TwoMembers ==
  ASSUME NEW S, IsFiniteSet(S)
  PROVE  Cardinality(S) >= 2 <=> Two(S)
<1>0. Cardinality(S) \in Nat
  BY FS_CardinalityType
<1>1. ASSUME Two(S) PROVE Cardinality(S) >= 2
  <2>1. PICK a \in S, b \in S : a # b
    BY <1>1 DEF Two
  <2>2. S # {}
    BY <2>1
  <2>3. Cardinality(S) # 0
    BY <2>2, FS_EmptySet
  <2>4. ASSUME Cardinality(S) = 1 PROVE FALSE
    <3>1. PICK x : S = {x}
      BY <2>4, FS_Singleton
    <3> QED BY <2>1, <3>1
  <2> QED BY <1>0, <2>3, <2>4
<1>2. ASSUME ~Two(S) PROVE ~(Cardinality(S) >= 2)
  <2>1. CASE S = {}
    BY <2>1, FS_EmptySet
  <2>2. CASE S # {}
    <3>1. PICK a : a \in S
      BY <2>2
    <3>2. S = {a}
      BY <1>2, <3>1 DEF Two
    <3> QED BY <3>2, FS_Singleton
  <2> QED BY <2>1, <2>2
<1> QED BY <1>1, <1>2

LEMMA FiniteNodes ==
  ASSUME NEW g, NodesOK(g)
  PROVE  /\ IsFiniteSet(DOMAIN g.nodes)
         /\ \A S \in SUBSET DOMAIN g.nodes : IsFiniteSet(S)
<1>1. IsFiniteSet(0..g.nextNode)
  <2>1. g.nextNode \in Nat
    BY DEF NodesOK
  <2>2. 0 \in Int /\ g.nextNode \in Int
    BY <2>1
  <2> QED BY <2>2, FS_Interval
<1>2. DOMAIN g.nodes \in SUBSET (0..g.nextNode)
  <2>1. g.nextNode \in Nat /\ DOMAIN g.nodes \subseteq Nat /\ \A n \in DOMAIN g.nodes : n < g.nextNode
    BY DEF NodesOK
  <2> QED BY <2>1
<1>3. IsFiniteSet(DOMAIN g.nodes)
  BY <1>1, <1>2, FS_Subset
<1> QED BY <1>3, FS_Subset

-----------------------------------------------------------------------------
(* Links *)

\* A new link adds one edge and moves no pin to another node.
LEMMA AddLinkEdges ==
  ASSUME NEW g, IsGraph(g), NEW start, NEW end
  PROVE  /\ AddLink(g, start, end).nodes = g.nodes
         /\ Edges(AddLink(g, start, end))
              = Edges(g) \cup {<<NodeOf(g, start), NodeOf(g, end)>>}
<1> DEFINE h == AddLink(g, start, end)
           new == [id |-> g.nextLink, start |-> start, end |-> end]
<1>1. h.nodes = g.nodes
  BY DEF AddLink, IsGraph, GraphFields
<1>2. h.links = g.links \cup {new}
  BY DEF AddLink, IsGraph, GraphFields
<1>3. ASSUME NEW pin PROVE NodeOf(h, pin) = NodeOf(g, pin)
  BY <1>1 DEF NodeOf, PinsOf
<1>4. new.start = start /\ new.end = end
  OBVIOUS
<1>5. Edges(h) = {<<NodeOf(g, l.start), NodeOf(g, l.end)>> : l \in h.links}
  BY <1>3 DEF Edges
<1>6. Edges(h) = Edges(g) \cup {<<NodeOf(g, new.start), NodeOf(g, new.end)>>}
  BY <1>2, <1>5 DEF Edges
<1> QED BY <1>1, <1>4, <1>6

\* What canAddLink finds out: a set of nodes that has the new link's target,
\* is left by no link, and does not have its source.
LEMMA NoWayBack ==
  ASSUME NEW g, IsGraph(g), NodesOK(g), NEW start \in OutPins(g), NEW end \in InPins(g),
         CanAddLink(g, start, end)
  PROVE  \E T \in SUBSET DOMAIN g.nodes :
           NodeOf(g, end) \in T /\ ClosedUnder(Edges(g), T) /\ NodeOf(g, start) \notin T
<1>1. NodeOf(g, start) \in DOMAIN g.nodes /\ NodeOf(g, start) # NoId
  BY OutPinOf
<1>2. NodeOf(g, end) # NoId
  BY InPinOf
<1>3. NodeOf(g, start) \notin Visited(g, NodeOf(g, end))
  BY <1>1, <1>2 DEF CanAddLink, WouldCreateCycle
<1> QED BY <1>1, <1>3 DEF Visited

\* A link that canAddLink allows closes no cycle, whatever the graph.
THEOREM AddLinkKeepsAcyclic ==
  ASSUME NEW g, IsGraph(g), NodesOK(g), NEW start \in OutPins(g), NEW end \in InPins(g),
         CanAddLink(g, start, end), Acyclic(Edges(g), DOMAIN g.nodes)
  PROVE  LET h == AddLink(g, start, end) IN Acyclic(Edges(h), DOMAIN h.nodes)
<1> DEFINE h == AddLink(g, start, end)
           from == NodeOf(g, start)
           to == NodeOf(g, end)
<1>1. h.nodes = g.nodes /\ Edges(h) = Edges(g) \cup {<<from, to>>}
  BY AddLinkEdges
<1>2. PICK T \in SUBSET DOMAIN g.nodes :
        to \in T /\ ClosedUnder(Edges(g), T) /\ from \notin T
  BY NoWayBack
<1>3. SUFFICES ASSUME NEW S \in (SUBSET DOMAIN g.nodes) \ {{}}
               PROVE  \E n \in S : \A m \in S : <<m, n>> \notin Edges(h)
  BY <1>1 DEF Acyclic
\* Among nodes outside T, the new edge is not: it leads into T.  No edge of the
\* graph leads from T to the others, so they have a first one of their own.
<1>4. CASE S \subseteq T
  <2>1. PICK n \in S : \A m \in S : <<m, n>> \notin Edges(g)
    BY DEF Acyclic
  <2>2. from \notin S
    BY <1>2, <1>4
  <2>3. \A m \in S : <<m, n>> # <<from, to>>
    BY <2>2
  <2> QED BY <1>1, <2>1, <2>3
<1>5. CASE ~(S \subseteq T)
  <2>1. S \ T \in (SUBSET DOMAIN g.nodes) \ {{}}
    BY <1>5
  <2>2. PICK n \in S \ T : \A m \in S \ T : <<m, n>> \notin Edges(g)
    BY <2>1 DEF Acyclic
  <2>3. ASSUME NEW m \in S PROVE <<m, n>> \notin Edges(h)
    <3>1. <<m, n>> # <<from, to>>
      BY <1>2, <2>2
    <3>2. <<m, n>> \notin Edges(g)
      <4>1. CASE m \in T
        <5>1. ASSUME <<m, n>> \in Edges(g) PROVE FALSE
          <6>1. <<m, n>>[1] = m /\ <<m, n>>[2] = n
            OBVIOUS
          <6>2. n \in T
            BY <1>2, <4>1, <5>1, <6>1 DEF ClosedUnder
          <6> QED BY <2>2, <6>2
        <5> QED BY <5>1
      <4>2. CASE m \notin T
        BY <2>2, <4>2
      <4> QED BY <4>1, <4>2
    <3> QED BY <1>1, <3>1, <3>2
  <2> QED BY <2>2, <2>3
<1> QED BY <1>4, <1>5

\* An input that canAddLink lets a link into had none, so no input gets two.
THEOREM AddLinkKeepsInputsSingle ==
  ASSUME NEW g, IsGraph(g), NEW start, NEW end, CanAddLink(g, start, end),
         \A l, m \in g.links : l.end = m.end => l = m
  PROVE  \A l, m \in AddLink(g, start, end).links : l.end = m.end => l = m
<1> DEFINE new == [id |-> g.nextLink, start |-> start, end |-> end]
<1>1. AddLink(g, start, end).links = g.links \cup {new}
  BY DEF AddLink, IsGraph, GraphFields
<1>2. \A l \in g.links : l.end # end
  BY DEF CanAddLink, InputHasLink
<1>3. new.end = end
  OBVIOUS
<1> QED BY <1>1, <1>2, <1>3

\* Fewer links, or fewer nodes that keep their pins, leave an acyclic graph so.
LEMMA FewerEdges ==
  ASSUME NEW edges, NEW fewer, NEW nodes, NEW kept \in SUBSET nodes, Acyclic(edges, nodes),
         \A m \in kept, n \in kept : <<m, n>> \in fewer => <<m, n>> \in edges
  PROVE  Acyclic(fewer, kept)
<1> SUFFICES ASSUME NEW S \in (SUBSET kept) \ {{}}
             PROVE  \E n \in S : \A m \in S : <<m, n>> \notin fewer
  BY DEF Acyclic
<1>1. S \in (SUBSET nodes) \ {{}}
  OBVIOUS
<1>2. PICK n \in S : \A m \in S : <<m, n>> \notin edges
  BY <1>1 DEF Acyclic
<1> QED BY <1>2

\* Removing a link closes no cycle (removeLink).
THEOREM RemoveLinkKeepsAcyclic ==
  ASSUME NEW g, IsGraph(g), NEW id, Acyclic(Edges(g), DOMAIN g.nodes)
  PROVE  LET h == RemoveLink(g, id) IN Acyclic(Edges(h), DOMAIN h.nodes)
<1> DEFINE h == RemoveLink(g, id)
<1>1. h.nodes = g.nodes /\ h.links \subseteq g.links
  BY DEF RemoveLink, IsGraph, GraphFields
<1>2. ASSUME NEW pin PROVE NodeOf(h, pin) = NodeOf(g, pin)
  BY <1>1 DEF NodeOf, PinsOf
<1>3. Edges(h) \subseteq Edges(g)
  BY <1>1, <1>2 DEF Edges
<1>4. Acyclic(Edges(h), DOMAIN g.nodes)
  BY <1>3, FewerEdges
<1> QED BY <1>1, <1>4

\* A graph that differs in its links only, or not even there.
LEMMA SameButLinks ==
  ASSUME NEW g, NEW h, GraphOK(g), IsGraph(h), h.nodes = g.nodes, h.probes = g.probes,
         h.groups = g.groups, h.cache = g.cache, h.selected = g.selected,
         h.nextNode = g.nextNode, h.nextPin = g.nextPin, h.nextGroup = g.nextGroup
  PROVE  NodesOK(h) /\ ProbesOK(h) /\ GroupsOK(h)
<1>1. NodesOK(h)
  BY SameNodes DEF GraphOK
<1>2. ProbesOK(h)
  <2>1. InPins(h) = InPins(g) /\ OutPins(h) = OutPins(g)
    BY SameNodes
  <2> QED BY <2>1 DEF GraphOK, ProbesOK
<1>3. GroupsOK(h)
  BY DEF GraphOK, GroupsOK
<1> QED BY <1>1, <1>2, <1>3

LEMMA LinkAdded ==
  ASSUME NEW g, GraphOK(g), NEW start \in OutPins(g), NEW end \in InPins(g),
         CanAddLink(g, start, end)
  PROVE  GraphOK(AddLink(g, start, end))
<1> DEFINE new == [id |-> g.nextLink, start |-> start, end |-> end]
<1>0. PICK h : h = AddLink(g, start, end)
  OBVIOUS
<1>1. IsGraph(g) /\ NodesOK(g) /\ LinksOK(g)
  BY DEF GraphOK
<1>2. /\ IsGraph(h) /\ h.nodes = g.nodes /\ h.probes = g.probes
      /\ h.groups = g.groups /\ h.cache = g.cache /\ h.selected = g.selected
      /\ h.nextNode = g.nextNode /\ h.nextPin = g.nextPin /\ h.nextGroup = g.nextGroup
      /\ h.links = g.links \cup {new} /\ h.nextLink = g.nextLink + 1
  BY <1>0, <1>1 DEF AddLink, IsGraph, GraphFields
<1>3. NodesOK(h) /\ ProbesOK(h) /\ GroupsOK(h)
  BY <1>2, SameButLinks
<1>4. InPins(h) = InPins(g) /\ OutPins(h) = OutPins(g)
  BY <1>2, SameNodes
<1>5. new.id = g.nextLink /\ new.start = start /\ new.end = end
  OBVIOUS
<1>6. g.nextLink \in Nat /\ \A l \in g.links : l.id < g.nextLink /\ l.id \in Nat
  BY <1>1 DEF LinksOK
<1>7. LinksOK(h)
  <2>1. h.nextLink \in Nat
    BY <1>2, <1>6
  <2>2. new \in [id : Nat, start : Nat, end : Nat]
    BY <1>1, <1>6, OutPinOf, InPinOf
  <2>3. h.links \in SUBSET [id : Nat, start : Nat, end : Nat]
    BY <1>1, <1>2, <2>2 DEF LinksOK
  <2>4. IsFiniteSet(h.links)
    <3>1. IsFiniteSet(g.links)
      BY <1>1 DEF LinksOK
    <3> HIDE DEF new
    <3> QED BY <1>2, <3>1, FS_AddElement
  <2>5. \A l \in h.links : l.id < h.nextLink
    <3> HIDE DEF new
    <3> QED BY <1>2, <1>5, <1>6
  <2>6. \A l, m \in h.links : l.end = m.end => l = m
    BY <1>0, <1>1, AddLinkKeepsInputsSingle DEF LinksOK
  <2>7. \A l, m \in h.links : l.id = m.id => l = m
    <3>1. \A l \in g.links : l.id # new.id
      BY <1>5, <1>6
    <3>2. \A l, m \in g.links : l.id = m.id => l = m
      BY <1>1 DEF LinksOK
    <3> HIDE DEF new
    <3> QED BY <1>2, <3>1, <3>2
  <2>8. \A l \in h.links : l.start \in OutPins(h) /\ l.end \in InPins(h)
    <3> HIDE DEF new
    <3> QED BY <1>1, <1>2, <1>4, <1>5 DEF LinksOK
  <2>9. Acyclic(Edges(h), DOMAIN h.nodes)
    BY <1>0, <1>1, AddLinkKeepsAcyclic DEF LinksOK
  <2> QED BY <2>1, <2>3, <2>4, <2>5, <2>6, <2>7, <2>8, <2>9 DEF LinksOK
<1> QED BY <1>0, <1>2, <1>3, <1>7 DEF GraphOK

LEMMA LinksDropped ==
  ASSUME NEW g, GraphOK(g), NEW links \in SUBSET g.links
  PROVE  GraphOK([g EXCEPT !.links = links])
<1>0. PICK h : h = [g EXCEPT !.links = links]
  OBVIOUS
<1>1. IsGraph(g) /\ NodesOK(g) /\ LinksOK(g)
  BY DEF GraphOK
<1>2. /\ IsGraph(h) /\ h.nodes = g.nodes /\ h.probes = g.probes
      /\ h.groups = g.groups /\ h.cache = g.cache /\ h.selected = g.selected
      /\ h.nextNode = g.nextNode /\ h.nextPin = g.nextPin /\ h.nextGroup = g.nextGroup
      /\ h.links = links /\ h.nextLink = g.nextLink
  BY <1>0, <1>1 DEF IsGraph, GraphFields
<1>3. NodesOK(h) /\ ProbesOK(h) /\ GroupsOK(h)
  BY <1>2, SameButLinks
<1>4. /\ InPins(h) = InPins(g) /\ OutPins(h) = OutPins(g)
      /\ \A pin : NodeOf(h, pin) = NodeOf(g, pin)
  BY <1>2, SameNodes
<1>5. Edges(h) \subseteq Edges(g)
  BY <1>2, <1>4 DEF Edges
<1>6. Acyclic(Edges(h), DOMAIN h.nodes)
  BY <1>1, <1>2, <1>5, FewerEdges DEF LinksOK
<1>7. IsFiniteSet(h.links)
  BY <1>1, <1>2, FS_Subset DEF LinksOK
<1>8. LinksOK(h)
  BY <1>1, <1>2, <1>4, <1>6, <1>7 DEF LinksOK
<1> QED BY <1>0, <1>2, <1>3, <1>8 DEF GraphOK

-----------------------------------------------------------------------------
(* Groups *)

\* A graph that differs in its groups, its probes and its selection only.
LEMMA SameButGroups ==
  ASSUME NEW g, NEW h, GraphOK(g), IsGraph(h), h.nodes = g.nodes, h.links = g.links,
         h.nextNode = g.nextNode, h.nextPin = g.nextPin, h.nextLink = g.nextLink
  PROVE  /\ NodesOK(h) /\ LinksOK(h)
         /\ h.probes = g.probes => ProbesOK(h)
<1>1. /\ InPins(h) = InPins(g) /\ OutPins(h) = OutPins(g)
      /\ Edges(h) = Edges(g) /\ NodesOK(h)
  BY SameNodes DEF GraphOK
<1>2. LinksOK(h)
  BY <1>1 DEF GraphOK, LinksOK
<1>3. h.probes = g.probes => ProbesOK(h)
  BY <1>1 DEF GraphOK, ProbesOK
<1> QED BY <1>1, <1>2, <1>3

\* The cache depends on who the members are.
LEMMA SameCache ==
  ASSUME NEW a, NEW b, DOMAIN a = DOMAIN b, \A gid \in DOMAIN a : a[gid].members = b[gid].members
  PROVE  CacheOf(a) = CacheOf(b)
BY DEF CacheOf

LEMMA InCache ==
  ASSUME NEW groups, NEW n, NEW gid
  PROVE  <<n, gid>> \in CacheOf(groups) <=> gid \in DOMAIN groups /\ n \in groups[gid].members
BY DEF CacheOf

\* The boundary pins depend on the links and on the nodes of their pins.
LEMMA SameBoundary ==
  ASSUME NEW g, NEW h, h.links = g.links,
         \A l \in g.links : NodeOf(h, l.start) = NodeOf(g, l.start) /\ NodeOf(h, l.end) = NodeOf(g, l.end)
  PROVE  \A members : BoundaryPins(h, members) = BoundaryPins(g, members)
<1> SUFFICES ASSUME NEW members PROVE BoundaryPins(h, members) = BoundaryPins(g, members)
  OBVIOUS
<1> DEFINE Crosses(x, k) == (NodeOf(k, x.start) \in members) # (NodeOf(k, x.end) \in members)
<1>1. {x \in g.links : Crosses(x, g)} = {x \in h.links : Crosses(x, h)}
  OBVIOUS
<1>2. PICK S : S = {x \in g.links : Crosses(x, g)}
  OBVIOUS
<1>3. S \subseteq g.links
  BY <1>2
<1>4. BoundaryPins(g, members) =
        {[link |-> l.id, out |-> NodeOf(g, l.start) \in members,
          pin |-> IF NodeOf(g, l.start) \in members THEN l.start ELSE l.end] : l \in S}
  BY <1>2 DEF BoundaryPins
<1>5. BoundaryPins(h, members) =
        {[link |-> l.id, out |-> NodeOf(h, l.start) \in members,
          pin |-> IF NodeOf(h, l.start) \in members THEN l.start ELSE l.end] : l \in S}
  BY <1>1, <1>2 DEF BoundaryPins
<1> QED BY <1>3, <1>4, <1>5

\* A group keeps its members through a rebuilding of its boundary.
LEMMA BoundariesRebuilt ==
  ASSUME NEW g, GraphOK(g)
  PROVE  LET h == RebuildBoundaries(g)
         IN  /\ GraphOK(h) /\ BoundariesOK(h)
             /\ h.nodes = g.nodes /\ h.links = g.links /\ h.probes = g.probes
             /\ h.cache = g.cache /\ h.selected = g.selected
             /\ h.nextNode = g.nextNode /\ h.nextPin = g.nextPin /\ h.nextLink = g.nextLink
             /\ h.nextGroup = g.nextGroup
             /\ DOMAIN h.groups = DOMAIN g.groups
             /\ \A gid \in DOMAIN g.groups :
                  /\ h.groups[gid].members = g.groups[gid].members
                  /\ h.groups[gid].collapsed = g.groups[gid].collapsed
<1>0. PICK h : h = RebuildBoundaries(g)
  OBVIOUS
<1>1. IsGraph(g) /\ GroupsOK(g)
  BY DEF GraphOK
<1>2. /\ IsGraph(h) /\ h.nodes = g.nodes /\ h.probes = g.probes /\ h.links = g.links
      /\ h.cache = g.cache /\ h.selected = g.selected
      /\ h.nextNode = g.nextNode /\ h.nextPin = g.nextPin /\ h.nextLink = g.nextLink
      /\ h.nextGroup = g.nextGroup
      /\ h.groups = [gid \in DOMAIN g.groups |->
           [g.groups[gid] EXCEPT !.pins = BoundaryPins(g, g.groups[gid].members)]]
  BY <1>0, <1>1 DEF RebuildBoundaries, IsGraph, GraphFields
<1>3. \A gid \in DOMAIN g.groups :
        h.groups[gid] = [members |-> g.groups[gid].members, collapsed |-> g.groups[gid].collapsed,
                         pins |-> BoundaryPins(g, g.groups[gid].members)]
  <2>1. ASSUME NEW gid \in DOMAIN g.groups
        PROVE  g.groups[gid] = [members |-> g.groups[gid].members,
                                collapsed |-> g.groups[gid].collapsed, pins |-> g.groups[gid].pins]
    BY <1>1 DEF GroupsOK
  <2>2. ASSUME NEW gid \in DOMAIN g.groups
        PROVE  h.groups[gid] =
                 [g.groups[gid] EXCEPT !.pins = BoundaryPins(g, g.groups[gid].members)]
    BY <1>2
  <2>3. ASSUME NEW gid \in DOMAIN g.groups
        PROVE  h.groups[gid] =
                 [members |-> g.groups[gid].members, collapsed |-> g.groups[gid].collapsed,
                  pins |-> BoundaryPins(g, g.groups[gid].members)]
    <3>1. PICK x : x = g.groups[gid]
      OBVIOUS
    <3>2. PICK m, c, p : x = [members |-> m, collapsed |-> c, pins |-> p]
      BY <2>1, <3>1
    <3>3. \A q : [x EXCEPT !.pins = q] = [members |-> x.members, collapsed |-> x.collapsed, pins |-> q]
      BY <3>2
    <3> QED BY <2>2, <3>1, <3>3
  <2> QED BY <2>3
<1>4. /\ DOMAIN h.groups = DOMAIN g.groups
      /\ \A gid \in DOMAIN g.groups :
           /\ h.groups[gid].members = g.groups[gid].members
           /\ h.groups[gid].collapsed = g.groups[gid].collapsed
           /\ h.groups[gid].pins = BoundaryPins(g, g.groups[gid].members)
  BY <1>2, <1>3
<1>5. CacheOf(h.groups) = CacheOf(g.groups)
  BY <1>4, SameCache
<1>6. h.groups = [gid \in DOMAIN h.groups |->
                   [members   |-> h.groups[gid].members,
                    collapsed |-> h.groups[gid].collapsed, pins |-> h.groups[gid].pins]]
  <2>1. PICK f : f = h.groups
    OBVIOUS
  <2>2. f = [gid \in DOMAIN f |-> f[gid]]
    BY <1>2, <2>1
  <2>3. ASSUME NEW gid \in DOMAIN f
        PROVE  f[gid] = [members |-> f[gid].members, collapsed |-> f[gid].collapsed,
                         pins |-> f[gid].pins]
    <3>1. gid \in DOMAIN g.groups
      BY <1>4, <2>1
    <3>2. PICK s, b, q : /\ s = g.groups[gid].members /\ b = g.groups[gid].collapsed
                         /\ q = BoundaryPins(g, g.groups[gid].members)
      OBVIOUS
    <3>3. f[gid] = [members |-> s, collapsed |-> b, pins |-> q]
      BY <1>3, <2>1, <3>1, <3>2
    <3> QED BY ONLY <3>3
  <2>4. f = [gid \in DOMAIN f |->
               [members |-> f[gid].members, collapsed |-> f[gid].collapsed, pins |-> f[gid].pins]]
    BY ONLY <2>2, <2>3
  <2> QED BY ONLY <2>1, <2>4
<1>7. GroupsOK(h)
  BY <1>1, <1>2, <1>4, <1>5, <1>6, SMTT(30) DEF GroupsOK
<1>8. NodesOK(h) /\ LinksOK(h) /\ ProbesOK(h)
  BY <1>2, SameButGroups
<1>9. BoundariesOK(h)
  <2>1. \A members : BoundaryPins(h, members) = BoundaryPins(g, members)
    BY <1>2, SameNodes, SameBoundary
  <2> QED BY <1>4, <2>1 DEF BoundariesOK
<1>10. GraphOK(h)
  BY <1>2, <1>7, <1>8 DEF GraphOK
<1> QED BY <1>0, <1>2, <1>4, <1>9, <1>10

\* Everything but the groups, the cache, the selection and the groups' counter
SameAround(g, h) ==
  /\ h.nodes = g.nodes /\ h.links = g.links /\ h.probes = g.probes
  /\ h.nextNode = g.nextNode /\ h.nextPin = g.nextPin /\ h.nextLink = g.nextLink

LEMMA GroupAdded ==
  ASSUME NEW g, GraphOK(g), NEW members, CanGroup(g, members)
  PROVE  LET h == AddGroup(g, members)
         IN  /\ GraphOK(h) /\ (BoundariesOK(g) => BoundariesOK(h)) /\ SameAround(g, h)
             /\ h.nextGroup = g.nextGroup + 1 /\ g.nextGroup \in DOMAIN h.groups
<1>0. PICK h : h = AddGroup(g, members)
  OBVIOUS
<1>1. IsGraph(g) /\ GroupsOK(g) /\ NodesOK(g)
  BY DEF GraphOK
<1>2. /\ g.nextGroup \in Nat /\ g.nextGroup \notin DOMAIN g.groups
      /\ \A gid \in DOMAIN g.groups : gid \in Nat /\ gid < g.nextGroup
  BY <1>1 DEF GroupsOK
<1> DEFINE new == [members |-> members, collapsed |-> TRUE, pins |-> {}]
           groups == [gid \in DOMAIN g.groups \cup {g.nextGroup} |->
                        IF gid = g.nextGroup THEN new ELSE g.groups[gid]]
           added == [g EXCEPT !.groups = groups, !.nextGroup = @ + 1]
           cached == RebuildCache(added)
<1>3. PICK a : a = added
  OBVIOUS
<1>4. /\ IsGraph(a) /\ SameAround(g, a) /\ a.selected = g.selected
      /\ a.nextGroup = g.nextGroup + 1 /\ a.groups = groups
  BY <1>1, <1>3 DEF IsGraph, GraphFields, SameAround
<1>5. PICK b : b = RebuildCache(a)
  OBVIOUS
<1>6. /\ IsGraph(b) /\ SameAround(g, b) /\ b.selected = g.selected
      /\ b.nextGroup = g.nextGroup + 1 /\ b.groups = groups /\ b.cache = CacheOf(groups)
  BY <1>4, <1>5 DEF IsGraph, GraphFields, SameAround, RebuildCache
<1>7. h = [b EXCEPT !.groups[g.nextGroup].pins = BoundaryPins(b, b.groups[g.nextGroup].members)]
  BY <1>0, <1>3, <1>5 DEF AddGroup, RebuildBoundary
<1>8. b.groups[g.nextGroup] = new
  BY <1>6
<1> DEFINE pins == BoundaryPins(b, members)
<1>9. /\ IsGraph(h) /\ SameAround(g, h) /\ h.selected = g.selected
      /\ h.nextGroup = g.nextGroup + 1 /\ h.cache = CacheOf(groups)
      /\ h.groups = [groups EXCEPT ![g.nextGroup] = [new EXCEPT !.pins = pins]]
  <2> HIDE DEF groups, new
  <2>1. b.groups[g.nextGroup].members = members
    BY <1>8 DEF new
  <2> HIDE DEF pins
  <2>2. h = [b EXCEPT !.groups[g.nextGroup].pins = pins]
    BY <1>7, <2>1 DEF pins
  <2> QED BY <1>6, <1>8, <2>2 DEF IsGraph, GraphFields, SameAround
<1>10. /\ DOMAIN h.groups = DOMAIN g.groups \cup {g.nextGroup}
       /\ \A gid \in DOMAIN g.groups : h.groups[gid] = g.groups[gid]
       /\ h.groups[g.nextGroup] = [members |-> members, collapsed |-> TRUE, pins |-> pins]
       /\ h.groups = [gid \in DOMAIN h.groups |-> h.groups[gid]]
  <2> HIDE DEF pins
  <2> QED BY <1>2, <1>9
<1> HIDE DEF groups, new, pins
<1>11. /\ DOMAIN groups = DOMAIN h.groups
       /\ \A gid \in DOMAIN groups : groups[gid].members = h.groups[gid].members
  BY <1>2, <1>10 DEF groups, new
<1>12. h.cache = CacheOf(h.groups)
  BY <1>9, <1>11, SameCache
<1>13. \A gid \in DOMAIN g.groups : g.groups[gid].members \cap members = {}
  <2>1. SUFFICES ASSUME NEW gid \in DOMAIN g.groups, NEW n \in g.groups[gid].members, n \in members
                 PROVE  FALSE
    OBVIOUS
  <2>2. <<n, gid>> \in g.cache
    BY <1>1, InCache DEF GroupsOK
  <2>3. <<n, gid>>[1] \notin members
    BY <2>2 DEF CanGroup
  <2> QED BY <2>1, <2>3
<1>14. members \subseteq DOMAIN g.nodes /\ Two(members)
  <2>1. members \subseteq DOMAIN g.nodes /\ Cardinality(members) >= 2
    BY DEF CanGroup
  <2>2. IsFiniteSet(members)
    BY <1>1, <2>1, FiniteNodes
  <2> QED BY <2>1, <2>2, TwoMembers
<1>15. GroupsOK(h)
  <2>0. h.nodes = g.nodes /\ h.nextGroup = g.nextGroup + 1 /\ h.selected = g.selected
    BY <1>9 DEF SameAround
  <2>1. h.nextGroup \in Nat /\ DOMAIN h.groups \subseteq Nat
    BY <1>2, <1>10, <2>0
  <2>2. h.groups = [gid \in DOMAIN h.groups |->
                   [members   |-> h.groups[gid].members,
                    collapsed |-> h.groups[gid].collapsed, pins |-> h.groups[gid].pins]]
    <3>1. \A gid \in DOMAIN h.groups :
            h.groups[gid] = [members   |-> h.groups[gid].members,
                    collapsed |-> h.groups[gid].collapsed, pins |-> h.groups[gid].pins]
      <4>1. ASSUME NEW gid \in DOMAIN g.groups
            PROVE  g.groups[gid] = [members   |-> g.groups[gid].members,
                    collapsed |-> g.groups[gid].collapsed, pins |-> g.groups[gid].pins]
        BY <1>1 DEF GroupsOK
      <4> QED BY <1>10, <4>1
    <3> QED BY <1>10, <3>1
  <2>3. \A gid \in DOMAIN h.groups :
         /\ gid < h.nextGroup
         /\ h.groups[gid].members \subseteq DOMAIN h.nodes
         /\ Two(h.groups[gid].members)
    BY <1>1, <1>2, <1>10, <1>14, <2>0 DEF GroupsOK
  <2>4. \A i, j \in DOMAIN h.groups :
         i # j => h.groups[i].members \cap h.groups[j].members = {}
    BY <1>1, <1>2, <1>10, <1>13 DEF GroupsOK
  <2>5. h.selected \in DOMAIN h.groups \cup {NoId}
    BY <1>1, <1>10, <2>0 DEF GroupsOK
  <2> QED BY <1>12, <2>1, <2>2, <2>3, <2>4, <2>5 DEF GroupsOK
<1>16. NodesOK(h) /\ LinksOK(h) /\ ProbesOK(h)
  BY <1>9, SameButGroups DEF SameAround
<1>17. ASSUME BoundariesOK(g) PROVE BoundariesOK(h)
  <2>1. \A S : BoundaryPins(h, S) = BoundaryPins(g, S) /\ BoundaryPins(b, S) = BoundaryPins(g, S)
    BY <1>6, <1>9, SameNodes, SameBoundary DEF SameAround
  <2>2. h.groups[g.nextGroup].pins = BoundaryPins(g, members)
    BY <1>10, <2>1 DEF pins
  <2> QED BY <1>10, <1>17, <2>1, <2>2 DEF BoundariesOK
<1>18. GraphOK(h)
  BY <1>9, <1>15, <1>16 DEF GraphOK
<1> QED BY <1>0, <1>9, <1>10, <1>17, <1>18

\* A graph with some of its groups, and the selection among them.
LEMMA GroupsDropped ==
  ASSUME NEW g, GraphOK(g), NEW gids
  PROVE  LET h == RebuildCache(DropGroups(g, gids))
         IN  GraphOK(h) /\ (BoundariesOK(g) => BoundariesOK(h)) /\ SameAround(g, h)
<1>0. PICK h : h = RebuildCache(DropGroups(g, gids))
  OBVIOUS
<1>1. IsGraph(g) /\ GroupsOK(g)
  BY DEF GraphOK
<1>2. PICK d : d = DropGroups(g, gids)
  OBVIOUS
<1>3. /\ IsGraph(d) /\ SameAround(g, d) /\ d.nextGroup = g.nextGroup
      /\ d.groups = [gid \in DOMAIN g.groups \ gids |-> g.groups[gid]]
      /\ d.selected = IF g.selected \in gids THEN NoId ELSE g.selected
  BY <1>1, <1>2 DEF DropGroups, IsGraph, GraphFields, SameAround
<1>4. /\ IsGraph(h) /\ SameAround(g, h) /\ h.nextGroup = g.nextGroup
      /\ h.groups = d.groups /\ h.cache = CacheOf(h.groups) /\ h.selected = d.selected
  BY <1>0, <1>2, <1>3 DEF RebuildCache, IsGraph, GraphFields, SameAround
<1>5. /\ DOMAIN h.groups = DOMAIN g.groups \ gids
      /\ \A gid \in DOMAIN h.groups : gid \in DOMAIN g.groups /\ h.groups[gid] = g.groups[gid]
      /\ h.groups = [gid \in DOMAIN h.groups |-> h.groups[gid]]
  BY <1>3, <1>4
<1>6. \A gid \in DOMAIN h.groups :
        h.groups[gid] = [members   |-> h.groups[gid].members,
                collapsed |-> h.groups[gid].collapsed, pins |-> h.groups[gid].pins]
  <2>1. ASSUME NEW gid \in DOMAIN g.groups
        PROVE  g.groups[gid] = [members   |-> g.groups[gid].members,
                collapsed |-> g.groups[gid].collapsed, pins |-> g.groups[gid].pins]
    BY <1>1 DEF GroupsOK
  <2> QED BY <1>5, <2>1
<1>7. h.groups = [gid \in DOMAIN h.groups |->
               [members   |-> h.groups[gid].members,
                collapsed |-> h.groups[gid].collapsed, pins |-> h.groups[gid].pins]]
  BY <1>5, <1>6
<1>8. GroupsOK(h)
  <2>0. h.nodes = g.nodes
    BY <1>4 DEF SameAround
  <2>1. h.selected \in DOMAIN h.groups \cup {NoId}
    BY <1>1, <1>3, <1>4, <1>5 DEF GroupsOK
  <2>2. \A i, j \in DOMAIN h.groups :
         i # j => h.groups[i].members \cap h.groups[j].members = {}
    BY <1>1, <1>5 DEF GroupsOK
  <2>3. \A gid \in DOMAIN h.groups :
         /\ gid < h.nextGroup
         /\ h.groups[gid].members \subseteq DOMAIN h.nodes
         /\ Two(h.groups[gid].members)
    BY <1>1, <1>4, <1>5, <2>0 DEF GroupsOK
  <2>4. h.nextGroup \in Nat /\ DOMAIN h.groups \subseteq Nat
    BY <1>1, <1>4, <1>5 DEF GroupsOK
  <2> QED BY <1>4, <1>7, <2>1, <2>2, <2>3, <2>4 DEF GroupsOK
<1>9. NodesOK(h) /\ LinksOK(h) /\ ProbesOK(h)
  BY <1>4, SameButGroups DEF SameAround
<1>10. ASSUME BoundariesOK(g) PROVE BoundariesOK(h)
  <2>1. \A S : BoundaryPins(h, S) = BoundaryPins(g, S)
    BY <1>4, SameNodes, SameBoundary DEF SameAround
  <2> QED BY <1>5, <1>10, <2>1 DEF BoundariesOK
<1> QED BY <1>0, <1>4, <1>8, <1>9, <1>10 DEF GraphOK

LEMMA GroupCollapsedOrNot ==
  ASSUME NEW g, GraphOK(g), NEW gid \in DOMAIN g.groups, NEW collapsed
  PROVE  LET h == SetCollapsed(g, gid, collapsed)
         IN  GraphOK(h) /\ (BoundariesOK(g) => BoundariesOK(h)) /\ SameAround(g, h)
<1>0. PICK h : h = SetCollapsed(g, gid, collapsed)
  OBVIOUS
<1>1. IsGraph(g) /\ GroupsOK(g)
  BY DEF GraphOK
<1>2. PICK s : s = [g EXCEPT !.groups[gid].collapsed = collapsed]
  OBVIOUS
<1>3. h = IF collapsed
          THEN [s EXCEPT !.groups[gid].pins = BoundaryPins(s, s.groups[gid].members)]
          ELSE [s EXCEPT !.groups[gid].pins = {}]
  BY <1>0, <1>2 DEF SetCollapsed, RebuildBoundary
<1>4. g.groups[gid] = [members |-> g.groups[gid].members, collapsed |-> g.groups[gid].collapsed,
                       pins |-> g.groups[gid].pins]
  BY <1>1 DEF GroupsOK
<1>5. g.groups = [i \in DOMAIN g.groups |-> g.groups[i]]
  BY <1>1 DEF GroupsOK
<1>6. /\ IsGraph(s) /\ SameAround(g, s) /\ s.selected = g.selected /\ s.cache = g.cache
      /\ s.nextGroup = g.nextGroup
      /\ s.groups = [g.groups EXCEPT ![gid] = [g.groups[gid] EXCEPT !.collapsed = collapsed]]
  BY <1>1, <1>2 DEF IsGraph, GraphFields, SameAround
<1>7. s.groups[gid] = [members |-> g.groups[gid].members, collapsed |-> collapsed,
                       pins |-> g.groups[gid].pins]
  BY <1>4, <1>6
<1>8. PICK pins : pins = IF collapsed THEN BoundaryPins(s, g.groups[gid].members) ELSE {}
  OBVIOUS
<1>9. h = [s EXCEPT !.groups[gid].pins = pins]
  <2>1. CASE collapsed
    <3>1. pins = BoundaryPins(s, s.groups[gid].members)
      BY <1>7, <1>8, <2>1
    <3> QED BY <1>3, <2>1, <3>1
  <2>2. CASE ~collapsed
    BY <1>3, <1>8, <2>2
  <2> QED BY <2>1, <2>2
<1>10. /\ IsGraph(h) /\ SameAround(g, h) /\ h.selected = g.selected /\ h.cache = g.cache
       /\ h.nextGroup = g.nextGroup
       /\ h.groups = [s.groups EXCEPT ![gid] = [s.groups[gid] EXCEPT !.pins = pins]]
  BY <1>6, <1>9 DEF IsGraph, GraphFields, SameAround
<1>11. /\ DOMAIN h.groups = DOMAIN g.groups
       /\ \A i \in DOMAIN g.groups : i # gid => h.groups[i] = g.groups[i]
       /\ h.groups[gid] = [members |-> g.groups[gid].members, collapsed |-> collapsed,
                           pins |-> pins]
       /\ h.groups = [i \in DOMAIN h.groups |-> h.groups[i]]
  BY <1>6, <1>7, <1>10
<1>12. \A i \in DOMAIN h.groups : h.groups[i].members = g.groups[i].members
  BY <1>11
<1>13. h.cache = CacheOf(h.groups)
  <2>1. CacheOf(h.groups) = CacheOf(g.groups)
    BY <1>11, <1>12, SameCache
  <2> QED BY <1>1, <1>10, <2>1 DEF GroupsOK
<1>14. \A i \in DOMAIN h.groups :
        h.groups[i] = [members   |-> h.groups[i].members,
                collapsed |-> h.groups[i].collapsed, pins |-> h.groups[i].pins]
  <2>1. ASSUME NEW i \in DOMAIN g.groups
        PROVE  g.groups[i] = [members   |-> g.groups[i].members,
                collapsed |-> g.groups[i].collapsed, pins |-> g.groups[i].pins]
    BY <1>1 DEF GroupsOK
  <2> QED BY <1>11, <2>1
<1>15. h.groups = [i \in DOMAIN h.groups |->
               [members   |-> h.groups[i].members,
                collapsed |-> h.groups[i].collapsed, pins |-> h.groups[i].pins]]
  BY <1>11, <1>14
<1>16. GroupsOK(h)
  <2>0. h.nodes = g.nodes
    BY <1>10 DEF SameAround
  <2>1. \A i \in DOMAIN h.groups :
         /\ i < h.nextGroup
         /\ h.groups[i].members \subseteq DOMAIN h.nodes
         /\ Two(h.groups[i].members)
    BY <1>1, <1>10, <1>11, <1>12, <2>0 DEF GroupsOK
  <2>2. \A i, j \in DOMAIN h.groups :
         i # j => h.groups[i].members \cap h.groups[j].members = {}
    BY <1>1, <1>11, <1>12 DEF GroupsOK
  <2>3. /\ h.nextGroup \in Nat /\ DOMAIN h.groups \subseteq Nat
        /\ h.selected \in DOMAIN h.groups \cup {NoId}
    BY <1>1, <1>10, <1>11 DEF GroupsOK
  <2> QED BY <1>13, <1>15, <2>1, <2>2, <2>3 DEF GroupsOK
<1>17. NodesOK(h) /\ LinksOK(h) /\ ProbesOK(h)
  BY <1>10, SameButGroups DEF SameAround
<1>18. ASSUME BoundariesOK(g) PROVE BoundariesOK(h)
  <2>1. \A S : BoundaryPins(h, S) = BoundaryPins(g, S) /\ BoundaryPins(s, S) = BoundaryPins(g, S)
    BY <1>6, <1>10, SameNodes, SameBoundary DEF SameAround
  <2>2. collapsed => h.groups[gid].pins = BoundaryPins(h, h.groups[gid].members)
    BY <1>8, <1>11, <2>1
  <2>3. h.groups[gid].collapsed = collapsed
    BY <1>11
  <2> QED BY <1>11, <1>18, <2>1, <2>2, <2>3 DEF BoundariesOK
<1> QED BY <1>0, <1>10, <1>16, <1>17, <1>18 DEF GraphOK

LEMMA GroupSelected ==
  ASSUME NEW g, GraphOK(g), NEW gid \in DOMAIN g.groups \cup {NoId}
  PROVE  LET h == [g EXCEPT !.selected = gid]
         IN  GraphOK(h) /\ (BoundariesOK(g) => BoundariesOK(h)) /\ SameAround(g, h)
<1>0. PICK h : h = [g EXCEPT !.selected = gid]
  OBVIOUS
<1>1. /\ IsGraph(h) /\ SameAround(g, h) /\ h.selected = gid /\ h.groups = g.groups
      /\ h.cache = g.cache /\ h.nextGroup = g.nextGroup
  BY <1>0 DEF GraphOK, IsGraph, GraphFields, SameAround
<1>2. GroupsOK(h)
  BY <1>1 DEF GraphOK, GroupsOK, SameAround
<1>3. NodesOK(h) /\ LinksOK(h) /\ ProbesOK(h)
  BY <1>1, SameButGroups DEF SameAround
<1>4. BoundariesOK(g) => BoundariesOK(h)
  <2>1. \A S : BoundaryPins(h, S) = BoundaryPins(g, S)
    BY <1>1, SameNodes, SameBoundary DEF SameAround
  <2> QED BY <1>1, <2>1 DEF BoundariesOK
<1> QED BY <1>0, <1>1, <1>2, <1>3, <1>4 DEF GraphOK

-----------------------------------------------------------------------------
(* Probes *)

\* A graph that differs in its probes only
LEMMA ProbesChanged ==
  ASSUME NEW g, GraphOK(g), NEW probes \in Seq(Nat), IsInjective(probes),
         ToSet(probes) \subseteq InPins(g) \cup OutPins(g)
  PROVE  LET h == [g EXCEPT !.probes = probes]
         IN  GraphOK(h) /\ (BoundariesOK(g) => BoundariesOK(h))
<1>0. PICK h : h = [g EXCEPT !.probes = probes]
  OBVIOUS
<1>1. /\ IsGraph(h) /\ h.nodes = g.nodes /\ h.links = g.links /\ h.groups = g.groups
      /\ h.nextNode = g.nextNode /\ h.nextPin = g.nextPin /\ h.nextLink = g.nextLink
      /\ h.selected = g.selected /\ h.cache = g.cache /\ h.nextGroup = g.nextGroup
      /\ h.probes = probes
  BY <1>0 DEF GraphOK, IsGraph, GraphFields
<1>2. GroupsOK(h)
  BY <1>1 DEF GraphOK, GroupsOK
<1>3. NodesOK(h) /\ LinksOK(h)
  BY <1>1, SameButGroups
<1>4. ProbesOK(h)
  <2>1. InPins(h) = InPins(g) /\ OutPins(h) = OutPins(g)
    BY <1>1, SameNodes
  <2> QED BY <1>1, <2>1 DEF ProbesOK
<1>5. BoundariesOK(g) => BoundariesOK(h)
  <2>1. \A S : BoundaryPins(h, S) = BoundaryPins(g, S)
    BY <1>1, SameNodes, SameBoundary
  <2> QED BY <1>1, <2>1 DEF BoundariesOK
<1> QED BY <1>0, <1>1, <1>2, <1>3, <1>4, <1>5 DEF GraphOK

LEMMA ProbeAdded ==
  ASSUME NEW g, GraphOK(g), NEW pin \in InPins(g) \cup OutPins(g), CanProbe(g, pin)
  PROVE  LET h == AddProbe(g, pin)
         IN  GraphOK(h) /\ (BoundariesOK(g) => BoundariesOK(h))
<1>1. g.probes \in Seq(Nat) /\ IsInjective(g.probes)
      /\ ToSet(g.probes) \subseteq InPins(g) \cup OutPins(g)
  BY DEF GraphOK, ProbesOK
<1>2. pin \in Nat /\ pin \notin ToSet(g.probes)
  BY InPinOf, OutPinOf DEF GraphOK, CanProbe
<1>3. PICK probes : probes = Append(g.probes, pin)
  OBVIOUS
<1>4. /\ probes \in Seq(Nat) /\ DOMAIN probes = 1..(Len(g.probes) + 1)
      /\ DOMAIN g.probes = 1..Len(g.probes) /\ Len(g.probes) \in Nat
      /\ probes[Len(g.probes) + 1] = pin /\ \A i \in DOMAIN g.probes : probes[i] = g.probes[i]
  BY <1>1, <1>2, <1>3
<1>5. \A i \in DOMAIN probes : i \in DOMAIN g.probes \/ i = Len(g.probes) + 1
  BY <1>4
<1>6. \A i \in DOMAIN g.probes : g.probes[i] # pin
  BY <1>2 DEF ToSet
<1>7. IsInjective(probes)
  BY <1>1, <1>4, <1>5, <1>6 DEF IsInjective
<1>8. ToSet(probes) \subseteq InPins(g) \cup OutPins(g)
  BY <1>1, <1>4, <1>5 DEF ToSet
<1>9. AddProbe(g, pin) = [g EXCEPT !.probes = probes]
  BY <1>3 DEF AddProbe
<1> QED BY <1>4, <1>7, <1>8, <1>9, ProbesChanged

\* The numbers up to n in order are the numbers up to n.
LEMMA AscendingInterval ==
  ASSUME NEW n \in Nat
  PROVE  Ascending(1..n) = [i \in 1..n |-> i]
<1>0. PICK S : S = 1..n
  OBVIOUS
<1>1. IsFiniteSet(S) /\ Cardinality(S) = n /\ S \in SUBSET Nat
  BY <1>0, FS_Interval
<1>2. PICK s : s = Ascending(S)
  OBVIOUS
<1>3. /\ s \in [1..n -> 1..n]
      /\ \A i, j \in 1..n : i < j => s[i] < s[j]
      /\ \A i, j \in 1..n : s[i] = s[j] => i = j
      /\ 1..n = {s[i] : i \in 1..n}
  <2>1. /\ s \in [1..Cardinality(S) -> S]
        /\ \A i, j \in 1..Cardinality(S) : i < j => s[i] < s[j]
        /\ \A i, j \in 1..Cardinality(S) : s[i] = s[j] => i = j
        /\ S = {s[i] : i \in 1..Cardinality(S)}
    BY <1>1, <1>2, AscendingIs
  <2>2. S = {s[i] : i \in 1..n}
    BY <1>1, <2>1
  <2>3. 1..n = {s[i] : i \in 1..n}
    BY <1>0, <2>2
  <2>4. s \in [1..n -> S]
    BY <1>1, <2>1
  <2>5. s \in [1..n -> 1..n]
    BY <1>0, <2>4
  <2>6. /\ \A i, j \in 1..n : i < j => s[i] < s[j]
        /\ \A i, j \in 1..n : s[i] = s[j] => i = j
    BY <1>1, <2>1
  <2> QED BY <2>3, <2>5, <2>6
<1> DEFINE off == {i \in 1..n : s[i] # i}
<1>4. ASSUME off # {} PROVE FALSE
  <2>1. PICK i \in off : \A j \in off : i <= j
    <3>1. off \in SUBSET Nat
      OBVIOUS
    <3> HIDE DEF off
    <3> QED BY <1>4, <3>1, Least
  <2>2. i \in 1..n /\ s[i] # i /\ s[i] \in 1..n
    BY <1>3
  <2>3. \A j \in 1..n : j < i => s[j] = j
    BY <2>1, <2>2
  <2>4. ~(s[i] < i)
    BY <1>3, <2>2, <2>3
  <2>5. PICK k \in 1..n : s[k] = i
    BY <1>3, <2>2
  <2>6. ~(k < i) /\ k # i
    BY <2>2, <2>3, <2>5
  <2>7. s[i] < s[k]
    BY <1>3, <2>2, <2>6
  <2> QED BY <2>2, <2>4, <2>5, <2>7
<1>5. \A i \in 1..n : s[i] = i
  BY <1>4
<1> QED BY <1>0, <1>2, <1>3, <1>5

\* The probes whose pins stay keep their order, and the others are gone.
LEMMA ProbesLeft ==
  ASSUME NEW g, IsGraph(g), ProbesOK(g), NEW pins
  PROVE  LET probes == RemoveProbes(g, pins).probes
         IN  /\ RemoveProbes(g, pins) = [g EXCEPT !.probes = probes]
             /\ probes \in Seq(Nat) /\ IsInjective(probes)
             /\ ToSet(probes) = ToSet(g.probes) \ pins
             /\ ToSet(g.probes) \cap pins = {} => probes = g.probes
<1>1. g.probes \in Seq(Nat) /\ IsInjective(g.probes)
  BY DEF ProbesOK
<1>2. PICK n \in Nat : DOMAIN g.probes = 1..n /\ g.probes = [i \in 1..n |-> g.probes[i]]
  <2>1. Len(g.probes) \in Nat /\ DOMAIN g.probes = 1..Len(g.probes)
    BY <1>1
  <2>2. g.probes = [i \in 1..Len(g.probes) |-> g.probes[i]]
    BY <1>1, <2>1
  <2> QED BY <2>1, <2>2
<1>3. PICK S : S = {i \in DOMAIN g.probes : g.probes[i] \notin pins}
  OBVIOUS
<1>4. S \in SUBSET Nat /\ S \in SUBSET (1..n) /\ IsFiniteSet(S)
  <2>1. S \in SUBSET (1..n)
    BY <1>2, <1>3
  <2>2. IsFiniteSet(1..n)
    BY FS_Interval
  <2>3. IsFiniteSet(S)
    BY <2>1, <2>2, FS_Subset
  <2> QED BY <2>1, <2>3
<1>5. PICK k : k = Ascending(S)
  OBVIOUS
<1>6. PICK m \in Nat : m = Cardinality(S)
  BY <1>4, FS_CardinalityType
<1>7. /\ k \in [1..m -> S] /\ \A i, j \in 1..m : k[i] = k[j] => i = j
      /\ S = {k[i] : i \in 1..m}
  BY <1>4, <1>5, <1>6, AscendingIs
<1>8. PICK probes : probes = [i \in 1..m |-> g.probes[k[i]]]
  OBVIOUS
<1>9. RemoveProbes(g, pins) = [g EXCEPT !.probes = probes]
  <2>1. DOMAIN k = 1..m
    BY <1>7
  <2> QED BY <1>3, <1>5, <1>8, <2>1 DEF RemoveProbes, IsGraph, GraphFields
<1>10. RemoveProbes(g, pins).probes = probes
  BY <1>9 DEF IsGraph, GraphFields
<1>11. DOMAIN probes = 1..m /\ \A i \in 1..m : probes[i] = g.probes[k[i]] /\ k[i] \in S
  BY <1>7, <1>8
<1>12. \A i \in S : i \in DOMAIN g.probes /\ g.probes[i] \in Nat /\ g.probes[i] \notin pins
  BY <1>1, <1>3
<1>13. probes \in Seq(Nat)
  BY <1>8, <1>11, <1>12
<1>14. IsInjective(probes)
  <2> SUFFICES ASSUME NEW i \in 1..m, NEW j \in 1..m, probes[i] = probes[j] PROVE i = j
    BY <1>11 DEF IsInjective
  <2>1. k[i] \in DOMAIN g.probes /\ k[j] \in DOMAIN g.probes /\ g.probes[k[i]] = g.probes[k[j]]
    BY <1>11, <1>12
  <2>2. k[i] = k[j]
    BY <1>1, <2>1 DEF IsInjective
  <2> QED BY <1>7, <2>2
<1>15. ToSet(probes) = ToSet(g.probes) \ pins
  <2>1. ASSUME NEW p \in ToSet(probes) PROVE p \in ToSet(g.probes) \ pins
    <3>1. PICK i \in 1..m : p = probes[i]
      BY <1>11 DEF ToSet
    <3> QED BY <3>1, <1>11, <1>12 DEF ToSet
  <2>2. ASSUME NEW p \in ToSet(g.probes) \ pins PROVE p \in ToSet(probes)
    <3>1. PICK j \in DOMAIN g.probes : p = g.probes[j]
      BY DEF ToSet
    <3>2. j \in S
      BY <1>3, <3>1
    <3>3. PICK i \in 1..m : j = k[i]
      BY <1>7, <3>2
    <3> QED BY <3>1, <3>3, <1>11 DEF ToSet
  <2> QED BY <2>1, <2>2
<1>16. ASSUME ToSet(g.probes) \cap pins = {} PROVE probes = g.probes
  <2>1. S = 1..n
    BY <1>2, <1>3, <1>16 DEF ToSet
  <2>2. m = n
    BY <1>6, <2>1, FS_Interval
  <2>3. k = [i \in 1..n |-> i]
    BY <1>5, <2>1, AscendingInterval
  <2>4. \A i \in 1..n : k[i] = i
    BY <2>3
  <2>5. probes = [i \in 1..n |-> g.probes[k[i]]]
    BY <1>8, <2>2
  <2> QED BY <1>2, <2>4, <2>5
<1> QED BY <1>9, <1>10, <1>13, <1>14, <1>15, <1>16

LEMMA ProbesRemoved ==
  ASSUME NEW g, GraphOK(g), NEW pins
  PROVE  LET h == RemoveProbes(g, pins)
         IN  GraphOK(h) /\ (BoundariesOK(g) => BoundariesOK(h))
<1>1. IsGraph(g) /\ ProbesOK(g) /\ ToSet(g.probes) \subseteq InPins(g) \cup OutPins(g)
  BY DEF GraphOK, ProbesOK
<1>2. PICK probes : probes = RemoveProbes(g, pins).probes
  OBVIOUS
<1>3. /\ RemoveProbes(g, pins) = [g EXCEPT !.probes = probes]
      /\ probes \in Seq(Nat) /\ IsInjective(probes)
      /\ ToSet(probes) = ToSet(g.probes) \ pins
  BY <1>1, <1>2, ProbesLeft
<1> QED BY <1>1, <1>3, ProbesChanged

-----------------------------------------------------------------------------
(* Adding a node *)

\* Everything but the nodes and their counters
SameBeside(g, h) ==
  /\ h.links = g.links /\ h.probes = g.probes /\ h.groups = g.groups /\ h.cache = g.cache
  /\ h.selected = g.selected /\ h.nextLink = g.nextLink /\ h.nextGroup = g.nextGroup

LEMMA NodeAdded ==
  ASSUME NEW g, GraphOK(g), NEW inputs \in Nat, NEW outputs \in Nat,
         NEW h, h = AddNode(g, inputs, outputs), NEW new, new = g.nextNode
  PROVE  /\ IsGraph(h) /\ NodesOK(h) /\ SameBeside(g, h)
         /\ h.nextNode = new + 1 /\ h.nextPin = g.nextPin + inputs + outputs
         /\ new \in Nat /\ new \notin DOMAIN g.nodes
         /\ DOMAIN h.nodes = DOMAIN g.nodes \cup {new}
         /\ \A m \in DOMAIN g.nodes : h.nodes[m] = g.nodes[m] /\ PinsOf(h, m) = PinsOf(g, m)
         /\ \A pin \in PinsOf(h, new) : pin \in Nat /\ pin >= g.nextPin
         /\ DOMAIN h.nodes[new].ins = 1..inputs /\ DOMAIN h.nodes[new].outs = 1..outputs
<1>1. IsGraph(g) /\ NodesOK(g)
  BY DEF GraphOK
<1>3. g.nextPin \in Nat /\ new \in Nat /\ new \notin DOMAIN g.nodes
  BY <1>1 DEF NodesOK
<1>4. PICK ins, outs : /\ ins = [i \in 1..inputs |-> g.nextPin + i - 1]
                       /\ outs = [i \in 1..outputs |-> g.nextPin + inputs + i - 1]
  OBVIOUS
<1>5. /\ IsGraph(h) /\ SameBeside(g, h)
      /\ h.nextNode = new + 1 /\ h.nextPin = g.nextPin + inputs + outputs
      /\ h.nodes = [n \in DOMAIN g.nodes \cup {new} |->
                      IF n = new THEN [ins |-> ins, outs |-> outs] ELSE g.nodes[n]]
  BY <1>1, <1>4 DEF AddNode, IsGraph, GraphFields, SameBeside
<1>6. /\ DOMAIN h.nodes = DOMAIN g.nodes \cup {new}
      /\ \A m \in DOMAIN g.nodes : h.nodes[m] = g.nodes[m]
      /\ h.nodes[new] = [ins |-> ins, outs |-> outs]
  BY <1>3, <1>5
<1>7. \A m \in DOMAIN g.nodes : PinsOf(h, m) = PinsOf(g, m)
  BY <1>6 DEF PinsOf
<1>81. PICK p \in Nat : p = g.nextPin
  BY <1>3
<1>82. DOMAIN ins = 1..inputs /\ \A i \in 1..inputs : ins[i] = p + i - 1
  BY <1>4, <1>81
<1>83. DOMAIN outs = 1..outputs /\ \A i \in 1..outputs : outs[i] = p + inputs + i - 1
  BY <1>4, <1>81
<1>8. ins \in Seq(Nat) /\ outs \in Seq(Nat)
  <2>1. \A i \in 1..inputs : p + i - 1 \in Nat
    OBVIOUS
  <2>2. \A i \in 1..outputs : p + inputs + i - 1 \in Nat
    OBVIOUS
  <2>3. ins = [i \in 1..inputs |-> p + i - 1] /\ outs = [i \in 1..outputs |-> p + inputs + i - 1]
    BY <1>4, <1>81
  <2>4. ins \in [1..inputs -> Nat]
    BY <2>1, <2>3
  <2>5. outs \in [1..outputs -> Nat]
    BY <2>2, <2>3
  <2> QED BY <2>4, <2>5
<1>9. IsInjective(ins) /\ IsInjective(outs)
  <2>1. IsInjective(ins)
    BY <1>82 DEF IsInjective
  <2>2. IsInjective(outs)
    BY <1>83 DEF IsInjective
  <2> QED BY <2>1, <2>2
<1>10. /\ \A pin \in ToSet(ins) : pin \in Nat /\ pin >= g.nextPin /\ pin < g.nextPin + inputs
       /\ \A pin \in ToSet(outs) : /\ pin \in Nat /\ pin >= g.nextPin + inputs
                                   /\ pin < g.nextPin + inputs + outputs
  <2>1. ASSUME NEW pin \in ToSet(ins)
        PROVE  pin \in Nat /\ pin >= g.nextPin /\ pin < g.nextPin + inputs
    <3>1. PICK i \in 1..inputs : pin = p + i - 1
      BY <1>82 DEF ToSet
    <3> QED BY <1>81, <3>1
  <2>2. ASSUME NEW pin \in ToSet(outs)
        PROVE  /\ pin \in Nat /\ pin >= g.nextPin + inputs
               /\ pin < g.nextPin + inputs + outputs
    <3>1. PICK i \in 1..outputs : pin = p + inputs + i - 1
      BY <1>83 DEF ToSet
    <3> QED BY <1>81, <3>1
  <2> QED BY <2>1, <2>2
<1>11. ToSet(ins) \cap ToSet(outs) = {}
  <2> SUFFICES ASSUME NEW pin \in ToSet(ins), pin \in ToSet(outs) PROVE FALSE
    OBVIOUS
  <2>1. pin < g.nextPin + inputs /\ pin >= g.nextPin + inputs /\ pin \in Nat
    BY <1>10
  <2> QED BY <1>3, <2>1
<1>12. \A pin \in PinsOf(h, new) : pin \in Nat /\ pin >= g.nextPin /\ pin < h.nextPin
  <2>1. PinsOf(h, new) = ToSet(ins) \cup ToSet(outs)
    BY <1>6 DEF PinsOf
  <2>2. ASSUME NEW pin \in PinsOf(h, new) PROVE pin \in Nat /\ pin >= g.nextPin /\ pin < h.nextPin
    <3>1. CASE pin \in ToSet(ins)
      BY <1>3, <1>5, <1>10, <3>1
    <3>2. CASE pin \in ToSet(outs)
      BY <1>3, <1>5, <1>10, <3>2
    <3> QED BY <2>1, <3>1, <3>2
  <2> QED BY <2>2
<1>13. \A m \in DOMAIN g.nodes : \A pin \in PinsOf(g, m) : pin \in Nat /\ pin < g.nextPin
  BY <1>1, LivePin
<1>14. NodesOK(h)
  <2>1. h.nextNode \in Nat /\ h.nextPin \in Nat /\ DOMAIN h.nodes \subseteq Nat
    BY <1>1, <1>3, <1>5, <1>6 DEF NodesOK
  <2>2. h.nodes \in [DOMAIN h.nodes -> [ins : Seq(Nat), outs : Seq(Nat)]]
    <3>1. \A n \in DOMAIN h.nodes : h.nodes[n] \in [ins : Seq(Nat), outs : Seq(Nat)]
      <4>1. \A n \in DOMAIN g.nodes : g.nodes[n] \in [ins : Seq(Nat), outs : Seq(Nat)]
        BY <1>1 DEF NodesOK
      <4>2. [ins |-> ins, outs |-> outs] \in [ins : Seq(Nat), outs : Seq(Nat)]
        BY ONLY <1>8
      <4> QED BY <1>6, <4>1, <4>2
    <3>2. h.nodes = [n \in DOMAIN h.nodes |-> h.nodes[n]]
      BY <1>5, <1>6
    <3> QED BY <3>1, <3>2
  <2>3. ASSUME NEW n \in DOMAIN h.nodes
        PROVE  /\ n < h.nextNode
               /\ \A pin \in PinsOf(h, n) : pin < h.nextPin
               /\ IsInjective(h.nodes[n].ins) /\ IsInjective(h.nodes[n].outs)
               /\ ToSet(h.nodes[n].ins) \cap ToSet(h.nodes[n].outs) = {}
    <3>1. CASE n = new
      BY <1>3, <1>5, <1>6, <1>9, <1>11, <1>12, <3>1
    <3>2. CASE n \in DOMAIN g.nodes
      <4>1. n < g.nextNode /\ n \in Nat /\ n < h.nextNode
        BY <1>1, <1>3, <1>5, <3>2 DEF NodesOK
      <4>2. \A pin \in PinsOf(h, n) : pin < h.nextPin
        BY <1>3, <1>5, <1>7, <1>13, <3>2
      <4>3. /\ IsInjective(g.nodes[n].ins) /\ IsInjective(g.nodes[n].outs)
            /\ ToSet(g.nodes[n].ins) \cap ToSet(g.nodes[n].outs) = {}
        BY <1>1, <3>2 DEF NodesOK
      <4> QED BY <1>6, <3>2, <4>1, <4>2, <4>3
    <3> QED BY <1>6, <3>1, <3>2
  <2>4. ASSUME NEW n \in DOMAIN h.nodes, NEW m \in DOMAIN h.nodes, n # m
        PROVE  PinsOf(h, n) \cap PinsOf(h, m) = {}
    <3>1. CASE n \in DOMAIN g.nodes /\ m \in DOMAIN g.nodes
      BY <1>1, <1>7, <2>4, <3>1 DEF NodesOK
    <3>2. \A k \in DOMAIN g.nodes : PinsOf(h, k) \cap PinsOf(h, new) = {}
      <4> SUFFICES ASSUME NEW k \in DOMAIN g.nodes, NEW pin \in PinsOf(h, k), pin \in PinsOf(h, new)
                   PROVE  FALSE
        OBVIOUS
      <4>1. pin < g.nextPin /\ pin \in Nat /\ pin >= g.nextPin
        BY <1>7, <1>12, <1>13
      <4> QED BY <1>3, <4>1
    <3> QED BY <1>6, <2>4, <3>1, <3>2
  <2> QED BY <2>1, <2>2, <2>3, <2>4 DEF NodesOK
<1>15. DOMAIN h.nodes[new].ins = 1..inputs /\ DOMAIN h.nodes[new].outs = 1..outputs
  BY <1>6, <1>82, <1>83
<1> QED BY <1>3, <1>5, <1>6, <1>7, <1>12, <1>14, <1>15

\* The pins there were stay with their nodes, and nothing refers to the new ones.
LEMMA NodeAddedKeeps ==
  ASSUME NEW g, GraphOK(g), NEW inputs \in Nat, NEW outputs \in Nat,
         NEW h, h = AddNode(g, inputs, outputs), NEW new, new = g.nextNode
  PROVE  /\ GraphOK(h) /\ (BoundariesOK(g) => BoundariesOK(h))
         /\ InPins(h) = InPins(g) \cup ToSet(h.nodes[new].ins)
         /\ OutPins(h) = OutPins(g) \cup ToSet(h.nodes[new].outs)
         /\ \A pin \in InPins(g) \cup OutPins(g) : NodeOf(h, pin) = NodeOf(g, pin)
         /\ Edges(h) = Edges(g)
<1>2. /\ IsGraph(h) /\ NodesOK(h) /\ SameBeside(g, h)
      /\ new \notin DOMAIN g.nodes
      /\ DOMAIN h.nodes = DOMAIN g.nodes \cup {new}
      /\ \A m \in DOMAIN g.nodes : h.nodes[m] = g.nodes[m] /\ PinsOf(h, m) = PinsOf(g, m)
  BY NodeAdded, SMTT(30)
<1>3. /\ InPins(h) = InPins(g) \cup ToSet(h.nodes[new].ins)
      /\ OutPins(h) = OutPins(g) \cup ToSet(h.nodes[new].outs)
  BY <1>2 DEF InPins, OutPins
<1>4. ASSUME NEW pin \in InPins(g) \cup OutPins(g) PROVE NodeOf(h, pin) = NodeOf(g, pin)
  <2>1. NodeOf(g, pin) \in DOMAIN g.nodes /\ pin \in PinsOf(g, NodeOf(g, pin))
    BY InPinOf, OutPinOf DEF GraphOK
  <2>2. NodeOf(g, pin) \in DOMAIN h.nodes /\ pin \in PinsOf(h, NodeOf(g, pin))
    BY <1>2, <2>1
  <2> QED BY <1>2, <2>2, NodeOfPin
<1>5. \A l \in g.links : NodeOf(h, l.start) = NodeOf(g, l.start) /\ NodeOf(h, l.end) = NodeOf(g, l.end)
  BY <1>4 DEF GraphOK, LinksOK
<1>6. Edges(h) = Edges(g)
  BY <1>2, <1>5 DEF Edges, SameBeside
<1>7. Acyclic(Edges(h), DOMAIN h.nodes)
  <2>1. Acyclic(Edges(g), DOMAIN g.nodes)
    BY DEF GraphOK, LinksOK
  <2>2. \A n : <<n, new>> \notin Edges(g)
    <3> SUFFICES ASSUME NEW n, NEW l \in g.links, <<n, new>> = <<NodeOf(g, l.start), NodeOf(g, l.end)>>
                 PROVE  FALSE
      BY DEF Edges
    <3>1. NodeOf(g, l.end) = new
      OBVIOUS
    <3>2. l.end \in InPins(g)
      BY DEF GraphOK, LinksOK
    <3> QED BY <1>2, <3>1, <3>2, InPinOf DEF GraphOK
  <2> SUFFICES ASSUME NEW S \in (SUBSET DOMAIN h.nodes) \ {{}}
               PROVE  \E n \in S : \A m \in S : <<m, n>> \notin Edges(h)
    BY DEF Acyclic
  <2>3. CASE new \in S
    BY <1>6, <2>2, <2>3
  <2>4. CASE new \notin S
    <3>1. S \in (SUBSET DOMAIN g.nodes) \ {{}}
      BY <1>2, <2>4
    <3> QED BY <1>6, <2>1, <3>1 DEF Acyclic
  <2> QED BY <2>3, <2>4
<1>8. LinksOK(h)
  BY <1>2, <1>3, <1>7 DEF GraphOK, LinksOK, SameBeside
<1>9. ProbesOK(h)
  BY <1>2, <1>3 DEF GraphOK, ProbesOK, SameBeside
<1>10. GroupsOK(h)
  BY <1>2 DEF GraphOK, GroupsOK, SameBeside
<1>11. BoundariesOK(g) => BoundariesOK(h)
  <2>1. \A S : BoundaryPins(h, S) = BoundaryPins(g, S)
    BY <1>2, <1>5, SameBoundary DEF SameBeside
  <2> QED BY <1>2, <2>1 DEF BoundariesOK, SameBeside
<1>12. GraphOK(h)
  BY <1>2, <1>8, <1>9, <1>10 DEF GraphOK
<1> QED BY <1>3, <1>4, <1>6, <1>11, <1>12

-----------------------------------------------------------------------------
(* Removing a node *)

\* The pins of the other nodes stay with them.
LEMMA FewerNodes ==
  ASSUME NEW g, NodesOK(g), NEW n \in DOMAIN g.nodes, NEW h,
         h.nodes = [m \in DOMAIN g.nodes \ {n} |-> g.nodes[m]],
         h.nextNode = g.nextNode, h.nextPin = g.nextPin
  PROVE  /\ NodesOK(h) /\ \A m \in DOMAIN h.nodes : PinsOf(h, m) = PinsOf(g, m)
         /\ InPins(h) = InPins(g) \ PinsOf(g, n) /\ OutPins(h) = OutPins(g) \ PinsOf(g, n)
         /\ \A pin \in InPins(h) \cup OutPins(h) : NodeOf(h, pin) = NodeOf(g, pin)
<1>1. /\ DOMAIN h.nodes = DOMAIN g.nodes \ {n}
      /\ \A m \in DOMAIN h.nodes : h.nodes[m] = g.nodes[m]
  OBVIOUS
<1>2. \A m \in DOMAIN h.nodes : PinsOf(h, m) = PinsOf(g, m)
  BY <1>1 DEF PinsOf
<1>3. NodesOK(h)
  <2>1. h.nodes \in [DOMAIN h.nodes -> [ins : Seq(Nat), outs : Seq(Nat)]]
    <3>1. \A m \in DOMAIN g.nodes : g.nodes[m] \in [ins : Seq(Nat), outs : Seq(Nat)]
      BY DEF NodesOK
    <3> QED BY <1>1, <3>1
  <2>2. ASSUME NEW m \in DOMAIN h.nodes
        PROVE  /\ m < h.nextNode
               /\ \A pin \in PinsOf(h, m) : pin < h.nextPin
               /\ IsInjective(h.nodes[m].ins) /\ IsInjective(h.nodes[m].outs)
               /\ ToSet(h.nodes[m].ins) \cap ToSet(h.nodes[m].outs) = {}
    BY <1>1, <1>2 DEF NodesOK
  <2>3. \A k, m \in DOMAIN h.nodes : k # m => PinsOf(h, k) \cap PinsOf(h, m) = {}
    BY <1>1, <1>2 DEF NodesOK
  <2>4. h.nextNode \in Nat /\ h.nextPin \in Nat /\ DOMAIN h.nodes \subseteq Nat
    BY <1>1 DEF NodesOK
  <2> QED BY <2>1, <2>2, <2>3, <2>4 DEF NodesOK
<1>4. \A m \in DOMAIN h.nodes : PinsOf(g, m) \cap PinsOf(g, n) = {}
  BY <1>1 DEF NodesOK
<1>5. InPins(h) = InPins(g) \ PinsOf(g, n)
  <2>1. ASSUME NEW pin \in InPins(h) PROVE pin \in InPins(g) \ PinsOf(g, n)
    <3>1. PICK m \in DOMAIN h.nodes : pin \in ToSet(h.nodes[m].ins)
      BY DEF InPins
    <3>2. pin \in PinsOf(g, m)
      BY <1>1, <3>1 DEF PinsOf
    <3> QED BY <1>1, <1>4, <3>1, <3>2 DEF InPins
  <2>2. ASSUME NEW pin \in InPins(g) \ PinsOf(g, n) PROVE pin \in InPins(h)
    <3>1. PICK m \in DOMAIN g.nodes : pin \in ToSet(g.nodes[m].ins)
      BY DEF InPins
    <3>2. m # n
      BY <3>1 DEF PinsOf
    <3> QED BY <1>1, <3>1, <3>2 DEF InPins
  <2> QED BY <2>1, <2>2
<1>6. OutPins(h) = OutPins(g) \ PinsOf(g, n)
  <2>1. ASSUME NEW pin \in OutPins(h) PROVE pin \in OutPins(g) \ PinsOf(g, n)
    <3>1. PICK m \in DOMAIN h.nodes : pin \in ToSet(h.nodes[m].outs)
      BY DEF OutPins
    <3>2. pin \in PinsOf(g, m)
      BY <1>1, <3>1 DEF PinsOf
    <3> QED BY <1>1, <1>4, <3>1, <3>2 DEF OutPins
  <2>2. ASSUME NEW pin \in OutPins(g) \ PinsOf(g, n) PROVE pin \in OutPins(h)
    <3>1. PICK m \in DOMAIN g.nodes : pin \in ToSet(g.nodes[m].outs)
      BY DEF OutPins
    <3>2. m # n
      BY <3>1 DEF PinsOf
    <3> QED BY <1>1, <3>1, <3>2 DEF OutPins
  <2> QED BY <2>1, <2>2
<1>7. ASSUME NEW pin \in InPins(h) \cup OutPins(h) PROVE NodeOf(h, pin) = NodeOf(g, pin)
  <2>1. NodeOf(h, pin) \in DOMAIN h.nodes /\ pin \in PinsOf(h, NodeOf(h, pin))
    BY <1>3, InPinOf, OutPinOf
  <2>2. NodeOf(h, pin) \in DOMAIN g.nodes /\ pin \in PinsOf(g, NodeOf(h, pin))
    BY <1>1, <1>2, <2>1
  <2> QED BY <2>2, NodeOfPin
<1> QED BY <1>2, <1>3, <1>5, <1>6, <1>7

NodeRemovedFrom(g, n, h) ==
  /\ GraphOK(h) /\ BoundariesOK(h)
  /\ h.nodes = [m \in DOMAIN g.nodes \ {n} |-> g.nodes[m]]
  /\ h.links = {l \in g.links : l.start \notin PinsOf(g, n) /\ l.end \notin PinsOf(g, n)}
  /\ h.nextNode = g.nextNode /\ h.nextPin = g.nextPin /\ h.nextLink = g.nextLink
  /\ h.nextGroup = g.nextGroup
  /\ ToSet(g.probes) \cap PinsOf(g, n) = {} => h.probes = g.probes
  /\ (\A gid \in DOMAIN g.groups : n \notin g.groups[gid].members) =>
       /\ DOMAIN h.groups = DOMAIN g.groups /\ h.cache = g.cache /\ h.selected = g.selected
       /\ \A gid \in DOMAIN g.groups :
            /\ h.groups[gid].members = g.groups[gid].members
            /\ h.groups[gid].collapsed = g.groups[gid].collapsed

LEMMA NodeRemoved ==
  ASSUME NEW g, GraphOK(g), NEW n \in DOMAIN g.nodes, NEW h, h = RemoveNode(g, n)
  PROVE  NodeRemovedFrom(g, n, h)
<1>0. PICK pins, links, nodes :
        /\ pins = PinsOf(g, n)
        /\ links = {l \in g.links : l.start \notin pins /\ l.end \notin pins}
        /\ nodes = [m \in DOMAIN g.nodes \ {n} |-> g.nodes[m]]
  OBVIOUS
<1>1. IsGraph(g) /\ NodesOK(g) /\ LinksOK(g) /\ ProbesOK(g) /\ GroupsOK(g)
  BY DEF GraphOK
<1>2. PICK probes : probes = RemoveProbes(g, pins).probes
  OBVIOUS
<1>3. /\ RemoveProbes(g, pins) = [g EXCEPT !.probes = probes]
      /\ probes \in Seq(Nat) /\ IsInjective(probes)
      /\ ToSet(probes) = ToSet(g.probes) \ pins
      /\ ToSet(g.probes) \cap pins = {} => probes = g.probes
  BY <1>1, <1>2, ProbesLeft
<1>4. PICK x : x = RemoveProbes(g, pins)
  OBVIOUS
<1>5. PICK groups : groups = [gid \in DOMAIN g.groups |->
                               [g.groups[gid] EXCEPT !.members = g.groups[gid].members \ {n}]]
  OBVIOUS
<1>6. /\ IsGraph(x) /\ x.nodes = g.nodes /\ x.links = g.links /\ x.probes = probes
      /\ x.groups = g.groups /\ x.nextNode = g.nextNode /\ x.nextPin = g.nextPin
      /\ x.nextLink = g.nextLink /\ x.nextGroup = g.nextGroup /\ x.selected = g.selected
  BY <1>1, <1>3, <1>4 DEF IsGraph, GraphFields
<1>7. PICK u : u = [x EXCEPT
           !.links = {l \in g.links : l.start \notin pins /\ l.end \notin pins},
           !.nodes = [m \in DOMAIN g.nodes \ {n} |-> g.nodes[m]],
           !.groups = [gid \in DOMAIN g.groups |->
                         [g.groups[gid] EXCEPT !.members = @ \ {n}]]]
  OBVIOUS
<1>71. u = [x EXCEPT !.links = links, !.nodes = nodes, !.groups = groups]
  BY <1>0, <1>5, <1>7
<1>72. /\ IsGraph(u) /\ u.nodes = nodes /\ u.links = links /\ u.probes = probes /\ u.groups = groups
       /\ u.nextNode = g.nextNode /\ u.nextPin = g.nextPin /\ u.nextLink = g.nextLink
       /\ u.nextGroup = g.nextGroup /\ u.selected = g.selected
  BY <1>6, <1>71 DEF IsGraph, GraphFields
<1>73. PICK gids : gids = {gid \in DOMAIN g.groups : Cardinality(u.groups[gid].members) < 2}
  OBVIOUS
<1>8. PICK b : b = RebuildCache(DropGroups(u, gids))
  OBVIOUS
<1>9. h = RebuildBoundaries(b)
  BY <1>0, <1>4, <1>7, <1>73, <1>8 DEF RemoveNode
<1>91. DOMAIN groups = DOMAIN g.groups
  BY <1>5
<1>10. /\ IsGraph(b) /\ b.nodes = nodes /\ b.links = links /\ b.probes = probes
       /\ b.groups = [gid \in DOMAIN g.groups \ gids |-> groups[gid]]
       /\ b.selected = (IF g.selected \in gids THEN NoId ELSE g.selected)
       /\ b.cache = CacheOf(b.groups)
       /\ b.nextNode = g.nextNode /\ b.nextPin = g.nextPin /\ b.nextLink = g.nextLink
       /\ b.nextGroup = g.nextGroup
  BY <1>72, <1>8, <1>91 DEF RebuildCache, DropGroups, IsGraph, GraphFields
<1>11. \A gid \in DOMAIN g.groups :
         /\ gid \in Nat /\ gid < g.nextGroup
         /\ g.groups[gid] = [members |-> g.groups[gid].members,
                             collapsed |-> g.groups[gid].collapsed, pins |-> g.groups[gid].pins]
         /\ g.groups[gid].members \subseteq DOMAIN g.nodes /\ Two(g.groups[gid].members)
  BY <1>1 DEF GroupsOK
<1>12. \A gid \in DOMAIN g.groups :
         groups[gid] = [members |-> g.groups[gid].members \ {n},
                        collapsed |-> g.groups[gid].collapsed, pins |-> g.groups[gid].pins]
  <2>1. ASSUME NEW gid \in DOMAIN g.groups
        PROVE  groups[gid] = [members |-> g.groups[gid].members \ {n},
                        collapsed |-> g.groups[gid].collapsed, pins |-> g.groups[gid].pins]
    <3>1. PICK r : r = g.groups[gid]
      OBVIOUS
    <3>2. r = [members |-> r.members, collapsed |-> r.collapsed, pins |-> r.pins]
      BY <1>11, <3>1
    <3>3. groups[gid] = [r EXCEPT !.members = r.members \ {n}]
      BY <1>5, <3>1
    <3> QED BY <3>1, <3>2, <3>3
  <2> QED BY <2>1
<1>13. /\ DOMAIN b.groups = DOMAIN g.groups \ gids
       /\ b.groups = [gid \in DOMAIN b.groups |-> b.groups[gid]]
       /\ \A gid \in DOMAIN b.groups :
            b.groups[gid] = [members |-> g.groups[gid].members \ {n},
                             collapsed |-> g.groups[gid].collapsed, pins |-> g.groups[gid].pins]
  <2>1. /\ DOMAIN b.groups = DOMAIN g.groups \ gids
        /\ b.groups = [gid \in DOMAIN b.groups |-> b.groups[gid]]
        /\ \A gid \in DOMAIN b.groups : b.groups[gid] = groups[gid]
    BY <1>10
  <2>2. \A gid \in DOMAIN b.groups : gid \in DOMAIN g.groups
    BY <2>1
  <2> QED BY <1>12, <2>1, <2>2
<1>131. \A gid \in DOMAIN b.groups :
          /\ gid \in DOMAIN g.groups /\ gid \notin gids
          /\ b.groups[gid].members = g.groups[gid].members \ {n}
          /\ b.groups[gid].collapsed = g.groups[gid].collapsed
          /\ b.groups[gid] = [members |-> b.groups[gid].members,
                   collapsed |-> b.groups[gid].collapsed, pins |-> b.groups[gid].pins]
  <2> TAKE gid \in DOMAIN b.groups
  <2>1. PICK r : r = b.groups[gid]
    OBVIOUS
  <2>2. r = [members |-> g.groups[gid].members \ {n},
             collapsed |-> g.groups[gid].collapsed, pins |-> g.groups[gid].pins]
    BY <1>13, <2>1
  <2>3. /\ r.members = g.groups[gid].members \ {n} /\ r.collapsed = g.groups[gid].collapsed
        /\ r = [members |-> r.members, collapsed |-> r.collapsed, pins |-> r.pins]
    BY <2>2
  <2> QED BY <1>13, <2>1, <2>3
<1>132. \A gid \in DOMAIN g.groups : u.groups[gid].members = g.groups[gid].members \ {n}
  <2> TAKE gid \in DOMAIN g.groups
  <2>1. PICK r : r = groups[gid]
    OBVIOUS
  <2>2. r.members = g.groups[gid].members \ {n}
    <3>1. r = [members |-> g.groups[gid].members \ {n},
               collapsed |-> g.groups[gid].collapsed, pins |-> g.groups[gid].pins]
      BY <1>12, <2>1
    <3> QED BY ONLY <3>1
  <2> QED BY <1>72, <2>1, <2>2
<1>14. /\ DOMAIN b.nodes = DOMAIN g.nodes \ {n}
       /\ \A m \in DOMAIN b.nodes : b.nodes[m] = g.nodes[m]
  BY <1>0, <1>10
<1>15. /\ NodesOK(b) /\ InPins(b) = InPins(g) \ pins /\ OutPins(b) = OutPins(g) \ pins
       /\ \A pin \in InPins(b) \cup OutPins(b) : NodeOf(b, pin) = NodeOf(g, pin)
  BY <1>0, <1>1, <1>10, FewerNodes
<1>16. LinksOK(b)
  <2>1. b.links \subseteq g.links /\ \A l \in b.links : l.start \notin pins /\ l.end \notin pins
    BY <1>0, <1>10
  <2>2. IsFiniteSet(b.links)
    BY <1>1, <2>1, FS_Subset DEF LinksOK
  <2>3. \A l \in b.links : l.start \in OutPins(b) /\ l.end \in InPins(b)
    BY <1>1, <1>15, <2>1 DEF LinksOK
  <2>4. Edges(b) \subseteq Edges(g)
    BY <1>15, <2>1, <2>3 DEF Edges
  <2>5. Acyclic(Edges(b), DOMAIN b.nodes)
    BY <1>1, <1>14, <2>4, FewerEdges DEF LinksOK
  <2> QED BY <1>1, <1>10, <2>1, <2>2, <2>3, <2>5 DEF LinksOK
<1>17. ProbesOK(b)
  BY <1>1, <1>3, <1>10, <1>15 DEF ProbesOK
<1>18. \A gid \in DOMAIN g.groups :
         Cardinality(g.groups[gid].members \ {n}) >= 2 <=> Two(g.groups[gid].members \ {n})
  <2>1. \A gid \in DOMAIN g.groups : g.groups[gid].members \ {n} \in SUBSET DOMAIN g.nodes
    BY <1>11
  <2>2. \A gid \in DOMAIN g.groups : IsFiniteSet(g.groups[gid].members \ {n})
    BY <1>1, <2>1, FiniteNodes
  <2> QED BY <2>2, TwoMembers
<1>19. \A gid \in DOMAIN g.groups : gid \notin gids <=> Two(g.groups[gid].members \ {n})
  <2>1. ASSUME NEW gid \in DOMAIN g.groups
        PROVE  gid \notin gids <=> Two(g.groups[gid].members \ {n})
    <3>1. u.groups[gid].members = g.groups[gid].members \ {n}
      BY <1>132
    <3>2. gid \in gids <=> Cardinality(g.groups[gid].members \ {n}) < 2
      BY <1>73, <3>1
    <3>3. IsFiniteSet(g.groups[gid].members \ {n})
      BY <1>1, <1>11, FiniteNodes
    <3>4. Cardinality(g.groups[gid].members \ {n}) \in Nat
      BY <3>3, FS_CardinalityType
    <3> QED BY <1>18, <3>2, <3>4
  <2> QED BY <2>1
<1>20. GroupsOK(b)
  <2>1. b.groups = [gid \in DOMAIN b.groups |->
                   [members   |-> b.groups[gid].members,
                    collapsed |-> b.groups[gid].collapsed, pins |-> b.groups[gid].pins]]
    BY <1>13, <1>131
  <2>2. ASSUME NEW gid \in DOMAIN b.groups
        PROVE  /\ gid < b.nextGroup
               /\ b.groups[gid].members \subseteq DOMAIN b.nodes
               /\ Two(b.groups[gid].members)
    <3>1. gid \in DOMAIN g.groups /\ gid \notin gids /\ b.groups[gid].members = g.groups[gid].members \ {n}
      BY <1>131
    <3> QED BY <1>10, <1>11, <1>14, <1>19, <3>1
  <2>3. \A i, j \in DOMAIN b.groups :
         i # j => b.groups[i].members \cap b.groups[j].members = {}
    <3>1. \A i \in DOMAIN b.groups : b.groups[i].members \subseteq g.groups[i].members
      BY <1>131
    <3>2. \A i, j \in DOMAIN g.groups :
         i # j => g.groups[i].members \cap g.groups[j].members = {}
      BY <1>1 DEF GroupsOK
    <3> QED BY <1>13, <3>1, <3>2
  <2>4. b.nextGroup \in Nat /\ DOMAIN b.groups \subseteq Nat
    BY <1>1, <1>10, <1>13 DEF GroupsOK
  <2>5. b.selected \in DOMAIN b.groups \cup {NoId}
    BY <1>1, <1>10, <1>13 DEF GroupsOK
  <2> QED BY <1>10, <2>1, <2>2, <2>3, <2>4, <2>5 DEF GroupsOK
<1>21. GraphOK(b)
  BY <1>10, <1>15, <1>16, <1>17, <1>20 DEF GraphOK
<1>22. /\ GraphOK(h) /\ BoundariesOK(h)
       /\ h.nodes = b.nodes /\ h.links = b.links /\ h.probes = b.probes
       /\ h.cache = b.cache /\ h.selected = b.selected
       /\ h.nextNode = b.nextNode /\ h.nextPin = b.nextPin /\ h.nextLink = b.nextLink
       /\ h.nextGroup = b.nextGroup
       /\ DOMAIN h.groups = DOMAIN b.groups
       /\ \A gid \in DOMAIN b.groups :
            /\ h.groups[gid].members = b.groups[gid].members
            /\ h.groups[gid].collapsed = b.groups[gid].collapsed
  BY <1>9, <1>21, BoundariesRebuilt
<1>23. ASSUME \A gid \in DOMAIN g.groups : n \notin g.groups[gid].members
       PROVE  /\ DOMAIN h.groups = DOMAIN g.groups /\ h.cache = g.cache /\ h.selected = g.selected
              /\ \A gid \in DOMAIN g.groups :
                   /\ h.groups[gid].members = g.groups[gid].members
                   /\ h.groups[gid].collapsed = g.groups[gid].collapsed
  <2>1. \A gid \in DOMAIN g.groups : g.groups[gid].members \ {n} = g.groups[gid].members
    BY <1>23
  <2>2. \A gid \in DOMAIN g.groups : gid \notin gids
    BY <1>11, <1>19, <2>1
  <2>3. DOMAIN b.groups = DOMAIN g.groups
    BY <1>13, <2>2
  <2>4. \A gid \in DOMAIN g.groups : /\ b.groups[gid].members = g.groups[gid].members
                                     /\ b.groups[gid].collapsed = g.groups[gid].collapsed
    BY <1>131, <2>1, <2>3
  <2>5. CacheOf(b.groups) = CacheOf(g.groups)
    BY <2>3, <2>4, SameCache
  <2>6. b.selected = g.selected
    BY <1>73, <1>10, <2>2
  <2> QED BY <1>1, <1>10, <1>22, <2>3, <2>4, <2>5, <2>6, ZenonT(30) DEF GroupsOK
<1> QED BY <1>0, <1>3, <1>10, <1>22, <1>23 DEF NodeRemovedFrom

-----------------------------------------------------------------------------
(* Replacing a node *)

\* remapNodeReferences, from a node to one that nothing refers to yet
LEMMA NodeRemapped ==
  ASSUME NEW g, GraphOK(g), NEW old \in DOMAIN g.nodes, NEW new \in DOMAIN g.nodes, old # new,
         NEW map, DOMAIN map \subseteq PinsOf(g, old),
         \A pin \in DOMAIN map : map[pin] \in PinsOf(g, new),
         \A p, q \in DOMAIN map : map[p] = map[q] => p = q,
         ToSet(g.probes) \cap PinsOf(g, old) \subseteq DOMAIN map,
         ToSet(g.probes) \cap PinsOf(g, new) = {},
         \A gid \in DOMAIN g.groups : new \notin g.groups[gid].members,
         NEW h, h = RemapNode(g, old, new, map)
  PROVE  /\ GraphOK(h)
         /\ h.nodes = g.nodes /\ h.links = g.links
         /\ h.nextNode = g.nextNode /\ h.nextPin = g.nextPin /\ h.nextLink = g.nextLink
         /\ h.nextGroup = g.nextGroup /\ h.selected = g.selected
         /\ ToSet(h.probes) \cap PinsOf(g, old) = {}
         /\ DOMAIN h.probes = DOMAIN g.probes
         /\ \A i \in DOMAIN g.probes :
              h.probes[i] = IF g.probes[i] \in DOMAIN map THEN map[g.probes[i]] ELSE g.probes[i]
         /\ DOMAIN h.groups = DOMAIN g.groups
         /\ \A gid \in DOMAIN g.groups :
              /\ old \notin h.groups[gid].members
              /\ h.groups[gid].members = {IF m = old THEN new ELSE m : m \in g.groups[gid].members}
<1>1. IsGraph(g) /\ NodesOK(g) /\ LinksOK(g) /\ ProbesOK(g) /\ GroupsOK(g)
  BY DEF GraphOK
<1>2. PICK probes, groups :
        /\ probes = [i \in DOMAIN g.probes |-> IF g.probes[i] \in DOMAIN map THEN map[g.probes[i]]
                                               ELSE g.probes[i]]
        /\ groups = [gid \in DOMAIN g.groups |-> RemapMembers(g.groups[gid], old, new)]
  OBVIOUS
<1>3. /\ IsGraph(h) /\ h.nodes = g.nodes /\ h.links = g.links /\ h.probes = probes
      /\ h.groups = groups /\ h.cache = CacheOf(groups)
      /\ h.nextNode = g.nextNode /\ h.nextPin = g.nextPin /\ h.nextLink = g.nextLink
      /\ h.nextGroup = g.nextGroup /\ h.selected = g.selected
  BY <1>1, <1>2 DEF RemapNode, Mapped, RebuildCache, IsGraph, GraphFields
<1>4. /\ DOMAIN probes = DOMAIN g.probes
      /\ \A i \in DOMAIN g.probes :
           probes[i] = IF g.probes[i] \in DOMAIN map THEN map[g.probes[i]] ELSE g.probes[i]
  BY <1>2
<1>5. \A i \in DOMAIN g.probes :
        /\ g.probes[i] \in InPins(g) \cup OutPins(g) /\ g.probes[i] \in Nat
        /\ g.probes[i] \notin PinsOf(g, new)
        /\ g.probes[i] \in PinsOf(g, old) => g.probes[i] \in DOMAIN map
  BY <1>1 DEF ProbesOK, ToSet
<1>6. /\ \A pin \in PinsOf(g, new) : pin \in Nat /\ pin \in InPins(g) \cup OutPins(g)
      /\ PinsOf(g, old) \cap PinsOf(g, new) = {}
  BY <1>1, LivePin DEF NodesOK
<1>7. \A i \in DOMAIN g.probes :
        /\ probes[i] \in InPins(g) \cup OutPins(g) /\ probes[i] \in Nat
        /\ probes[i] \notin PinsOf(g, old)
  BY <1>4, <1>5, <1>6
<1>8. probes \in Seq(Nat)
  <2>1. g.probes \in Seq(Nat)
    BY <1>1 DEF ProbesOK
  <2>2. Len(g.probes) \in Nat /\ DOMAIN g.probes = 1..Len(g.probes)
    BY <2>1
  <2>3. probes \in [1..Len(g.probes) -> Nat]
    BY <1>2, <1>4, <1>7, <2>2
  <2> QED BY <2>2, <2>3
<1>9. IsInjective(probes)
  <2> SUFFICES ASSUME NEW i \in DOMAIN g.probes, NEW j \in DOMAIN g.probes, probes[i] = probes[j]
               PROVE  i = j
    BY <1>4 DEF IsInjective
  <2>1. g.probes[i] = g.probes[j]
    BY <1>4, <1>5
  <2> QED BY <1>1, <2>1 DEF ProbesOK, IsInjective
<1>10. ToSet(probes) \subseteq InPins(g) \cup OutPins(g) /\ ToSet(probes) \cap PinsOf(g, old) = {}
  BY <1>4, <1>7 DEF ToSet
<1>11. DOMAIN groups = DOMAIN g.groups
  BY <1>2
<1>12. \A gid \in DOMAIN g.groups :
         /\ groups[gid] = [members |-> groups[gid].members, collapsed |-> groups[gid].collapsed,
                           pins |-> groups[gid].pins]
         /\ groups[gid].members = {IF m = old THEN new ELSE m : m \in g.groups[gid].members}
  <2> TAKE gid \in DOMAIN g.groups
  <2>1. PICK r : r = g.groups[gid]
    OBVIOUS
  <2>2. r = [members |-> r.members, collapsed |-> r.collapsed, pins |-> r.pins]
    BY <1>1, <2>1 DEF GroupsOK
  <2>3. PICK S : S = {IF m = old THEN new ELSE m : m \in r.members}
    OBVIOUS
  <2>4. groups[gid] = [r EXCEPT !.members = S]
    BY <1>2, <2>1, <2>3 DEF RemapMembers
  <2>5. groups[gid] = [members |-> S, collapsed |-> r.collapsed, pins |-> r.pins]
    BY <2>2, <2>4
  <2> QED BY <2>1, <2>3, <2>5
<1>13. ASSUME NEW gid \in DOMAIN g.groups, NEW m
       PROVE  m \in groups[gid].members <=>
                \/ m \in g.groups[gid].members /\ m # old
                \/ m = new /\ old \in g.groups[gid].members
  <2>1. PICK S, T : S = groups[gid].members /\ T = g.groups[gid].members
    OBVIOUS
  <2>2. S = {IF x = old THEN new ELSE x : x \in T}
    BY <1>12, <2>1
  <2>3. m \in S <=> \E x \in T : m = IF x = old THEN new ELSE x
    BY <2>2
  <2>4. m \in S <=> (m \in T /\ m # old) \/ (m = new /\ old \in T)
    BY <2>3
  <2> QED BY <2>1, <2>4
<1>14. GroupsOK(h)
  <2>1. ASSUME NEW gid \in DOMAIN g.groups
        PROVE  /\ gid < h.nextGroup
               /\ groups[gid].members \subseteq DOMAIN g.nodes
               /\ Two(groups[gid].members)
    <3>1. g.groups[gid].members \subseteq DOMAIN g.nodes /\ Two(g.groups[gid].members)
          /\ gid < g.nextGroup
      BY <1>1 DEF GroupsOK
    <3>2. PICK a \in g.groups[gid].members, b \in g.groups[gid].members : a # b
      BY <3>1 DEF Two
    <3>3. CASE a = old
      <4>1. b \in groups[gid].members /\ new \in groups[gid].members /\ b # new
        BY <1>13, <3>2, <3>3
      <4> QED BY <1>3, <1>13, <3>1, <4>1 DEF Two
    <3>4. CASE b = old
      <4>1. a \in groups[gid].members /\ new \in groups[gid].members /\ a # new
        BY <1>13, <3>2, <3>4
      <4> QED BY <1>3, <1>13, <3>1, <4>1 DEF Two
    <3>5. CASE a # old /\ b # old
      <4>1. a \in groups[gid].members /\ b \in groups[gid].members
        BY <1>13, <3>2, <3>5
      <4> QED BY <1>3, <1>13, <3>1, <3>2, <4>1 DEF Two
    <3> QED BY <3>3, <3>4, <3>5
  <2>2. ASSUME NEW i \in DOMAIN g.groups, NEW j \in DOMAIN g.groups, i # j
        PROVE  groups[i].members \cap groups[j].members = {}
    <3>1. g.groups[i].members \cap g.groups[j].members = {}
      BY <1>1, <2>2 DEF GroupsOK
    <3>2. new \notin g.groups[i].members /\ new \notin g.groups[j].members
      OBVIOUS
    <3> QED BY <1>13, <3>1, <3>2
  <2>3. groups = [gid \in DOMAIN groups |->
                   [members   |-> groups[gid].members,
                    collapsed |-> groups[gid].collapsed, pins |-> groups[gid].pins]]
    BY <1>2, <1>11, <1>12
  <2>4. /\ h.nextGroup \in Nat /\ DOMAIN groups \subseteq Nat
        /\ h.selected \in DOMAIN groups \cup {NoId}
    BY <1>1, <1>3, <1>11 DEF GroupsOK
  <2> QED BY <1>3, <1>11, <2>1, <2>2, <2>3, <2>4 DEF GroupsOK
<1>15. NodesOK(h) /\ LinksOK(h)
  BY <1>3, SameButGroups
<1>16. ProbesOK(h)
  <2>1. InPins(h) = InPins(g) /\ OutPins(h) = OutPins(g)
    BY <1>3, SameNodes
  <2> QED BY <1>3, <1>8, <1>9, <1>10, <2>1 DEF ProbesOK
<1>17. \A gid \in DOMAIN g.groups : old \notin groups[gid].members
  BY <1>13
<1> QED BY <1>3, <1>4, <1>10, <1>11, <1>12, <1>14, <1>15, <1>16, <1>17 DEF GraphOK

\* What an edit that is taken back leaves as it was
SameButCounters(g, h) ==
  /\ h.nodes = g.nodes /\ h.links = g.links /\ h.probes = g.probes
  /\ h.cache = g.cache /\ h.selected = g.selected
  /\ h.nextNode >= g.nextNode /\ h.nextPin >= g.nextPin
  /\ DOMAIN h.groups = DOMAIN g.groups
  /\ \A gid \in DOMAIN g.groups : /\ h.groups[gid].members = g.groups[gid].members
                                  /\ h.groups[gid].collapsed = g.groups[gid].collapsed

\* A node that nothing refers to leaves no trace but in the counters.
LEMMA AddedThenRemoved ==
  ASSUME NEW g, GraphOK(g), NEW inputs \in Nat, NEW outputs \in Nat,
         NEW h, h = RemoveNode(AddNode(g, inputs, outputs), g.nextNode)
  PROVE  GraphOK(h) /\ BoundariesOK(h) /\ SameButCounters(g, h)
<1>1. PICK a, new : a = AddNode(g, inputs, outputs) /\ new = g.nextNode
  OBVIOUS
<1>2. /\ SameBeside(g, a) /\ new \notin DOMAIN g.nodes
      /\ DOMAIN a.nodes = DOMAIN g.nodes \cup {new}
      /\ \A m \in DOMAIN g.nodes : a.nodes[m] = g.nodes[m] /\ PinsOf(a, m) = PinsOf(g, m)
      /\ a.nextNode = new + 1 /\ a.nextPin = g.nextPin + inputs + outputs
      /\ \A pin \in PinsOf(a, new) : pin \in Nat /\ pin >= g.nextPin
  BY <1>1, NodeAdded, SMTT(30)
<1>3. GraphOK(a)
  BY <1>1, NodeAddedKeeps
<1>4. \A pin \in InPins(g) \cup OutPins(g) : pin \notin PinsOf(a, new)
  <2> SUFFICES ASSUME NEW pin \in InPins(g) \cup OutPins(g), pin \in PinsOf(a, new) PROVE FALSE
    OBVIOUS
  <2>1. pin \in Nat /\ pin < g.nextPin /\ g.nextPin \in Nat
    BY InPinOf, OutPinOf DEF GraphOK, NodesOK
  <2> QED BY <1>2, <2>1
<1>5. \A gid \in DOMAIN a.groups : new \notin a.groups[gid].members
  BY <1>2 DEF GraphOK, GroupsOK, SameBeside
<1>6. ToSet(a.probes) \cap PinsOf(a, new) = {}
  BY <1>2, <1>4 DEF GraphOK, ProbesOK, SameBeside
<1>7. /\ GraphOK(h) /\ BoundariesOK(h)
      /\ h.nodes = [m \in DOMAIN a.nodes \ {new} |-> a.nodes[m]]
      /\ h.links = {l \in a.links : l.start \notin PinsOf(a, new) /\ l.end \notin PinsOf(a, new)}
      /\ h.nextNode = a.nextNode /\ h.nextPin = a.nextPin /\ h.nextLink = a.nextLink
      /\ h.nextGroup = a.nextGroup /\ h.probes = a.probes
      /\ DOMAIN h.groups = DOMAIN a.groups /\ h.cache = a.cache /\ h.selected = a.selected
      /\ \A gid \in DOMAIN a.groups :
           /\ h.groups[gid].members = a.groups[gid].members
           /\ h.groups[gid].collapsed = a.groups[gid].collapsed
  <2>1. GraphOK(a) /\ new \in DOMAIN a.nodes /\ h = RemoveNode(a, new)
    BY <1>1, <1>2, <1>3
  <2> QED BY <1>5, <1>6, <2>1, NodeRemoved DEF NodeRemovedFrom
<1>8. h.nodes = g.nodes
  <2>1. g.nodes = [m \in DOMAIN g.nodes |-> g.nodes[m]]
    BY DEF GraphOK, NodesOK
  <2>2. DOMAIN a.nodes \ {new} = DOMAIN g.nodes
    BY <1>2
  <2> QED BY <1>2, <1>7, <2>1, <2>2
<1>9. h.links = g.links
  <2>1. \A l \in g.links : l.start \notin PinsOf(a, new) /\ l.end \notin PinsOf(a, new)
    BY <1>4 DEF GraphOK, LinksOK
  <2> QED BY <1>2, <1>7, <2>1 DEF SameBeside
<1>10. h.nextNode >= g.nextNode /\ h.nextPin >= g.nextPin
  <2>1. g.nextNode \in Nat /\ g.nextPin \in Nat
    BY DEF GraphOK, NodesOK
  <2> QED BY <1>1, <1>2, <1>7, <2>1
<1> QED BY <1>2, <1>7, <1>8, <1>9, <1>10 DEF SameBeside, SameButCounters


-----------------------------------------------------------------------------
(* What a circuit is *)

IsCircuit(c) == DOMAIN c = {"graph", "comps", "wiring", "nextCid", "epoch"}

CompsOK(c) ==
  /\ DOMAIN c.comps = DOMAIN c.graph.nodes
  /\ c.comps = [n \in DOMAIN c.comps |-> c.comps[n]]
  /\ \A n \in DOMAIN c.comps : c.comps[n].type \in Types

PolicyOK(c) == \A l \in c.graph.links : GraphLinkAllowed(c, l.start, l.end)

\* An input reads the output it is linked to.
Reads(c, pin) ==
  \/ c.wiring[pin] = NoId /\ \A l \in c.graph.links : l.end # pin
  \/ \E l \in c.graph.links : l.end = pin /\ l.start = c.wiring[pin]
WiringOK(c) ==
  /\ DOMAIN c.wiring = InPins(c.graph)
  /\ \A pin \in InPins(c.graph) : Reads(c, pin)

CircuitOK(c) == IsCircuit(c) /\ GraphOK(c.graph) /\ CompsOK(c) /\ PolicyOK(c) /\ WiringOK(c)
Bounded(c) == BoundariesOK(c.graph)

-----------------------------------------------------------------------------
(* The policy of the links, and the wiring *)

LEMMA SamePolicy ==
  ASSUME NEW c, NEW d, NEW start, NEW end,
         NodeOf(d.graph, start) = NodeOf(c.graph, start), NodeOf(d.graph, end) = NodeOf(c.graph, end),
         \A n \in {NodeOf(c.graph, start), NodeOf(c.graph, end)} :
           d.graph.nodes[n] = c.graph.nodes[n] /\ d.comps[n].type = c.comps[n].type
  PROVE  GraphLinkAllowed(d, start, end) <=> GraphLinkAllowed(c, start, end)
BY DEF GraphLinkAllowed, TypeOfPin

\* A circuit of the same nodes and components has the same policy.
LEMMA PolicyOfNodes ==
  ASSUME NEW c, NEW d, d.graph.nodes = c.graph.nodes, d.comps = c.comps
  PROVE  \A start, end : GraphLinkAllowed(d, start, end) <=> GraphLinkAllowed(c, start, end)
<1> TAKE start, end
<1>1. \A pin : NodeOf(d.graph, pin) = NodeOf(c.graph, pin)
  BY SameNodes
<1> QED BY <1>1, SamePolicy

LEMMA LeastLink ==
  ASSUME NEW links, links # {}, \A l \in links : l.id \in Nat
  PROVE  \E l \in links : \A m \in links : l.id <= m.id
<1>1. {l.id : l \in links} \in SUBSET Nat /\ {l.id : l \in links} # {}
  OBVIOUS
<1>2. PICK k \in {l.id : l \in links} : \A m \in {l.id : l \in links} : k <= m
  BY <1>1, Least
<1> QED BY <1>2

LEMMA Rewired ==
  ASSUME NEW c, IsCircuit(c), GraphOK(c.graph), CompsOK(c), PolicyOK(c), NEW d, d = Rewire(c)
  PROVE  /\ CircuitOK(d) /\ d.graph = c.graph /\ d.comps = c.comps
         /\ d.nextCid = c.nextCid /\ d.epoch = c.epoch
<1> DEFINE into(pin) == {l \in c.graph.links : l.end = pin /\ l.start \in OutPins(c.graph)}
           first(pin) == CHOOSE l \in into(pin) : \A m \in into(pin) : l.id <= m.id
<1>1. PICK wiring : wiring = [pin \in InPins(c.graph) |->
         IF into(pin) # {} /\ GraphLinkAllowed(c, first(pin).start, pin)
         THEN first(pin).start ELSE NoId]
  OBVIOUS
<1>2. d = [c EXCEPT !.wiring = wiring]
  BY <1>1 DEF Rewire
<1>3. /\ IsCircuit(d) /\ d.graph = c.graph /\ d.comps = c.comps /\ d.wiring = wiring
      /\ d.nextCid = c.nextCid /\ d.epoch = c.epoch
  BY <1>2 DEF IsCircuit
<1>4. PolicyOK(d)
  BY <1>3, PolicyOfNodes DEF PolicyOK
<1>5. ASSUME NEW pin \in InPins(c.graph) PROVE Reads(d, pin)
  <2>1. \A l \in c.graph.links : l.end = pin => l \in into(pin)
    BY DEF GraphOK, LinksOK
  <2>2. CASE into(pin) = {}
    <3>1. wiring[pin] = NoId
      BY <1>1, <2>2
    <3> QED BY <1>3, <2>1, <2>2, <3>1 DEF Reads
  <2>3. CASE into(pin) # {}
    <3>1. \A l \in into(pin) : l.id \in Nat /\ l \in c.graph.links /\ l.end = pin
      BY DEF GraphOK, LinksOK
    <3>2. \E l \in into(pin) : \A m \in into(pin) : l.id <= m.id
      BY <2>3, <3>1, LeastLink
    <3>3. first(pin) \in into(pin)
      BY <3>2
    <3> HIDE DEF first
    <3>4. GraphLinkAllowed(c, first(pin).start, pin)
      BY <3>1, <3>3 DEF PolicyOK
    <3>5. wiring[pin] = first(pin).start
      BY <1>1, <2>3, <3>4
    <3> QED BY <1>3, <3>1, <3>3, <3>5 DEF Reads
  <2> QED BY <2>2, <2>3
<1>6. WiringOK(d)
  BY <1>1, <1>3, <1>5 DEF WiringOK
<1> QED BY <1>3, <1>4, <1>6 DEF CircuitOK, CompsOK

-----------------------------------------------------------------------------
(* Components *)

\* d is c with one more component.
IsCreated(c, d, type, cid, who) ==
  /\ CircuitOK(d) /\ (Bounded(c) => Bounded(d))
  /\ d.graph = AddNode(c.graph, Ports[type].ins, Ports[type].outs)
  /\ c.graph.nextNode \notin DOMAIN c.comps /\ c.graph.nextNode \in Nat
  /\ DOMAIN d.comps = DOMAIN c.comps \cup {c.graph.nextNode}
  /\ d.comps[c.graph.nextNode] = [type |-> type, cid |-> cid, who |-> who]
  /\ \A m \in DOMAIN c.comps : d.comps[m] = c.comps[m]
  /\ d.epoch = c.epoch

LEMMA Created ==
  ASSUME NEW c, CircuitOK(c), NEW type \in Types, NEW cid, NEW who,
         NEW d, d = Create(c, type, cid, who)
  PROVE  IsCreated(c, d, type, cid, who)
<1>0. PICK new : new = c.graph.nextNode
  OBVIOUS
<1>1. PICK g : g = AddNode(c.graph, Ports[type].ins, Ports[type].outs)
  OBVIOUS
<1>2. PICK comps, wiring :
        /\ comps = [m \in DOMAIN c.comps \cup {new} |->
                      IF m = new THEN [type |-> type, cid |-> cid, who |-> who] ELSE c.comps[m]]
        /\ wiring = [p \in DOMAIN c.wiring \cup ToSet(g.nodes[new].ins) |->
                       IF p \in ToSet(g.nodes[new].ins) THEN NoId ELSE c.wiring[p]]
  OBVIOUS
<1>3. d = [c EXCEPT !.graph = g, !.comps = comps, !.wiring = wiring]
  BY <1>0, <1>1, <1>2 DEF Create
<1>4. /\ IsCircuit(d) /\ d.graph = g /\ d.comps = comps /\ d.wiring = wiring
      /\ d.nextCid = c.nextCid /\ d.epoch = c.epoch
  BY <1>3 DEF IsCircuit, CircuitOK
<1>5. /\ NodesOK(g) /\ SameBeside(c.graph, g) /\ new \in Nat /\ new \notin DOMAIN c.graph.nodes
      /\ DOMAIN g.nodes = DOMAIN c.graph.nodes \cup {new}
      /\ \A m \in DOMAIN c.graph.nodes : g.nodes[m] = c.graph.nodes[m]
      /\ \A pin \in PinsOf(g, new) : pin \in Nat /\ pin >= c.graph.nextPin
  BY <1>0, <1>1, NodeAdded, PortsAssumption, SMTT(30) DEF CircuitOK
<1>6. /\ GraphOK(g) /\ (BoundariesOK(c.graph) => BoundariesOK(g))
      /\ InPins(g) = InPins(c.graph) \cup ToSet(g.nodes[new].ins)
      /\ \A pin \in InPins(c.graph) \cup OutPins(c.graph) : NodeOf(g, pin) = NodeOf(c.graph, pin)
  BY <1>0, <1>1, NodeAddedKeeps, PortsAssumption, SMTT(30) DEF CircuitOK
<1>7. CompsOK(d)
  BY <1>2, <1>4, <1>5 DEF CompsOK, CircuitOK
<1>8. PolicyOK(d)
  <2> SUFFICES ASSUME NEW l \in c.graph.links PROVE GraphLinkAllowed(d, l.start, l.end)
    BY <1>4, <1>5 DEF PolicyOK, SameBeside
  <2>1. l.start \in OutPins(c.graph) /\ l.end \in InPins(c.graph)
    BY DEF CircuitOK, GraphOK, LinksOK
  <2>2. NodeOf(c.graph, l.start) \in DOMAIN c.graph.nodes /\ NodeOf(c.graph, l.end) \in DOMAIN c.graph.nodes
    BY <2>1, InPinOf, OutPinOf DEF CircuitOK, GraphOK
  <2>3. \A m \in DOMAIN c.graph.nodes : comps[m] = c.comps[m]
    BY <1>2, <1>5 DEF CircuitOK, CompsOK
  <2>4. GraphLinkAllowed(c, l.start, l.end)
    BY DEF CircuitOK, PolicyOK
  <2> QED BY <1>4, <1>5, <1>6, <2>1, <2>2, <2>3, <2>4, SamePolicy
<1>9. WiringOK(d)
  <2>1. DOMAIN wiring = InPins(g)
    BY <1>2, <1>6 DEF CircuitOK, WiringOK
  <2>2. ASSUME NEW pin \in ToSet(g.nodes[new].ins) PROVE Reads(d, pin)
    <3>1. wiring[pin] = NoId
      BY <1>2
    <3>2. pin \in Nat /\ pin >= c.graph.nextPin
      BY <1>5 DEF PinsOf
    <3>3. \A l \in c.graph.links : l.end \in Nat /\ l.end < c.graph.nextPin
      BY InPinOf DEF CircuitOK, GraphOK, LinksOK
    <3>4. \A l \in c.graph.links : l.end # pin
      BY <3>2, <3>3 DEF CircuitOK, GraphOK, NodesOK
    <3> QED BY <1>4, <1>5, <3>1, <3>4 DEF Reads, SameBeside
  <2>3. ASSUME NEW pin \in InPins(c.graph), pin \notin ToSet(g.nodes[new].ins) PROVE Reads(d, pin)
    <3>1. wiring[pin] = c.wiring[pin]
      BY <1>2, <2>3 DEF CircuitOK, WiringOK
    <3>2. Reads(c, pin)
      BY DEF CircuitOK, WiringOK
    <3> QED BY <1>4, <1>5, <3>1, <3>2 DEF Reads, SameBeside
  <2> QED BY <1>4, <1>6, <2>1, <2>2, <2>3 DEF WiringOK
<1>10. /\ DOMAIN comps = DOMAIN c.comps \cup {new} /\ new \notin DOMAIN c.comps
       /\ comps[new] = [type |-> type, cid |-> cid, who |-> who]
       /\ \A m \in DOMAIN c.comps : comps[m] = c.comps[m]
  BY <1>2, <1>5 DEF CircuitOK, CompsOK
<1>11. CircuitOK(d)
  BY <1>4, <1>6, <1>7, <1>8, <1>9 DEF CircuitOK
<1> QED BY <1>0, <1>1, <1>4, <1>5, <1>6, <1>10, <1>11 DEF Bounded, IsCreated

LEMMA CounterAdvanced ==
  ASSUME NEW c, CircuitOK(c), NEW cid
  PROVE  LET d == [c EXCEPT !.nextCid = cid]
         IN  /\ CircuitOK(d) /\ d.graph = c.graph /\ d.comps = c.comps /\ d.wiring = c.wiring
             /\ d.epoch = c.epoch
<1>1. PICK d : d = [c EXCEPT !.nextCid = cid]
  OBVIOUS
<1>2. /\ IsCircuit(d) /\ d.graph = c.graph /\ d.comps = c.comps /\ d.wiring = c.wiring
      /\ d.epoch = c.epoch
  BY <1>1 DEF CircuitOK, IsCircuit
<1>3. PolicyOK(d)
  BY <1>2, PolicyOfNodes DEF PolicyOK, CircuitOK
<1> QED BY <1>1, <1>2, <1>3 DEF CircuitOK, CompsOK, WiringOK, Reads

LEMMA Removed ==
  ASSUME NEW c, CircuitOK(c), NEW n \in DOMAIN c.comps, NEW d, d = RemoveComponent(c, n)
  PROVE  /\ CircuitOK(d) /\ Bounded(d)
         /\ d.graph = RemoveNode(c.graph, n)
         /\ d.comps = [m \in DOMAIN c.comps \ {n} |-> c.comps[m]]
         /\ d.nextCid = c.nextCid /\ d.epoch = c.epoch
<1>1. PICK g, comps : g = RemoveNode(c.graph, n) /\ comps = [m \in DOMAIN c.comps \ {n} |-> c.comps[m]]
  OBVIOUS
<1>2. PICK x : x = [c EXCEPT !.graph = g, !.comps = comps]
  OBVIOUS
<1>3. d = Rewire(x)
  BY <1>1, <1>2 DEF RemoveComponent
<1>4. IsCircuit(x) /\ x.graph = g /\ x.comps = comps /\ x.nextCid = c.nextCid /\ x.epoch = c.epoch
  BY <1>2 DEF IsCircuit, CircuitOK
<1>5. n \in DOMAIN c.graph.nodes
  BY DEF CircuitOK, CompsOK
<1>6. /\ GraphOK(g) /\ BoundariesOK(g)
      /\ g.nodes = [m \in DOMAIN c.graph.nodes \ {n} |-> c.graph.nodes[m]]
      /\ g.links = {l \in c.graph.links : l.start \notin PinsOf(c.graph, n) /\ l.end \notin PinsOf(c.graph, n)}
      /\ g.nextNode = c.graph.nextNode /\ g.nextPin = c.graph.nextPin
  BY <1>1, <1>5, NodeRemoved DEF CircuitOK, NodeRemovedFrom
<1>7. CompsOK(x)
  BY <1>1, <1>4, <1>6 DEF CompsOK, CircuitOK
<1>8. PolicyOK(x)
  <2> SUFFICES ASSUME NEW l \in g.links PROVE GraphLinkAllowed(x, l.start, l.end)
    BY <1>4 DEF PolicyOK
  <2>1. /\ l \in c.graph.links /\ l.start \in OutPins(g) /\ l.end \in InPins(g)
    BY <1>6 DEF GraphOK, LinksOK
  <2>2. \A pin \in InPins(g) \cup OutPins(g) : NodeOf(g, pin) = NodeOf(c.graph, pin)
    BY <1>5, <1>6, FewerNodes DEF CircuitOK, GraphOK
  <2>3. NodeOf(g, l.start) \in DOMAIN g.nodes /\ NodeOf(g, l.end) \in DOMAIN g.nodes
    BY <1>6, <2>1, InPinOf, OutPinOf DEF GraphOK
  <2>4. \A m \in DOMAIN g.nodes : g.nodes[m] = c.graph.nodes[m] /\ comps[m] = c.comps[m]
    BY <1>1, <1>6 DEF CircuitOK, CompsOK
  <2>5. GraphLinkAllowed(c, l.start, l.end)
    BY <2>1 DEF CircuitOK, PolicyOK
  <2> QED BY <1>4, <2>1, <2>2, <2>3, <2>4, <2>5, SamePolicy
<1> QED BY <1>1, <1>3, <1>4, <1>6, <1>7, <1>8, Rewired DEF Bounded

\* A graph of the same nodes and links
LEMMA GraphReplaced ==
  ASSUME NEW c, CircuitOK(c), NEW g, GraphOK(g), g.nodes = c.graph.nodes, g.links = c.graph.links,
         NEW d, d = [c EXCEPT !.graph = g]
  PROVE  /\ CircuitOK(d) /\ d.graph = g /\ d.comps = c.comps /\ d.nextCid = c.nextCid
         /\ d.epoch = c.epoch
<1>1. /\ IsCircuit(d) /\ d.graph = g /\ d.comps = c.comps /\ d.nextCid = c.nextCid
      /\ d.epoch = c.epoch /\ d.wiring = c.wiring
  BY DEF CircuitOK, IsCircuit
<1>2. PolicyOK(d)
  BY <1>1, PolicyOfNodes DEF PolicyOK, CircuitOK
<1>3. WiringOK(d)
  BY <1>1, SameNodes DEF CircuitOK, WiringOK, Reads
<1> QED BY <1>1, <1>2, <1>3 DEF CircuitOK, CompsOK

LEMMA TopologySettled ==
  ASSUME NEW c, CircuitOK(c), NEW d, d = TopologyChanged(c)
  PROVE  /\ CircuitOK(d) /\ Bounded(d) /\ d.graph = RebuildBoundaries(c.graph)
         /\ d.comps = c.comps /\ d.nextCid = c.nextCid /\ d.epoch = c.epoch
<1>1. PICK g : g = RebuildBoundaries(c.graph)
  OBVIOUS
<1>2. GraphOK(g) /\ BoundariesOK(g) /\ g.nodes = c.graph.nodes /\ g.links = c.graph.links
  BY <1>1, BoundariesRebuilt DEF CircuitOK
<1>3. d = [c EXCEPT !.graph = g]
  BY <1>1 DEF TopologyChanged
<1> QED BY <1>1, <1>2, <1>3, GraphReplaced DEF Bounded

-----------------------------------------------------------------------------
(* Links *)

LEMMA Connected ==
  ASSUME NEW c, CircuitOK(c), NEW start, NEW end, CanConnect(c, start, end),
         NEW d, d = Connect(c, start, end)
  PROVE  /\ CircuitOK(d) /\ d.graph = AddLink(c.graph, start, end)
         /\ d.comps = c.comps /\ d.nextCid = c.nextCid /\ d.epoch = c.epoch
<1>1. PICK g, x : g = AddLink(c.graph, start, end) /\ x = [c EXCEPT !.graph = g]
  OBVIOUS
<1>2. IsCircuit(x) /\ x.graph = g /\ x.comps = c.comps /\ x.nextCid = c.nextCid /\ x.epoch = c.epoch
  BY <1>1 DEF CircuitOK, IsCircuit
<1>3. /\ GraphOK(g) /\ g.nodes = c.graph.nodes
      /\ g.links = c.graph.links \cup {[id |-> c.graph.nextLink, start |-> start, end |-> end]}
  BY <1>1, LinkAdded DEF CanConnect, AddLink, CircuitOK, GraphOK, IsGraph, GraphFields
<1>4. PolicyOK(x)
  BY <1>2, <1>3, PolicyOfNodes DEF PolicyOK, CircuitOK, CanConnect
<1>5. d = Rewire(x)
  BY <1>1 DEF Connect
<1>6. CompsOK(x)
  BY <1>2, <1>3 DEF CircuitOK, CompsOK
<1> QED BY <1>1, <1>2, <1>3, <1>4, <1>5, <1>6, Rewired, ZenonT(30)

LEMMA LinksCut ==
  ASSUME NEW c, CircuitOK(c), NEW links \in SUBSET c.graph.links,
         NEW g, g = [c.graph EXCEPT !.links = links],
         NEW d, d = Rewire([c EXCEPT !.graph = g])
  PROVE  /\ CircuitOK(d) /\ d.graph = g
         /\ d.comps = c.comps /\ d.nextCid = c.nextCid /\ d.epoch = c.epoch
<1>1. PICK x : x = [c EXCEPT !.graph = g]
  OBVIOUS
<1>2. IsCircuit(x) /\ x.graph = g /\ x.comps = c.comps /\ x.nextCid = c.nextCid /\ x.epoch = c.epoch
  BY <1>1 DEF CircuitOK, IsCircuit
<1>3. GraphOK(g) /\ g.nodes = c.graph.nodes /\ g.links = links
  BY LinksDropped DEF CircuitOK, GraphOK, IsGraph, GraphFields
<1>4. PolicyOK(x)
  BY <1>2, <1>3, PolicyOfNodes DEF PolicyOK, CircuitOK
<1>5. CompsOK(x)
  BY <1>2, <1>3 DEF CircuitOK, CompsOK
<1>6. d = Rewire(x)
  BY <1>1
<1> QED BY <1>2, <1>3, <1>4, <1>5, <1>6, Rewired

LEMMA Disconnected ==
  ASSUME NEW c, CircuitOK(c), NEW id, NEW d, d = Disconnect(c, id)
  PROVE  /\ CircuitOK(d) /\ d.graph = RemoveLink(c.graph, id)
         /\ d.comps = c.comps /\ d.nextCid = c.nextCid /\ d.epoch = c.epoch
<1>1. PICK links : links = {l \in c.graph.links : l.id # id}
  OBVIOUS
<1>2. RemoveLink(c.graph, id) = [c.graph EXCEPT !.links = links]
  BY <1>1 DEF RemoveLink
<1>3. d = Rewire([c EXCEPT !.graph = RemoveLink(c.graph, id)])
  BY DEF Disconnect
<1>4. links \in SUBSET c.graph.links
  BY <1>1
<1>5. PICK g : g = RemoveLink(c.graph, id)
  OBVIOUS
<1> QED BY <1>2, <1>3, <1>4, <1>5, LinksCut

-----------------------------------------------------------------------------
(* A component that is made and removed *)

\* What stays when a command is refused
SameOutline(c, d) == SameButCounters(c.graph, d.graph) /\ d.comps = c.comps /\ d.epoch = c.epoch

LEMMA Discarded ==
  ASSUME NEW c, CircuitOK(c), NEW type \in Types, NEW cid, NEW who,
         NEW d, d = RemoveComponent(Create(c, type, cid, who), c.graph.nextNode)
  PROVE  CircuitOK(d) /\ Bounded(d) /\ SameOutline(c, d)
<1>1. PICK x : x = Create(c, type, cid, who)
  OBVIOUS
<1>2. PICK new : new = c.graph.nextNode
  OBVIOUS
<1>3. IsCreated(c, x, type, cid, who)
  BY <1>1, Created
<1>4. /\ CircuitOK(x)
      /\ x.graph = AddNode(c.graph, Ports[type].ins, Ports[type].outs)
      /\ new \notin DOMAIN c.comps
      /\ DOMAIN x.comps = DOMAIN c.comps \cup {new}
      /\ \A m \in DOMAIN c.comps : x.comps[m] = c.comps[m]
      /\ x.epoch = c.epoch
  BY <1>2, <1>3 DEF IsCreated
<1>5. /\ CircuitOK(d) /\ Bounded(d)
      /\ d.graph = RemoveNode(x.graph, new)
      /\ d.comps = [m \in DOMAIN x.comps \ {new} |-> x.comps[m]]
      /\ d.epoch = x.epoch
  BY <1>1, <1>2, <1>4, Removed
<1>6. d.comps = c.comps
  <2>1. c.comps = [m \in DOMAIN c.comps |-> c.comps[m]]
    BY DEF CircuitOK, CompsOK
  <2>2. DOMAIN x.comps \ {new} = DOMAIN c.comps
    BY <1>4
  <2> QED BY <1>4, <1>5, <2>1, <2>2
<1>7. SameButCounters(c.graph, d.graph)
  <2>1. PICK inputs \in Nat, outputs \in Nat : inputs = Ports[type].ins /\ outputs = Ports[type].outs
    BY PortsAssumption
  <2>2. PICK g, h : g = c.graph /\ h = d.graph
    OBVIOUS
  <2>3. h = RemoveNode(AddNode(g, inputs, outputs), g.nextNode)
    BY <1>2, <1>4, <1>5, <2>1, <2>2
  <2> QED BY <2>2, <2>3, AddedThenRemoved DEF CircuitOK
<1> QED BY <1>4, <1>5, <1>6, <1>7 DEF SameOutline

LEMMA Placed ==
  ASSUME NEW c, CircuitOK(c), NEW type \in Types, NEW d, d = CreateComponent(c, type)
  PROVE  IsCreated(c, d, type, c.nextCid, <<c.epoch, c.graph.nextNode>>)
<1>1. PICK x : x = [c EXCEPT !.nextCid = @ + 1]
  OBVIOUS
<1>2. CircuitOK(x) /\ x.graph = c.graph /\ x.comps = c.comps /\ x.epoch = c.epoch
  BY <1>1, CounterAdvanced
<1>3. d = Create(x, type, c.nextCid, <<c.epoch, c.graph.nextNode>>)
  BY <1>1 DEF CreateComponent
<1>4. IsCreated(x, d, type, c.nextCid, <<c.epoch, c.graph.nextNode>>)
  BY <1>2, <1>3, Created
<1> QED BY <1>2, <1>4 DEF IsCreated, Bounded

LEMMA PlacedAndDiscarded ==
  ASSUME NEW c, CircuitOK(c), NEW type \in Types, NEW d, d = CreateAndDiscard(c, type)
  PROVE  CircuitOK(d) /\ Bounded(d) /\ SameOutline(c, d)
<1>1. PICK x : x = [c EXCEPT !.nextCid = @ + 1]
  OBVIOUS
<1>2. CircuitOK(x) /\ x.graph = c.graph /\ x.comps = c.comps /\ x.epoch = c.epoch
  BY <1>1, CounterAdvanced
<1>3. d = RemoveComponent(Create(x, type, c.nextCid, <<c.epoch, c.graph.nextNode>>), x.graph.nextNode)
  BY <1>1, <1>2 DEF CreateAndDiscard, CreateComponent
<1>4. CircuitOK(d) /\ Bounded(d) /\ SameOutline(x, d)
  BY <1>2, <1>3, Discarded
<1> QED BY <1>2, <1>4 DEF SameOutline

-----------------------------------------------------------------------------
(* Who the components are *)

\* A component is named for its epoch and the node it was first created
\* under, and no two have the name of one.
WhoOK(c) ==
  /\ \A n \in DOMAIN c.comps : \E k \in Nat : k <= n /\ c.comps[n].who = <<c.epoch, k>>
  /\ \A n, m \in DOMAIN c.comps : c.comps[n].who = c.comps[m].who => n = m

\* No component of c is at another node of d.
Beside(c, d) ==
  \A n \in DOMAIN c.comps, m \in DOMAIN d.comps : c.comps[n].who = d.comps[m].who => n = m

\* None but n is.
BesideBut(c, d, n) ==
  \A m \in DOMAIN c.comps \ {n}, k \in DOMAIN d.comps : c.comps[m].who = d.comps[k].who => m = k

LEMMA WhoKept ==
  ASSUME NEW c, WhoOK(c), NEW d, d.epoch = c.epoch,
         \A m \in DOMAIN d.comps : m \in DOMAIN c.comps /\ d.comps[m] = c.comps[m]
  PROVE  WhoOK(d) /\ Beside(c, d)
BY DEF WhoOK, Beside

LEMMA WhoCreated ==
  ASSUME NEW c, CircuitOK(c), WhoOK(c), NEW type, NEW cid, NEW d,
         IsCreated(c, d, type, cid, <<c.epoch, c.graph.nextNode>>)
  PROVE  WhoOK(d) /\ Beside(c, d)
<1>1. PICK new : new = c.graph.nextNode
  OBVIOUS
<1>2. /\ d.epoch = c.epoch /\ DOMAIN d.comps = DOMAIN c.comps \cup {new} /\ new \in Nat
      /\ new \notin DOMAIN c.comps /\ d.comps[new].who = <<c.epoch, new>>
      /\ \A m \in DOMAIN c.comps : d.comps[m] = c.comps[m]
  BY <1>1 DEF IsCreated
<1>3. \A n \in DOMAIN c.comps : n \in Nat /\ n < new
  BY <1>1 DEF CircuitOK, CompsOK, GraphOK, NodesOK
<1>4. \A n \in DOMAIN c.comps : c.comps[n].who # <<c.epoch, new>>
  <2> SUFFICES ASSUME NEW n \in DOMAIN c.comps PROVE c.comps[n].who # <<c.epoch, new>>
    OBVIOUS
  <2>1. PICK k \in Nat : k <= n /\ c.comps[n].who = <<c.epoch, k>>
    BY DEF WhoOK
  <2>2. k # new
    BY <1>2, <1>3, <2>1
  <2> QED BY <2>1, <2>2
<1>5. \A n \in DOMAIN d.comps : \E k \in Nat : k <= n /\ d.comps[n].who = <<d.epoch, k>>
  <2> SUFFICES ASSUME NEW n \in DOMAIN d.comps
               PROVE  \E k \in Nat : k <= n /\ d.comps[n].who = <<d.epoch, k>>
    OBVIOUS
  <2>1. CASE n = new
    BY <1>2, <2>1
  <2>2. CASE n \in DOMAIN c.comps
    BY <1>2, <2>2 DEF WhoOK
  <2> QED BY <1>2, <2>1, <2>2
<1>6. \A n \in DOMAIN c.comps, m \in DOMAIN d.comps :
        c.comps[n].who = d.comps[m].who => n = m
  BY <1>2, <1>4 DEF WhoOK
<1>7. \A n, m \in DOMAIN d.comps : d.comps[n].who = d.comps[m].who => n = m
  BY <1>2, <1>4, <1>6
<1> QED BY <1>5, <1>6, <1>7 DEF WhoOK, Beside

\* The components of two projects
LEMMA WhoElsewhere ==
  ASSUME NEW c, WhoOK(c), NEW d, WhoOK(d), d.epoch # c.epoch
  PROVE  Beside(c, d)
<1> SUFFICES ASSUME NEW n \in DOMAIN c.comps, NEW m \in DOMAIN d.comps
             PROVE  c.comps[n].who # d.comps[m].who
  BY DEF Beside
<1>1. PICK k \in Nat : c.comps[n].who = <<c.epoch, k>>
  BY DEF WhoOK
<1>2. PICK j \in Nat : d.comps[m].who = <<d.epoch, j>>
  BY DEF WhoOK
<1> QED BY <1>1, <1>2

LEMMA EmptyIsSound ==
  ASSUME NEW epoch, NEW c, c = EmptyCircuit(epoch)
  PROVE  CircuitOK(c) /\ Bounded(c) /\ DOMAIN c.comps = {} /\ c.epoch = epoch
<1>1. PICK g : g = EmptyGraph
  OBVIOUS
<1>2. /\ IsGraph(g) /\ g.nodes = << >> /\ g.links = {} /\ g.probes = << >> /\ g.groups = << >>
      /\ g.cache = {} /\ g.selected = NoId
      /\ g.nextNode = 1 /\ g.nextPin = 100 /\ g.nextLink = 1000 /\ g.nextGroup = 50000
  BY <1>1 DEF EmptyGraph, IsGraph, GraphFields, FirstPin, FirstLink, FirstGroup
<1>3. /\ IsCircuit(c) /\ c.graph = g /\ c.comps = << >> /\ c.wiring = << >> /\ c.epoch = epoch
  BY <1>1 DEF EmptyCircuit, IsCircuit
<1>4. DOMAIN g.nodes = {} /\ DOMAIN g.groups = {} /\ DOMAIN c.comps = {} /\ DOMAIN c.wiring = {}
      /\ DOMAIN g.probes = {}
  BY <1>2, <1>3
<1>5. NodesOK(g)
  <2>1. g.nodes \in [DOMAIN g.nodes -> [ins : Seq(Nat), outs : Seq(Nat)]]
    BY <1>2, <1>4
  <2> QED BY <1>2, <1>4, <2>1 DEF NodesOK
<1>6. LinksOK(g)
  <2>1. Acyclic(Edges(g), DOMAIN g.nodes)
    <3>1. \A S \in SUBSET DOMAIN g.nodes : S = {}
      BY <1>4
    <3>2. \A S \in (SUBSET DOMAIN g.nodes) \ {{}} : FALSE
      BY <3>1
    <3>3. PICK edges : edges = Edges(g)
      OBVIOUS
    <3> QED BY <3>2, <3>3 DEF Acyclic
  <2> QED BY <1>2, <2>1, FS_EmptySet DEF LinksOK
<1>7. ProbesOK(g)
  BY <1>2, <1>4 DEF ProbesOK, IsInjective, ToSet
<1>8. GroupsOK(g)
  <2>1. g.groups = [gid \in DOMAIN g.groups |->
                   [members   |-> g.groups[gid].members,
                    collapsed |-> g.groups[gid].collapsed, pins |-> g.groups[gid].pins]]
    BY <1>2, <1>4
  <2>2. CacheOf(g.groups) = {}
    BY <1>4 DEF CacheOf
  <2> QED BY <1>2, <1>4, <2>1, <2>2 DEF GroupsOK
<1>9. InPins(g) = {}
  BY <1>4 DEF InPins
<1>10. CompsOK(c) /\ PolicyOK(c) /\ WiringOK(c)
  <2>1. c.comps = [n \in DOMAIN c.comps |-> c.comps[n]]
    BY <1>3, <1>4
  <2> QED BY <1>2, <1>3, <1>4, <1>9, <2>1 DEF CompsOK, PolicyOK, WiringOK
<1> QED BY <1>2, <1>3, <1>4, <1>5, <1>6, <1>7, <1>8, <1>10
        DEF CircuitOK, GraphOK, Bounded, BoundariesOK

LEMMA SeedIsSound ==
  ASSUME NEW epoch, NEW c, c = Seed(epoch)
  PROVE  CircuitOK(c) /\ Bounded(c) /\ DOMAIN c.comps = {1, 2} /\ c.epoch = epoch
         /\ Pfbs(c) = {} /\ WhoOK(c)
<1>1. PICK a, b : a = EmptyCircuit(epoch) /\ b = CreateComponent(a, "generator")
  OBVIOUS
<1>2. c = CreateComponent(b, "amplifier")
  BY <1>1 DEF Seed
<1>3. CircuitOK(a) /\ Bounded(a) /\ DOMAIN a.comps = {} /\ a.epoch = epoch
  BY <1>1, EmptyIsSound
<1>4. a.graph.nextNode = 1
  BY <1>1 DEF EmptyCircuit, EmptyGraph
<1>5. IsCreated(a, b, "generator", a.nextCid, <<a.epoch, a.graph.nextNode>>)
  BY <1>1, <1>3, Placed, SeedAssumption
<1>6. /\ CircuitOK(b) /\ Bounded(b) /\ DOMAIN b.comps = {1} /\ b.epoch = epoch
      /\ b.comps[1].type = "generator" /\ b.graph = AddNode(a.graph, Ports["generator"].ins, Ports["generator"].outs)
  BY <1>3, <1>4, <1>5 DEF IsCreated
<1>7. b.graph.nextNode = 2
  BY <1>3, <1>4, <1>6, NodeAdded, SeedAssumption, PortsAssumption DEF CircuitOK
<1>8. IsCreated(b, c, "amplifier", b.nextCid, <<b.epoch, b.graph.nextNode>>)
  BY <1>2, <1>6, Placed, SeedAssumption
<1>9. /\ CircuitOK(c) /\ Bounded(c) /\ DOMAIN c.comps = {1, 2} /\ c.epoch = epoch
      /\ c.comps[2].type = "amplifier" /\ c.comps[1] = b.comps[1]
  BY <1>6, <1>7, <1>8 DEF IsCreated
<1>10. WhoOK(a)
  BY <1>3 DEF WhoOK
<1>11. WhoOK(b)
  BY <1>3, <1>5, <1>10, WhoCreated
<1>12. WhoOK(c)
  BY <1>6, <1>8, <1>11, WhoCreated
<1> QED BY <1>6, <1>9, <1>12 DEF Pfbs

-----------------------------------------------------------------------------
(* Restoring a file: the components *)

MadeUpTo(c, comps, fate, n, f) ==
  f = [i \in 0..n |-> IF i = 0 THEN [circuit |-> c, nodes |-> << >>]
                      ELSE RestoreComponent(f[i - 1], comps[i].type, fate[i])]

LEMMA MadeExists ==
  ASSUME NEW c, NEW comps, NEW fate
  PROVE  \A n \in Nat : \E f : MadeUpTo(c, comps, fate, n, f)
<1> DEFINE N == {n \in Nat : \E f : MadeUpTo(c, comps, fate, n, f)}
           first == [circuit |-> c, nodes |-> << >>]
<1>1. 0 \in N
  <2> DEFINE f == [i \in 0..0 |-> first]
  <2>1. MadeUpTo(c, comps, fate, 0, f)
    BY DEF MadeUpTo
  <2> QED BY <2>1
<1>2. ASSUME NEW n \in N PROVE n + 1 \in N
  <2>1. PICK f : MadeUpTo(c, comps, fate, n, f)
    OBVIOUS
  <2> DEFINE next == RestoreComponent(f[n], comps[n + 1].type, fate[n + 1])
             h == [i \in 0..(n + 1) |-> IF i = n + 1 THEN next ELSE f[i]]
  <2>2. \A i \in 0..n : f[i] = IF i = 0 THEN first
                                ELSE RestoreComponent(f[i - 1], comps[i].type, fate[i])
    BY <2>1 DEF MadeUpTo
  <2>3. ASSUME NEW i \in 0..(n + 1)
        PROVE  h[i] = IF i = 0 THEN first
                      ELSE RestoreComponent(h[i - 1], comps[i].type, fate[i])
    <3>1. CASE i = n + 1
      BY <3>1
    <3>2. CASE i # n + 1
      BY <3>2, <2>2
    <3> QED BY <3>1, <3>2
  <2>4. h = [i \in 0..(n + 1) |-> h[i]]
    OBVIOUS
  <2>5. MadeUpTo(c, comps, fate, n + 1, h)
    BY <2>3, <2>4 DEF MadeUpTo
  <2> QED BY <2>5
<1>3. N = Nat
  <2> HIDE DEF N
  <2> QED BY <1>1, <1>2, Induction DEF N
<1> QED BY <1>3

\* The first n records of a file have been read.
MadeOK(acc, n, epoch) ==
  /\ DOMAIN acc = {"circuit", "nodes"}
  /\ CircuitOK(acc.circuit) /\ Bounded(acc.circuit) /\ acc.circuit.epoch = epoch
  /\ WhoOK(acc.circuit)
  /\ acc.nodes \in Seq(Nat \cup {NoId}) /\ Len(acc.nodes) = n
  /\ DOMAIN acc.circuit.comps = ToSet(acc.nodes) \ {NoId}

LEMMA AppendedSet ==
  ASSUME NEW S, NEW s \in Seq(S), NEW x \in S
  PROVE  /\ Append(s, x) \in Seq(S) /\ Len(Append(s, x)) = Len(s) + 1
         /\ ToSet(Append(s, x)) = ToSet(s) \cup {x}
<1>1. Append(s, x) \in Seq(S) /\ Len(Append(s, x)) = Len(s) + 1 /\ Len(s) \in Nat
  OBVIOUS
<1>2. \A i \in 1..Len(s) : Append(s, x)[i] = s[i]
  OBVIOUS
<1>3. Append(s, x)[Len(s) + 1] = x
  OBVIOUS
<1>4. ToSet(s) = {s[i] : i \in 1..Len(s)}
  BY DEF ToSet
<1>5. ToSet(Append(s, x)) = {Append(s, x)[i] : i \in 1..(Len(s) + 1)}
  BY <1>1 DEF ToSet
<1> QED BY <1>1, <1>2, <1>3, <1>4, <1>5

LEMMA RecordRead ==
  ASSUME NEW acc, NEW n \in Nat, NEW epoch, MadeOK(acc, n, epoch), NEW type \in Types,
         NEW fate \in {"restored", "skipped", "discarded"},
         NEW new, new = RestoreComponent(acc, type, fate)
  PROVE  MadeOK(new, n + 1, epoch)
<1>1. PICK c, nodes : c = acc.circuit /\ nodes = acc.nodes
  OBVIOUS
<1>2. /\ DOMAIN acc = {"circuit", "nodes"} /\ CircuitOK(c) /\ Bounded(c) /\ c.epoch = epoch
      /\ WhoOK(c)
      /\ nodes \in Seq(Nat \cup {NoId}) /\ Len(nodes) = n
      /\ DOMAIN c.comps = ToSet(nodes) \ {NoId}
  BY <1>1 DEF MadeOK
<1>3. CASE fate = "restored"
  <2>1. PICK d, id : d = CreateComponent(c, type) /\ id = c.graph.nextNode
    OBVIOUS
  <2>2. IsCreated(c, d, type, c.nextCid, <<c.epoch, c.graph.nextNode>>)
    BY <1>2, <2>1, Placed
  <2>3. /\ CircuitOK(d) /\ Bounded(d) /\ d.epoch = epoch /\ id \in Nat
        /\ DOMAIN d.comps = DOMAIN c.comps \cup {id}
    BY <1>2, <2>1, <2>2 DEF IsCreated
  <2>4. PICK ids : ids = Append(nodes, id)
    OBVIOUS
  <2>5. ids \in Seq(Nat \cup {NoId}) /\ Len(ids) = n + 1 /\ ToSet(ids) = ToSet(nodes) \cup {id}
    BY <1>2, <2>3, <2>4, AppendedSet
  <2>6. new = [circuit |-> d, nodes |-> ids]
    BY <1>1, <1>3, <2>1, <2>4 DEF RestoreComponent
  <2>7. id # NoId
    BY <2>3, NoIdAssumption
  <2>8. WhoOK(d)
    BY <1>2, <2>2, WhoCreated
  <2> QED BY <1>2, <2>3, <2>5, <2>6, <2>7, <2>8 DEF MadeOK
<1>4. ASSUME NEW d, CircuitOK(d), Bounded(d), d.epoch = epoch, d.comps = c.comps,
             DOMAIN new = {"circuit", "nodes"}, new.circuit = d, new.nodes = Append(nodes, NoId)
      PROVE  MadeOK(new, n + 1, epoch)
  <2>1. PICK ids : ids = Append(nodes, NoId)
    OBVIOUS
  <2>2. ids \in Seq(Nat \cup {NoId}) /\ Len(ids) = n + 1 /\ ToSet(ids) = ToSet(nodes) \cup {NoId}
    BY <1>2, <2>1, AppendedSet
  <2>3. WhoOK(d)
    BY <1>2, <1>4, WhoKept
  <2> QED BY <1>2, <1>4, <2>1, <2>2, <2>3 DEF MadeOK
<1>5. CASE fate = "skipped"
  <2>1. new = [acc EXCEPT !.nodes = Append(acc.nodes, NoId)]
    BY <1>5 DEF RestoreComponent
  <2>2. DOMAIN new = {"circuit", "nodes"} /\ new.circuit = c /\ new.nodes = Append(nodes, NoId)
    BY <1>1, <1>2, <2>1
  <2> QED BY <1>2, <1>4, <2>2
<1>6. CASE fate = "discarded"
  <2>1. PICK d : d = CreateAndDiscard(c, type)
    OBVIOUS
  <2>2. CircuitOK(d) /\ Bounded(d) /\ d.epoch = epoch /\ d.comps = c.comps
    BY <1>2, <2>1, PlacedAndDiscarded DEF SameOutline
  <2>3. new = [circuit |-> d, nodes |-> Append(nodes, NoId)]
    BY <1>1, <1>6, <2>1 DEF RestoreComponent
  <2>4. DOMAIN new = {"circuit", "nodes"} /\ new.circuit = d /\ new.nodes = Append(nodes, NoId)
    BY <2>3
  <2> QED BY <1>4, <2>2, <2>4
<1> QED BY <1>3, <1>5, <1>6

LEMMA ComponentsRead ==
  ASSUME NEW c, CircuitOK(c), Bounded(c), DOMAIN c.comps = {},
         NEW comps, Len(comps) \in Nat, NEW fate,
         \A i \in 1..Len(comps) : /\ comps[i].type \in Types
                                  /\ fate[i] \in {"restored", "skipped", "discarded"}
  PROVE  MadeOK(RestoreComponents(c, comps, fate), Len(comps), c.epoch)
<1> DEFINE f == CHOOSE f : MadeUpTo(c, comps, fate, Len(comps), f)
<1>1. MadeUpTo(c, comps, fate, Len(comps), f)
  BY MadeExists
<1>2. RestoreComponents(c, comps, fate) = f[Len(comps)]
  BY DEF RestoreComponents, MadeUpTo
<1> HIDE DEF f
<1>3. \A i \in 0..Len(comps) :
        f[i] = IF i = 0 THEN [circuit |-> c, nodes |-> << >>]
               ELSE RestoreComponent(f[i - 1], comps[i].type, fate[i])
  BY <1>1 DEF MadeUpTo
<1> DEFINE N == {n \in Nat : n <= Len(comps) => MadeOK(f[n], n, c.epoch)}
<1>4. 0 \in N
  <2>1. f[0] = [circuit |-> c, nodes |-> << >>]
    BY <1>3
  <2>2. << >> \in Seq(Nat \cup {NoId}) /\ Len(<< >>) = 0 /\ ToSet(<< >>) = {}
    BY DEF ToSet
  <2>3. DOMAIN f[0] = {"circuit", "nodes"} /\ f[0].circuit = c /\ f[0].nodes = << >>
    BY <2>1
  <2>4. WhoOK(c)
    BY DEF WhoOK
  <2> QED BY <2>2, <2>3, <2>4 DEF MadeOK
<1>5. ASSUME NEW n \in N PROVE n + 1 \in N
  <2>1. SUFFICES ASSUME n + 1 <= Len(comps) PROVE MadeOK(f[n + 1], n + 1, c.epoch)
    OBVIOUS
  <2>2. f[n + 1] = RestoreComponent(f[n], comps[n + 1].type, fate[n + 1])
    BY <1>3, <2>1
  <2>3. MadeOK(f[n], n, c.epoch)
    BY <2>1
  <2> HIDE DEF N
  <2>4. n \in Nat /\ comps[n + 1].type \in Types /\ fate[n + 1] \in {"restored", "skipped", "discarded"}
    BY <2>1 DEF N
  <2> QED BY <2>2, <2>3, <2>4, RecordRead
<1>6. N = Nat
  <2> HIDE DEF N
  <2> QED BY <1>4, <1>5, Induction DEF N
<1> QED BY <1>2, <1>6

-----------------------------------------------------------------------------
(* Restoring a file: the links *)

LinkedUpTo(c, nodes, links, n, f) ==
  f = [i \in 0..n |-> IF i = 0 THEN c ELSE ConnectIfAllowed(f[i - 1], PinAt(c, nodes, links[i].from), PinAt(c, nodes, links[i].to))]

LEMMA LinkedExists ==
  ASSUME NEW c, NEW nodes, NEW links
  PROVE  \A n \in Nat : \E f : LinkedUpTo(c, nodes, links, n, f)
<1> DEFINE N == {n \in Nat : \E f : LinkedUpTo(c, nodes, links, n, f)}
<1>1. 0 \in N
  <2> DEFINE f == [i \in 0..0 |-> c]
  <2>1. LinkedUpTo(c, nodes, links, 0, f)
    BY DEF LinkedUpTo
  <2> QED BY <2>1
<1>2. ASSUME NEW n \in N PROVE n + 1 \in N
  <2>1. PICK f : LinkedUpTo(c, nodes, links, n, f)
    OBVIOUS
  <2> DEFINE next == ConnectIfAllowed(f[n], PinAt(c, nodes, links[n + 1].from), PinAt(c, nodes, links[n + 1].to))
             h == [i \in 0..(n + 1) |-> IF i = n + 1 THEN next ELSE f[i]]
  <2>2. \A i \in 0..n : f[i] = IF i = 0 THEN c ELSE ConnectIfAllowed(f[i - 1], PinAt(c, nodes, links[i].from), PinAt(c, nodes, links[i].to))
    BY <2>1 DEF LinkedUpTo
  <2>3. ASSUME NEW i \in 0..(n + 1)
        PROVE  h[i] = IF i = 0 THEN c ELSE ConnectIfAllowed(h[i - 1], PinAt(c, nodes, links[i].from), PinAt(c, nodes, links[i].to))
    <3>1. CASE i = n + 1
      BY <3>1
    <3>2. CASE i # n + 1
      BY <3>2, <2>2
    <3> QED BY <3>1, <3>2
  <2>4. h = [i \in 0..(n + 1) |-> h[i]]
    OBVIOUS
  <2>5. LinkedUpTo(c, nodes, links, n + 1, h)
    BY <2>3, <2>4 DEF LinkedUpTo
  <2> QED BY <2>5
<1>3. N = Nat
  <2> HIDE DEF N
  <2> QED BY <1>1, <1>2, Induction DEF N
<1> QED BY <1>3

\* d is c with other links.
OtherLinks(c, d) ==
  /\ CircuitOK(d) /\ d.comps = c.comps /\ d.epoch = c.epoch
  /\ d.graph.nodes = c.graph.nodes /\ d.graph.probes = c.graph.probes
  /\ d.graph.groups = c.graph.groups /\ d.graph.cache = c.graph.cache
  /\ d.graph.selected = c.graph.selected /\ d.graph.nextGroup = c.graph.nextGroup
  /\ d.graph.nextNode = c.graph.nextNode /\ d.graph.nextPin = c.graph.nextPin

LEMMA ConnectedOnly ==
  ASSUME NEW c, CircuitOK(c), NEW start, NEW end, CanConnect(c, start, end),
         NEW d, d = Connect(c, start, end)
  PROVE  OtherLinks(c, d)
<1>1. /\ CircuitOK(d) /\ d.graph = AddLink(c.graph, start, end)
      /\ d.comps = c.comps /\ d.epoch = c.epoch
  BY Connected
<1>2. IsGraph(c.graph)
  BY DEF CircuitOK, GraphOK
<1> QED BY <1>1, <1>2 DEF OtherLinks, AddLink, IsGraph, GraphFields

LEMMA LinksRead ==
  ASSUME NEW c, CircuitOK(c), NEW nodes, NEW links, Len(links) \in Nat
  PROVE  OtherLinks(c, RestoreLinks(c, nodes, links))
<1> DEFINE f == CHOOSE f : LinkedUpTo(c, nodes, links, Len(links), f)
<1>1. LinkedUpTo(c, nodes, links, Len(links), f)
  BY LinkedExists
<1>2. RestoreLinks(c, nodes, links) = f[Len(links)]
  BY DEF RestoreLinks, LinkedUpTo
<1> HIDE DEF f
<1>3. \A i \in 0..Len(links) :
        f[i] = IF i = 0 THEN c
               ELSE ConnectIfAllowed(f[i - 1], PinAt(c, nodes, links[i].from), PinAt(c, nodes, links[i].to))
  BY <1>1 DEF LinkedUpTo
<1> DEFINE N == {n \in Nat : n <= Len(links) => OtherLinks(c, f[n])}
<1>4. 0 \in N
  BY <1>3 DEF OtherLinks
<1>5. ASSUME NEW n \in N PROVE n + 1 \in N
  <2>1. SUFFICES ASSUME n + 1 <= Len(links) PROVE OtherLinks(c, f[n + 1])
    OBVIOUS
  <2>2. PICK s, e : s = PinAt(c, nodes, links[n + 1].from) /\ e = PinAt(c, nodes, links[n + 1].to)
    OBVIOUS
  <2>3. f[n + 1] = ConnectIfAllowed(f[n], s, e)
    BY <1>3, <2>1, <2>2
  <2>4. OtherLinks(c, f[n])
    BY <2>1
  <2>5. PICK x, y : x = f[n] /\ y = f[n + 1]
    OBVIOUS
  <2> HIDE DEF N
  <2>6. OtherLinks(c, x) /\ y = ConnectIfAllowed(x, s, e)
    BY <2>3, <2>4, <2>5
  <2>7. CASE y = x
    BY <2>5, <2>6, <2>7
  <2>8. CASE CanConnect(x, s, e) /\ y = Connect(x, s, e)
    <3>1. OtherLinks(x, y)
      BY <2>6, <2>8, ConnectedOnly DEF OtherLinks
    <3> QED BY <2>5, <2>6, <3>1 DEF OtherLinks
  <2> QED BY <2>6, <2>7, <2>8 DEF ConnectIfAllowed
<1>6. N = Nat
  <2> HIDE DEF N
  <2> QED BY <1>4, <1>5, Induction DEF N
<1> QED BY <1>2, <1>6

-----------------------------------------------------------------------------
(* Restoring a file: the probes and the groups *)

ProbedUpTo(c, nodes, probes, n, f) ==
  f = [i \in 0..n |-> IF i = 0 THEN c.graph ELSE ProbeIfAllowed(f[i - 1], PinAt(c, nodes, probes[i]))]

LEMMA ProbedExists ==
  ASSUME NEW c, NEW nodes, NEW probes
  PROVE  \A n \in Nat : \E f : ProbedUpTo(c, nodes, probes, n, f)
<1> DEFINE N == {n \in Nat : \E f : ProbedUpTo(c, nodes, probes, n, f)}
<1>1. 0 \in N
  <2> DEFINE f == [i \in 0..0 |-> c.graph]
  <2>1. ProbedUpTo(c, nodes, probes, 0, f)
    BY DEF ProbedUpTo
  <2> QED BY <2>1
<1>2. ASSUME NEW n \in N PROVE n + 1 \in N
  <2>1. PICK f : ProbedUpTo(c, nodes, probes, n, f)
    OBVIOUS
  <2> DEFINE next == ProbeIfAllowed(f[n], PinAt(c, nodes, probes[n + 1]))
             h == [i \in 0..(n + 1) |-> IF i = n + 1 THEN next ELSE f[i]]
  <2>2. \A i \in 0..n : f[i] = IF i = 0 THEN c.graph ELSE ProbeIfAllowed(f[i - 1], PinAt(c, nodes, probes[i]))
    BY <2>1 DEF ProbedUpTo
  <2>3. ASSUME NEW i \in 0..(n + 1)
        PROVE  h[i] = IF i = 0 THEN c.graph ELSE ProbeIfAllowed(h[i - 1], PinAt(c, nodes, probes[i]))
    <3>1. CASE i = n + 1
      BY <3>1
    <3>2. CASE i # n + 1
      BY <3>2, <2>2
    <3> QED BY <3>1, <3>2
  <2>4. h = [i \in 0..(n + 1) |-> h[i]]
    OBVIOUS
  <2>5. ProbedUpTo(c, nodes, probes, n + 1, h)
    BY <2>3, <2>4 DEF ProbedUpTo
  <2> QED BY <2>5
<1>3. N = Nat
  <2> HIDE DEF N
  <2> QED BY <1>1, <1>2, Induction DEF N
<1> QED BY <1>3

GroupedUpTo(c, nodes, groups, n, f) ==
  f = [i \in 0..n |-> IF i = 0 THEN c.graph ELSE GroupIfAllowed(f[i - 1], MembersAt(nodes, groups[i]), groups[i].collapsed)]

LEMMA GroupedExists ==
  ASSUME NEW c, NEW nodes, NEW groups
  PROVE  \A n \in Nat : \E f : GroupedUpTo(c, nodes, groups, n, f)
<1> DEFINE N == {n \in Nat : \E f : GroupedUpTo(c, nodes, groups, n, f)}
<1>1. 0 \in N
  <2> DEFINE f == [i \in 0..0 |-> c.graph]
  <2>1. GroupedUpTo(c, nodes, groups, 0, f)
    BY DEF GroupedUpTo
  <2> QED BY <2>1
<1>2. ASSUME NEW n \in N PROVE n + 1 \in N
  <2>1. PICK f : GroupedUpTo(c, nodes, groups, n, f)
    OBVIOUS
  <2> DEFINE next == GroupIfAllowed(f[n], MembersAt(nodes, groups[n + 1]), groups[n + 1].collapsed)
             h == [i \in 0..(n + 1) |-> IF i = n + 1 THEN next ELSE f[i]]
  <2>2. \A i \in 0..n : f[i] = IF i = 0 THEN c.graph ELSE GroupIfAllowed(f[i - 1], MembersAt(nodes, groups[i]), groups[i].collapsed)
    BY <2>1 DEF GroupedUpTo
  <2>3. ASSUME NEW i \in 0..(n + 1)
        PROVE  h[i] = IF i = 0 THEN c.graph ELSE GroupIfAllowed(h[i - 1], MembersAt(nodes, groups[i]), groups[i].collapsed)
    <3>1. CASE i = n + 1
      BY <3>1
    <3>2. CASE i # n + 1
      BY <3>2, <2>2, SMTT(30)
    <3> QED BY <3>1, <3>2
  <2>4. h = [i \in 0..(n + 1) |-> h[i]]
    OBVIOUS
  <2>5. GroupedUpTo(c, nodes, groups, n + 1, h)
    BY <2>3, <2>4 DEF GroupedUpTo
  <2> QED BY <2>5
<1>3. N = Nat
  <2> HIDE DEF N
  <2> QED BY <1>1, <1>2, Induction DEF N
<1> QED BY <1>3

\* h is g with other probes and groups.
OtherMarks(g, h) ==
  /\ GraphOK(h) /\ h.nodes = g.nodes /\ h.links = g.links
  /\ h.nextNode = g.nextNode /\ h.nextPin = g.nextPin

LEMMA ProbesRead ==
  ASSUME NEW c, CircuitOK(c), NEW nodes, NEW probes, Len(probes) \in Nat,
         \A i \in 1..Len(probes) :
           PinAt(c, nodes, probes[i]) \in InPins(c.graph) \cup OutPins(c.graph) \cup {NoId},
         NEW d, d = RestoreProbes(c, nodes, probes)
  PROVE  CircuitOK(d) /\ d.comps = c.comps /\ d.epoch = c.epoch /\ OtherMarks(c.graph, d.graph)
<1> DEFINE f == CHOOSE f : ProbedUpTo(c, nodes, probes, Len(probes), f)
<1>1. ProbedUpTo(c, nodes, probes, Len(probes), f)
  BY ProbedExists
<1>2. d = [c EXCEPT !.graph = f[Len(probes)]]
  BY DEF RestoreProbes, ProbedUpTo
<1> HIDE DEF f
<1>3. \A i \in 0..Len(probes) :
        f[i] = IF i = 0 THEN c.graph ELSE ProbeIfAllowed(f[i - 1], PinAt(c, nodes, probes[i]))
  BY <1>1 DEF ProbedUpTo
<1> DEFINE N == {n \in Nat : n <= Len(probes) => OtherMarks(c.graph, f[n])}
<1>4. 0 \in N
  BY <1>3 DEF OtherMarks, CircuitOK
<1>5. ASSUME NEW n \in N PROVE n + 1 \in N
  <2>1. SUFFICES ASSUME n + 1 <= Len(probes) PROVE OtherMarks(c.graph, f[n + 1])
    OBVIOUS
  <2>2. PICK pin, x, y : pin = PinAt(c, nodes, probes[n + 1]) /\ x = f[n] /\ y = f[n + 1]
    OBVIOUS
  <2>3. y = ProbeIfAllowed(x, pin)
    BY <1>3, <2>1, <2>2
  <2>4. OtherMarks(c.graph, x)
    BY <2>1, <2>2
  <2> HIDE DEF N
  <2>5. pin \in InPins(c.graph) \cup OutPins(c.graph) \cup {NoId}
    BY <2>1, <2>2 DEF N
  <2>6. CASE y = x
    BY <2>2, <2>4, <2>6
  <2>7. CASE pin # NoId /\ CanProbe(x, pin) /\ y = AddProbe(x, pin)
    <3>1. pin \in InPins(x) \cup OutPins(x)
      BY <2>4, <2>5, <2>7, SameNodes DEF OtherMarks
    <3>2. GraphOK(y)
      BY <2>4, <2>7, <3>1, ProbeAdded DEF OtherMarks
    <3>3. IsGraph(x)
      BY <2>4 DEF OtherMarks, GraphOK
    <3> QED BY <2>2, <2>4, <2>7, <3>2, <3>3 DEF OtherMarks, AddProbe, IsGraph, GraphFields
  <2> QED BY <2>3, <2>6, <2>7 DEF ProbeIfAllowed
<1>6. N = Nat
  <2> HIDE DEF N
  <2> QED BY <1>4, <1>5, Induction DEF N
<1>7. OtherMarks(c.graph, f[Len(probes)])
  BY <1>6
<1> QED BY <1>2, <1>7, GraphReplaced DEF OtherMarks

LEMMA GroupsRead ==
  ASSUME NEW c, CircuitOK(c), NEW nodes, NEW groups, Len(groups) \in Nat,
         NEW d, d = RestoreGroups(c, nodes, groups)
  PROVE  CircuitOK(d) /\ d.comps = c.comps /\ d.epoch = c.epoch /\ OtherMarks(c.graph, d.graph)
<1> DEFINE f == CHOOSE f : GroupedUpTo(c, nodes, groups, Len(groups), f)
<1>1. GroupedUpTo(c, nodes, groups, Len(groups), f)
  BY GroupedExists
<1>2. d = [c EXCEPT !.graph = f[Len(groups)]]
  BY DEF RestoreGroups, GroupedUpTo
<1> HIDE DEF f
<1>3. \A i \in 0..Len(groups) :
        f[i] = IF i = 0 THEN c.graph
               ELSE GroupIfAllowed(f[i - 1], MembersAt(nodes, groups[i]), groups[i].collapsed)
  BY <1>1 DEF GroupedUpTo
<1> DEFINE N == {n \in Nat : n <= Len(groups) => OtherMarks(c.graph, f[n])}
<1>4. 0 \in N
  BY <1>3 DEF OtherMarks, CircuitOK
<1>5. ASSUME NEW n \in N PROVE n + 1 \in N
  <2>1. SUFFICES ASSUME n + 1 <= Len(groups) PROVE OtherMarks(c.graph, f[n + 1])
    OBVIOUS
  <2>2. PICK members, collapsed, x, y :
          /\ members = MembersAt(nodes, groups[n + 1]) /\ collapsed = groups[n + 1].collapsed
          /\ x = f[n] /\ y = f[n + 1]
    OBVIOUS
  <2>3. y = GroupIfAllowed(x, members, collapsed)
    BY <1>3, <2>1, <2>2
  <2>4. OtherMarks(c.graph, x)
    BY <2>1, <2>2
  <2> HIDE DEF N
  <2>5. CASE y = x
    BY <2>2, <2>4, <2>5
  <2>6. CASE CanGroup(x, members) /\ y = SetCollapsed(AddGroup(x, members), x.nextGroup, collapsed)
    <3>1. PICK z : z = AddGroup(x, members)
      OBVIOUS
    <3>2. GraphOK(z) /\ SameAround(x, z) /\ x.nextGroup \in DOMAIN z.groups
      BY <2>4, <2>6, <3>1, GroupAdded DEF OtherMarks
    <3>3. GraphOK(y) /\ SameAround(z, y)
      BY <2>6, <3>1, <3>2, GroupCollapsedOrNot
    <3> QED BY <2>2, <2>4, <3>2, <3>3 DEF OtherMarks, SameAround
  <2> QED BY <2>3, <2>5, <2>6 DEF GroupIfAllowed
<1>6. N = Nat
  <2> HIDE DEF N
  <2> QED BY <1>4, <1>5, Induction DEF N
<1>7. OtherMarks(c.graph, f[Len(groups)])
  BY <1>6
<1> QED BY <1>2, <1>7, GraphReplaced DEF OtherMarks

-----------------------------------------------------------------------------
(* Restoring a file *)

\* A pin is named by one of the file's components, or not at all.
Names(saved, record) == record = NoId \/ record.comp \in DOMAIN saved.comps
FileOK(saved) ==
  /\ Len(saved.comps) \in Nat /\ DOMAIN saved.comps = 1..Len(saved.comps)
  /\ \A i \in DOMAIN saved.comps : saved.comps[i].type \in Types /\ saved.comps[i].pos \in Positions
  /\ Len(saved.links) \in Nat /\ Len(saved.groups) \in Nat
  /\ Len(saved.probes) \in Nat /\ DOMAIN saved.probes = 1..Len(saved.probes)
  /\ \A i \in DOMAIN saved.probes : Names(saved, saved.probes[i])
  /\ DOMAIN saved.points = Points
  /\ \A w \in Points : Names(saved, saved.points[w])

LEMMA PinNamed ==
  ASSUME NEW c, CircuitOK(c), NEW nodes, DOMAIN c.comps = ToSet(nodes) \ {NoId},
         NEW record, record = NoId \/ record.comp \in DOMAIN nodes
  PROVE  PinAt(c, nodes, record) \in InPins(c.graph) \cup OutPins(c.graph) \cup {NoId}
<1>1. CASE record = NoId
  BY <1>1 DEF PinAt
<1>2. CASE record # NoId /\ nodes[record.comp] = NoId
  BY <1>2 DEF PinAt
<1>3. CASE record # NoId /\ nodes[record.comp] # NoId
  <2>1. PICK n : n = nodes[record.comp]
    OBVIOUS
  <2>2. n \in DOMAIN c.graph.nodes
    BY <1>3, <2>1 DEF ToSet, CircuitOK, CompsOK
  <2>3. PICK pins : pins = IF record.out THEN c.graph.nodes[n].outs ELSE c.graph.nodes[n].ins
    OBVIOUS
  <2>4. PinAt(c, nodes, record) = IF record.port \in DOMAIN pins THEN pins[record.port] ELSE NoId
    BY <1>3, <2>1, <2>3 DEF PinAt
  <2>5. pins = c.graph.nodes[n].outs \/ pins = c.graph.nodes[n].ins
    BY <2>3
  <2>6. ASSUME NEW i \in DOMAIN pins PROVE pins[i] \in InPins(c.graph) \cup OutPins(c.graph)
    <3>1. pins[i] \in ToSet(pins)
      BY DEF ToSet
    <3>2. pins[i] \in PinsOf(c.graph, n)
      BY <2>5, <3>1 DEF PinsOf
    <3> QED BY <2>2, <3>2, LivePin DEF CircuitOK, GraphOK
  <2> QED BY <2>4, <2>6
<1> QED BY <1>1, <1>2, <1>3

\* What a file becomes, whatever is restored of it
IsRestored(c, r) ==
  /\ CircuitOK(r.circuit) /\ Bounded(r.circuit) /\ r.circuit.epoch = c.epoch + 1
  /\ WhoOK(r.circuit)
  /\ DOMAIN r.place = DOMAIN r.circuit.comps
  /\ r.place = [n \in DOMAIN r.place |-> r.place[n]]
  /\ \A n \in DOMAIN r.place : r.place[n] \in Positions
  /\ DOMAIN r.points = Points
  /\ \A w \in Points :
       r.points[w] \in InPins(r.circuit.graph) \cup OutPins(r.circuit.graph) \cup {NoId}

\* Its components are set to what the file says.
SetByFile(saved, r) ==
  /\ DOMAIN r.params = DOMAIN r.circuit.comps
  /\ \A n \in DOMAIN r.params : \E i \in DOMAIN saved.comps : r.params[n] = saved.comps[i].params

LEMMA Restored ==
  ASSUME NEW c, NEW saved, FileOK(saved),
         NEW fate, \A i \in DOMAIN saved.comps : fate[i] \in {"restored", "skipped", "discarded"},
         NEW r, r = Restore(c, saved, fate)
  PROVE  IsRestored(c, r) /\ SetByFile(saved, r)
<1>1. PICK made : made = RestoreComponents(Reset(c), saved.comps, fate)
  OBVIOUS
<1>2. MadeOK(made, Len(saved.comps), c.epoch + 1)
  <2>1. PICK e, x : e = c.epoch + 1 /\ x = Reset(c)
    OBVIOUS
  <2>2. CircuitOK(x) /\ Bounded(x) /\ DOMAIN x.comps = {} /\ x.epoch = e
    BY <2>1, EmptyIsSound DEF Reset
  <2> QED BY <1>1, <2>1, <2>2, ComponentsRead DEF FileOK
<1>3. PICK d, nodes : d = made.circuit /\ nodes = made.nodes
  OBVIOUS
<1>4. /\ CircuitOK(d) /\ d.epoch = c.epoch + 1 /\ WhoOK(d)
      /\ nodes \in Seq(Nat \cup {NoId}) /\ DOMAIN nodes = DOMAIN saved.comps
      /\ DOMAIN d.comps = ToSet(nodes) \ {NoId}
  BY <1>2, <1>3 DEF MadeOK, FileOK
<1>5. PICK linked : linked = RestoreLinks(d, nodes, saved.links)
  OBVIOUS
<1>6. OtherLinks(d, linked)
  BY <1>4, <1>5, LinksRead DEF FileOK
<1>7. PICK probed : probed = RestoreProbes(linked, nodes, saved.probes)
  OBVIOUS
<1>8. CircuitOK(linked) /\ linked.comps = d.comps /\ linked.epoch = d.epoch
  BY <1>6 DEF OtherLinks
<1>9. \A record : Names(saved, record) =>
        PinAt(linked, nodes, record) \in InPins(linked.graph) \cup OutPins(linked.graph) \cup {NoId}
  BY <1>4, <1>8, PinNamed DEF Names
<1>10. /\ CircuitOK(probed) /\ probed.comps = d.comps /\ probed.epoch = d.epoch
  <2>1. \A i \in 1..Len(saved.probes) :
          PinAt(linked, nodes, saved.probes[i])
            \in InPins(linked.graph) \cup OutPins(linked.graph) \cup {NoId}
    BY <1>9 DEF FileOK
  <2> QED BY <1>7, <1>8, <2>1, ProbesRead DEF FileOK
<1>11. PICK grouped : grouped = RestoreGroups(probed, nodes, saved.groups)
  OBVIOUS
<1>12. /\ CircuitOK(grouped) /\ grouped.comps = d.comps /\ grouped.epoch = d.epoch
       /\ grouped.graph.nodes = probed.graph.nodes
  BY <1>10, <1>11, GroupsRead DEF FileOK, OtherMarks
<1>13. PICK settled : settled = TopologyChanged(grouped)
  OBVIOUS
<1>14. /\ CircuitOK(settled) /\ Bounded(settled) /\ settled.comps = d.comps
       /\ settled.epoch = d.epoch /\ settled.graph.nodes = probed.graph.nodes
  <2>1. /\ CircuitOK(settled) /\ Bounded(settled) /\ settled.comps = d.comps
        /\ settled.epoch = d.epoch /\ settled.graph = RebuildBoundaries(grouped.graph)
    BY <1>12, <1>13, TopologySettled
  <2>2. settled.graph.nodes = grouped.graph.nodes
    BY <1>12, <2>1, BoundariesRebuilt DEF CircuitOK
  <2> QED BY <1>12, <2>1, <2>2
<1>15. PICK end : end = RestoreCounter(settled, saved.nextCid)
  OBVIOUS
<1>16. /\ CircuitOK(end) /\ Bounded(end) /\ end.comps = d.comps /\ end.epoch = d.epoch
       /\ end.graph.nodes = probed.graph.nodes
  <2>1. PICK cid : cid = Max({settled.nextCid, saved.nextCid})
    OBVIOUS
  <2>2. end = [settled EXCEPT !.nextCid = cid]
    BY <1>15, <2>1 DEF RestoreCounter
  <2> QED BY <1>14, <2>2, CounterAdvanced DEF Bounded
<1>17. r = RestoreRest(probed, nodes, saved)
  BY <1>1, <1>3, <1>5, <1>7 DEF Restore, RestoreOnto
<1>18. /\ r.circuit = end
       /\ r.place = [n \in ToSet(nodes) \ {NoId} |-> saved.comps[IndexIn(nodes, n)].pos]
       /\ r.params = [n \in ToSet(nodes) \ {NoId} |-> saved.comps[IndexIn(nodes, n)].params]
       /\ r.points = [w \in DOMAIN saved.points |-> PinAt(probed, nodes, saved.points[w])]
  BY <1>11, <1>13, <1>15, <1>17 DEF RestoreRest
<1>19. ASSUME NEW n \in ToSet(nodes)
       PROVE  IndexIn(nodes, n) \in DOMAIN saved.comps /\ saved.comps[IndexIn(nodes, n)].pos \in Positions
  <2>1. \E i \in DOMAIN nodes : nodes[i] = n
    BY DEF ToSet
  <2>2. IndexIn(nodes, n) \in DOMAIN nodes
    BY <2>1 DEF IndexIn
  <2> QED BY <1>4, <2>2 DEF FileOK
<1>20. ASSUME NEW w \in Points
       PROVE  PinAt(probed, nodes, saved.points[w])
                \in InPins(end.graph) \cup OutPins(end.graph) \cup {NoId}
  <2>1. Names(saved, saved.points[w])
    BY DEF FileOK
  <2>2. PinAt(probed, nodes, saved.points[w]) \in InPins(probed.graph) \cup OutPins(probed.graph) \cup {NoId}
    BY <1>4, <1>10, <2>1, PinNamed DEF Names
  <2> QED BY <1>16, <2>2, SameNodes
<1>21. WhoOK(end)
  BY <1>4, <1>16, WhoKept
<1>22. IsRestored(c, r)
  BY <1>4, <1>16, <1>18, <1>19, <1>20, <1>21 DEF IsRestored, FileOK
<1>23. SetByFile(saved, r)
  BY <1>4, <1>16, <1>18, <1>19 DEF SetByFile
<1> QED BY <1>22, <1>23

-----------------------------------------------------------------------------
(* Writing a file *)

LEMMA ListIsSeq ==
  ASSUME NEW k \in Nat, NEW f, f = [i \in 1..k |-> f[i]]
  PROVE  Len(f) = k /\ DOMAIN f = 1..k
<1>1. PICK S : S = {f[i] : i \in 1..k}
  OBVIOUS
<1>2. f \in [1..k -> S]
  BY <1>1
<1>3. f \in Seq(S)
  BY <1>2
<1> QED BY <1>2, <1>3

LEMMA LinksListed ==
  ASSUME NEW g, GraphOK(g), NEW links \in SUBSET g.links, NEW s, s = InOrder(links)
  PROVE  /\ IsFiniteSet(links) /\ Cardinality(links) \in Nat
         /\ s \in [1..Cardinality(links) -> links]
         /\ \A i, j \in 1..Cardinality(links) : i < j => s[i].id < s[j].id
         /\ \A i, j \in 1..Cardinality(links) : s[i] = s[j] => i = j
         /\ s \in Surjection(1..Cardinality(links), links)
<1>1. IsFiniteSet(links) /\ Cardinality(links) \in Nat
  BY FS_Subset, FS_CardinalityType DEF GraphOK, LinksOK
<1>2. PICK key : key = [l \in links |-> l.id]
  OBVIOUS
<1>3. key \in [links -> Nat] /\ \A x, y \in links : key[x] = key[y] => x = y
  BY <1>2 DEF GraphOK, LinksOK
<1>4. PICK t : Lists(t, links, key)
  BY <1>1, <1>3, ListsExist
<1>5. t \in [1..Cardinality(links) -> links]
      /\ \A i, j \in DOMAIN t : i < j => t[i].id < t[j].id
  BY <1>2, <1>4 DEF Lists
<1>6. s \in [1..Cardinality(links) -> links]
      /\ \A i, j \in DOMAIN s : i < j => s[i].id < s[j].id
  BY <1>5 DEF InOrder
<1>7. Lists(s, links, key)
  BY <1>2, <1>6 DEF Lists
<1>8. /\ \A i, j \in 1..Cardinality(links) : s[i] = s[j] => i = j
      /\ s \in Surjection(1..Cardinality(links), links)
  BY <1>1, <1>3, <1>7, ListsAll
<1> QED BY <1>1, <1>6, <1>8

LEMMA FiniteGroups ==
  ASSUME NEW g, GraphOK(g)
  PROVE  IsFiniteSet(DOMAIN g.groups)
<1>1. DOMAIN g.groups \in SUBSET (0..g.nextGroup) /\ g.nextGroup \in Nat
  BY DEF GraphOK, GroupsOK
<1>2. IsFiniteSet(0..g.nextGroup)
  BY <1>1, FS_Interval
<1> QED BY <1>1, <1>2, FS_Subset

LEMMA CaptureIsFile ==
  ASSUME NEW c, CircuitOK(c), NEW pos, DOMAIN pos = DOMAIN c.comps,
         \A n \in DOMAIN pos : pos[n] \in Positions,
         NEW par, NEW points, DOMAIN points = Points, NEW saved, saved = Capture(c, pos, par, points)
  PROVE  FileOK(saved)
<1>1. PICK order, links, gids :
        /\ order = Order(c) /\ links = InOrder(c.graph.links)
        /\ gids = Ascending(DOMAIN c.graph.groups)
  OBVIOUS
<1>2. saved = CaptureInOrder(c, pos, par, points, order, links, gids)
  BY <1>1 DEF Capture
<1>3. PICK k \in Nat : /\ DOMAIN order = 1..k
                       /\ \A i \in 1..k : order[i] \in DOMAIN c.comps
  <2>1. DOMAIN c.comps \in SUBSET Nat /\ IsFiniteSet(DOMAIN c.comps)
    BY FiniteNodes DEF CircuitOK, CompsOK, GraphOK, NodesOK
  <2>2. Cardinality(DOMAIN c.comps) \in Nat /\ order \in [1..Cardinality(DOMAIN c.comps) -> DOMAIN c.comps]
    BY <1>1, <2>1, AscendingIs DEF Order
  <2> QED BY <2>2
<1>4. PICK m \in Nat : DOMAIN links = 1..m
  <2>1. GraphOK(c.graph) /\ c.graph.links \in SUBSET c.graph.links
    BY DEF CircuitOK
  <2> QED BY <1>1, <2>1, LinksListed
<1>5. PICK q \in Nat : DOMAIN gids = 1..q
  <2>1. DOMAIN c.graph.groups \in SUBSET Nat /\ IsFiniteSet(DOMAIN c.graph.groups)
    BY FiniteGroups DEF CircuitOK, GraphOK, GroupsOK
  <2>2. /\ Cardinality(DOMAIN c.graph.groups) \in Nat
        /\ gids \in [1..Cardinality(DOMAIN c.graph.groups) -> DOMAIN c.graph.groups]
    BY <1>1, <2>1, AscendingIs
  <2> QED BY <2>2
<1>6. PICK p \in Nat : DOMAIN c.graph.probes = 1..p
  BY DEF CircuitOK, GraphOK, ProbesOK
<1>7. PICK comps, names, probes, marks, groups :
        /\ comps = [i \in 1..k |-> [type |-> c.comps[order[i]].type, pos |-> pos[order[i]],
                                     params |-> par[order[i]]]]
        /\ names = [i \in 1..m |-> [from |-> PinRecord(c, order, links[i].start),
                                    to   |-> PinRecord(c, order, links[i].end)]]
        /\ probes = [i \in 1..p |-> PinRecord(c, order, c.graph.probes[i])]
        /\ marks = [w \in Points |-> PinRecord(c, order, points[w])]
        /\ groups = [i \in 1..q |->
                       [members   |-> {IndexIn(order, n) : n \in c.graph.groups[gids[i]].members},
                        collapsed |-> c.graph.groups[gids[i]].collapsed]]
  OBVIOUS
<1>8. /\ saved.comps = comps /\ saved.links = names /\ saved.probes = probes
      /\ saved.points = marks /\ saved.groups = groups
  BY <1>2, <1>3, <1>4, <1>5, <1>6, <1>7 DEF CaptureInOrder
<1>9. Len(comps) = k /\ Len(names) = m /\ Len(probes) = p /\ Len(groups) = q
  <2>1. comps = [i \in 1..k |-> comps[i]]
    BY <1>7
  <2>2. names = [i \in 1..m |-> names[i]]
    BY <1>7
  <2>3. probes = [i \in 1..p |-> probes[i]]
    BY <1>7
  <2>4. groups = [i \in 1..q |-> groups[i]]
    BY <1>7
  <2> QED BY <2>1, <2>2, <2>3, <2>4, ListIsSeq
<1>10. \A i \in 1..k : comps[i].type \in Types /\ comps[i].pos \in Positions
  BY <1>3, <1>7 DEF CircuitOK, CompsOK
<1>11. \A pin : Names(saved, PinRecord(c, order, pin))
  <2> TAKE pin
  <2>1. CASE \E i \in DOMAIN order : pin \in PinsOf(c.graph, order[i])
    <3> DEFINE i == CHOOSE i \in DOMAIN order : pin \in PinsOf(c.graph, order[i])
    <3>1. i \in DOMAIN order
      BY <2>1
    <3>2. PinRecord(c, order, pin) = RecordOf(c.graph.nodes[order[i]], i, pin)
      BY <2>1 DEF PinRecord
    <3> HIDE DEF i
    <3>3. PinRecord(c, order, pin).comp = i
      BY <3>2 DEF RecordOf
    <3> QED BY <1>3, <1>7, <1>8, <3>1, <3>3 DEF Names
  <2>2. CASE ~ \E i \in DOMAIN order : pin \in PinsOf(c.graph, order[i])
    BY <2>2 DEF PinRecord, Names
  <2> QED BY <2>1, <2>2
<1>12. \A i \in 1..p : Names(saved, probes[i])
  BY <1>7, <1>11
<1>13. \A w \in Points : Names(saved, marks[w])
  BY <1>7, <1>11
<1>14. DOMAIN comps = 1..k /\ DOMAIN probes = 1..p /\ DOMAIN marks = Points
  BY <1>7
<1> QED BY <1>8, <1>9, <1>10, <1>12, <1>13, <1>14 DEF FileOK

-----------------------------------------------------------------------------
(* Replacing a part: the map of its pins *)

LEMMA IndexOf ==
  ASSUME NEW s, IsInjective(s), NEW i \in DOMAIN s
  PROVE  IndexIn(s, s[i]) = i
<1>1. \A j \in DOMAIN s : s[j] = s[i] => j = i
  BY DEF IsInjective
<1> QED BY <1>1 DEF IndexIn

\* Ports pair by index, up to the shorter list.
LEMMA Paired ==
  ASSUME NEW olds \in Seq(Nat), NEW news \in Seq(Nat)
  PROVE  1..Min({Len(olds), Len(news)}) = DOMAIN olds \cap DOMAIN news
<1>1. PICK a \in Nat, b \in Nat : a = Len(olds) /\ b = Len(news)
  OBVIOUS
<1>2. PICK m \in Nat : m = (IF a <= b THEN a ELSE b)
  OBVIOUS
<1>3. Min({a, b}) = m
  <2>1. m \in {a, b} /\ \A y \in {a, b} : m <= y
    BY <1>2
  <2>2. \A x \in {a, b} : (\A y \in {a, b} : x <= y) => x = m
    BY <1>2
  <2> QED BY <2>1, <2>2 DEF Min
<1>4. DOMAIN olds = 1..a /\ DOMAIN news = 1..b
  BY <1>1
<1> QED BY <1>1, <1>2, <1>3, <1>4

\* A port of the part and the port of its successor that takes its place
SamePort(old, new, p, q) ==
  \/ \E i \in DOMAIN old.ins \cap DOMAIN new.ins : p = old.ins[i] /\ q = new.ins[i]
  \/ \E i \in DOMAIN old.outs \cap DOMAIN new.outs : p = old.outs[i] /\ q = new.outs[i]

LEMMA PinsMapped ==
  ASSUME NEW old, NEW new, NEW map, map = PinMap(old, new),
         old.ins \in Seq(Nat), old.outs \in Seq(Nat), new.ins \in Seq(Nat), new.outs \in Seq(Nat)
  PROVE  \A pin \in DOMAIN map : SamePort(old, new, pin, map[pin])
<1>1. PICK ins, outs : ins = DOMAIN old.ins \cap DOMAIN new.ins /\ outs = DOMAIN old.outs \cap DOMAIN new.outs
  OBVIOUS
<1>2. ins = 1..Min({Len(old.ins), Len(new.ins)}) /\ outs = 1..Min({Len(old.outs), Len(new.outs)})
  BY <1>1, Paired
<1>3. map = [pin \in {old.ins[i] : i \in ins} \cup {old.outs[i] : i \in outs} |->
               IF \E i \in ins : old.ins[i] = pin
               THEN new.ins[CHOOSE i \in ins : old.ins[i] = pin]
               ELSE new.outs[CHOOSE i \in outs : old.outs[i] = pin]]
  BY <1>2 DEF PinMap
<1> SUFFICES ASSUME NEW pin \in DOMAIN map
             PROVE  \/ \E i \in ins : pin = old.ins[i] /\ map[pin] = new.ins[i]
                    \/ \E i \in outs : pin = old.outs[i] /\ map[pin] = new.outs[i]
  BY <1>1 DEF SamePort
<1>4. CASE \E i \in ins : old.ins[i] = pin
  <2> DEFINE j == CHOOSE i \in ins : old.ins[i] = pin
  <2>1. j \in ins /\ old.ins[j] = pin
    BY <1>4
  <2>2. map[pin] = new.ins[j]
    BY <1>3, <1>4
  <2> HIDE DEF j
  <2> QED BY <2>1, <2>2
<1>5. CASE ~ \E i \in ins : old.ins[i] = pin
  <2> DEFINE j == CHOOSE i \in outs : old.outs[i] = pin
  <2>1. \E i \in outs : old.outs[i] = pin
    BY <1>3, <1>5
  <2>2. j \in outs /\ old.outs[j] = pin
    BY <2>1
  <2>3. map[pin] = new.outs[j]
    BY <1>3, <1>5
  <2> HIDE DEF j
  <2> QED BY <2>2, <2>3
<1> QED BY <1>4, <1>5

\* made is c with a successor of node n, whose pins map names.
IsSuccessor(c, n, type, made, map) ==
  LET new == c.graph.nextNode
      olds == c.graph.nodes[n]
      news == made.graph.nodes[new]
  IN  /\ IsCreated(c, made, type, c.comps[n].cid, c.comps[n].who)
      /\ n # new /\ new \in DOMAIN made.graph.nodes /\ n \in DOMAIN made.graph.nodes
      /\ DOMAIN map \subseteq PinsOf(c.graph, n)
      /\ \A pin \in DOMAIN map :
           /\ SamePort(olds, news, pin, map[pin])
           /\ map[pin] \in PinsOf(made.graph, new)
           /\ pin \in InPins(c.graph) => map[pin] \in ToSet(news.ins)
           /\ pin \in OutPins(c.graph) => map[pin] \in ToSet(news.outs)
      /\ \A p, q \in DOMAIN map : map[p] = map[q] => p = q

LEMMA InOrOut ==
  ASSUME NEW g, NodesOK(g), NEW n \in DOMAIN g.nodes, NEW pin
  PROVE  /\ pin \in ToSet(g.nodes[n].ins) => pin \in InPins(g) /\ pin \notin OutPins(g)
         /\ pin \in ToSet(g.nodes[n].outs) => pin \in OutPins(g) /\ pin \notin InPins(g)
<1>1. ASSUME NEW m \in DOMAIN g.nodes, pin \in PinsOf(g, n), pin \in PinsOf(g, m) PROVE m = n
  BY <1>1 DEF NodesOK
<1>2. ToSet(g.nodes[n].ins) \cap ToSet(g.nodes[n].outs) = {}
  BY DEF NodesOK
<1>3. /\ pin \in ToSet(g.nodes[n].ins) => pin \in InPins(g)
      /\ pin \in ToSet(g.nodes[n].outs) => pin \in OutPins(g)
  BY DEF InPins, OutPins
<1>4. ASSUME pin \in ToSet(g.nodes[n].ins), pin \in OutPins(g) PROVE FALSE
  <2>1. PICK m \in DOMAIN g.nodes : pin \in ToSet(g.nodes[m].outs)
    BY <1>4 DEF OutPins
  <2> QED BY <1>1, <1>2, <1>4, <2>1 DEF PinsOf
<1>5. ASSUME pin \in ToSet(g.nodes[n].outs), pin \in InPins(g) PROVE FALSE
  <2>1. PICK m \in DOMAIN g.nodes : pin \in ToSet(g.nodes[m].ins)
    BY <1>5 DEF InPins
  <2> QED BY <1>1, <1>2, <1>5, <2>1 DEF PinsOf
<1> QED BY <1>3, <1>4, <1>5

LEMMA SuccessorMade ==
  ASSUME NEW c, CircuitOK(c), NEW n \in DOMAIN c.comps, NEW type \in Types,
         NEW made, made = Successor(c, n, type), NEW map, map = SwapMap(c, n, type)
  PROVE  IsSuccessor(c, n, type, made, map)
<1>1. PICK new : new = c.graph.nextNode
  OBVIOUS
<1>2. PICK g, h : g = c.graph /\ h = made.graph
  OBVIOUS
<1>3. IsCreated(c, made, type, c.comps[n].cid, c.comps[n].who)
  BY Created DEF Successor
<1>4. /\ GraphOK(g) /\ NodesOK(g) /\ n \in DOMAIN g.nodes
      /\ h = AddNode(g, Ports[type].ins, Ports[type].outs)
      /\ GraphOK(h) /\ NodesOK(h)
  BY <1>2, <1>3 DEF IsCreated, CircuitOK, CompsOK, GraphOK
<1>5. /\ new \in Nat /\ new \notin DOMAIN g.nodes /\ DOMAIN h.nodes = DOMAIN g.nodes \cup {new}
      /\ h.nodes[n] = g.nodes[n]
  BY <1>1, <1>2, <1>4, NodeAdded, PortsAssumption
<1>6. PICK olds, news : olds = g.nodes[n] /\ news = h.nodes[new]
  OBVIOUS
<1>7. map = PinMap(olds, news)
  BY <1>1, <1>2, <1>6 DEF SwapMap
<1>8. /\ olds.ins \in Seq(Nat) /\ olds.outs \in Seq(Nat)
      /\ news.ins \in Seq(Nat) /\ news.outs \in Seq(Nat)
      /\ IsInjective(news.ins) /\ IsInjective(news.outs)
      /\ ToSet(news.ins) \cap ToSet(news.outs) = {}
  BY <1>4, <1>5, <1>6 DEF NodesOK
<1>9. \A pin \in DOMAIN map : SamePort(olds, news, pin, map[pin])
  BY <1>7, <1>8, PinsMapped
<1>10. PinsOf(g, n) = ToSet(olds.ins) \cup ToSet(olds.outs)
       /\ PinsOf(h, new) = ToSet(news.ins) \cup ToSet(news.outs)
  BY <1>6 DEF PinsOf
<1>11. ASSUME NEW pin \in DOMAIN map
       PROVE  /\ pin \in PinsOf(g, n)
              /\ map[pin] \in PinsOf(h, new)
              /\ pin \in InPins(g) => map[pin] \in ToSet(news.ins)
              /\ pin \in OutPins(g) => map[pin] \in ToSet(news.outs)
  <2>1. CASE \E i \in DOMAIN olds.ins \cap DOMAIN news.ins : pin = olds.ins[i] /\ map[pin] = news.ins[i]
    <3>1. pin \in ToSet(olds.ins) /\ map[pin] \in ToSet(news.ins)
      BY <2>1 DEF ToSet
    <3>2. pin \notin OutPins(g)
      BY <1>4, <1>6, <3>1, InOrOut
    <3> QED BY <1>10, <3>1, <3>2
  <2>2. CASE \E i \in DOMAIN olds.outs \cap DOMAIN news.outs : pin = olds.outs[i] /\ map[pin] = news.outs[i]
    <3>1. pin \in ToSet(olds.outs) /\ map[pin] \in ToSet(news.outs)
      BY <2>2 DEF ToSet
    <3>2. pin \notin InPins(g)
      BY <1>4, <1>6, <3>1, InOrOut
    <3> QED BY <1>10, <3>1, <3>2
  <2> QED BY <1>9, <2>1, <2>2 DEF SamePort
<1>12. ASSUME NEW p \in DOMAIN map, NEW q \in DOMAIN map, map[p] = map[q] PROVE p = q
  <2>1. ASSUME NEW i \in DOMAIN news.ins, NEW j \in DOMAIN news.ins, news.ins[i] = news.ins[j]
        PROVE  i = j
    BY <1>8, <2>1 DEF IsInjective
  <2>2. ASSUME NEW i \in DOMAIN news.outs, NEW j \in DOMAIN news.outs, news.outs[i] = news.outs[j]
        PROVE  i = j
    BY <1>8, <2>2 DEF IsInjective
  <2>3. ASSUME NEW i \in DOMAIN news.ins, NEW j \in DOMAIN news.outs PROVE news.ins[i] # news.outs[j]
    BY <1>8 DEF ToSet
  <2>4. SamePort(olds, news, p, map[p]) /\ SamePort(olds, news, q, map[p])
    BY <1>9, <1>12
  <2> QED BY <2>1, <2>2, <2>3, <2>4 DEF SamePort
<1>13. n # new /\ new \in DOMAIN h.nodes /\ n \in DOMAIN h.nodes
  BY <1>4, <1>5
<1> QED BY <1>1, <1>2, <1>3, <1>6, <1>9, <1>11, <1>12, <1>13 DEF IsSuccessor

-----------------------------------------------------------------------------
(* Replacing a part: its links *)

Unattached(c) == [ok |-> TRUE, circuit |-> c]
AttachedUpTo(c, map, links, n, f) ==
  f = [i \in 0..n |-> IF i = 0 THEN Unattached(c) ELSE AttachOne(f[i - 1], Mapped(map, links[i].start), Mapped(map, links[i].end))]

LEMMA AttachedExists ==
  ASSUME NEW c, NEW map, NEW links
  PROVE  \A n \in Nat : \E f : AttachedUpTo(c, map, links, n, f)
<1> DEFINE N == {n \in Nat : \E f : AttachedUpTo(c, map, links, n, f)}
<1>1. 0 \in N
  <2> DEFINE f == [i \in 0..0 |-> Unattached(c)]
  <2>1. AttachedUpTo(c, map, links, 0, f)
    BY DEF AttachedUpTo
  <2> QED BY <2>1
<1>2. ASSUME NEW n \in N PROVE n + 1 \in N
  <2>1. PICK f : AttachedUpTo(c, map, links, n, f)
    OBVIOUS
  <2> DEFINE next == AttachOne(f[n], Mapped(map, links[n + 1].start), Mapped(map, links[n + 1].end))
             h == [i \in 0..(n + 1) |-> IF i = n + 1 THEN next ELSE f[i]]
  <2>2. \A i \in 0..n : f[i] = IF i = 0 THEN Unattached(c) ELSE AttachOne(f[i - 1], Mapped(map, links[i].start), Mapped(map, links[i].end))
    BY <2>1 DEF AttachedUpTo
  <2>3. ASSUME NEW i \in 0..(n + 1)
        PROVE  h[i] = IF i = 0 THEN Unattached(c) ELSE AttachOne(h[i - 1], Mapped(map, links[i].start), Mapped(map, links[i].end))
    <3>1. CASE i = n + 1
      BY <3>1
    <3>2. CASE i # n + 1
      BY <3>2, <2>2
    <3> QED BY <3>1, <3>2
  <2>4. h = [i \in 0..(n + 1) |-> h[i]]
    OBVIOUS
  <2>5. AttachedUpTo(c, map, links, n + 1, h)
    BY <2>3, <2>4 DEF AttachedUpTo
  <2> QED BY <2>5
<1>3. N = Nat
  <2> HIDE DEF N
  <2> QED BY <1>1, <1>2, Induction DEF N
<1> QED BY <1>3

LEMMA AttachedOnly ==
  ASSUME NEW c, CircuitOK(c), NEW map, NEW links, Len(links) \in Nat,
         NEW d, d = AttachAll(c, map, links).circuit
  PROVE  OtherLinks(c, d)
<1> DEFINE f == CHOOSE f : AttachedUpTo(c, map, links, Len(links), f)
<1>1. AttachedUpTo(c, map, links, Len(links), f)
  BY AttachedExists
<1>2. AttachAll(c, map, links) = f[Len(links)]
  BY DEF AttachAll, AttachedUpTo, Unattached
<1> HIDE DEF f
<1>3. \A i \in 0..Len(links) :
        f[i] = IF i = 0 THEN Unattached(c)
               ELSE AttachOne(f[i - 1], Mapped(map, links[i].start), Mapped(map, links[i].end))
  BY <1>1 DEF AttachedUpTo
<1> DEFINE Good(acc) == DOMAIN acc = {"ok", "circuit"} /\ OtherLinks(c, acc.circuit)
           N == {n \in Nat : n <= Len(links) => Good(f[n])}
<1>4. 0 \in N
  <2>1. f[0] = Unattached(c)
    BY <1>3
  <2>2. DOMAIN f[0] = {"ok", "circuit"} /\ f[0].circuit = c
    BY <2>1 DEF Unattached
  <2> QED BY <2>2 DEF OtherLinks
<1>5. ASSUME NEW n \in N PROVE n + 1 \in N
  <2>1. SUFFICES ASSUME n + 1 <= Len(links) PROVE Good(f[n + 1])
    OBVIOUS
  <2>2. PICK s, e, x, y : /\ s = Mapped(map, links[n + 1].start) /\ e = Mapped(map, links[n + 1].end)
                         /\ x = f[n] /\ y = f[n + 1]
    OBVIOUS
  <2>3. y = AttachOne(x, s, e)
    BY <1>3, <2>1, <2>2
  <2>4. DOMAIN x = {"ok", "circuit"} /\ OtherLinks(c, x.circuit)
    BY <2>1, <2>2
  <2> HIDE DEF N
  <2>5. CASE x.ok /\ CanConnect(x.circuit, s, e)
    <3>1. PICK d1, d2 : d1 = x.circuit /\ d2 = Connect(x.circuit, s, e)
      OBVIOUS
    <3>2. y = [x EXCEPT !.circuit = d2]
      BY <2>3, <2>5, <3>1 DEF AttachOne
    <3>3. OtherLinks(d1, d2)
      BY <2>4, <2>5, <3>1, ConnectedOnly DEF OtherLinks
    <3>4. OtherLinks(c, d2)
      BY <2>4, <3>1, <3>3 DEF OtherLinks
    <3>5. DOMAIN y = {"ok", "circuit"} /\ y.circuit = d2
      BY <2>4, <3>2
    <3> QED BY <2>2, <3>4, <3>5
  <2>6. CASE ~(x.ok /\ CanConnect(x.circuit, s, e))
    <3>1. y = [x EXCEPT !.ok = FALSE]
      BY <2>3, <2>6 DEF AttachOne
    <3>2. DOMAIN y = {"ok", "circuit"} /\ y.circuit = x.circuit
      BY <2>4, <3>1
    <3> QED BY <2>2, <2>4, <3>2
  <2> QED BY <2>5, <2>6
<1>6. N = Nat
  <2> HIDE DEF N
  <2> QED BY <1>4, <1>5, Induction DEF N
<1> QED BY <1>2, <1>6

LEMMA Detached ==
  ASSUME NEW c, CircuitOK(c), NEW links, NEW d, d = DetachAll(c, links)
  PROVE  OtherLinks(c, d) /\ d.graph.links = c.graph.links \ links
<1>1. PICK kept : kept = c.graph.links \ links
  OBVIOUS
<1>2. PICK g : g = [c.graph EXCEPT !.links = kept]
  OBVIOUS
<1>3. [c EXCEPT !.graph.links = @ \ links] = [c EXCEPT !.graph = g]
  BY <1>1, <1>2
<1>4. d = Rewire([c EXCEPT !.graph = g])
  BY <1>3 DEF DetachAll
<1>5. kept \in SUBSET c.graph.links
  BY <1>1
<1>6. CircuitOK(d) /\ d.graph = g /\ d.comps = c.comps /\ d.epoch = c.epoch
  BY <1>2, <1>4, <1>5, LinksCut
<1>7. IsGraph(c.graph)
  BY DEF CircuitOK, GraphOK
<1> QED BY <1>1, <1>2, <1>6, <1>7 DEF OtherLinks, IsGraph, GraphFields

\* A link closes no cycle with the links it is one of.
LEMMA NoWayRound ==
  ASSUME NEW edges, NEW nodes, Acyclic(edges, nodes), NEW a \in nodes, NEW b \in nodes,
         <<a, b>> \in edges, \A e \in edges : e = <<e[1], e[2]>> /\ e[1] \in nodes /\ e[2] \in nodes
  PROVE  \E R \in SUBSET nodes : b \in R /\ ClosedUnder(edges, R) /\ a \notin R
<1> DEFINE V == {m \in nodes : \A S \in SUBSET nodes : b \in S /\ ClosedUnder(edges, S) => m \in S}
<1>1. V \in SUBSET nodes /\ b \in V
  OBVIOUS
<1>2. ClosedUnder(edges, V)
  <2> SUFFICES ASSUME NEW e \in edges, e[1] \in V PROVE e[2] \in V
    BY DEF ClosedUnder
  <2>1. ASSUME NEW S \in SUBSET nodes, b \in S, ClosedUnder(edges, S) PROVE e[2] \in S
    <3>1. e[1] \in S
      BY <2>1
    <3> QED BY <2>1, <3>1 DEF ClosedUnder
  <2> QED BY <2>1
<1>3. ASSUME a \in V PROVE FALSE
  <2>1. PICK m \in V : \A k \in V : <<k, m>> \notin edges
    <3>1. V \in (SUBSET nodes) \ {{}}
      BY <1>1
    <3> HIDE DEF V
    <3> QED BY <3>1 DEF Acyclic
  <2>2. m # b
    BY <1>3, <2>1
  <2>3. PICK W : W = V \ {m}
    OBVIOUS
  <2>4. W \in SUBSET nodes /\ b \in W
    BY <1>1, <2>2, <2>3
  <2>5. ClosedUnder(edges, W)
    <3> SUFFICES ASSUME NEW e \in edges, e[1] \in W PROVE e[2] \in W
      BY DEF ClosedUnder
    <3>1. e[1] \in V /\ e[2] \in V
      BY <1>2, <2>3 DEF ClosedUnder
    <3>2. e[2] # m
      BY <2>1, <3>1
    <3> QED BY <2>3, <3>1, <3>2
  <2>6. m \in W
    BY <2>4, <2>5
  <2> QED BY <2>3, <2>6
<1> HIDE DEF V
<1> QED BY <1>1, <1>2, <1>3

\* A pin that has its place in the successor moves with its node.
Moves(c, n, map, pin) == pin \in PinsOf(c.graph, n) => pin \in DOMAIN map

LEMMA PinMoved ==
  ASSUME NEW c, CircuitOK(c), NEW n \in DOMAIN c.comps, NEW type \in Types, NEW made, NEW map,
         IsSuccessor(c, n, type, made, map),
         NEW pin \in InPins(c.graph) \cup OutPins(c.graph), Moves(c, n, map, pin),
         NEW q, q = Mapped(map, pin)
  PROVE  /\ pin \in InPins(c.graph) => q \in InPins(made.graph)
         /\ pin \in OutPins(c.graph) => q \in OutPins(made.graph)
         /\ NodeOf(made.graph, q) = (IF NodeOf(c.graph, pin) = n THEN c.graph.nextNode
                                    ELSE NodeOf(c.graph, pin))
         /\ NodeOf(c.graph, pin) \in DOMAIN c.graph.nodes
         /\ NodeOf(c.graph, pin) = n <=> pin \in PinsOf(c.graph, n)
         /\ pin \notin PinsOf(c.graph, n) => q = pin
         /\ pin \in PinsOf(c.graph, n) => q = map[pin] /\ q \notin InPins(c.graph) \cup OutPins(c.graph)
<1>1. PICK g, h, new : g = c.graph /\ h = made.graph /\ new = c.graph.nextNode
  OBVIOUS
<1>2. /\ GraphOK(g) /\ NodesOK(g) /\ n \in DOMAIN g.nodes
      /\ h = AddNode(g, Ports[type].ins, Ports[type].outs) /\ GraphOK(h) /\ NodesOK(h)
  BY <1>1 DEF IsSuccessor, IsCreated, CircuitOK, CompsOK, GraphOK
<1>3. /\ DOMAIN map \subseteq PinsOf(g, n) /\ new \in DOMAIN h.nodes
      /\ \A p \in DOMAIN map :
           /\ map[p] \in PinsOf(h, new)
           /\ p \in InPins(g) => map[p] \in ToSet(h.nodes[new].ins)
           /\ p \in OutPins(g) => map[p] \in ToSet(h.nodes[new].outs)
  BY <1>1 DEF IsSuccessor
<1>4. /\ InPins(h) = InPins(g) \cup ToSet(h.nodes[new].ins)
      /\ OutPins(h) = OutPins(g) \cup ToSet(h.nodes[new].outs)
      /\ NodeOf(h, pin) = NodeOf(g, pin)
  BY <1>1, <1>2, NodeAddedKeeps, PortsAssumption
<1>5. \A p \in PinsOf(h, new) : p \in Nat /\ p >= g.nextPin
  BY <1>1, <1>2, NodeAdded, PortsAssumption
<1>6. /\ NodeOf(g, pin) \in DOMAIN g.nodes /\ pin \in PinsOf(g, NodeOf(g, pin))
  BY <1>1, <1>2, InPinOf, OutPinOf
<1>7. NodeOf(g, pin) = n <=> pin \in PinsOf(g, n)
  BY <1>2, <1>6, NodeOfPin
<1>8. \A p \in InPins(g) \cup OutPins(g) : p \notin PinsOf(h, new)
  <2>1. \A p \in InPins(g) \cup OutPins(g) : p \in Nat /\ p < g.nextPin
    BY <1>2, InPinOf, OutPinOf
  <2> QED BY <1>2, <1>5, <2>1 DEF NodesOK
<1>9. CASE pin \in PinsOf(g, n)
  <2>1. q = map[pin] /\ pin \in DOMAIN map
    BY <1>1, <1>9 DEF Moves, Mapped
  <2>2. NodeOf(h, q) = new
    BY <1>2, <1>3, <2>1, NodeOfPin
  <2> QED BY <1>1, <1>3, <1>4, <1>6, <1>7, <1>8, <1>9, <2>1, <2>2
<1>10. CASE pin \notin PinsOf(g, n)
  <2>1. q = pin
    BY <1>3, <1>10 DEF Mapped
  <2> QED BY <1>1, <1>4, <1>6, <1>7, <1>10, <2>1
<1> QED BY <1>9, <1>10

LEMMA PinsMovedApart ==
  ASSUME NEW c, CircuitOK(c), NEW n \in DOMAIN c.comps, NEW type \in Types, NEW made, NEW map,
         IsSuccessor(c, n, type, made, map),
         NEW p \in InPins(c.graph) \cup OutPins(c.graph), Moves(c, n, map, p),
         NEW q \in InPins(c.graph) \cup OutPins(c.graph), Moves(c, n, map, q),
         Mapped(map, p) = Mapped(map, q)
  PROVE  p = q
<1>1. PICK x, y : x = Mapped(map, p) /\ y = Mapped(map, q)
  OBVIOUS
<1>2. /\ p \notin PinsOf(c.graph, n) => x = p
      /\ p \in PinsOf(c.graph, n) => x = map[p] /\ x \notin InPins(c.graph) \cup OutPins(c.graph)
  BY <1>1, PinMoved
<1>3. /\ q \notin PinsOf(c.graph, n) => y = q
      /\ q \in PinsOf(c.graph, n) => y = map[q] /\ y \notin InPins(c.graph) \cup OutPins(c.graph)
  BY <1>1, PinMoved
<1>4. \A a, b \in DOMAIN map : map[a] = map[b] => a = b
  BY DEF IsSuccessor
<1> QED BY <1>1, <1>2, <1>3, <1>4 DEF Moves

\* Each link of x is one of the old links, carried over.
Same(map, o, k) == k.start = Mapped(map, o.start) /\ k.end = Mapped(map, o.end)
Carried(map, done, x) ==
  /\ \A k \in x.graph.links : \E o \in done : Same(map, o, k)
  /\ \A o \in done : \E k \in x.graph.links : Same(map, o, k)
AllMove(c, n, map) ==
  \A l \in c.graph.links : Moves(c, n, map, l.start) /\ Moves(c, n, map, l.end)

\* The next link of a part that fits is never rejected.
LEMMA NextLinkFits ==
  ASSUME NEW c, CircuitOK(c), NEW n \in DOMAIN c.comps, NEW type \in Types, NEW made, NEW map,
         IsSuccessor(c, n, type, made, map), AllMove(c, n, map),
         NEW done \in SUBSET c.graph.links, NEW l \in c.graph.links, l \notin done,
         NEW x, OtherLinks(made, x), Carried(map, done, x),
         NEW start, start = Mapped(map, l.start), NEW end, end = Mapped(map, l.end),
         GraphLinkAllowed(made, start, end)
  PROVE  CanConnect(x, start, end)
<1>1. PICK g, h, xg, new : g = c.graph /\ h = made.graph /\ xg = x.graph /\ new = c.graph.nextNode
  OBVIOUS
<1>2. GraphOK(g) /\ NodesOK(g) /\ LinksOK(g)
  BY <1>1 DEF CircuitOK, GraphOK
<1>3. xg.nodes = h.nodes /\ x.comps = made.comps
  BY <1>1 DEF OtherLinks
<1>4. InPins(xg) = InPins(h) /\ OutPins(xg) = OutPins(h) /\ \A pin : NodeOf(xg, pin) = NodeOf(h, pin)
  BY <1>3, SameNodes
<1> DEFINE back(m) == IF m = new THEN n ELSE m
<1>5. ASSUME NEW o \in g.links
      PROVE  /\ Mapped(map, o.start) \in OutPins(h) /\ Mapped(map, o.end) \in InPins(h)
             /\ back(NodeOf(h, Mapped(map, o.start))) = NodeOf(g, o.start)
             /\ back(NodeOf(h, Mapped(map, o.end))) = NodeOf(g, o.end)
             /\ NodeOf(g, o.start) \in DOMAIN g.nodes /\ NodeOf(g, o.end) \in DOMAIN g.nodes
  <2>1. o.start \in OutPins(g) /\ o.end \in InPins(g)
    BY <1>2 DEF LinksOK
  <2>2. Moves(c, n, map, o.start) /\ Moves(c, n, map, o.end)
    BY <1>1 DEF AllMove
  <2>3. PICK p, q : p = Mapped(map, o.start) /\ q = Mapped(map, o.end)
    OBVIOUS
  <2>4. /\ p \in OutPins(h) /\ NodeOf(g, o.start) \in DOMAIN g.nodes
        /\ NodeOf(h, p) = (IF NodeOf(g, o.start) = n THEN new ELSE NodeOf(g, o.start))
    BY <1>1, <2>1, <2>2, <2>3, PinMoved
  <2>5. /\ q \in InPins(h) /\ NodeOf(g, o.end) \in DOMAIN g.nodes
        /\ NodeOf(h, q) = (IF NodeOf(g, o.end) = n THEN new ELSE NodeOf(g, o.end))
    BY <1>1, <2>1, <2>2, <2>3, PinMoved
  <2>6. new \notin DOMAIN g.nodes
    BY <1>1 DEF IsSuccessor, IsCreated, CircuitOK, CompsOK
  <2> QED BY <2>3, <2>4, <2>5, <2>6
<1>6. start \in OutPins(xg) /\ end \in InPins(xg)
  BY <1>1, <1>4, <1>5
<1>7. GraphLinkAllowed(x, start, end)
  BY <1>1, <1>3, PolicyOfNodes
<1>8. ~InputHasLink(xg, end)
  <2> SUFFICES ASSUME NEW k \in xg.links, k.end = end PROVE FALSE
    BY DEF InputHasLink
  <2>1. PICK o \in done : k.end = Mapped(map, o.end)
    BY <1>1 DEF Carried, Same
  <2>2. o \in g.links /\ o.end \in InPins(g) /\ l.end \in InPins(g)
    BY <1>1, <1>2 DEF LinksOK
  <2>3. Moves(c, n, map, o.end) /\ Moves(c, n, map, l.end)
    BY <1>1, <2>2 DEF AllMove
  <2>4. o.end = l.end
    BY <1>1, <2>1, <2>2, <2>3, PinsMovedApart
  <2>5. o = l
    BY <1>1, <1>2, <2>2, <2>4 DEF LinksOK
  <2> QED BY <2>5
<1>9. PICK R \in SUBSET DOMAIN g.nodes :
        NodeOf(g, l.end) \in R /\ ClosedUnder(Edges(g), R) /\ NodeOf(g, l.start) \notin R
  <2>1. PICK nodes, edges, a, b : /\ nodes = DOMAIN g.nodes /\ edges = Edges(g)
                                 /\ a = NodeOf(g, l.start) /\ b = NodeOf(g, l.end)
    OBVIOUS
  <2>2. Acyclic(edges, nodes)
    BY <1>2, <2>1 DEF LinksOK
  <2>3. a \in nodes /\ b \in nodes /\ <<a, b>> \in edges
    BY <1>1, <1>5, <2>1 DEF Edges
  <2>4. \A e \in edges : e = <<e[1], e[2]>> /\ e[1] \in nodes /\ e[2] \in nodes
    BY <1>5, <2>1 DEF Edges
  <2> QED BY <2>1, <2>2, <2>3, <2>4, NoWayRound
<1>10. PICK T : T = {m \in DOMAIN xg.nodes : back(m) \in R}
  OBVIOUS
<1>11. ClosedUnder(Edges(xg), T)
  <2> SUFFICES ASSUME NEW e \in Edges(xg), e[1] \in T PROVE e[2] \in T
    BY DEF ClosedUnder
  <2>1. PICK k \in xg.links : e = <<NodeOf(xg, k.start), NodeOf(xg, k.end)>>
    BY DEF Edges
  <2>2. PICK o \in g.links : k.start = Mapped(map, o.start) /\ k.end = Mapped(map, o.end)
    BY <1>1 DEF Carried, Same
  <2>3. e[1] = NodeOf(h, k.start) /\ e[2] = NodeOf(h, k.end)
    BY <1>4, <2>1
  <2>4. back(e[1]) = NodeOf(g, o.start) /\ back(e[2]) = NodeOf(g, o.end)
    BY <1>5, <2>2, <2>3
  <2>5. <<NodeOf(g, o.start), NodeOf(g, o.end)>> \in Edges(g)
    BY DEF Edges
  <2>6. NodeOf(g, o.start) \in R
    BY <1>10, <2>4
  <2>7. NodeOf(g, o.end) \in R
    BY <1>9, <2>5, <2>6 DEF ClosedUnder
  <2>8. e[2] \in DOMAIN xg.nodes
    <3>1. NodesOK(xg)
      BY <1>1 DEF OtherLinks, CircuitOK, GraphOK
    <3>2. k.end \in InPins(xg)
      BY <1>4, <1>5, <2>2
    <3> QED BY <2>1, <3>1, <3>2, InPinOf
  <2> QED BY <1>10, <2>4, <2>7, <2>8
<1>12. ~WouldCreateCycle(xg, start, end)
  <2>1. PICK from, to : from = NodeOf(xg, start) /\ to = NodeOf(xg, end)
    OBVIOUS
  <2>2. back(from) = NodeOf(g, l.start) /\ back(to) = NodeOf(g, l.end)
    BY <1>1, <1>4, <1>5, <2>1
  <2>3. to \in DOMAIN xg.nodes
    <3>1. NodesOK(xg)
      BY <1>1 DEF OtherLinks, CircuitOK, GraphOK
    <3> QED BY <1>6, <2>1, <3>1, InPinOf
  <2>4. to \in T /\ from \notin T /\ T \in SUBSET DOMAIN xg.nodes
    BY <1>9, <1>10, <2>2, <2>3
  <2>5. from \notin Visited(xg, to)
    BY <1>11, <2>4 DEF Visited
  <2>6. from # to
    BY <2>4
  <2> QED BY <2>1, <2>5, <2>6 DEF WouldCreateCycle
<1> QED BY <1>1, <1>6, <1>7, <1>8, <1>12 DEF CanConnect, CanAddLink

\* The links of done are attached, none was rejected.
Attached(made, map, done, acc) ==
  /\ DOMAIN acc = {"ok", "circuit"} /\ acc.ok = TRUE
  /\ OtherLinks(made, acc.circuit) /\ Carried(map, done, acc.circuit)

LEMMA NextLinkAttached ==
  ASSUME NEW c, CircuitOK(c), NEW n \in DOMAIN c.comps, NEW type \in Types, NEW made, NEW map,
         IsSuccessor(c, n, type, made, map), AllMove(c, n, map),
         NEW done \in SUBSET c.graph.links, NEW l \in c.graph.links, l \notin done,
         GraphLinkAllowed(made, Mapped(map, l.start), Mapped(map, l.end)),
         NEW acc, Attached(made, map, done, acc),
         NEW next, next = AttachOne(acc, Mapped(map, l.start), Mapped(map, l.end))
  PROVE  Attached(made, map, done \cup {l}, next)
<1>0. /\ DOMAIN acc = {"ok", "circuit"} /\ acc.ok = TRUE
      /\ OtherLinks(made, acc.circuit) /\ Carried(map, done, acc.circuit)
  BY DEF Attached
<1>1. PICK x, start, end : x = acc.circuit /\ start = Mapped(map, l.start) /\ end = Mapped(map, l.end)
  OBVIOUS
<1>2. CanConnect(x, start, end)
  BY <1>0, <1>1, NextLinkFits
<1>3. PICK d : d = Connect(x, start, end)
  OBVIOUS
<1>4. next = [acc EXCEPT !.circuit = d]
  BY <1>0, <1>1, <1>2, <1>3 DEF AttachOne
<1>5. DOMAIN next = {"ok", "circuit"} /\ next.ok = TRUE /\ next.circuit = d
  BY <1>0, <1>4
<1>6. CircuitOK(x)
  BY <1>0, <1>1 DEF OtherLinks
<1>7. OtherLinks(x, d)
  BY <1>2, <1>3, <1>6, ConnectedOnly
<1>8. OtherLinks(made, d)
  BY <1>0, <1>1, <1>7 DEF OtherLinks
<1>9. d.graph = AddLink(x.graph, start, end)
  BY <1>2, <1>3, <1>6, Connected
<1>10. d.graph.links = x.graph.links \cup {[id |-> x.graph.nextLink, start |-> start, end |-> end]}
  BY <1>6, <1>9 DEF AddLink, CircuitOK, GraphOK, IsGraph, GraphFields
<1>11. Carried(map, done \cup {l}, d)
  <2>1. PICK k : k = [id |-> x.graph.nextLink, start |-> start, end |-> end]
    OBVIOUS
  <2>2. d.graph.links = x.graph.links \cup {k} /\ Same(map, l, k)
    BY <1>1, <1>10, <2>1 DEF Same
  <2>3. Carried(map, done, x)
    BY <1>0, <1>1
  <2> QED BY <2>2, <2>3 DEF Carried
<1> QED BY <1>5, <1>8, <1>11 DEF Attached

\* All the links of the part go over to its successor.
LEMMA EveryLinkAttached ==
  ASSUME NEW c, CircuitOK(c), NEW n \in DOMAIN c.comps, NEW type \in Types, NEW made, NEW map,
         IsSuccessor(c, n, type, made, map), NEW links, links = LinksOf(c, n),
         NEW pins, MapFits(c, n, made, map, links, pins),
         NEW acc, acc = AttachAll(DetachAll(made, links), map, InOrder(links))
  PROVE  /\ acc.ok = TRUE /\ OtherLinks(made, acc.circuit) /\ AllMove(c, n, map)
         /\ Carried(map, c.graph.links, acc.circuit)
<1>1. PICK g : g = c.graph
  OBVIOUS
<1>2. GraphOK(g) /\ NodesOK(g) /\ LinksOK(g) /\ n \in DOMAIN g.nodes
  BY <1>1 DEF CircuitOK, CompsOK, GraphOK
<1>3. links \in SUBSET g.links /\ \A l \in g.links : l \in links <=> {l.start, l.end} \cap PinsOf(g, n) # {}
  BY <1>1 DEF LinksOf
<1>4. DOMAIN map \subseteq PinsOf(g, n)
  BY <1>1 DEF IsSuccessor
<1>5. AllMove(c, n, map)
  <2> SUFFICES ASSUME NEW l \in g.links, NEW pin \in {l.start, l.end}, pin \in PinsOf(g, n)
               PROVE  pin \in DOMAIN map
    BY <1>1 DEF AllMove, Moves
  <2>1. l \in links
    BY <1>3
  <2> QED BY <1>1, <2>1 DEF MapFits
<1>6. \A l \in links : GraphLinkAllowed(made, Mapped(map, l.start), Mapped(map, l.end))
  BY DEF MapFits
<1>7. PICK s, k : s = InOrder(links) /\ k = Cardinality(links)
  OBVIOUS
<1>8. /\ k \in Nat /\ s \in [1..k -> links]
      /\ \A i, j \in 1..k : s[i] = s[j] => i = j
  BY <1>2, <1>3, <1>7, LinksListed
<1>9. Len(s) = k
  BY <1>8, ListIsSeq
<1>10. PICK cut : cut = DetachAll(made, links)
  OBVIOUS
<1>11. CircuitOK(made) /\ made.graph.links = g.links
  <2>1. CircuitOK(made) /\ made.graph = AddNode(g, Ports[type].ins, Ports[type].outs)
    BY <1>1 DEF IsSuccessor, IsCreated
  <2> QED BY <1>2, <2>1, NodeAdded, PortsAssumption DEF SameBeside
<1>12. OtherLinks(made, cut) /\ cut.graph.links = g.links \ links
  BY <1>10, <1>11, Detached
<1>13. Carried(map, g.links \ links, cut)
  <2> SUFFICES ASSUME NEW l \in g.links, l \notin links PROVE Same(map, l, l)
    BY <1>12 DEF Carried
  <2>1. l.start \notin DOMAIN map /\ l.end \notin DOMAIN map
    BY <1>3, <1>4
  <2> QED BY <2>1 DEF Mapped, Same
<1> DEFINE f == CHOOSE f : AttachedUpTo(cut, map, s, k, f)
<1>14. AttachedUpTo(cut, map, s, k, f)
  BY <1>8, AttachedExists
<1>15. acc = f[k]
  BY <1>7, <1>9, <1>10 DEF AttachAll, AttachedUpTo, Unattached
<1> HIDE DEF f
<1>16. \A i \in 0..k : f[i] = IF i = 0 THEN Unattached(cut)
                              ELSE AttachOne(f[i - 1], Mapped(map, s[i].start), Mapped(map, s[i].end))
  BY <1>14 DEF AttachedUpTo
<1> DEFINE First(i) == {s[j] : j \in 1..i}
           Done(i) == (g.links \ links) \cup First(i)
           N == {i \in Nat : i <= k => Attached(made, map, Done(i), f[i])}
<1>17. 0 \in N
  <2>1. f[0] = Unattached(cut)
    BY <1>8, <1>16
  <2>2. DOMAIN f[0] = {"ok", "circuit"} /\ f[0].ok = TRUE /\ f[0].circuit = cut
    BY <2>1 DEF Unattached
  <2>3. Done(0) = g.links \ links
    OBVIOUS
  <2> HIDE DEF Done
  <2>4. Attached(made, map, Done(0), f[0])
    BY <1>12, <1>13, <2>2, <2>3 DEF Attached
  <2> QED BY <2>4
<1>18. ASSUME NEW i \in N PROVE i + 1 \in N
  <2>0. i \in Nat /\ (i <= k => Attached(made, map, Done(i), f[i]))
    OBVIOUS
  <2>1. SUFFICES ASSUME i + 1 <= k PROVE Attached(made, map, Done(i + 1), f[i + 1])
    BY <2>0
  <2>2. PICK x, y, l : x = f[i] /\ y = f[i + 1] /\ l = s[i + 1]
    OBVIOUS
  <2>3. i \in Nat /\ i + 1 \in 1..k
    BY <2>1
  <2>4. y = AttachOne(x, Mapped(map, l.start), Mapped(map, l.end))
    BY <1>16, <2>2, <2>3
  <2>5. Attached(made, map, Done(i), x)
    BY <1>8, <2>0, <2>1, <2>2
  <2>6. l \in links /\ l \in g.links
    BY <1>3, <1>8, <2>2, <2>3
  <2>7. l \notin Done(i) /\ Done(i) \in SUBSET g.links /\ Done(i + 1) = Done(i) \cup {l}
    <3>1. \A j \in 1..i : j \in 1..k /\ s[j] # l
      BY <1>8, <2>2, <2>3
    <3>2. 1..(i + 1) = 1..i \cup {i + 1}
      BY <2>3
    <3>3. {s[j] : j \in 1..(i + 1)} = {s[j] : j \in 1..i} \cup {l}
      BY <2>2, <3>2
    <3>4. First(i) \in SUBSET links /\ l \notin First(i) /\ First(i + 1) = First(i) \cup {l}
      BY <1>8, <3>1, <3>3
    <3> HIDE DEF First
    <3> QED BY <1>3, <2>6, <3>4
  <2>8. PICK done : done = Done(i) /\ done \cup {l} = Done(i + 1)
    BY <2>7
  <2> HIDE DEF Done, N
  <2>9. l \notin done /\ done \in SUBSET c.graph.links /\ l \in c.graph.links
    BY <1>1, <2>6, <2>7, <2>8
  <2>10. Attached(made, map, done \cup {l}, y)
    <3>1. GraphLinkAllowed(made, Mapped(map, l.start), Mapped(map, l.end))
      BY <1>6, <2>6
    <3> QED BY <1>5, <2>4, <2>5, <2>8, <2>9, <3>1, NextLinkAttached
  <2> QED BY <2>2, <2>8, <2>10
<1>19. N = Nat
  <2> HIDE DEF N
  <2> QED BY <1>17, <1>18, Induction DEF N
<1>20. Attached(made, map, Done(k), f[k])
  <2> HIDE DEF Done
  <2>1. k \in N
    BY <1>8, <1>19
  <2> QED BY <1>8, <2>1
<1>21. Done(k) = g.links
  <2>1. s \in Surjection(1..k, links)
    BY <1>2, <1>3, <1>7, LinksListed
  <2>2. First(k) = links
    BY <2>1 DEF Surjection
  <2> HIDE DEF First
  <2> QED BY <1>3, <2>2
<1> HIDE DEF Done
<1> QED BY <1>1, <1>5, <1>15, <1>20, <1>21 DEF Attached

\* A part that fits is replaced with all its links.
LEMMA SwapAttaches ==
  ASSUME NEW c, CircuitOK(c), NEW n \in DOMAIN c.comps, NEW type \in Types, NEW pins,
         SwapFits(c, n, type, pins)
  PROVE  Attach(c, n, type).ok
<1>1. PICK made, map, links :
        made = Successor(c, n, type) /\ map = SwapMap(c, n, type) /\ links = LinksOf(c, n)
  OBVIOUS
<1>2. IsSuccessor(c, n, type, made, map)
  BY <1>1, SuccessorMade
<1>3. MapFits(c, n, made, map, links, pins)
  BY <1>1 DEF SwapFits
<1>4. PICK acc : acc = AttachAll(DetachAll(made, links), map, InOrder(links))
  OBVIOUS
<1>5. acc.ok = TRUE
  BY <1>1, <1>2, <1>3, <1>4, EveryLinkAttached
<1>6. Attach(c, n, type) = acc
  BY <1>1, <1>4 DEF Attach
<1> QED BY <1>5, <1>6

-----------------------------------------------------------------------------
(* Replacing a part *)

\* made becomes attached: other links, and the marks of node n on its successor.
IsSwapped(c, n, map, d) ==
  LET new == c.graph.nextNode
  IN  /\ CircuitOK(d) /\ Bounded(d) /\ d.epoch = c.epoch
      /\ new \notin DOMAIN c.comps /\ new \in Nat
      /\ DOMAIN d.comps = (DOMAIN c.comps \ {n}) \cup {new}
      /\ d.comps[new].who = c.comps[n].who
      /\ \A m \in DOMAIN c.comps \ {n} :
           d.comps[m] = c.comps[m] /\ d.graph.nodes[m] = c.graph.nodes[m]
      /\ d.graph.nextNode >= c.graph.nextNode /\ d.graph.nextPin >= c.graph.nextPin
      /\ DOMAIN map \subseteq PinsOf(c.graph, n)
      /\ \A pin \in DOMAIN map :
           /\ SamePort(c.graph.nodes[n], d.graph.nodes[new], pin, map[pin])
           /\ map[pin] \in PinsOf(d.graph, new)
      /\ \A pin \in PinsOf(d.graph, new) : pin >= c.graph.nextPin

\* The links, probes and subcircuits of n go over to its successor, and so does
\* its component id.
KeepsMarks(c, n, map, d) ==
  LET new == c.graph.nextNode
  IN  /\ d.comps[new].cid = c.comps[n].cid
      /\ AllMove(c, n, map) /\ Carried(map, c.graph.links, d)
      /\ DOMAIN d.graph.probes = DOMAIN c.graph.probes
      /\ \A i \in DOMAIN c.graph.probes :
           /\ d.graph.probes[i] = Mapped(map, c.graph.probes[i])
           /\ Moves(c, n, map, c.graph.probes[i])
      /\ DOMAIN d.graph.groups = DOMAIN c.graph.groups
      /\ \A gid \in DOMAIN c.graph.groups :
           d.graph.groups[gid].members
             = {IF m = n THEN new ELSE m : m \in c.graph.groups[gid].members}

\* What NodeRemoved says of the links and of marks that are elsewhere
LEMMA LinksRemoved ==
  ASSUME NEW g, GraphOK(g), NEW n \in DOMAIN g.nodes, NEW h, h = RemoveNode(g, n)
  PROVE  h.links = {l \in g.links : l.start \notin PinsOf(g, n) /\ l.end \notin PinsOf(g, n)}
<1>1. NodeRemovedFrom(g, n, h)
  BY NodeRemoved
<1> QED BY <1>1 DEF NodeRemovedFrom

LEMMA MarksKept ==
  ASSUME NEW g, GraphOK(g), NEW n \in DOMAIN g.nodes, NEW h, h = RemoveNode(g, n),
         ToSet(g.probes) \cap PinsOf(g, n) = {},
         \A gid \in DOMAIN g.groups : n \notin g.groups[gid].members
  PROVE  /\ h.probes = g.probes /\ DOMAIN h.groups = DOMAIN g.groups
         /\ \A gid \in DOMAIN g.groups : h.groups[gid].members = g.groups[gid].members
<1>1. NodeRemovedFrom(g, n, h)
  BY NodeRemoved
<1> QED BY <1>1 DEF NodeRemovedFrom

LEMMA Swapped ==
  ASSUME NEW c, CircuitOK(c), NEW n \in DOMAIN c.comps, NEW type \in Types, NEW pins,
         SwapFits(c, n, type, pins), NEW map, map = SwapMap(c, n, type),
         NEW d, d = SwapComponent(c, n, type)
  PROVE  IsSwapped(c, n, map, d) /\ KeepsMarks(c, n, map, d)
<1>1. PICK g, new, made, links :
        g = c.graph /\ new = c.graph.nextNode /\ made = Successor(c, n, type) /\ links = LinksOf(c, n)
  OBVIOUS
<1>2. PICK x : x = Attach(c, n, type).circuit
  OBVIOUS
<1>3. PICK h, xg : h = made.graph /\ xg = x.graph
  OBVIOUS
<1>4. PICK yg, y, z : /\ yg = RemapNode(xg, n, new, map)
                      /\ y = [x EXCEPT !.graph = yg]
                      /\ z = RemoveComponent(y, n)
  OBVIOUS
<1>5. d = TopologyChanged(z)
  <2>1. [x EXCEPT !.graph = RemapNode(@, n, c.graph.nextNode, SwapMap(c, n, type))] = y
    BY <1>1, <1>3, <1>4
  <2> QED BY <1>2, <1>4, <2>1 DEF SwapComponent
<1>6. IsSuccessor(c, n, type, made, map)
  BY <1>1, SuccessorMade
<1>7. /\ IsCreated(c, made, type, c.comps[n].cid, c.comps[n].who)
      /\ n # new /\ new \in DOMAIN h.nodes /\ n \in DOMAIN h.nodes
      /\ DOMAIN map \subseteq PinsOf(g, n)
      /\ \A pin \in DOMAIN map : /\ SamePort(g.nodes[n], h.nodes[new], pin, map[pin])
                                 /\ map[pin] \in PinsOf(h, new)
      /\ \A p, q \in DOMAIN map : map[p] = map[q] => p = q
  BY <1>1, <1>3, <1>6 DEF IsSuccessor
<1>8. /\ CircuitOK(made) /\ h = AddNode(g, Ports[type].ins, Ports[type].outs)
      /\ new \notin DOMAIN c.comps /\ new \in Nat
      /\ DOMAIN made.comps = DOMAIN c.comps \cup {new}
      /\ made.comps[new].who = c.comps[n].who
      /\ \A m \in DOMAIN c.comps : made.comps[m] = c.comps[m]
      /\ made.epoch = c.epoch
  BY <1>1, <1>3, <1>7 DEF IsCreated
<1>9. GraphOK(g) /\ NodesOK(g) /\ ProbesOK(g) /\ GroupsOK(g) /\ DOMAIN c.comps = DOMAIN g.nodes
  BY <1>1 DEF CircuitOK, CompsOK, GraphOK
<1>10. /\ DOMAIN h.nodes = DOMAIN g.nodes \cup {new}
       /\ SameBeside(g, h) /\ h.nextNode = new + 1 /\ h.nextPin >= g.nextPin
       /\ \A m \in DOMAIN g.nodes : h.nodes[m] = g.nodes[m] /\ PinsOf(h, m) = PinsOf(g, m)
       /\ \A pin \in PinsOf(h, new) : pin \in Nat /\ pin >= g.nextPin
  <2>1. PICK ins \in Nat, outs \in Nat : ins = Ports[type].ins /\ outs = Ports[type].outs
    BY PortsAssumption
  <2>2. h = AddNode(g, ins, outs) /\ new = g.nextNode /\ GraphOK(g)
    BY <1>1, <1>8, <1>9, <2>1
  <2>3. /\ DOMAIN h.nodes = DOMAIN g.nodes \cup {new}
        /\ SameBeside(g, h) /\ h.nextNode = new + 1 /\ h.nextPin = g.nextPin + ins + outs
        /\ \A m \in DOMAIN g.nodes : h.nodes[m] = g.nodes[m] /\ PinsOf(h, m) = PinsOf(g, m)
        /\ \A pin \in PinsOf(h, new) : pin \in Nat /\ pin >= g.nextPin
    BY <2>2, NodeAdded
  <2>4. g.nextPin \in Nat
    BY <1>9 DEF NodesOK
  <2> QED BY <2>3, <2>4
<1>11. OtherLinks(made, x)
  <2>1. PICK cut : cut = DetachAll(made, links)
    OBVIOUS
  <2>2. OtherLinks(made, cut)
    BY <1>8, <2>1, Detached
  <2>3. Len(InOrder(links)) \in Nat
    <3>1. links \in SUBSET g.links
      BY <1>1 DEF LinksOf
    <3>2. PICK s, k : s = InOrder(links) /\ k = Cardinality(links)
      OBVIOUS
    <3>3. k \in Nat /\ s \in [1..k -> links]
      BY <1>9, <3>1, <3>2, LinksListed
    <3>4. Len(s) = k
      BY <3>3, ListIsSeq
    <3> QED BY <3>2, <3>3, <3>4
  <2>4. x = AttachAll(cut, map, InOrder(links)).circuit
    BY <1>1, <1>2, <2>1 DEF Attach
  <2>5. OtherLinks(cut, x)
    BY <2>2, <2>3, <2>4, AttachedOnly DEF OtherLinks
  <2> QED BY <2>2, <2>5 DEF OtherLinks
<1>12. /\ CircuitOK(x) /\ x.comps = made.comps /\ x.epoch = made.epoch
       /\ GraphOK(xg) /\ xg.nodes = h.nodes /\ xg.probes = g.probes /\ xg.groups = g.groups
       /\ xg.nextNode = h.nextNode /\ xg.nextPin = h.nextPin
  BY <1>3, <1>10, <1>11 DEF OtherLinks, SameBeside, CircuitOK
<1>13. \A m : PinsOf(xg, m) = PinsOf(h, m)
  BY <1>12, SameNodes
<1>14. ToSet(xg.probes) \cap PinsOf(xg, n) \subseteq DOMAIN map
  <2>1. MapFits(c, n, made, map, links, pins)
    BY <1>1 DEF SwapFits
  <2>2. ToSet(g.probes) \cap PinsOf(g, n) \subseteq DOMAIN map
    BY <1>1, <2>1 DEF MapFits
  <2> QED BY <1>9, <1>10, <1>12, <1>13, <2>2
<1>15. ToSet(xg.probes) \cap PinsOf(xg, new) = {}
  <2>1. \A pin \in InPins(g) \cup OutPins(g) : pin \in Nat /\ pin < g.nextPin
    BY <1>9, InPinOf, OutPinOf
  <2>2. \A pin \in ToSet(xg.probes) : pin \in Nat /\ pin < g.nextPin
    BY <1>9, <1>12, <2>1 DEF ProbesOK
  <2>3. \A pin \in PinsOf(xg, new) : pin \in Nat /\ pin >= g.nextPin
    BY <1>10, <1>13
  <2> QED BY <1>9, <2>2, <2>3 DEF NodesOK
<1>16. \A gid \in DOMAIN xg.groups : new \notin xg.groups[gid].members
  BY <1>8, <1>9, <1>12 DEF GroupsOK
<1>17. /\ DOMAIN map \subseteq PinsOf(xg, n) /\ n \in DOMAIN xg.nodes /\ new \in DOMAIN xg.nodes
       /\ \A pin \in DOMAIN map : map[pin] \in PinsOf(xg, new)
  BY <1>7, <1>9, <1>10, <1>12, <1>13
<1>18. /\ GraphOK(yg) /\ yg.nodes = xg.nodes /\ yg.links = xg.links
       /\ yg.nextNode = xg.nextNode /\ yg.nextPin = xg.nextPin
  BY <1>4, <1>7, <1>12, <1>14, <1>15, <1>16, <1>17, NodeRemapped
<1>19. CircuitOK(y) /\ y.graph = yg /\ y.comps = x.comps /\ y.epoch = x.epoch
  BY <1>3, <1>4, <1>12, <1>18, GraphReplaced
<1>20. /\ CircuitOK(z) /\ z.graph = RemoveNode(yg, n)
       /\ z.comps = [m \in DOMAIN y.comps \ {n} |-> y.comps[m]] /\ z.epoch = y.epoch
  <2>1. CircuitOK(y) /\ z = RemoveComponent(y, n) /\ n \in DOMAIN y.comps
    BY <1>4, <1>8, <1>12, <1>19
  <2>2. /\ CircuitOK(z) /\ z.graph = RemoveNode(y.graph, n)
        /\ z.comps = [m \in DOMAIN y.comps \ {n} |-> y.comps[m]] /\ z.epoch = y.epoch
    BY <2>1, Removed
  <2> QED BY <1>19, <2>2
<1>21. /\ z.graph.nodes = [m \in DOMAIN yg.nodes \ {n} |-> yg.nodes[m]]
       /\ z.graph.nextNode = yg.nextNode /\ z.graph.nextPin = yg.nextPin
  <2>1. n \in DOMAIN yg.nodes
    BY <1>17, <1>18
  <2>2. PICK zg : zg = z.graph
    OBVIOUS
  <2> QED BY <1>18, <1>20, <2>1, <2>2, NodeRemoved DEF NodeRemovedFrom
<1>22. /\ CircuitOK(d) /\ Bounded(d) /\ d.graph = RebuildBoundaries(z.graph)
       /\ d.comps = z.comps /\ d.epoch = z.epoch
  BY <1>5, <1>20, TopologySettled
<1>23. /\ d.graph.nodes = z.graph.nodes
       /\ d.graph.nextNode = z.graph.nextNode /\ d.graph.nextPin = z.graph.nextPin
  BY <1>20, <1>22, BoundariesRebuilt DEF CircuitOK
<1>24. /\ DOMAIN d.comps = (DOMAIN c.comps \ {n}) \cup {new}
       /\ d.comps[new].who = c.comps[n].who
       /\ \A m \in DOMAIN c.comps \ {n} : d.comps[m] = c.comps[m]
  BY <1>7, <1>8, <1>12, <1>19, <1>20, <1>22
<1>25. /\ \A m \in DOMAIN c.comps \ {n} : d.graph.nodes[m] = g.nodes[m]
       /\ d.graph.nodes[new] = h.nodes[new] /\ PinsOf(d.graph, new) = PinsOf(h, new)
  <2>1. /\ \A m \in DOMAIN c.comps \ {n} : d.graph.nodes[m] = g.nodes[m]
        /\ d.graph.nodes[new] = h.nodes[new]
    <3>1. PICK nodes : nodes = yg.nodes
      OBVIOUS
    <3>2. nodes = h.nodes /\ d.graph.nodes = [m \in DOMAIN nodes \ {n} |-> nodes[m]]
      BY <1>12, <1>18, <1>21, <1>23, <3>1
    <3>3. /\ \A m \in DOMAIN c.comps : m \in DOMAIN nodes /\ nodes[m] = g.nodes[m]
          /\ n # new /\ new \in DOMAIN nodes
      BY <1>7, <1>8, <1>9, <1>10, <3>2
    <3>4. \A m \in DOMAIN c.comps \ {n} : m \in DOMAIN nodes \ {n}
      BY <3>3
    <3>5. new \in DOMAIN nodes \ {n}
      BY <3>3
    <3>6. \A m \in DOMAIN nodes \ {n} : d.graph.nodes[m] = nodes[m]
      BY <3>2
    <3> QED BY <3>2, <3>3, <3>4, <3>5, <3>6
  <2> QED BY <2>1 DEF PinsOf
<1>26. d.graph.nextNode >= c.graph.nextNode /\ d.graph.nextPin >= c.graph.nextPin
  BY <1>1, <1>8, <1>10, <1>12, <1>18, <1>21, <1>23, SMTT(30)
<1>27. \A pin \in PinsOf(d.graph, new) : pin >= c.graph.nextPin
  BY <1>1, <1>10, <1>25
<1>28. IsSwapped(c, n, map, d)
  BY <1>1, <1>7, <1>8, <1>12, <1>19, <1>20, <1>22, <1>24, <1>25, <1>26, <1>27, ZenonT(30)
     DEF IsSwapped
<1>29. AllMove(c, n, map) /\ Carried(map, g.links, x)
  <2>1. PICK acc : acc = AttachAll(DetachAll(made, links), map, InOrder(links))
    OBVIOUS
  <2>2. x = acc.circuit
    BY <1>1, <1>2, <2>1 DEF Attach
  <2>3. MapFits(c, n, made, map, links, pins)
    BY <1>1 DEF SwapFits
  <2>4. AllMove(c, n, map) /\ Carried(map, c.graph.links, acc.circuit)
    BY <1>1, <1>6, <2>1, <2>3, EveryLinkAttached
  <2> QED BY <1>1, <2>2, <2>4
<1>30. PinsOf(yg, n) = PinsOf(g, n) /\ PinsOf(g, n) \cap PinsOf(h, new) = {}
  <2>1. PinsOf(yg, n) = PinsOf(xg, n) /\ PinsOf(h, n) = PinsOf(g, n)
    BY <1>9, <1>10, <1>18 DEF PinsOf
  <2>2. PinsOf(h, n) \cap PinsOf(h, new) = {}
    BY <1>7, <1>8, <1>3 DEF CircuitOK, GraphOK, NodesOK
  <2> QED BY <1>13, <2>1, <2>2
<1>31. ASSUME NEW pin, Moves(c, n, map, pin) PROVE Mapped(map, pin) \notin PinsOf(g, n)
  <2>1. CASE pin \in DOMAIN map
    <3>1. Mapped(map, pin) \in PinsOf(h, new)
      BY <1>7, <2>1 DEF Mapped
    <3> QED BY <1>30, <3>1
  <2>2. CASE pin \notin DOMAIN map
    BY <1>1, <1>31, <2>2 DEF Mapped, Moves
  <2> QED BY <2>1, <2>2
<1>32. d.graph.links = x.graph.links
  <2>1. \A k \in x.graph.links : k.start \notin PinsOf(yg, n) /\ k.end \notin PinsOf(yg, n)
    <3> SUFFICES ASSUME NEW k \in x.graph.links
                 PROVE  k.start \notin PinsOf(g, n) /\ k.end \notin PinsOf(g, n)
      BY <1>30
    <3>1. PICK o \in g.links : k.start = Mapped(map, o.start) /\ k.end = Mapped(map, o.end)
      BY <1>29 DEF Carried, Same
    <3>2. Moves(c, n, map, o.start) /\ Moves(c, n, map, o.end)
      BY <1>1, <1>29 DEF AllMove
    <3> QED BY <1>31, <3>1, <3>2
  <2>2. z.graph.links = {l \in yg.links : l.start \notin PinsOf(yg, n) /\ l.end \notin PinsOf(yg, n)}
    <3>1. PICK zg : zg = z.graph
      OBVIOUS
    <3>2. GraphOK(yg) /\ n \in DOMAIN yg.nodes /\ zg = RemoveNode(yg, n)
      <4>1. n \in DOMAIN yg.nodes
        BY <1>17, <1>18
      <4>2. GraphOK(yg)
        BY <1>18
      <4>3. zg = RemoveNode(yg, n)
        BY <1>18, <1>20, <3>1
      <4> QED BY <4>1, <4>2, <4>3
    <3>3. zg.links = {l \in yg.links : l.start \notin PinsOf(yg, n) /\ l.end \notin PinsOf(yg, n)}
      BY <3>2, LinksRemoved
    <3> QED BY <3>1, <3>3
  <2>3. z.graph.links = x.graph.links
    BY <1>3, <1>18, <2>1, <2>2
  <2>4. d.graph.links = z.graph.links
    BY <1>20, <1>22, BoundariesRebuilt DEF CircuitOK
  <2> QED BY <2>3, <2>4
<1>33. Carried(map, g.links, d)
  BY <1>29, <1>32 DEF Carried
<1>34. /\ ToSet(yg.probes) \cap PinsOf(yg, n) = {}
       /\ DOMAIN yg.probes = DOMAIN g.probes
       /\ \A i \in DOMAIN g.probes : yg.probes[i] = Mapped(map, g.probes[i])
       /\ DOMAIN yg.groups = DOMAIN g.groups
       /\ \A gid \in DOMAIN g.groups :
            /\ n \notin yg.groups[gid].members
            /\ yg.groups[gid].members = {IF m = n THEN new ELSE m : m \in g.groups[gid].members}
  <2>1. /\ ToSet(yg.probes) \cap PinsOf(xg, n) = {}
        /\ DOMAIN yg.probes = DOMAIN xg.probes
        /\ \A i \in DOMAIN xg.probes :
             yg.probes[i] = IF xg.probes[i] \in DOMAIN map THEN map[xg.probes[i]] ELSE xg.probes[i]
        /\ DOMAIN yg.groups = DOMAIN xg.groups
        /\ \A gid \in DOMAIN xg.groups :
             /\ n \notin yg.groups[gid].members
             /\ yg.groups[gid].members = {IF m = n THEN new ELSE m : m \in xg.groups[gid].members}
    BY <1>4, <1>7, <1>12, <1>14, <1>15, <1>16, <1>17, NodeRemapped
  <2>2. PinsOf(yg, n) = PinsOf(xg, n)
    BY <1>18 DEF PinsOf
  <2> QED BY <1>12, <2>1, <2>2 DEF Mapped
<1>35. /\ d.graph.probes = yg.probes /\ DOMAIN d.graph.groups = DOMAIN yg.groups
       /\ \A gid \in DOMAIN yg.groups : d.graph.groups[gid].members = yg.groups[gid].members
  <2>1. PICK zg : zg = z.graph
    OBVIOUS
  <2>2. GraphOK(yg) /\ n \in DOMAIN yg.nodes /\ zg = RemoveNode(yg, n)
    <3>1. n \in DOMAIN yg.nodes
      BY <1>17, <1>18
    <3>2. GraphOK(yg)
      BY <1>18
    <3>3. zg = RemoveNode(yg, n)
      BY <1>18, <1>20, <2>1
    <3> QED BY <3>1, <3>2, <3>3
  <2>3. /\ zg.probes = yg.probes /\ DOMAIN zg.groups = DOMAIN yg.groups
        /\ \A gid \in DOMAIN yg.groups : zg.groups[gid].members = yg.groups[gid].members
    BY <1>34, <2>2, MarksKept
  <2>4. GraphOK(zg) /\ d.graph = RebuildBoundaries(zg)
    <3>1. GraphOK(z.graph) /\ d.graph = RebuildBoundaries(z.graph)
      BY <1>20, <1>22 DEF CircuitOK
    <3> QED BY <2>1, <3>1
  <2>5. /\ d.graph.probes = zg.probes /\ DOMAIN d.graph.groups = DOMAIN zg.groups
        /\ \A gid \in DOMAIN zg.groups : d.graph.groups[gid].members = zg.groups[gid].members
    BY <2>4, BoundariesRebuilt
  <2> QED BY <2>3, <2>5
<1>36. \A i \in DOMAIN g.probes : Moves(c, n, map, g.probes[i])
  <2>1. MapFits(c, n, made, map, links, pins)
    BY <1>1 DEF SwapFits
  <2>2. ToSet(g.probes) \cap PinsOf(g, n) \subseteq DOMAIN map
    BY <1>1, <2>1 DEF MapFits
  <2>3. \A i \in DOMAIN g.probes : g.probes[i] \in ToSet(g.probes)
    BY DEF ToSet
  <2> QED BY <1>1, <2>2, <2>3 DEF Moves
<1>37. d.comps[new].cid = c.comps[n].cid
  <2>1. made.comps[new].cid = c.comps[n].cid
    BY <1>1, <1>7 DEF IsCreated
  <2> QED BY <1>7, <1>8, <1>12, <1>19, <1>20, <1>22, <2>1
<1>38. KeepsMarks(c, n, map, d)
  BY <1>1, <1>29, <1>33, <1>34, <1>35, <1>36, <1>37 DEF KeepsMarks
<1> QED BY <1>28, <1>38

\* The successor is who the part was.
LEMMA WhoSwapped ==
  ASSUME NEW c, CircuitOK(c), WhoOK(c), NEW n \in DOMAIN c.comps, NEW map, NEW d,
         IsSwapped(c, n, map, d)
  PROVE  WhoOK(d) /\ BesideBut(c, d, n)
<1>1. PICK new : new = c.graph.nextNode
  OBVIOUS
<1>2. /\ d.epoch = c.epoch /\ DOMAIN d.comps = (DOMAIN c.comps \ {n}) \cup {new}
      /\ new \in Nat /\ new \notin DOMAIN c.comps /\ d.comps[new].who = c.comps[n].who
      /\ \A m \in DOMAIN c.comps \ {n} : d.comps[m] = c.comps[m]
  BY <1>1 DEF IsSwapped
<1>3. n \in Nat /\ n < new
  BY <1>1 DEF CircuitOK, CompsOK, GraphOK, NodesOK
<1>4. \A m, k \in DOMAIN d.comps : d.comps[m].who = d.comps[k].who => m = k
  BY <1>2 DEF WhoOK
<1>5. \A m \in DOMAIN d.comps : \E k \in Nat : k <= m /\ d.comps[m].who = <<d.epoch, k>>
  <2> SUFFICES ASSUME NEW m \in DOMAIN d.comps
               PROVE  \E k \in Nat : k <= m /\ d.comps[m].who = <<d.epoch, k>>
    OBVIOUS
  <2>1. CASE m = new
    <3>1. PICK k \in Nat : k <= n /\ c.comps[n].who = <<c.epoch, k>>
      BY DEF WhoOK
    <3>2. k <= new
      BY <1>2, <1>3, <3>1
    <3> QED BY <1>2, <2>1, <3>1, <3>2
  <2>2. CASE m # new
    BY <1>2, <2>2 DEF WhoOK
  <2> QED BY <2>1, <2>2
<1>6. BesideBut(c, d, n)
  BY <1>2 DEF WhoOK, BesideBut
<1> QED BY <1>4, <1>5, <1>6 DEF WhoOK

-----------------------------------------------------------------------------
(* The instruments' points *)

Live(c) == InPins(c.graph) \cup OutPins(c.graph)
\* A point is set to nothing, or to a pin that was given out and, while it is
\* there, is the port that was meant.
PointOK(c, point) ==
  /\ point = [pin |-> point.pin, meant |-> point.meant]
  /\ point.pin = NoId \/ (point.pin \in Nat /\ point.pin < c.graph.nextPin)
  /\ point.pin \in Live(c) => PortOf(c, point.pin) = point.meant
WatchOK(c, w) == DOMAIN w = Instruments /\ \A i \in Instruments : PointOK(c, w[i])

\* Every node of d is one of c's, or its pins are new.
NodesKept(c, d) ==
  /\ d.graph.nextPin >= c.graph.nextPin
  /\ \A m \in DOMAIN d.comps :
       \/ m \in DOMAIN c.comps /\ d.comps[m] = c.comps[m] /\ d.graph.nodes[m] = c.graph.nodes[m]
       \/ \A pin \in PinsOf(d.graph, m) : pin >= c.graph.nextPin

LEMMA LiveIs ==
  ASSUME NEW c, CircuitOK(c), NEW pin
  PROVE  /\ pin \in Live(c) =>
              /\ pin \in Nat /\ pin < c.graph.nextPin
              /\ NodeOf(c.graph, pin) \in DOMAIN c.comps
              /\ pin \in PinsOf(c.graph, NodeOf(c.graph, pin))
         /\ \A n \in DOMAIN c.comps : pin \in PinsOf(c.graph, n) =>
              pin \in Live(c) /\ NodeOf(c.graph, pin) = n
<1>1. NodesOK(c.graph) /\ DOMAIN c.comps = DOMAIN c.graph.nodes
  BY DEF CircuitOK, GraphOK, CompsOK
<1>2. pin \in Live(c) =>
        /\ pin \in Nat /\ pin < c.graph.nextPin
        /\ NodeOf(c.graph, pin) \in DOMAIN c.comps
        /\ pin \in PinsOf(c.graph, NodeOf(c.graph, pin))
  BY <1>1, InPinOf, OutPinOf DEF Live
<1>3. \A n \in DOMAIN c.comps : pin \in PinsOf(c.graph, n) =>
        pin \in Live(c) /\ NodeOf(c.graph, pin) = n
  BY <1>1, LivePin, NodeOfPin DEF Live
<1> QED BY <1>2, <1>3

LEMMA PortKept ==
  ASSUME NEW c, CircuitOK(c), NEW d, CircuitOK(d), NodesKept(c, d),
         NEW pin \in Live(d), pin < c.graph.nextPin
  PROVE  pin \in Live(c) /\ PortOf(d, pin) = PortOf(c, pin)
<1>1. PICK m : m = NodeOf(d.graph, pin)
  OBVIOUS
<1>2. pin \in Nat /\ m \in DOMAIN d.comps /\ pin \in PinsOf(d.graph, m)
  BY <1>1, LiveIs
<1>3. c.graph.nextPin \in Nat
  BY DEF CircuitOK, GraphOK, NodesOK
<1>4. m \in DOMAIN c.comps /\ d.comps[m] = c.comps[m] /\ d.graph.nodes[m] = c.graph.nodes[m]
  BY <1>2, <1>3 DEF NodesKept
<1>5. pin \in PinsOf(c.graph, m)
  BY <1>2, <1>4 DEF PinsOf
<1>6. pin \in Live(c) /\ NodeOf(c.graph, pin) = m
  BY <1>4, <1>5, LiveIs
<1> QED BY <1>1, <1>4, <1>6 DEF PortOf

LEMMA PointKept ==
  ASSUME NEW c, CircuitOK(c), NEW d, CircuitOK(d), NodesKept(c, d), NEW point, PointOK(c, point)
  PROVE  PointOK(d, point)
<1>1. c.graph.nextPin \in Nat /\ d.graph.nextPin \in Nat /\ d.graph.nextPin >= c.graph.nextPin
  BY DEF CircuitOK, GraphOK, NodesOK, NodesKept
<1>2. point.pin = NoId \/ (point.pin \in Nat /\ point.pin < d.graph.nextPin)
  <2>1. point.pin = NoId \/ (point.pin \in Nat /\ point.pin < c.graph.nextPin)
    BY DEF PointOK
  <2> QED BY <1>1, <2>1
<1>3. ASSUME point.pin \in Live(d) PROVE PortOf(d, point.pin) = point.meant
  <2>1. point.pin \in Nat
    BY <1>3, LiveIs
  <2>2. point.pin < c.graph.nextPin
    BY <2>1, NoIdAssumption DEF PointOK
  <2> QED BY <1>3, <2>2, PortKept DEF PointOK
<1> QED BY <1>2, <1>3 DEF PointOK

LEMMA WatchKept ==
  ASSUME NEW c, CircuitOK(c), NEW d, CircuitOK(d), NodesKept(c, d), NEW w, WatchOK(c, w)
  PROVE  WatchOK(d, w)
BY PointKept DEF WatchOK

\* A port of the part is the port of the successor that takes its place.
LEMMA PortMoved ==
  ASSUME NEW c, CircuitOK(c), NEW n \in DOMAIN c.comps, NEW d, CircuitOK(d), NEW new \in DOMAIN d.comps,
         d.comps[new].who = c.comps[n].who, NEW p, NEW q,
         SamePort(c.graph.nodes[n], d.graph.nodes[new], p, q)
  PROVE  q \in Live(d) /\ PortOf(d, q) = PortOf(c, p)
<1>1. PICK olds, news : olds = c.graph.nodes[n] /\ news = d.graph.nodes[new]
  OBVIOUS
<1>2. /\ NodesOK(c.graph) /\ n \in DOMAIN c.graph.nodes
      /\ NodesOK(d.graph) /\ new \in DOMAIN d.graph.nodes
  BY DEF CircuitOK, GraphOK, CompsOK
<1>3. /\ IsInjective(olds.ins) /\ IsInjective(olds.outs)
      /\ IsInjective(news.ins) /\ IsInjective(news.outs)
      /\ ToSet(olds.ins) \cap ToSet(olds.outs) = {} /\ ToSet(news.ins) \cap ToSet(news.outs) = {}
  BY <1>1, <1>2 DEF NodesOK
<1>4. SamePort(olds, news, p, q)
  BY <1>1
<1>5. /\ p \in ToSet(olds.outs) <=> q \in ToSet(news.outs)
      /\ p \in ToSet(olds.ins) \cup ToSet(olds.outs) /\ q \in ToSet(news.ins) \cup ToSet(news.outs)
      /\ IndexIn(IF p \in ToSet(olds.outs) THEN olds.outs ELSE olds.ins, p)
           = IndexIn(IF q \in ToSet(news.outs) THEN news.outs ELSE news.ins, q)
  <2>1. CASE \E i \in DOMAIN olds.ins \cap DOMAIN news.ins : p = olds.ins[i] /\ q = news.ins[i]
    <3>1. PICK i \in DOMAIN olds.ins \cap DOMAIN news.ins : p = olds.ins[i] /\ q = news.ins[i]
      BY <2>1
    <3>2. p \in ToSet(olds.ins) /\ q \in ToSet(news.ins)
      BY <3>1 DEF ToSet
    <3>3. IndexIn(olds.ins, p) = i /\ IndexIn(news.ins, q) = i
      BY <1>3, <3>1, IndexOf
    <3> QED BY <1>3, <3>2, <3>3
  <2>2. CASE \E i \in DOMAIN olds.outs \cap DOMAIN news.outs : p = olds.outs[i] /\ q = news.outs[i]
    <3>1. PICK i \in DOMAIN olds.outs \cap DOMAIN news.outs : p = olds.outs[i] /\ q = news.outs[i]
      BY <2>2
    <3>2. p \in ToSet(olds.outs) /\ q \in ToSet(news.outs)
      BY <3>1 DEF ToSet
    <3>3. IndexIn(olds.outs, p) = i /\ IndexIn(news.outs, q) = i
      BY <1>3, <3>1, IndexOf
    <3> QED BY <3>2, <3>3
  <2> QED BY <1>4, <2>1, <2>2 DEF SamePort
<1>6. p \in PinsOf(c.graph, n) /\ q \in PinsOf(d.graph, new)
  BY <1>1, <1>5 DEF PinsOf
<1>7. NodeOf(c.graph, p) = n /\ NodeOf(d.graph, q) = new /\ q \in Live(d)
  BY <1>6, LiveIs
<1> QED BY <1>1, <1>5, <1>7 DEF PortOf

LEMMA SwapKeepsNodes ==
  ASSUME NEW c, NEW n, NEW map, NEW d, IsSwapped(c, n, map, d)
  PROVE  NodesKept(c, d)
BY DEF IsSwapped, NodesKept

LEMMA PointsMoved ==
  ASSUME NEW c, CircuitOK(c), NEW n \in DOMAIN c.comps, NEW map, NEW d, IsSwapped(c, n, map, d),
         NEW w, WatchOK(c, w),
         NEW moved, moved = [i \in Instruments |-> [w[i] EXCEPT !.pin = Mapped(map, @)]]
  PROVE  WatchOK(d, moved)
<1>1. CircuitOK(d) /\ NodesKept(c, d)
  BY SwapKeepsNodes DEF IsSwapped
<1> SUFFICES ASSUME NEW i \in Instruments PROVE PointOK(d, moved[i])
  BY DEF WatchOK
<1>2. PICK point, q : point = w[i] /\ q = Mapped(map, point.pin)
  OBVIOUS
<1>3. PointOK(c, point) /\ point = [pin |-> point.pin, meant |-> point.meant]
  BY <1>2 DEF WatchOK, PointOK
<1>4. moved[i] = [pin |-> q, meant |-> point.meant]
  BY <1>2, <1>3
<1>5. CASE point.pin \in DOMAIN map
  <2>1. PICK new, p : new = c.graph.nextNode /\ p = point.pin
    OBVIOUS
  <2>2. /\ new \in DOMAIN d.comps /\ d.comps[new].who = c.comps[n].who
        /\ p \in PinsOf(c.graph, n) /\ q = map[p]
        /\ SamePort(c.graph.nodes[n], d.graph.nodes[new], p, q)
    BY <1>2, <1>5, <2>1 DEF IsSwapped, Mapped
  <2>3. q \in Live(d) /\ PortOf(d, q) = PortOf(c, p)
    BY <1>1, <2>2, PortMoved
  <2>4. p \in Live(c) /\ PortOf(c, p) = point.meant
    BY <1>3, <2>1, <2>2, LiveIs DEF PointOK
  <2>5. q \in Nat /\ q < d.graph.nextPin
    BY <1>1, <2>3, LiveIs
  <2> QED BY <1>4, <2>3, <2>4, <2>5 DEF PointOK
<1>6. CASE point.pin \notin DOMAIN map
  <2>1. moved[i] = point
    BY <1>2, <1>3, <1>4, <1>6 DEF Mapped
  <2> QED BY <1>1, <1>3, <2>1, PointKept
<1> QED BY <1>5, <1>6

-----------------------------------------------------------------------------
(* What a user sees of a circuit in which a part was replaced *)

\* A pin that is live and moves is, in the new circuit, the port it was.
LEMMA PortSwapped ==
  ASSUME NEW c, CircuitOK(c), NEW n \in DOMAIN c.comps, NEW map, NEW d, IsSwapped(c, n, map, d),
         NEW pin \in Live(c), Moves(c, n, map, pin)
  PROVE  Mapped(map, pin) \in Live(d) /\ PortOf(d, Mapped(map, pin)) = PortOf(c, pin)
<1>1. PICK new, m : new = c.graph.nextNode /\ m = NodeOf(c.graph, pin)
  OBVIOUS
<1>2. CircuitOK(d) /\ m \in DOMAIN c.comps /\ pin \in PinsOf(c.graph, m)
  BY <1>1, LiveIs DEF IsSwapped
<1>3. CASE pin \in DOMAIN map
  <2>1. PICK q : q = map[pin]
    OBVIOUS
  <2>2. /\ new \in DOMAIN d.comps /\ d.comps[new].who = c.comps[n].who
        /\ SamePort(c.graph.nodes[n], d.graph.nodes[new], pin, q)
    BY <1>1, <1>3, <2>1 DEF IsSwapped
  <2>3. q \in Live(d) /\ PortOf(d, q) = PortOf(c, pin)
    BY <1>2, <2>2, PortMoved
  <2> QED BY <1>3, <2>1, <2>3 DEF Mapped
<1>4. CASE pin \notin DOMAIN map
  <2>1. m # n
    BY <1>2, <1>4 DEF Moves
  <2>2. m \in DOMAIN d.comps /\ d.comps[m] = c.comps[m] /\ d.graph.nodes[m] = c.graph.nodes[m]
    BY <1>2, <2>1 DEF IsSwapped
  <2>3. pin \in PinsOf(d.graph, m)
    BY <1>2, <2>2 DEF PinsOf
  <2>4. pin \in Live(d) /\ NodeOf(d.graph, pin) = m
    BY <1>2, <2>2, <2>3, LiveIs
  <2>5. PortOf(d, pin) = PortOf(c, pin)
    BY <1>1, <2>2, <2>4 DEF PortOf
  <2> QED BY <1>4, <2>4, <2>5 DEF Mapped
<1> QED BY <1>3, <1>4

LEMMA LiveOrNone ==
  ASSUME NEW c, CircuitOK(c), NEW pin
  PROVE  NodeOf(c.graph, pin) = NoId <=> pin \notin Live(c)
<1>1. NodesOK(c.graph) /\ DOMAIN c.comps = DOMAIN c.graph.nodes
  BY DEF CircuitOK, GraphOK, CompsOK
<1>2. CASE pin \in Live(c)
  BY <1>1, <1>2, InPinOf, OutPinOf DEF Live
<1>3. CASE pin \notin Live(c)
  <2>1. \A m \in DOMAIN c.graph.nodes : pin \notin PinsOf(c.graph, m)
    BY <1>1, <1>3, LiveIs
  <2> QED BY <1>3, <2>1 DEF NodeOf
<1> QED BY <1>2, <1>3

LEMMA LinksSwapped ==
  ASSUME NEW c, CircuitOK(c), NEW n \in DOMAIN c.comps, NEW map, NEW d, IsSwapped(c, n, map, d),
         KeepsMarks(c, n, map, d)
  PROVE  {<<PortOf(d, k.start), PortOf(d, k.end)>> : k \in d.graph.links}
           = {<<PortOf(c, l.start), PortOf(c, l.end)>> : l \in c.graph.links}
<1>1. \A l \in c.graph.links : l.start \in Live(c) /\ l.end \in Live(c)
  BY DEF CircuitOK, GraphOK, LinksOK, Live
<1>2. ASSUME NEW l \in c.graph.links, NEW k, Same(map, l, k)
      PROVE  <<PortOf(d, k.start), PortOf(d, k.end)>> = <<PortOf(c, l.start), PortOf(c, l.end)>>
  <2>1. Moves(c, n, map, l.start) /\ Moves(c, n, map, l.end)
    BY DEF KeepsMarks, AllMove
  <2>2. PortOf(d, Mapped(map, l.start)) = PortOf(c, l.start)
    BY <1>1, <2>1, PortSwapped
  <2>3. PortOf(d, Mapped(map, l.end)) = PortOf(c, l.end)
    BY <1>1, <2>1, PortSwapped
  <2> QED BY <1>2, <2>2, <2>3 DEF Same
<1>3. Carried(map, c.graph.links, d)
  BY DEF KeepsMarks
<1>4. /\ \A k \in d.graph.links : \E l \in c.graph.links : Same(map, l, k)
      /\ \A l \in c.graph.links : \E k \in d.graph.links : Same(map, l, k)
  BY <1>3 DEF Carried
<1>5. /\ \A k \in d.graph.links : \E l \in c.graph.links :
           <<PortOf(d, k.start), PortOf(d, k.end)>> = <<PortOf(c, l.start), PortOf(c, l.end)>>
      /\ \A l \in c.graph.links : \E k \in d.graph.links :
           <<PortOf(d, k.start), PortOf(d, k.end)>> = <<PortOf(c, l.start), PortOf(c, l.end)>>
  BY <1>2, <1>4
<1> QED BY <1>5

LEMMA PointsSeen ==
  ASSUME NEW c, CircuitOK(c), NEW n \in DOMAIN c.comps, NEW map, NEW d, IsSwapped(c, n, map, d),
         NEW point, PointOK(c, point), Moves(c, n, map, point.pin),
         NEW q, q = Mapped(map, point.pin)
  PROVE  (IF NodeOf(d.graph, q) = NoId THEN NoId ELSE PortOf(d, q))
           = (IF NodeOf(c.graph, point.pin) = NoId THEN NoId ELSE PortOf(c, point.pin))
<1>1. PICK pin : pin = point.pin
  OBVIOUS
<1>2. CircuitOK(d) /\ NodesKept(c, d)
  BY SwapKeepsNodes DEF IsSwapped
<1>3. CASE pin \in Live(c)
  <2>1. q \in Live(d) /\ PortOf(d, q) = PortOf(c, pin)
    BY <1>1, <1>3, PortSwapped
  <2> QED BY <1>1, <1>2, <1>3, <2>1, LiveOrNone
<1>4. CASE pin \notin Live(c)
  <2>1. pin \notin DOMAIN map
    BY <1>4, LiveIs DEF IsSwapped
  <2>2. q = pin
    BY <1>1, <2>1 DEF Mapped
  <2>3. pin \notin Live(d)
    <3>1. SUFFICES ASSUME pin \in Live(d) PROVE FALSE
      OBVIOUS
    <3>2. pin \in Nat
      BY <1>2, <3>1, LiveIs
    <3>3. pin < c.graph.nextPin
      BY <1>1, <3>2, NoIdAssumption DEF PointOK
    <3> QED BY <1>2, <1>4, <3>1, <3>3, PortKept
  <2> QED BY <1>1, <1>2, <1>4, <2>2, <2>3, LiveOrNone
<1> QED BY <1>3, <1>4

LEMMA PictureKept ==
  ASSUME NEW c, CircuitOK(c), NEW n \in DOMAIN c.comps, NEW map, NEW d, IsSwapped(c, n, map, d),
         KeepsMarks(c, n, map, d), NEW w, WatchOK(c, w),
         \A i \in Instruments : Moves(c, n, map, w[i].pin),
         NEW moved, moved = [i \in Instruments |-> [w[i] EXCEPT !.pin = Mapped(map, @)]],
         NEW new, new = c.graph.nextNode, NEW pos, NEW at, at[new] = pos[n],
         \A m \in DOMAIN c.comps \ {n} : at[m] = pos[m]
  PROVE  Picture(d, moved, at, new) = Picture(c, w, pos, n)
<1>1. new = c.graph.nextNode
  OBVIOUS
<1>2. /\ DOMAIN d.comps = (DOMAIN c.comps \ {n}) \cup {new} /\ new \notin DOMAIN c.comps
      /\ d.comps[new].who = c.comps[n].who /\ d.comps[new].cid = c.comps[n].cid
      /\ \A m \in DOMAIN c.comps \ {n} : d.comps[m] = c.comps[m]
  BY <1>1 DEF IsSwapped, KeepsMarks
<1>3. {<<d.comps[m].who, d.comps[m].cid, at[m]>> : m \in DOMAIN d.comps}
        = {<<c.comps[m].who, c.comps[m].cid, pos[m]>> : m \in DOMAIN c.comps}
  <2>1. ASSUME NEW m \in DOMAIN d.comps
        PROVE  \E o \in DOMAIN c.comps :
                 d.comps[m].who = c.comps[o].who /\ d.comps[m].cid = c.comps[o].cid /\ at[m] = pos[o]
    BY <1>2
  <2>2. ASSUME NEW o \in DOMAIN c.comps
        PROVE  \E m \in DOMAIN d.comps :
                 d.comps[m].who = c.comps[o].who /\ d.comps[m].cid = c.comps[o].cid /\ at[m] = pos[o]
    BY <1>2
  <2> QED BY <2>1, <2>2
<1>31. (IF new \in DOMAIN d.comps THEN d.comps[new].who ELSE NoId)
         = (IF n \in DOMAIN c.comps THEN c.comps[n].who ELSE NoId)
  BY <1>2
<1>4. {<<PortOf(d, k.start), PortOf(d, k.end)>> : k \in d.graph.links}
        = {<<PortOf(c, l.start), PortOf(c, l.end)>> : l \in c.graph.links}
  BY LinksSwapped
<1>5. [i \in DOMAIN d.graph.probes |-> PortOf(d, d.graph.probes[i])]
        = [i \in DOMAIN c.graph.probes |-> PortOf(c, c.graph.probes[i])]
  <2>1. DOMAIN d.graph.probes = DOMAIN c.graph.probes
    BY DEF KeepsMarks
  <2>2. ASSUME NEW i \in DOMAIN c.graph.probes
        PROVE  PortOf(d, d.graph.probes[i]) = PortOf(c, c.graph.probes[i])
    <3>1. PICK pin : pin = c.graph.probes[i]
      OBVIOUS
    <3>2. pin \in Live(c)
      BY <3>1 DEF CircuitOK, GraphOK, ProbesOK, ToSet, Live
    <3>3. d.graph.probes[i] = Mapped(map, pin) /\ Moves(c, n, map, pin)
      BY <3>1 DEF KeepsMarks
    <3> QED BY <3>1, <3>2, <3>3, PortSwapped
  <2> QED BY <2>1, <2>2
<1>6. [gid \in DOMAIN d.graph.groups |-> {d.comps[m].who : m \in d.graph.groups[gid].members}]
        = [gid \in DOMAIN c.graph.groups |-> {c.comps[m].who : m \in c.graph.groups[gid].members}]
  <2>1. DOMAIN d.graph.groups = DOMAIN c.graph.groups
    BY DEF KeepsMarks
  <2>2. ASSUME NEW gid \in DOMAIN c.graph.groups
        PROVE  {d.comps[m].who : m \in d.graph.groups[gid].members}
                 = {c.comps[m].who : m \in c.graph.groups[gid].members}
    <3>1. PICK olds, news : /\ olds = c.graph.groups[gid].members
                            /\ news = d.graph.groups[gid].members
      OBVIOUS
    <3>2. olds \subseteq DOMAIN c.comps
      BY <3>1 DEF CircuitOK, GraphOK, GroupsOK, CompsOK
    <3>3. news = {IF m = n THEN new ELSE m : m \in olds}
      BY <1>1, <3>1 DEF KeepsMarks
    <3>4. \A m \in olds : d.comps[IF m = n THEN new ELSE m].who = c.comps[m].who
      BY <1>2, <3>2
    <3>5. {d.comps[m].who : m \in news} = {c.comps[m].who : m \in olds}
      <4>1. ASSUME NEW m \in news
            PROVE  \E o \in olds : d.comps[m].who = c.comps[o].who
        BY <3>3, <3>4
      <4>2. ASSUME NEW o \in olds
            PROVE  \E m \in news : d.comps[m].who = c.comps[o].who
        BY <3>3, <3>4
      <4> QED BY <4>1, <4>2
    <3> QED BY <3>1, <3>5
  <2> QED BY <2>1, <2>2
<1>7. [i \in Instruments |-> IF NodeOf(d.graph, moved[i].pin) = NoId THEN NoId
                             ELSE PortOf(d, moved[i].pin)]
        = [i \in Instruments |-> IF NodeOf(c.graph, w[i].pin) = NoId THEN NoId
                                 ELSE PortOf(c, w[i].pin)]
  <2> SUFFICES ASSUME NEW i \in Instruments
               PROVE  (IF NodeOf(d.graph, moved[i].pin) = NoId THEN NoId ELSE PortOf(d, moved[i].pin))
                        = (IF NodeOf(c.graph, w[i].pin) = NoId THEN NoId ELSE PortOf(c, w[i].pin))
    OBVIOUS
  <2>1. PICK point, q : point = w[i] /\ q = Mapped(map, point.pin)
    OBVIOUS
  <2>2. PointOK(c, point) /\ Moves(c, n, map, point.pin)
    BY <2>1 DEF WatchOK
  <2>3. moved[i].pin = q
    <3>1. point = [pin |-> point.pin, meant |-> point.meant]
      BY <2>2 DEF PointOK
    <3> QED BY <2>1, <3>1
  <2>4. (IF NodeOf(d.graph, q) = NoId THEN NoId ELSE PortOf(d, q))
          = (IF NodeOf(c.graph, point.pin) = NoId THEN NoId ELSE PortOf(c, point.pin))
    BY <2>1, <2>2, PointsSeen
  <2> QED BY <2>1, <2>3, <2>4
<1> QED BY <1>3, <1>31, <1>4, <1>5, <1>6, <1>7 DEF Picture

-----------------------------------------------------------------------------
(* The views of the channelizers, and what a file would say of the circuit *)

ViewsOf(c) == {[node |-> n, engine |-> <<c.epoch, n>>] : n \in Pfbs(c)}

LEMMA ViewsSynced ==
  ASSUME NEW c, NEW d, d.epoch = c.epoch, NEW old, old = ViewsOf(c)
  PROVE  SyncViews(old, d) = ViewsOf(d)
<1>1. \A v \in old : \E n \in Pfbs(c) : v = [node |-> n, engine |-> <<d.epoch, n>>] /\ v.node = n
  BY DEF ViewsOf
<1>2. \A n \in Pfbs(c) : [node |-> n, engine |-> <<d.epoch, n>>] \in old
  BY DEF ViewsOf
<1>3. PICK kept, made : /\ kept = {v \in old : v.node \in Pfbs(d)}
                       /\ made = {[node |-> n, engine |-> <<d.epoch, n>>] :
                                    n \in Pfbs(d) \ {v.node : v \in old}}
  OBVIOUS
<1>4. SyncViews(old, d) = kept \cup made
  BY <1>3 DEF SyncViews
<1>5. \A v : v \in ViewsOf(d) <=> \E n \in Pfbs(d) : v = [node |-> n, engine |-> <<d.epoch, n>>]
  BY DEF ViewsOf
<1>6. ASSUME NEW v \in kept \cup made PROVE v \in ViewsOf(d)
  BY <1>1, <1>3, <1>5
<1>7. ASSUME NEW n \in Pfbs(d) PROVE [node |-> n, engine |-> <<d.epoch, n>>] \in kept \cup made
  <2>1. CASE n \in {v.node : v \in old}
    <3>1. [node |-> n, engine |-> <<d.epoch, n>>] \in old
      BY <1>1, <2>1
    <3> QED BY <1>3, <3>1
  <2>2. CASE n \notin {v.node : v \in old}
    BY <1>3, <2>2
  <2> QED BY <2>1, <2>2
<1> QED BY <1>4, <1>5, <1>6, <1>7

LEMMA ViewsFresh ==
  ASSUME NEW d
  PROVE  SyncViews({}, d) = ViewsOf(d)
<1>1. {v \in {} : v.node \in Pfbs(d)} = {} /\ {v.node : v \in {}} = {}
  OBVIOUS
<1>2. SyncViews({}, d) = {} \cup {[node |-> n, engine |-> <<d.epoch, n>>] : n \in Pfbs(d) \ {}}
  BY <1>1 DEF SyncViews
<1> QED BY <1>2 DEF ViewsOf

\* A circuit of the same nodes, links, probes and groups is written the same.
SameRecord(c, d) ==
  /\ d.comps = c.comps /\ d.graph.nodes = c.graph.nodes /\ d.graph.links = c.graph.links
  /\ d.graph.probes = c.graph.probes /\ DOMAIN d.graph.groups = DOMAIN c.graph.groups
  /\ \A gid \in DOMAIN c.graph.groups :
       /\ d.graph.groups[gid].members = c.graph.groups[gid].members
       /\ d.graph.groups[gid].collapsed = c.graph.groups[gid].collapsed

\* PinRecord reads the nodes only.
PinRecordBy(nodes, order, pin) ==
  LET pins(n) == ToSet(nodes[n].ins) \cup ToSet(nodes[n].outs)
  IN  IF \E i \in DOMAIN order : pin \in pins(order[i])
      THEN LET i == CHOOSE i \in DOMAIN order : pin \in pins(order[i])
           IN  RecordOf(nodes[order[i]], i, pin)
      ELSE NoId

LEMMA SameContent ==
  ASSUME NEW c, CircuitOK(c), NEW d, SameRecord(c, d), NEW pos, NEW par, NEW now, NEW w, NEW u,
         \A n \in DOMAIN c.comps : now[n].setting = par[n].setting,
         \A p \in Points : u[p].pin = w[p].pin
  PROVE  Content(CaptureOf(d, pos, now, u)) = Content(CaptureOf(c, pos, par, w))
<1>1. PICK order, links, gids :
        /\ order = Order(c) /\ links = InOrder(c.graph.links)
        /\ gids = Ascending(DOMAIN c.graph.groups)
  OBVIOUS
<1>2. order = Order(d) /\ links = InOrder(d.graph.links) /\ gids = Ascending(DOMAIN d.graph.groups)
  BY <1>1 DEF SameRecord, Order
<1>3. PICK points : points = [p \in Points |-> w[p].pin]
  OBVIOUS
<1>4. points = [p \in Points |-> u[p].pin]
  BY <1>3
<1>5. PICK x, y : /\ x = CaptureInOrder(c, pos, par, points, order, links, gids)
                  /\ y = CaptureInOrder(d, pos, now, points, order, links, gids)
  OBVIOUS
<1>6. x = CaptureOf(c, pos, par, w) /\ y = CaptureOf(d, pos, now, u)
  BY <1>1, <1>2, <1>3, <1>4, <1>5 DEF CaptureOf, Capture
<1>7. \A pin : PinRecord(d, order, pin) = PinRecord(c, order, pin)
  <2> TAKE pin
  <2>1. PinRecord(c, order, pin) = PinRecordBy(c.graph.nodes, order, pin)
    BY DEF PinRecord, PinRecordBy, PinsOf
  <2>2. PinRecord(d, order, pin) = PinRecordBy(d.graph.nodes, order, pin)
    BY DEF PinRecord, PinRecordBy, PinsOf
  <2> QED BY <2>1, <2>2 DEF SameRecord
<1>8. \A i \in DOMAIN gids : gids[i] \in DOMAIN c.graph.groups
  <2>1. DOMAIN c.graph.groups \in SUBSET Nat /\ IsFiniteSet(DOMAIN c.graph.groups)
    BY FiniteGroups DEF CircuitOK, GraphOK, GroupsOK
  <2>2. gids \in [1..Cardinality(DOMAIN c.graph.groups) -> DOMAIN c.graph.groups]
    BY <1>1, <2>1, AscendingIs
  <2> QED BY <2>2
<1>81. \A i \in DOMAIN order : order[i] \in DOMAIN c.comps
  <2>1. DOMAIN c.comps \in SUBSET Nat /\ IsFiniteSet(DOMAIN c.comps)
    BY FiniteNodes DEF CircuitOK, CompsOK, GraphOK, NodesOK
  <2>2. order \in [1..Cardinality(DOMAIN c.comps) -> DOMAIN c.comps]
    BY <1>1, <2>1, AscendingIs DEF Order
  <2> QED BY <2>2
<1>82. PICK olds, news :
         /\ olds = [i \in DOMAIN x.comps |-> [type |-> x.comps[i].type, pos |-> x.comps[i].pos,
                                              setting |-> x.comps[i].params.setting]]
         /\ news = [i \in DOMAIN y.comps |-> [type |-> y.comps[i].type, pos |-> y.comps[i].pos,
                                              setting |-> y.comps[i].params.setting]]
  OBVIOUS
<1>83. news = olds
  <2>1. DOMAIN x.comps = DOMAIN order /\ DOMAIN y.comps = DOMAIN order
    BY <1>5 DEF CaptureInOrder
  <2>2. ASSUME NEW i \in DOMAIN order
        PROVE  /\ y.comps[i].type = x.comps[i].type /\ y.comps[i].pos = x.comps[i].pos
               /\ y.comps[i].params.setting = x.comps[i].params.setting
    <3>1. /\ x.comps[i] = [type |-> c.comps[order[i]].type, pos |-> pos[order[i]],
                           params |-> par[order[i]]]
          /\ y.comps[i] = [type |-> d.comps[order[i]].type, pos |-> pos[order[i]],
                           params |-> now[order[i]]]
      BY <1>5 DEF CaptureInOrder
    <3> QED BY <1>81, <3>1 DEF SameRecord
  <2> QED BY <1>82, <2>1, <2>2
<1>9. y.links = x.links /\ y.probes = x.probes /\ y.points = x.points
  <2>2. y.links = x.links
    BY <1>5, <1>7 DEF CaptureInOrder
  <2>3. y.probes = x.probes
    BY <1>5, <1>7 DEF CaptureInOrder, SameRecord
  <2>4. y.points = x.points
    BY <1>5, <1>7 DEF CaptureInOrder
  <2> QED BY <2>2, <2>3, <2>4
<1>10. y.groups = x.groups
  BY <1>5, <1>8 DEF CaptureInOrder, SameRecord
<1>11. /\ DOMAIN x = {"comps", "links", "probes", "points", "groups", "nextCid"}
       /\ DOMAIN y = {"comps", "links", "probes", "points", "groups", "nextCid"}
       /\ x = [f \in DOMAIN x |-> x[f]] /\ y = [f \in DOMAIN y |-> y[f]]
  <2>1. /\ DOMAIN x = {"comps", "links", "probes", "points", "groups", "nextCid"}
        /\ x = [f \in DOMAIN x |-> x[f]]
    BY <1>5 DEF CaptureInOrder
  <2>2. /\ DOMAIN y = {"comps", "links", "probes", "points", "groups", "nextCid"}
        /\ y = [f \in DOMAIN y |-> y[f]]
    BY <1>5 DEF CaptureInOrder
  <2> QED BY <2>1, <2>2
<1>12. [x EXCEPT !.nextCid = NoId, !.comps = olds] = [y EXCEPT !.nextCid = NoId, !.comps = news]
  BY <1>83, <1>9, <1>10, <1>11
<1>13. /\ Content(x) = [x EXCEPT !.nextCid = NoId, !.comps = olds]
       /\ Content(y) = [y EXCEPT !.nextCid = NoId, !.comps = news]
  BY <1>82, <1>11 DEF Content
<1> QED BY <1>6, <1>12, <1>13

LEMMA SameOutlineSameRecord ==
  ASSUME NEW c, NEW d, SameOutline(c, d)
  PROVE  SameRecord(c, d)
BY DEF SameOutline, SameButCounters, SameRecord

-----------------------------------------------------------------------------
(* The editor *)

\* The circuit and what refers to it from outside
AroundOK(c, pos, w, v) ==
  /\ CircuitOK(c) /\ Bounded(c) /\ c.epoch \in 0..MaxEpoch
  /\ DOMAIN pos = DOMAIN c.comps /\ \A n \in DOMAIN pos : pos[n] \in Positions
  /\ WatchOK(c, w)
  /\ v = ViewsOf(c)

CountersOK == revision \in 0..MaxRevision /\ clean \in 0..revision /\ undoRevision \in 0..revision
UndoOK == UndoIsSafe /\ \A r \in undo : r.from \in Positions
FilesOK == /\ file = NoId \/ FileOK(file)
           /\ checkpoint = NoId \/ FileOK(checkpoint)

EditorInv ==
  /\ AroundOK(circuit, place, watch, views)
  /\ CountersOK /\ UndoOK /\ FilesOK /\ CleanMeansUnchanged

\* What the commands keep beside the circuit
RecordsOK == CountersOK /\ UndoOK /\ FilesOK /\ CleanMeansUnchanged

\* A command that advances the revision makes the layout's undo stale and the
\* project dirty.
LEMMA MarkedStep ==
  ASSUME RecordsOK, MarkModified, undoRevision' = undoRevision, undo' = undo \/ undo' = {},
         file' = file, checkpoint' = checkpoint \/ checkpoint' = NoId
  PROVE  RecordsOK'
<1>1. /\ revision \in Nat /\ clean \in 0..revision /\ undoRevision \in 0..revision
      /\ revision' = revision + 1 /\ clean' = clean /\ revision' \in 0..MaxRevision
  BY BoundsAssumption DEF RecordsOK, CountersOK, MarkModified
<1>2. CountersOK'
  BY <1>1 DEF CountersOK
<1>3. UndoOK'
  <2>1. undoRevision' # revision'
    BY <1>1
  <2>2. UndoIsSafe'
    BY <2>1 DEF UndoIsSafe, CanUndoLayout
  <2> QED BY <2>2 DEF RecordsOK, UndoOK
<1>4. FilesOK'
  BY DEF RecordsOK, FilesOK
<1>5. CleanMeansUnchanged'
  <2>1. revision' # clean'
    BY <1>1
  <2> QED BY <2>1 DEF CleanMeansUnchanged, Dirty
<1> QED BY <1>2, <1>3, <1>4, <1>5 DEF RecordsOK

\* The circuit is the same but for its counters, its selection and whether
\* its groups show their boundary.
LEMMA QuietStep ==
  ASSUME RecordsOK, CircuitOK(circuit), SameRecord(circuit, circuit'),
         circuit'.graph.cache = circuit.graph.cache, place' = place,
         \A n \in DOMAIN circuit.comps : params'[n].setting = params[n].setting,
         \A p \in Points : watch'[p].pin = watch[p].pin,
         UNCHANGED <<revision, clean, Others>>
  PROVE  RecordsOK'
<1>1. CountersOK' /\ FilesOK'
  BY DEF RecordsOK, CountersOK, FilesOK, Others
<1>2. UndoOK'
  <2> SUFFICES ASSUME CanUndoLayout', NEW r \in undo
               PROVE  /\ r.node \in Nodes' /\ ~Hidden(r.node)'
                      /\ circuit'.comps[r.node].who = r.meant /\ place'[r.node] = r.to
    BY DEF RecordsOK, UndoOK, UndoIsSafe, Others
  <2>1. CanUndoLayout
    BY DEF CanUndoLayout, Others
  <2>2. /\ r.node \in Nodes /\ ~Hidden(r.node)
        /\ circuit.comps[r.node].who = r.meant /\ place[r.node] = r.to
    BY <2>1 DEF RecordsOK, UndoOK, UndoIsSafe
  <2>3. ~Hidden(r.node)'
    BY <2>2 DEF Hidden, SameRecord
  <2> QED BY <2>2, <2>3 DEF SameRecord, Nodes
<1>3. CleanMeansUnchanged'
  <2> SUFFICES ASSUME ~Dirty' PROVE Content(Captured)' = Content(baseline)'
    BY DEF CleanMeansUnchanged
  <2>1. ~Dirty /\ baseline' = baseline
    BY DEF Dirty, Others
  <2>2. Content(CaptureOf(circuit, place, params, watch)) = Content(baseline)
    BY <2>1 DEF RecordsOK, CleanMeansUnchanged, Captured
  <2>3. Content(CaptureOf(circuit', place, params', watch'))
          = Content(CaptureOf(circuit, place, params, watch))
    BY SameContent
  <2> QED BY <2>1, <2>2, <2>3 DEF Captured
<1> QED BY <1>1, <1>2, <1>3 DEF RecordsOK

LEMMA InvIs ==
  EditorInv <=> AroundOK(circuit, place, watch, views) /\ RecordsOK
BY DEF EditorInv, RecordsOK

\* A circuit of the same nodes and more
LEMMA AroundKept ==
  ASSUME NEW c, NEW pos, NEW w, NEW v, AroundOK(c, pos, w, v),
         NEW d, CircuitOK(d), Bounded(d), d.epoch = c.epoch, NodesKept(c, d),
         NEW at, DOMAIN at = DOMAIN d.comps, \A n \in DOMAIN at : at[n] \in Positions
  PROVE  AroundOK(d, at, w, SyncViews(v, d))
BY WatchKept, ViewsSynced DEF AroundOK

\* A circuit of the same components
LEMMA AroundSame ==
  ASSUME NEW c, NEW pos, NEW w, NEW v, AroundOK(c, pos, w, v),
         NEW d, CircuitOK(d), Bounded(d), d.epoch = c.epoch, d.comps = c.comps,
         d.graph.nodes = c.graph.nodes, d.graph.nextPin >= c.graph.nextPin
  PROVE  AroundOK(d, pos, w, v)
<1>1. NodesKept(c, d)
  BY DEF NodesKept
<1>2. ViewsOf(d) = ViewsOf(c)
  BY DEF ViewsOf, Pfbs
<1> QED BY <1>1, <1>2, WatchKept DEF AroundOK

\* What a step does: the invariant holds after it, the components keep their
\* names, and every component is at its node or one was replaced, of which the
\* user sees what they saw.
StepOK ==
  /\ EditorInv'
  /\ WhoOK(circuit) =>
       /\ WhoOK(circuit')
       /\ \/ Beside(circuit, circuit')
          \/ \E n \in Nodes :
               /\ BesideBut(circuit, circuit', n)
               /\ Picture(circuit', watch', place', selection') = Picture(circuit, watch, place, n)

LEMMA SameWho ==
  ASSUME EditorInv', circuit'.comps = circuit.comps, circuit'.epoch = circuit.epoch
  PROVE  StepOK
<1>1. PICK c, d : c = circuit /\ d = circuit'
  OBVIOUS
<1>2. ASSUME WhoOK(c) PROVE WhoOK(d) /\ Beside(c, d)
  BY <1>1, <1>2, WhoKept
<1> QED BY <1>1, <1>2 DEF StepOK

LEMMA OtherWho ==
  ASSUME EditorInv', WhoOK(circuit'), circuit'.epoch # circuit.epoch
  PROVE  StepOK
<1>1. PICK c, d : c = circuit /\ d = circuit'
  OBVIOUS
<1>2. ASSUME WhoOK(c) PROVE WhoOK(d) /\ Beside(c, d)
  BY <1>1, <1>2, WhoElsewhere
<1> QED BY <1>1, <1>2 DEF StepOK

-----------------------------------------------------------------------------
(* The commands on components *)

LEMMA CreatedKeepsNodes ==
  ASSUME NEW c, CircuitOK(c), NEW type \in Types, NEW cid, NEW who, NEW d,
         IsCreated(c, d, type, cid, who)
  PROVE  NodesKept(c, d)
<1>0. PICK ins \in Nat, outs \in Nat : ins = Ports[type].ins /\ outs = Ports[type].outs
  BY PortsAssumption
<1>1. PICK g, h, new : g = c.graph /\ h = d.graph /\ new = c.graph.nextNode
  OBVIOUS
<1>2. /\ h = AddNode(g, ins, outs) /\ DOMAIN d.comps = DOMAIN c.comps \cup {new}
      /\ \A m \in DOMAIN c.comps : d.comps[m] = c.comps[m]
  BY <1>0, <1>1 DEF IsCreated
<1>3. GraphOK(g) /\ DOMAIN c.comps = DOMAIN g.nodes /\ g.nextPin \in Nat
  BY <1>1 DEF CircuitOK, CompsOK, GraphOK, NodesOK
<1>4. /\ h.nextPin = g.nextPin + ins + outs
      /\ \A m \in DOMAIN g.nodes : h.nodes[m] = g.nodes[m]
      /\ \A pin \in PinsOf(h, new) : pin >= g.nextPin
  <2>1. h = AddNode(g, ins, outs) /\ new = g.nextNode /\ GraphOK(g)
    BY <1>1, <1>2, <1>3
  <2> QED BY <2>1, NodeAdded, SMTT(30)
<1>5. h.nextPin >= g.nextPin
  BY <1>3, <1>4
<1> QED BY <1>1, <1>2, <1>3, <1>4, <1>5 DEF NodesKept

LEMMA AddComponentStep ==
  ASSUME EditorInv, NEW type \in Types, NEW pos \in Positions, NEW set, AddComponent(type, pos, set)
  PROVE  StepOK
<1>1. AroundOK(circuit, place, watch, views) /\ RecordsOK
  BY InvIs
<1>2. PICK c, d, p, v : c = circuit /\ d = circuit' /\ p = place' /\ v = views'
  OBVIOUS
<1>3. CircuitOK(c) /\ Bounded(c) /\ DOMAIN place = DOMAIN c.comps
      /\ \A n \in DOMAIN place : place[n] \in Positions
  BY <1>1, <1>2 DEF AroundOK
<1>4. d = CreateComponent(c, type)
  BY <1>2 DEF AddComponent
<1>5. IsCreated(c, d, type, c.nextCid, <<c.epoch, c.graph.nextNode>>)
  BY <1>3, <1>4, Placed
<1>6. /\ CircuitOK(d) /\ Bounded(d) /\ d.epoch = c.epoch
      /\ DOMAIN d.comps = DOMAIN c.comps \cup {c.graph.nextNode}
  BY <1>3, <1>5 DEF IsCreated
<1>7. NodesKept(c, d)
  BY <1>3, <1>5, CreatedKeepsNodes
<1>8. p = [m \in DOMAIN place \cup {c.graph.nextNode} |->
             IF m = c.graph.nextNode THEN pos ELSE place[m]]
  BY <1>2 DEF AddComponent, With
<1>9. DOMAIN p = DOMAIN d.comps /\ \A n \in DOMAIN p : p[n] \in Positions
  BY <1>3, <1>6, <1>8
<1>10. v = SyncViews(views, d) /\ watch' = watch
  BY <1>2 DEF AddComponent
<1>11. AroundOK(d, p, watch, v)
  BY <1>1, <1>2, <1>6, <1>7, <1>9, <1>10, AroundKept
<1>12. RecordsOK'
  BY <1>1, MarkedStep DEF AddComponent, Others
<1>13. EditorInv'
  BY <1>2, <1>10, <1>11, <1>12 DEF EditorInv, RecordsOK
<1>14. ASSUME WhoOK(c) PROVE WhoOK(d) /\ Beside(c, d)
  BY <1>3, <1>5, <1>14, WhoCreated
<1> QED BY <1>2, <1>13, <1>14 DEF StepOK

\* A refused command leaves the circuit but for its counters.
LEMMA RefusedStep ==
  ASSUME EditorInv, CircuitOK(circuit'), Bounded(circuit'), SameOutline(circuit, circuit'),
         UNCHANGED <<place, params, views, watch, revision, clean, Others>>
  PROVE  StepOK
<1>1. AroundOK(circuit, place, watch, views) /\ RecordsOK
  BY InvIs
<1>2. PICK c, d : c = circuit /\ d = circuit'
  OBVIOUS
<1>3. /\ d.epoch = c.epoch /\ d.comps = c.comps /\ d.graph.nodes = c.graph.nodes
      /\ d.graph.nextPin >= c.graph.nextPin
  BY <1>2 DEF SameOutline, SameButCounters
<1>4. AroundOK(d, place, watch, views)
  BY <1>1, <1>2, <1>3, AroundSame
<1>5. SameRecord(circuit, circuit') /\ circuit'.graph.cache = circuit.graph.cache
  BY SameOutlineSameRecord DEF SameOutline, SameButCounters
<1>6. RecordsOK'
  BY <1>1, <1>5, QuietStep DEF AroundOK
<1>7. EditorInv'
  BY <1>2, <1>4, <1>6 DEF EditorInv, RecordsOK
<1> QED BY <1>2, <1>3, <1>7, SameWho

LEMMA RefuseComponentStep ==
  ASSUME EditorInv, NEW type \in Types, RefuseComponent(type)
  PROVE  StepOK
<1>1. PICK c, d : c = circuit /\ d = circuit'
  OBVIOUS
<1>2. CircuitOK(c)
  BY <1>1, InvIs DEF AroundOK
<1>3. d = CreateAndDiscard(c, type)
  BY <1>1 DEF RefuseComponent
<1>4. CircuitOK(d) /\ Bounded(d) /\ SameOutline(c, d)
  BY <1>2, <1>3, PlacedAndDiscarded
<1> QED BY <1>1, <1>4, RefusedStep DEF RefuseComponent

LEMMA RemoveNodeComponentStep ==
  ASSUME EditorInv, NEW n \in Nodes, RemoveNodeComponent(n)
  PROVE  StepOK
<1>1. AroundOK(circuit, place, watch, views) /\ RecordsOK
  BY InvIs
<1>2. PICK c, d, p, v : c = circuit /\ d = circuit' /\ p = place' /\ v = views'
  OBVIOUS
<1>3. CircuitOK(c) /\ Bounded(c) /\ DOMAIN place = DOMAIN c.comps /\ n \in DOMAIN c.comps
      /\ \A m \in DOMAIN place : place[m] \in Positions
  BY <1>1, <1>2 DEF AroundOK, Nodes
<1>4. PICK x : x = RemoveComponent(c, n)
  OBVIOUS
<1>5. /\ CircuitOK(x) /\ x.graph = RemoveNode(c.graph, n)
      /\ x.comps = [m \in DOMAIN c.comps \ {n} |-> c.comps[m]] /\ x.epoch = c.epoch
  BY <1>3, <1>4, Removed
<1>6. d = TopologyChanged(x)
  BY <1>2, <1>4 DEF RemoveNodeComponent
<1>7. /\ CircuitOK(d) /\ Bounded(d) /\ d.graph = RebuildBoundaries(x.graph)
      /\ d.comps = x.comps /\ d.epoch = x.epoch
  BY <1>5, <1>6, TopologySettled
<1>8. d.graph.nodes = [m \in DOMAIN c.graph.nodes \ {n} |-> c.graph.nodes[m]]
      /\ d.graph.nextPin = c.graph.nextPin
  <2>1. GraphOK(c.graph) /\ n \in DOMAIN c.graph.nodes
    BY <1>3 DEF CircuitOK, CompsOK
  <2>2. PICK h : h = x.graph
    OBVIOUS
  <2>3. GraphOK(h) /\ h.nodes = [m \in DOMAIN c.graph.nodes \ {n} |-> c.graph.nodes[m]]
        /\ h.nextPin = c.graph.nextPin
    BY <1>5, <2>1, <2>2, NodeRemoved DEF NodeRemovedFrom
  <2>4. RebuildBoundaries(h).nodes = h.nodes /\ RebuildBoundaries(h).nextPin = h.nextPin
    BY <2>3, BoundariesRebuilt
  <2> QED BY <1>7, <2>2, <2>3, <2>4
<1>9. NodesKept(c, d)
  <2>1. c.graph.nextPin \in Nat /\ DOMAIN c.comps = DOMAIN c.graph.nodes
    BY <1>3 DEF CircuitOK, CompsOK, GraphOK, NodesOK
  <2>2. ASSUME NEW m \in DOMAIN d.comps
        PROVE  m \in DOMAIN c.comps /\ d.comps[m] = c.comps[m] /\ d.graph.nodes[m] = c.graph.nodes[m]
    BY <1>5, <1>7, <1>8, <2>1
  <2> QED BY <1>8, <2>1, <2>2 DEF NodesKept
<1>10. p = [m \in DOMAIN place \ {n} |-> place[m]]
  BY <1>2 DEF RemoveNodeComponent, But
<1>11. DOMAIN p = DOMAIN d.comps /\ \A m \in DOMAIN p : p[m] \in Positions
  BY <1>3, <1>5, <1>7, <1>10
<1>12. v = SyncViews(views, d) /\ watch' = watch
  BY <1>2 DEF RemoveNodeComponent
<1>13. AroundOK(d, p, watch, v)
  BY <1>1, <1>2, <1>5, <1>7, <1>9, <1>11, <1>12, AroundKept
<1>14. RecordsOK'
  BY <1>1, MarkedStep DEF RemoveNodeComponent, Others
<1>15. EditorInv'
  BY <1>2, <1>12, <1>13, <1>14 DEF EditorInv, RecordsOK
<1>16. ASSUME WhoOK(c) PROVE WhoOK(d) /\ Beside(c, d)
  BY <1>5, <1>7, <1>16, WhoKept
<1> QED BY <1>2, <1>15, <1>16 DEF StepOK

LEMMA SwapPartStep ==
  ASSUME EditorInv, NEW n \in Nodes, NEW type \in Types, NEW set, SwapPart(n, type, set)
  PROVE  StepOK
<1>1. AroundOK(circuit, place, watch, views) /\ RecordsOK
  BY InvIs
<1>2. PICK c, d, p, v, w : c = circuit /\ d = circuit' /\ p = place' /\ v = views' /\ w = watch'
  OBVIOUS
<1>3. /\ CircuitOK(c) /\ Bounded(c) /\ DOMAIN place = DOMAIN c.comps /\ n \in DOMAIN c.comps
      /\ \A m \in DOMAIN place : place[m] \in Positions
      /\ WatchOK(c, watch)
  BY <1>1, <1>2 DEF AroundOK, Nodes
<1>4. PICK map, new : map = SwapMap(c, n, type) /\ new = c.graph.nextNode
  OBVIOUS
<1>5. /\ SwapFits(c, n, type, InstrumentPins) /\ d = SwapComponent(c, n, type)
      /\ w = [i \in Instruments |-> [watch[i] EXCEPT !.pin = Mapped(map, @)]]
      /\ p = With(But(place, n), new, place[n])
      /\ v = SyncViews(views, d)
  BY <1>2, <1>4 DEF SwapPart, PlacedAsWas
<1>51. p = [m \in (DOMAIN place \ {n}) \cup {new} |-> IF m = new THEN place[n] ELSE place[m]]
  <2>1. PICK rest : rest = But(place, n)
    OBVIOUS
  <2>2. DOMAIN rest = DOMAIN place \ {n} /\ \A m \in DOMAIN place \ {n} : rest[m] = place[m]
    BY <2>1 DEF But
  <2>3. p = [m \in DOMAIN rest \cup {new} |-> IF m = new THEN place[n] ELSE rest[m]]
    BY <1>5, <2>1 DEF With
  <2> QED BY <2>2, <2>3
<1>6. IsSwapped(c, n, map, d) /\ KeepsMarks(c, n, map, d)
  BY <1>3, <1>4, <1>5, Swapped
<1>7. /\ CircuitOK(d) /\ Bounded(d) /\ d.epoch = c.epoch
      /\ DOMAIN d.comps = (DOMAIN c.comps \ {n}) \cup {new}
  BY <1>4, <1>6 DEF IsSwapped
<1>8. NodesKept(c, d)
  BY <1>6, SwapKeepsNodes
<1>9. WatchOK(d, w)
  BY <1>3, <1>5, <1>6, PointsMoved
<1>10. DOMAIN p = DOMAIN d.comps /\ \A m \in DOMAIN p : p[m] \in Positions
  BY <1>3, <1>51, <1>7
<1>11. AroundOK(d, p, watch, v)
  <2>1. AroundOK(c, place, watch, views) /\ v = SyncViews(views, d)
    BY <1>1, <1>2, <1>5
  <2> QED BY <1>7, <1>8, <1>10, <2>1, AroundKept
<1>12. AroundOK(d, p, w, v)
  BY <1>9, <1>11 DEF AroundOK
<1>13. RecordsOK'
  BY <1>1, MarkedStep DEF SwapPart, Others
<1>14. EditorInv'
  BY <1>2, <1>12, <1>13 DEF EditorInv, RecordsOK
<1>15. \A i \in Instruments : Moves(c, n, map, watch[i].pin)
  <2>1. PICK pins, made, links :
          pins = InstrumentPins /\ made = Successor(c, n, type) /\ links = LinksOf(c, n)
    OBVIOUS
  <2>2. MapFits(c, n, made, map, links, pins)
    BY <1>4, <1>5, <2>1 DEF SwapFits
  <2>3. pins \cap PinsOf(c.graph, n) \subseteq DOMAIN map
    BY <2>2 DEF MapFits
  <2> SUFFICES ASSUME NEW i \in Instruments, watch[i].pin \in PinsOf(c.graph, n)
               PROVE  watch[i].pin \in DOMAIN map
    BY DEF Moves
  <2>4. watch[i].pin # NoId
    BY <1>3, NodeOfPin, LiveIs, NoIdAssumption
  <2>5. watch[i].pin \in pins
    BY <2>1, <2>4 DEF InstrumentPins
  <2> QED BY <2>3, <2>5
<1>16. Picture(d, w, p, new) = Picture(c, watch, place, n)
  <2>1. p[new] = place[n] /\ \A m \in DOMAIN c.comps \ {n} : p[m] = place[m]
    BY <1>3, <1>4, <1>51, <1>6 DEF IsSwapped
  <2> QED BY <1>3, <1>4, <1>5, <1>6, <1>15, <2>1, PictureKept
<1>17. ASSUME WhoOK(c) PROVE WhoOK(d) /\ BesideBut(c, d, n)
  BY <1>3, <1>6, <1>17, WhoSwapped
<1>18. selection' = new
  BY <1>2, <1>4 DEF SwapPart
<1> QED BY <1>2, <1>14, <1>16, <1>17, <1>18 DEF StepOK

\* The way back that the code calls unreachable is: a part that fits is
\* attached with all its links.
LEMMA RefuseSwapStep ==
  ASSUME EditorInv, NEW n \in Nodes, NEW type \in Types, RefuseSwap(n, type)
  PROVE  StepOK
<1>1. PICK c, d : c = circuit /\ d = circuit'
  OBVIOUS
<1>2. CircuitOK(c) /\ n \in DOMAIN c.comps
  BY <1>1, InvIs DEF AroundOK, Nodes
<1>3. ~SwapFits(c, n, type, InstrumentPins) /\ d = DiscardSuccessor(c, n, type)
  BY <1>1, <1>2, SwapAttaches DEF RefuseSwap
<1>4. d = RemoveComponent(Create(c, type, c.comps[n].cid, c.comps[n].who), c.graph.nextNode)
  BY <1>3 DEF DiscardSuccessor, Successor
<1>5. CircuitOK(d) /\ Bounded(d) /\ SameOutline(c, d)
  BY <1>2, <1>4, Discarded
<1> QED BY <1>1, <1>5, RefusedStep DEF RefuseSwap

LEMMA ComponentSteps ==
  ASSUME EditorInv, ComponentStep
  PROVE  StepOK
BY AddComponentStep, RefuseComponentStep, RemoveNodeComponentStep, SwapPartStep, RefuseSwapStep
   DEF ComponentStep, ComponentStepOf, PlaceStepOf

-----------------------------------------------------------------------------
(* The commands on links, probes and groups *)

LEMMA EditStep ==
  ASSUME EditorInv, NEW c, Edit(c), CircuitOK(c), Bounded(c),
         c.epoch = circuit.epoch, c.comps = circuit.comps,
         c.graph.nodes = circuit.graph.nodes, c.graph.nextPin = circuit.graph.nextPin
  PROVE  StepOK
<1>1. AroundOK(circuit, place, watch, views) /\ RecordsOK
  BY InvIs
<1>2. c = circuit' /\ UNCHANGED <<place, watch, views>>
  BY DEF Edit
<1>3. c.graph.nextPin >= circuit.graph.nextPin
  BY <1>1 DEF AroundOK, CircuitOK, GraphOK, NodesOK
<1>4. AroundOK(c, place, watch, views)
  BY <1>1, <1>3, AroundSame
<1>5. RecordsOK'
  BY <1>1, MarkedStep DEF Edit, Others
<1>6. EditorInv'
  BY <1>2, <1>4, <1>5 DEF EditorInv, RecordsOK
<1> QED BY <1>2, <1>6, SameWho

\* What TopologyChanged leaves alone
LEMMA Settled ==
  ASSUME NEW c, CircuitOK(c), NEW d, d = TopologyChanged(c)
  PROVE  /\ CircuitOK(d) /\ Bounded(d) /\ d.comps = c.comps /\ d.epoch = c.epoch
         /\ d.graph.nodes = c.graph.nodes /\ d.graph.nextPin = c.graph.nextPin
<1>1. /\ CircuitOK(d) /\ Bounded(d) /\ d.graph = RebuildBoundaries(c.graph)
      /\ d.comps = c.comps /\ d.epoch = c.epoch
  BY TopologySettled
<1>2. PICK g : g = c.graph
  OBVIOUS
<1>3. RebuildBoundaries(g).nodes = g.nodes /\ RebuildBoundaries(g).nextPin = g.nextPin
  BY <1>2, BoundariesRebuilt DEF CircuitOK
<1> QED BY <1>1, <1>2, <1>3

LEMMA ConnectPinsStep ==
  ASSUME EditorInv, NEW start, NEW end, ConnectPins(start, end)
  PROVE  StepOK
<1>1. PICK c, x, d : c = circuit /\ x = Connect(circuit, start, end) /\ d = TopologyChanged(x)
  OBVIOUS
<1>2. CircuitOK(c) /\ CanConnect(c, start, end) /\ x = Connect(c, start, end)
  BY <1>1, InvIs DEF AroundOK, ConnectPins
<1>3. OtherLinks(c, x)
  BY <1>2, ConnectedOnly
<1>4. /\ CircuitOK(x) /\ x.comps = c.comps /\ x.epoch = c.epoch
      /\ x.graph.nodes = c.graph.nodes /\ x.graph.nextPin = c.graph.nextPin
  BY <1>3 DEF OtherLinks
<1>5. /\ CircuitOK(d) /\ Bounded(d) /\ d.comps = x.comps /\ d.epoch = x.epoch
      /\ d.graph.nodes = x.graph.nodes /\ d.graph.nextPin = x.graph.nextPin
  BY <1>1, <1>4, Settled
<1>6. Edit(d)
  BY <1>1 DEF ConnectPins
<1> QED BY <1>1, <1>4, <1>5, <1>6, EditStep

LEMMA DisconnectLinkStep ==
  ASSUME EditorInv, NEW id, DisconnectLink(id)
  PROVE  StepOK
<1>1. PICK c, x, d : c = circuit /\ x = Disconnect(circuit, id) /\ d = TopologyChanged(x)
  OBVIOUS
<1>2. CircuitOK(c) /\ x = Disconnect(c, id)
  BY <1>1, InvIs DEF AroundOK
<1>3. /\ CircuitOK(x) /\ x.graph = RemoveLink(c.graph, id)
      /\ x.comps = c.comps /\ x.epoch = c.epoch
  BY <1>2, Disconnected
<1>4. x.graph.nodes = c.graph.nodes /\ x.graph.nextPin = c.graph.nextPin
  BY <1>2, <1>3 DEF RemoveLink, CircuitOK, GraphOK, IsGraph, GraphFields
<1>5. /\ CircuitOK(d) /\ Bounded(d) /\ d.comps = x.comps /\ d.epoch = x.epoch
      /\ d.graph.nodes = x.graph.nodes /\ d.graph.nextPin = x.graph.nextPin
  BY <1>1, <1>3, Settled
<1>6. Edit(d)
  BY <1>1 DEF DisconnectLink
<1> QED BY <1>1, <1>3, <1>4, <1>5, <1>6, EditStep

LEMMA GraphEditStep ==
  ASSUME EditorInv, NEW g, GraphEdit(g), GraphOK(g), BoundariesOK(g),
         g.nodes = circuit.graph.nodes, g.links = circuit.graph.links,
         g.nextPin = circuit.graph.nextPin
  PROVE  StepOK
<1>1. PICK c, d : c = circuit /\ d = [circuit EXCEPT !.graph = g]
  OBVIOUS
<1>2. CircuitOK(c) /\ d = [c EXCEPT !.graph = g]
  BY <1>1, InvIs DEF AroundOK
<1>3. CircuitOK(d) /\ d.graph = g /\ d.comps = c.comps /\ d.epoch = c.epoch
  BY <1>1, <1>2, GraphReplaced
<1>4. Edit(d)
  BY <1>1 DEF GraphEdit
<1> QED BY <1>1, <1>3, <1>4, EditStep DEF Bounded

LEMMA ProbeSteps ==
  ASSUME EditorInv, NEW pin
  PROVE  /\ pin \in LivePins /\ AddProbePin(pin) => StepOK
         /\ RemoveProbePin(pin) => StepOK
<1>1. PICK g : g = circuit.graph
  OBVIOUS
<1>2. GraphOK(g) /\ BoundariesOK(g) /\ IsGraph(g) /\ ProbesOK(g)
  BY <1>1, InvIs DEF AroundOK, CircuitOK, Bounded, GraphOK
<1>3. ASSUME pin \in LivePins, AddProbePin(pin) PROVE StepOK
  <2>1. PICK h : h = AddProbe(g, pin)
    OBVIOUS
  <2>2. CanProbe(g, pin) /\ pin \in InPins(g) \cup OutPins(g) /\ GraphEdit(h)
    BY <1>1, <1>3, <2>1 DEF AddProbePin, LivePins
  <2>3. GraphOK(h) /\ BoundariesOK(h)
    BY <1>2, <2>1, <2>2, ProbeAdded
  <2>4. h.nodes = g.nodes /\ h.links = g.links /\ h.nextPin = g.nextPin
    BY <1>2, <2>1 DEF AddProbe, IsGraph, GraphFields
  <2> QED BY <1>1, <2>2, <2>3, <2>4, GraphEditStep
<1>4. ASSUME RemoveProbePin(pin) PROVE StepOK
  <2>1. PICK h : h = RemoveProbes(g, {pin})
    OBVIOUS
  <2>2. GraphEdit(h)
    BY <1>1, <1>4, <2>1 DEF RemoveProbePin
  <2>3. GraphOK(h) /\ BoundariesOK(h)
    BY <1>2, <2>1, ProbesRemoved
  <2>4. h = [g EXCEPT !.probes = h.probes]
    BY <1>2, <2>1, ProbesLeft
  <2>5. h.nodes = g.nodes /\ h.links = g.links /\ h.nextPin = g.nextPin
    BY <1>2, <2>4 DEF IsGraph, GraphFields
  <2> QED BY <1>1, <2>2, <2>3, <2>5, GraphEditStep
<1> QED BY <1>3, <1>4

LEMMA GroupSteps ==
  ASSUME EditorInv, NEW members
  PROVE  /\ CreateGroup(members) => StepOK
         /\ \A gid \in DOMAIN circuit.graph.groups :
              /\ RemoveGroupOf(gid) => StepOK
              /\ \A collapsed : CollapseGroup(gid, collapsed) => StepOK
<1>1. PICK g : g = circuit.graph
  OBVIOUS
<1>2. GraphOK(g) /\ BoundariesOK(g)
  BY <1>1, InvIs DEF AroundOK, CircuitOK, Bounded
<1>3. ASSUME CreateGroup(members) PROVE StepOK
  <2>1. PICK h : h = AddGroup(g, members)
    OBVIOUS
  <2>2. CanGroup(g, members) /\ GraphEdit(h)
    BY <1>1, <1>3, <2>1 DEF CreateGroup
  <2>3. GraphOK(h) /\ BoundariesOK(h) /\ SameAround(g, h)
    BY <1>2, <2>1, <2>2, GroupAdded
  <2> QED BY <1>1, <2>2, <2>3, GraphEditStep DEF SameAround
<1>4. ASSUME NEW gid \in DOMAIN g.groups, RemoveGroupOf(gid) PROVE StepOK
  <2>1. PICK h : h = RemoveGroup(g, gid)
    OBVIOUS
  <2>2. GraphEdit(h)
    BY <1>1, <1>4, <2>1 DEF RemoveGroupOf
  <2>3. GraphOK(h) /\ BoundariesOK(h) /\ SameAround(g, h)
    BY <1>2, <2>1, GroupsDropped DEF RemoveGroup
  <2> QED BY <1>1, <2>2, <2>3, GraphEditStep DEF SameAround
<1>5. ASSUME NEW gid \in DOMAIN g.groups, NEW collapsed, CollapseGroup(gid, collapsed) PROVE StepOK
  <2>1. PICK h : h = SetCollapsed(g, gid, collapsed)
    OBVIOUS
  <2>2. GraphEdit(h)
    BY <1>1, <1>5, <2>1 DEF CollapseGroup
  <2>3. GraphOK(h) /\ BoundariesOK(h) /\ SameAround(g, h)
    BY <1>2, <2>1, GroupCollapsedOrNot
  <2> QED BY <1>1, <2>2, <2>3, GraphEditStep DEF SameAround
<1> QED BY <1>1, <1>3, <1>4, <1>5

LEMMA ClickStep ==
  ASSUME EditorInv, NEW gid \in DOMAIN circuit.graph.groups \cup {NoId}, NEW sel, Click(gid, sel)
  PROVE  StepOK
<1>1. AroundOK(circuit, place, watch, views) /\ RecordsOK
  BY InvIs
<1>2. PICK c, d, g, h : /\ c = circuit /\ d = circuit' /\ g = circuit.graph
                       /\ h = [g EXCEPT !.selected = gid]
  OBVIOUS
<1>3. CircuitOK(c) /\ GraphOK(g) /\ BoundariesOK(g) /\ IsGraph(g)
  BY <1>1, <1>2 DEF AroundOK, CircuitOK, Bounded, GraphOK
<1>4. d = [c EXCEPT !.graph = h]
  BY <1>2 DEF Click
<1>5. GraphOK(h) /\ BoundariesOK(h) /\ SameAround(g, h)
  BY <1>2, <1>3, GroupSelected
<1>6. h.groups = g.groups /\ h.cache = g.cache
  BY <1>2, <1>3 DEF IsGraph, GraphFields
<1>7. CircuitOK(d) /\ d.graph = h /\ d.comps = c.comps /\ d.epoch = c.epoch
  <2>1. GraphOK(h) /\ h.nodes = c.graph.nodes /\ h.links = c.graph.links
    BY <1>2, <1>5 DEF SameAround
  <2> QED BY <1>3, <1>4, <2>1, GraphReplaced
<1>8. /\ Bounded(d) /\ d.graph.nodes = c.graph.nodes /\ d.graph.nextPin >= c.graph.nextPin
  BY <1>2, <1>3, <1>5, <1>7 DEF Bounded, SameAround, GraphOK, NodesOK
<1>9. AroundOK(d, place, watch, views)
  BY <1>1, <1>2, <1>7, <1>8, AroundSame
<1>10. SameRecord(circuit, circuit') /\ circuit'.graph.cache = circuit.graph.cache
  BY <1>2, <1>5, <1>6, <1>7 DEF SameRecord, SameAround
<1>11. UNCHANGED <<place, params, watch, views, revision, clean, Others>>
  BY DEF Click
<1>12. RecordsOK'
  BY <1>1, <1>10, <1>11, QuietStep DEF AroundOK
<1>13. EditorInv'
  BY <1>2, <1>9, <1>11, <1>12 DEF EditorInv, RecordsOK
<1> QED BY <1>2, <1>7, <1>13, SameWho

LEMMA GraphSteps ==
  ASSUME EditorInv, GraphStep
  PROVE  StepOK
BY ConnectPinsStep, DisconnectLinkStep, ProbeSteps, GroupSteps, ClickStep DEF GraphStep, SelectGroup

LEMMA SelectSteps ==
  ASSUME EditorInv, SelectStep
  PROVE  StepOK
BY ClickStep DEF SelectStep, SelectNode

-----------------------------------------------------------------------------
(* The layout and the instruments *)

LEMMA AroundMoved ==
  ASSUME NEW c, NEW pos, NEW w, NEW v, AroundOK(c, pos, w, v),
         NEW at, DOMAIN at = DOMAIN pos, \A n \in DOMAIN at : at[n] \in Positions
  PROVE  AroundOK(c, at, w, v)
BY DEF AroundOK

LEMMA MoveNodesStep ==
  ASSUME EditorInv, NEW moves \in MoveLists, MoveNodes(moves)
  PROVE  StepOK
<1>1. AroundOK(circuit, place, watch, views) /\ RecordsOK
  BY InvIs
<1>2. /\ DOMAIN place = Nodes /\ \A n \in DOMAIN place : place[n] \in Positions
  BY <1>1 DEF AroundOK, Nodes
<1>3. PICK p : p = place'
  OBVIOUS
<1>4. p = [n \in DOMAIN place |-> IF n \in DOMAIN moves THEN moves[n] ELSE place[n]]
  BY <1>3 DEF MoveNodes, Reposition
<1>5. \A n \in DOMAIN moves : moves[n] \in Positions
  BY DEF MoveLists
<1>6. AroundOK(circuit, p, watch, views)
  BY <1>1, <1>2, <1>4, <1>5, AroundMoved
<1>7. UNCHANGED <<circuit, views, watch, file, checkpoint, baseline>>
  BY DEF MoveNodes
<1>8. /\ revision \in Nat /\ clean \in 0..revision
      /\ revision' = revision + 1 /\ clean' = clean /\ revision' \in 0..MaxRevision
      /\ undoRevision' = revision'
  BY <1>1, BoundsAssumption DEF RecordsOK, CountersOK, MarkModified, MoveNodes
<1>9. CountersOK'
  BY <1>8 DEF CountersOK
<1>10. FilesOK'
  BY <1>1, <1>7 DEF RecordsOK, FilesOK
<1>11. CleanMeansUnchanged'
  <2>1. revision' # clean'
    BY <1>8
  <2> QED BY <2>1 DEF CleanMeansUnchanged, Dirty
<1>12. UndoOK'
  <2>1. ASSUME NEW r \in undo'
        PROVE  /\ r.from \in Positions /\ r.node \in Nodes' /\ ~Hidden(r.node)'
               /\ circuit'.comps[r.node].who = r.meant /\ p[r.node] = r.to
    <3>1. PICK n \in Moved(moves) :
            r = [node |-> n, from |-> place[n], meant |-> circuit.comps[n].who, to |-> moves[n]]
      BY DEF MoveNodes, UndoRecord
    <3>2. n \in DOMAIN moves /\ n \in Nodes /\ ~Hidden(n)
      BY DEF MoveNodes, Moved
    <3>3. ~Hidden(n)'
      BY <1>7, <3>2 DEF Hidden
    <3> QED BY <1>2, <1>4, <1>7, <3>1, <3>2, <3>3 DEF Nodes
  <2> QED BY <1>3, <2>1 DEF UndoOK, UndoIsSafe
<1>13. EditorInv'
  BY <1>3, <1>6, <1>7, <1>9, <1>10, <1>11, <1>12 DEF EditorInv
<1> QED BY <1>7, <1>13, SameWho

LEMMA UndoLayoutStep ==
  ASSUME EditorInv, UndoLayout
  PROVE  StepOK
<1>1. AroundOK(circuit, place, watch, views) /\ RecordsOK
  BY InvIs
<1>2. \A n \in DOMAIN place : place[n] \in Positions
  BY <1>1 DEF AroundOK
<1>3. PICK p : p = place'
  OBVIOUS
<1>4. p = [n \in DOMAIN place |->
             IF \E r \in undo : r.node = n THEN (CHOOSE r \in undo : r.node = n).from ELSE place[n]]
  BY <1>3 DEF UndoLayout
<1>5. \A r \in undo : r.from \in Positions
  BY <1>1 DEF RecordsOK, UndoOK
<1>6. DOMAIN p = DOMAIN place /\ \A n \in DOMAIN p : p[n] \in Positions
  <2>1. ASSUME NEW n \in DOMAIN place PROVE p[n] \in Positions
    <3>1. CASE \E r \in undo : r.node = n
      <4>1. PICK r \in undo : r = CHOOSE x \in undo : x.node = n
        BY <3>1
      <4>2. p[n] = r.from
        BY <1>4, <3>1, <4>1
      <4> QED BY <1>5, <4>2
    <3>2. CASE ~ \E r \in undo : r.node = n
      BY <1>2, <1>4, <3>2
    <3> QED BY <3>1, <3>2
  <2> QED BY <1>4, <2>1
<1>7. AroundOK(circuit, p, watch, views)
  BY <1>1, <1>6, AroundMoved
<1>8. RecordsOK'
  BY <1>1, MarkedStep DEF UndoLayout
<1>9. EditorInv'
  BY <1>3, <1>7, <1>8 DEF EditorInv, RecordsOK, UndoLayout
<1> QED BY <1>9, SameWho DEF UndoLayout

LEMMA DragNodeStep ==
  ASSUME EditorInv, NEW n, NEW pos \in Positions, DragNode(n, pos)
  PROVE  StepOK
<1>1. AroundOK(circuit, place, watch, views) /\ RecordsOK
  BY InvIs
<1>2. \A m \in DOMAIN place : place[m] \in Positions
  BY <1>1 DEF AroundOK
<1>3. PICK p : p = place'
  OBVIOUS
<1>4. p = [place EXCEPT ![n] = pos]
  BY <1>3 DEF DragNode
<1>5. DOMAIN p = DOMAIN place /\ \A m \in DOMAIN p : p[m] \in Positions
  BY <1>2, <1>4
<1>6. AroundOK(circuit, p, watch, views)
  BY <1>1, <1>5, AroundMoved
<1>7. RecordsOK'
  BY <1>1, MarkedStep DEF DragNode, Others
<1>8. EditorInv'
  BY <1>3, <1>6, <1>7 DEF EditorInv, RecordsOK, DragNode
<1> QED BY <1>8, SameWho DEF DragNode

LEMMA LayoutSteps ==
  ASSUME EditorInv, LayoutStep
  PROVE  StepOK
BY MoveNodesStep, UndoLayoutStep, DragNodeStep DEF LayoutStep

LEMMA PointSet ==
  ASSUME CircuitOK(circuit), NEW pin \in OutPins(circuit.graph) \cup {NoId}
  PROVE  PointOK(circuit, SetTo(pin))
<1>1. CASE pin = NoId
  <2>1. SetTo(pin) = [pin |-> NoId, meant |-> NoId]
    BY <1>1 DEF SetTo, Unset
  <2>2. NoId \notin Live(circuit)
    BY NoIdAssumption, LiveIs
  <2> QED BY <2>1, <2>2 DEF PointOK
<1>2. CASE pin # NoId
  <2>1. SetTo(pin) = [pin |-> pin, meant |-> PortOf(circuit, pin)]
    BY <1>2 DEF SetTo
  <2>2. pin \in Live(circuit)
    BY <1>2 DEF Live
  <2> QED BY <2>1, <2>2, LiveIs DEF PointOK
<1> QED BY <1>1, <1>2

LEMMA InstrumentSteps ==
  ASSUME EditorInv, InstrumentStep
  PROVE  StepOK
<1>1. AroundOK(circuit, place, watch, views) /\ RecordsOK
  BY InvIs
<1>2. PICK i \in Instruments, pin \in OutPins(circuit.graph) \cup {NoId} :
        SetPoint(i, pin) \/ SetSource(i, pin)
  BY DEF InstrumentStep
<1>3. PICK w : w = watch'
  OBVIOUS
<1>4. w = [watch EXCEPT ![i] = SetTo(pin)] /\ UNCHANGED <<circuit, place, params, views, Others>>
  BY <1>2, <1>3 DEF SetPoint, SetSource
<1>5. CircuitOK(circuit) /\ WatchOK(circuit, watch)
  BY <1>1 DEF AroundOK
<1>6. PointOK(circuit, SetTo(pin))
  BY <1>5, PointSet
<1>7. WatchOK(circuit, w)
  BY <1>4, <1>5, <1>6 DEF WatchOK
<1>8. AroundOK(circuit, place, w, views)
  BY <1>1, <1>7 DEF AroundOK
<1>9. ASSUME SetPoint(i, pin) PROVE EditorInv'
  <2>1. RecordsOK'
    BY <1>1, <1>9, MarkedStep DEF SetPoint, Others
  <2> QED BY <1>3, <1>4, <1>8, <2>1 DEF EditorInv, RecordsOK
<1>10. ASSUME SetSource(i, pin) PROVE EditorInv'
  <2>1. \A p \in Points : w[p] = watch[p]
    BY <1>4, <1>5, <1>10, InstrumentsAssumption DEF SetSource, WatchOK, Instruments
  <2>2. SameRecord(circuit, circuit')
    BY <1>4 DEF SameRecord
  <2>3. RecordsOK'
    BY <1>1, <1>3, <1>4, <1>5, <1>10, <2>1, <2>2, QuietStep DEF SetSource
  <2> QED BY <1>3, <1>4, <1>8, <2>3 DEF EditorInv, RecordsOK
<1>11. EditorInv'
  BY <1>2, <1>9, <1>10
<1> QED BY <1>4, <1>11, SameWho

-----------------------------------------------------------------------------
(* Saving and replacing the project *)

LEMMA CapturedIsFile ==
  ASSUME AroundOK(circuit, place, watch, views)
  PROVE  FileOK(Captured)
<1>1. PICK c, pos, par, w, points : /\ c = circuit /\ pos = place /\ par = params /\ w = watch
                               /\ points = [p \in Points |-> w[p].pin]
  OBVIOUS
<1>2. /\ CircuitOK(c) /\ DOMAIN pos = DOMAIN c.comps
      /\ \A n \in DOMAIN pos : pos[n] \in Positions
  BY <1>1 DEF AroundOK
<1>3. Captured = Capture(c, pos, par, points) /\ DOMAIN points = Points
  BY <1>1 DEF Captured, CaptureOf
<1> QED BY <1>2, <1>3, CaptureIsFile

\* What a point of the new project is set to, before the file sets it
LEMMA PointUnset ==
  ASSUME NEW c, CircuitOK(c)
  PROVE  PointOK(c, Unset)
<1>1. Unset = [pin |-> NoId, meant |-> NoId]
  BY DEF Unset
<1>2. NoId \notin Live(c)
  BY NoIdAssumption, LiveIs
<1> QED BY <1>1, <1>2 DEF PointOK

LEMMA PointsCleared ==
  ASSUME NEW w
  PROVE  /\ ClearPoints(ClearSource(w)) = [i \in Instruments |-> Unset]
         /\ ClearSource(ClearPoints(w)) = [i \in Instruments |-> Unset]
BY InstrumentsAssumption DEF ClearPoints, ClearSource, Instruments

LEMMA ResetStep ==
  ASSUME NEW c, CircuitOK(c), Bounded(c), c.epoch \in 0..MaxEpoch,
         NEW pos, DOMAIN pos = DOMAIN c.comps, \A n \in DOMAIN pos : pos[n] \in Positions,
         NEW par, ResetProject(c, pos, par)
  PROVE  AroundOK(circuit', place', watch', views')
<1>1. PICK w, v : w = watch' /\ v = views'
  OBVIOUS
<1>2. circuit' = c /\ place' = pos /\ v = SyncViews({}, c) /\ w = [i \in Instruments |-> Unset]
  BY <1>1, PointsCleared DEF ResetProject, ClearedViews
<1>3. v = ViewsOf(c)
  BY <1>2, ViewsFresh
<1>4. WatchOK(c, w)
  BY <1>2, PointUnset DEF WatchOK
<1> QED BY <1>1, <1>2, <1>3, <1>4 DEF AroundOK

\* A project that was just opened or created is clean, and has no layout to
\* undo.
LEMMA CleanStep ==
  ASSUME RecordsOK, MarkClean, undo' = {}, undoRevision' = undoRevision, file' = file,
         checkpoint' = NoId, baseline' = Captured'
  PROVE  RecordsOK'
<1>1. CountersOK'
  BY BoundsAssumption DEF RecordsOK, CountersOK, MarkClean
<1>2. UndoOK'
  BY DEF UndoOK, UndoIsSafe, CanUndoLayout
<1>3. FilesOK'
  BY DEF RecordsOK, FilesOK
<1>4. CleanMeansUnchanged'
  BY DEF CleanMeansUnchanged, Captured
<1> QED BY <1>1, <1>2, <1>3, <1>4 DEF RecordsOK

LEMMA EpochAdvanced ==
  ASSUME AroundOK(circuit, place, watch, views), RoomForEpoch
  PROVE  circuit.epoch + 1 \in 0..MaxEpoch
BY BoundsAssumption DEF AroundOK, RoomForEpoch

LEMMA ResetSteps ==
  ASSUME EditorInv, NewProject \/ StartTutorial \/ LoadUnusable
  PROVE  StepOK
<1>1. AroundOK(circuit, place, watch, views) /\ RecordsOK
  BY InvIs
<1>2. PICK epoch : epoch = circuit.epoch + 1
  OBVIOUS
<1>3. epoch \in 0..MaxEpoch
  BY <1>1, <1>2, EpochAdvanced DEF NewProject, StartTutorial, LoadUnusable
<1>4. ASSUME ResetProject(Reset(circuit), << >>, << >>) PROVE AroundOK(circuit', place', watch', views')
  <2>1. PICK c, pos : c = EmptyCircuit(epoch) /\ pos = << >>
    OBVIOUS
  <2>2. CircuitOK(c) /\ Bounded(c) /\ DOMAIN c.comps = {} /\ c.epoch = epoch
    BY <2>1, EmptyIsSound
  <2>3. DOMAIN pos = {} /\ ResetProject(c, pos, << >>)
    BY <1>2, <1>4, <2>1 DEF Reset
  <2> QED BY <1>3, <2>2, <2>3, ResetStep
<1>5. ASSUME ResetProject(Seed(circuit.epoch + 1), SeedPlace, SeedParams)
      PROVE  AroundOK(circuit', place', watch', views')
  <2>1. PICK c, pos : c = Seed(epoch) /\ pos = SeedPlace
    OBVIOUS
  <2>2. CircuitOK(c) /\ Bounded(c) /\ DOMAIN c.comps = {1, 2} /\ c.epoch = epoch
    BY <2>1, SeedIsSound
  <2>3. DOMAIN pos = {1, 2} /\ \A n \in DOMAIN pos : pos[n] \in Positions
    BY <2>1, PositionsAssumption DEF SeedPlace, Home
  <2>4. ResetProject(c, pos, SeedParams)
    BY <1>2, <1>5, <2>1
  <2> QED BY <1>3, <2>2, <2>3, <2>4, ResetStep
<1>6. AroundOK(circuit', place', watch', views')
  BY <1>4, <1>5 DEF NewProject, StartTutorial, LoadUnusable
<1>61. WhoOK(circuit') /\ circuit'.epoch # circuit.epoch
  <2>1. PICK a, b : a = EmptyCircuit(epoch) /\ b = Seed(epoch)
    OBVIOUS
  <2>2. WhoOK(a) /\ a.epoch = epoch
    BY <2>1, EmptyIsSound DEF WhoOK
  <2>3. WhoOK(b) /\ b.epoch = epoch
    BY <2>1, SeedIsSound
  <2>4. circuit' = a \/ circuit' = b
    BY <1>2, <2>1 DEF NewProject, StartTutorial, LoadUnusable, ResetProject, Reset
  <2>5. epoch # circuit.epoch
    BY <1>1, <1>2, BoundsAssumption DEF AroundOK
  <2> QED BY <2>2, <2>3, <2>4, <2>5
<1>7. undo' = {} /\ undoRevision' = undoRevision /\ file' = file /\ checkpoint' = NoId
  BY DEF NewProject, StartTutorial, LoadUnusable, ResetProject, ClearedUndo
<1>8. RecordsOK'
  <2>1. CASE LoadUnusable
    BY <1>1, <1>7, <2>1, MarkedStep DEF LoadUnusable
  <2>2. CASE NewProject \/ StartTutorial
    BY <1>1, <1>7, <2>2, CleanStep DEF NewProject, StartTutorial
  <2> QED BY <2>1, <2>2
<1>9. EditorInv'
  BY <1>6, <1>8 DEF EditorInv, RecordsOK
<1> QED BY <1>61, <1>9, OtherWho

LEMMA ReplaceStep ==
  ASSUME NEW c, NEW r, IsRestored(c, r), c.epoch + 1 \in 0..MaxEpoch, ReplaceWith(r)
  PROVE  AroundOK(circuit', place', watch', views')
<1>1. PICK d, pos, w, v, points : /\ d = circuit' /\ pos = place' /\ w = watch' /\ v = views'
                                  /\ points = r.points
  OBVIOUS
<1>2. /\ d = r.circuit /\ pos = r.place /\ v = SyncViews({}, d)
      /\ w = [i \in Instruments |->
               IF i \in Points /\ points[i] # NoId
               THEN [pin |-> points[i], meant |-> PortOf(d, points[i])]
               ELSE Unset]
  BY <1>1, PointsCleared DEF ReplaceWith, ClearedViews
<1>3. CircuitOK(d) /\ Bounded(d) /\ d.epoch \in 0..MaxEpoch
  BY <1>2 DEF IsRestored
<1>4. DOMAIN pos = DOMAIN d.comps /\ \A n \in DOMAIN pos : pos[n] \in Positions
  BY <1>2 DEF IsRestored
<1>5. \A i \in Points : points[i] \in Live(d) \cup {NoId}
  BY <1>1, <1>2 DEF IsRestored, Live
<1>6. ASSUME NEW i \in Instruments PROVE PointOK(d, w[i])
  <2>1. CASE i \in Points /\ points[i] # NoId
    <3>1. w[i] = [pin |-> points[i], meant |-> PortOf(d, points[i])]
      BY <1>2, <2>1
    <3>2. points[i] \in Live(d)
      BY <1>5, <2>1
    <3> QED BY <1>3, <3>1, <3>2, LiveIs DEF PointOK
  <2>2. CASE ~(i \in Points /\ points[i] # NoId)
    BY <1>2, <1>3, <2>2, PointUnset
  <2> QED BY <2>1, <2>2
<1>7. WatchOK(d, w)
  BY <1>2, <1>6 DEF WatchOK
<1>8. v = ViewsOf(d)
  BY <1>2, ViewsFresh
<1> QED BY <1>1, <1>3, <1>4, <1>7, <1>8 DEF AroundOK

LEMMA LoadProjectStep ==
  ASSUME EditorInv, file # NoId, NEW fate \in Fates(file.comps), LoadProject(fate)
  PROVE  StepOK
<1>1. AroundOK(circuit, place, watch, views) /\ RecordsOK
  BY InvIs
<1>2. PICK c, saved, r : c = circuit /\ saved = file /\ r = Restore(c, saved, fate)
  OBVIOUS
<1>3. FileOK(saved)
  BY <1>1, <1>2 DEF RecordsOK, FilesOK
<1>4. \A i \in DOMAIN saved.comps : fate[i] \in {"restored", "skipped", "discarded"}
  BY <1>2 DEF Fates
<1>5. IsRestored(c, r)
  BY <1>2, <1>3, <1>4, Restored
<1>6. c.epoch + 1 \in 0..MaxEpoch
  BY <1>1, <1>2, EpochAdvanced DEF LoadProject
<1>7. ReplaceWith(r)
  BY <1>2 DEF LoadProject
<1>8. AroundOK(circuit', place', watch', views')
  BY <1>5, <1>6, <1>7, ReplaceStep
<1>9. /\ undo' = {} /\ undoRevision' = undoRevision /\ file' = file /\ checkpoint' = NoId
      /\ MarkClean /\ baseline' = Captured'
  BY DEF LoadProject, ReplaceWith, ClearedUndo
<1>10. RecordsOK'
  BY <1>1, <1>9, CleanStep
<1>11. EditorInv'
  BY <1>8, <1>10 DEF EditorInv, RecordsOK
<1>12. WhoOK(circuit') /\ circuit'.epoch # circuit.epoch
  <2>1. circuit' = r.circuit
    BY <1>7 DEF ReplaceWith
  <2>2. c.epoch + 1 # c.epoch
    BY <1>1, <1>2, BoundsAssumption DEF AroundOK
  <2> QED BY <1>2, <1>5, <2>1, <2>2 DEF IsRestored
<1> QED BY <1>11, <1>12, OtherWho

LEMMA RevertCheckpointStep ==
  ASSUME EditorInv, checkpoint # NoId, RevertCheckpoint
  PROVE  StepOK
<1>1. AroundOK(circuit, place, watch, views) /\ RecordsOK
  BY InvIs
<1>2. PICK c, saved, fate, r :
        /\ c = circuit /\ saved = checkpoint /\ fate = [i \in DOMAIN saved.comps |-> "restored"]
        /\ r = Restore(c, saved, fate)
  OBVIOUS
<1>3. FileOK(saved)
  BY <1>1, <1>2 DEF RecordsOK, FilesOK
<1>4. \A i \in DOMAIN saved.comps : fate[i] \in {"restored", "skipped", "discarded"}
  BY <1>2
<1>5. IsRestored(c, r)
  BY <1>2, <1>3, <1>4, Restored
<1>6. c.epoch + 1 \in 0..MaxEpoch
  BY <1>1, <1>2, EpochAdvanced DEF RevertCheckpoint
<1>7. ReplaceWith(r)
  BY <1>2 DEF RevertCheckpoint
<1>8. AroundOK(circuit', place', watch', views')
  BY <1>5, <1>6, <1>7, ReplaceStep
<1>9. /\ MarkModified /\ undo' = undo /\ undoRevision' = undoRevision /\ file' = file
      /\ checkpoint' = NoId
  BY DEF RevertCheckpoint, ReplaceWith
<1>10. RecordsOK'
  BY <1>1, <1>9, MarkedStep
<1>11. EditorInv'
  BY <1>8, <1>10 DEF EditorInv, RecordsOK
<1>12. WhoOK(circuit') /\ circuit'.epoch # circuit.epoch
  <2>1. circuit' = r.circuit
    BY <1>7 DEF ReplaceWith
  <2>2. c.epoch + 1 # c.epoch
    BY <1>1, <1>2, BoundsAssumption DEF AroundOK
  <2> QED BY <1>2, <1>5, <2>1, <2>2 DEF IsRestored
<1> QED BY <1>11, <1>12, OtherWho

LEMMA SaveProjectStep ==
  ASSUME EditorInv, SaveProject
  PROVE  StepOK
<1>1. AroundOK(circuit, place, watch, views) /\ RecordsOK
  BY InvIs
<1>2. /\ UNCHANGED <<circuit, place, params, watch, views, undo, undoRevision, checkpoint, revision>>
      /\ clean' = revision /\ file' = Captured /\ baseline' = Captured
  BY DEF SaveProject, MarkClean
<1>3. CountersOK'
  BY <1>1, <1>2, BoundsAssumption DEF RecordsOK, CountersOK
<1>4. UndoOK'
  BY <1>1, <1>2 DEF RecordsOK, UndoOK, UndoIsSafe, CanUndoLayout, Hidden, Nodes
<1>5. FilesOK'
  BY <1>1, <1>2, CapturedIsFile DEF RecordsOK, FilesOK
<1>6. CleanMeansUnchanged'
  BY <1>2 DEF CleanMeansUnchanged, Captured
<1>7. EditorInv'
  BY <1>1, <1>2, <1>3, <1>4, <1>5, <1>6 DEF EditorInv
<1> QED BY <1>2, <1>7, SameWho

LEMMA TakeCheckpointStep ==
  ASSUME EditorInv, TakeCheckpoint
  PROVE  StepOK
<1>1. AroundOK(circuit, place, watch, views) /\ RecordsOK
  BY InvIs
<1>2. /\ UNCHANGED <<circuit, place, params, views, watch, revision, clean, undo, undoRevision,
                     file, baseline>>
      /\ checkpoint' = Captured
  BY DEF TakeCheckpoint
<1>3. CountersOK'
  BY <1>1, <1>2 DEF RecordsOK, CountersOK
<1>4. UndoOK'
  BY <1>1, <1>2 DEF RecordsOK, UndoOK, UndoIsSafe, CanUndoLayout, Hidden, Nodes
<1>5. FilesOK'
  BY <1>1, <1>2, CapturedIsFile DEF RecordsOK, FilesOK
<1>6. CleanMeansUnchanged'
  BY <1>1, <1>2 DEF RecordsOK, CleanMeansUnchanged, Dirty, Captured
<1>7. EditorInv'
  BY <1>1, <1>2, <1>3, <1>4, <1>5, <1>6 DEF EditorInv
<1> QED BY <1>2, <1>7, SameWho

\* A step that leaves all but the views alone
LEMMA UnchangedStep ==
  ASSUME EditorInv, views' = views,
         UNCHANGED <<circuit, place, params, watch, revision, clean, Others>>
  PROVE  StepOK
<1>1. EditorInv'
  BY DEF EditorInv, CountersOK, UndoOK, FilesOK, UndoIsSafe, CanUndoLayout, Hidden,
         Nodes, CleanMeansUnchanged, Dirty, Captured, Others
<1> QED BY <1>1, SameWho

LEMMA LoadRefusedStep ==
  ASSUME EditorInv, LoadRefused
  PROVE  StepOK
<1>1. PICK c, old : c = circuit /\ old = views
  OBVIOUS
<1>2. old = ViewsOf(c)
  BY <1>1 DEF EditorInv, AroundOK
<1>3. SyncViews(old, c) = ViewsOf(c)
  BY <1>2, ViewsSynced
<1>4. views' = views
  BY <1>1, <1>2, <1>3 DEF LoadRefused
<1> QED BY <1>4, UnchangedStep DEF LoadRefused

LEMMA ProjectSteps ==
  ASSUME EditorInv, ProjectStep
  PROVE  StepOK
BY SaveProjectStep, ResetSteps, LoadRefusedStep, LoadProjectStep, TakeCheckpointStep,
   RevertCheckpointStep DEF ProjectStep

-----------------------------------------------------------------------------
(* The parameters and the selection *)

\* What the components are set to, and the only one that is selected
SetOK ==
  /\ DOMAIN params = Nodes /\ \A n \in Nodes : params[n] \in AllParams
  /\ selection \in Nodes \cup {NoId}
FileSet(saved) == \A i \in DOMAIN saved.comps : saved.comps[i].params \in AllParams
FilesSet == /\ file = NoId \/ FileSet(file)
            /\ checkpoint = NoId \/ FileSet(checkpoint)
ParamsInv == SetOK /\ FilesSet

\* The nodes are those that have a position.
LEMMA PlacedNodes ==
  ASSUME EditorInv
  PROVE  Nodes = DOMAIN place
BY DEF EditorInv, AroundOK, Nodes

LEMMA SetParamsStep ==
  ASSUME EditorInv, NEW n, NEW set, SetParams(n, set)
  PROVE  StepOK
<1>1. AroundOK(circuit, place, watch, views) /\ RecordsOK
  BY InvIs
<1>2. UNCHANGED <<circuit, place, watch, views>>
  BY DEF SetParams
<1>3. RecordsOK'
  BY <1>1, MarkedStep DEF SetParams, Others
<1>4. EditorInv'
  BY <1>1, <1>2, <1>3 DEF EditorInv, RecordsOK
<1> QED BY <1>2, <1>4, SameWho

\* Picking a channel leaves the settings alone, and them only does a clean
\* project promise.
LEMMA ClickChannelStep ==
  ASSUME EditorInv, SetOK, NEW v, NEW ch, ClickChannel(v, ch)
  PROVE  StepOK
<1>1. AroundOK(circuit, place, watch, views) /\ RecordsOK
  BY InvIs
<1>2. UNCHANGED <<circuit, place, watch, views, revision, clean, Others>>
  BY DEF ClickChannel
<1>3. ASSUME NEW n \in DOMAIN circuit.comps PROVE params'[n].setting = params[n].setting
  <2>1. PICK q : q = params[n]
    OBVIOUS
  <2>2. n \in DOMAIN params /\ q \in AllParams
    BY <2>1 DEF SetOK, Nodes
  <2>3. [q EXCEPT !.channel = ch].setting = q.setting
    BY <2>2 DEF AllParams
  <2>4. params'[n] = q \/ params'[n] = [q EXCEPT !.channel = ch]
    BY <2>1, <2>2 DEF ClickChannel
  <2> QED BY <2>1, <2>3, <2>4
<1>4. SameRecord(circuit, circuit')
  BY <1>2 DEF SameRecord
<1>5. RecordsOK'
  BY <1>1, <1>2, <1>3, <1>4, QuietStep DEF AroundOK
<1>6. EditorInv'
  BY <1>1, <1>2, <1>5 DEF EditorInv, RecordsOK
<1> QED BY <1>2, <1>6, SameWho

LEMMA ParamSteps ==
  ASSUME EditorInv, SetOK, ParamStep
  PROVE  StepOK
BY SetParamsStep, ClickChannelStep DEF ParamStep

LEMMA CapturedIsSet ==
  ASSUME EditorInv, SetOK
  PROVE  FileSet(Captured)
<1>1. PICK c, pos, par, w, points : /\ c = circuit /\ pos = place /\ par = params /\ w = watch
                                    /\ points = [p \in Points |-> w[p].pin]
  OBVIOUS
<1>2. PICK order, links, gids :
        /\ order = Order(c) /\ links = InOrder(c.graph.links)
        /\ gids = Ascending(DOMAIN c.graph.groups)
  OBVIOUS
<1>3. Captured = CaptureInOrder(c, pos, par, points, order, links, gids)
  BY <1>1, <1>2 DEF Captured, CaptureOf, Capture
<1>4. \A i \in DOMAIN order : order[i] \in DOMAIN c.comps
  <2>1. CircuitOK(c)
    BY <1>1 DEF EditorInv, AroundOK
  <2>2. DOMAIN c.comps \in SUBSET Nat /\ IsFiniteSet(DOMAIN c.comps)
    BY <2>1, FiniteNodes DEF CircuitOK, CompsOK, GraphOK, NodesOK
  <2>3. order \in [1..Cardinality(DOMAIN c.comps) -> DOMAIN c.comps]
    BY <1>2, <2>2, AscendingIs DEF Order
  <2> QED BY <2>3
<1>5. \A n \in DOMAIN c.comps : par[n] \in AllParams
  BY <1>1 DEF SetOK, Nodes
<1>6. PICK comps : comps = Captured.comps
  OBVIOUS
<1>7. DOMAIN comps = DOMAIN order /\ \A i \in DOMAIN order : comps[i].params = par[order[i]]
  BY <1>3, <1>6 DEF CaptureInOrder
<1> QED BY <1>4, <1>5, <1>6, <1>7 DEF FileSet

\* The snapshots are the ones before, none, or what the project is.
LEMMA FilesSetKept ==
  ASSUME EditorInv, ParamsInv, Next
  PROVE  FilesSet'
<1>1. file' = file \/ file' = Captured
  <2>1. ASSUME ComponentStep \/ ParamStep \/ GraphStep \/ SelectStep \/ LayoutStep \/ InstrumentStep
        PROVE  file' = file
    BY <2>1 DEF ComponentStep, ComponentStepOf, PlaceStepOf, AddComponent, RefuseComponent,
                RemoveNodeComponent, SwapPart, RefuseSwap, ParamStep, SetParams, ClickChannel,
                GraphStep, ConnectPins, DisconnectLink, AddProbePin, RemoveProbePin, CreateGroup,
                RemoveGroupOf, CollapseGroup, GraphEdit, Edit, SelectGroup, SelectNode, Click,
                SelectStep, LayoutStep, MoveNodes, UndoLayout, DragNode, InstrumentStep, SetPoint,
                SetSource, Others
  <2>2. ASSUME ProjectStep PROVE file' = file \/ file' = Captured
    BY <2>2 DEF ProjectStep, SaveProject, NewProject, StartTutorial, LoadUnusable, LoadRefused,
                ResetProject, LoadProject, ReplaceWith, TakeCheckpoint, RevertCheckpoint, Others
  <2> QED BY <2>1, <2>2 DEF Next
<1>2. checkpoint' \in {checkpoint, NoId} \/ checkpoint' = Captured
  <2>1. ASSUME ComponentStep \/ ParamStep \/ GraphStep \/ SelectStep \/ LayoutStep \/ InstrumentStep
        PROVE  checkpoint' = checkpoint
    BY <2>1 DEF ComponentStep, ComponentStepOf, PlaceStepOf, AddComponent, RefuseComponent,
                RemoveNodeComponent, SwapPart, RefuseSwap, ParamStep, SetParams, ClickChannel,
                GraphStep, ConnectPins, DisconnectLink, AddProbePin, RemoveProbePin, CreateGroup,
                RemoveGroupOf, CollapseGroup, GraphEdit, Edit, SelectGroup, SelectNode, Click,
                SelectStep, LayoutStep, MoveNodes, UndoLayout, DragNode, InstrumentStep, SetPoint,
                SetSource, Others
  <2>2. ASSUME ProjectStep
        PROVE  checkpoint' \in {checkpoint, NoId} \/ checkpoint' = Captured
    BY <2>2 DEF ProjectStep, SaveProject, NewProject, StartTutorial, LoadUnusable, LoadRefused,
                ResetProject, LoadProject, ReplaceWith, TakeCheckpoint, RevertCheckpoint, Others
  <2> QED BY <2>1, <2>2 DEF Next
<1>3. FileSet(Captured)
  BY CapturedIsSet DEF ParamsInv
<1>4. FilesSet
  BY DEF ParamsInv
<1>5. PICK x, y, now : x = file' /\ y = checkpoint' /\ now = Captured
  OBVIOUS
<1>6. x = NoId \/ FileSet(x)
  BY <1>1, <1>3, <1>4, <1>5 DEF FilesSet
<1>7. y = NoId \/ FileSet(y)
  BY <1>2, <1>3, <1>4, <1>5 DEF FilesSet
<1> QED BY <1>5, <1>6, <1>7 DEF FilesSet

\* A step that leaves the nodes and what they are set to
LEMMA SetKept ==
  ASSUME EditorInv, EditorInv', SetOK, DOMAIN place' = DOMAIN place, params' = params,
         selection' \in Nodes \cup {NoId}
  PROVE  SetOK'
<1>1. Nodes = DOMAIN place /\ Nodes' = DOMAIN place'
  BY PlacedNodes DEF EditorInv, AroundOK, Nodes
<1> QED BY <1>1 DEF SetOK

LEMMA ComponentStepSets ==
  ASSUME EditorInv, EditorInv', SetOK, ComponentStep
  PROVE  SetOK'
<1>1. Nodes = DOMAIN place /\ Nodes' = DOMAIN place'
  BY PlacedNodes DEF EditorInv, AroundOK, Nodes
<1>2. PICK new : new = circuit.graph.nextNode
  OBVIOUS
<1>3. ASSUME NEW type, NEW pos, NEW set \in AllParams, AddComponent(type, pos, set)
      PROVE  SetOK'
  <2>1. /\ place' = [m \in DOMAIN place \cup {new} |-> IF m = new THEN pos ELSE place[m]]
        /\ params' = [m \in DOMAIN params \cup {new} |-> IF m = new THEN set ELSE params[m]]
        /\ selection' = selection
    BY <1>2, <1>3 DEF AddComponent, With
  <2> QED BY <1>1, <2>1 DEF SetOK
<1>4. ASSUME NEW type, RefuseComponent(type) \/ \E n : RefuseSwap(n, type)
      PROVE  SetOK'
  BY <1>4, SetKept DEF RefuseComponent, RefuseSwap, SetOK
<1>5. ASSUME NEW n, RemoveNodeComponent(n) PROVE SetOK'
  <2>1. /\ place' = [m \in DOMAIN place \ {n} |-> place[m]]
        /\ params' = [m \in DOMAIN params \ {n} |-> params[m]]
        /\ selection' \in Nodes' \cup {NoId}
    BY <1>5 DEF RemoveNodeComponent, But, Shown, Nodes
  <2> QED BY <1>1, <2>1 DEF SetOK
<1>6. ASSUME NEW n \in Nodes, NEW type, NEW set \in AllParams, SwapPart(n, type, set)
      PROVE  SetOK'
  <2>1. PICK at, par : at = But(place, n) /\ par = But(params, n)
    OBVIOUS
  <2>2. /\ place' = [m \in DOMAIN at \cup {new} |-> IF m = new THEN place[n] ELSE at[m]]
        /\ params' = [m \in DOMAIN par \cup {new} |-> IF m = new THEN set ELSE par[m]]
        /\ selection' = new
    BY <1>2, <1>6, <2>1 DEF SwapPart, PlacedAsWas, With
  <2>3. /\ DOMAIN at = DOMAIN place \ {n} /\ DOMAIN par = DOMAIN params \ {n}
        /\ \A m \in DOMAIN params \ {n} : par[m] = params[m]
    BY <2>1 DEF But
  <2> QED BY <1>1, <2>2, <2>3 DEF SetOK
<1>7. \A type : ParamsOf(type) \subseteq AllParams
  BY DEF ParamsOf
<1> QED BY <1>3, <1>4, <1>5, <1>6, <1>7 DEF ComponentStep, ComponentStepOf, PlaceStepOf

LEMMA ParamStepSets ==
  ASSUME EditorInv, EditorInv', SetOK, ParamStep
  PROVE  SetOK'
<1>1. Nodes' = Nodes /\ selection' = selection
  BY DEF ParamStep, SetParams, ClickChannel, Nodes
<1>2. ASSUME NEW n, NEW set \in AllParams, SetParams(n, set) PROVE SetOK'
  BY <1>1, <1>2 DEF SetParams, SetOK
<1>3. ASSUME NEW v, NEW ch \in Channels, ClickChannel(v, ch) PROVE SetOK'
  <2>1. PICK k : k = v.node
    OBVIOUS
  <2>2. DOMAIN params' = DOMAIN params
    BY <1>3 DEF ClickChannel
  <2>3. ASSUME NEW n \in Nodes PROVE params'[n] \in AllParams
    <3>1. PICK q : q = params[n]
      OBVIOUS
    <3>2. n \in DOMAIN params /\ q \in AllParams
      BY <3>1 DEF SetOK
    <3>3. [q EXCEPT !.channel = ch] \in AllParams
      BY <3>2 DEF AllParams
    <3>4. params'[n] = q \/ params'[n] = [q EXCEPT !.channel = ch]
      BY <1>3, <3>1, <3>2 DEF ClickChannel
    <3> QED BY <3>2, <3>3, <3>4
  <2> QED BY <1>1, <2>2, <2>3 DEF SetOK
<1>4. \A type : ParamsOf(type) \subseteq AllParams
  BY DEF ParamsOf
<1> QED BY <1>2, <1>3, <1>4 DEF ParamStep

LEMMA OtherStepSets ==
  ASSUME EditorInv, EditorInv', SetOK,
         GraphStep \/ SelectStep \/ LayoutStep \/ InstrumentStep
  PROVE  SetOK'
<1>1. params' = params
  BY DEF GraphStep, ConnectPins, DisconnectLink, AddProbePin, RemoveProbePin, CreateGroup,
         RemoveGroupOf, CollapseGroup, GraphEdit, Edit, SelectGroup, SelectNode, Click, SelectStep,
         LayoutStep, MoveNodes, UndoLayout, DragNode, InstrumentStep, SetPoint, SetSource
<1>2. DOMAIN place' = DOMAIN place
  <2>1. ASSUME LayoutStep PROVE DOMAIN place' = DOMAIN place
    BY <2>1 DEF LayoutStep, MoveNodes, Reposition, UndoLayout, DragNode
  <2>2. ASSUME GraphStep \/ SelectStep \/ InstrumentStep PROVE place' = place
    BY <2>2 DEF GraphStep, ConnectPins, DisconnectLink, AddProbePin, RemoveProbePin, CreateGroup,
                RemoveGroupOf, CollapseGroup, GraphEdit, Edit, SelectGroup, SelectNode, Click,
                SelectStep, InstrumentStep, SetPoint, SetSource
  <2> QED BY <2>1, <2>2
<1>3. selection' \in Nodes \cup {NoId}
  <2>1. selection \in Nodes \cup {NoId}
    BY DEF SetOK
  <2> QED BY <2>1 DEF GraphStep, ConnectPins, DisconnectLink, AddProbePin, RemoveProbePin,
             CreateGroup, RemoveGroupOf, CollapseGroup, GraphEdit, Edit, SelectGroup, SelectNode,
             Click, SelectStep, LayoutStep, MoveNodes, UndoLayout, DragNode, InstrumentStep,
             SetPoint, SetSource
<1> QED BY <1>1, <1>2, <1>3, SetKept

\* What a file or a new project puts in the place of the parameters
LEMMA RestoredSets ==
  ASSUME NEW c, NEW saved, FileOK(saved), FileSet(saved),
         NEW fate, \A i \in DOMAIN saved.comps : fate[i] \in {"restored", "skipped", "discarded"},
         ReplaceWith(Restore(c, saved, fate))
  PROVE  SetOK'
<1>1. PICK r : r = Restore(c, saved, fate)
  OBVIOUS
<1>2. SetByFile(saved, r)
  BY <1>1, Restored
<1>3. circuit' = r.circuit /\ params' = r.params /\ selection' = Shown(selection, r.circuit)
  BY <1>1 DEF ReplaceWith
<1>4. Nodes' = DOMAIN r.circuit.comps
  BY <1>3 DEF Nodes
<1>5. selection' \in Nodes' \cup {NoId}
  BY <1>3, <1>4 DEF Shown
<1>6. DOMAIN r.params = DOMAIN r.circuit.comps /\ \A n \in DOMAIN r.params : r.params[n] \in AllParams
  BY <1>2 DEF SetByFile, FileSet
<1> QED BY <1>3, <1>4, <1>5, <1>6 DEF SetOK

LEMMA ProjectStepSets ==
  ASSUME EditorInv, EditorInv', ParamsInv, ProjectStep
  PROVE  SetOK'
<1>1. SetOK /\ FilesSet /\ FilesOK
  BY DEF ParamsInv, EditorInv
<1>2. ASSUME SaveProject \/ LoadRefused \/ TakeCheckpoint PROVE SetOK'
  BY <1>1, <1>2, SetKept DEF SaveProject, LoadRefused, TakeCheckpoint, SetOK
<1>3. ASSUME NEW c, NEW pos, NEW par, ResetProject(c, pos, par),
             DOMAIN par = DOMAIN pos, \A n \in DOMAIN par : par[n] \in AllParams
      PROVE  SetOK'
  <2>1. /\ Nodes' = DOMAIN c.comps /\ DOMAIN place' = Nodes' /\ place' = pos /\ params' = par
        /\ selection' = Shown(selection, c)
    BY <1>3 DEF ResetProject, Nodes, EditorInv, AroundOK
  <2>2. selection' \in Nodes' \cup {NoId}
    BY <2>1 DEF Shown
  <2> QED BY <1>3, <2>1, <2>2 DEF SetOK
<1>4. ASSUME NewProject \/ LoadUnusable PROVE SetOK'
  <2>1. ResetProject(Reset(circuit), << >>, << >>)
    BY <1>4 DEF NewProject, LoadUnusable
  <2> QED BY <1>3, <2>1
<1>5. ASSUME StartTutorial PROVE SetOK'
  <2>1. ResetProject(Seed(circuit.epoch + 1), SeedPlace, SeedParams)
    BY <1>5 DEF StartTutorial
  <2>2. Default \in AllParams
    BY ParamsAssumption DEF Default, NoChannel, AllParams
  <2>3. DOMAIN SeedParams = DOMAIN SeedPlace /\ \A n \in DOMAIN SeedParams : SeedParams[n] \in AllParams
    BY <2>2 DEF SeedPlace, SeedParams
  <2> QED BY <1>3, <2>1, <2>3
<1>6. ASSUME file # NoId, NEW fate \in Fates(file.comps), LoadProject(fate) PROVE SetOK'
  <2>1. FileOK(file) /\ FileSet(file)
    BY <1>1, <1>6 DEF FilesOK, FilesSet
  <2>2. ReplaceWith(Restore(circuit, file, fate))
    BY <1>6 DEF LoadProject
  <2>3. \A i \in DOMAIN file.comps : fate[i] \in {"restored", "skipped", "discarded"}
    BY DEF Fates
  <2> QED BY <2>1, <2>2, <2>3, RestoredSets
<1>7. ASSUME checkpoint # NoId, RevertCheckpoint PROVE SetOK'
  <2>1. FileOK(checkpoint) /\ FileSet(checkpoint)
    BY <1>1, <1>7 DEF FilesOK, FilesSet
  <2>2. PICK fate : fate = [i \in DOMAIN checkpoint.comps |-> "restored"]
    OBVIOUS
  <2>3. ReplaceWith(Restore(circuit, checkpoint, fate))
    BY <1>7, <2>2 DEF RevertCheckpoint
  <2>4. \A i \in DOMAIN checkpoint.comps : fate[i] \in {"restored", "skipped", "discarded"}
    BY <2>2
  <2> QED BY <2>1, <2>3, <2>4, RestoredSets
<1> QED BY <1>2, <1>4, <1>5, <1>6, <1>7 DEF ProjectStep

LEMMA ParamsKept ==
  ASSUME EditorInv, EditorInv', ParamsInv, [Next]_vars
  PROVE  ParamsInv'
<1>1. CASE Next
  <2>1. SetOK'
    BY <1>1, ComponentStepSets, ParamStepSets, OtherStepSets, ProjectStepSets DEF Next, ParamsInv
  <2> QED BY <1>1, <2>1, FilesSetKept DEF ParamsInv
<1>2. CASE UNCHANGED vars
  BY <1>2 DEF vars, ParamsInv, SetOK, Nodes, FilesSet
<1> QED BY <1>1, <1>2

LEMMA InitParams == Init => ParamsInv
<1> SUFFICES ASSUME Init PROVE ParamsInv
  OBVIOUS
<1>1. Nodes = {1, 2}
  <2>1. PICK c : c = Seed(0)
    OBVIOUS
  <2> QED BY <2>1, SeedIsSound DEF Init, Nodes
<1>2. Default \in AllParams
  BY ParamsAssumption DEF Default, NoChannel, AllParams
<1> QED BY <1>1, <1>2 DEF Init, ParamsInv, SetOK, FilesSet, SeedParams

-----------------------------------------------------------------------------
(* Every behaviour of the editor *)

LEMMA InitInv == Init => EditorInv
<1> SUFFICES ASSUME Init PROVE EditorInv
  OBVIOUS
<1>1. PICK c, pos, w, v : c = circuit /\ pos = place /\ w = watch /\ v = views
  OBVIOUS
<1>2. c = Seed(0) /\ pos = SeedPlace /\ v = {} /\ w = [i \in Instruments |-> Unset]
  BY <1>1 DEF Init
<1>3. /\ CircuitOK(c) /\ Bounded(c) /\ DOMAIN c.comps = {1, 2} /\ c.epoch = 0
      /\ Pfbs(c) = {}
  BY <1>2, SeedIsSound
<1>4. DOMAIN pos = {1, 2} /\ \A n \in DOMAIN pos : pos[n] \in Positions
  BY <1>2, PositionsAssumption DEF SeedPlace, Home
<1>5. WatchOK(c, w)
  BY <1>2, <1>3, PointUnset DEF WatchOK
<1>6. v = ViewsOf(c)
  BY <1>2, <1>3 DEF ViewsOf
<1>7. AroundOK(circuit, place, watch, views)
  BY <1>1, <1>3, <1>4, <1>5, <1>6, BoundsAssumption DEF AroundOK
<1>8. CountersOK /\ UndoOK /\ FilesOK
  BY BoundsAssumption DEF Init, CountersOK, UndoOK, UndoIsSafe, CanUndoLayout, FilesOK
<1>9. CleanMeansUnchanged
  BY DEF Init, CleanMeansUnchanged, Captured
<1> QED BY <1>7, <1>8, <1>9 DEF EditorInv

LEMMA EveryStep ==
  ASSUME EditorInv, ParamsInv, [Next]_vars
  PROVE  StepOK
<1>1. CASE Next
  BY <1>1, ComponentSteps, ParamSteps, GraphSteps, SelectSteps, LayoutSteps, InstrumentSteps,
     ProjectSteps DEF Next, ParamsInv
<1>2. CASE UNCHANGED vars
  BY <1>2, UnchangedStep DEF vars, Others
<1> QED BY <1>1, <1>2

\* The inductive invariant: the circuit and all that refers to it from
\* outside, whatever command comes next.
THEOREM EditorInvariant == Spec => [](EditorInv /\ ParamsInv)
<1>1. Init => EditorInv /\ ParamsInv
  BY InitInv, InitParams
<1>2. EditorInv /\ ParamsInv /\ [Next]_vars => (EditorInv /\ ParamsInv)'
  BY EveryStep, ParamsKept DEF StepOK
<1> QED BY <1>1, <1>2, PTL DEF Spec

\* Replacing a part changes the part and nothing else: its links, probes,
\* subcircuit, id, instrument points and position go over to the successor,
\* which is what the inspector shows.  No other command puts a component at
\* another node.
THEOREM SwapsKeepThePicture == Spec => SwapKeepsPicture
<1>1. Init => EditorInv /\ ParamsInv /\ WhoOK(circuit)
  <2> SUFFICES ASSUME Init PROVE WhoOK(circuit)
    BY InitInv, InitParams
  <2>1. PICK c : c = Seed(0)
    OBVIOUS
  <2> QED BY <2>1, SeedIsSound DEF Init
<1>2. ASSUME EditorInv, ParamsInv, WhoOK(circuit), [Next]_vars
      PROVE  /\ (EditorInv /\ ParamsInv /\ WhoOK(circuit))'
             /\ \A n \in Nodes : Replaced(n) =>
                  Picture(circuit', watch', place', selection') = Picture(circuit, watch, place, n)
  <2>1. StepOK
    BY <1>2, EveryStep
  <2>2. (EditorInv /\ ParamsInv /\ WhoOK(circuit))'
    BY <1>2, <2>1, ParamsKept DEF StepOK
  <2>3. ASSUME NEW n \in Nodes, Replaced(n)
        PROVE  Picture(circuit', watch', place', selection') = Picture(circuit, watch, place, n)
    <3>1. ~Beside(circuit, circuit')
      BY <2>3 DEF Beside, Replaced, Nodes
    <3>2. PICK k \in Nodes :
            /\ BesideBut(circuit, circuit', k)
            /\ Picture(circuit', watch', place', selection') = Picture(circuit, watch, place, k)
      BY <1>2, <2>1, <3>1 DEF StepOK
    <3>3. n = k
      BY <2>3, <3>2 DEF BesideBut, Replaced, Nodes
    <3> QED BY <3>2, <3>3
  <2> QED BY <2>2, <2>3
<1> QED BY <1>1, <1>2, PTL DEF Spec, SwapKeepsPicture

LEMMA InvTypes == EditorInv /\ ParamsInv => TypeOK
<1> SUFFICES ASSUME EditorInv, ParamsInv PROVE TypeOK
  OBVIOUS
<1>1. AroundOK(circuit, place, watch, views) /\ CountersOK
  BY DEF EditorInv
<1>2. /\ CompsOK(circuit) /\ WiringOK(circuit) /\ circuit.epoch \in 0..MaxEpoch
      /\ DOMAIN place = DOMAIN circuit.comps /\ \A n \in DOMAIN place : place[n] \in Positions
      /\ DOMAIN watch = Instruments
  BY <1>1 DEF AroundOK, CircuitOK, WatchOK
<1>3. DOMAIN params = Nodes /\ (\A n \in Nodes : params[n] \in AllParams)
      /\ selection \in Nodes \cup {NoId}
  BY DEF ParamsInv, SetOK
<1> QED BY <1>1, <1>2, <1>3 DEF TypeOK, Nodes, CompsOK, WiringOK, CountersOK

LEMMA InvGraph == EditorInv => GraphIsSound
<1> SUFFICES ASSUME EditorInv PROVE GraphIsSound
  OBVIOUS
<1>1. PICK c, g : c = circuit /\ g = circuit.graph
  OBVIOUS
<1>2. LinksOK(g) /\ ProbesOK(g) /\ PolicyOK(c) /\ DOMAIN g.nodes = Nodes
  BY <1>1 DEF EditorInv, AroundOK, CircuitOK, GraphOK, CompsOK, Nodes
<1>3. Acyclic(Edges(g), Nodes)
  BY <1>2 DEF LinksOK
<1>4. /\ \A l \in g.links : l.start \in OutPins(g) /\ l.end \in InPins(g)
      /\ \A l, m \in g.links : l.end = m.end => l = m
  BY <1>2 DEF LinksOK
<1>5. \A l \in g.links : GraphLinkAllowed(circuit, l.start, l.end)
  BY <1>1, <1>2 DEF PolicyOK
<1>6. ToSet(g.probes) \subseteq LivePins /\ IsInjective(g.probes)
  BY <1>1, <1>2 DEF ProbesOK, LivePins
<1> QED BY <1>1, <1>3, <1>4, <1>5, <1>6 DEF GraphIsSound

LEMMA InvWiring == EditorInv => WiringFollowsLinks
<1> SUFFICES ASSUME EditorInv, NEW pin \in InPins(circuit.graph),
                    NEW sources,
                    sources = {l.start : l \in {m \in circuit.graph.links : m.end = pin}}
             PROVE  IF sources = {} THEN circuit.wiring[pin] = NoId
                    ELSE circuit.wiring[pin] \in sources
  BY DEF WiringFollowsLinks
<1>1. Reads(circuit, pin)
  BY DEF EditorInv, AroundOK, CircuitOK, WiringOK
<1>2. CASE circuit.wiring[pin] = NoId /\ \A l \in circuit.graph.links : l.end # pin
  BY <1>2
<1>3. CASE \E l \in circuit.graph.links : l.end = pin /\ l.start = circuit.wiring[pin]
  BY <1>3
<1> QED BY <1>1, <1>2, <1>3 DEF Reads

LEMMA InvGroups == EditorInv => GroupsAreSound
<1> SUFFICES ASSUME EditorInv PROVE GroupsAreSound
  OBVIOUS
<1>1. PICK g : g = circuit.graph
  OBVIOUS
<1>2. NodesOK(g) /\ GroupsOK(g) /\ BoundariesOK(g) /\ DOMAIN g.nodes = Nodes
  BY <1>1 DEF EditorInv, AroundOK, CircuitOK, GraphOK, CompsOK, Nodes, Bounded
<1>3. ASSUME NEW gid \in DOMAIN g.groups
      PROVE  /\ g.groups[gid].members \subseteq Nodes
             /\ Cardinality(g.groups[gid].members) >= 2
             /\ g.groups[gid].collapsed =>
                  g.groups[gid].pins = BoundaryPins(g, g.groups[gid].members)
  <2>1. g.groups[gid].members \subseteq Nodes /\ Two(g.groups[gid].members)
    BY <1>2 DEF GroupsOK
  <2>2. IsFiniteSet(g.groups[gid].members)
    BY <1>2, <2>1, FiniteNodes, FS_Subset
  <2>3. Cardinality(g.groups[gid].members) >= 2
    BY <2>1, <2>2, TwoMembers
  <2> QED BY <1>2, <2>1, <2>3 DEF BoundariesOK
<1>4. /\ \A i, j \in DOMAIN g.groups :
           i # j => g.groups[i].members \cap g.groups[j].members = {}
      /\ g.cache = CacheOf(g.groups)
      /\ g.selected \in DOMAIN g.groups \cup {NoId}
  BY <1>2 DEF GroupsOK
<1> QED BY <1>1, <1>3, <1>4 DEF GroupsAreSound

LEMMA InvSwaps == EditorInv => SwapsAttachEveryLink
<1> SUFFICES ASSUME EditorInv, NEW n \in Nodes, NEW t \in Types,
                    SwapFits(circuit, n, t, InstrumentPins)
             PROVE  Attach(circuit, n, t).ok
  BY DEF SwapsAttachEveryLink
<1>1. PICK c, pins : c = circuit /\ pins = InstrumentPins
  OBVIOUS
<1>2. CircuitOK(c) /\ n \in DOMAIN c.comps /\ SwapFits(c, n, t, pins)
  BY <1>1 DEF EditorInv, AroundOK, Nodes
<1> QED BY <1>1, <1>2, SwapAttaches

LEMMA InvPanels == EditorInv => PanelsAreSound
BY DEF EditorInv, AroundOK, WatchOK, PointOK, Live, LivePins, PanelsAreSound,
       PointsKeepTheirPort, ViewsShowLiveEngines, ViewsOf

\* The circuit is sound after any commands of any number: types, a graph
\* without cycles, inputs with one link at most that read what they are linked
\* to, probes and groups of live nodes with the boundary of their links, and
\* parts that fit and are replaced with all their links.
THEOREM CircuitIsAlwaysSound == Spec => []CircuitIsSound
<1>1. EditorInv /\ ParamsInv => CircuitIsSound
  BY InvTypes, InvGraph, InvWiring, InvGroups, InvSwaps DEF CircuitIsSound
<1> QED BY <1>1, EditorInvariant, PTL

\* The layout's undo never applies to other nodes than it moved, nor over a
\* later edit, whatever project takes the place of theirs.
THEOREM UndoIsAlwaysSafe == Spec => []UndoIsSafe
<1>1. EditorInv => UndoIsSafe
  BY DEF EditorInv, UndoOK
<1> QED BY <1>1, EditorInvariant, PTL

\* No instrument reads another port than the chosen one, and no view keeps an
\* engine that is gone, though every project hands out the same ids again.
THEOREM PanelsAreAlwaysSound == Spec => []PanelsAreSound
<1>1. EditorInv => PanelsAreSound
  BY InvPanels
<1> QED BY <1>1, EditorInvariant, PTL

\* A project that reads as saved is what was saved, opened or created, in its
\* components, their parameters but for a PFB's channel, positions, links,
\* probes, subcircuits and points.
THEOREM CleanIsAlwaysUnchanged == Spec => []CleanMeansUnchanged
<1>1. EditorInv => CleanMeansUnchanged
  BY DEF EditorInv
<1> QED BY <1>1, EditorInvariant, PTL
=============================================================================
