------------------------------ MODULE DagProofs ------------------------------
(***************************************************************************)
(* Theorems about Dag, ProcessDag and the algorithms of DagAlgorithms, for *)
(* any set of vertices, labels and calls.  No sequence of calls makes a    *)
(* cycle or a wrong counter, the cycle check by sorting a clone means what *)
(* it should in terms of paths, the check by label predicts                *)
(* connect_all_by_label, and a clone is identical to its original.         *)
(* process_dag puts every vertex into the first batch after those of its   *)
(* predecessors, and the runner gets the tasks in that order.              *)
(*                                                                         *)
(* The loops of the code are recursive functions of the number of turns.   *)
(* For each of them a lemma (KeepRun, SortRun, ReachRun, RowRun, AllRun,   *)
(* CloneRowRun, CloneRun) names the states between the turns, and the      *)
(* facts about its result follow by induction along them.  A graph without *)
(* a cycle is one whose vertices can be numbered along the edges: Acyclic. *)
(***************************************************************************)
EXTENDS Dag, ProcessDag, FiniteSetTheorems, WellFoundedInduction, TLAPS

-----------------------------------------------------------------------------
(* Induction and recursion over the natural numbers.                       *)

\* A set of numbers that is not empty has a least one.
LEMMA LeastElement ==
    ASSUME NEW T \in SUBSET Nat, T # {}
    PROVE  \E m \in T : \A n \in T : m <= n
<1> DEFINE R == {ss \in Nat \X Nat : ss[1] < ss[2]}
<1>1. R = OpToRel(<, Nat)
  BY Zenon DEF OpToRel
<1>2. IsWellFoundedOn(R, Nat)
  BY <1>1, NatLessThanWellFounded
<1>3. PICK x \in T : \A y \in T : <<y, x>> \notin R
  <2> HIDE DEF R
  <2> QED
    BY <1>2, WFMin
<1>4. \A y \in T : y < x => <<y, x>> \in R
  OBVIOUS
<1>5. \A y \in T : ~(y < x)
  <2> HIDE DEF R
  <2> QED
    BY <1>3, <1>4
<1> HIDE DEF R
<1> QED
  BY <1>5

\* Induction over the turns of a loop, with a set for what is to hold.
LEMMA InductionUpTo ==
    ASSUME NEW n \in Nat, NEW S, 0 \in S, \A i \in 0..n : i < n /\ i \in S => i + 1 \in S
    PROVE  0..n \subseteq S
<1> SUFFICES ASSUME (0..n) \ S # {} PROVE FALSE
  OBVIOUS
<1>1. PICK m \in (0..n) \ S : \A k \in (0..n) \ S : m <= k
  <2>1. (0..n) \ S \in SUBSET Nat
    OBVIOUS
  <2> QED
    BY <2>1, LeastElement
<1>2. m # 0 /\ m - 1 \in 0..n /\ m - 1 \in S /\ m - 1 < n
  BY <1>1
<1> QED
  BY <1>2

\* A function of the turns of a loop that stays in D.
IsRun(f, n, x, h) ==
    f[0] = x /\ \A i \in 1..n : f[i] = h[i][f[i - 1]]

\* A recursive function of the turns of a loop exists: its value after turn i
\* is what step h[i] makes of the value before.
LEMMA RunExists ==
    ASSUME NEW D, NEW n \in Nat, NEW x \in D, NEW h \in [1..n -> [D -> D]]
    PROVE  \E f \in [0..n -> D] : IsRun(f, n, x, h)
<1> DEFINE S == {m \in 0..n : \E f \in [0..m -> D] : IsRun(f, m, x, h)}
<1>1. 0 \in S
  <2>1. [i \in 0..0 |-> x] \in [0..0 -> D] /\ IsRun([i \in 0..0 |-> x], 0, x, h)
    BY DEF IsRun
  <2> QED
    BY <2>1
<1>2. ASSUME NEW m \in 0..n, m < n, m \in S
      PROVE  m + 1 \in S
  <2>1. PICK f \in [0..m -> D] : IsRun(f, m, x, h)
    BY <1>2
  <2> DEFINE e == [i \in 0..(m + 1) |-> IF i = m + 1 THEN h[m + 1][f[m]] ELSE f[i]]
  <2>2. e \in [0..(m + 1) -> D]
    <3>1. m + 1 \in 1..n /\ f[m] \in D
      BY <1>2
    <3>2. h[m + 1][f[m]] \in D
      BY <3>1
    <3>3. \A i \in 0..(m + 1) : i # m + 1 => f[i] \in D
      OBVIOUS
    <3> QED
      BY <3>2, <3>3
  <2>3. (\A i \in 0..m : e[i] = f[i]) /\ e[m + 1] = h[m + 1][f[m]]
    OBVIOUS
  <2>4. IsRun(e, m + 1, x, h)
    <3> HIDE DEF e
    <3>1. e[0] = x
      BY <2>1, <2>3 DEF IsRun
    <3>2. \A i \in 1..(m + 1) : e[i] = h[i][e[i - 1]]
      <4> TAKE i \in 1..(m + 1)
      <4>1. CASE i = m + 1
        BY <4>1, <2>3
      <4>2. CASE i # m + 1
        <5>1. i \in 1..m /\ i \in 0..m /\ i - 1 \in 0..m
          BY <4>2
        <5> QED
          BY <5>1, <2>1, <2>3 DEF IsRun
      <4> QED
        BY <4>1, <4>2
    <3> QED
      BY <3>1, <3>2 DEF IsRun
  <2>5. m + 1 \in 0..n
    BY <1>2
  <2> HIDE DEF e
  <2> QED
    BY <2>2, <2>4, <2>5
<1>3. 0..n \subseteq S
  <2> HIDE DEF S
  <2> QED
    BY <1>1, <1>2, InductionUpTo
<1>4. n \in S
  <2> HIDE DEF S
  <2> QED
    BY <1>3
<1> QED
  BY <1>4

\* What holds before the first turn and is kept by every turn holds throughout.
LEMMA StaysIn ==
    ASSUME NEW D, NEW n \in Nat, NEW c, c[0] \in D,
           \A i \in 1..n : c[i - 1] \in D => c[i] \in D
    PROVE  \A i \in 0..n : c[i] \in D
<1> DEFINE G == {i \in 0..n : c[i] \in D}
<1>1. 0 \in G
  OBVIOUS
<1>2. ASSUME NEW i \in 0..n, i < n, i \in G PROVE i + 1 \in G
  <2>1. i + 1 \in 1..n /\ i + 1 \in 0..n /\ (i + 1) - 1 = i
    BY <1>2
  <2>2. c[(i + 1) - 1] \in D
    BY <1>2, <2>1
  <2> QED
    BY <2>1, <2>2
<1>3. 0..n \subseteq G
  <2> HIDE DEF G
  <2> QED
    BY <1>1, <1>2, InductionUpTo
<1> QED
  BY <1>3

-----------------------------------------------------------------------------
(* Keep(s, S): the entries of s that are in S, in their order.             *)

\* A sequence without duplicates.
Injective(s) == \A i, j \in DOMAIN s : s[i] = s[j] => i = j

\* A new element at the end of a sequence without duplicates.
LEMMA AppendInjective ==
    ASSUME NEW T, NEW s \in Seq(T), NEW x \in T, Injective(s), x \notin Elements(s)
    PROVE  Injective(Append(s, x)) 
  BY DEF Injective, Elements

\* What Append does to the set of entries.
LEMMA AppendElements ==
    ASSUME NEW T, NEW s \in Seq(T), NEW x \in T
    PROVE  /\ Append(s, x) \in Seq(T)
           /\ Elements(Append(s, x)) = Elements(s) \cup {x}
           /\ Len(Append(s, x)) = Len(s) + 1
<1>1. /\ Append(s, x) \in Seq(T)
      /\ DOMAIN Append(s, x) = 1..(Len(s) + 1)
      /\ Len(Append(s, x)) = Len(s) + 1
      /\ \A i \in 1..Len(s) : Append(s, x)[i] = s[i]
      /\ Append(s, x)[Len(s) + 1] = x
      /\ DOMAIN s = 1..Len(s) /\ Len(s) \in Nat
  OBVIOUS
<1>2. ASSUME NEW y \in Elements(Append(s, x)) PROVE y \in Elements(s) \cup {x}
  BY <1>1 DEF Elements
<1>3. ASSUME NEW y \in Elements(s) PROVE y \in Elements(Append(s, x))
  <2>1. PICK i \in 1..Len(s) : y = s[i]
    BY <1>1 DEF Elements
  <2>2. i \in DOMAIN Append(s, x) /\ Append(s, x)[i] = y
    BY <1>1, <2>1
  <2> QED
    BY <2>2 DEF Elements
<1>4. x \in Elements(Append(s, x))
  <2>1. Len(s) + 1 \in DOMAIN Append(s, x)
    BY <1>1
  <2> QED
    BY <1>1, <2>1 DEF Elements
<1> QED
  BY <1>1, <1>2, <1>3, <1>4

IsKeepRun(f, s, S) ==
    /\ Keep(s, S) = f[Len(s)]
    /\ f[0] = <<>>
    /\ \A i \in 1..Len(s) :
          f[i] = IF s[i] \in S THEN Append(f[i - 1], s[i]) ELSE f[i - 1]

\* The turns of the loop that Keep stands for.
LEMMA KeepRun ==
    ASSUME NEW T, NEW s \in Seq(T), NEW S, NEW n \in Nat, n = Len(s)
    PROVE  \E f \in [0..n -> Seq(T)] : IsKeepRun(f, s, S)
<1>1. \A i \in 1..n : s[i] \in T
  OBVIOUS
<1> DEFINE Turn(i, d) == IF s[i] \in S THEN Append(d, s[i]) ELSE d
           P(f) == f = [i \in 0..n |-> IF i = 0 THEN <<>> ELSE Turn(i, f[i - 1])]
           h == [i \in 1..n |-> [d \in Seq(T) |-> Turn(i, d)]]
<1>2. <<>> \in Seq(T) /\ \A i \in 1..n, d \in Seq(T) : Turn(i, d) \in Seq(T)
  BY <1>1
<1>3. Keep(s, S) = (CHOOSE c : P(c))[n]
  BY <1>1 DEF Keep
<1> HIDE DEF Turn
<1>4. h \in [1..n -> [Seq(T) -> Seq(T)]]
  BY <1>2
<1>5. \A i \in 1..n, d \in Seq(T) : h[i][d] = Turn(i, d)
  OBVIOUS
<1>6. PICK f \in [0..n -> Seq(T)] : IsRun(f, n, <<>>, h)
  <2> HIDE DEF h
  <2> QED
    BY <1>2, <1>4, RunExists
<1> HIDE DEF h
<1>7. P(f)
  <2>0. \A i \in 0..n : i # 0 => i \in 1..n /\ i - 1 \in 0..n
    OBVIOUS
  <2>1. \A i \in 0..n : i # 0 => i \in 1..n /\ f[i - 1] \in Seq(T)
    BY <2>0
  <2>2. \A i \in 0..n : f[i] = IF i = 0 THEN <<>> ELSE Turn(i, f[i - 1])
    BY <1>5, <1>6, <2>1 DEF IsRun
  <2> QED
    BY <2>2
<1>8. PICK c : P(c) /\ Keep(s, S) = c[n]
  <2> HIDE DEF P
  <2> QED
    BY <1>3, <1>7
<1>9. c[0] = <<>> /\ \A i \in 1..n : c[i] = Turn(i, c[i - 1])
  BY <1>8
<1>10. \A i \in 0..n : c[i] \in Seq(T)
  BY <1>2, <1>9, StaysIn
<1>11. c \in [0..n -> Seq(T)]
  BY <1>8, <1>10
<1> QED
  BY <1>1, <1>8, <1>9, <1>11 DEF Turn, IsKeepRun

\* The entries in S occur only once.
OnceIn(s, S) == \A i, j \in DOMAIN s : s[i] = s[j] /\ s[i] \in S => i = j

\* Keep keeps exactly the entries in S, and makes no duplicates.
LEMMA KeepFacts ==
    ASSUME NEW T, NEW s \in Seq(T), NEW S
    PROVE  /\ Keep(s, S) \in Seq(T)
           /\ Elements(Keep(s, S)) = Elements(s) \cap S
           /\ OnceIn(s, S) => Injective(Keep(s, S))
<1>1. PICK n \in Nat : n = Len(s) /\ DOMAIN s = 1..n /\ \A i \in 1..n : s[i] \in T
  OBVIOUS
<1>2. PICK f \in [0..n -> Seq(T)] : IsKeepRun(f, s, S)
  BY <1>1, KeepRun
<1> DEFINE Upto(i) == {s[j] : j \in 1..i}
           Inv(i) == /\ Elements(f[i]) = Upto(i) \cap S
                     /\ OnceIn(s, S) => Injective(f[i])
           G == {i \in 0..n : Inv(i)}
<1>3. 0 \in G
  <2>1. DOMAIN f[0] = {} /\ 1..0 = {}
    BY <1>2 DEF IsKeepRun
  <2> QED
    BY <2>1 DEF Elements, Injective
<1>4. ASSUME NEW i \in 0..n, i < n, i \in G PROVE i + 1 \in G
  <2>1. /\ i + 1 \in 1..n /\ (i + 1) - 1 = i /\ i + 1 \in 0..n
        /\ s[i + 1] \in T /\ f[i] \in Seq(T)
    BY <1>1, <1>4
  <2>2. f[i + 1] = IF s[i + 1] \in S THEN Append(f[i], s[i + 1]) ELSE f[i]
    BY <1>1, <1>2, <2>1 DEF IsKeepRun
  <2>3. Upto(i + 1) = Upto(i) \cup {s[i + 1]}
    <3>1. \A k : k \in 1..(i + 1) <=> k \in 1..i \/ k = i + 1
      BY <2>1
    <3> QED
      BY <3>1
  <2>4. OnceIn(s, S) /\ s[i + 1] \in S => s[i + 1] \notin Upto(i)
    <3>1. \A k \in 1..i : k \in 1..n /\ k # i + 1
      BY <2>1
    <3> QED
      BY <1>1, <2>1, <3>1 DEF OnceIn
  <2> HIDE DEF Upto
  <2>5. Elements(f[i]) = Upto(i) \cap S /\ (OnceIn(s, S) => Injective(f[i]))
    BY <1>4
  <2>6. Inv(i + 1)
    <3>1. CASE s[i + 1] \in S
      <4>1. Elements(f[i + 1]) = Elements(f[i]) \cup {s[i + 1]}
        BY <2>1, <2>2, <3>1, AppendElements
      <4>2. OnceIn(s, S) => Injective(f[i + 1])
        BY <2>1, <2>2, <2>4, <2>5, <3>1, AppendInjective
      <4> QED
        BY <2>3, <2>5, <3>1, <4>1, <4>2
    <3>2. CASE s[i + 1] \notin S
      BY <2>2, <2>3, <2>5, <3>2
    <3> QED
      BY <3>1, <3>2
  <2> QED
    BY <2>1, <2>6
<1>5. 0..n \subseteq G
  <2> HIDE DEF G
  <2> QED
    BY <1>3, <1>4, InductionUpTo
<1>6. Inv(n)
  BY <1>5
<1>7. Upto(n) = Elements(s)
  BY <1>1 DEF Elements
<1> HIDE DEF Upto
<1> QED
  BY <1>1, <1>2, <1>6, <1>7 DEF IsKeepRun

-----------------------------------------------------------------------------
(* The counters: remainders, and numbers of edges.                         *)

\* What % computes, for a positive modulus.
LEMMA Remainder ==
    ASSUME NEW M \in Nat, M > 1, NEW a \in Nat
    PROVE  a % M \in 0..(M - 1) /\ \E q \in Nat : a = M * q + (a % M)
<1>1. a = M * (a \div M) + (a % M) /\ a % M \in 0..(M - 1) /\ a \div M \in Nat
  OBVIOUS
<1> QED
  BY <1>1

\* A number below the modulus is its own remainder.
LEMMA SmallRemainder ==
    ASSUME NEW M \in Nat, M > 1, NEW a \in 0..(M - 1)
    PROVE  a % M = a
  OBVIOUS

\* Multiples of the modulus do not change the remainder.
LEMMA RemainderOf ==
    ASSUME NEW M \in Nat, M > 1, NEW a \in 0..(M - 1), NEW k \in Nat
    PROVE  (a + M * k) % M = a
<1>1. PICK b \in Nat : b = a + M * k
  OBVIOUS
<1>2. PICK r \in 0..(M - 1), q \in Nat : r = b % M /\ b = M * q + r
  <2>1. b % M \in 0..(M - 1) /\ \E q \in Nat : b = M * q + (b % M)
    BY <1>1, Remainder
  <2> QED
    BY <2>1
<1>3. a + M * k = M * q + r
  BY <1>1, <1>2
<1>4. CASE k = q
  BY <1>1, <1>2, <1>3, <1>4
<1>5. CASE k > q
  <2>1. M * (k - q) = r - a
    BY <1>3, <1>5
  <2>2. M * (k - q) >= M
    BY <1>5
  <2> QED
    BY <2>1, <2>2
<1>6. CASE k < q
  <2>1. M * (q - k) = a - r
    BY <1>3, <1>6
  <2>2. M * (q - k) >= M
    BY <1>6
  <2> QED
    BY <2>1, <2>2
<1> QED
  BY <1>4, <1>5, <1>6

\* A counter that is decremented no more often than it says does not wrap.
LEMMA SubExact ==
    ASSUME NEW c \in 0..(SizeModulus - 1), NEW k \in 0..c
    PROVE  Sub(c, k) = c - k
<1>1. SizeModulus \in Nat /\ SizeModulus > 1
  BY SizeModulusAssumption
<1>2. c - k \in 0..(SizeModulus - 1) /\ k \in Nat
  BY <1>1
<1>3. c + (SizeModulus - 1) * k = (c - k) + SizeModulus * k
  BY <1>1
<1> QED
  BY <1>1, <1>2, <1>3, RemainderOf DEF Sub

\* A counter stays a std::size_t.
LEMMA SubType ==
    ASSUME NEW c \in 0..(SizeModulus - 1), NEW k \in Nat
    PROVE  Sub(c, k) \in 0..(SizeModulus - 1)
<1>1. SizeModulus \in Nat /\ SizeModulus > 1 /\ c + (SizeModulus - 1) * k \in Nat
  BY SizeModulusAssumption
<1> QED
  BY <1>1, Remainder DEF Sub

\* A set of vertices can be counted without overflow.
LEMMA CountFits ==
    ASSUME NEW S \in SUBSET Vertices
    PROVE  /\ IsFiniteSet(S)
           /\ Cardinality(S) \in 0..(SizeModulus - 1)
           /\ Cardinality(S) <= Cardinality(Vertices)
<1>1. IsFiniteSet(S) /\ Cardinality(S) <= Cardinality(Vertices)
  BY VerticesAssumption, FS_Subset
<1>2. Cardinality(S) \in Nat /\ Cardinality(Vertices) \in Nat
  BY <1>1, VerticesAssumption, FS_CardinalityType
<1> QED
  BY <1>1, <1>2, VerticesAssumption, SizeModulusAssumption

-----------------------------------------------------------------------------
(* Graphs.                                                                 *)

GraphTypes ==
    [graph_ : Seq(Vertices),
     edges_ : [Vertices -> Seq(Vertices \cup {Expired})],
     incomming : [Vertices -> 0..(SizeModulus - 1)]]

\* No target twice.
ConnectedOnce(e) == \A i, j \in DOMAIN e : e[i] = e[j] /\ e[i] # Expired => i = j

\* What every graph has that the member functions build: vertices and edges
\* only once, edges only between vertices of the graph, nothing left of the
\* others, and exact counters.
WellFormed(g) ==
    /\ g \in GraphTypes
    /\ Injective(g.graph_)
    /\ \A v \in Vertices : ConnectedOnce(g.edges_[v])
    /\ \A v \in Vertices : Targets(g, v) \subseteq VerticesOf(g)
    /\ \A v \in Vertices : v \notin VerticesOf(g) => g.edges_[v] = <<>>
    /\ \A v \in Vertices : g.incomming[v] = Cardinality(Sources(g, v))

\* Vertices, targets and sources are vertices.
LEMMA GraphSets ==
    ASSUME NEW g \in GraphTypes
    PROVE  /\ VerticesOf(g) \subseteq Vertices
           /\ \A v \in Vertices : Targets(g, v) \subseteq Vertices
           /\ \A v \in Vertices : Sources(g, v) \subseteq Vertices
<1>1. g.graph_ \in Seq(Vertices) /\ g.edges_ \in [Vertices -> Seq(Vertices \cup {Expired})]
  BY DEF GraphTypes
<1> QED
  BY <1>1 DEF VerticesOf, Targets, Sources, Elements

\* A DAG that was just constructed, reset or moved from.
LEMMA EmptyWellFormed == WellFormed(EmptyGraph)
<1>1. EmptyGraph \in GraphTypes
  BY SizeModulusAssumption DEF EmptyGraph, GraphTypes
<1>2. VerticesOf(EmptyGraph) = {}
  BY DEF EmptyGraph, VerticesOf, Elements
<1>3. \A v \in Vertices : EmptyGraph.edges_[v] = <<>> /\ EmptyGraph.incomming[v] = 0
  BY DEF EmptyGraph
<1>4. Injective(EmptyGraph.graph_) /\ \A v \in Vertices : ConnectedOnce(EmptyGraph.edges_[v])
  BY <1>3 DEF EmptyGraph, Injective, ConnectedOnce
<1>5. \A v \in Vertices : Targets(EmptyGraph, v) = {} /\ Sources(EmptyGraph, v) = {}
  BY <1>2, <1>3 DEF Targets, Sources, Elements
<1>6. Cardinality({}) = 0
  BY FS_EmptySet
<1> QED
  BY <1>1, <1>2, <1>3, <1>4, <1>5, <1>6 DEF WellFormed

\* A set of sources that gains a vertex.
LEMMA OneMoreSource ==
    ASSUME NEW S \in SUBSET Vertices, NEW v \in Vertices, v \notin S
    PROVE  /\ Cardinality(S \cup {v}) = Cardinality(S) + 1
           /\ (Cardinality(S) + 1) % SizeModulus = Cardinality(S) + 1
<1>1. IsFiniteSet(S) /\ Cardinality(S \cup {v}) = Cardinality(S) + 1
  BY CountFits, FS_AddElement
<1>2. Cardinality(S \cup {v}) \in 0..(SizeModulus - 1)
  BY CountFits
<1> QED
  BY <1>1, <1>2, SizeModulusAssumption, SmallRemainder

\* DAGVertex::connect adds the edge to the targets, counts it, and leaves all
\* other edges alone.
LEMMA ConnectFacts ==
    ASSUME NEW g, WellFormed(g), NEW v \in VerticesOf(g), NEW w \in VerticesOf(g)
    PROVE  /\ WellFormed(VertexConnect(g, v, w))
           /\ VertexConnect(g, v, w).graph_ = g.graph_
           /\ \A u \in Vertices : Targets(VertexConnect(g, v, w), u) =
                IF u = v THEN Targets(g, u) \cup {w} ELSE Targets(g, u)
           /\ HasDanglingEdge(VertexConnect(g, v, w)) <=> HasDanglingEdge(g)
<1> DEFINE h == VertexConnect(g, v, w)
<1>1. /\ g \in GraphTypes /\ v \in Vertices /\ w \in Vertices /\ w # Expired
      /\ g.graph_ \in Seq(Vertices)
      /\ g.edges_ \in [Vertices -> Seq(Vertices \cup {Expired})]
      /\ g.incomming \in [Vertices -> 0..(SizeModulus - 1)]
  BY GraphSets, ExpiredAssumption DEF WellFormed, GraphTypes
<1>2. CASE w \in Targets(g, v)
  <2>1. h = g
    BY <1>2 DEF VertexConnect
  <2> HIDE DEF h
  <2>2. \A u \in Vertices : Targets(g, u) =
            IF u = v THEN Targets(g, u) \cup {w} ELSE Targets(g, u)
    BY <1>2
  <2> QED
    BY <2>1, <2>2 DEF h
<1>3. CASE w \notin Targets(g, v)
  <2>1. h = [g EXCEPT !.edges_[v] = Append(@, w),
                      !.incomming[w] = (@ + 1) % SizeModulus]
    BY <1>3 DEF VertexConnect
  <2> HIDE DEF h
  <2>2. /\ h.graph_ = g.graph_
        /\ h.edges_ = [g.edges_ EXCEPT ![v] = Append(@, w)]
        /\ h.incomming = [g.incomming EXCEPT ![w] = (@ + 1) % SizeModulus]
        /\ h = [graph_ |-> h.graph_, edges_ |-> h.edges_, incomming |-> h.incomming]
    BY <1>1, <2>1 DEF GraphTypes
  <2>3. /\ \A u \in Vertices : h.edges_[u] = IF u = v THEN Append(g.edges_[u], w)
                                                     ELSE g.edges_[u]
        /\ VerticesOf(h) = VerticesOf(g)
    <3>1. \A u \in Vertices : h.edges_[u] = IF u = v THEN Append(g.edges_[u], w)
                                                   ELSE g.edges_[u]
      BY <1>1, <2>2
    <3> QED
      BY <2>2, <3>1 DEF VerticesOf
  <2>4. Elements(Append(g.edges_[v], w)) = Elements(g.edges_[v]) \cup {w}
    <3>1. g.edges_[v] \in Seq(Vertices \cup {Expired}) /\ w \in Vertices \cup {Expired}
      BY <1>1
    <3> QED
      BY <3>1, AppendElements
  <2>5. \A u \in Vertices : Targets(h, u) =
            IF u = v THEN Targets(g, u) \cup {w} ELSE Targets(g, u)
    BY <1>1, <2>3, <2>4 DEF Targets
  <2>6. \A u \in Vertices : Sources(h, u) =
            IF u = w THEN Sources(g, u) \cup {v} ELSE Sources(g, u)
    <3>1. VerticesOf(g) \subseteq Vertices
      BY <1>1, GraphSets
    <3> QED
      BY <2>3, <2>5, <3>1 DEF Sources
  <2>7. /\ Sources(g, w) \in SUBSET Vertices /\ v \notin Sources(g, w)
        /\ g.incomming[w] = Cardinality(Sources(g, w))
    BY <1>1, <1>3, GraphSets DEF Sources, WellFormed
  <2>8. \A u \in Vertices : h.incomming[u] = Cardinality(Sources(h, u))
    <3>1. \A u \in Vertices : h.incomming[u] = IF u = w
                                                 THEN (g.incomming[u] + 1) % SizeModulus
                                                 ELSE g.incomming[u]
      BY <1>1, <2>2
    <3>2. /\ Cardinality(Sources(g, w) \cup {v}) = Cardinality(Sources(g, w)) + 1
          /\ (Cardinality(Sources(g, w)) + 1) % SizeModulus = Cardinality(Sources(g, w)) + 1
      BY <1>1, <2>7, OneMoreSource
    <3>3. \A u \in Vertices : g.incomming[u] = Cardinality(Sources(g, u))
      BY DEF WellFormed
    <3>4. h.incomming[w] = Cardinality(Sources(h, w))
      BY <1>1, <2>6, <2>7, <3>1, <3>2
    <3>5. \A u \in Vertices : u # w => h.incomming[u] = Cardinality(Sources(h, u))
      BY <2>6, <3>1, <3>3
    <3> QED
      BY <3>4, <3>5
  <2>9. h \in GraphTypes
    <3>1. (g.incomming[w] + 1) % SizeModulus \in 0..(SizeModulus - 1)
      <4>1. g.incomming[w] + 1 \in Nat
        BY <1>1, SizeModulusAssumption
      <4> QED
        BY <4>1, SizeModulusAssumption, Remainder
    <3>2. h.incomming \in [Vertices -> 0..(SizeModulus - 1)]
      BY <1>1, <2>2, <3>1
    <3>3. h.edges_ \in [Vertices -> Seq(Vertices \cup {Expired})]
      <4>1. Append(g.edges_[v], w) \in Seq(Vertices \cup {Expired})
        BY <1>1, AppendElements
      <4> QED
        BY <1>1, <2>2, <4>1
    <3> QED
      BY <1>1, <2>2, <3>2, <3>3 DEF GraphTypes
  <2>10. \A u \in Vertices : ConnectedOnce(h.edges_[u])
    <3>1. ConnectedOnce(Append(g.edges_[v], w))
      <4>1. ConnectedOnce(g.edges_[v]) /\ w \notin Elements(g.edges_[v])
        BY <1>1, <1>3 DEF WellFormed, Targets
      <4>2. PICK e \in Seq(Vertices \cup {Expired}) : e = g.edges_[v]
        BY <1>1
      <4>3. /\ DOMAIN Append(e, w) = 1..(Len(e) + 1) /\ DOMAIN e = 1..Len(e)
            /\ \A i \in 1..Len(e) : Append(e, w)[i] = e[i] /\ e[i] # w
            /\ Append(e, w)[Len(e) + 1] = w
        BY <1>1, <4>1, <4>2 DEF Elements
      <4> QED
        BY <4>1, <4>2, <4>3 DEF ConnectedOnce
    <3> QED
      BY <2>3, <3>1 DEF WellFormed
  <2>11. WellFormed(h)
    <3>1. Injective(h.graph_)
      BY <2>2 DEF WellFormed
    <3>2. \A u \in Vertices : Targets(h, u) \subseteq VerticesOf(h)
      BY <2>3, <2>5 DEF WellFormed
    <3>3. \A u \in Vertices : u \notin VerticesOf(h) => h.edges_[u] = <<>>
      BY <2>3 DEF WellFormed
    <3> QED
      BY <2>8, <2>9, <2>10, <3>1, <3>2, <3>3 DEF WellFormed
  <2>12. HasDanglingEdge(h) <=> HasDanglingEdge(g)
    <3>1. VerticesOf(g) \subseteq Vertices
      BY <1>1, GraphSets
    <3> QED
      BY <1>1, <2>3, <2>4, <3>1 DEF HasDanglingEdge
  <2> QED
    BY <2>2, <2>5, <2>11, <2>12 DEF h
<1> QED
  BY <1>2, <1>3

\* The vertices can be numbered so that every edge goes upwards.
Acyclic(g) ==
    \E rank \in [Vertices -> Nat] :
        \A u \in VerticesOf(g) : \A w \in Targets(g, u) : rank[u] < rank[w]

\* The fields of a well-formed graph.
LEMMA Fields ==
    ASSUME NEW g, WellFormed(g)
    PROVE  /\ g \in GraphTypes
           /\ g.graph_ \in Seq(Vertices)
           /\ g.edges_ \in [Vertices -> Seq(Vertices \cup {Expired})]
           /\ g.incomming \in [Vertices -> 0..(SizeModulus - 1)]
           /\ VerticesOf(g) \subseteq Vertices
           /\ \A v \in Vertices : Targets(g, v) \subseteq VerticesOf(g)
           /\ \A v \in Vertices : Sources(g, v) \subseteq VerticesOf(g)
           /\ g = [graph_ |-> g.graph_, edges_ |-> g.edges_, incomming |-> g.incomming]
<1>1. g \in GraphTypes
  BY DEF WellFormed
<1>2. VerticesOf(g) \subseteq Vertices
  BY <1>1, GraphSets
<1>3. \A v \in Vertices : Targets(g, v) \subseteq VerticesOf(g)
  BY DEF WellFormed
<1>4. \A v \in Vertices : Sources(g, v) \subseteq VerticesOf(g)
  BY DEF Sources
<1> QED
  BY <1>1, <1>2, <1>3, <1>4 DEF GraphTypes

\* clone() by its closed form leaves a well-formed graph as it is.
LEMMA CloneSame ==
    ASSUME NEW g, WellFormed(g)
    PROVE  Clone(g) = g
<1>1. \A v \in Vertices : Cardinality(Sources(g, v)) % SizeModulus = g.incomming[v]
  <2> TAKE v \in Vertices
  <2>1. /\ g.incomming[v] = Cardinality(Sources(g, v))
        /\ g.incomming[v] \in 0..(SizeModulus - 1)
    BY Fields DEF WellFormed
  <2> QED
    BY <2>1, SmallRemainder, SizeModulusAssumption
<1>2. [v \in Vertices |-> Cardinality(Sources(g, v)) % SizeModulus] = g.incomming
  BY <1>1, Fields
<1> QED
  BY <1>2, Fields DEF Clone

\* add_vertex adds a vertex without edges, if it is not there already.
LEMMA AddedFacts ==
    ASSUME NEW g, WellFormed(g), NEW v \in Vertices
    PROVE  /\ WellFormed(Added(g, v))
           /\ VerticesOf(Added(g, v)) = VerticesOf(g) \cup {v}
           /\ \A u \in Vertices : Targets(Added(g, v), u) = Targets(g, u)
           /\ HasDanglingEdge(Added(g, v)) <=> HasDanglingEdge(g)
<1>1. CASE v \in VerticesOf(g)
  BY <1>1 DEF Added
<1>2. CASE v \notin VerticesOf(g)
  <2> DEFINE h == Added(g, v)
  <2>1. h = [g EXCEPT !.graph_ = Append(@, v)]
    BY <1>2 DEF Added
  <2> HIDE DEF h
  <2>2. /\ h.graph_ = Append(g.graph_, v) /\ h.edges_ = g.edges_
        /\ h.incomming = g.incomming
        /\ h = [graph_ |-> h.graph_, edges_ |-> h.edges_, incomming |-> h.incomming]
    <3>1. g \in GraphTypes
      BY Fields
    <3> QED
      BY <2>1, <3>1 DEF GraphTypes
  <2>3. /\ Append(g.graph_, v) \in Seq(Vertices)
        /\ Elements(Append(g.graph_, v)) = Elements(g.graph_) \cup {v}
    BY Fields, AppendElements
  <2>4. /\ h \in GraphTypes
        /\ VerticesOf(h) = VerticesOf(g) \cup {v}
        /\ \A u \in Vertices : Targets(h, u) = Targets(g, u)
    BY <2>2, <2>3, Fields DEF GraphTypes, VerticesOf, Targets
  <2>5. g.edges_[v] = <<>> /\ Targets(g, v) = {}
    BY <1>2 DEF WellFormed, Targets, Elements
  <2>6. \A u \in Vertices : Sources(h, u) = Sources(g, u)
    BY <2>4, <2>5, Fields DEF Sources
  <2>7. Injective(h.graph_)
    <3>1. Injective(g.graph_) /\ v \notin Elements(g.graph_) /\ g.graph_ \in Seq(Vertices)
      BY <1>2, Fields DEF WellFormed, VerticesOf
    <3> QED
      BY <2>2, <3>1, AppendInjective
  <2>8. WellFormed(h)
    BY <2>2, <2>4, <2>6, <2>7 DEF WellFormed
  <2>9. HasDanglingEdge(h) <=> HasDanglingEdge(g)
    BY <2>2, <2>4, <2>5 DEF HasDanglingEdge, Elements
  <2> QED
    BY <2>4, <2>8, <2>9 DEF h
<1> QED
  BY <1>1, <1>2

\* The edges after a removal.
Expire(e, S) == [i \in DOMAIN e |-> IF e[i] \in S THEN Expired ELSE e[i]]

\* Expired edges are no targets; the others stay where they are.
LEMMA ExpireFacts ==
    ASSUME NEW e \in Seq(Vertices \cup {Expired}), NEW S \in SUBSET Vertices
    PROVE  /\ Expire(e, S) \in Seq(Vertices \cup {Expired})
           /\ Elements(Expire(e, S)) \ {Expired} = (Elements(e) \ {Expired}) \ S
           /\ ConnectedOnce(e) => ConnectedOnce(Expire(e, S))
<1>1. PICK n \in Nat : n = Len(e) /\ DOMAIN e = 1..n
  OBVIOUS
<1>2. /\ DOMAIN Expire(e, S) = 1..n
      /\ \A i \in 1..n : /\ e[i] \in Vertices \cup {Expired}
                         /\ Expire(e, S)[i] = IF e[i] \in S THEN Expired ELSE e[i]
  BY <1>1 DEF Expire
<1>3. Expire(e, S) = [i \in 1..n |-> IF e[i] \in S THEN Expired ELSE e[i]]
  BY <1>1 DEF Expire
<1>4. Expire(e, S) \in Seq(Vertices \cup {Expired})
  BY <1>2, <1>3
<1>5. Elements(Expire(e, S)) \ {Expired} = (Elements(e) \ {Expired}) \ S
  BY <1>1, <1>2, ExpiredAssumption DEF Elements
<1>6. ConnectedOnce(e) => ConnectedOnce(Expire(e, S))
  BY <1>1, <1>2 DEF ConnectedOnce
<1> QED
  BY <1>4, <1>5, <1>6

\* Every removal, of one vertex or of all with a label, leaves a well-formed
\* graph: the counters lose exactly the edges of the removed vertices.
LEMMA RemoveFacts ==
    ASSUME NEW g, WellFormed(g), NEW S \in SUBSET VerticesOf(g)
    PROVE  /\ WellFormed(RemoveVertices(g, S))
           /\ VerticesOf(RemoveVertices(g, S)) = VerticesOf(g) \ S
           /\ \A u \in Vertices : Targets(RemoveVertices(g, S), u) \subseteq Targets(g, u)
           /\ \A u \in Vertices \ S : Targets(RemoveVertices(g, S), u) = Targets(g, u) \ S
<1> DEFINE h == RemoveVertices(g, S)
<1>0. S \in SUBSET Vertices
  BY Fields
<1>1. /\ h.graph_ = Keep(g.graph_, Vertices \ S)
      /\ h.edges_ = [v \in Vertices |-> IF v \in S THEN <<>> ELSE Expire(g.edges_[v], S)]
      /\ h.incomming = [v \in Vertices |->
            IF v \in S THEN 0
            ELSE Sub(g.incomming[v], Cardinality(Sources(g, v) \cap S))]
      /\ h = [graph_ |-> h.graph_, edges_ |-> h.edges_, incomming |-> h.incomming]
  BY DEF RemoveVertices, Expire
<1> HIDE DEF h
<1>2. /\ h.graph_ \in Seq(Vertices) /\ Injective(h.graph_)
      /\ VerticesOf(h) = VerticesOf(g) \ S
  <2>1. /\ Keep(g.graph_, Vertices \ S) \in Seq(Vertices)
        /\ Elements(Keep(g.graph_, Vertices \ S)) = Elements(g.graph_) \cap (Vertices \ S)
        /\ OnceIn(g.graph_, Vertices \ S) => Injective(Keep(g.graph_, Vertices \ S))
    BY Fields, KeepFacts
  <2> QED
    BY <1>1, <2>1, Fields DEF WellFormed, VerticesOf, Injective, OnceIn
<1>3. \A v \in Vertices :
        /\ h.edges_[v] = IF v \in S THEN <<>> ELSE Expire(g.edges_[v], S)
        /\ g.edges_[v] \in Seq(Vertices \cup {Expired})
  BY <1>1, Fields
<1>4. \A v \in Vertices : v \notin S =>
        /\ h.edges_[v] \in Seq(Vertices \cup {Expired})
        /\ Targets(h, v) = Targets(g, v) \ S
        /\ ConnectedOnce(h.edges_[v])
  <2>1. \A v \in Vertices : ConnectedOnce(g.edges_[v])
    BY DEF WellFormed
  <2> QED
    BY <1>0, <1>3, <2>1, ExpireFacts DEF Targets
<1>5. \A v \in S : /\ h.edges_[v] \in Seq(Vertices \cup {Expired})
                   /\ Targets(h, v) = {} /\ ConnectedOnce(h.edges_[v])
  <2>1. \A v \in S : h.edges_[v] = <<>>
    BY <1>0, <1>3
  <2>2. Elements(<<>>) = {} /\ ConnectedOnce(<<>>) /\ <<>> \in Seq(Vertices \cup {Expired})
    BY DEF Elements, ConnectedOnce
  <2> QED
    BY <2>1, <2>2 DEF Targets
<1>6. \A v \in Vertices : Sources(h, v) = IF v \in S THEN {} ELSE Sources(g, v) \ S
  BY <1>0, <1>2, <1>4, <1>5, Fields DEF Sources
<1>7. \A v \in Vertices : /\ h.incomming[v] = Cardinality(Sources(h, v))
                          /\ h.incomming[v] \in 0..(SizeModulus - 1)
  <2> TAKE v \in Vertices
  <2>1. CASE v \in S
    <3>1. Cardinality({}) = 0
      BY FS_EmptySet
    <3> QED
      <4>1. h.incomming[v] = 0 /\ Sources(h, v) = {}
        BY <1>1, <1>6, <2>1
      <4> QED
        BY <3>1, <4>1, SizeModulusAssumption
  <2>2. CASE v \notin S
    <3>1. /\ IsFiniteSet(Sources(g, v))
          /\ g.incomming[v] = Cardinality(Sources(g, v))
          /\ g.incomming[v] \in 0..(SizeModulus - 1)
      <4>1. Sources(g, v) \in SUBSET Vertices
        BY Fields
      <4> QED
        BY <4>1, CountFits, Fields DEF WellFormed
    <3>2. /\ Cardinality(Sources(g, v) \ S)
                = Cardinality(Sources(g, v)) - Cardinality(Sources(g, v) \cap S)
          /\ IsFiniteSet(Sources(g, v) \ S)
      BY <3>1, FS_Difference
    <3>3. /\ Cardinality(Sources(g, v) \cap S) <= Cardinality(Sources(g, v))
          /\ IsFiniteSet(Sources(g, v) \cap S)
      BY <3>1, FS_Subset
    <3>4. Cardinality(Sources(g, v) \cap S) \in 0..g.incomming[v]
      BY <3>1, <3>3, FS_CardinalityType
    <3>5. h.incomming[v] = g.incomming[v] - Cardinality(Sources(g, v) \cap S)
      BY <1>1, <2>2, <3>1, <3>4, SubExact
    <3> QED
      <4>1. Sources(h, v) = Sources(g, v) \ S
        BY <1>6, <2>2
      <4>2. h.incomming[v] \in 0..(SizeModulus - 1)
        BY <3>1, <3>4, <3>5, SizeModulusAssumption
      <4> QED
        BY <3>1, <3>2, <3>5, <4>1, <4>2
  <2> QED
    BY <2>1, <2>2
<1>8. h \in GraphTypes
  <2>1. h.edges_ \in [Vertices -> Seq(Vertices \cup {Expired})]
    BY <1>1, <1>4, <1>5
  <2>2. h.incomming \in [Vertices -> 0..(SizeModulus - 1)]
    BY <1>1, <1>7
  <2> QED
    BY <1>1, <1>2, <2>1, <2>2 DEF GraphTypes
<1>9. \A v \in Vertices : v \notin VerticesOf(h) => h.edges_[v] = <<>>
  <2> TAKE v \in Vertices
  <2>1. CASE v \in S
    BY <1>3, <2>1
  <2>2. CASE v \notin S /\ v \notin VerticesOf(g)
    <3>1. g.edges_[v] = <<>>
      BY <2>2 DEF WellFormed
    <3>2. Expire(<<>>, S) = <<>>
      BY DEF Expire
    <3> QED
      BY <1>3, <2>2, <3>1, <3>2
  <2> QED
    BY <1>2, <2>1, <2>2
<1>10. \A v \in Vertices : Targets(h, v) \subseteq VerticesOf(h) /\ Targets(h, v) \subseteq Targets(g, v)
  BY <1>2, <1>4, <1>5, Fields
<1>11. WellFormed(h)
  BY <1>2, <1>4, <1>5, <1>7, <1>8, <1>9, <1>10 DEF WellFormed
<1> QED
  BY <1>2, <1>4, <1>10, <1>11 DEF h

\* Fewer edges make no cycle.
LEMMA FewerEdges ==
    ASSUME NEW g, NEW h, Acyclic(g), VerticesOf(h) \subseteq VerticesOf(g),
           \A u \in VerticesOf(h) : Targets(h, u) \subseteq Targets(g, u)
    PROVE  Acyclic(h)
  BY DEF Acyclic

-----------------------------------------------------------------------------
(* dag_topological_sort.                                                   *)

\* A sequence without duplicates is as long as its set of entries is large.
LEMMA CountElements ==
    ASSUME NEW T, NEW s \in Seq(T), Injective(s)
    PROVE  IsFiniteSet(Elements(s)) /\ Cardinality(Elements(s)) = Len(s)
<1>1. PICK n \in Nat : n = Len(s) /\ DOMAIN s = 1..n
  OBVIOUS
<1>2. s \in [1..n -> Elements(s)]
  BY <1>1 DEF Elements
<1>3. s \in Bijection(1..n, Elements(s))
  <2>1. s \in Injection(1..n, Elements(s))
    <3>1. \A a, b \in 1..n : s[a] = s[b] => a = b
      BY <1>1 DEF Injective
    <3> QED
      BY <1>1, <1>2, <3>1 DEF Injection, IsInjective
  <2>2. \A x \in Elements(s) : \E i \in 1..n : s[i] = x
    BY <1>1 DEF Elements
  <2>3. s \in Surjection(1..n, Elements(s))
    BY <1>2, <2>2 DEF Surjection
  <2> QED
    BY <2>1, <2>3 DEF Bijection
<1>4. IsFiniteSet(1..n) /\ Cardinality(1..n) = n
  BY FS_Interval
<1>5. ExistsBijection(1..n, Elements(s))
  BY <1>3 DEF ExistsBijection
<1> QED
  BY <1>1, <1>4, <1>5, FS_Bijection

\* The front of Q is taken from it.
LEMMA TailElements ==
    ASSUME NEW T, NEW s \in Seq(T), s # <<>>, Injective(s)
    PROVE  /\ Head(s) \in T /\ Head(s) \in Elements(s)
           /\ Tail(s) \in Seq(T) /\ Injective(Tail(s))
           /\ Elements(Tail(s)) = Elements(s) \ {Head(s)}
<1>1. /\ Len(s) \in Nat \ {0} /\ DOMAIN s = 1..Len(s)
      /\ Head(s) = s[1] /\ Tail(s) \in Seq(T)
      /\ DOMAIN Tail(s) = 1..(Len(s) - 1)
      /\ \A i \in 1..(Len(s) - 1) : Tail(s)[i] = s[i + 1]
  OBVIOUS
<1>2. Injective(Tail(s))
  BY <1>1 DEF Injective
<1>3. ASSUME NEW x \in Elements(Tail(s)) PROVE x \in Elements(s) \ {Head(s)}
  <2>1. PICK i \in 1..(Len(s) - 1) : x = s[i + 1]
    BY <1>1 DEF Elements
  <2>2. i + 1 \in DOMAIN s /\ 1 \in DOMAIN s /\ i + 1 # 1
    BY <1>1
  <2> QED
    BY <1>1, <2>1, <2>2 DEF Elements, Injective
<1>4. ASSUME NEW x \in Elements(s) \ {Head(s)} PROVE x \in Elements(Tail(s))
  <2>1. PICK i \in 1..Len(s) : x = s[i]
    BY <1>1 DEF Elements
  <2>2. i - 1 \in 1..(Len(s) - 1) /\ (i - 1) + 1 = i
    BY <1>1, <1>4, <2>1
  <2>3. Tail(s)[i - 1] = x
    BY <1>1, <2>1, <2>2
  <2> QED
    BY <1>1, <2>2, <2>3 DEF Elements
<1>5. Head(s) \in T /\ Head(s) \in Elements(s)
  BY <1>1 DEF Elements
<1> QED
  BY <1>1, <1>2, <1>3, <1>4, <1>5

\* New entries at the back of Q.
LEMMA ConcatElements ==
    ASSUME NEW T, NEW a \in Seq(T), NEW b \in Seq(T)
    PROVE  /\ a \o b \in Seq(T)
           /\ Elements(a \o b) = Elements(a) \cup Elements(b)
           /\ Injective(a) /\ Injective(b) /\ Elements(a) \cap Elements(b) = {}
                => Injective(a \o b)
<1>1. PICK m \in Nat, n \in Nat : m = Len(a) /\ n = Len(b)
  OBVIOUS
<1>2. /\ a \o b \in Seq(T)
      /\ DOMAIN a = 1..m /\ DOMAIN b = 1..n /\ DOMAIN (a \o b) = 1..(m + n)
      /\ \A i \in 1..(m + n) : (a \o b)[i] = IF i <= m THEN a[i] ELSE b[i - m]
  BY <1>1
<1>3. ASSUME NEW x \in Elements(a) PROVE x \in Elements(a \o b)
  <2>1. PICK i \in 1..m : x = a[i]
    BY <1>2 DEF Elements
  <2>2. i \in 1..(m + n) /\ (a \o b)[i] = x
    BY <1>2, <2>1
  <2> QED
    BY <1>2, <2>2 DEF Elements
<1>4. ASSUME NEW x \in Elements(b) PROVE x \in Elements(a \o b)
  <2>1. PICK i \in 1..n : x = b[i]
    BY <1>2 DEF Elements
  <2>2. m + i \in 1..(m + n) /\ ~(m + i <= m) /\ (m + i) - m = i
    OBVIOUS
  <2>3. (a \o b)[m + i] = x
    BY <1>2, <2>1, <2>2
  <2> QED
    BY <1>2, <2>2, <2>3 DEF Elements
<1>5. ASSUME NEW x \in Elements(a \o b) PROVE x \in Elements(a) \cup Elements(b)
  <2>1. PICK i \in 1..(m + n) : x = (a \o b)[i]
    BY <1>2 DEF Elements
  <2>2. CASE i <= m
    BY <1>2, <2>1, <2>2 DEF Elements
  <2>3. CASE ~(i <= m)
    <3>1. i - m \in 1..n
      BY <2>3
    <3> QED
      BY <1>2, <2>1, <2>3, <3>1 DEF Elements
  <2> QED
    BY <2>2, <2>3
<1>6. ASSUME Injective(a), Injective(b), Elements(a) \cap Elements(b) = {}
      PROVE  Injective(a \o b)
  <2> SUFFICES ASSUME NEW i \in 1..(m + n), NEW j \in 1..(m + n), (a \o b)[i] = (a \o b)[j]
               PROVE  i = j
    BY <1>2 DEF Injective
  <2>1. \A k \in 1..m, l \in 1..n : a[k] # b[l]
    BY <1>2, <1>6 DEF Elements
  <2>2. CASE i <= m /\ j <= m
    BY <1>2, <1>6, <2>2 DEF Injective
  <2>3. CASE i > m /\ j > m
    <3>1. i - m \in 1..n /\ j - m \in 1..n
      BY <2>3
    <3>2. b[i - m] = b[j - m]
      BY <1>2, <2>3
    <3>3. i - m = j - m
      BY <1>2, <1>6, <3>1, <3>2 DEF Injective
    <3> QED
      BY <3>3
  <2>4. CASE i <= m /\ j > m
    <3>1. i \in 1..m /\ j - m \in 1..n
      BY <2>4
    <3> QED
      BY <1>2, <2>1, <2>4, <3>1
  <2>5. CASE i > m /\ j <= m
    <3>1. j \in 1..m /\ i - m \in 1..n
      BY <2>5
    <3> QED
      BY <1>2, <2>1, <2>5, <3>1
  <2> QED
    BY <2>2, <2>3, <2>4, <2>5
<1> QED
  BY <1>2, <1>3, <1>4, <1>5, <1>6

SortStates == [Q : Seq(Vertices), L : Seq(Vertices), g : GraphTypes]

\* The loop of dag_topological_sort on graph g: L and Q hold the vertices
\* without incoming edges, each once; those in L have lost their edges, the
\* others still have those of g; and L lists sources before targets.
SortInv(g, st) ==
    /\ st \in SortStates
    /\ WellFormed(st.g)
    /\ st.g.graph_ = g.graph_
    /\ Injective(st.L) /\ Injective(st.Q)
    /\ Elements(st.L) \cap Elements(st.Q) = {}
    /\ Elements(st.L) \cup Elements(st.Q) = {v \in VerticesOf(g) : st.g.incomming[v] = 0}
    /\ \A v \in Vertices : IF v \in Elements(st.L) THEN Targets(st.g, v) = {}
                                                   ELSE st.g.edges_[v] = g.edges_[v]
    /\ \A j \in DOMAIN st.L : \A u \in Sources(g, st.L[j]) :
            \E i \in DOMAIN st.L : i < j /\ st.L[i] = u

SortStart(g) == [Q |-> dag_vertices_with_no_incomming_edges(g), L |-> <<>>, g |-> g]

\* The invariant of the loop holds before its first turn.
LEMMA SortStartInv ==
    ASSUME NEW g, WellFormed(g)
    PROVE  SortInv(g, SortStart(g))
<1> DEFINE Z == {v \in Vertices : g.incomming[v] = 0}
           q == dag_vertices_with_no_incomming_edges(g)
<1>1. /\ g \in GraphTypes /\ g.graph_ \in Seq(Vertices) /\ Injective(g.graph_)
      /\ VerticesOf(g) \subseteq Vertices
  BY Fields DEF WellFormed
<1>2. q = Keep(g.graph_, Z)
  BY DEF dag_vertices_with_no_incomming_edges
<1>3. OnceIn(g.graph_, Z)
  BY <1>1 DEF Injective, OnceIn
<1> HIDE DEF q, Z
<1>4. q \in Seq(Vertices) /\ Injective(q) /\ Elements(q) = VerticesOf(g) \cap Z
  BY <1>1, <1>2, <1>3, KeepFacts DEF VerticesOf
<1>5. Elements(q) = {v \in VerticesOf(g) : g.incomming[v] = 0}
  BY <1>1, <1>4 DEF Z
<1>6. Elements(<<>>) = {} /\ Injective(<<>>) /\ <<>> \in Seq(Vertices) /\ DOMAIN <<>> = {}
  BY DEF Elements, Injective
<1>7. SortStart(g) = [Q |-> q, L |-> <<>>, g |-> g]
  BY DEF SortStart, q
<1>8. SortStart(g) \in SortStates
  BY <1>1, <1>4, <1>6, <1>7 DEF SortStates
<1> QED
  BY <1>1, <1>4, <1>5, <1>6, <1>7, <1>8 DEF SortInv

\* One vertex is taken apart: its edges are disconnected, the counters of the
\* targets go down.
TakenApart(g, curr) ==
    [g EXCEPT !.edges_[curr] = [i \in DOMAIN @ |-> Expired],
              !.incomming = [v \in Vertices |->
                    IF v \in Targets(g, curr) THEN Sub(@[v], 1) ELSE @[v]]]

\* The edges of one vertex are disconnected: the graph stays well-formed, and
\* the counter of no target wraps below zero.
LEMMA TakenApartFacts ==
    ASSUME NEW g, WellFormed(g), NEW curr \in VerticesOf(g)
    PROVE  /\ WellFormed(TakenApart(g, curr))
           /\ TakenApart(g, curr).graph_ = g.graph_
           /\ Targets(TakenApart(g, curr), curr) = {}
           /\ \A v \in Vertices :
                /\ v # curr => TakenApart(g, curr).edges_[v] = g.edges_[v]
                /\ TakenApart(g, curr).incomming[v] =
                     IF v \in Targets(g, curr) THEN g.incomming[v] - 1 ELSE g.incomming[v]
                /\ v \in Targets(g, curr) => /\ Sub(g.incomming[v], 1) = g.incomming[v] - 1
                                             /\ g.incomming[v] # 0
<1> DEFINE h == TakenApart(g, curr)
<1>0. /\ g \in GraphTypes /\ curr \in Vertices /\ g.graph_ \in Seq(Vertices)
      /\ g.edges_ \in [Vertices -> Seq(Vertices \cup {Expired})]
      /\ g.incomming \in [Vertices -> 0..(SizeModulus - 1)]
      /\ VerticesOf(g) \subseteq Vertices
      /\ Targets(g, curr) \subseteq VerticesOf(g)
  BY Fields
<1>1. /\ h.graph_ = g.graph_
      /\ h.edges_ = [g.edges_ EXCEPT ![curr] = [i \in DOMAIN @ |-> Expired]]
      /\ h.incomming = [v \in Vertices |->
            IF v \in Targets(g, curr) THEN Sub(g.incomming[v], 1) ELSE g.incomming[v]]
      /\ h = [graph_ |-> h.graph_, edges_ |-> h.edges_, incomming |-> h.incomming]
  <2> DEFINE tos == Targets(g, curr)
             e == [g.edges_ EXCEPT ![curr] = [i \in DOMAIN @ |-> Expired]]
             c == [v \in Vertices |-> IF v \in tos THEN Sub(g.incomming[v], 1)
                                                   ELSE g.incomming[v]]
  <2>1. h = [g EXCEPT !.edges_[curr] = [i \in DOMAIN @ |-> Expired],
                      !.incomming = [v \in Vertices |-> IF v \in tos THEN Sub(@[v], 1) ELSE @[v]]]
    BY DEF TakenApart
  <2>2. h = [g EXCEPT !.edges_ = e, !.incomming = c]
    BY <2>1
  <2>3. g = [graph_ |-> g.graph_, edges_ |-> g.edges_, incomming |-> g.incomming]
    BY Fields
  <2> HIDE DEF e, c, h
  <2>4. h = [graph_ |-> g.graph_, edges_ |-> e, incomming |-> c]
    BY <2>2, <2>3
  <2> QED
    BY <2>4 DEF e, c
<1> HIDE DEF h
<1>2. [i \in DOMAIN g.edges_[curr] |-> Expired] = Expire(g.edges_[curr], Vertices)
  <2>1. \A i \in DOMAIN g.edges_[curr] : g.edges_[curr][i] \in Vertices \cup {Expired}
    BY <1>0
  <2> QED
    BY <2>1 DEF Expire
<1>3. \A v \in Vertices : h.edges_[v] = IF v = curr THEN Expire(g.edges_[v], Vertices)
                                                    ELSE g.edges_[v]
  BY <1>0, <1>1, <1>2
<1>4. /\ h.edges_[curr] \in Seq(Vertices \cup {Expired})
      /\ Targets(h, curr) = {}
      /\ ConnectedOnce(h.edges_[curr])
  <2>1. /\ g.edges_[curr] \in Seq(Vertices \cup {Expired}) /\ ConnectedOnce(g.edges_[curr])
        /\ Vertices \in SUBSET Vertices /\ Targets(g, curr) \subseteq Vertices
    BY <1>0 DEF WellFormed
  <2>2. /\ Expire(g.edges_[curr], Vertices) \in Seq(Vertices \cup {Expired})
        /\ Elements(Expire(g.edges_[curr], Vertices)) \ {Expired}
              = (Elements(g.edges_[curr]) \ {Expired}) \ Vertices
        /\ ConnectedOnce(Expire(g.edges_[curr], Vertices))
    BY <2>1, ExpireFacts
  <2> QED
    BY <1>0, <1>3, <2>1, <2>2 DEF Targets
<1>5. \A v \in Vertices : v # curr => Targets(h, v) = Targets(g, v)
  BY <1>3 DEF Targets
<1>6. VerticesOf(h) = VerticesOf(g)
  BY <1>1 DEF VerticesOf
<1>7. \A v \in Vertices : Sources(h, v) = IF v \in Targets(g, curr)
                                          THEN Sources(g, v) \ {curr} ELSE Sources(g, v)
  BY <1>0, <1>4, <1>5, <1>6 DEF Sources
<1>8. \A v \in Vertices :
        /\ g.incomming[v] = Cardinality(Sources(g, v))
        /\ IsFiniteSet(Sources(g, v))
        /\ v \in Targets(g, curr) => curr \in Sources(g, v)
        /\ g.incomming[v] \in 0..(SizeModulus - 1)
  <2>1. \A v \in Vertices : Sources(g, v) \in SUBSET Vertices
    BY Fields
  <2> QED
    BY <1>0, <2>1, CountFits DEF WellFormed, Sources
<1>9. ASSUME NEW v \in Vertices, v \in Targets(g, curr)
      PROVE  /\ Cardinality(Sources(h, v)) = g.incomming[v] - 1
             /\ g.incomming[v] # 0 /\ Sub(g.incomming[v], 1) = g.incomming[v] - 1
  <2>1. Cardinality(Sources(g, v) \ {curr}) = Cardinality(Sources(g, v)) - 1
    BY <1>8, <1>9, FS_RemoveElement
  <2>2. g.incomming[v] # 0
    BY <1>8, <1>9, FS_EmptySet
  <2>3. 1 \in 0..g.incomming[v]
    BY <1>8, <2>2, SizeModulusAssumption
  <2>4. Sub(g.incomming[v], 1) = g.incomming[v] - 1
    BY <1>8, <2>3, SubExact
  <2> QED
    BY <1>7, <1>8, <1>9, <2>1, <2>2, <2>4
<1>10. \A v \in Vertices :
        /\ h.incomming[v] = IF v \in Targets(g, curr) THEN g.incomming[v] - 1
                                                      ELSE g.incomming[v]
        /\ h.incomming[v] = Cardinality(Sources(h, v))
  BY <1>1, <1>7, <1>8, <1>9
<1>11. h \in GraphTypes
  <2>1. h.edges_ \in [Vertices -> Seq(Vertices \cup {Expired})]
    BY <1>0, <1>1, <1>3, <1>4
  <2>2. \A v \in Vertices : h.incomming[v] \in 0..(SizeModulus - 1)
    BY <1>8, <1>9, <1>10, SizeModulusAssumption
  <2>3. h.incomming \in [Vertices -> 0..(SizeModulus - 1)]
    BY <1>1, <2>2
  <2> QED
    BY <1>0, <1>1, <2>1, <2>3 DEF GraphTypes
<1>12. WellFormed(h)
  <2>1. Injective(h.graph_)
    BY <1>1 DEF WellFormed
  <2>2. \A v \in Vertices : ConnectedOnce(h.edges_[v])
    BY <1>3, <1>4 DEF WellFormed
  <2>3. \A v \in Vertices : Targets(h, v) \subseteq VerticesOf(h)
    BY <1>4, <1>5, <1>6 DEF WellFormed
  <2>4. \A v \in Vertices : v \notin VerticesOf(h) => h.edges_[v] = <<>>
    BY <1>3, <1>6 DEF WellFormed
  <2> QED
    BY <1>10, <1>11, <2>1, <2>2, <2>3, <2>4 DEF WellFormed
<1> QED
  BY <1>1, <1>3, <1>4, <1>9, <1>10, <1>12 DEF h

\* A sequence of members of U is determined by its entries.
LEMMA SeqOfElements ==
    ASSUME NEW T, NEW s \in Seq(T), NEW U, Elements(s) \subseteq U
    PROVE  s \in Seq(U)
<1>1. s \in [1..Len(s) -> T] /\ Len(s) \in Nat /\ DOMAIN s = 1..Len(s)
  OBVIOUS
<1>2. \A i \in 1..Len(s) : s[i] \in U
  BY <1>1 DEF Elements
<1> QED
  BY <1>1, <1>2

\* A turn of the loop of dag_topological_sort, for a queue with a front.
LEMMA SortStepShape ==
    ASSUME NEW st, st.Q # <<>>
    PROVE  SortStep(st) =
              [Q |-> Tail(st.Q) \o Keep(st.g.edges_[Head(st.Q)],
                           {m \in Vertices : Sub(st.g.incomming[m], 1) = 0}),
               L |-> Append(st.L, Head(st.Q)),
               g |-> TakenApart(st.g, Head(st.Q))]
  BY DEF SortStep, TakenApart

\* A turn of the loop keeps its invariant.
LEMMA SortStepInv ==
    ASSUME NEW g, WellFormed(g), NEW st, SortInv(g, st)
    PROVE  SortInv(g, SortStep(st))
<1>1. CASE st.Q = <<>>
  BY <1>1 DEF SortStep
<1>2. CASE st.Q # <<>>
  <2> DEFINE curr == Head(st.Q)
             Z == {m \in Vertices : Sub(st.g.incomming[m], 1) = 0}
             e == st.g.edges_[curr]
             freed == Keep(e, Z)
             h == TakenApart(st.g, curr)
             new == [Q |-> Tail(st.Q) \o freed, L |-> Append(st.L, curr), g |-> h]
  <2>1. SortStep(st) = new
    BY <1>2, SortStepShape
  <2>2. /\ st.Q \in Seq(Vertices) /\ st.L \in Seq(Vertices) /\ st.g \in GraphTypes
        /\ WellFormed(st.g) /\ st.g.graph_ = g.graph_ /\ VerticesOf(st.g) = VerticesOf(g)
        /\ Injective(st.L) /\ Injective(st.Q)
        /\ Elements(st.L) \cap Elements(st.Q) = {}
        /\ Elements(st.L) \cup Elements(st.Q) = {v \in VerticesOf(g) : st.g.incomming[v] = 0}
    BY DEF SortInv, SortStates, VerticesOf
  <2>3. /\ curr \in Elements(st.Q) /\ curr \in Vertices
        /\ Tail(st.Q) \in Seq(Vertices) /\ Injective(Tail(st.Q))
        /\ Elements(Tail(st.Q)) = Elements(st.Q) \ {curr}
    BY <1>2, <2>2, TailElements
  <2> HIDE DEF curr
  <2>4. /\ curr \in VerticesOf(g) /\ curr \in VerticesOf(st.g) /\ curr \notin Elements(st.L)
        /\ st.g.incomming[curr] = 0
    BY <2>2, <2>3
  <2>5. /\ WellFormed(h) /\ h.graph_ = st.g.graph_ /\ Targets(h, curr) = {}
        /\ \A v \in Vertices :
            /\ v # curr => h.edges_[v] = st.g.edges_[v]
            /\ h.incomming[v] = IF v \in Targets(st.g, curr) THEN st.g.incomming[v] - 1
                                                             ELSE st.g.incomming[v]
            /\ v \in Targets(st.g, curr) => /\ Sub(st.g.incomming[v], 1) = st.g.incomming[v] - 1
                                            /\ st.g.incomming[v] # 0
    BY <2>2, <2>4, TakenApartFacts
  <2> HIDE DEF h
  <2>6. Sources(st.g, curr) = {}
    <3>1. Sources(st.g, curr) \in SUBSET Vertices
      BY <2>2, <2>3, Fields
    <3>2. IsFiniteSet(Sources(st.g, curr)) /\ Cardinality(Sources(st.g, curr)) = 0
      BY <2>2, <2>3, <2>4, <3>1, CountFits DEF WellFormed
    <3> QED
      BY <3>2, FS_EmptySet
  <2>7. /\ freed \in Seq(Vertices) /\ Injective(freed)
        /\ Elements(freed) = {v \in Targets(st.g, curr) : h.incomming[v] = 0}
    <3>1. e \in Seq(Vertices \cup {Expired}) /\ ConnectedOnce(e)
      <4>1. st.g.edges_ \in [Vertices -> Seq(Vertices \cup {Expired})]
        BY <2>2, Fields
      <4>2. \A v \in Vertices : ConnectedOnce(st.g.edges_[v])
        BY <2>2 DEF WellFormed
      <4> QED
        BY <2>3, <4>1, <4>2
    <3>2. OnceIn(e, Z)
      BY <3>1, ExpiredAssumption DEF OnceIn, ConnectedOnce
    <3>3. Targets(st.g, curr) = Elements(e) \ {Expired} /\ Targets(st.g, curr) \subseteq Vertices
      BY <2>2, <2>3, Fields DEF Targets
    <3> HIDE DEF e
    <3>4. /\ Keep(e, Z) \in Seq(Vertices \cup {Expired})
          /\ Elements(Keep(e, Z)) = Elements(e) \cap Z
          /\ Injective(Keep(e, Z))
      <4> HIDE DEF Z
      <4> QED  BY <3>1, <3>2, KeepFacts
    <3>5. Elements(freed) \subseteq Vertices
      BY <3>4
    <3>6. freed \in Seq(Vertices)
      BY <3>4, <3>5, SeqOfElements
    <3>7. Elements(e) \cap Z = {v \in Targets(st.g, curr) : h.incomming[v] = 0}
      BY <2>5, <3>3, ExpiredAssumption
    <3> QED
      BY <3>4, <3>6, <3>7
  <2> HIDE DEF freed
  <2>8. Targets(st.g, curr) \subseteq VerticesOf(g) /\ VerticesOf(g) \subseteq Vertices
    BY <2>2, <2>3, Fields
  <2>9. Elements(freed) \cap (Elements(st.L) \cup Elements(st.Q)) = {}
    <3>1. \A v \in Elements(freed) : v \in Vertices /\ st.g.incomming[v] # 0
      BY <2>5, <2>7, <2>8
    <3> QED
      BY <2>2, <3>1
  <2>10. /\ Tail(st.Q) \o freed \in Seq(Vertices)
         /\ Elements(Tail(st.Q) \o freed) = (Elements(st.Q) \ {curr}) \cup Elements(freed)
         /\ Injective(Tail(st.Q) \o freed)
    <3>1. Elements(Tail(st.Q)) \cap Elements(freed) = {}
      BY <2>3, <2>9
    <3> DEFINE t == Tail(st.Q)
    <3>2. t \in Seq(Vertices) /\ Injective(t) /\ Elements(t) \cap Elements(freed) = {}
      BY <2>3, <3>1
    <3>3. Elements(t) = Elements(st.Q) \ {curr}
      BY <2>3
    <3> HIDE DEF t
    <3>4. /\ t \o freed \in Seq(Vertices)
          /\ Elements(t \o freed) = Elements(t) \cup Elements(freed)
          /\ Injective(t \o freed)
      BY <2>7, <3>2, ConcatElements
    <3> QED
      BY <3>3, <3>4 DEF t
  <2>11. /\ Append(st.L, curr) \in Seq(Vertices)
         /\ Elements(Append(st.L, curr)) = Elements(st.L) \cup {curr}
         /\ Injective(Append(st.L, curr))
    BY <2>2, <2>3, <2>4, AppendElements, AppendInjective
  <2>12. new.Q = Tail(st.Q) \o freed /\ new.L = Append(st.L, curr) /\ new.g = h
    OBVIOUS
  <2>13. new \in SortStates
    BY <2>5, <2>10, <2>11 DEF SortStates, WellFormed
  <2> HIDE DEF new
  <2>14. new.g.graph_ = g.graph_ /\ WellFormed(new.g)
    BY <2>2, <2>5, <2>12
  <2>15. Elements(new.L) \cap Elements(new.Q) = {}
    BY <2>2, <2>3, <2>4, <2>9, <2>10, <2>11, <2>12
  <2>16. Elements(new.L) \cup Elements(new.Q) = {v \in VerticesOf(g) : new.g.incomming[v] = 0}
    <3>1. Elements(new.L) \cup Elements(new.Q)
             = {v \in VerticesOf(g) : st.g.incomming[v] = 0} \cup Elements(freed)
      BY <2>2, <2>3, <2>10, <2>11, <2>12
    <3>2. \A v \in VerticesOf(g) : h.incomming[v] = 0 <=>
             st.g.incomming[v] = 0 \/ (v \in Targets(st.g, curr) /\ h.incomming[v] = 0)
      BY <2>5, <2>8
    <3> QED
      BY <2>7, <2>8, <2>12, <3>1, <3>2
  <2>17. \A v \in Vertices : IF v \in Elements(new.L) THEN Targets(new.g, v) = {}
                                                      ELSE new.g.edges_[v] = g.edges_[v]
    <3>1. \A v \in Vertices : v # curr => Targets(h, v) = Targets(st.g, v)
      BY <2>5 DEF Targets
    <3> QED
      BY <2>5, <2>11, <2>12, <3>1 DEF SortInv
  <2>18. ASSUME NEW j \in DOMAIN new.L, NEW u \in Sources(g, new.L[j])
         PROVE  \E i \in DOMAIN new.L : i < j /\ new.L[i] = u
    <3>1. /\ DOMAIN new.L = 1..(Len(st.L) + 1) /\ DOMAIN st.L = 1..Len(st.L) /\ Len(st.L) \in Nat
          /\ \A i \in 1..Len(st.L) : new.L[i] = st.L[i]
          /\ new.L[Len(st.L) + 1] = curr
      BY <2>2, <2>3, <2>12
    <3>2. CASE j \in 1..Len(st.L)
      <4>1. u \in Sources(g, st.L[j])
        BY <2>18, <3>1, <3>2
      <4>2. PICK i \in DOMAIN st.L : i < j /\ st.L[i] = u
        BY <3>1, <3>2, <4>1 DEF SortInv
      <4> QED
        BY <3>1, <4>2
    <3>3. CASE j = Len(st.L) + 1
      <4>1. u \in Sources(g, curr)
        BY <2>18, <3>1, <3>3
      <4>2. u \in VerticesOf(g) /\ u \in Vertices /\ curr \in Targets(g, u)
        BY <2>8, <4>1 DEF Sources
      <4>3. u \in Elements(st.L)
        <5> SUFFICES ASSUME u \notin Elements(st.L) PROVE FALSE
          OBVIOUS
        <5>1. st.g.edges_[u] = g.edges_[u]
          BY <4>2 DEF SortInv
        <5>2. u \in Sources(st.g, curr)
          BY <2>2, <4>2, <5>1 DEF Sources, Targets
        <5> QED
          BY <2>6, <5>2
      <4>4. PICK i \in DOMAIN st.L : st.L[i] = u
        BY <4>3 DEF Elements
      <4> QED
        BY <3>1, <3>3, <4>4
    <3> QED
      BY <2>18, <3>1, <3>2, <3>3
  <2>19. SortInv(g, new)
    BY <2>10, <2>11, <2>12, <2>13, <2>14, <2>15, <2>16, <2>17, <2>18 DEF SortInv
  <2> QED
    BY <2>1, <2>19
<1> QED
  BY <1>1, <1>2

IsSortRun(c, g, n) ==
    /\ SortLoop(g) = c[n]
    /\ c[0] = SortStart(g)
    /\ \A i \in 1..n : c[i] = SortStep(c[i - 1])

\* The turns of the loop of dag_topological_sort.
LEMMA SortRun ==
    ASSUME NEW g, WellFormed(g), NEW n \in Nat, n = Cardinality(Vertices)
    PROVE  \E c : IsSortRun(c, g, n) /\ \A i \in 0..n : SortInv(g, c[i])
<1> DEFINE D == {st \in SortStates : SortInv(g, st)}
           x == SortStart(g)
           P(f) == f = [i \in 0..n |-> IF i = 0 THEN x ELSE SortStep(f[i - 1])]
           h == [i \in 1..n |-> [d \in D |-> SortStep(d)]]
<1>1. x \in D
  BY SortStartInv DEF SortInv
<1>2. \A d \in D : SortStep(d) \in D
  BY SortStepInv DEF SortInv
<1>3. SortLoop(g) = (CHOOSE c : P(c))[n]
  BY DEF SortLoop, Iterate, SortStart
<1> HIDE DEF D, x
<1>4. h \in [1..n -> [D -> D]]
  BY <1>2
<1>5. \A i \in 1..n, d \in D : h[i][d] = SortStep(d)
  OBVIOUS
<1>6. PICK f \in [0..n -> D] : IsRun(f, n, x, h)
  <2> HIDE DEF h
  <2> QED
    BY <1>1, <1>4, RunExists
<1> HIDE DEF h
<1>7. P(f)
  <2>0. \A i \in 0..n : i # 0 => i \in 1..n /\ i - 1 \in 0..n
    OBVIOUS
  <2>1. \A i \in 0..n : i # 0 => i \in 1..n /\ f[i - 1] \in D
    BY <2>0
  <2>2. \A i \in 0..n : f[i] = IF i = 0 THEN x ELSE SortStep(f[i - 1])
    BY <1>5, <1>6, <2>1 DEF IsRun
  <2> QED
    BY <2>2
<1>8. PICK c : P(c) /\ SortLoop(g) = c[n]
  <2> HIDE DEF P
  <2> QED
    BY <1>3, <1>7
<1>9. c[0] = x /\ \A i \in 1..n : c[i] = SortStep(c[i - 1])
  BY <1>8
<1> HIDE DEF P
<1>10. \A i \in 0..n : c[i] \in D
  BY <1>1, <1>2, <1>9, StaysIn
<1>11. IsSortRun(c, g, n)
  BY <1>8, <1>9 DEF IsSortRun, x
<1> QED
  BY <1>10, <1>11 DEF D

\* The loop has ended after as many turns as there are vertices.
LEMMA SortLoopFacts ==
    ASSUME NEW g, WellFormed(g)
    PROVE  SortInv(g, SortLoop(g)) /\ SortLoop(g).Q = <<>>
<1>1. PICK n \in Nat : n = Cardinality(Vertices)
  BY VerticesAssumption, FS_CardinalityType
<1>2. PICK c : IsSortRun(c, g, n) /\ \A i \in 0..n : SortInv(g, c[i])
  BY <1>1, SortRun
<1> DEFINE G == {i \in 0..n : c[i].Q = <<>> \/ Len(c[i].L) = i}
<1>3. 0 \in G
  <2>1. c[0].L = <<>>
    BY <1>2 DEF IsSortRun, SortStart
  <2> QED
    BY <2>1
<1>4. ASSUME NEW i \in 0..n, i < n, i \in G PROVE i + 1 \in G
  <2>1. i + 1 \in 1..n /\ (i + 1) - 1 = i /\ i + 1 \in 0..n
    BY <1>4
  <2>2. c[i + 1] = SortStep(c[i]) /\ SortInv(g, c[i])
    BY <1>2, <2>1 DEF IsSortRun
  <2>3. CASE c[i].Q = <<>>
    BY <2>1, <2>2, <2>3 DEF SortStep
  <2>4. CASE c[i].Q # <<>>
    <3>1. c[i].L \in Seq(Vertices) /\ c[i].Q \in Seq(Vertices)
      BY <2>2 DEF SortInv, SortStates
    <3>2. c[i + 1].L = Append(c[i].L, Head(c[i].Q))
      <4> DEFINE st == c[i]
      <4>1. st.Q # <<>> /\ c[i + 1] = SortStep(st)
        BY <2>2, <2>4
      <4> HIDE DEF st
      <4>2. SortStep(st).L = Append(st.L, Head(st.Q))
        BY <4>1 DEF SortStep
      <4> QED
        BY <4>1, <4>2 DEF st
    <3>3. Len(c[i + 1].L) = Len(c[i].L) + 1
      BY <3>1, <3>2
    <3>4. Len(c[i].L) = i
      BY <1>4, <2>4
    <3> QED
      BY <2>1, <3>3, <3>4
  <2> QED
    BY <2>3, <2>4
<1>5. n \in G
  <2> HIDE DEF G
  <2>1. 0..n \subseteq G
    BY <1>3, <1>4, InductionUpTo
  <2> QED
    BY <2>1
<1>6. SortInv(g, c[n]) /\ SortLoop(g) = c[n]
  BY <1>2 DEF IsSortRun
<1>7. c[n].Q = <<>>
  <2> SUFFICES ASSUME c[n].Q # <<>> PROVE FALSE
    OBVIOUS
  <2>1. Len(c[n].L) = n
    BY <1>5
  <2>2. /\ c[n].L \in Seq(Vertices) /\ c[n].Q \in Seq(Vertices) /\ Injective(c[n].L)
        /\ Injective(c[n].Q) /\ Elements(c[n].L) \cap Elements(c[n].Q) = {}
    BY <1>6 DEF SortInv, SortStates
  <2>3. IsFiniteSet(Elements(c[n].L)) /\ Cardinality(Elements(c[n].L)) = n
    BY <2>1, <2>2, CountElements
  <2>4. Elements(c[n].L) \in SUBSET Vertices
    BY <2>2 DEF Elements
  <2>5. Elements(c[n].L) = Vertices
    BY <1>1, <2>3, <2>4, VerticesAssumption, FS_Subset
  <2>6. Head(c[n].Q) \in Vertices /\ Head(c[n].Q) \in Elements(c[n].Q)
    BY <2>2, TailElements
  <2> QED
    BY <2>2, <2>5, <2>6
<1> QED
  BY <1>6, <1>7

-----------------------------------------------------------------------------
\* A list of all vertices, each once and after its sources.
SortedList(g, L) ==
    /\ L \in Seq(Vertices) /\ Injective(L)
    /\ Elements(L) = VerticesOf(g)
    /\ \A j \in DOMAIN L : \A u \in Sources(g, L[j]) : \E i \in DOMAIN L : i < j /\ L[i] = u

\* The list that dag_topological_sort makes of a graph it can sort.
LEMMA SortedOrder ==
    ASSUME NEW g, WellFormed(g), ~dag_topological_sort(g).ret
    PROVE  SortedList(g, dag_topological_sort(g).sorted)
<1> DEFINE end == SortLoop(g)
           L == dag_topological_sort(g).sorted
<1>1. SortInv(g, end) /\ Len(L) = Len(g.graph_) /\ L = end.L
  BY SortLoopFacts DEF dag_topological_sort
<1> HIDE DEF end, L
<1>2. /\ L \in Seq(Vertices) /\ Injective(L) /\ Elements(L) \subseteq VerticesOf(g)
      /\ \A j \in DOMAIN L : \A u \in Sources(g, L[j]) : \E i \in DOMAIN L : i < j /\ L[i] = u
  BY <1>1 DEF SortInv, SortStates
<1>3. Elements(L) = VerticesOf(g)
  <2>1. g.graph_ \in Seq(Vertices) /\ Injective(g.graph_)
    BY Fields DEF WellFormed
  <2>2. /\ IsFiniteSet(Elements(L)) /\ Cardinality(Elements(L)) = Len(L)
        /\ IsFiniteSet(VerticesOf(g)) /\ Cardinality(VerticesOf(g)) = Len(g.graph_)
    BY <1>2, <2>1, CountElements DEF VerticesOf
  <2> QED
    BY <1>1, <1>2, <2>2, FS_Subset
<1> QED
  BY <1>2, <1>3 DEF SortedList, L

\* The list L numbers the vertices so that edges go upwards.
LEMMA SortedAcyclic ==
    ASSUME NEW g, WellFormed(g), ~dag_topological_sort(g).ret
    PROVE  Acyclic(g)
<1> DEFINE L == dag_topological_sort(g).sorted
           rank == [v \in Vertices |-> IF v \in Elements(L)
                        THEN CHOOSE i \in DOMAIN L : L[i] = v ELSE 0]
<1>1. SortedList(g, L)
  BY SortedOrder
<1> HIDE DEF L
<1>2. /\ L \in Seq(Vertices) /\ Injective(L)
      /\ \A j \in DOMAIN L : \A u \in Sources(g, L[j]) : \E i \in DOMAIN L : i < j /\ L[i] = u
  BY <1>1 DEF SortedList
<1>3. Elements(L) = VerticesOf(g)
  BY <1>1 DEF SortedList
<1>4. DOMAIN L \subseteq Nat
  BY <1>2
<1>5. \A i \in DOMAIN L : (CHOOSE k \in DOMAIN L : L[k] = L[i]) = i
  BY <1>2 DEF Injective
<1>6. \A i \in DOMAIN L : L[i] \in Vertices /\ rank[L[i]] = i
  <2>1. \A i \in DOMAIN L : L[i] \in Vertices /\ L[i] \in Elements(L)
    BY <1>2 DEF Elements
  <2> QED
    BY <1>5, <2>1
<1>7. rank \in [Vertices -> Nat]
  <2>1. \A v \in Elements(L) : \E i \in DOMAIN L : L[i] = v
    BY DEF Elements
  <2>2. \A v \in Elements(L) : (CHOOSE i \in DOMAIN L : L[i] = v) \in DOMAIN L
    BY <2>1
  <2> QED
    BY <1>4, <2>2
<1> HIDE DEF rank
<1>8. ASSUME NEW u \in VerticesOf(g), NEW w \in Targets(g, u)
      PROVE  rank[u] < rank[w]
  <2>1. w \in VerticesOf(g) /\ u \in Sources(g, w)
    BY <1>8, Fields DEF Sources
  <2>2. PICK j \in DOMAIN L : L[j] = w
    BY <1>3, <2>1 DEF Elements
  <2>3. PICK i \in DOMAIN L : i < j /\ L[i] = u
    BY <1>2, <2>1, <2>2
  <2> QED
    BY <1>6, <2>2, <2>3
<1> QED
  BY <1>7, <1>8 DEF Acyclic

-----------------------------------------------------------------------------
(* Reachable(g, S) is the least set that has the successors of S and is     *)
(* closed under successors.                                                 *)

Closed(g, R) == Successors(g, R) \subseteq R

\* What Successors means in terms of targets.
LEMMA SuccessorFacts ==
    ASSUME NEW g, NEW S, NEW R
    PROVE  /\ Successors(g, S) \subseteq VerticesOf(g)
           /\ S \subseteq R => Successors(g, S) \subseteq Successors(g, R)
           /\ \A u \in S : \A w : u \in VerticesOf(g) /\ w \in VerticesOf(g) /\ w \in Targets(g, u)
                => w \in Successors(g, S)
           /\ \A w \in Successors(g, S) :
                \E u \in S : u \in VerticesOf(g) /\ w \in Targets(g, u)
<1>1. \A u, w : <<u, w>> \in Edge(g) <=> u \in VerticesOf(g) /\ w \in VerticesOf(g) /\ w \in Targets(g, u)
  BY DEF Edge
<1> QED
  BY <1>1 DEF Successors

IsReachRun(c, g, S, n) ==
    /\ Reachable(g, S) = c[n]
    /\ c[0] = Successors(g, S)
    /\ \A i \in 1..n : c[i] = c[i - 1] \cup Successors(g, c[i - 1])

\* The rounds in which Reachable is computed.
LEMMA ReachRun ==
    ASSUME NEW g, NEW S, NEW n \in Nat, n = Cardinality(Vertices)
    PROVE  \E c : IsReachRun(c, g, S, n)
<1> DEFINE D == SUBSET VerticesOf(g)
           x == Successors(g, S)
           Grow(R) == R \cup Successors(g, R)
           P(f) == f = [i \in 0..n |-> IF i = 0 THEN x ELSE Grow(f[i - 1])]
           h == [i \in 1..n |-> [d \in D |-> Grow(d)]]
<1>1. x \in D
  BY SuccessorFacts
<1>2. \A d \in D : Grow(d) \in D
  BY SuccessorFacts
<1>3. Reachable(g, S) = (CHOOSE c : P(c))[n]
  BY DEF Reachable, Iterate
<1> HIDE DEF D, x, Grow
<1>4. h \in [1..n -> [D -> D]]
  BY <1>2
<1>5. \A i \in 1..n, d \in D : h[i][d] = Grow(d)
  OBVIOUS
<1>6. PICK f \in [0..n -> D] : IsRun(f, n, x, h)
  <2> HIDE DEF h
  <2> QED
    BY <1>1, <1>4, RunExists
<1> HIDE DEF h
<1>7. P(f)
  <2>0. \A i \in 0..n : i # 0 => i \in 1..n /\ i - 1 \in 0..n
    OBVIOUS
  <2>1. \A i \in 0..n : i # 0 => i \in 1..n /\ f[i - 1] \in D
    BY <2>0
  <2>2. \A i \in 0..n : f[i] = IF i = 0 THEN x ELSE Grow(f[i - 1])
    BY <1>5, <1>6, <2>1 DEF IsRun
  <2> QED
    BY <2>2
<1>8. PICK c : P(c) /\ Reachable(g, S) = c[n]
  <2> HIDE DEF P
  <2> QED
    BY <1>3, <1>7
<1>9. c[0] = x /\ \A i \in 1..n : c[i] = Grow(c[i - 1])
  BY <1>8
<1> HIDE DEF P
<1> QED
  BY <1>8, <1>9 DEF IsReachRun, x, Grow

\* Reachable is contained in every closed set with the successors of S.
LEMMA ReachableLeast ==
    ASSUME NEW g, NEW S, NEW T, Successors(g, S) \subseteq T, Closed(g, T)
    PROVE  Reachable(g, S) \subseteq T
<1>1. PICK n \in Nat : n = Cardinality(Vertices)
  BY VerticesAssumption, FS_CardinalityType
<1>2. PICK c : IsReachRun(c, g, S, n)
  BY <1>1, ReachRun
<1> DEFINE D == SUBSET T
<1>3. c[0] \in D
  BY <1>2 DEF IsReachRun
<1>4. ASSUME NEW i \in 1..n, c[i - 1] \in D PROVE c[i] \in D
  <2>1. Successors(g, c[i - 1]) \subseteq Successors(g, T)
    BY <1>4, SuccessorFacts
  <2> QED
    BY <1>2, <1>4, <2>1 DEF IsReachRun, Closed
<1>5. \A i \in 0..n : c[i] \in D
  <2> HIDE DEF D
  <2> QED
    BY <1>3, <1>4, StaysIn
<1> QED
  BY <1>2, <1>5 DEF IsReachRun

\* Reachable is closed: as many rounds as there are vertices are enough, as
\* every round but the last adds a vertex.
LEMMA ReachableClosed ==
    ASSUME NEW g, VerticesOf(g) \subseteq Vertices, NEW S
    PROVE  /\ Successors(g, S) \subseteq Reachable(g, S)
           /\ Reachable(g, S) \subseteq VerticesOf(g)
           /\ Closed(g, Reachable(g, S))
<1>1. PICK n \in Nat : n = Cardinality(Vertices)
  BY VerticesAssumption, FS_CardinalityType
<1>2. PICK c : IsReachRun(c, g, S, n)
  BY <1>1, ReachRun
<1> DEFINE D == {R \in SUBSET VerticesOf(g) : Successors(g, S) \subseteq R}
<1>3. \A i \in 0..n : c[i] \in D
  <2>1. c[0] \in D
    BY <1>2, SuccessorFacts DEF IsReachRun
  <2>2. \A i \in 1..n : c[i - 1] \in D => c[i] \in D
    BY <1>2, SuccessorFacts DEF IsReachRun
  <2> HIDE DEF D
  <2> QED
    BY <2>1, <2>2, StaysIn
<1>4. \A i \in 0..n : /\ c[i] \subseteq VerticesOf(g) /\ c[i] \in SUBSET Vertices
                      /\ Successors(g, S) \subseteq c[i]
                      /\ IsFiniteSet(c[i]) /\ Cardinality(c[i]) \in Nat
  <2>1. \A i \in 0..n : /\ c[i] \subseteq VerticesOf(g) /\ c[i] \in SUBSET Vertices
                        /\ Successors(g, S) \subseteq c[i]
    BY <1>3
  <2>2. \A i \in 0..n : IsFiniteSet(c[i])
    BY <2>1, CountFits
  <2> QED
    BY <2>1, <2>2, FS_CardinalityType
<1> DEFINE G == {i \in 0..n : Closed(g, c[i]) \/ Cardinality(c[i]) >= i}
<1>5. 0 \in G
  BY <1>4
<1>6. ASSUME NEW i \in 0..n, i < n, i \in G PROVE i + 1 \in G
  <2>1. i + 1 \in 1..n /\ (i + 1) - 1 = i /\ i + 1 \in 0..n
    BY <1>6
  <2>2. c[i + 1] = c[i] \cup Successors(g, c[i])
    BY <1>2, <2>1 DEF IsReachRun
  <2>3. CASE Closed(g, c[i])
    <3>1. c[i + 1] = c[i]
      BY <2>2, <2>3 DEF Closed
    <3> QED
      BY <2>1, <2>3, <3>1
  <2>4. CASE ~Closed(g, c[i])
    <3>1. c[i] \in SUBSET c[i + 1] /\ c[i] # c[i + 1]
      BY <2>2, <2>4 DEF Closed
    <3>2. Cardinality(c[i]) <= Cardinality(c[i + 1]) /\ Cardinality(c[i]) # Cardinality(c[i + 1])
      BY <1>4, <2>1, <3>1, FS_Subset
    <3>3. Cardinality(c[i]) >= i
      BY <1>6, <2>4
    <3>4. Cardinality(c[i + 1]) >= i + 1
      BY <1>4, <2>1, <3>2, <3>3
    <3> QED
      BY <2>1, <3>4
  <2> QED
    BY <2>3, <2>4
<1>7. n \in G
  <2> HIDE DEF G
  <2>1. 0..n \subseteq G
    BY <1>5, <1>6, InductionUpTo
  <2> QED
    BY <2>1
<1>8. n \in 0..n
  OBVIOUS
<1>9. Closed(g, c[n])
  <2> SUFFICES ASSUME Cardinality(c[n]) >= n PROVE Closed(g, c[n])
    BY <1>7
  <2>1. Cardinality(c[n]) <= Cardinality(Vertices) /\ IsFiniteSet(Vertices)
    BY <1>4, <1>8, CountFits, VerticesAssumption
  <2>2. c[n] = Vertices
    BY <1>1, <1>4, <1>8, <2>1, FS_Subset
  <2> QED
    BY <2>2, SuccessorFacts DEF Closed
<1> QED
  BY <1>2, <1>4, <1>8, <1>9 DEF IsReachRun

-----------------------------------------------------------------------------
\* A numbering along the edges leaves no room for a cycle.
LEMMA AcyclicHasNoCycle ==
    ASSUME NEW g, WellFormed(g), Acyclic(g)
    PROVE  ~HasCycle(g)
<1>1. PICK rank \in [Vertices -> Nat] :
        \A u \in VerticesOf(g) : \A w \in Targets(g, u) : rank[u] < rank[w]
  BY DEF Acyclic
<1>2. ASSUME NEW v \in VerticesOf(g) PROVE v \notin Reachable(g, {v})
  <2> DEFINE T == {w \in VerticesOf(g) : rank[v] < rank[w]}
  <2>1. VerticesOf(g) \subseteq Vertices
    BY Fields
  <2>2. Successors(g, {v}) \subseteq T
    BY <1>1, SuccessorFacts
  <2>3. Closed(g, T)
    <3>1. ASSUME NEW w \in Successors(g, T) PROVE w \in T
      <4>1. PICK u \in T : w \in Targets(g, u) /\ w \in VerticesOf(g)
        BY <3>1, SuccessorFacts
      <4>2. rank[v] < rank[u] /\ rank[u] < rank[w] /\ rank[v] \in Nat /\ rank[u] \in Nat /\ rank[w] \in Nat
        BY <1>1, <2>1, <4>1
      <4> QED
        BY <4>1, <4>2
    <3> QED
      BY <3>1 DEF Closed
  <2>4. v \notin T
    BY <1>1, <2>1
  <2> HIDE DEF T
  <2> QED
    BY <2>2, <2>3, <2>4, ReachableLeast
<1> QED
  BY <1>2 DEF HasCycle

\* A set of vertices each of which has a source in the set holds a cycle: a
\* vertex that reaches as much as any other in the set is reached from itself.
LEMMA SourcesWithinHasCycle ==
    ASSUME NEW g, WellFormed(g), NEW U \in SUBSET VerticesOf(g), U # {},
           \A w \in U : \E u \in U : w \in Targets(g, u)
    PROVE  HasCycle(g)
<1> DEFINE R(w) == Reachable(g, {w})
<1>1. VerticesOf(g) \subseteq Vertices
  BY Fields
<1>2. \A w \in U : R(w) \in SUBSET Vertices
  BY <1>1, ReachableClosed
<1>3. \A w \in U : IsFiniteSet(R(w)) /\ Cardinality(R(w)) \in Nat
                   /\ Cardinality(R(w)) <= Cardinality(Vertices)
  BY <1>2, CountFits, FS_CardinalityType
<1>4. PICK n \in Nat : n = Cardinality(Vertices)
  BY VerticesAssumption, FS_CardinalityType
<1> HIDE DEF R
<1> DEFINE T == {n - Cardinality(R(w)) : w \in U}
<1>5. T \in SUBSET Nat /\ T # {}
  BY <1>3, <1>4
<1>6. PICK m \in T : \A k \in T : m <= k
  <2> HIDE DEF T
  <2> QED
    BY <1>5, LeastElement
<1>7. PICK w \in U : m = n - Cardinality(R(w))
  OBVIOUS
<1>8. ASSUME NEW u \in U PROVE Cardinality(R(u)) <= Cardinality(R(w))
  <2>1. n - Cardinality(R(w)) <= n - Cardinality(R(u))
    BY <1>6, <1>7
  <2> QED
    BY <1>3, <1>4, <2>1
<1>9. PICK u \in U : w \in Targets(g, u)
  OBVIOUS
<1>10. w \in R(u) /\ Closed(g, R(u))
  <2>1. w \in Successors(g, {u})
    BY <1>9, SuccessorFacts
  <2> QED
    BY <1>1, <2>1, ReachableClosed DEF R
<1>11. R(w) \in SUBSET R(u)
  <2>1. Successors(g, {w}) \subseteq R(u)
    <3>1. {w} \subseteq R(u)
      BY <1>10
    <3>2. Successors(g, {w}) \subseteq Successors(g, R(u))
      BY <3>1, SuccessorFacts
    <3> QED
      BY <1>10, <3>2 DEF Closed
  <2> QED
    BY <1>10, <2>1, ReachableLeast DEF R
<1>12. R(u) = R(w)
  <2>1. Cardinality(R(w)) <= Cardinality(R(u))
    BY <1>3, <1>11, FS_Subset
  <2>2. Cardinality(R(w)) = Cardinality(R(u))
    BY <1>3, <1>8, <2>1
  <2> QED
    BY <1>3, <1>11, <2>2, FS_Subset
<1> QED
  BY <1>10, <1>12 DEF HasCycle, R

\* dag_topological_sort returns true exactly for a graph that has a cycle.
LEMMA SortFindsCycles ==
    ASSUME NEW g, WellFormed(g)
    PROVE  /\ dag_topological_sort(g).ret \in BOOLEAN
           /\ dag_topological_sort(g).ret <=> HasCycle(g)
           /\ ~HasCycle(g) => Acyclic(g)
<1>1. ASSUME ~dag_topological_sort(g).ret PROVE ~HasCycle(g) /\ Acyclic(g)
  BY <1>1, SortedAcyclic, AcyclicHasNoCycle
<1>2. ASSUME dag_topological_sort(g).ret PROVE HasCycle(g)
  <2> DEFINE end == SortLoop(g)
             U == VerticesOf(g) \ Elements(end.L)
  <2>1. SortInv(g, end) /\ end.Q = <<>> /\ Len(end.L) # Len(g.graph_)
    BY <1>2, SortLoopFacts DEF dag_topological_sort
  <2> HIDE DEF end
  <2>2. /\ end.L \in Seq(Vertices) /\ Injective(end.L) /\ WellFormed(end.g)
        /\ VerticesOf(end.g) = VerticesOf(g)
        /\ Elements(end.L) = {v \in VerticesOf(g) : end.g.incomming[v] = 0}
        /\ VerticesOf(g) \subseteq Vertices
    <3>1. Elements(end.Q) = {}
      BY <2>1 DEF Elements
    <3>2. Elements(end.L) \cup Elements(end.Q) = {v \in VerticesOf(g) : end.g.incomming[v] = 0}
      BY <2>1 DEF SortInv
    <3>3. VerticesOf(g) \subseteq Vertices
      BY Fields
    <3>4. /\ end.L \in Seq(Vertices) /\ Injective(end.L) /\ WellFormed(end.g)
          /\ VerticesOf(end.g) = VerticesOf(g)
      BY <2>1 DEF SortInv, SortStates, VerticesOf
    <3> QED
      BY <3>1, <3>2, <3>3, <3>4
  <2>3. U # {}
    <3> SUFFICES ASSUME U = {} PROVE FALSE
      OBVIOUS
    <3>1. Elements(end.L) = Elements(g.graph_)
      BY <2>2 DEF VerticesOf
    <3>2. g.graph_ \in Seq(Vertices) /\ Injective(g.graph_)
      BY Fields DEF WellFormed
    <3>3. Len(end.L) = Len(g.graph_)
      BY <2>2, <3>1, <3>2, CountElements
    <3> QED
      BY <2>1, <3>3
  <2>4. ASSUME NEW w \in U PROVE \E u \in U : w \in Targets(g, u)
    <3>1. w \in Vertices /\ end.g.incomming[w] # 0
      BY <2>2
    <3>2. Sources(end.g, w) # {}
      BY <2>2, <3>1, FS_EmptySet DEF WellFormed
    <3>3. PICK u \in Sources(end.g, w) : TRUE
      BY <3>2
    <3>4. u \in VerticesOf(g) /\ u \in Vertices /\ w \in Targets(end.g, u)
      BY <2>2, <3>3 DEF Sources
    <3>5. u \notin Elements(end.L)
      BY <2>1, <3>4 DEF SortInv
    <3>6. end.g.edges_[u] = g.edges_[u]
      BY <2>1, <3>4, <3>5 DEF SortInv
    <3> QED
      BY <3>4, <3>5, <3>6 DEF Targets
  <2> HIDE DEF U
  <2> QED
    <3>1. U \in SUBSET VerticesOf(g)
      BY DEF U
    <3> QED
      BY <2>3, <2>4, <3>1, SourcesWithinHasCycle
<1>3. dag_topological_sort(g).ret \in BOOLEAN
  BY DEF dag_topological_sort
<1> QED
  BY <1>1, <1>2, <1>3

-----------------------------------------------------------------------------
(* Connections.                                                            *)

\* connection_would_make_cyclic returns true exactly if the graph with the
\* connection has a cycle.
LEMMA CheckFindsCycles ==
    ASSUME NEW g, WellFormed(g), NEW v1 \in VerticesOf(g), NEW v2 \in VerticesOf(g)
    PROVE  /\ connection_would_make_cyclic(g, v1, v2) \in BOOLEAN
           /\ connection_would_make_cyclic(g, v1, v2) <=> HasCycle(VertexConnect(g, v1, v2))
           /\ ~connection_would_make_cyclic(g, v1, v2) => Acyclic(VertexConnect(g, v1, v2))
<1>1. connection_would_make_cyclic(g, v1, v2) = dag_topological_sort(VertexConnect(g, v1, v2)).ret
  BY CloneSame DEF connection_would_make_cyclic
<1>2. WellFormed(VertexConnect(g, v1, v2))
  BY ConnectFacts
<1> QED
  BY <1>1, <1>2, SortFindsCycles

\* A graph with more edges reaches more.
LEMMA ReachesMore ==
    ASSUME NEW g, NEW h, VerticesOf(g) \subseteq Vertices, VerticesOf(h) = VerticesOf(g),
           \A u \in VerticesOf(g) : Targets(g, u) \subseteq Targets(h, u), NEW S
    PROVE  Reachable(g, S) \subseteq Reachable(h, S)
<1>1. ASSUME NEW T PROVE Successors(g, T) \subseteq Successors(h, T)
  <2>1. ASSUME NEW w \in Successors(g, T) PROVE w \in Successors(h, T)
    <3>1. PICK u \in T : u \in VerticesOf(g) /\ w \in Targets(g, u)
      BY <2>1, SuccessorFacts
    <3>2. w \in VerticesOf(g)
      BY <2>1, SuccessorFacts
    <3>3. w \in VerticesOf(h) /\ u \in VerticesOf(h) /\ w \in Targets(h, u)
      BY <3>1, <3>2
    <3> QED
      BY <3>1, <3>3, SuccessorFacts
  <2> QED
    BY <2>1
<1>2. Successors(h, S) \subseteq Reachable(h, S) /\ Closed(h, Reachable(h, S))
  BY ReachableClosed
<1>3. Successors(g, S) \subseteq Reachable(h, S)
  BY <1>1, <1>2
<1>4. Closed(g, Reachable(h, S))
  BY <1>1, <1>2 DEF Closed
<1> QED
  BY <1>3, <1>4, ReachableLeast

\* An edge back to a vertex that reaches its source closes a cycle.
LEMMA BackEdgeHasCycle ==
    ASSUME NEW g, WellFormed(g), NEW v1 \in VerticesOf(g), NEW v2 \in VerticesOf(g),
           v2 \in Targets(g, v1), v1 = v2 \/ v1 \in Reachable(g, {v2})
    PROVE  HasCycle(g)
<1>1. VerticesOf(g) \subseteq Vertices
  BY Fields
<1>2. v2 \in Reachable(g, {v1}) /\ Closed(g, Reachable(g, {v1}))
  <2>1. v2 \in Successors(g, {v1})
    BY SuccessorFacts
  <2> QED
    BY <1>1, <2>1, ReachableClosed
<1>3. Successors(g, {v2}) \subseteq Reachable(g, {v1})
  <2>1. {v2} \subseteq Reachable(g, {v1})
    BY <1>2
  <2>2. Successors(g, {v2}) \subseteq Successors(g, Reachable(g, {v1}))
    BY <2>1, SuccessorFacts
  <2> QED
    BY <1>2, <2>2 DEF Closed
<1>4. Reachable(g, {v2}) \subseteq Reachable(g, {v1})
  BY <1>2, <1>3, ReachableLeast
<1> QED
  BY <1>2, <1>4 DEF HasCycle

\* The numbers of v2 and of all that it reaches are raised above that of v1.
LEMMA ForwardEdgeAcyclic ==
    ASSUME NEW g, WellFormed(g), Acyclic(g), NEW v1 \in VerticesOf(g), NEW v2 \in VerticesOf(g),
           v1 # v2, v1 \notin Reachable(g, {v2})
    PROVE  Acyclic(VertexConnect(g, v1, v2))
<1> DEFINE h == VertexConnect(g, v1, v2)
           C == {v2} \cup Reachable(g, {v2})
<1>1. PICK rank \in [Vertices -> Nat] :
        \A u \in VerticesOf(g) : \A w \in Targets(g, u) : rank[u] < rank[w]
  BY DEF Acyclic
<1> DEFINE r == [x \in Vertices |-> IF x \in C THEN rank[x] + rank[v1] + 1 ELSE rank[x]]
<1>2. VerticesOf(g) \subseteq Vertices
  BY Fields
<1>3. /\ VerticesOf(h) = VerticesOf(g)
      /\ \A u \in Vertices : Targets(h, u) = IF u = v1 THEN Targets(g, u) \cup {v2} ELSE Targets(g, u)
  BY <1>2, ConnectFacts DEF VerticesOf
<1>4. v1 \notin C /\ v2 \in C
  OBVIOUS
<1>5. \A u \in C : \A w \in Targets(g, u) : w \in C
  <2>1. Successors(g, {v2}) \subseteq C /\ Closed(g, Reachable(g, {v2})) /\ C \subseteq VerticesOf(g)
    BY <1>2, ReachableClosed
  <2>2. ASSUME NEW u \in C, NEW w \in Targets(g, u) PROVE w \in C
    <3>1. u \in VerticesOf(g) /\ w \in VerticesOf(g)
      BY <1>2, <2>1, <2>2, Fields
    <3>2. CASE u = v2
      <4>1. w \in Successors(g, {v2})
        BY <2>2, <3>1, <3>2, SuccessorFacts
      <4> QED
        BY <2>1, <4>1
    <3>3. CASE u \in Reachable(g, {v2})
      <4>1. w \in Successors(g, Reachable(g, {v2}))
        BY <2>2, <3>1, <3>3, SuccessorFacts
      <4> QED
        BY <2>1, <4>1 DEF Closed
    <3> QED
      BY <3>2, <3>3
  <2> QED
    BY <2>2
<1> HIDE DEF C, h
<1>6. r \in [Vertices -> Nat]
  BY <1>1, <1>2
<1>7. ASSUME NEW u \in VerticesOf(h), NEW w \in Targets(h, u) PROVE r[u] < r[w]
  <2>1. u \in Vertices /\ u \in VerticesOf(g)
    BY <1>2, <1>3
  <2>2. CASE w \in Targets(g, u)
    <3>1. w \in Vertices /\ rank[u] < rank[w] /\ rank[u] \in Nat /\ rank[w] \in Nat /\ rank[v1] \in Nat
      BY <1>1, <1>2, <2>1, <2>2, Fields
    <3>2. u \in C => w \in C
      BY <1>5, <2>2
    <3> QED
      BY <2>1, <3>1, <3>2
  <2>3. CASE u = v1 /\ w = v2
    <3>1. rank[v1] \in Nat /\ rank[v2] \in Nat /\ v1 \in Vertices /\ v2 \in Vertices
      BY <1>1, <1>2
    <3>2. r[u] = rank[v1] /\ r[w] = rank[v2] + rank[v1] + 1
      BY <1>4, <2>3, <3>1
    <3> QED
      BY <3>1, <3>2
  <2> QED
    BY <1>3, <1>7, <2>1, <2>2, <2>3
<1> HIDE DEF r
<1> QED
  BY <1>6, <1>7 DEF Acyclic, h

\* The check answers whether v1 can be reached from v2.
LEMMA CheckExact ==
    ASSUME NEW g, WellFormed(g), Acyclic(g), NEW v1 \in VerticesOf(g), NEW v2 \in VerticesOf(g)
    PROVE  connection_would_make_cyclic(g, v1, v2) <=> v1 = v2 \/ v1 \in Reachable(g, {v2})
<1> DEFINE h == VertexConnect(g, v1, v2)
<1>1. /\ connection_would_make_cyclic(g, v1, v2) \in BOOLEAN
      /\ connection_would_make_cyclic(g, v1, v2) <=> HasCycle(h)
  BY CheckFindsCycles
<1>2. VerticesOf(g) \subseteq Vertices
  BY Fields
<1>3. /\ VerticesOf(h) = VerticesOf(g) /\ WellFormed(h)
      /\ \A u \in Vertices : Targets(h, u) = IF u = v1 THEN Targets(g, u) \cup {v2} ELSE Targets(g, u)
  BY <1>2, ConnectFacts DEF VerticesOf
<1> HIDE DEF h
<1>4. ASSUME v1 = v2 \/ v1 \in Reachable(g, {v2}) PROVE HasCycle(h)
  <2>1. Reachable(g, {v2}) \subseteq Reachable(h, {v2})
    BY <1>2, <1>3, ReachesMore
  <2>2. v2 \in Targets(h, v1) /\ v1 \in VerticesOf(h) /\ v2 \in VerticesOf(h)
    BY <1>2, <1>3
  <2> QED
    BY <1>3, <1>4, <2>1, <2>2, BackEdgeHasCycle
<1>5. ASSUME v1 # v2, v1 \notin Reachable(g, {v2}) PROVE ~HasCycle(h)
  <2>1. Acyclic(h)
    BY <1>5, ForwardEdgeAcyclic DEF h
  <2> QED
    BY <1>3, <2>1, AcyclicHasNoCycle
<1> QED
  BY <1>1, <1>4, <1>5

\* connect keeps the graph well-formed and acyclic, whether it throws or not.
LEMMA ConnectedFacts ==
    ASSUME NEW g, WellFormed(g), Acyclic(g), NEW v1 \in VerticesOf(g), NEW v2 \in VerticesOf(g)
    PROVE  /\ WellFormed(Connected(g, v1, v2).g) /\ Acyclic(Connected(g, v1, v2).g)
           /\ Connected(g, v1, v2).g.graph_ = g.graph_
           /\ Connected(g, v1, v2) \in [g : GraphTypes, thrown : BOOLEAN]
           /\ Connected(g, v1, v2).thrown <=> v1 = v2 \/ v1 \in Reachable(g, {v2})
           /\ \A u \in Vertices : Targets(Connected(g, v1, v2).g, u) =
                IF u = v1 /\ ~Connected(g, v1, v2).thrown THEN Targets(g, u) \cup {v2} ELSE Targets(g, u)
<1> DEFINE h == VertexConnect(g, v1, v2)
           c == connection_would_make_cyclic(g, v1, v2)
<1>1. /\ c \in BOOLEAN /\ c <=> v1 = v2 \/ v1 \in Reachable(g, {v2})
      /\ ~c => Acyclic(h)
  BY CheckFindsCycles, CheckExact
<1>2. Connected(g, v1, v2) = IF c THEN [g |-> g, thrown |-> TRUE] ELSE [g |-> h, thrown |-> FALSE]
  BY DEF Connected
<1>3. /\ WellFormed(h) /\ h.graph_ = g.graph_ /\ h \in GraphTypes /\ g \in GraphTypes
      /\ \A u \in Vertices : Targets(h, u) = IF u = v1 THEN Targets(g, u) \cup {v2} ELSE Targets(g, u)
  BY ConnectFacts, Fields
<1> HIDE DEF h, c
<1>4. CASE c
  <2>1. Connected(g, v1, v2).g = g /\ Connected(g, v1, v2).thrown = TRUE
    BY <1>2, <1>4
  <2>2. Connected(g, v1, v2) \in [g : GraphTypes, thrown : BOOLEAN]
    BY <1>2, <1>3, <1>4
  <2> QED
    BY <1>1, <1>4, <2>1, <2>2
<1>5. CASE ~c
  <2>1. Connected(g, v1, v2).g = h /\ Connected(g, v1, v2).thrown = FALSE
    BY <1>2, <1>5
  <2>2. Connected(g, v1, v2) \in [g : GraphTypes, thrown : BOOLEAN]
    BY <1>2, <1>3, <1>5
  <2> QED
    BY <1>1, <1>3, <1>5, <2>1, <2>2
<1> QED
  BY <1>4, <1>5

-----------------------------------------------------------------------------
(* connect_all_by_label.                                                   *)

\* One turn of the inner loop, and the inner loop.
ConnectOne(st, v1, v2) == IF st.thrown THEN st ELSE Connected(st.g, v1, v2)
ConnectRow(st, v1, to) == FoldSeq(LAMBDA r, v2 : ConnectOne(r, v1, v2), st, to)

ConnectStates == [g : GraphTypes, thrown : BOOLEAN]

\* No vertex of F is, or is reached from, one of T.
NoWayBack(g, F, T) == \A v1 \in F, v2 \in T : v1 # v2 /\ v1 \notin Reachable(g, {v2})

\* The loops on graph g have so far only added edges from F to T, and have not
\* thrown if each of these edges could be added to g.
ConnectInv(g, F, T, st) ==
    /\ st \in ConnectStates
    /\ WellFormed(st.g) /\ Acyclic(st.g)
    /\ st.g.graph_ = g.graph_
    /\ \A u \in Vertices : Targets(g, u) \subseteq Targets(st.g, u)
    /\ \A u \in Vertices : \A w \in Targets(st.g, u) : w \in Targets(g, u) \/ (u \in F /\ w \in T)
    /\ NoWayBack(g, F, T) => ~st.thrown

\* From st to r edges were only added, and nothing was caught.
Extends(st, r) ==
    /\ \A u \in Vertices : Targets(st.g, u) \subseteq Targets(r.g, u)
    /\ ~r.thrown => ~st.thrown

\* The edges added so far all start in F, and F is not reached from T.
LEMMA StillNoWayBack ==
    ASSUME NEW g, WellFormed(g), NEW F \in SUBSET VerticesOf(g), NEW T \in SUBSET VerticesOf(g),
           NEW st, ConnectInv(g, F, T, st), NoWayBack(g, F, T), NEW v1 \in F, NEW v2 \in T
    PROVE  v1 # v2 /\ v1 \notin Reachable(st.g, {v2})
<1> DEFINE B == T \cup UNION {Reachable(g, {t}) : t \in T}
<1>1. VerticesOf(g) \subseteq Vertices /\ VerticesOf(st.g) = VerticesOf(g)
  <2>1. st.g.graph_ = g.graph_
    BY DEF ConnectInv
  <2> QED
    BY <2>1, Fields DEF VerticesOf
<1>2. B \cap F = {}
  <2>1. ASSUME NEW x \in B, x \in F PROVE FALSE
    <3>1. CASE x \in T
      BY <2>1, <3>1 DEF NoWayBack
    <3>2. CASE x \in UNION {Reachable(g, {t}) : t \in T}
      <4>1. PICK t \in T : x \in Reachable(g, {t})
        BY <3>2
      <4> QED
        BY <2>1, <4>1 DEF NoWayBack
    <3> QED
      BY <2>1, <3>1, <3>2
  <2> QED
    BY <2>1
<1>3. \A u \in B : \A w \in VerticesOf(g) : u \in VerticesOf(g) /\ w \in Targets(g, u) => w \in B
  <2>1. ASSUME NEW u \in B, NEW w \in VerticesOf(g), u \in VerticesOf(g), w \in Targets(g, u)
        PROVE  w \in B
    <3>1. CASE u \in T
      <4>1. w \in Successors(g, {u})
        BY <2>1, SuccessorFacts
      <4>2. w \in Reachable(g, {u})
        BY <1>1, <4>1, ReachableClosed
      <4> QED
        BY <3>1, <4>2
    <3>2. CASE u \in UNION {Reachable(g, {t}) : t \in T}
      <4>1. PICK t \in T : u \in Reachable(g, {t})
        BY <3>2
      <4>2. w \in Successors(g, Reachable(g, {t}))
        BY <2>1, <4>1, SuccessorFacts
      <4>3. w \in Reachable(g, {t})
        BY <1>1, <4>2, ReachableClosed DEF Closed
      <4> QED
        BY <4>3
    <3> QED
      BY <3>1, <3>2
  <2> QED
    BY <2>1
<1>4. v1 # v2 /\ v1 \notin B /\ v2 \in B
  BY <1>2
<1> HIDE DEF B
<1>5. ASSUME NEW S, S \subseteq B PROVE Successors(st.g, S) \subseteq B
  <2>1. ASSUME NEW w \in Successors(st.g, S) PROVE w \in B
    <3>1. PICK u \in S : u \in VerticesOf(st.g) /\ w \in Targets(st.g, u)
      BY <2>1, SuccessorFacts
    <3>2. w \in VerticesOf(g) /\ u \in VerticesOf(g) /\ u \in Vertices /\ u \in B /\ u \notin F
      BY <1>1, <1>2, <1>5, <2>1, <3>1, SuccessorFacts
    <3>3. w \in Targets(g, u)
      BY <3>1, <3>2 DEF ConnectInv
    <3> QED
      BY <1>3, <3>2, <3>3
  <2> QED
    BY <2>1
<1>6. Successors(st.g, {v2}) \subseteq B /\ Closed(st.g, B)
  <2>1. {v2} \subseteq B /\ B \subseteq B
    BY <1>4
  <2> QED
    BY <1>5, <2>1 DEF Closed
<1>7. Reachable(st.g, {v2}) \subseteq B
  BY <1>6, ReachableLeast
<1> QED
  BY <1>4, <1>7

\* One turn of the inner loop of connect_all_by_label keeps the invariant.
LEMMA ConnectOneFacts ==
    ASSUME NEW g, WellFormed(g), NEW F \in SUBSET VerticesOf(g), NEW T \in SUBSET VerticesOf(g),
           NEW st, ConnectInv(g, F, T, st), NEW v1 \in F, NEW v2 \in T
    PROVE  /\ ConnectInv(g, F, T, ConnectOne(st, v1, v2))
           /\ Extends(st, ConnectOne(st, v1, v2))
           /\ ~ConnectOne(st, v1, v2).thrown => v2 \in Targets(ConnectOne(st, v1, v2).g, v1)
<1>1. CASE st.thrown
  BY <1>1 DEF ConnectOne, Extends
<1>2. CASE ~st.thrown
  <2> DEFINE r == Connected(st.g, v1, v2)
  <2>1. ConnectOne(st, v1, v2) = r
    BY <1>2 DEF ConnectOne
  <2>2. /\ VerticesOf(g) \subseteq Vertices /\ VerticesOf(st.g) = VerticesOf(g)
        /\ WellFormed(st.g) /\ Acyclic(st.g) /\ v1 \in VerticesOf(st.g) /\ v2 \in VerticesOf(st.g)
    <3>1. st.g.graph_ = g.graph_ /\ WellFormed(st.g) /\ Acyclic(st.g)
      BY DEF ConnectInv
    <3>2. VerticesOf(g) \subseteq Vertices
      BY Fields
    <3> QED
      BY <3>1, <3>2 DEF VerticesOf
  <2>3. /\ WellFormed(r.g) /\ Acyclic(r.g) /\ r.g.graph_ = st.g.graph_
        /\ r \in [g : GraphTypes, thrown : BOOLEAN]
        /\ r.thrown <=> v1 = v2 \/ v1 \in Reachable(st.g, {v2})
        /\ \A u \in Vertices : Targets(r.g, u) =
                IF u = v1 /\ ~r.thrown THEN Targets(st.g, u) \cup {v2} ELSE Targets(st.g, u)
    BY <2>2, ConnectedFacts
  <2> HIDE DEF r
  <2>4. NoWayBack(g, F, T) => ~r.thrown
    BY <2>3, StillNoWayBack
  <2>5. \A u \in Vertices : Targets(st.g, u) \subseteq Targets(r.g, u)
    BY <2>3
  <2>6. \A u \in Vertices : \A w \in Targets(r.g, u) : w \in Targets(g, u) \/ (u \in F /\ w \in T)
    BY <2>3 DEF ConnectInv
  <2>7. ConnectInv(g, F, T, r)
    BY <2>3, <2>4, <2>5, <2>6 DEF ConnectInv, ConnectStates
  <2>8. Extends(st, r)
    BY <1>2, <2>5 DEF Extends
  <2>9. ~r.thrown => v2 \in Targets(r.g, v1)
    BY <2>2, <2>3
  <2> QED
    BY <2>1, <2>7, <2>8, <2>9
<1> QED
  BY <1>1, <1>2

IsRowRun(c, st, v1, to, n) ==
    /\ ConnectRow(st, v1, to) = c[n]
    /\ c[0] = st
    /\ \A i \in 1..n : c[i] = ConnectOne(c[i - 1], v1, to[i])

\* The turns of the inner loop.
LEMMA RowRun ==
    ASSUME NEW g, WellFormed(g), NEW F \in SUBSET VerticesOf(g), NEW to \in Seq(Vertices),
           Elements(to) \subseteq VerticesOf(g),
           NEW st, ConnectInv(g, F, Elements(to), st), NEW v1 \in F, NEW n \in Nat, n = Len(to)
    PROVE  \E c : IsRowRun(c, st, v1, to, n)
                  /\ \A i \in 0..n : ConnectInv(g, F, Elements(to), c[i])
<1> DEFINE D == {r \in ConnectStates : ConnectInv(g, F, Elements(to), r)}
           Turn(i, d) == ConnectOne(d, v1, to[i])
           P(f) == f = [i \in 0..n |-> IF i = 0 THEN st ELSE Turn(i, f[i - 1])]
           h == [i \in 1..n |-> [d \in D |-> Turn(i, d)]]
<1>1. st \in D
  BY DEF ConnectInv
<1>2. \A i \in 1..n, d \in D : Turn(i, d) \in D
  <2>1. \A i \in 1..n : to[i] \in Elements(to)
    BY DEF Elements
  <2>2. Elements(to) \in SUBSET VerticesOf(g)
    OBVIOUS
  <2>3. ASSUME NEW i \in 1..n, NEW d \in D PROVE ConnectInv(g, F, Elements(to), Turn(i, d))
    BY <2>1, <2>2, ConnectOneFacts
  <2> QED
    BY <2>3 DEF ConnectInv
<1>3. ConnectRow(st, v1, to) = (CHOOSE c : P(c))[n]
  BY DEF ConnectRow, FoldSeq
<1> HIDE DEF D, Turn
<1>4. h \in [1..n -> [D -> D]]
  BY <1>2
<1>5. \A i \in 1..n, d \in D : h[i][d] = Turn(i, d)
  OBVIOUS
<1>6. PICK f \in [0..n -> D] : IsRun(f, n, st, h)
  <2> HIDE DEF h
  <2> QED
    BY <1>1, <1>4, RunExists
<1> HIDE DEF h
<1>7. P(f)
  <2>0. \A i \in 0..n : i # 0 => i \in 1..n /\ i - 1 \in 0..n
    OBVIOUS
  <2>1. \A i \in 0..n : i # 0 => i \in 1..n /\ f[i - 1] \in D
    BY <2>0
  <2>2. \A i \in 0..n : f[i] = IF i = 0 THEN st ELSE Turn(i, f[i - 1])
    BY <1>5, <1>6, <2>1 DEF IsRun
  <2> QED
    BY <2>2
<1>8. PICK c : P(c) /\ ConnectRow(st, v1, to) = c[n]
  <2> HIDE DEF P
  <2> QED
    BY <1>3, <1>7
<1>9. c[0] = st /\ \A i \in 1..n : c[i] = Turn(i, c[i - 1])
  BY <1>8
<1> HIDE DEF P
<1>10. \A i \in 0..n : c[i] \in D
  BY <1>1, <1>2, <1>9, StaysIn
<1>11. IsRowRun(c, st, v1, to, n)
  BY <1>8, <1>9 DEF IsRowRun, Turn
<1> QED
  BY <1>10, <1>11 DEF D

\* The inner loop connects one vertex to all of the second label, or throws.
LEMMA ConnectRowFacts ==
    ASSUME NEW g, WellFormed(g), NEW F \in SUBSET VerticesOf(g), NEW to \in Seq(Vertices),
           Elements(to) \subseteq VerticesOf(g),
           NEW st, ConnectInv(g, F, Elements(to), st), NEW v1 \in F
    PROVE  /\ ConnectInv(g, F, Elements(to), ConnectRow(st, v1, to))
           /\ Extends(st, ConnectRow(st, v1, to))
           /\ ~ConnectRow(st, v1, to).thrown =>
                Elements(to) \subseteq Targets(ConnectRow(st, v1, to).g, v1)
<1>1. PICK n \in Nat : n = Len(to) /\ DOMAIN to = 1..n
  OBVIOUS
<1>2. PICK c : IsRowRun(c, st, v1, to, n) /\ \A i \in 0..n : ConnectInv(g, F, Elements(to), c[i])
  BY <1>1, RowRun
<1> DEFINE Inv(i) == /\ Extends(st, c[i])
                     /\ ~c[i].thrown => \A j \in 1..i : to[j] \in Targets(c[i].g, v1)
           G == {i \in 0..n : Inv(i)}
<1>3. 0 \in G
  <2>1. c[0] = st /\ 1..0 = {}
    BY <1>2 DEF IsRowRun
  <2> QED
    BY <2>1 DEF Extends
<1>4. ASSUME NEW i \in 0..n, i < n, i \in G PROVE i + 1 \in G
  <2>1. i + 1 \in 1..n /\ (i + 1) - 1 = i /\ i + 1 \in 0..n
    BY <1>4
  <2>2. c[i + 1] = ConnectOne(c[i], v1, to[i + 1]) /\ ConnectInv(g, F, Elements(to), c[i])
    BY <1>2, <2>1 DEF IsRowRun
  <2>3. to[i + 1] \in Elements(to) /\ Elements(to) \in SUBSET VerticesOf(g)
    BY <1>1, <2>1 DEF Elements
  <2>4. Extends(c[i], c[i + 1]) /\ (~c[i + 1].thrown => to[i + 1] \in Targets(c[i + 1].g, v1))
    <3> DEFINE s == c[i]
               w == to[i + 1]
    <3> HIDE DEF s, w
    <3>1. /\ Extends(s, ConnectOne(s, v1, w))
          /\ ~ConnectOne(s, v1, w).thrown => w \in Targets(ConnectOne(s, v1, w).g, v1)
      <4>1. ConnectInv(g, F, Elements(to), s) /\ w \in Elements(to)
        BY <2>2, <2>3 DEF s, w
      <4> QED
        BY <2>3, <4>1, ConnectOneFacts
    <3> QED
      BY <2>2, <3>1 DEF s, w
  <2>5. Extends(st, c[i]) /\ (~c[i].thrown => \A j \in 1..i : to[j] \in Targets(c[i].g, v1))
    BY <1>4
  <2>6. v1 \in Vertices
    BY Fields
  <2>7. Extends(st, c[i + 1])
    BY <2>4, <2>5 DEF Extends
  <2>8. ASSUME ~c[i + 1].thrown, NEW j \in 1..(i + 1) PROVE to[j] \in Targets(c[i + 1].g, v1)
    <3>1. CASE j = i + 1
      BY <2>4, <2>8, <3>1
    <3>2. CASE j \in 1..i
      BY <2>4, <2>5, <2>6, <2>8, <3>2 DEF Extends
    <3> QED
      BY <2>1, <3>1, <3>2
  <2> QED
    BY <2>1, <2>7, <2>8
<1>5. n \in G
  <2> HIDE DEF G
  <2>1. 0..n \subseteq G
    BY <1>3, <1>4, InductionUpTo
  <2> QED
    BY <2>1
<1> QED
  BY <1>1, <1>2, <1>5 DEF IsRowRun, Elements

IsAllRun(c, g, from, to, n) ==
    /\ ConnectedAll(g, from, to) = c[n]
    /\ c[0] = [g |-> g, thrown |-> FALSE]
    /\ \A i \in 1..n : c[i] = ConnectRow(c[i - 1], from[i], to)

\* The invariant of the two loops holds before their first turn.
LEMMA ConnectStart ==
    ASSUME NEW g, WellFormed(g), Acyclic(g), NEW F, NEW T
    PROVE  ConnectInv(g, F, T, [g |-> g, thrown |-> FALSE])
<1> DEFINE x == [g |-> g, thrown |-> FALSE]
<1>1. x.g = g /\ x.thrown = FALSE /\ g \in GraphTypes
  BY Fields
<1>2. x \in ConnectStates
  BY <1>1 DEF ConnectStates
<1> HIDE DEF x
<1> QED
  <2>1. ConnectInv(g, F, T, x)
    BY <1>1, <1>2 DEF ConnectInv
  <2> QED
    BY <2>1 DEF x

\* The turns of the outer loop.
LEMMA AllRun ==
    ASSUME NEW g, WellFormed(g), Acyclic(g),
           NEW from \in Seq(Vertices), Elements(from) \subseteq VerticesOf(g),
           NEW to \in Seq(Vertices), Elements(to) \subseteq VerticesOf(g),
           NEW n \in Nat, n = Len(from)
    PROVE  \E c : IsAllRun(c, g, from, to, n)
                  /\ \A i \in 0..n : ConnectInv(g, Elements(from), Elements(to), c[i])
<1> DEFINE D == {r \in ConnectStates : ConnectInv(g, Elements(from), Elements(to), r)}
           x == [g |-> g, thrown |-> FALSE]
           Turn(i, d) == ConnectRow(d, from[i], to)
           P(f) == f = [i \in 0..n |-> IF i = 0 THEN x ELSE Turn(i, f[i - 1])]
           h == [i \in 1..n |-> [d \in D |-> Turn(i, d)]]
<1>1. x \in D
  BY ConnectStart DEF ConnectInv
<1>2. \A i \in 1..n, d \in D : Turn(i, d) \in D
  <2>1. \A i \in 1..n : from[i] \in Elements(from)
    BY DEF Elements
  <2>2. Elements(from) \in SUBSET VerticesOf(g)
    OBVIOUS
  <2>3. ASSUME NEW i \in 1..n, NEW d \in D
        PROVE  ConnectInv(g, Elements(from), Elements(to), Turn(i, d))
    BY <2>1, <2>2, ConnectRowFacts
  <2> QED
    BY <2>3 DEF ConnectInv
<1>3. ConnectedAll(g, from, to) = (CHOOSE c : P(c))[n]
  BY DEF ConnectedAll, ConnectRow, ConnectOne, FoldSeq
<1> HIDE DEF D, x, Turn
<1>4. h \in [1..n -> [D -> D]]
  BY <1>2
<1>5. \A i \in 1..n, d \in D : h[i][d] = Turn(i, d)
  OBVIOUS
<1>6. PICK f \in [0..n -> D] : IsRun(f, n, x, h)
  <2> HIDE DEF h
  <2> QED
    BY <1>1, <1>4, RunExists
<1> HIDE DEF h
<1>7. P(f)
  <2>0. \A i \in 0..n : i # 0 => i \in 1..n /\ i - 1 \in 0..n
    OBVIOUS
  <2>1. \A i \in 0..n : i # 0 => i \in 1..n /\ f[i - 1] \in D
    BY <2>0
  <2>2. \A i \in 0..n : f[i] = IF i = 0 THEN x ELSE Turn(i, f[i - 1])
    BY <1>5, <1>6, <2>1 DEF IsRun
  <2> QED
    BY <2>2
<1>8. PICK c : P(c) /\ ConnectedAll(g, from, to) = c[n]
  <2> HIDE DEF P
  <2> QED
    BY <1>3, <1>7
<1>9. c[0] = x /\ \A i \in 1..n : c[i] = Turn(i, c[i - 1])
  <2>1. c = [i \in 0..n |-> IF i = 0 THEN x ELSE Turn(i, c[i - 1])]
    BY <1>8
  <2>2. 0 \in 0..n /\ \A i \in 1..n : i \in 0..n /\ i # 0
    OBVIOUS
  <2> QED
    BY <2>1, <2>2
<1> HIDE DEF P
<1>10. \A i \in 0..n : c[i] \in D
  <2>1. c[0] \in D /\ \A i \in 1..n : c[i - 1] \in D => c[i] \in D
    BY <1>1, <1>2, <1>9
  <2> QED
    BY <2>1, StaysIn
<1>11. IsAllRun(c, g, from, to, n)
  BY <1>8, <1>9 DEF IsAllRun, Turn, x
<1> QED
  BY <1>10, <1>11 DEF D

\* connect_all_by_label keeps the invariant, and connects all pairs unless it
\* throws.
LEMMA ConnectedAllFacts ==
    ASSUME NEW g, WellFormed(g), Acyclic(g),
           NEW from \in Seq(Vertices), Elements(from) \subseteq VerticesOf(g),
           NEW to \in Seq(Vertices), Elements(to) \subseteq VerticesOf(g)
    PROVE  /\ ConnectInv(g, Elements(from), Elements(to), ConnectedAll(g, from, to))
           /\ ~ConnectedAll(g, from, to).thrown =>
                \A v1 \in Elements(from) : Elements(to) \subseteq Targets(ConnectedAll(g, from, to).g, v1)
<1> DEFINE F == Elements(from)
           T == Elements(to)
<1>1. PICK n \in Nat : n = Len(from) /\ DOMAIN from = 1..n
  OBVIOUS
<1>2. PICK c : IsAllRun(c, g, from, to, n) /\ \A i \in 0..n : ConnectInv(g, F, T, c[i])
  BY <1>1, AllRun
<1>3. F \in SUBSET VerticesOf(g) /\ T \subseteq VerticesOf(g) /\ VerticesOf(g) \subseteq Vertices
  BY Fields
<1> DEFINE Inv(i) == ~c[i].thrown => \A j \in 1..i : T \subseteq Targets(c[i].g, from[j])
           G == {i \in 0..n : Inv(i)}
<1>4. 0 \in G
  OBVIOUS
<1>5. ASSUME NEW i \in 0..n, i < n, i \in G PROVE i + 1 \in G
  <2> DEFINE s == c[i]
             r == c[i + 1]
             v1 == from[i + 1]
  <2>1. i + 1 \in 1..n /\ (i + 1) - 1 = i /\ i + 1 \in 0..n
    BY <1>5
  <2>2. r = ConnectRow(s, v1, to) /\ ConnectInv(g, F, T, s)
    BY <1>2, <2>1 DEF IsAllRun
  <2>3. v1 \in F /\ \A j \in 1..i : from[j] \in F /\ from[j] \in Vertices
    BY <1>1, <1>3, <2>1 DEF Elements
  <2>4. ~s.thrown => \A j \in 1..i : T \subseteq Targets(s.g, from[j])
    BY <1>5
  <2> HIDE DEF s, r, v1, F
  <2>5. Extends(s, r) /\ (~r.thrown => T \subseteq Targets(r.g, v1))
    BY <1>3, <2>2, <2>3, ConnectRowFacts
  <2>6. ASSUME ~r.thrown, NEW j \in 1..(i + 1) PROVE T \subseteq Targets(r.g, from[j])
    <3>1. CASE j = i + 1
      BY <2>5, <2>6, <3>1 DEF v1
    <3>2. CASE j \in 1..i
      BY <2>3, <2>4, <2>5, <2>6, <3>2 DEF Extends
    <3> QED
      BY <2>1, <3>1, <3>2
  <2> QED
    BY <2>1, <2>6 DEF r
<1>6. n \in G
  <2> HIDE DEF G
  <2>1. 0..n \subseteq G
    BY <1>4, <1>5, InductionUpTo
  <2> QED
    BY <2>1
<1>7. ConnectedAll(g, from, to) = c[n] /\ n \in 0..n
  BY <1>2 DEF IsAllRun
<1>8. \A v1 \in F : \E j \in 1..n : v1 = from[j]
  BY <1>1 DEF Elements
<1> QED
  BY <1>2, <1>6, <1>7, <1>8

-----------------------------------------------------------------------------
(* The invariant.                                                          *)

\* Whatever the calls were: the graph is well-formed and has no cycle.
DagInv ==
    /\ WellFormed(dag)
    /\ Acyclic(dag)
    /\ json_config_ \in BOOLEAN
    /\ fate \in {"alive", "segfault", "terminated"}

\* A graph without vertices has no cycle.
LEMMA EmptyAcyclic == Acyclic(EmptyGraph)
<1>1. VerticesOf(EmptyGraph) = {}
  BY DEF VerticesOf, Elements, EmptyGraph
<1>2. [v \in Vertices |-> 0] \in [Vertices -> Nat]
  OBVIOUS
<1> QED
  BY <1>1, <1>2 DEF Acyclic

\* add_vertex makes no cycle.
LEMMA AddedAcyclic ==
    ASSUME NEW g, WellFormed(g), Acyclic(g), NEW v \in Vertices
    PROVE  Acyclic(Added(g, v))
<1> DEFINE h == Added(g, v)
<1>1. PICK rank \in [Vertices -> Nat] :
        \A u \in VerticesOf(g) : \A w \in Targets(g, u) : rank[u] < rank[w]
  BY DEF Acyclic
<1>2. /\ VerticesOf(h) = VerticesOf(g) \cup {v} /\ \A u \in Vertices : Targets(h, u) = Targets(g, u)
  BY AddedFacts
<1> HIDE DEF h
<1>3. \A u \in Vertices : u \notin VerticesOf(g) => Targets(g, u) = {}
  BY DEF WellFormed, Targets, Elements
<1>4. VerticesOf(g) \subseteq Vertices
  BY Fields
<1>5. \A u \in VerticesOf(h) : \A w \in Targets(h, u) : rank[u] < rank[w]
  BY <1>1, <1>2, <1>3, <1>4
<1> QED
  BY <1>5 DEF Acyclic, h

\* A removal makes no cycle.
LEMMA RemoveAcyclic ==
    ASSUME NEW g, WellFormed(g), Acyclic(g), NEW S \in SUBSET VerticesOf(g)
    PROVE  WellFormed(RemoveVertices(g, S)) /\ Acyclic(RemoveVertices(g, S))
<1> DEFINE h == RemoveVertices(g, S)
<1>1. /\ WellFormed(h) /\ VerticesOf(h) = VerticesOf(g) \ S
      /\ \A u \in Vertices : Targets(h, u) \subseteq Targets(g, u)
  BY RemoveFacts
<1>2. VerticesOf(g) \subseteq Vertices
  BY Fields
<1> HIDE DEF h
<1>3. Acyclic(h)
  BY <1>1, <1>2, FewerEdges
<1> QED
  BY <1>1, <1>3 DEF h

\* What the sort in place leaves of the graph.
LEMMA SortedFacts ==
    ASSUME NEW g, WellFormed(g), Acyclic(g)
    PROVE  WellFormed(dag_topological_sort(g).after) /\ Acyclic(dag_topological_sort(g).after)
<1> DEFINE h == SortLoop(g).g
<1>1. dag_topological_sort(g).after = h
  BY DEF dag_topological_sort
<1>2. SortInv(g, SortLoop(g))
  BY SortLoopFacts
<1>3. WellFormed(h) /\ VerticesOf(h) = VerticesOf(g)
  BY <1>2 DEF SortInv, VerticesOf
<1>4. \A u \in Vertices : Targets(h, u) \subseteq Targets(g, u)
  BY <1>2 DEF SortInv, Targets
<1>5. VerticesOf(g) \subseteq Vertices
  BY Fields
<1> HIDE DEF h
<1>6. Acyclic(h)
  BY <1>3, <1>4, <1>5, FewerEdges
<1> QED
  BY <1>1, <1>3, <1>6

\* The vertices with a label are vertices of the graph.
LEMMA WithLabelFacts ==
    ASSUME WellFormed(dag), NEW l
    PROVE  WithLabel(l) \in Seq(Vertices) /\ Elements(WithLabel(l)) \subseteq VerticesOf(dag)
<1> DEFINE S == {v \in Vertices : LabelOf[v] = l}
<1>1. WithLabel(l) = Keep(dag.graph_, S)
  BY DEF WithLabel
<1> HIDE DEF S
<1>2. dag.graph_ \in Seq(Vertices)
  BY Fields
<1> QED
  BY <1>1, <1>2, KeepFacts DEF VerticesOf

\* A crash leaves the graph as it is.
LEMMA CrashStep ==
    ASSUME DagInv, Crash
    PROVE  DagInv'
<1>1. dag' = dag /\ json_config_' = json_config_ /\ fate' = "segfault"
  BY DEF Crash
<1> QED
  BY <1>1 DEF DagInv

\* A call that leaves a well-formed graph without cycles.
LEMMA BecomeStep ==
    ASSUME DagInv, NEW g, WellFormed(g), Acyclic(g), Become(g)
    PROVE  DagInv'
<1>1. dag' = g /\ json_config_' = json_config_ /\ fate' = fate
  BY DEF Become
<1> QED
  BY <1>1 DEF DagInv

\* connect, when the vertices are found.
LEMMA ConnectStep ==
    ASSUME DagInv, NEW v1 \in Vertices, NEW v2 \in Vertices, connect(v1, v2)
    PROVE  DagInv'
<1>1. CASE ~Cloneable
  BY <1>1, CrashStep DEF connect
<1>2. CASE Cloneable
  <2>1. v1 \in VerticesOf(dag) /\ v2 \in VerticesOf(dag) /\ WellFormed(dag) /\ Acyclic(dag)
    BY DEF connect, Contains, DagInv
  <2>2. WellFormed(Connected(dag, v1, v2).g) /\ Acyclic(Connected(dag, v1, v2).g)
    BY <2>1, ConnectedFacts
  <2>3. Become(Connected(dag, v1, v2).g)
    BY <1>2 DEF connect
  <2> QED
    BY <2>2, <2>3, BecomeStep
<1> QED
  BY <1>1, <1>2

\* The invariant holds for a new DAG,
LEMMA InvInit == Init => DagInv
  BY EmptyWellFormed, EmptyAcyclic DEF Init, DagInv

\* and every call of a member function keeps it.
LEMMA InvNext == DagInv /\ [Next]_vars => DagInv'
<1> SUFFICES ASSUME DagInv, [Next]_vars PROVE DagInv'
  OBVIOUS
<1>0. WellFormed(dag) /\ Acyclic(dag)
  BY DEF DagInv
<1>1. CASE UNCHANGED vars
  BY <1>1 DEF vars, DagInv
<1>2. ASSUME NEW v \in Vertices, add_vertex(v) PROVE DagInv'
  BY <1>0, <1>2, AddedFacts, AddedAcyclic, BecomeStep DEF add_vertex
<1>3. ASSUME NEW v \in Vertices, are_connected_by_uuid(v) PROVE DagInv'
  BY <1>3, CrashStep DEF are_connected_by_uuid
<1>4. ASSUME NEW v \in Vertices, override_initial_input_for_vertex_task(v) PROVE DagInv'
  BY <1>4, CrashStep DEF override_initial_input_for_vertex_task
<1>5. ASSUME NEW v \in Vertices, v \in VerticesOf(dag), Become(RemoveVertices(dag, {v})) PROVE DagInv'
  <2>1. {v} \in SUBSET VerticesOf(dag)
    BY <1>5
  <2> QED
    BY <1>0, <1>5, <2>1, RemoveAcyclic, BecomeStep
<1>6. ASSUME NEW v1 \in Vertices, NEW v2 \in Vertices, connect_by_uuid(v1, v2) PROVE DagInv'
  BY <1>6, ConnectStep, CrashStep DEF connect_by_uuid
<1>7. ASSUME NEW v1 \in Vertices, NEW v2 \in Vertices, add_and_connect(v1, v2) PROVE DagInv'
  <2> DEFINE h1 == Added(dag, v1)
             h2 == Added(h1, v2)
             r == Connected(h2, v1, v2).g
  <2>1. CASE ~Cloneable
    BY <1>7, <2>1, CrashStep DEF add_and_connect
  <2>2. CASE Cloneable
    <3>1. Become(r)
      BY <1>7, <2>2 DEF add_and_connect
    <3>2. WellFormed(h1) /\ Acyclic(h1) /\ v1 \in VerticesOf(h1)
      BY <1>0, AddedFacts, AddedAcyclic
    <3> HIDE DEF h1
    <3>3. WellFormed(h2) /\ Acyclic(h2) /\ v1 \in VerticesOf(h2) /\ v2 \in VerticesOf(h2)
      BY <3>2, AddedFacts, AddedAcyclic
    <3> HIDE DEF h2
    <3>4. WellFormed(r) /\ Acyclic(r)
      BY <3>3, ConnectedFacts
    <3> HIDE DEF r
    <3> QED
      BY <3>1, <3>4, BecomeStep
  <2> QED
    BY <2>1, <2>2
<1>8. ASSUME NEW v1 \in Vertices, NEW v2 \in Vertices, CyclicQuery(v1, v2) PROVE DagInv'
  BY <1>8, CrashStep DEF CyclicQuery
<1>9. ASSUME NEW l1 \in Labels, NEW l2 \in Labels, connect_all_by_label(l1, l2) PROVE DagInv'
  <2>1. CASE ~Cloneable
    BY <1>9, <2>1, CrashStep DEF connect_all_by_label
  <2>2. CASE Cloneable
    <3> DEFINE r == ConnectedAll(dag, WithLabel(l1), WithLabel(l2))
    <3>1. Become(r.g)
      BY <1>9, <2>2 DEF connect_all_by_label
    <3>2. ConnectInv(dag, Elements(WithLabel(l1)), Elements(WithLabel(l2)), r)
      BY <1>0, WithLabelFacts, ConnectedAllFacts
    <3> HIDE DEF r
    <3>3. WellFormed(r.g) /\ Acyclic(r.g)
      BY <3>2 DEF ConnectInv
    <3> QED
      BY <3>1, <3>3, BecomeStep
  <2> QED
    BY <2>1, <2>2
<1>10. ASSUME NEW l \in Labels, remove_all_vertex_with_label(l) PROVE DagInv'
  <2>1. Become(RemoveVertices(dag, Elements(WithLabel(l))))
    BY <1>10 DEF remove_all_vertex_with_label
  <2>2. Elements(WithLabel(l)) \in SUBSET VerticesOf(dag)
    BY <1>0, WithLabelFacts
  <2> QED
    BY <1>0, <2>1, <2>2, RemoveAcyclic, BecomeStep
<1>11. CASE reset
  BY <1>11, EmptyWellFormed, EmptyAcyclic, BecomeStep DEF reset
<1>12. CASE SortInPlace
  <2>1. /\ dag' = dag_topological_sort(dag).after /\ json_config_' = json_config_
        /\ fate' \in {"terminated", fate}
    BY <1>12 DEF SortInPlace
  <2>2. WellFormed(dag') /\ Acyclic(dag')
    BY <1>0, <2>1, SortedFacts
  <2> QED
    BY <2>1, <2>2 DEF DagInv
<1>13. CASE ProcessDag
  BY <1>13, CrashStep DEF ProcessDag
<1>14. CASE MoveAway \/ MoveInto
  <2>1. dag' = EmptyGraph /\ json_config_' \in BOOLEAN /\ fate' = fate
    BY <1>14 DEF MoveAway, MoveInto
  <2> QED
    BY <2>1, EmptyWellFormed, EmptyAcyclic DEF DagInv
<1>15. CASE json_config
  BY <1>15, CrashStep DEF json_config
<1>16. CASE CompareWithEmpty
  BY <1>16, CrashStep DEF CompareWithEmpty
<1>17. ASSUME NEW v \in Vertices, remove_vertex_by_uuid(v) PROVE DagInv'
  BY <1>5, <1>17 DEF remove_vertex_by_uuid, Contains
<1>18. ASSUME NEW v \in Vertices, NEW isCopy \in BOOLEAN, remove_vertex(v, isCopy) PROVE DagInv'
  BY <1>5, <1>18 DEF remove_vertex, Contains
<1> QED
  BY <1>1, <1>2, <1>3, <1>4, <1>6, <1>7, <1>8, <1>9, <1>10, <1>11, <1>12, <1>13,
     <1>14, <1>15, <1>16, <1>17, <1>18 DEF Next

\* Whatever sequence of additions, connections, removals, sorts and moves a
\* client makes, the graph is well-formed (vertices and edges once, edges only
\* between vertices of the graph, exact counters) and its vertices can be
\* numbered along the edges.
THEOREM DagInvariant == Spec => []DagInv
<1> QED
  BY InvInit, InvNext, PTL DEF Spec

\* A well-formed graph has exact counters.
LEMMA InvCountersExact == DagInv => CountersExact
<1> SUFFICES ASSUME DagInv PROVE CountersExact
  OBVIOUS
<1>1. WellFormed(dag)
  BY DEF DagInv
<1>2. TypeOK
  BY <1>1, Fields DEF TypeOK, DagInv
<1>3. VerticesOf(dag) \subseteq Vertices
  BY <1>1, Fields
<1>4. \A v \in VerticesOf(dag) : dag.incomming[v] = Cardinality(Sources(dag, v))
  BY <1>1, <1>3 DEF WellFormed
<1>5. \A i, j \in DOMAIN dag.graph_ : dag.graph_[i] = dag.graph_[j] => i = j
  BY <1>1 DEF WellFormed, Injective
<1>6. \A v \in VerticesOf(dag) : ConnectedOnce(dag.edges_[v])
  BY <1>1, <1>3 DEF WellFormed
<1> QED
  BY <1>2, <1>4, <1>5, <1>6 DEF CountersExact, ConnectedOnce

\* incomming_edge_count_ of every vertex is the number of edges that point to
\* it after any sequence of calls: add_incomming_edge and sub_incomming_edge
\* are called once for every edge that comes and goes, for graphs of any size.
THEOREM CountersStayExact == Spec => []CountersExact
  BY DagInvariant, InvCountersExact, PTL

\* No sequence of calls makes a cycle: connect refuses the edge that would
\* close one, connect_all_by_label does so in the middle of its loops, and
\* the other calls only take edges away.
THEOREM GraphStaysAcyclic == Spec => []StaysAcyclic
<1>1. DagInv => StaysAcyclic
  BY AcyclicHasNoCycle DEF DagInv, StaysAcyclic
<1> QED
  BY <1>1, DagInvariant, PTL

\* connection_would_make_cyclic, which sorts a clone that has the edge, refuses
\* exactly the edges v1 -> v2 for which v1 can be reached from v2, or is v2.
THEOREM CycleCheckIsExact == Spec => []CycleCheckExact
<1>1. DagInv => CycleCheckExact
  <2> SUFFICES ASSUME DagInv, NEW v1 \in VerticesOf(dag), NEW v2 \in VerticesOf(dag)
               PROVE  connection_would_make_cyclic(dag, v1, v2) <=>
                          HasCycle(dag) \/ v1 = v2 \/ v1 \in Reachable(dag, {v2})
    BY DEF CycleCheckExact
  <2>1. WellFormed(dag) /\ Acyclic(dag)
    BY DEF DagInv
  <2>2. ~HasCycle(dag)
    BY <2>1, AcyclicHasNoCycle
  <2> QED
    BY <2>1, <2>2, CheckExact
<1> QED
  BY <1>1, DagInvariant, PTL

\* The check by label, in terms of paths, and what connect_all_by_label does.
LEMMA LabelCheckFacts ==
    ASSUME WellFormed(dag), Acyclic(dag), NEW l1, NEW l2
    PROVE  /\ connection_would_make_cyclic_by_label(l1, l2) <=>
                ~ConnectedAll(dag, WithLabel(l1), WithLabel(l2)).thrown
           /\ ~ConnectedAll(dag, WithLabel(l1), WithLabel(l2)).thrown =>
                \A v1 \in Elements(WithLabel(l1)) : Elements(WithLabel(l2)) \subseteq
                    Targets(ConnectedAll(dag, WithLabel(l1), WithLabel(l2)).g, v1)
<1> DEFINE from == WithLabel(l1)
           to == WithLabel(l2)
           F == Elements(from)
           T == Elements(to)
           done == ConnectedAll(dag, from, to)
<1>1. from \in Seq(Vertices) /\ F \subseteq VerticesOf(dag)
  BY WithLabelFacts
<1>2. to \in Seq(Vertices) /\ T \subseteq VerticesOf(dag)
  BY WithLabelFacts
<1>3. connection_would_make_cyclic_by_label(l1, l2) <=> NoWayBack(dag, F, T)
  <2>1. connection_would_make_cyclic_by_label(l1, l2) <=>
            \A v1 \in F, v2 \in T : ~connection_would_make_cyclic(dag, v1, v2)
    BY DEF connection_would_make_cyclic_by_label
  <2>2. \A v1 \in F, v2 \in T : connection_would_make_cyclic(dag, v1, v2) <=>
            v1 = v2 \/ v1 \in Reachable(dag, {v2})
    BY <1>1, <1>2, CheckExact
  <2> HIDE DEF F, T
  <2> QED
    BY <2>1, <2>2 DEF NoWayBack
<1> HIDE DEF from, to
<1>4. /\ ConnectInv(dag, F, T, done)
      /\ ~done.thrown => \A v1 \in F : T \subseteq Targets(done.g, v1)
  BY <1>1, <1>2, ConnectedAllFacts
<1> HIDE DEF done, F, T
<1>5. NoWayBack(dag, F, T) => ~done.thrown
  BY <1>4 DEF ConnectInv
<1>6. ASSUME ~done.thrown, NEW v1 \in F, NEW v2 \in T
      PROVE  ~(v1 = v2 \/ v1 \in Reachable(dag, {v2}))
  <2> SUFFICES ASSUME v1 = v2 \/ v1 \in Reachable(dag, {v2}) PROVE FALSE
    OBVIOUS
  <2>1. VerticesOf(dag) \subseteq Vertices
    BY Fields
  <2>2. /\ WellFormed(done.g) /\ Acyclic(done.g) /\ done.g.graph_ = dag.graph_
        /\ \A u \in Vertices : Targets(dag, u) \subseteq Targets(done.g, u)
    BY <1>4 DEF ConnectInv
  <2>3. VerticesOf(done.g) = VerticesOf(dag)
    BY <2>2 DEF VerticesOf
  <2>4. Reachable(dag, {v2}) \subseteq Reachable(done.g, {v2})
    BY <2>1, <2>2, <2>3, ReachesMore
  <2>5. v1 \in VerticesOf(done.g) /\ v2 \in VerticesOf(done.g) /\ v2 \in Targets(done.g, v1)
    BY <1>1, <1>2, <1>4, <1>6, <2>3
  <2>6. v1 = v2 \/ v1 \in Reachable(done.g, {v2})
    BY <2>4
  <2>7. HasCycle(done.g)
    BY <2>2, <2>5, <2>6, BackEdgeHasCycle
  <2> QED
    BY <2>2, <2>7, AcyclicHasNoCycle
<1>7. ~done.thrown => NoWayBack(dag, F, T)
  BY <1>6 DEF NoWayBack
<1> QED
  BY <1>3, <1>4, <1>5, <1>7 DEF done, F, T, from, to

\* connection_would_make_cyclic_by_label, whose answer is the wrong way round
\* (dag.cxx:217), tells exactly whether connect_all_by_label will throw, though
\* it looks at every pair alone and the loops connect as they go.
THEOREM LabelCheckIsInverted == Spec => []LabelCheckInverted
<1>1. DagInv => LabelCheckInverted
  <2> SUFFICES ASSUME DagInv,
                      NEW l1 \in {LabelOf[v] : v \in VerticesOf(dag)},
                      NEW l2 \in {LabelOf[v] : v \in VerticesOf(dag)}
               PROVE  LET from == WithLabel(l1)
                          to == WithLabel(l2)
                          done == ConnectedAll(dag, from, to)
                      IN  /\ connection_would_make_cyclic_by_label(l1, l2) <=> ~done.thrown
                          /\ ~done.thrown => all_are_connected_by_label(done.g, from, to)
    BY DEF LabelCheckInverted
  <2>1. WellFormed(dag) /\ Acyclic(dag)
    BY DEF DagInv
  <2>2. ASSUME NEW l \in {LabelOf[v] : v \in VerticesOf(dag)} PROVE WithLabel(l) # <<>>
    <3> DEFINE S == {v \in Vertices : LabelOf[v] = l}
    <3>1. PICK v \in VerticesOf(dag) : LabelOf[v] = l
      BY <2>2
    <3>2. v \in S /\ v \in Elements(dag.graph_) /\ dag.graph_ \in Seq(Vertices)
      BY <2>1, <3>1, Fields DEF VerticesOf
    <3>3. WithLabel(l) = Keep(dag.graph_, S)
      BY DEF WithLabel
    <3> HIDE DEF S
    <3>4. v \in Elements(WithLabel(l))
      BY <3>2, <3>3, KeepFacts
    <3>5. Elements(<<>>) = {}
      BY DEF Elements
    <3> QED
      BY <3>4, <3>5
  <2>3. /\ connection_would_make_cyclic_by_label(l1, l2) <=>
                ~ConnectedAll(dag, WithLabel(l1), WithLabel(l2)).thrown
        /\ ~ConnectedAll(dag, WithLabel(l1), WithLabel(l2)).thrown =>
                \A v1 \in Elements(WithLabel(l1)) : Elements(WithLabel(l2)) \subseteq
                    Targets(ConnectedAll(dag, WithLabel(l1), WithLabel(l2)).g, v1)
    BY <2>1, LabelCheckFacts
  <2>4. WithLabel(l1) # <<>> /\ WithLabel(l2) # <<>>
    BY <2>2
  <2> QED
    BY <2>3, <2>4 DEF all_are_connected_by_label
<1> QED
  BY <1>1, DagInvariant, PTL

-----------------------------------------------------------------------------
(* The copy constructor.                                                   *)

\* The loop over the connections of one vertex.
CloneRow(h, v, e) == FoldSeq(LAMBDA k, w : VertexConnect(k, v, w), h, e)

\* The graphs with the vertices of g.
GraphsOn(g) == {k \in GraphTypes : WellFormed(k) /\ k.graph_ = g.graph_}

\* Sequences with the same entries are the same.
LEMMA SeqEqual ==
    ASSUME NEW T, NEW s \in Seq(T), NEW t \in Seq(T), Len(s) = Len(t),
           \A i \in 1..Len(s) : s[i] = t[i]
    PROVE  s = t
  OBVIOUS

\* DAGVertex::connect on a partly cloned graph appends a new edge.
LEMMA ConnectOn ==
    ASSUME NEW g, WellFormed(g), NEW v \in VerticesOf(g), NEW w \in VerticesOf(g),
           NEW k \in GraphsOn(g)
    PROVE  /\ VertexConnect(k, v, w) \in GraphsOn(g)
           /\ w \notin Targets(k, v) =>
                VertexConnect(k, v, w).edges_ = [k.edges_ EXCEPT ![v] = Append(@, w)]
<1>1. WellFormed(k) /\ k.graph_ = g.graph_ /\ VerticesOf(k) = VerticesOf(g)
  BY DEF GraphsOn, VerticesOf
<1>2. /\ WellFormed(VertexConnect(k, v, w)) /\ VertexConnect(k, v, w).graph_ = g.graph_
      /\ VertexConnect(k, v, w) \in GraphTypes
  BY <1>1, ConnectFacts, Fields
<1>3. ASSUME w \notin Targets(k, v)
      PROVE  VertexConnect(k, v, w).edges_ = [k.edges_ EXCEPT ![v] = Append(@, w)]
  <2>1. k = [graph_ |-> k.graph_, edges_ |-> k.edges_, incomming |-> k.incomming]
    BY <1>1, Fields
  <2>2. VertexConnect(k, v, w) = [k EXCEPT !.edges_[v] = Append(@, w),
                                           !.incomming[w] = (@ + 1) % SizeModulus]
    BY <1>3 DEF VertexConnect
  <2> DEFINE e == [k.edges_ EXCEPT ![v] = Append(@, w)]
             c == [k.incomming EXCEPT ![w] = (@ + 1) % SizeModulus]
  <2>3. VertexConnect(k, v, w) = [k EXCEPT !.edges_ = e, !.incomming = c]
    BY <2>2
  <2> HIDE DEF e, c
  <2>4. VertexConnect(k, v, w) = [graph_ |-> k.graph_, edges_ |-> e, incomming |-> c]
    BY <2>1, <2>3
  <2> QED
    BY <2>4 DEF e
<1> QED
  BY <1>2, <1>3 DEF GraphsOn

IsCloneRowRun(c, h, v, e, n) ==
    /\ CloneRow(h, v, e) = c[n]
    /\ c[0] = h
    /\ \A i \in 1..n : c[i] = VertexConnect(c[i - 1], v, e[i])

\* The turns of the loop over the connections of one vertex.
LEMMA CloneRowRun ==
    ASSUME NEW g, WellFormed(g), NEW v \in VerticesOf(g), NEW e, NEW n \in Nat, n = Len(e),
           \A i \in 1..n : e[i] \in VerticesOf(g), NEW h \in GraphsOn(g)
    PROVE  \E c : IsCloneRowRun(c, h, v, e, n) /\ \A i \in 0..n : c[i] \in GraphsOn(g)
<1> DEFINE D == GraphsOn(g)
           Turn(i, d) == VertexConnect(d, v, e[i])
           P(f) == f = [i \in 0..n |-> IF i = 0 THEN h ELSE Turn(i, f[i - 1])]
           hh == [i \in 1..n |-> [d \in D |-> Turn(i, d)]]
<1>2. \A i \in 1..n, d \in D : Turn(i, d) \in D
  BY ConnectOn
<1>3. CloneRow(h, v, e) = (CHOOSE c : P(c))[n]
  BY DEF CloneRow, FoldSeq
<1>1. h \in D
  OBVIOUS
<1> HIDE DEF D, Turn
<1>4. hh \in [1..n -> [D -> D]]
  BY <1>2
<1>5. \A i \in 1..n, d \in D : hh[i][d] = Turn(i, d)
  OBVIOUS
<1>6. PICK f \in [0..n -> D] : IsRun(f, n, h, hh)
  <2> HIDE DEF hh
  <2> QED
    BY <1>1, <1>4, RunExists
<1> HIDE DEF hh
<1>7. P(f)
  <2>0. \A i \in 0..n : i # 0 => i \in 1..n /\ i - 1 \in 0..n
    OBVIOUS
  <2>1. \A i \in 0..n : i # 0 => i \in 1..n /\ f[i - 1] \in D
    BY <2>0
  <2>2. \A i \in 0..n : f[i] = IF i = 0 THEN h ELSE Turn(i, f[i - 1])
    BY <1>5, <1>6, <2>1 DEF IsRun
  <2> QED
    BY <2>2
<1>8. PICK c : P(c) /\ CloneRow(h, v, e) = c[n]
  <2> HIDE DEF P
  <2> QED
    BY <1>3, <1>7
<1>9. c[0] = h /\ \A i \in 1..n : c[i] = Turn(i, c[i - 1])
  <2>1. c = [i \in 0..n |-> IF i = 0 THEN h ELSE Turn(i, c[i - 1])]
    BY <1>8
  <2>2. 0 \in 0..n /\ \A i \in 1..n : i \in 0..n /\ i # 0
    OBVIOUS
  <2> QED
    BY <2>1, <2>2
<1> HIDE DEF P
<1>10. \A i \in 0..n : c[i] \in D
  BY <1>1, <1>2, <1>9, StaysIn
<1>11. IsCloneRowRun(c, h, v, e, n)
  BY <1>8, <1>9 DEF IsCloneRowRun, Turn
<1> QED
  BY <1>10, <1>11 DEF D

\* The connections of a vertex are made again in their order, and no others.
LEMMA CloneRowFacts ==
    ASSUME NEW g, WellFormed(g), ~HasDanglingEdge(g), NEW v \in VerticesOf(g),
           NEW h \in GraphsOn(g)
    PROVE  /\ CloneRow(h, v, g.edges_[v]) \in GraphsOn(g)
           /\ \A u \in Vertices : u # v => CloneRow(h, v, g.edges_[v]).edges_[u] = h.edges_[u]
           /\ h.edges_[v] = <<>> => CloneRow(h, v, g.edges_[v]).edges_[v] = g.edges_[v]
<1> DEFINE e == g.edges_[v]
<1>1. v \in Vertices /\ e \in Seq(Vertices \cup {Expired}) /\ ConnectedOnce(e)
  <2>1. g.edges_ \in [Vertices -> Seq(Vertices \cup {Expired})] /\ v \in Vertices
    BY Fields
  <2>2. \A u \in Vertices : ConnectedOnce(g.edges_[u])
    BY DEF WellFormed
  <2> QED
    BY <2>1, <2>2
<1>2. Expired \notin Elements(e)
  BY DEF HasDanglingEdge
<1>3. Elements(e) \subseteq VerticesOf(g)
  <2>1. Targets(g, v) \subseteq VerticesOf(g)
    BY <1>1, Fields
  <2> QED
    BY <1>2, <2>1 DEF Targets
<1> HIDE DEF e
<1>4. PICK n \in Nat : n = Len(e) /\ DOMAIN e = 1..n
  BY <1>1
<1>5. \A i \in 1..n : e[i] \in VerticesOf(g) /\ e[i] # Expired
  BY <1>2, <1>3, <1>4 DEF Elements
<1>6. PICK c : IsCloneRowRun(c, h, v, e, n) /\ \A i \in 0..n : c[i] \in GraphsOn(g)
  BY <1>4, <1>5, CloneRowRun
<1>7. \A i \in 0..n : /\ c[i].edges_ \in [Vertices -> Seq(Vertices \cup {Expired})]
                      /\ c[i].edges_[v] \in Seq(Vertices \cup {Expired})
  BY <1>1, <1>6, Fields DEF GraphsOn
<1> DEFINE Inv(i) == /\ \A u \in Vertices : u # v => c[i].edges_[u] = h.edges_[u]
                     /\ h.edges_[v] = <<>> => /\ Len(c[i].edges_[v]) = i
                                              /\ \A j \in 1..i : c[i].edges_[v][j] = e[j]
           G == {i \in 0..n : Inv(i)}
<1>8. 0 \in G
  <2>1. c[0] = h
    BY <1>6 DEF IsCloneRowRun
  <2> QED
    BY <2>1
<1>9. ASSUME NEW i \in 0..n, i < n, i \in G PROVE i + 1 \in G
  <2> DEFINE k == c[i]
             w == e[i + 1]
  <2>1. i + 1 \in 1..n /\ (i + 1) - 1 = i /\ i + 1 \in 0..n
    BY <1>9
  <2>2. c[i + 1] = VertexConnect(k, v, w) /\ k \in GraphsOn(g) /\ w \in VerticesOf(g) /\ w # Expired
    BY <1>5, <1>6, <2>1 DEF IsCloneRowRun
  <2>3. Inv(i)
    BY <1>9
  <2>4. /\ k.edges_ \in [Vertices -> Seq(Vertices \cup {Expired})]
        /\ k.edges_[v] \in Seq(Vertices \cup {Expired})
    BY <1>7
  <2>5. CASE w \in Targets(k, v)
    <3>1. c[i + 1] = k
      BY <2>2, <2>5 DEF VertexConnect
    <3>2. h.edges_[v] # <<>>
      <4> SUFFICES ASSUME h.edges_[v] = <<>> PROVE FALSE
        OBVIOUS
      <4>1. PICK j \in DOMAIN k.edges_[v] : k.edges_[v][j] = w
        BY <2>5 DEF Targets, Elements
      <4>2. j \in 1..i /\ e[j] = e[i + 1] /\ j # i + 1 /\ j \in 1..n
        BY <2>1, <2>3, <2>4, <4>1
      <4> QED
        BY <1>1, <1>4, <2>1, <2>2, <4>2 DEF ConnectedOnce
    <3> QED
      BY <2>1, <2>3, <3>1, <3>2
  <2>6. CASE w \notin Targets(k, v)
    <3>1. c[i + 1].edges_ = [k.edges_ EXCEPT ![v] = Append(@, w)]
      <4> HIDE DEF k, w
      <4> QED
        BY <2>2, <2>6, ConnectOn
    <3>2. c[i + 1].edges_[v] = Append(k.edges_[v], w)
          /\ \A u \in Vertices : u # v => c[i + 1].edges_[u] = k.edges_[u]
      BY <1>1, <2>4, <3>1
    <3>3. ASSUME h.edges_[v] = <<>>
          PROVE  /\ Len(c[i + 1].edges_[v]) = i + 1
                 /\ \A j \in 1..(i + 1) : c[i + 1].edges_[v][j] = e[j]
      <4>1. Len(k.edges_[v]) = i /\ \A j \in 1..i : k.edges_[v][j] = e[j]
        BY <2>3, <3>3
      <4>2. w \in Vertices \cup {Expired}
        BY <2>2, Fields
      <4> DEFINE s == k.edges_[v]
      <4>3. s \in Seq(Vertices \cup {Expired}) /\ Len(s) = i
        BY <2>4, <4>1
      <4> HIDE DEF s
      <4>4. /\ Len(Append(s, w)) = i + 1 /\ \A j \in 1..i : Append(s, w)[j] = s[j]
            /\ Append(s, w)[i + 1] = w
        BY <4>2, <4>3
      <4> QED
        BY <2>1, <3>2, <4>1, <4>4 DEF s
    <3> QED
      BY <2>1, <2>3, <3>2, <3>3
  <2> QED
    BY <2>5, <2>6
<1>10. n \in G
  <2> HIDE DEF G
  <2>1. 0..n \subseteq G
    BY <1>8, <1>9, InductionUpTo
  <2> QED
    BY <2>1
<1>11. Inv(n) /\ n \in 0..n
  BY <1>10
<1>12. CloneRow(h, v, e) = c[n]
  BY <1>6 DEF IsCloneRowRun
<1>13. h.edges_[v] = <<>> => c[n].edges_[v] = e
  BY <1>1, <1>4, <1>7, <1>11, SeqEqual
<1> QED
  BY <1>6, <1>11, <1>12, <1>13 DEF e

IsCloneRun(c, g, n) ==
    /\ clone(g) = c[n]
    /\ c[0] = ClonedVertices(g)
    /\ \A i \in 1..n : c[i] = CloneRow(c[i - 1], g.graph_[i], g.edges_[g.graph_[i]])

\* The cloned vertices, before they are connected.
LEMMA ClonedVerticesOn ==
    ASSUME NEW g, WellFormed(g)
    PROVE  /\ ClonedVertices(g) \in GraphsOn(g)
           /\ \A v \in Vertices : ClonedVertices(g).edges_[v] = <<>>
<1> DEFINE x == ClonedVertices(g)
<1>1. /\ g.graph_ \in Seq(Vertices) /\ Injective(g.graph_)
  BY Fields DEF WellFormed
<1>2. x = [graph_ |-> g.graph_, edges_ |-> [v \in Vertices |-> <<>>],
           incomming |-> [v \in Vertices |-> 0]]
  BY DEF ClonedVertices, EmptyGraph
<1>3. /\ x.graph_ = g.graph_ /\ x.edges_ = [v \in Vertices |-> <<>>]
      /\ x.incomming = [v \in Vertices |-> 0]
  BY <1>2
<1>4. x \in GraphTypes
  <2>1. [v \in Vertices |-> 0] \in [Vertices -> 0..(SizeModulus - 1)]
    BY SizeModulusAssumption
  <2>2. [v \in Vertices |-> <<>>] \in [Vertices -> Seq(Vertices \cup {Expired})]
    OBVIOUS
  <2> QED
    BY <1>1, <1>2, <2>1, <2>2 DEF GraphTypes
<1> HIDE DEF x
<1>5. \A v \in Vertices : x.edges_[v] = <<>> /\ x.incomming[v] = 0
  BY <1>3
<1>6. \A v \in Vertices : Targets(x, v) = {} /\ ConnectedOnce(x.edges_[v])
  BY <1>5 DEF Targets, Elements, ConnectedOnce
<1>7. VerticesOf(x) \subseteq Vertices
  BY <1>4, GraphSets
<1>8. \A v \in Vertices : Sources(x, v) = {}
  BY <1>6, <1>7 DEF Sources
<1>9. WellFormed(x)
  BY <1>1, <1>3, <1>4, <1>5, <1>6, <1>8, FS_EmptySet DEF WellFormed
<1> QED
  BY <1>3, <1>4, <1>5, <1>9 DEF GraphsOn, x

\* The turns of the loop over the vertices.
LEMMA CloneRun ==
    ASSUME NEW g, WellFormed(g), ~HasDanglingEdge(g), NEW n \in Nat, n = Len(g.graph_)
    PROVE  \E c : IsCloneRun(c, g, n) /\ \A i \in 0..n : c[i] \in GraphsOn(g)
<1> DEFINE D == GraphsOn(g)
           x == ClonedVertices(g)
           Turn(i, d) == CloneRow(d, g.graph_[i], g.edges_[g.graph_[i]])
           P(f) == f = [i \in 0..n |-> IF i = 0 THEN x ELSE Turn(i, f[i - 1])]
           hh == [i \in 1..n |-> [d \in D |-> Turn(i, d)]]
<1>2. \A i \in 1..n, d \in D : Turn(i, d) \in D
  <2>1. g.graph_ \in Seq(Vertices)
    BY Fields
  <2>2. \A i \in 1..n : g.graph_[i] \in VerticesOf(g)
    BY <2>1 DEF VerticesOf, Elements
  <2> QED
    BY <2>2, CloneRowFacts
<1>3. clone(g) = (CHOOSE c : P(c))[n]
  BY DEF clone, CloneRow, FoldSeq
<1>1. x \in D
  BY ClonedVerticesOn
<1> HIDE DEF D, Turn, x
<1>4. hh \in [1..n -> [D -> D]]
  BY <1>2
<1>5. \A i \in 1..n, d \in D : hh[i][d] = Turn(i, d)
  OBVIOUS
<1>6. PICK f \in [0..n -> D] : IsRun(f, n, x, hh)
  <2> HIDE DEF hh
  <2> QED
    BY <1>1, <1>4, RunExists
<1> HIDE DEF hh
<1>7. P(f)
  <2>0. \A i \in 0..n : i # 0 => i \in 1..n /\ i - 1 \in 0..n
    OBVIOUS
  <2>1. \A i \in 0..n : i # 0 => i \in 1..n /\ f[i - 1] \in D
    BY <2>0
  <2>2. \A i \in 0..n : f[i] = IF i = 0 THEN x ELSE Turn(i, f[i - 1])
    BY <1>5, <1>6, <2>1 DEF IsRun
  <2> QED
    BY <2>2
<1>8. PICK c : P(c) /\ clone(g) = c[n]
  <2> HIDE DEF P
  <2> QED
    BY <1>3, <1>7
<1>9. c[0] = x /\ \A i \in 1..n : c[i] = Turn(i, c[i - 1])
  <2>1. c = [i \in 0..n |-> IF i = 0 THEN x ELSE Turn(i, c[i - 1])]
    BY <1>8
  <2>2. 0 \in 0..n /\ \A i \in 1..n : i \in 0..n /\ i # 0
    OBVIOUS
  <2> QED
    BY <2>1, <2>2
<1> HIDE DEF P
<1>10. \A i \in 0..n : c[i] \in D
  <2>1. c[0] \in D /\ \A i \in 1..n : c[i - 1] \in D => c[i] \in D
    BY <1>1, <1>2, <1>9
  <2> QED
    BY <2>1, StaysIn
<1>11. IsCloneRun(c, g, n)
  BY <1>8, <1>9 DEF IsCloneRun, Turn, x
<1> QED
  BY <1>10, <1>11 DEF D

\* The copy constructor makes an identical graph.
LEMMA CloneIsSame ==
    ASSUME NEW g, WellFormed(g), ~HasDanglingEdge(g)
    PROVE  clone(g) = g
<1>1. PICK n \in Nat : n = Len(g.graph_) /\ DOMAIN g.graph_ = 1..n
  BY Fields
<1>2. PICK c : IsCloneRun(c, g, n) /\ \A i \in 0..n : c[i] \in GraphsOn(g)
  BY <1>1, CloneRun
<1>3. /\ Injective(g.graph_) /\ VerticesOf(g) \subseteq Vertices
      /\ \A i \in 1..n : g.graph_[i] \in VerticesOf(g) /\ g.graph_[i] \in Vertices
  BY <1>1, Fields DEF WellFormed, VerticesOf, Elements
<1> DEFINE s == g.graph_
           Inv(i) == \A j \in 1..n : c[i].edges_[s[j]] = IF j <= i THEN g.edges_[s[j]] ELSE <<>>
           G == {i \in 0..n : Inv(i)}
<1>4. 0 \in G
  <2>1. c[0] = ClonedVertices(g)
    BY <1>2 DEF IsCloneRun
  <2>2. \A j \in 1..n : c[0].edges_[s[j]] = <<>> /\ ~(j <= 0)
    BY <1>3, <2>1, ClonedVerticesOn
  <2> QED
    BY <2>2
<1>5. ASSUME NEW i \in 0..n, i < n, i \in G PROVE i + 1 \in G
  <2> DEFINE k == c[i]
             r == c[i + 1]
             v == s[i + 1]
  <2>1. i + 1 \in 1..n /\ (i + 1) - 1 = i /\ i + 1 \in 0..n /\ ~(i + 1 <= i)
    BY <1>5
  <2>2. r = CloneRow(k, v, g.edges_[v]) /\ k \in GraphsOn(g) /\ v \in VerticesOf(g)
    BY <1>2, <1>3, <2>1 DEF IsCloneRun
  <2>3. Inv(i)
    BY <1>5
  <2>4. k.edges_[v] = <<>>
    BY <2>1, <2>3
  <2> HIDE DEF k, r, v
  <2>5. /\ \A u \in Vertices : u # v => r.edges_[u] = k.edges_[u]
        /\ r.edges_[v] = g.edges_[v]
    BY <2>2, <2>4, CloneRowFacts
  <2>6. ASSUME NEW j \in 1..n PROVE r.edges_[s[j]] = IF j <= i + 1 THEN g.edges_[s[j]] ELSE <<>>
    <3>1. CASE j = i + 1
      BY <2>1, <2>5, <3>1 DEF v
    <3>2. CASE j # i + 1
      <4>1. s[j] # v /\ s[j] \in Vertices
        BY <1>1, <1>3, <2>1, <3>2 DEF Injective, v
      <4>2. r.edges_[s[j]] = k.edges_[s[j]]
        BY <2>5, <4>1
      <4>3. k.edges_[s[j]] = IF j <= i THEN g.edges_[s[j]] ELSE <<>>
        BY <2>3 DEF k
      <4>4. j <= i <=> j <= i + 1
        BY <3>2
      <4> QED
        BY <4>2, <4>3, <4>4
    <3> QED
      BY <3>1, <3>2
  <2> QED
    BY <2>1, <2>6 DEF r
<1>6. n \in G
  <2> HIDE DEF G
  <2>1. 0..n \subseteq G
    BY <1>4, <1>5, InductionUpTo
  <2> QED
    BY <2>1
<1> DEFINE h == c[n]
<1>7. clone(g) = h /\ WellFormed(h) /\ h.graph_ = g.graph_ /\ VerticesOf(h) = VerticesOf(g)
  BY <1>2 DEF IsCloneRun, GraphsOn, VerticesOf
<1>8. \A j \in 1..n : h.edges_[s[j]] = g.edges_[s[j]]
  BY <1>6
<1> HIDE DEF h
<1>9. \A v \in Vertices : h.edges_[v] = g.edges_[v]
  <2>1. \A v \in Vertices : v \notin VerticesOf(g) => h.edges_[v] = <<>> /\ g.edges_[v] = <<>>
    BY <1>7 DEF WellFormed
  <2>2. \A v \in VerticesOf(g) : h.edges_[v] = g.edges_[v]
    BY <1>1, <1>8 DEF VerticesOf, Elements
  <2> QED
    BY <2>1, <2>2
<1>10. \A v \in Vertices : h.incomming[v] = g.incomming[v]
  <2>1. \A v \in Vertices : Sources(h, v) = Sources(g, v)
    BY <1>3, <1>7, <1>9 DEF Sources, Targets
  <2> QED
    BY <1>7, <2>1 DEF WellFormed
<1>11. h.edges_ = g.edges_ /\ h.incomming = g.incomming
  <2>1. /\ h.edges_ \in [Vertices -> Seq(Vertices \cup {Expired})]
        /\ g.edges_ \in [Vertices -> Seq(Vertices \cup {Expired})]
        /\ h.incomming \in [Vertices -> 0..(SizeModulus - 1)]
        /\ g.incomming \in [Vertices -> 0..(SizeModulus - 1)]
    BY <1>7, Fields
  <2> QED
    BY <1>9, <1>10, <2>1
<1>12. /\ h = [graph_ |-> h.graph_, edges_ |-> h.edges_, incomming |-> h.incomming]
       /\ g = [graph_ |-> g.graph_, edges_ |-> g.edges_, incomming |-> g.incomming]
  BY <1>7, Fields
<1> QED
  BY <1>7, <1>11, <1>12

\* clone() of a graph without dangling edges returns that graph, down to the
\* order of the edges and the counters, and operator== says so.
THEOREM CloneIsIdentical == Spec => []CloneIdentical
<1>1. DagInv => CloneIdentical
  <2> SUFFICES ASSUME DagInv, ~HasDanglingEdge(dag)
               PROVE  clone(dag) = dag /\ Clone(dag) = dag /\ Equal(dag, clone(dag))
    BY DEF CloneIdentical
  <2>1. clone(dag) = dag /\ Clone(dag) = dag
    BY CloneIsSame, CloneSame DEF DagInv
  <2>2. Equal(dag, dag)
    BY DEF Equal, SameVertex
  <2> QED
    BY <2>1, <2>2
<1> QED
  BY <1>1, DagInvariant, PTL

-----------------------------------------------------------------------------
(* process_dag: the graphs it is given, and the sort.                      *)

\* A finite set can be listed without repetition.
LEMMA OrderExists ==
    LET order == CHOOSE s \in [1..Cardinality(Vertices) -> Vertices] : Elements(s) = Vertices
    IN  /\ order \in Seq(Vertices) /\ Injective(order)
        /\ Elements(order) = Vertices
<1> DEFINE n == Cardinality(Vertices)
           order == CHOOSE s \in [1..n -> Vertices] : Elements(s) = Vertices
<1>1. n \in Nat /\ ExistsBijection(1..n, Vertices)
  BY VerticesAssumption, FS_CardinalityType
<1>2. IsFiniteSet(1..n) /\ Cardinality(1..n) = n
  <2> HIDE DEF n
  <2> QED
    BY <1>1, FS_Interval
<1>3. n = Cardinality(Vertices)
  OBVIOUS
<1> HIDE DEF n
<1>4. PICK f \in Bijection(1..n, Vertices) : TRUE
  BY <1>1 DEF ExistsBijection
<1>5. f \in [1..n -> Vertices] /\ \A v \in Vertices : \E i \in 1..n : f[i] = v
  BY <1>4 DEF Bijection, Surjection, Injection
<1>6. Elements(f) = Vertices
  BY <1>5 DEF Elements
<1>7. order \in [1..n -> Vertices] /\ Elements(order) = Vertices
  BY <1>5, <1>6
<1> HIDE DEF order
<1>8. order \in Surjection(1..n, Vertices)
  BY <1>7 DEF Surjection, Elements
<1>9. order \in Injection(1..n, Vertices)
  BY <1>2, <1>3, <1>8, FS_SurjSameCardinalityImpliesInj
<1>10. order \in Seq(Vertices) /\ Injective(order)
  BY <1>1, <1>7, <1>9 DEF Injection, IsInjective, Injective
<1> QED
  BY <1>7, <1>10, <1>3 DEF order, n

\* Every graph that process_dag is given here is well formed: connect keeps the
\* counters exact whether or not it closes a cycle.
LEMMA GraphsWellFormed ==
    ASSUME NEW g \in Graphs
    PROVE  WellFormed(g) /\ VerticesOf(g) = Vertices
<1> DEFINE order == CHOOSE s \in [1..Cardinality(Vertices) -> Vertices] : Elements(s) = Vertices
<1>1. order \in Seq(Vertices) /\ Injective(order) /\ Elements(order) = Vertices
  BY OrderExists
<1>2. PICK e \in [Vertices -> EdgeLists] :
        g = Clone([graph_ |-> order, edges_ |-> e, incomming |-> [v \in Vertices |-> 0]])
  BY DEF Graphs
<1> HIDE DEF order
<1> DEFINE h == [graph_ |-> order, edges_ |-> e, incomming |-> [v \in Vertices |-> 0]]
<1>3. \A v \in Vertices : /\ e[v] \in Seq(Vertices)
                          /\ \A i, j \in DOMAIN e[v] : e[v][i] = e[v][j] => i = j
  <2> TAKE v \in Vertices
  <2>1. e[v] \in EdgeLists
    OBVIOUS
  <2>2. PICK k \in 0..Cardinality(Vertices) : e[v] \in [1..k -> Vertices]
    BY <2>1 DEF EdgeLists
  <2>3. k \in Nat
    BY <2>2, VerticesAssumption, FS_CardinalityType
  <2> QED
    BY <2>1, <2>2, <2>3 DEF EdgeLists
<1>4. /\ g.graph_ = order /\ g.edges_ = e
      /\ g.incomming = [v \in Vertices |-> Cardinality(Sources(h, v)) % SizeModulus]
      /\ g = [graph_ |-> g.graph_, edges_ |-> g.edges_, incomming |-> g.incomming]
  BY <1>2 DEF Clone
<1>5. \A v \in Vertices : Sources(h, v) = Sources(g, v)
  <2>1. h.graph_ = g.graph_ /\ h.edges_ = g.edges_
    BY <1>4
  <2> HIDE DEF h
  <2> QED
    BY <2>1 DEF Sources, VerticesOf, Targets
<1>6. VerticesOf(g) = Vertices
  BY <1>1, <1>4 DEF VerticesOf
<1>7. \A v \in Vertices : /\ g.incomming[v] = Cardinality(Sources(g, v))
                          /\ g.incomming[v] \in 0..(SizeModulus - 1)
  <2> TAKE v \in Vertices
  <2>1. Sources(g, v) \in SUBSET Vertices
    BY <1>6 DEF Sources
  <2>2. Cardinality(Sources(g, v)) \in 0..(SizeModulus - 1)
    BY <2>1, CountFits
  <2>3. Cardinality(Sources(g, v)) % SizeModulus = Cardinality(Sources(g, v))
    BY <2>2, SmallRemainder, SizeModulusAssumption
  <2>4. g.incomming[v] = Cardinality(Sources(h, v)) % SizeModulus
    BY <1>4
  <2> HIDE DEF h
  <2> QED
    BY <1>5, <2>2, <2>3, <2>4
<1> HIDE DEF h
<1>8. g \in GraphTypes
  <2>1. g.edges_ \in [Vertices -> Seq(Vertices \cup {Expired})]
    <3>1. \A v \in Vertices : e[v] \in Seq(Vertices \cup {Expired})
      BY <1>3
    <3> QED
      BY <1>4, <3>1
  <2>2. g.incomming \in [Vertices -> 0..(SizeModulus - 1)]
    BY <1>4, <1>7
  <2> QED
    BY <1>1, <1>4, <2>1, <2>2 DEF GraphTypes
<1>9. \A v \in Vertices : ConnectedOnce(g.edges_[v])
  BY <1>3, <1>4 DEF ConnectedOnce
<1>10. \A v \in Vertices : Targets(g, v) \subseteq VerticesOf(g)
  BY <1>6, <1>8, GraphSets
<1> QED
  BY <1>1, <1>4, <1>6, <1>7, <1>8, <1>9, <1>10 DEF WellFormed

\* Where an entry of a list without repetition is.
LEMMA PositionFacts ==
    ASSUME NEW L, Injective(L), NEW i \in DOMAIN L
    PROVE  PositionOf(L, L[i]) = i
<1>1. \A k \in DOMAIN L : L[k] = L[i] => k = i
  BY DEF Injective
<1>2. (CHOOSE k \in DOMAIN L : L[k] = L[i]) = i
  BY <1>1
<1> QED
  BY <1>2, Zenon DEF PositionOf

\* A sorted graph lists the source of every edge before its target.
LEMMA SortedAlongEdges ==
    ASSUME NEW g, NEW L, SortedList(g, L), NEW e \in Edge(g)
    PROVE  PositionOf(L, e[1]) < PositionOf(L, e[2])
<1>1. /\ L \in Seq(Vertices) /\ Injective(L) /\ Elements(L) = VerticesOf(g)
      /\ \A j \in DOMAIN L : \A u \in Sources(g, L[j]) : \E i \in DOMAIN L : i < j /\ L[i] = u
  BY DEF SortedList
<1>2. e[2] \in Elements(L) /\ e[1] \in Sources(g, e[2])
  BY <1>1 DEF Edge, Sources
<1>3. PICK j \in DOMAIN L : L[j] = e[2]
  BY <1>2 DEF Elements
<1>4. PICK i \in DOMAIN L : i < j /\ L[i] = e[1]
  <2>1. e[1] \in Sources(g, L[j])
    BY <1>2, <1>3
  <2> QED
    BY <1>1, <2>1
<1>5. PositionOf(L, L[i]) = i /\ PositionOf(L, L[j]) = j
  BY <1>1, PositionFacts
<1> QED
  BY <1>3, <1>4, <1>5

-----------------------------------------------------------------------------
(* The batches of one call.                                                *)

\* The vertices of the batches that are out.
Done(b) == {v \in Vertices : \E k \in DOMAIN b : v \in Elements(b[k])}

\* What a clone h of graph g and the batches b taken out of it have in common:
\* h is the rest of g, no vertex is in two batches, the sources of a vertex are
\* in earlier batches and one of them in the batch just before, also for the
\* vertices that come next.
BatchInv(g, h, b) ==
    /\ WellFormed(h)
    /\ b \in Seq(Seq(Vertices))
    /\ VerticesOf(h) = VerticesOf(g) \ Done(b)
    /\ \A k \in DOMAIN b : Elements(b[k]) \subseteq VerticesOf(g)
    /\ \A u \in VerticesOf(h) : Targets(h, u) = Targets(g, u) \ Done(b)
    /\ \A j, k \in DOMAIN b : j # k => Elements(b[j]) \cap Elements(b[k]) = {}
    /\ \A k \in DOMAIN b : \A v \in Elements(b[k]) :
        /\ \A u \in Sources(g, v) : \E j \in DOMAIN b : j < k /\ u \in Elements(b[j])
        /\ k > 1 => \E u \in Sources(g, v) : u \in Elements(b[k - 1])
    /\ b # <<>> => \A v \in VerticesOf(h) :
        Sources(h, v) = {} => \E u \in Sources(g, v) : u \in Elements(b[Len(b)])

\* Before the first turn nothing is out and the clone is the graph.
LEMMA BatchStart ==
    ASSUME NEW g, WellFormed(g)
    PROVE  BatchInv(g, g, <<>>)
<1>1. Done(<<>>) = {} /\ <<>> \in Seq(Seq(Vertices)) /\ DOMAIN <<>> = {}
  BY DEF Done
<1> QED
  BY <1>1 DEF BatchInv

\* The vertices without incoming edges, as the loop finds them.
LEMMA BatchFacts ==
    ASSUME NEW h, WellFormed(h)
    PROVE  /\ dag_vertices_with_no_incomming_edges(h) \in Seq(Vertices)
           /\ Injective(dag_vertices_with_no_incomming_edges(h))
           /\ Elements(dag_vertices_with_no_incomming_edges(h)) =
                {v \in VerticesOf(h) : Sources(h, v) = {}}
<1> DEFINE N == {v \in Vertices : h.incomming[v] = 0}
           b == Keep(h.graph_, N)
<1>1. h.graph_ \in Seq(Vertices) /\ Injective(h.graph_)
  BY Fields DEF WellFormed
<1>2. b \in Seq(Vertices) /\ Elements(b) = Elements(h.graph_) \cap N /\ Injective(b)
  <2> HIDE DEF N
  <2>1. OnceIn(h.graph_, N)
    BY <1>1 DEF Injective, OnceIn
  <2> QED
    BY <1>1, <2>1, KeepFacts
<1>3. \A v \in VerticesOf(h) : v \in Vertices /\ (h.incomming[v] = 0 <=> Sources(h, v) = {})
  <2> TAKE v \in VerticesOf(h)
  <2>1. v \in Vertices /\ Sources(h, v) \in SUBSET Vertices
    BY Fields
  <2>2. IsFiniteSet(Sources(h, v)) /\ h.incomming[v] = Cardinality(Sources(h, v))
    BY <2>1, CountFits DEF WellFormed
  <2> QED
    BY <2>1, <2>2, FS_EmptySet
<1>4. Elements(b) = {v \in VerticesOf(h) : Sources(h, v) = {}}
  <2> HIDE DEF b
  <2> QED
    BY <1>2, <1>3 DEF VerticesOf
<1> QED
  BY <1>2, <1>4 DEF dag_vertices_with_no_incomming_edges

\* With one more batch these vertices are done as well.
LEMMA DoneAppend ==
    ASSUME NEW b \in Seq(Seq(Vertices)), NEW s \in Seq(Vertices)
    PROVE  /\ Append(b, s) \in Seq(Seq(Vertices))
           /\ Len(Append(b, s)) = Len(b) + 1
           /\ DOMAIN Append(b, s) = DOMAIN b \cup {Len(b) + 1}
           /\ \A k \in DOMAIN b : Append(b, s)[k] = b[k] /\ k <= Len(b) /\ k \in Nat
           /\ Append(b, s)[Len(b) + 1] = s
           /\ Done(Append(b, s)) = Done(b) \cup Elements(s)
<1>1. /\ Append(b, s) \in Seq(Seq(Vertices))
      /\ Len(Append(b, s)) = Len(b) + 1 /\ Len(b) \in Nat
      /\ DOMAIN Append(b, s) = 1..(Len(b) + 1) /\ DOMAIN b = 1..Len(b)
      /\ \A k \in DOMAIN b : Append(b, s)[k] = b[k]
      /\ Append(b, s)[Len(b) + 1] = s
  OBVIOUS
<1>2. DOMAIN Append(b, s) = DOMAIN b \cup {Len(b) + 1}
  BY <1>1
<1>3. Elements(s) \subseteq Vertices
  BY DEF Elements
<1>4. Done(Append(b, s)) = Done(b) \cup Elements(s)
  <2> DEFINE a == Append(b, s)
             l == Len(b) + 1
  <2>1. DOMAIN a = DOMAIN b \cup {l} /\ a[l] = s /\ \A k \in DOMAIN b : a[k] = b[k]
    BY <1>1, <1>2
  <2> HIDE DEF a, l
  <2>2. Done(a) = Done(b) \cup Elements(s)
    BY <1>3, <2>1 DEF Done
  <2> QED
    BY <2>2 DEF a
<1> QED
  BY <1>1, <1>2, <1>4

\* A turn of the loop: the vertices without incoming edges become the next
\* batch, and what is left of the clone is again the rest of the graph.
LEMMA BatchStep ==
    ASSUME NEW g, WellFormed(g), NEW h, NEW b, BatchInv(g, h, b), NEW s,
           s = dag_vertices_with_no_incomming_edges(h)
    PROVE  BatchInv(g, RemoveVertices(h, Elements(s)), Append(b, s))
<1> DEFINE r == RemoveVertices(h, Elements(s))
           a == Append(b, s)
           n == Len(b)
<1>1. /\ WellFormed(h) /\ b \in Seq(Seq(Vertices))
      /\ VerticesOf(h) = VerticesOf(g) \ Done(b)
      /\ \A k \in DOMAIN b : Elements(b[k]) \subseteq VerticesOf(g)
      /\ \A u \in VerticesOf(h) : Targets(h, u) = Targets(g, u) \ Done(b)
      /\ \A j, k \in DOMAIN b : j # k => Elements(b[j]) \cap Elements(b[k]) = {}
  BY DEF BatchInv
<1>2. \A k \in DOMAIN b : \A v \in Elements(b[k]) :
        /\ \A u \in Sources(g, v) : \E j \in DOMAIN b : j < k /\ u \in Elements(b[j])
        /\ k > 1 => \E u \in Sources(g, v) : u \in Elements(b[k - 1])
  BY DEF BatchInv
<1>3. b # <<>> => \A v \in VerticesOf(h) :
        Sources(h, v) = {} => \E u \in Sources(g, v) : u \in Elements(b[n])
  BY DEF BatchInv
<1>4. s \in Seq(Vertices) /\ Elements(s) = {v \in VerticesOf(h) : Sources(h, v) = {}}
  BY <1>1, BatchFacts
<1>5. /\ WellFormed(r) /\ VerticesOf(r) = VerticesOf(h) \ Elements(s)
      /\ \A u \in Vertices \ Elements(s) : Targets(r, u) = Targets(h, u) \ Elements(s)
  BY <1>1, <1>4, RemoveFacts
<1>6. /\ a \in Seq(Seq(Vertices)) /\ Len(a) = n + 1 /\ n \in Nat
      /\ DOMAIN a = DOMAIN b \cup {n + 1} /\ DOMAIN b = 1..n
      /\ \A k \in DOMAIN b : a[k] = b[k] /\ k <= n /\ k \in Nat
      /\ a[n + 1] = s
      /\ Done(a) = Done(b) \cup Elements(s)
  BY <1>1, <1>4, DoneAppend
<1>7. VerticesOf(g) \subseteq Vertices /\ VerticesOf(h) \subseteq Vertices
  BY <1>1, Fields
<1> HIDE DEF r, a, n
<1>8. VerticesOf(r) = VerticesOf(g) \ Done(a)
  BY <1>1, <1>5, <1>6
<1>9. \A k \in DOMAIN a : Elements(a[k]) \subseteq VerticesOf(g)
  BY <1>1, <1>4, <1>6
<1>10. \A u \in VerticesOf(r) : Targets(r, u) = Targets(g, u) \ Done(a)
  BY <1>1, <1>5, <1>6, <1>7
<1>11. \A k \in DOMAIN b : Elements(b[k]) \cap VerticesOf(h) = {}
  BY <1>1, <1>7 DEF Done
<1>12. \A j, k \in DOMAIN a : j # k => Elements(a[j]) \cap Elements(a[k]) = {}
  <2> TAKE j, k \in DOMAIN a
  <2>1. CASE j \in DOMAIN b /\ k \in DOMAIN b
    BY <1>1, <1>6, <2>1
  <2>2. CASE j = n + 1 /\ k \in DOMAIN b
    BY <1>4, <1>6, <1>11, <2>2
  <2>3. CASE k = n + 1 /\ j \in DOMAIN b
    BY <1>4, <1>6, <1>11, <2>3
  <2> QED
    BY <1>6, <2>1, <2>2, <2>3
<1>13. ASSUME NEW v \in Elements(s)
       PROVE  /\ \A u \in Sources(g, v) : \E j \in DOMAIN a : j < n + 1 /\ u \in Elements(a[j])
              /\ n + 1 > 1 => \E u \in Sources(g, v) : u \in Elements(a[n + 1 - 1])
  <2>1. v \in VerticesOf(h) /\ Sources(h, v) = {} /\ v \notin Done(b)
    BY <1>1, <1>4, <1>13
  <2>2. ASSUME NEW u \in Sources(g, v)
        PROVE  \E j \in DOMAIN a : j < n + 1 /\ u \in Elements(a[j])
    <3>1. u \in VerticesOf(g) /\ v \in Targets(g, u)
      BY <2>2 DEF Sources
    <3>2. u \notin VerticesOf(h)
      BY <1>1, <2>1, <3>1 DEF Sources
    <3>3. PICK j \in DOMAIN b : u \in Elements(b[j])
      BY <1>1, <3>1, <3>2 DEF Done
    <3>4. j \in DOMAIN a /\ a[j] = b[j] /\ j < n + 1
      BY <1>6, <3>3
    <3> QED
      BY <3>3, <3>4
  <2>3. ASSUME n + 1 > 1
        PROVE  \E u \in Sources(g, v) : u \in Elements(a[n + 1 - 1])
    <3>1. n \in DOMAIN b /\ n + 1 - 1 = n /\ b # <<>>
      BY <1>6, <2>3
    <3> QED
      BY <1>3, <1>6, <2>1, <3>1
  <2> QED
    BY <2>2, <2>3
<1>14. \A k \in DOMAIN a : \A v \in Elements(a[k]) :
        /\ \A u \in Sources(g, v) : \E j \in DOMAIN a : j < k /\ u \in Elements(a[j])
        /\ k > 1 => \E u \in Sources(g, v) : u \in Elements(a[k - 1])
  <2> TAKE k \in DOMAIN a
  <2>1. CASE k = n + 1
    BY <1>6, <1>13, <2>1
  <2>2. CASE k \in DOMAIN b
    <3>1. a[k] = b[k] /\ (k > 1 => k - 1 \in DOMAIN b)
      BY <1>6, <2>2
    <3>2. k > 1 => a[k - 1] = b[k - 1]
      BY <1>6, <3>1
    <3>3. \A v \in Elements(b[k]) :
            /\ \A u \in Sources(g, v) : \E j \in DOMAIN b : j < k /\ u \in Elements(b[j])
            /\ k > 1 => \E u \in Sources(g, v) : u \in Elements(b[k - 1])
      BY <1>2, <2>2
    <3>4. \A u : (\E j \in DOMAIN b : j < k /\ u \in Elements(b[j]))
                => \E j \in DOMAIN a : j < k /\ u \in Elements(a[j])
      BY <1>6
    <3> QED
      BY <3>1, <3>2, <3>3, <3>4
  <2> QED
    BY <1>6, <2>1, <2>2
<1>15. ASSUME NEW v \in VerticesOf(r), Sources(r, v) = {}
       PROVE  \E u \in Sources(g, v) : u \in Elements(a[Len(a)])
  <2>1. v \in VerticesOf(h) /\ v \notin Elements(s)
    BY <1>5, <1>15
  <2>2. PICK u \in Sources(h, v) : TRUE
    BY <1>4, <2>1
  <2>3. u \in VerticesOf(h) /\ v \in Targets(h, u)
    BY <2>2 DEF Sources
  <2>4. u \in Elements(s)
    <3> SUFFICES ASSUME u \notin Elements(s) PROVE FALSE
      OBVIOUS
    <3>1. u \in VerticesOf(r) /\ v \in Targets(r, u)
      BY <1>5, <1>7, <2>1, <2>3
    <3> QED
      BY <1>15, <3>1 DEF Sources
  <2>5. u \in Sources(g, v)
    BY <1>1, <2>3 DEF Sources
  <2> QED
    BY <1>6, <2>4, <2>5
<1>16. BatchInv(g, r, a)
  BY <1>5, <1>6, <1>8, <1>9, <1>10, <1>12, <1>14, <1>15 DEF BatchInv
<1> QED
  BY <1>16 DEF r, a

\* If the clone of an acyclic graph has no vertex without incoming edges, it
\* has no vertex: the loop ends with everything in a batch.
LEMMA LastBatch ==
    ASSUME NEW g, WellFormed(g), Acyclic(g), NEW h, NEW b, BatchInv(g, h, b),
           dag_vertices_with_no_incomming_edges(h) = <<>>
    PROVE  VerticesOf(h) = {}
<1>1. /\ WellFormed(h) /\ VerticesOf(h) \subseteq VerticesOf(g)
      /\ \A u \in VerticesOf(h) : Targets(h, u) \subseteq Targets(g, u)
  BY DEF BatchInv
<1>2. \A v \in VerticesOf(h) : \E u \in VerticesOf(h) : v \in Targets(h, u)
  <2>1. Elements(<<>>) = {}
    BY DEF Elements
  <2>2. \A v \in VerticesOf(h) : Sources(h, v) # {}
    BY <1>1, <2>1, BatchFacts
  <2> QED
    BY <2>2 DEF Sources
<1>3. ~HasCycle(g)
  BY AcyclicHasNoCycle
<1> SUFFICES ASSUME VerticesOf(h) # {} PROVE FALSE
  OBVIOUS
<1>4. HasCycle(g)
  <2> DEFINE U == VerticesOf(h)
  <2>1. U \in SUBSET VerticesOf(g) /\ U # {} /\ \A w \in U : \E u \in U : w \in Targets(g, u)
    BY <1>1, <1>2
  <2> HIDE DEF U
  <2> QED
    BY <2>1, SourcesWithinHasCycle
<1> QED
  BY <1>3, <1>4

\* An edge into a path makes the path longer.
LEMMA ReachableBack ==
    ASSUME NEW g, WellFormed(g), NEW v, NEW x \in VerticesOf(g), NEW y \in Sources(g, x),
           v = x \/ v \in Reachable(g, {x})
    PROVE  v \in Reachable(g, {y})
<1>1. VerticesOf(g) \subseteq Vertices /\ y \in VerticesOf(g) /\ x \in Targets(g, y)
  BY Fields DEF Sources
<1>2. /\ Successors(g, {y}) \subseteq Reachable(g, {y})
      /\ Closed(g, Reachable(g, {y}))
  BY <1>1, ReachableClosed
<1>3. x \in Reachable(g, {y})
  <2>1. x \in Successors(g, {y})
    BY <1>1, SuccessorFacts
  <2> QED
    BY <1>2, <2>1
<1>4. Successors(g, {x}) \subseteq Reachable(g, {y})
  <2>1. {x} \subseteq Reachable(g, {y})
    BY <1>3
  <2>2. Successors(g, {x}) \subseteq Successors(g, Reachable(g, {y}))
    BY <2>1, SuccessorFacts
  <2> QED
    BY <1>2, <2>2 DEF Closed
<1>5. Reachable(g, {x}) \subseteq Reachable(g, {y})
  <2> DEFINE T == Reachable(g, {y})
  <2>1. Successors(g, {x}) \subseteq T /\ Closed(g, T)
    BY <1>2, <1>4
  <2> HIDE DEF T
  <2>2. Reachable(g, {x}) \subseteq T
    BY <2>1, ReachableLeast
  <2> QED
    BY <2>2 DEF T
<1> QED
  BY <1>3, <1>5

\* Levels of the vertices: above all sources, and one above some source unless
\* on the first.
IsLevel(g, lev) ==
    /\ lev \in [VerticesOf(g) -> Nat \ {0}]
    /\ \A x \in VerticesOf(g) : \A y \in Sources(g, x) : lev[y] < lev[x]
    /\ \A x \in VerticesOf(g) : lev[x] > 1 => \E y \in Sources(g, x) : lev[y] = lev[x] - 1

Ancestors(g, v) == {w \in VerticesOf(g) : v \in Reachable(g, {w})}

\* The ancestors of a vertex are on all levels below it.
LEMMA AncestorLevels ==
    ASSUME NEW g, WellFormed(g), NEW lev, IsLevel(g, lev), NEW v \in VerticesOf(g)
    PROVE  {lev[u] : u \in Ancestors(g, v)} = 1..(lev[v] - 1)
<1> USE DEF IsLevel
<1> DEFINE A == Ancestors(g, v)
<1>1. ASSUME NEW u \in A PROVE lev[u] \in 1..(lev[v] - 1)
  <2> DEFINE T == {w \in VerticesOf(g) : lev[u] < lev[w]}
  <2>1. u \in VerticesOf(g) /\ v \in Reachable(g, {u})
    BY <1>1 DEF Ancestors
  <2>2. \A x \in VerticesOf(g) : \A w \in VerticesOf(g) : w \in Targets(g, x) => lev[x] < lev[w]
    BY DEF Sources
  <2>3. Successors(g, {u}) \subseteq T
    <3> SUFFICES ASSUME NEW w \in Successors(g, {u}) PROVE w \in T
      OBVIOUS
    <3>1. w \in VerticesOf(g) /\ w \in Targets(g, u)
      BY SuccessorFacts
    <3> QED
      BY <2>1, <2>2, <3>1
  <2>4. Successors(g, T) \subseteq T
    <3> SUFFICES ASSUME NEW w \in Successors(g, T) PROVE w \in T
      OBVIOUS
    <3>1. PICK x \in T : x \in VerticesOf(g) /\ w \in Targets(g, x) /\ w \in VerticesOf(g)
      <4> HIDE DEF T
      <4> QED
        BY SuccessorFacts
    <3>2. lev[u] < lev[x] /\ lev[x] < lev[w]
      BY <2>2, <3>1
    <3>3. lev[u] \in Nat /\ lev[x] \in Nat /\ lev[w] \in Nat
      BY <2>1, <3>1
    <3> QED
      BY <3>1, <3>2, <3>3
  <2>5. Reachable(g, {u}) \subseteq T
    <3> HIDE DEF T
    <3> QED
      BY <2>3, <2>4, ReachableLeast DEF Closed
  <2>6. lev[u] < lev[v]
    BY <2>1, <2>5
  <2>7. lev[u] \in Nat \ {0} /\ lev[v] \in Nat \ {0}
    BY <2>1
  <2> QED
    BY <2>6, <2>7
<1>2. PICK n \in Nat : lev[v] = n + 1
  <2>1. lev[v] \in Nat \ {0}
    OBVIOUS
  <2>2. lev[v] - 1 \in Nat /\ lev[v] = (lev[v] - 1) + 1
    BY <2>1
  <2> QED
    BY <2>2
<1> DEFINE S == {i \in 0..n : i = 0 \/ \E u \in A : lev[u] = lev[v] - i}
<1>3. 0..n \subseteq S
  <2>1. 0 \in S
    BY <1>2
  <2>2. ASSUME NEW i \in 0..n, i < n, i \in S PROVE i + 1 \in S
    <3>1. PICK x \in VerticesOf(g) : lev[x] = lev[v] - i /\ (v = x \/ v \in Reachable(g, {x}))
      <4>1. CASE i = 0
        <5>1. lev[v] - i = lev[v]
          BY <1>2, <4>1
        <5> QED
          BY <5>1
      <4>2. CASE i # 0
        BY <2>2, <4>2 DEF Ancestors
      <4> QED
        BY <4>1, <4>2
    <3>2. lev[x] > 1 /\ lev[x] - 1 = lev[v] - (i + 1)
      BY <1>2, <2>2, <3>1
    <3>3. PICK y \in Sources(g, x) : lev[y] = lev[x] - 1
      BY <3>2
    <3>4. y \in VerticesOf(g) /\ v \in Reachable(g, {y})
      <4>1. v \in Reachable(g, {y})
        BY <3>1, <3>3, ReachableBack
      <4> QED
        BY <3>3, <4>1 DEF Sources
    <3>5. y \in A /\ lev[y] = lev[v] - (i + 1)
      BY <3>2, <3>3, <3>4 DEF Ancestors
    <3>6. i + 1 \in 0..n
      BY <2>2
    <3> QED
      BY <3>5, <3>6
  <2> HIDE DEF S
  <2> QED
    BY <2>1, <2>2, InductionUpTo
<1>4. ASSUME NEW k \in 1..(lev[v] - 1) PROVE \E u \in A : lev[u] = k
  <2>1. lev[v] - k \in 0..n /\ lev[v] - k # 0 /\ lev[v] - (lev[v] - k) = k
    BY <1>2, <1>4
  <2>2. lev[v] - k \in S
    BY <1>3, <2>1
  <2> QED
    BY <2>1, <2>2
<1> HIDE DEF A
<1>5. {lev[u] : u \in A} = 1..(lev[v] - 1)
  BY <1>1, <1>4
<1> QED
  BY <1>5 DEF A

\* Every vertex is in one batch.
LEMMA BatchOfFacts ==
    ASSUME NEW b, NEW v, NEW k \in DOMAIN b, v \in Elements(b[k]),
           \A i, j \in DOMAIN b : i # j => Elements(b[i]) \cap Elements(b[j]) = {}
    PROVE  BatchOf(b, v) = k
<1>1. \A j \in DOMAIN b : v \in Elements(b[j]) => j = k
  OBVIOUS
<1>2. (CHOOSE j \in DOMAIN b : v \in Elements(b[j])) = k
  BY <1>1
<1> QED
  BY <1>2, Zenon DEF BatchOf

\* What a call that has returned true has done to the vertices.
AllBatched(g, b) ==
    /\ UNION {Elements(b[k]) : k \in DOMAIN b} = VerticesOf(g)
    /\ \A j, k \in DOMAIN b : j # k => Elements(b[j]) \cap Elements(b[k]) = {}
    /\ \A v \in VerticesOf(g) :
        BatchOf(b, v) = 1 + Cardinality(
            {BatchOf(b, u) : u \in {w \in VerticesOf(g) : v \in Reachable(g, {w})}})

\* With an empty clone every vertex is in the batch after its last ancestors.
LEMMA BatchedAll ==
    ASSUME NEW g, WellFormed(g), NEW h, NEW b, BatchInv(g, h, b), VerticesOf(h) = {}
    PROVE  AllBatched(g, b)
<1> DEFINE V == VerticesOf(g)
           lev == [v \in V |-> BatchOf(b, v)]
<1>1. /\ b \in Seq(Seq(Vertices))
      /\ {} = VerticesOf(g) \ Done(b)
      /\ \A k \in DOMAIN b : Elements(b[k]) \subseteq VerticesOf(g)
      /\ \A j, k \in DOMAIN b : j # k => Elements(b[j]) \cap Elements(b[k]) = {}
      /\ \A k \in DOMAIN b : \A v \in Elements(b[k]) :
            /\ \A u \in Sources(g, v) : \E j \in DOMAIN b : j < k /\ u \in Elements(b[j])
            /\ k > 1 => \E u \in Sources(g, v) : u \in Elements(b[k - 1])
  BY DEF BatchInv
<1>2. \A v \in V : \E k \in DOMAIN b : v \in Elements(b[k])
  BY <1>1 DEF Done
<1>3. UNION {Elements(b[k]) : k \in DOMAIN b} = V
  BY <1>1, <1>2
<1>4. \A k \in DOMAIN b : k \in Nat \ {0} /\ (k > 1 => k - 1 \in DOMAIN b)
  BY <1>1
<1>5. \A k \in DOMAIN b : \A v \in Elements(b[k]) : v \in V /\ BatchOf(b, v) = k /\ lev[v] = k
  <2> TAKE k \in DOMAIN b
  <2> TAKE v \in Elements(b[k])
  <2>1. v \in V
    BY <1>1
  <2>2. BatchOf(b, v) = k
    BY <1>1, BatchOfFacts
  <2> QED
    BY <2>1, <2>2
<1>6. \A v \in V : lev[v] \in DOMAIN b /\ v \in Elements(b[lev[v]])
  <2> HIDE DEF lev
  <2> QED
    BY <1>2, <1>5
<1>7. lev \in [V -> Nat \ {0}]
  <2>1. \A v \in V : lev[v] \in Nat \ {0}
    <3> HIDE DEF lev
    <3> QED
      BY <1>4, <1>6
  <2> QED
    BY <2>1
<1>8. \A v \in V : BatchOf(b, v) = lev[v]
  OBVIOUS
<1> HIDE DEF lev
<1>9. \A x \in V : \A y \in Sources(g, x) : lev[y] < lev[x]
  <2> TAKE x \in V
  <2> TAKE y \in Sources(g, x)
  <2>1. PICK j \in DOMAIN b : j < lev[x] /\ y \in Elements(b[j])
    BY <1>1, <1>6
  <2>2. lev[y] = j
    BY <1>5, <2>1
  <2> QED
    BY <2>1, <2>2
<1>10. \A x \in V : lev[x] > 1 => \E y \in Sources(g, x) : lev[y] = lev[x] - 1
  <2> SUFFICES ASSUME NEW x \in V, lev[x] > 1 PROVE \E y \in Sources(g, x) : lev[y] = lev[x] - 1
    OBVIOUS
  <2>0. lev[x] \in DOMAIN b /\ x \in Elements(b[lev[x]])
    BY <1>6
  <2>1. PICK y \in Sources(g, x) : y \in Elements(b[lev[x] - 1])
    BY <1>1, <2>0
  <2>2. lev[y] = lev[x] - 1
    BY <1>4, <1>5, <1>6, <2>1
  <2> QED
    BY <2>2
<1>11. \A v \in V : BatchOf(b, v) = 1 + Cardinality(
            {BatchOf(b, u) : u \in {w \in V : v \in Reachable(g, {w})}})
  <2> TAKE v \in V
  <2> DEFINE A == Ancestors(g, v)
  <2>1. {lev[u] : u \in A} = 1..(lev[v] - 1)
    <3>1. IsLevel(g, lev)
      BY <1>7, <1>9, <1>10 DEF IsLevel
    <3> QED
      BY <3>1, AncestorLevels
  <2>2. lev[v] \in Nat \ {0}
    BY <1>7
  <2>3. Cardinality(1..(lev[v] - 1)) = lev[v] - 1
    <3>1. 1 \in Int /\ lev[v] - 1 \in Int
      BY <2>2
    <3>2. Cardinality(1..(lev[v] - 1)) =
            IF 1 > lev[v] - 1 THEN 0 ELSE (lev[v] - 1) - 1 + 1
      BY <3>1, FS_Interval
    <3> QED
      BY <2>2, <3>2
  <2>4. A \subseteq V /\ A = {w \in V : v \in Reachable(g, {w})}
    BY DEF Ancestors
  <2> HIDE DEF A
  <2>5. {BatchOf(b, u) : u \in A} = {lev[u] : u \in A}
    BY <1>8, <2>4
  <2>6. Cardinality({BatchOf(b, u) : u \in A}) = lev[v] - 1
    BY <2>1, <2>3, <2>5
  <2>7. BatchOf(b, v) = 1 + Cardinality({BatchOf(b, u) : u \in A})
    BY <1>8, <2>2, <2>6
  <2> QED
    BY <2>4, <2>7
<1> QED
  BY <1>1, <1>3, <1>11 DEF AllBatched

-----------------------------------------------------------------------------
(* The inductive invariant of the calls and the queue.                     *)

\* The vertices whose tasks a call has queued.
Queued(c) == Done(out[c]) \ Elements(todo[c])

ProcessTypes ==
    /\ given \in Graphs
    /\ at \in [Calls -> {"idle", "looping", "queueing", "true", "false"}]
    /\ g_clone \in [Calls -> GraphTypes]
    /\ out \in [Calls -> Seq(Seq(Vertices))]
    /\ todo \in [Calls -> Seq(Vertices)]
    /\ Queue!TypeOK

\* A call in its loop has an acyclic graph and takes it apart; todo is the rest
\* of its last batch; the tasks of all other vertices in batches, and no
\* others, have been queued.
CallInv(c) ==
    /\ at[c] \in {"idle", "false"} => out[c] = <<>>
    /\ at[c] = "false" => HasCycle(given)
    /\ at[c] \in {"looping", "queueing", "true"} =>
        Acyclic(given) /\ BatchInv(given, g_clone[c], out[c])
    /\ at[c] = "true" => VerticesOf(g_clone[c]) = {}
    /\ at[c] # "queueing" => todo[c] = <<>>
    /\ at[c] = "queueing" =>
        /\ out[c] # <<>> /\ todo[c] # <<>> /\ Injective(todo[c])
        /\ Elements(todo[c]) \subseteq Elements(out[c][Len(out[c])])
    /\ \A v \in HasTask : TaskOf(v, c) \notin fresh <=> v \in Queued(c)

\* Task t comes before u: they are of one call, and a path leads from the
\* vertex of t to that of u.
Precedes(t, u) == t.call = u.call /\ u.vertex \in Reachable(given, {t.vertex})

\* What is in the queue or was taken from it is not with its call any more, and
\* what comes before an entry is neither behind it nor still queued when the
\* entry has been taken.
OrderInv ==
    /\ taken \subseteq Tasks \ fresh
    /\ \A i \in DOMAIN queue_ : queue_[i] \notin fresh
    /\ \A i, j \in DOMAIN queue_ :
        i < j /\ queue_[i] # NoTask /\ queue_[j] # NoTask => ~Precedes(queue_[j], queue_[i])
    /\ \A t \in taken : \A i \in DOMAIN queue_ :
        queue_[i] # NoTask => ~Precedes(queue_[i], t)

ProcessInv == ProcessTypes /\ (\A c \in Calls : CallInv(c)) /\ OrderInv

\* The task of a vertex in a call.
LEMMA TaskFacts ==
    /\ \A v \in HasTask, c \in Calls :
        TaskOf(v, c) \in Tasks /\ TaskOf(v, c).vertex = v /\ TaskOf(v, c).call = c
    /\ \A v, c : v \notin HasTask => TaskOf(v, c) = NoTask
    /\ \A t \in Tasks :
        t.vertex \in HasTask /\ t.call \in Calls /\ t = TaskOf(t.vertex, t.call)
  BY DEF TaskOf, Tasks

\* Before the first batch nothing is done.
LEMMA DoneEmpty == Done(<<>>) = {} /\ Elements(<<>>) = {}
  BY DEF Done, Elements

\* The sources of a vertex whose task is queued have queued theirs.
LEMMA SourcesQueued ==
    ASSUME NEW c \in Calls, ProcessTypes, CallInv(c), NEW y \in Queued(c), NEW x \in Sources(given, y)
    PROVE  x \in Queued(c)
<1> DEFINE b == out[c]
<1>1. y \in Done(b) /\ y \notin Elements(todo[c])
  BY DEF Queued
<1>2. b # <<>>
  BY <1>1, DoneEmpty
<1>3. BatchInv(given, g_clone[c], b)
  BY <1>2 DEF CallInv, ProcessTypes
<1> HIDE DEF b
<1>4. PICK k \in DOMAIN b : y \in Elements(b[k])
  BY <1>1 DEF Done
<1>5. PICK j \in DOMAIN b : j < k /\ x \in Elements(b[j])
  BY <1>3, <1>4 DEF BatchInv
<1>6. /\ b \in Seq(Seq(Vertices)) /\ Elements(b[j]) \subseteq Vertices
      /\ \A i, l \in DOMAIN b : i # l => Elements(b[i]) \cap Elements(b[l]) = {}
  <2>1. /\ b \in Seq(Seq(Vertices))
        /\ \A i, l \in DOMAIN b : i # l => Elements(b[i]) \cap Elements(b[l]) = {}
    BY <1>3 DEF BatchInv
  <2>2. b[j] \in Seq(Vertices)
    BY <2>1
  <2>3. Elements(b[j]) \subseteq Vertices
    BY <2>2 DEF Elements
  <2> QED
    BY <2>1, <2>3
<1>7. x \in Done(b)
  BY <1>5, <1>6 DEF Done
<1>8. Len(b) \in DOMAIN b /\ j # Len(b)
  BY <1>4, <1>5, <1>6
<1>9. x \notin Elements(b[Len(b)])
  BY <1>5, <1>6, <1>8
<1>10. x \notin Elements(todo[c])
  <2>1. CASE at[c] = "queueing"
    BY <1>9, <2>1 DEF CallInv, b
  <2>2. CASE at[c] # "queueing"
    BY <2>2, DoneEmpty DEF CallInv
  <2> QED
    BY <2>1, <2>2
<1> QED
  BY <1>7, <1>10 DEF Queued, b

\* A task that has left its call leaves none that comes before it behind.
LEMMA PredecessorsQueued ==
    ASSUME ProcessTypes, \A c \in Calls : CallInv(c),
           NEW t \in Tasks, t \notin fresh, NEW u \in Tasks, Precedes(u, t)
    PROVE  u \notin fresh
<1> SUFFICES ASSUME u \in fresh PROVE FALSE
  OBVIOUS
<1>1. PICK c \in Calls : t.call = c /\ u.call = c /\ t.vertex \in Reachable(given, {u.vertex})
  BY TaskFacts DEF Precedes
<1>2. /\ t.vertex \in HasTask /\ t = TaskOf(t.vertex, c)
      /\ u.vertex \in HasTask /\ u = TaskOf(u.vertex, c)
  BY <1>1, TaskFacts
<1>3. t.vertex \in Queued(c) /\ u.vertex \notin Queued(c)
  <2>1. CallInv(c)
    OBVIOUS
  <2> QED
    BY <1>2, <2>1 DEF CallInv
<1>4. WellFormed(given) /\ VerticesOf(given) = Vertices
  BY GraphsWellFormed DEF ProcessTypes
<1> DEFINE R == Vertices \ Queued(c)
<1>5. Successors(given, R) \subseteq R
  <2> SUFFICES ASSUME NEW w \in Successors(given, R), w \in Queued(c) PROVE FALSE
    BY <1>4, SuccessorFacts
  <2>1. PICK x \in R : x \in VerticesOf(given) /\ w \in Targets(given, x)
    <3> HIDE DEF R
    <3> QED
      BY SuccessorFacts
  <2>2. x \in Sources(given, w)
    BY <2>1 DEF Sources
  <2>3. x \in Queued(c)
    BY <2>2, SourcesQueued
  <2> QED
    BY <2>1, <2>3
<1>6. {u.vertex} \subseteq R
  BY <1>2, <1>3, HasTaskAssumption
<1> HIDE DEF R
<1>7. Successors(given, {u.vertex}) \subseteq R
  BY <1>5, <1>6, SuccessorFacts
<1>8. Reachable(given, {u.vertex}) \subseteq R
  BY <1>5, <1>7, ReachableLeast DEF Closed
<1> QED
  BY <1>1, <1>3, <1>8 DEF R

\* A call keeps its invariant when a step leaves its own part alone.
LEMMA CallSame ==
    ASSUME NEW c \in Calls, CallInv(c), given' = given, at'[c] = at[c],
           g_clone'[c] = g_clone[c], out'[c] = out[c], todo'[c] = todo[c],
           \A v \in HasTask : TaskOf(v, c) \in fresh' <=> TaskOf(v, c) \in fresh
    PROVE  CallInv(c)'
  BY DEF CallInv, Queued

\* process_dag clones and sorts: a sortable graph is acyclic, and its clone
\* the graph itself.
LEMMA CheckStep ==
    ASSUME ProcessInv, NEW c \in Calls, Check(c)
    PROVE  ProcessInv'
<1>1. /\ given' = given /\ out' = out /\ todo' = todo /\ taken' = taken
      /\ at[c] = "idle" /\ UNCHANGED queueVars
  BY DEF Check
<1>2. /\ ProcessTypes /\ OrderInv /\ \A d \in Calls : CallInv(d)
  BY DEF ProcessInv
<1>3. WellFormed(given)
  BY <1>2, GraphsWellFormed DEF ProcessTypes
<1>4. Clone(given) = given
  BY <1>3, CloneSame
<1> DEFINE ret == dag_topological_sort(given).ret
<1>5. ret <=> HasCycle(given)
  BY <1>3, SortFindsCycles
<1>6. ~HasCycle(given) => Acyclic(given)
  BY <1>3, SortFindsCycles
<1>7. IF ret
      THEN at' = [at EXCEPT ![c] = "false"] /\ g_clone' = g_clone
      ELSE /\ at' = [at EXCEPT ![c] = "looping"]
           /\ g_clone' = [g_clone EXCEPT ![c] = given]
  BY <1>4 DEF Check
<1> HIDE DEF ret
<1>8. given \in GraphTypes
  BY <1>3, Fields
<1>9. /\ at \in [Calls -> {"idle", "looping", "queueing", "true", "false"}]
      /\ g_clone \in [Calls -> GraphTypes]
  BY <1>2 DEF ProcessTypes
<1>10. Queue!TypeOK'
  BY <1>1, <1>2 DEF ProcessTypes, queueVars, Queue!TypeOK
<1>11. ProcessTypes'
  <2>1. at' \in [Calls -> {"idle", "looping", "queueing", "true", "false"}]
    BY <1>7, <1>9
  <2>2. g_clone' \in [Calls -> GraphTypes]
    BY <1>7, <1>8, <1>9
  <2> QED
    BY <1>1, <1>2, <1>10, <2>1, <2>2 DEF ProcessTypes
<1>12. OrderInv'
  BY <1>1, <1>2 DEF OrderInv, Precedes, queueVars
<1>13. fresh' = fresh
  BY <1>1 DEF queueVars
<1>14. CallInv(c)'
  <2>1. /\ out[c] = <<>> /\ todo[c] = <<>>
        /\ \A v \in HasTask : TaskOf(v, c) \notin fresh <=> v \in Queued(c)
    BY <1>1, <1>2 DEF CallInv
  <2>2. CASE ret
    <3>1. at'[c] = "false" /\ HasCycle(given)
      BY <1>5, <1>7, <1>9, <2>2
    <3> QED
      BY <1>1, <1>13, <2>1, <3>1 DEF CallInv, Queued
  <2>3. CASE ~ret
    <3>1. at'[c] = "looping" /\ g_clone'[c] = given /\ Acyclic(given)
      BY <1>5, <1>6, <1>7, <1>9, <2>3
    <3>2. BatchInv(given, given, <<>>)
      BY <1>3, BatchStart
    <3> QED
      BY <1>1, <1>13, <2>1, <3>1, <3>2 DEF CallInv, Queued
  <2> QED
    BY <2>2, <2>3
<1>15. ASSUME NEW d \in Calls, d # c PROVE CallInv(d)'
  <2>1. at'[d] = at[d] /\ g_clone'[d] = g_clone[d]
    BY <1>7, <1>9, <1>15
  <2>2. CallInv(d)
    BY <1>2
  <2> QED
    BY <1>1, <1>13, <2>1, <2>2, CallSame
<1> QED
  BY <1>11, <1>12, <1>14, <1>15 DEF ProcessInv

\* The loop takes the next batch, or ends.
LEMMA TakeBatchStep ==
    ASSUME ProcessInv, NEW c \in Calls, TakeBatch(c)
    PROVE  ProcessInv'
<1> DEFINE batch == dag_vertices_with_no_incomming_edges(g_clone[c])
           rest == RemoveVertices(g_clone[c], Elements(batch))
<1>1. /\ given' = given /\ taken' = taken
      /\ at[c] = "looping" /\ UNCHANGED queueVars
  BY DEF TakeBatch
<1>2. ProcessTypes /\ OrderInv /\ \A d \in Calls : CallInv(d)
  BY DEF ProcessInv
<1>3. WellFormed(given)
  BY <1>2, GraphsWellFormed DEF ProcessTypes
<1>4. /\ Acyclic(given) /\ BatchInv(given, g_clone[c], out[c]) /\ todo[c] = <<>>
      /\ \A v \in HasTask : TaskOf(v, c) \notin fresh <=> v \in Queued(c)
  BY <1>1, <1>2 DEF CallInv
<1>5. WellFormed(g_clone[c]) /\ out[c] \in Seq(Seq(Vertices))
  BY <1>4 DEF BatchInv
<1>6. /\ batch \in Seq(Vertices) /\ Injective(batch)
      /\ Elements(batch) = {v \in VerticesOf(g_clone[c]) : Sources(g_clone[c], v) = {}}
  BY <1>5, BatchFacts
<1>7. BatchInv(given, rest, Append(out[c], batch))
  BY <1>3, <1>4, BatchStep
<1>8. batch = <<>> => VerticesOf(g_clone[c]) = {}
  BY <1>3, <1>4, LastBatch
<1>9. IF batch = <<>>
      THEN /\ at' = [at EXCEPT ![c] = "true"]
           /\ g_clone' = g_clone /\ out' = out /\ todo' = todo
      ELSE /\ at' = [at EXCEPT ![c] = "queueing"]
           /\ g_clone' = [g_clone EXCEPT ![c] = rest]
           /\ out' = [out EXCEPT ![c] = Append(out[c], batch)]
           /\ todo' = [todo EXCEPT ![c] = batch]
  BY DEF TakeBatch, callVars
<1> HIDE DEF batch, rest
<1>10. /\ at \in [Calls -> {"idle", "looping", "queueing", "true", "false"}]
       /\ g_clone \in [Calls -> GraphTypes]
       /\ out \in [Calls -> Seq(Seq(Vertices))]
       /\ todo \in [Calls -> Seq(Vertices)]
  BY <1>2 DEF ProcessTypes
<1>11. rest \in GraphTypes /\ Append(out[c], batch) \in Seq(Seq(Vertices))
  BY <1>7, Fields DEF BatchInv
<1>12. Queue!TypeOK' /\ fresh' = fresh
  BY <1>1, <1>2 DEF ProcessTypes, queueVars, Queue!TypeOK
<1>13. ProcessTypes'
  <2>1. at' \in [Calls -> {"idle", "looping", "queueing", "true", "false"}]
    BY <1>9, <1>10
  <2>2. g_clone' \in [Calls -> GraphTypes]
    BY <1>9, <1>10, <1>11
  <2>3. out' \in [Calls -> Seq(Seq(Vertices))]
    BY <1>9, <1>10, <1>11
  <2>4. todo' \in [Calls -> Seq(Vertices)]
    BY <1>6, <1>9, <1>10
  <2> QED
    BY <1>1, <1>2, <1>12, <2>1, <2>2, <2>3, <2>4 DEF ProcessTypes
<1>14. OrderInv'
  BY <1>1, <1>2 DEF OrderInv, Precedes, queueVars
<1>15. CallInv(c)'
  <2>1. CASE batch = <<>>
    <3>1. /\ at'[c] = "true" /\ g_clone'[c] = g_clone[c] /\ out'[c] = out[c] /\ todo'[c] = todo[c]
      BY <1>9, <1>10, <2>1
    <3> QED
      BY <1>1, <1>4, <1>8, <1>12, <2>1, <3>1 DEF CallInv, Queued
  <2>2. CASE batch # <<>>
    <3> DEFINE b == Append(out[c], batch)
    <3>1. at'[c] = "queueing" /\ g_clone'[c] = rest /\ out'[c] = b /\ todo'[c] = batch
      BY <1>9, <1>10, <2>2
    <3>2. b # <<>> /\ b[Len(b)] = batch /\ Done(b) = Done(out[c]) \cup Elements(batch)
      BY <1>5, <1>6, DoneAppend
    <3> HIDE DEF b
    <3>3. Elements(batch) \cap Done(out[c]) = {}
      BY <1>4, <1>6 DEF BatchInv
    <3>4. Queued(c)' = Queued(c)
      <4>1. Queued(c) = Done(out[c])
        BY <1>4, DoneEmpty DEF Queued
      <4>2. Queued(c)' = Done(b) \ Elements(batch)
        BY <3>1 DEF Queued
      <4> QED
        BY <3>2, <3>3, <4>1, <4>2
    <3>5. \A v \in HasTask : TaskOf(v, c) \notin fresh' <=> v \in Queued(c)'
      BY <1>4, <1>12, <3>4
    <3>6. BatchInv(given, rest, b)
      BY <1>7 DEF b
    <3> QED
      BY <1>1, <1>4, <1>6, <2>2, <3>1, <3>2, <3>5, <3>6 DEF CallInv
  <2> QED
    BY <2>1, <2>2
<1>16. ASSUME NEW d \in Calls, d # c PROVE CallInv(d)'
  <2>1. at'[d] = at[d] /\ g_clone'[d] = g_clone[d] /\ out'[d] = out[d] /\ todo'[d] = todo[d]
    BY <1>9, <1>10, <1>16
  <2>2. CallInv(d)
    BY <1>2
  <2> QED
    BY <1>1, <1>12, <2>1, <2>2, CallSame
<1> QED
  BY <1>13, <1>14, <1>15, <1>16 DEF ProcessInv

\* The entries of the queue are tasks or null.
LEMMA QueuedTypes ==
    Queue!TypeOK =>
        /\ queue_ \in Seq(Tasks \cup {NoTask}) /\ Len(queue_) \in Nat
        /\ DOMAIN queue_ = 1..Len(queue_)
        /\ \A i \in DOMAIN queue_ : queue_[i] # NoTask => queue_[i] \in Tasks
        /\ fresh \subseteq Tasks
  BY DEF Queue!TypeOK, Queue!Pointers

\* A task is queued behind what is in the queue: nothing that comes after it is
\* there or was there.
LEMMA QueueTaskStep ==
    ASSUME ProcessInv, NEW c \in Calls, QueueTask(c)
    PROVE  ProcessInv'
<1> DEFINE v == Head(todo[c])
           t == TaskOf(v, c)
<1>1. /\ given' = given /\ taken' = taken /\ g_clone' = g_clone /\ out' = out
      /\ at[c] = "queueing" /\ Queue!push(t)
      /\ todo' = [todo EXCEPT ![c] = Tail(todo[c])]
      /\ at' = [at EXCEPT ![c] = IF Len(todo[c]) = 1 THEN "looping" ELSE "queueing"]
  BY DEF QueueTask
<1>2. ProcessTypes /\ OrderInv /\ \A d \in Calls : CallInv(d)
  BY DEF ProcessInv
<1>3. /\ at \in [Calls -> {"idle", "looping", "queueing", "true", "false"}]
      /\ todo \in [Calls -> Seq(Vertices)] /\ Queue!TypeOK
  BY <1>2 DEF ProcessTypes
<1>4. /\ out[c] # <<>> /\ todo[c] # <<>> /\ Injective(todo[c])
      /\ Elements(todo[c]) \subseteq Elements(out[c][Len(out[c])])
      /\ Acyclic(given) /\ BatchInv(given, g_clone[c], out[c])
      /\ \A w \in HasTask : TaskOf(w, c) \notin fresh <=> w \in Queued(c)
  BY <1>1, <1>2 DEF CallInv
<1>5. /\ v \in Vertices /\ v \in Elements(todo[c])
      /\ Tail(todo[c]) \in Seq(Vertices) /\ Injective(Tail(todo[c]))
      /\ Elements(Tail(todo[c])) = Elements(todo[c]) \ {v}
  <2>1. todo[c] \in Seq(Vertices)
    BY <1>3
  <2> QED
    BY <1>4, <2>1, TailElements
<1>6. Len(todo[c]) = 1 <=> Tail(todo[c]) = <<>>
  <2> DEFINE s == todo[c]
  <2>1. s \in Seq(Vertices) /\ s # <<>>
    <3>1. todo[c] \in Seq(Vertices)
      BY <1>3
    <3> QED
      BY <1>4, <3>1
  <2> HIDE DEF s
  <2>2. /\ Len(s) \in Nat \ {0} /\ Tail(s) \in Seq(Vertices)
        /\ Len(Tail(s)) = Len(s) - 1
    BY <2>1
  <2>3. Tail(s) = <<>> <=> Len(Tail(s)) = 0
    <3> DEFINE r == Tail(s)
    <3>1. r \in Seq(Vertices)
      BY <2>2
    <3> HIDE DEF r
    <3>2. r = <<>> <=> Len(r) = 0
      BY <3>1
    <3> QED
      BY <3>2 DEF r
  <2>4. Len(s) = 1 <=> Tail(s) = <<>>
    BY <2>2, <2>3
  <2> QED
    BY <2>4 DEF s
<1>7. v \in Done(out[c])
  <2>1. out[c] \in Seq(Seq(Vertices))
    BY <1>4 DEF BatchInv
  <2>2. Len(out[c]) \in DOMAIN out[c]
    BY <1>4, <2>1
  <2> QED
    BY <1>4, <1>5, <2>2 DEF Done
<1> HIDE DEF v
<1>8. t \in Tasks \cup {NoTask}
  BY TaskFacts
<1>9. /\ t \in fresh \cup {NoTask}
      /\ queue_' = Append(queue_, t) /\ fresh' = fresh \ {t}
      /\ call' = [d \in {Runner, Killer} |-> IF call[d] = "waiting" THEN "woken" ELSE call[d]]
      /\ UNCHANGED <<timed, expired, held, destroyed, process>>
  BY <1>1 DEF Queue!push, Queue!NotifyAll
<1> HIDE DEF t
<1>10. Queue!TypeOK'
  <2>1. queue_' \in Seq(Tasks \cup {NoTask})
    BY <1>3, <1>8, <1>9 DEF Queue!TypeOK, Queue!Pointers
  <2>2. call' \in [{Runner, Killer} -> {"idle", "waiting", "woken"}]
    BY <1>3, <1>9 DEF Queue!TypeOK
  <2> QED
    BY <1>3, <1>9, <2>1, <2>2 DEF Queue!TypeOK, Queue!Pointers
<1>11. ProcessTypes'
  <2>1. at' \in [Calls -> {"idle", "looping", "queueing", "true", "false"}]
    BY <1>1, <1>3
  <2>2. todo' \in [Calls -> Seq(Vertices)]
    BY <1>1, <1>3, <1>5
  <2> QED
    BY <1>1, <1>2, <1>10, <2>1, <2>2 DEF ProcessTypes
<1>12. /\ \A w \in HasTask : TaskOf(w, c) = t <=> w = v
       /\ \A d \in Calls : d # c => \A w \in HasTask : TaskOf(w, d) # t
  BY TaskFacts, NoTaskAssumption DEF t
<1>13. CallInv(c)'
  <2>1. /\ at'[c] = (IF Len(todo[c]) = 1 THEN "looping" ELSE "queueing")
        /\ todo'[c] = Tail(todo[c])
    BY <1>1, <1>3
  <2>2. Queued(c)' = Queued(c) \cup {v}
    <3>1. Queued(c)' = Done(out[c]) \ (Elements(todo[c]) \ {v})
      BY <1>1, <1>5, <2>1 DEF Queued
    <3> QED
      BY <1>7, <3>1 DEF Queued
  <2>3. \A w \in HasTask : TaskOf(w, c) \notin fresh' <=> w \in Queued(c)'
    BY <1>4, <1>9, <1>12, <2>2
  <2>4. Elements(todo'[c]) \subseteq Elements(out[c][Len(out[c])])
    BY <1>4, <1>5, <2>1
  <2>5. CASE Tail(todo[c]) = <<>>
    <3>1. at'[c] = "looping" /\ todo'[c] = <<>>
      BY <1>6, <2>1, <2>5
    <3> QED
      BY <1>1, <1>4, <2>3, <3>1 DEF CallInv
  <2>6. CASE Tail(todo[c]) # <<>>
    <3>1. at'[c] = "queueing" /\ todo'[c] # <<>> /\ Injective(todo'[c])
      BY <1>5, <1>6, <2>1, <2>6
    <3> QED
      BY <1>1, <1>4, <2>3, <2>4, <3>1 DEF CallInv
  <2> QED
    BY <2>5, <2>6
<1>14. ASSUME NEW d \in Calls, d # c PROVE CallInv(d)'
  <2>1. at'[d] = at[d] /\ g_clone'[d] = g_clone[d] /\ out'[d] = out[d] /\ todo'[d] = todo[d]
    BY <1>1, <1>3, <1>14
  <2>2. CallInv(d)
    BY <1>2
  <2>3. \A w \in HasTask : TaskOf(w, d) \in fresh' <=> TaskOf(w, d) \in fresh
    BY <1>9, <1>12, <1>14
  <2> QED
    BY <1>1, <2>1, <2>2, <2>3, CallSame
<1>15. OrderInv'
  <2> DEFINE n == Len(queue_)
  <2>1. /\ n \in Nat /\ DOMAIN queue_ = 1..n
        /\ \A i \in DOMAIN queue_ : queue_[i] # NoTask => queue_[i] \in Tasks
    BY <1>3, QueuedTypes
  <2>2. /\ DOMAIN queue_' = 1..(n + 1)
        /\ queue_'[n + 1] = t /\ \A i \in 1..n : queue_'[i] = queue_[i]
    BY <1>3, <1>8, <1>9, <2>1, QueuedTypes
  <2> HIDE DEF n
  <2>3. \A u \in Tasks : u \notin fresh /\ t # NoTask => ~Precedes(t, u)
    <3> SUFFICES ASSUME NEW u \in Tasks, u \notin fresh, t # NoTask, Precedes(t, u) PROVE FALSE
      OBVIOUS
    <3>1. t \in Tasks /\ t \in fresh
      BY <1>8, <1>9
    <3> QED
      BY <1>2, <3>1, PredecessorsQueued
  <2>4. /\ taken \subseteq Tasks \ fresh
        /\ \A i \in DOMAIN queue_ : queue_[i] \notin fresh
        /\ \A i, j \in DOMAIN queue_ :
            i < j /\ queue_[i] # NoTask /\ queue_[j] # NoTask => ~Precedes(queue_[j], queue_[i])
        /\ \A u \in taken : \A i \in DOMAIN queue_ :
            queue_[i] # NoTask => ~Precedes(queue_[i], u)
    BY <1>2 DEF OrderInv
  <2>5. \A x, y : Precedes(x, y)' <=> Precedes(x, y)
    BY <1>1 DEF Precedes
  <2>6. taken' \subseteq Tasks \ fresh'
    BY <1>1, <1>9, <2>4
  <2>7. \A i \in DOMAIN queue_' : queue_'[i] \notin fresh'
    BY <1>9, <2>1, <2>2, <2>4
  <2>8. ASSUME NEW i \in DOMAIN queue_', NEW j \in DOMAIN queue_', i < j,
               queue_'[i] # NoTask, queue_'[j] # NoTask
        PROVE  ~Precedes(queue_'[j], queue_'[i])
    <3>1. i \in 1..n /\ i \in DOMAIN queue_ /\ queue_'[i] = queue_[i]
      BY <2>1, <2>2, <2>8
    <3>2. CASE j = n + 1
      BY <2>1, <2>2, <2>3, <2>4, <2>8, <3>1, <3>2
    <3>3. CASE j \in 1..n
      BY <2>1, <2>2, <2>4, <2>8, <3>1, <3>3
    <3> QED
      BY <2>1, <2>2, <3>2, <3>3
  <2>9. ASSUME NEW u \in taken, NEW i \in DOMAIN queue_', queue_'[i] # NoTask
        PROVE  ~Precedes(queue_'[i], u)
    <3>1. CASE i = n + 1
      BY <2>2, <2>3, <2>4, <2>9, <3>1
    <3>2. CASE i \in 1..n
      BY <2>1, <2>2, <2>4, <2>9, <3>2
    <3> QED
      BY <2>1, <2>2, <3>1, <3>2
  <2> QED
    BY <1>1, <2>5, <2>6, <2>7, <2>8, <2>9 DEF OrderInv
<1> QED
  BY <1>11, <1>13, <1>14, <1>15 DEF ProcessInv

\* The runner takes the head of the queue: what comes before it is not behind.
LEMMA PopStep ==
    ASSUME ProcessInv, Pop
    PROVE  ProcessInv'
<1>1. /\ given' = given /\ at' = at /\ g_clone' = g_clone /\ out' = out /\ todo' = todo
      /\ queue_ # <<>> /\ taken' = taken \cup ({Head(queue_)} \ {NoTask})
      /\ queue_' = Tail(queue_) /\ fresh' = fresh
  BY DEF Pop, callVars, Queue!wait_for_and_pop, Queue!StartWait, Queue!PopInto
<1>2. ProcessTypes /\ OrderInv /\ \A d \in Calls : CallInv(d)
  BY DEF ProcessInv
<1>3. Queue!TypeOK
  BY <1>2 DEF ProcessTypes
<1> DEFINE n == Len(queue_)
<1>4. /\ n \in Nat \ {0} /\ DOMAIN queue_ = 1..n
      /\ \A i \in DOMAIN queue_ : queue_[i] # NoTask => queue_[i] \in Tasks
      /\ Head(queue_) = queue_[1] /\ DOMAIN queue_' = 1..(n - 1)
      /\ \A i \in 1..(n - 1) : queue_'[i] = queue_[i + 1]
  BY <1>1, <1>3, QueuedTypes
<1> HIDE DEF n
<1>5. Queue!TypeOK'
  <2>1. queue_' \in Seq(Tasks \cup {NoTask}) /\ Head(queue_) \in Tasks \cup {NoTask}
    BY <1>1, <1>3, QueuedTypes
  <2>2. /\ held' = [held EXCEPT ![Runner] = Head(queue_)]
        /\ destroyed' = destroyed \cup ({held[Runner]} \ {NoTask})
        /\ UNCHANGED <<process, call, timed, expired>>
    BY <1>1 DEF Pop, Queue!wait_for_and_pop, Queue!StartWait, Queue!PopInto, Queue!waitVars
  <2>3. held' \in [{Runner, Killer} -> Tasks \cup {NoTask}] /\ held[Runner] \in Tasks \cup {NoTask}
    BY <1>3, <2>1, <2>2 DEF Queue!TypeOK, Queue!Pointers
  <2>4. destroyed' \subseteq Tasks
    BY <1>3, <2>2, <2>3 DEF Queue!TypeOK
  <2> QED
    BY <1>1, <1>3, <2>1, <2>2, <2>3, <2>4 DEF Queue!TypeOK, Queue!Pointers
<1>6. ProcessTypes'
  BY <1>1, <1>2, <1>5 DEF ProcessTypes
<1>7. \A d \in Calls : CallInv(d)'
  BY <1>1, <1>2, CallSame
<1>8. /\ taken \subseteq Tasks \ fresh
      /\ \A i \in DOMAIN queue_ : queue_[i] \notin fresh
      /\ \A i, j \in DOMAIN queue_ :
            i < j /\ queue_[i] # NoTask /\ queue_[j] # NoTask => ~Precedes(queue_[j], queue_[i])
      /\ \A u \in taken : \A i \in DOMAIN queue_ :
            queue_[i] # NoTask => ~Precedes(queue_[i], u)
  BY <1>2 DEF OrderInv
<1>9. \A x, y : Precedes(x, y)' <=> Precedes(x, y)
  BY <1>1 DEF Precedes
<1>10. taken' \subseteq Tasks \ fresh'
  BY <1>1, <1>4, <1>8
<1>11. \A i \in DOMAIN queue_' : i + 1 \in DOMAIN queue_ /\ queue_'[i] = queue_[i + 1] /\ 1 < i + 1
  BY <1>4
<1>12. \A i \in DOMAIN queue_' : queue_'[i] \notin fresh'
  BY <1>1, <1>8, <1>11
<1>13. ASSUME NEW i \in DOMAIN queue_', NEW j \in DOMAIN queue_', i < j,
              queue_'[i] # NoTask, queue_'[j] # NoTask
       PROVE  ~Precedes(queue_'[j], queue_'[i])
  <2>1. i + 1 < j + 1
    BY <1>4, <1>13
  <2> QED
    BY <1>8, <1>11, <1>13, <2>1
<1>14. ASSUME NEW u \in taken', NEW i \in DOMAIN queue_', queue_'[i] # NoTask
       PROVE  ~Precedes(queue_'[i], u)
  <2>1. CASE u \in taken
    BY <1>8, <1>11, <1>14, <2>1
  <2>2. CASE u = queue_[1] /\ u # NoTask
    <3>1. 1 \in DOMAIN queue_
      BY <1>4
    <3> QED
      BY <1>8, <1>11, <1>14, <2>2, <3>1
  <2> QED
    BY <1>1, <1>4, <2>1, <2>2
<1>15. OrderInv'
  BY <1>9, <1>10, <1>12, <1>13, <1>14 DEF OrderInv
<1> QED
  BY <1>6, <1>7, <1>15 DEF ProcessInv

\* kill_task takes entries out of the middle and leaves the others in order, or
\* dereferences a null entry and changes nothing.
LEMMA KillStep ==
    ASSUME ProcessInv, NEW u \in HasTask, kill_task(u)
    PROVE  ProcessInv'
<1>1. /\ given' = given /\ at' = at /\ g_clone' = g_clone /\ out' = out /\ todo' = todo
      /\ taken' = taken /\ fresh' = fresh /\ UNCHANGED <<call, timed, expired>>
  BY DEF kill_task, callVars, Queue!remove_task_from_queue, Queue!waitVars
<1>2. ProcessTypes /\ OrderInv /\ \A d \in Calls : CallInv(d)
  BY DEF ProcessInv
<1>3. Queue!TypeOK
  BY <1>2 DEF ProcessTypes
<1>4. \/ process' = "segfault" /\ UNCHANGED <<queue_, held, destroyed>>
      \/ /\ NoTask \notin Queue!Entries(queue_) /\ process' = process
         /\ Queue!KeepOnly(u) /\ Queue!MoveMatches(u, Killer)
  BY DEF kill_task, Queue!remove_task_from_queue
<1> DEFINE Picks(q, pos, n) ==
                /\ pos \in [1..n -> DOMAIN queue_]
                /\ \A i, j \in 1..n : i < j => pos[i] < pos[j]
                /\ DOMAIN q = 1..n
                /\ \A i \in 1..n : q[i] = queue_[pos[i]]
                /\ q \in Seq(Tasks \cup {NoTask})
<1>5. \E n \in Nat : \E pos : Picks(queue_', pos, n)
  <2>1. /\ queue_ \in Seq(Tasks \cup {NoTask}) /\ Len(queue_) \in Nat
        /\ DOMAIN queue_ = 1..Len(queue_)
    BY <1>3, QueuedTypes
  <2>2. CASE queue_' = queue_
    <3> DEFINE p == [i \in 1..Len(queue_) |-> i]
    <3>1. Picks(queue_, p, Len(queue_))
      BY <2>1
    <3> HIDE DEF p, Picks
    <3> QED
      BY <2>1, <2>2, <3>1
  <2>3. CASE Queue!KeepOnly(u)
    <3>0. PICK m \in 0..Len(queue_) : \E p \in [1..m -> Queue!Kept(u)] :
            /\ \A i, j \in 1..m : i < j => p[i] < p[j]
            /\ queue_' = [i \in 1..m |-> queue_[p[i]]]
      BY <2>3 DEF Queue!KeepOnly
    <3>1. PICK p \in [1..m -> Queue!Kept(u)] :
            /\ \A i, j \in 1..m : i < j => p[i] < p[j]
            /\ queue_' = [i \in 1..m |-> queue_[p[i]]]
      BY <3>0
    <3>2. m \in Nat /\ p \in [1..m -> DOMAIN queue_]
      <4>1. Queue!Kept(u) \subseteq DOMAIN queue_
        BY DEF Queue!Kept
      <4> HIDE DEF Picks
      <4> QED
        BY <2>1, <3>1, <4>1
    <3>3. \A i \in 1..m : queue_[p[i]] \in Tasks \cup {NoTask}
      BY <2>1, <3>2
    <3>4. queue_' \in Seq(Tasks \cup {NoTask})
      BY <3>1, <3>2, <3>3
    <3>5. DOMAIN queue_' = 1..m /\ \A i \in 1..m : queue_'[i] = queue_[p[i]]
      BY <3>1
    <3>6. Picks(queue_', p, m)
      BY <3>1, <3>2, <3>4, <3>5
    <3> HIDE DEF Picks
    <3> QED
      BY <3>2, <3>6
  <2> QED
    BY <1>4, <2>2, <2>3
<1>5a. PICK n \in Nat : \E pos : Picks(queue_', pos, n)
  BY <1>5
<1>5b. PICK pos : Picks(queue_', pos, n)
  BY <1>5a
<1>6. Queue!TypeOK'
  <2>1. /\ held \in [{Runner, Killer} -> Tasks \cup {NoTask}] /\ destroyed \subseteq Tasks
    BY <1>3 DEF Queue!TypeOK, Queue!Pointers
  <2>2. /\ held' \in [{Runner, Killer} -> Tasks \cup {NoTask}] /\ destroyed' \subseteq Tasks
    <3>1. CASE UNCHANGED <<held, destroyed>>
      BY <2>1, <3>1
    <3>2. CASE NoTask \notin Queue!Entries(queue_) /\ Queue!MoveMatches(u, Killer)
      <4>1. \A i \in DOMAIN queue_ : queue_[i] \in Tasks
        BY <1>3, <3>2, QueuedTypes DEF Queue!Entries
      <4>2. CASE Queue!Matches(u) = {}
        BY <2>1, <3>2, <4>2 DEF Queue!MoveMatches
      <4>3. CASE Queue!Matches(u) # {}
        <5>1. PICK last \in Queue!Matches(u) :
                /\ held' = [held EXCEPT ![Killer] = queue_[last]]
                /\ destroyed' = destroyed
                     \cup ({queue_[i] : i \in Queue!Matches(u) \ {last}})
                     \cup ({held[Killer]} \ {NoTask})
          BY <3>2, <4>3 DEF Queue!MoveMatches
        <5>2. Queue!Matches(u) \subseteq DOMAIN queue_
          BY DEF Queue!Matches
        <5> QED
          BY <2>1, <4>1, <5>1, <5>2
      <4> QED
        BY <4>2, <4>3
    <3> QED
      BY <1>4, <3>1, <3>2
  <2>3. process' \in {"alive", "segfault", "terminated"}
    BY <1>3, <1>4 DEF Queue!TypeOK
  <2> QED
    BY <1>1, <1>3, <1>5b, <2>2, <2>3 DEF Queue!TypeOK, Queue!Pointers
<1>7. ProcessTypes'
  BY <1>1, <1>2, <1>6 DEF ProcessTypes
<1>8. \A d \in Calls : CallInv(d)'
  BY <1>1, <1>2, CallSame
<1>9. /\ taken \subseteq Tasks \ fresh
      /\ \A i \in DOMAIN queue_ : queue_[i] \notin fresh
      /\ \A i, j \in DOMAIN queue_ :
            i < j /\ queue_[i] # NoTask /\ queue_[j] # NoTask => ~Precedes(queue_[j], queue_[i])
      /\ \A t \in taken : \A i \in DOMAIN queue_ :
            queue_[i] # NoTask => ~Precedes(queue_[i], t)
  BY <1>2 DEF OrderInv
<1>10. \A x, y : Precedes(x, y)' <=> Precedes(x, y)
  BY <1>1 DEF Precedes
<1>11. \A i \in DOMAIN queue_' : pos[i] \in DOMAIN queue_ /\ queue_'[i] = queue_[pos[i]]
  BY <1>5b
<1>12. \A i \in DOMAIN queue_' : queue_'[i] \notin fresh'
  BY <1>1, <1>9, <1>11
<1>13. \A i, j \in DOMAIN queue_' :
        i < j /\ queue_'[i] # NoTask /\ queue_'[j] # NoTask => ~Precedes(queue_'[j], queue_'[i])
  BY <1>5b, <1>9, <1>11
<1>14. \A t \in taken' : \A i \in DOMAIN queue_' :
        queue_'[i] # NoTask => ~Precedes(queue_'[i], t)
  BY <1>1, <1>9, <1>11
<1>15. OrderInv'
  BY <1>1, <1>9, <1>10, <1>12, <1>13, <1>14 DEF OrderInv
<1> QED
  BY <1>7, <1>8, <1>15 DEF ProcessInv

\* The invariant holds before any call.
LEMMA ProcessInvInit == ASSUME ProcessInit PROVE ProcessInv
<1>1. /\ given \in Graphs
      /\ at = [c \in Calls |-> "idle"] /\ g_clone = [c \in Calls |-> EmptyGraph]
      /\ out = [c \in Calls |-> <<>>] /\ todo = [c \in Calls |-> <<>>]
      /\ taken = {} /\ queue_ = <<>> /\ fresh = Tasks
  BY DEF ProcessInit, Queue!Init
<1>2. EmptyGraph \in GraphTypes
  BY EmptyWellFormed, Fields
<1>3. Queue!TypeOK
  BY DEF ProcessInit, Queue!Init, Queue!TypeOK, Queue!Pointers
<1>4. ProcessTypes
  BY <1>1, <1>2, <1>3 DEF ProcessTypes
<1>5. ASSUME NEW c \in Calls PROVE CallInv(c)
  <2>1. at[c] = "idle" /\ out[c] = <<>> /\ todo[c] = <<>>
    BY <1>1
  <2>2. \A v \in HasTask : TaskOf(v, c) \in fresh
    BY <1>1, TaskFacts
  <2>3. Queued(c) = {}
    BY <2>1, DoneEmpty DEF Queued
  <2> QED
    BY <2>1, <2>2, <2>3 DEF CallInv
<1>6. OrderInv
  <2>1. DOMAIN queue_ = {}
    BY <1>1
  <2> QED
    BY <1>1, <2>1 DEF OrderInv
<1> QED
  BY <1>4, <1>5, <1>6 DEF ProcessInv

\* The invariant is kept by every step of a call, the runner and kill_task.
LEMMA ProcessInvStep == ASSUME ProcessInv, [ProcessNext]_processVars PROVE ProcessInv'
<1>1. CASE UNCHANGED processVars
  <2>1. /\ given' = given /\ at' = at /\ g_clone' = g_clone /\ out' = out /\ todo' = todo
        /\ taken' = taken /\ UNCHANGED queueVars
    BY <1>1 DEF processVars, callVars
  <2>2. ProcessTypes' /\ OrderInv'
    BY <2>1 DEF ProcessInv, ProcessTypes, OrderInv, Precedes, queueVars, Queue!TypeOK
  <2>3. \A c \in Calls : CallInv(c)'
    BY <2>1, CallSame DEF ProcessInv, queueVars
  <2> QED
    BY <2>2, <2>3 DEF ProcessInv
<1>2. CASE ProcessNext
  <2>1. ASSUME NEW c \in Calls, Call(c) PROVE ProcessInv'
    BY <2>1, CheckStep, TakeBatchStep, QueueTaskStep DEF Call
  <2> QED
    BY <1>2, <2>1, PopStep, KillStep DEF ProcessNext
<1> QED
  BY <1>1, <1>2

\* The invariant of all calls of process_dag, the queue they fill, its runner
\* and kill_task: what is left of each clone, what is in the batches, which
\* tasks were queued, and in what order they are in the queue.
THEOREM ProcessInvariant == ProcessSpec => []ProcessInv
<1> QED
  BY ProcessInvInit, ProcessInvStep, PTL DEF ProcessSpec

\* dag_topological_sort succeeds exactly on acyclic graphs, with a list of all
\* vertices in which every edge leads forward: for any number of vertices, and
\* for every graph that connect can build, cyclic ones included.
THEOREM SortIsExact == ProcessSpec => []SortExact
<1>1. ASSUME given \in Graphs PROVE SortExact
  <2> DEFINE r == dag_topological_sort(given)
  <2>1. WellFormed(given)
    BY <1>1, GraphsWellFormed
  <2>2. r.ret <=> HasCycle(given)
    BY <2>1, SortFindsCycles
  <2>3. ASSUME ~r.ret PROVE SortedList(given, r.sorted)
    BY <2>1, <2>3, SortedOrder
  <2> HIDE DEF r
  <2>4. ASSUME ~r.ret
        PROVE  /\ Elements(r.sorted) = VerticesOf(given)
               /\ \A e \in Edge(given) :
                    PositionOf(r.sorted, e[1]) < PositionOf(r.sorted, e[2])
    <3>1. SortedList(given, r.sorted)
      BY <2>3, <2>4
    <3>2. Elements(r.sorted) = VerticesOf(given)
      BY <3>1 DEF SortedList
    <3> QED
      BY <3>1, <3>2, SortedAlongEdges
  <2> QED
    BY <2>2, <2>4 DEF SortExact, r
<1>2. ProcessInv => given \in Graphs
  BY DEF ProcessInv, ProcessTypes
<1> QED
  BY <1>1, <1>2, ProcessInvariant, PTL

\* A call of process_dag returns false exactly for a graph with a cycle; one
\* that returns true has put every vertex into exactly one batch, the earliest
\* after its predecessors', and has queued the task of each.
THEOREM BatchesAreExact == ProcessSpec => []BatchesExact
<1>1. ASSUME ProcessInv PROVE BatchesExact
  <2>1. ProcessTypes /\ OrderInv /\ \A c \in Calls : CallInv(c)
    BY <1>1 DEF ProcessInv
  <2>2. WellFormed(given) /\ VerticesOf(given) = Vertices
    BY <2>1, GraphsWellFormed DEF ProcessTypes
  <2>3. ProcessTypeOK
    <3>1. \A c \in Calls : todo[c] \in Seq(Vertices)
      BY <2>1 DEF ProcessTypes
    <3>2. \A c \in Calls : Elements(todo[c]) \subseteq VerticesOf(given)
      BY <2>2, <3>1 DEF Elements
    <3> QED
      BY <2>1, <3>2 DEF ProcessTypeOK, ProcessTypes, OrderInv
  <2>4. ASSUME NEW c \in Calls, at[c] = "false" PROVE HasCycle(given) /\ out[c] = <<>>
    BY <2>1, <2>4 DEF CallInv
  <2>5. ASSUME NEW c \in Calls, at[c] = "true"
        PROVE  /\ ~HasCycle(given) /\ AllBatched(given, out[c])
               /\ \A t \in Tasks : t.call = c => t \notin fresh
    <3>0. ~HasCycle(given)
      BY <2>1, <2>2, <2>5, AcyclicHasNoCycle DEF CallInv
    <3>1. /\ BatchInv(given, g_clone[c], out[c]) /\ VerticesOf(g_clone[c]) = {}
          /\ todo[c] = <<>>
          /\ \A v \in HasTask : TaskOf(v, c) \notin fresh <=> v \in Queued(c)
      BY <2>1, <2>5 DEF CallInv
    <3>2. AllBatched(given, out[c])
      BY <2>2, <3>1, BatchedAll
    <3>3. Queued(c) = Vertices
      <4>1. Vertices \ Done(out[c]) = {}
        BY <2>2, <3>1 DEF BatchInv
      <4> QED
        BY <3>1, <4>1, DoneEmpty DEF Queued, Done
    <3> QED
      BY <3>0, <3>1, <3>2, <3>3, TaskFacts, HasTaskAssumption
  <2> QED
    BY <2>3, <2>4, <2>5 DEF BatchesExact, AllBatched
<1> QED
  BY <1>1, ProcessInvariant, PTL

\* When the runner has a task, the tasks of all predecessors from the same call
\* have left the queue, however calls, pops and kill_task interleave.
THEOREM TasksTakenInOrder == ProcessSpec => []TakenInOrder
<1>1. ASSUME ProcessInv PROVE TakenInOrder
  <2>1. ProcessTypes /\ OrderInv /\ \A c \in Calls : CallInv(c)
    BY <1>1 DEF ProcessInv
  <2>2. ASSUME NEW t \in taken, NEW u \in HasTask, t.vertex \in Reachable(given, {u}),
               NEW before, before = [vertex |-> u, call |-> t.call]
        PROVE  before \notin fresh /\ before \notin Elements(queue_)
    <3>1. t \in Tasks /\ t \notin fresh
      BY <2>1, <2>2 DEF OrderInv
    <3>2. before \in Tasks /\ before # NoTask /\ Precedes(before, t)
      <4>1. t.call \in Calls
        BY <3>1 DEF Tasks
      <4>2. before \in Tasks
        BY <2>2, <4>1 DEF Tasks
      <4> QED
        BY <2>2, <4>2, NoTaskAssumption DEF Precedes
    <3>3. before \notin fresh
      BY <2>1, <3>1, <3>2, PredecessorsQueued
    <3>4. before \notin Elements(queue_)
      BY <2>1, <2>2, <3>2 DEF OrderInv, Elements
    <3> QED
      BY <3>3, <3>4
  <2> QED
    BY <2>2 DEF TakenInOrder
<1> QED
  BY <1>1, ProcessInvariant, PTL
=============================================================================
