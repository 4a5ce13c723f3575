------------------------ MODULE DependencyGraphProofs ------------------------
(***************************************************************************)
(* Theorems about DependencyGraph, and their proofs: what a traversal       *)
(* reaches, that the ranks kept edge by edge are the exact ones, and the    *)
(* invariants of marks, run states and evaluations that rest on it.         *)
(***************************************************************************)
EXTENDS DependencyGraph, FiniteSetTheorems, SequenceTheorems, TLAPS

Graphs == [Nodes -> [Names -> Nodes \union {NoNode}]]
Ranks == [Nodes -> Nat]
-----------------------------------------------------------------------------
(***************************************************************************)
(* What a traversal reaches.                                                *)
(***************************************************************************)
\* Reach has the nodes it starts from, no edge leaves it, and it is the smallest
\* such set.
LEMMA ReachFacts ==
  ASSUME NEW S \in SUBSET Nodes, NEW next \in [Nodes -> SUBSET Nodes]
  PROVE  /\ Reach(S, next) \in SUBSET Nodes
         /\ S \subseteq Reach(S, next)
         /\ Closed(Reach(S, next), next)
         /\ \A T \in SUBSET Nodes :
              S \subseteq T /\ Closed(T, next) => Reach(S, next) \subseteq T
<1>1. Reach(S, next) \in SUBSET Nodes /\ S \subseteq Reach(S, next)
  BY DEF Reach
<1>2. \A T \in SUBSET Nodes :
        S \subseteq T /\ Closed(T, next) => Reach(S, next) \subseteq T
  BY DEF Reach
<1>3. ASSUME NEW m \in Reach(S, next), NEW y \in next[m]
      PROVE  y \in Reach(S, next)
  <2>1. m \in Nodes /\ y \in Nodes
    BY <1>1
  <2>2. \A T \in SUBSET Nodes : S \subseteq T /\ Closed(T, next) => y \in T
    BY <1>2 DEF Closed
  <2> QED
    BY <2>1, <2>2 DEF Reach
<1> QED
  BY <1>1, <1>2, <1>3 DEF Closed

\* The edges of a graph: who depends on whom.
LEMMA EdgeFacts ==
  ASSUME NEW D \in Graphs, NEW n \in Nodes
  PROVE  /\ Dependencies(D, n) \in SUBSET Nodes
         /\ Dependents(D, n) \in SUBSET Nodes
         /\ \A m \in Nodes : m \in Dependents(D, n) <=> n \in Dependencies(D, m)
BY DEF Graphs, Dependencies, Dependents

\* Upstream has its nodes and what they depend on, and is the smallest such set.
LEMMA UpstreamFacts ==
  ASSUME NEW D \in Graphs, NEW S \in SUBSET Nodes
  PROVE  /\ Upstream(D, S) \in SUBSET Nodes
         /\ S \subseteq Upstream(D, S)
         /\ \A m \in Upstream(D, S) : Dependencies(D, m) \subseteq Upstream(D, S)
         /\ \A T \in SUBSET Nodes :
              S \subseteq T /\ (\A m \in T : Dependencies(D, m) \subseteq T) =>
                Upstream(D, S) \subseteq T
<1> DEFINE next == [n \in Nodes |-> Dependencies(D, n)]
<1>1. next \in [Nodes -> SUBSET Nodes]
  BY EdgeFacts
<1>2. \A m \in Nodes : next[m] = Dependencies(D, m)
  OBVIOUS
<1>3. Upstream(D, S) = Reach(S, next)
  BY DEF Upstream
<1> HIDE DEF next
<1> QED
  BY <1>1, <1>2, <1>3, ReachFacts DEF Closed

\* Downstream has its nodes and what depends on them, and is the smallest such set.
LEMMA DownstreamFacts ==
  ASSUME NEW D \in Graphs, NEW S \in SUBSET Nodes
  PROVE  /\ Downstream(D, S) \in SUBSET Nodes
         /\ S \subseteq Downstream(D, S)
         /\ \A m \in Downstream(D, S) : Dependents(D, m) \subseteq Downstream(D, S)
         /\ \A T \in SUBSET Nodes :
              S \subseteq T /\ (\A m \in T : Dependents(D, m) \subseteq T) =>
                Downstream(D, S) \subseteq T
<1> DEFINE next == [n \in Nodes |-> Dependents(D, n)]
<1>1. next \in [Nodes -> SUBSET Nodes]
  BY EdgeFacts
<1>2. \A m \in Nodes : next[m] = Dependents(D, m)
  OBVIOUS
<1>3. Downstream(D, S) = Reach(S, next)
  BY DEF Downstream
<1> HIDE DEF next
<1> QED
  BY <1>1, <1>2, <1>3, ReachFacts DEF Closed

\* What is upstream of a node upstream is upstream.
LEMMA UpstreamTransitive ==
  ASSUME NEW D \in Graphs, NEW S \in SUBSET Nodes, NEW m \in Upstream(D, S)
  PROVE  Upstream(D, {m}) \subseteq Upstream(D, S)
<1>1. m \in Nodes /\ {m} \in SUBSET Nodes
  BY UpstreamFacts
<1> QED
  BY <1>1, UpstreamFacts

\* One node is upstream of another when the other is downstream of it.
LEMMA UpstreamDownstream ==
  ASSUME NEW D \in Graphs, NEW n \in Nodes, NEW m \in Nodes
  PROVE  m \in Downstream(D, {n}) <=> n \in Upstream(D, {m})
<1>1. ASSUME NEW x \in Nodes, NEW y \in Nodes
      PROVE  y \in Downstream(D, {x}) => x \in Upstream(D, {y})
  <2> DEFINE T == {z \in Nodes : x \in Upstream(D, {z})}
  <2>1. x \in T
    BY UpstreamFacts
  <2>2. ASSUME NEW z \in T, NEW w \in Dependents(D, z)
        PROVE  w \in T
    <3>1. w \in Nodes /\ z \in Dependencies(D, w)
      BY EdgeFacts
    <3>2. z \in Upstream(D, {w})
      BY <3>1, UpstreamFacts
    <3>3. Upstream(D, {z}) \subseteq Upstream(D, {w})
      BY <3>1, <3>2, UpstreamTransitive
    <3> QED
      BY <3>1, <3>3
  <2>3. T \in SUBSET Nodes /\ {x} \subseteq T /\ \A z \in T : Dependents(D, z) \subseteq T
    BY <2>1, <2>2
  <2>4. Downstream(D, {x}) \subseteq T
    <3> HIDE DEF T
    <3> QED
      BY <2>3, DownstreamFacts
  <2> QED
    BY <2>4
<1>2. ASSUME NEW x \in Nodes, NEW y \in Nodes
      PROVE  x \in Upstream(D, {y}) => y \in Downstream(D, {x})
  <2> DEFINE T == {z \in Nodes : y \in Downstream(D, {z})}
  <2>1. y \in T
    BY DownstreamFacts
  <2>2. ASSUME NEW z \in T, NEW w \in Dependencies(D, z)
        PROVE  w \in T
    <3>1. w \in Nodes /\ z \in Dependents(D, w)
      BY EdgeFacts
    <3>2. z \in Downstream(D, {w})
      BY <3>1, DownstreamFacts
    <3>3. Downstream(D, {z}) \subseteq Downstream(D, {w})
      BY <3>1, <3>2, DownstreamFacts
    <3> QED
      BY <3>1, <3>3
  <2>3. T \in SUBSET Nodes /\ {y} \subseteq T /\ \A z \in T : Dependencies(D, z) \subseteq T
    BY <2>1, <2>2
  <2>4. Upstream(D, {y}) \subseteq T
    <3> HIDE DEF T
    <3> QED
      BY <2>3, UpstreamFacts
  <2> QED
    BY <2>4
<1> QED
  BY <1>1, <1>2

\* Fewer edges reach no more.
LEMMA DownstreamMonotone ==
  ASSUME NEW D \in Graphs, NEW E \in Graphs, NEW S \in SUBSET Nodes,
         NEW T \in SUBSET Nodes, S \subseteq Downstream(D, T),
         \A m \in Downstream(D, T) : Dependents(E, m) \subseteq Downstream(D, T)
  PROVE  Downstream(E, S) \subseteq Downstream(D, T)
<1>1. Downstream(D, T) \in SUBSET Nodes
  BY DownstreamFacts
<1> QED
  BY <1>1, DownstreamFacts
-----------------------------------------------------------------------------
(***************************************************************************)
(* Counting: induction on a set of numbers, the highest of a set of nodes.  *)
(***************************************************************************)
\* A set that has zero and the successor of each number it has has them all.
LEMMA SetInduction ==
  ASSUME NEW S, 0 \in S, \A k \in Nat : k \in S => k + 1 \in S
  PROVE  Nat \subseteq S
<1> DEFINE T == Nat \ S
           R == OpToRel(<, Nat)
<1>1. SUFFICES ASSUME T # {} PROVE FALSE
  OBVIOUS
<1>2. PICK k \in T : \A j \in T : <<j, k>> \notin R
  <2>1. IsWellFoundedOn(R, Nat) /\ T \subseteq Nat /\ T # {}
    BY <1>1, NatLessThanWellFounded
  <2> HIDE DEF T, R
  <2> QED
    BY <2>1, WFMin
<1>3. k \in Nat /\ k # 0
  OBVIOUS
<1>4. k - 1 \in Nat /\ k - 1 < k /\ (k - 1) + 1 = k
  BY <1>3
<1>5. <<k - 1, k>> \in R
  BY <1>3, <1>4 DEF OpToRel
<1>6. k - 1 \notin T
  BY <1>2, <1>5
<1> QED
  BY <1>3, <1>4, <1>6

\* Among any nodes there is a highest one.
LEMMA HighestNode ==
  ASSUME NEW W \in SUBSET Nodes, W # {}, NEW r \in Ranks
  PROVE  \E y \in W : \A x \in W : r[x] <= r[y]
<1> DEFINE U(x) == {z \in Nodes : r[z] > r[x]}
           T == {U(x) : x \in W}
           R == StrictSubsetOrdering(Nodes)
<1>1. IsWellFoundedOn(R, SUBSET Nodes)
  BY GraphConstants, FS_StrictSubsetOrderingWellFounded, FS_FiniteSubsetsOfFinite
<1>2. T \subseteq SUBSET Nodes /\ T # {}
  OBVIOUS
<1>3. PICK m \in T : \A e \in T : <<e, m>> \notin R
  <2> HIDE DEF T, R
  <2> QED
    BY <1>1, <1>2, WFMin
<1>4. PICK y \in W : m = U(y)
  OBVIOUS
<1>5. ASSUME NEW x \in W PROVE r[x] <= r[y]
  <2>1. r[x] \in Nat /\ r[y] \in Nat /\ x \in Nodes
    BY DEF Ranks
  <2>2. SUFFICES ASSUME r[x] > r[y] PROVE FALSE
    BY <2>1
  <2>3. \A z \in Nodes : r[z] > r[x] => r[z] > r[y]
    BY <2>1, <2>2 DEF Ranks
  <2>4. U(x) \subseteq U(y)
    BY <2>3
  <2>5. x \in U(y) /\ x \notin U(x)
    BY <2>1, <2>2
  <2>6. <<U(x), U(y)>> \in R
    BY <2>4, <2>5 DEF StrictSubsetOrdering
  <2> QED
    BY <1>3, <1>4, <2>6
<1> QED
  BY <1>5

\* SetToSeq lists a set, each of its elements.
LEMMA ListedSet ==
  ASSUME NEW S, IsFiniteSet(S)
  PROVE  SetToSeq(S) \in Seq(S) /\ {SetToSeq(S)[i] : i \in 1 .. Len(SetToSeq(S))} = S
<1>1. IsFiniteSet(S)
  OBVIOUS
<1>2. Cardinality(S) \in Nat /\ ExistsBijection(1 .. Cardinality(S), S)
  BY <1>1, FS_CardinalityType
<1>3. PICK f : f \in Bijection(1 .. Cardinality(S), S)
  BY <1>2 DEF ExistsBijection
<1>4. f \in [1 .. Cardinality(S) -> S] /\ IsInjective(f)
  BY <1>3 DEF Bijection, Injection
<1>5. /\ SetToSeq(S) \in [1 .. Cardinality(S) -> S]
      /\ IsInjective(SetToSeq(S))
  BY <1>4 DEF SetToSeq
<1>6. SetToSeq(S) \in Seq(S) /\ Len(SetToSeq(S)) = Cardinality(S)
  BY <1>2, <1>5
<1>7. SetToSeq(S) \in Injection(1 .. Cardinality(S), S)
  BY <1>5 DEF Injection
<1>8. SetToSeq(S) \in Surjection(1 .. Cardinality(S), S)
  BY <1>1, <1>7, FS_Injection, FS_Interval, FS_CardinalityType, FS_CountingElements, <1>2
<1> QED
  BY <1>5, <1>6, <1>8 DEF Surjection
-----------------------------------------------------------------------------
(***************************************************************************)
(* A rank is exact when it is above every dependency, and no higher.        *)
(***************************************************************************)
Low(D, r, n) == \A d \in Dependencies(D, n) : r[n] >= r[d] + 1
Tight(D, r, n) == r[n] = 0 \/ \E d \in Dependencies(D, n) : r[n] <= r[d] + 1
Exact(D, r) == \A n \in Nodes : r[n] = OwnRank(D, r, n)

\* OwnRank is above every dependency, and just above one of them unless zero.
LEMMA OwnRankFacts ==
  ASSUME NEW D \in Graphs, NEW r \in Ranks, NEW n \in Nodes
  PROVE  /\ OwnRank(D, r, n) \in Nat
         /\ \A d \in Dependencies(D, n) : OwnRank(D, r, n) >= r[d] + 1
         /\ \/ OwnRank(D, r, n) = 0
            \/ \E d \in Dependencies(D, n) : OwnRank(D, r, n) = r[d] + 1
<1> DEFINE W == Dependencies(D, n)
           S == {0} \union {r[m] + 1 : m \in W}
<1>1. W \in SUBSET Nodes
  BY EdgeFacts
<1>2. \A m \in W : r[m] \in Nat
  BY <1>1 DEF Ranks
<1>3. \E x \in S : \A y \in S : x >= y
  <2>1. CASE W = {}
    BY <2>1
  <2>2. CASE W # {}
    <3>1. PICK m \in W : \A d \in W : r[d] <= r[m]
      <4> HIDE DEF W
      <4> QED
        BY <1>1, <2>2, HighestNode
    <3>2. r[m] + 1 \in S /\ r[m] + 1 >= 0
      BY <1>2
    <3>3. \A d \in W : r[m] + 1 >= r[d] + 1
      BY <1>2, <3>1
    <3>4. \A y \in S : r[m] + 1 >= y
      BY <3>2, <3>3
    <3> QED
      BY <3>2, <3>4
  <2> QED
    BY <2>1, <2>2
<1>4. OwnRank(D, r, n) \in S /\ \A y \in S : OwnRank(D, r, n) >= y
  <2>1. OwnRank(D, r, n) = CHOOSE x \in S : \A y \in S : x >= y
    BY DEF OwnRank, Max
  <2> HIDE DEF S
  <2> QED
    BY <1>3, <2>1
<1>5. S \subseteq Nat
  BY <1>2
<1> QED
  BY <1>4, <1>5

\* The rank of a node is its own when it is low and tight.
LEMMA ExactRank ==
  ASSUME NEW D \in Graphs, NEW r \in Ranks, NEW n \in Nodes
  PROVE  r[n] = OwnRank(D, r, n) <=> Low(D, r, n) /\ Tight(D, r, n)
<1>1. r[n] \in Nat /\ \A d \in Dependencies(D, n) : r[d] \in Nat
  BY EdgeFacts DEF Ranks
<1>2. PICK k \in Nat : k = OwnRank(D, r, n)
  BY OwnRankFacts
<1>3. /\ \A d \in Dependencies(D, n) : k >= r[d] + 1
      /\ k = 0 \/ \E d \in Dependencies(D, n) : k = r[d] + 1
  BY <1>2, OwnRankFacts
<1>4. ASSUME r[n] = k PROVE Low(D, r, n) /\ Tight(D, r, n)
  BY <1>1, <1>3, <1>4 DEF Low, Tight
<1>5. ASSUME Low(D, r, n), Tight(D, r, n) PROVE r[n] = k
  <2>1. r[n] >= k
    BY <1>1, <1>3, <1>5 DEF Low
  <2>2. r[n] <= k
    BY <1>1, <1>3, <1>5 DEF Tight
  <2> QED
    BY <1>1, <2>1, <2>2
<1> QED
  BY <1>2, <1>4, <1>5

\* In a graph with exact ranks a node is not downstream of what depends on it.
LEMMA ExactAcyclic ==
  ASSUME NEW D \in Graphs, NEW r \in Ranks, Exact(D, r),
         NEW n \in Nodes, NEW d \in Dependencies(D, n)
  PROVE  d \in Nodes /\ r[n] \in Nat /\ r[d] \in Nat /\ r[n] > r[d]
<1>1. d \in Nodes
  BY EdgeFacts
<1>2. r[n] \in Nat /\ r[d] \in Nat
  BY <1>1 DEF Ranks
<1>3. r[n] >= r[d] + 1
  BY ExactRank DEF Exact, Low
<1> QED
  BY <1>1, <1>2, <1>3
-----------------------------------------------------------------------------
(***************************************************************************)
(* Making a visit and all that follow from it.                              *)
(***************************************************************************)
\* The rank a visit gives its node, and the visits it puts before the others.
NewRank(D, s) ==
  IF Head(s.work).recalculate THEN OwnRank(D, s.rank, Head(s.work).node)
  ELSE Raised(s.rank[Head(s.work).node], Head(s.work).above)
Onward(D, s, d) ==
  IF NewRank(D, s) < s.rank[Head(s.work).node] THEN Recalculate(d)
  ELSE MaybeIncrease(d, NewRank(D, s))

\* What a visit does: it gives its node the new rank and, when that is another
\* one, puts a visit to each dependent before the others.
LEMMA VisitedFacts ==
  ASSUME NEW D \in Graphs, NEW s \in Pending, s.work # <<>>
  PROVE  \E more \in Seq(Visits) :
           /\ Head(s.work) \in Visits /\ Tail(s.work) \in Seq(Visits)
           /\ NewRank(D, s) \in Nat
           /\ Visited(D, s) \in Pending
           /\ Visited(D, s).rank = [s.rank EXCEPT ![Head(s.work).node] = NewRank(D, s)]
           /\ Visited(D, s).work = more \o Tail(s.work)
           /\ {more[i] : i \in 1 .. Len(more)} =
                IF NewRank(D, s) = s.rank[Head(s.work).node] THEN {}
                ELSE {Onward(D, s, d) : d \in Dependents(D, Head(s.work).node)}
<1> DEFINE v == Head(s.work)
           old == s.rank[v.node]
           list == SetToSeq(Dependents(D, v.node))
           more == IF NewRank(D, s) = old THEN <<>>
                   ELSE [i \in DOMAIN list |-> Onward(D, s, list[i])]
<1>1. s.rank \in Ranks /\ s.work \in Seq(Visits)
  BY DEF Pending, Ranks
<1>2. v \in Visits /\ Tail(s.work) \in Seq(Visits)
  BY <1>1
<1>3. v.node \in Nodes /\ v.above \in Nat /\ old \in Nat
  BY <1>1, <1>2 DEF Visits, Ranks
<1>4. NewRank(D, s) \in Nat
  BY <1>1, <1>3, OwnRankFacts DEF NewRank, Raised
<1>5. /\ Dependents(D, v.node) \in SUBSET Nodes
      /\ list \in Seq(Dependents(D, v.node))
      /\ {list[i] : i \in 1 .. Len(list)} = Dependents(D, v.node)
  <2>1. Dependents(D, v.node) \in SUBSET Nodes
    BY <1>3, EdgeFacts
  <2>2. IsFiniteSet(Dependents(D, v.node))
    BY <2>1, GraphConstants, FS_Subset
  <2> QED
    BY <2>1, <2>2, ListedSet
<1>6. \A d \in Dependents(D, v.node) : Onward(D, s, d) \in Visits
  <2> HIDE DEF v
  <2> QED
    BY <1>4, <1>5 DEF Onward, Visits, Recalculate, MaybeIncrease
<1>7. DOMAIN list = 1 .. Len(list) /\ Len(list) \in Nat
      /\ \A i \in 1 .. Len(list) : list[i] \in Dependents(D, v.node)
  <2> HIDE DEF list
  <2> QED
    BY <1>5
<1>8. more \in Seq(Visits)
  <2>1. [i \in DOMAIN list |-> Onward(D, s, list[i])] \in [1 .. Len(list) -> Visits]
    <3> HIDE DEF list, v
    <3> QED
      BY <1>6, <1>7
  <2> HIDE DEF list
  <2> QED
    BY <1>7, <2>1
<1>9. {more[i] : i \in 1 .. Len(more)} =
        IF NewRank(D, s) = old THEN {}
        ELSE {Onward(D, s, d) : d \in Dependents(D, v.node)}
  <2>1. CASE NewRank(D, s) = old
    <3>1. more = <<>>
      BY <2>1
    <3> HIDE DEF more
    <3> QED
      BY <2>1, <3>1
  <2>2. CASE NewRank(D, s) # old
    <3>1. more = [i \in 1 .. Len(list) |-> Onward(D, s, list[i])]
      BY <1>7, <2>2
    <3>2. Len(more) = Len(list)
      <4> HIDE DEF list, more
      <4> QED
        BY <1>7, <3>1
    <3>3. {more[i] : i \in 1 .. Len(more)} =
            {Onward(D, s, list[i]) : i \in 1 .. Len(list)}
      <4> HIDE DEF list, more
      <4> QED
        BY <3>1, <3>2
    <3>4. {Onward(D, s, list[i]) : i \in 1 .. Len(list)} =
            {Onward(D, s, d) : d \in Dependents(D, v.node)}
      <4> HIDE DEF list, more, v
      <4> QED
        BY <1>5
    <3> QED
      BY <2>2, <3>3, <3>4
  <2> QED
    BY <2>1, <2>2
<1>10. Visited(D, s) =
         [rank |-> [s.rank EXCEPT ![v.node] = NewRank(D, s)], work |-> more \o Tail(s.work)]
  BY DEF Visited, NewRank, Onward
<1>11. Visited(D, s) \in Pending
  <2>1. [s.rank EXCEPT ![v.node] = NewRank(D, s)] \in [Nodes -> Nat]
    BY <1>1, <1>3, <1>4 DEF Ranks
  <2>2. more \o Tail(s.work) \in Seq(Visits)
    <3> HIDE DEF more
    <3> QED
      BY <1>2, <1>8
  <2> HIDE DEF more, v
  <2> QED
    BY <1>10, <2>1, <2>2 DEF Pending
<1> HIDE DEF more
<1>12. /\ Visited(D, s).rank = [s.rank EXCEPT ![v.node] = NewRank(D, s)]
       /\ Visited(D, s).work = more \o Tail(s.work)
  BY <1>10
<1> QED
  BY <1>2, <1>4, <1>8, <1>9, <1>11, <1>12

\* A set of states that making a visit does not leave.
KeptByVisits(D, J) == \A s \in J : s.work # <<>> => Visited(D, s) \in J

\* The states that follow from one, and the ranks at the end of it.
Following(D, s) ==
  {t \in Pending : \A J \in SUBSET Pending : s \in J /\ KeptByVisits(D, J) => t \in J}
Ends(D, s) == {t.rank : t \in {u \in Following(D, s) : u.work = <<>>}}

\* Ends is the same before and after a visit.
LEMMA EndsOfVisited ==
  ASSUME NEW D \in Graphs, NEW s \in Pending, s.work # <<>>
  PROVE  Ends(D, s) = Ends(D, Visited(D, s))
<1>1. Visited(D, s) \in Pending
  BY VisitedFacts
<1>2. Following(D, Visited(D, s)) \subseteq Following(D, s)
  BY <1>1 DEF Following, KeptByVisits
<1>3. Following(D, s) \subseteq {s} \union Following(D, Visited(D, s))
  <2> DEFINE F == Following(D, Visited(D, s))
  <2>1. F \in SUBSET Pending /\ Visited(D, s) \in F
    BY <1>1 DEF Following
  <2>2. ASSUME NEW t \in F, t.work # <<>> PROVE Visited(D, t) \in F
    <3>1. t \in Pending /\ Visited(D, t) \in Pending
      BY <2>1, <2>2, VisitedFacts
    <3>2. \A J \in SUBSET Pending :
            Visited(D, s) \in J /\ KeptByVisits(D, J) => Visited(D, t) \in J
      BY <2>2 DEF Following, KeptByVisits
    <3> QED
      BY <3>1, <3>2 DEF Following
  <2>3. KeptByVisits(D, {s} \union F)
    <3> HIDE DEF F
    <3> QED
      BY <2>1, <2>2 DEF KeptByVisits
  <2>4. s \in {s} \union F /\ {s} \union F \in SUBSET Pending
    <3> HIDE DEF F
    <3> QED
      BY <2>1
  <2>5. Following(D, s) \subseteq {s} \union F
    <3> HIDE DEF F
    <3> QED
      BY <2>3, <2>4 DEF Following
  <2> QED
    BY <2>5
<1> QED
  BY <1>2, <1>3 DEF Ends

\* The ranks at the end, when there is nothing left to visit.
LEMMA EndsOfDone ==
  ASSUME NEW D \in Graphs, NEW s \in Pending, s.work = <<>>
  PROVE  Ends(D, s) = {s.rank}
<1>1. KeptByVisits(D, {s}) /\ {s} \in SUBSET Pending
  BY DEF KeptByVisits
<1>2. Following(D, s) = {s}
  BY <1>1 DEF Following
<1> QED
  BY <1>2 DEF Ends

\* The recursion that defines Settled has a solution.
Recursion(D, f) ==
  f = [s \in Pending |-> IF s.work = <<>> THEN s.rank ELSE f[Visited(D, s)]]

LEMMA RecursionSolved ==
  ASSUME NEW D \in Graphs
  PROVE  \E f : Recursion(D, f)
<1> DEFINE f == [s \in Pending |-> CHOOSE r : r \in Ends(D, s)]
<1>1. ASSUME NEW s \in Pending
      PROVE  f[s] = IF s.work = <<>> THEN s.rank ELSE f[Visited(D, s)]
  <2>1. CASE s.work = <<>>
    BY <2>1, EndsOfDone
  <2>2. CASE s.work # <<>>
    <3>1. Visited(D, s) \in Pending /\ Ends(D, s) = Ends(D, Visited(D, s))
      BY <2>2, EndsOfVisited, VisitedFacts
    <3> QED
      BY <2>2, <3>1
  <2> QED
    BY <2>1, <2>2
<1>2. f = [s \in Pending |-> IF s.work = <<>> THEN s.rank ELSE f[Visited(D, s)]]
  BY <1>1
<1> HIDE DEF f
<1> QED
  BY <1>2 DEF Recursion

LEMMA SettledBySolution ==
  ASSUME NEW D \in Graphs, NEW r \in Ranks, NEW v \in Visits
  PROVE  \E f : Recursion(D, f) /\ Settled(D, r, v) = f[[rank |-> r, work |-> <<v>>]]
<1>1. PICK g : g = CHOOSE f :
        f = [s \in Pending |-> IF s.work = <<>> THEN s.rank ELSE f[Visited(D, s)]]
  OBVIOUS
<1>2. Recursion(D, g)
  BY <1>1, RecursionSolved DEF Recursion
<1>3. Settled(D, r, v) = g[[rank |-> r, work |-> <<v>>]]
  BY <1>1 DEF Settled
<1> QED
  BY <1>2, <1>3
-----------------------------------------------------------------------------
(***************************************************************************)
(* The visits come to an end.                                               *)
(***************************************************************************)
\* Heights that fall from a node to its dependents.
Falling(D, h) == \A n \in Nodes : \A d \in Dependents(D, n) : h[d] < h[n]

\* Visits to nodes lower than c, before any others: they and what follows from
\* them are made, and then it is the turn of the others.
Below(h, list, c) == \A i \in 1 .. Len(list) : h[list[i].node] < c
Before(r, list, others) == [rank |-> r, work |-> list \o others]
ReachesOthers(f, J, r, list, others) ==
  \E t \in J : t.work = others /\ f[Before(r, list, others)] = f[t]
VisitsEnd(D, h, f, J, c, k) ==
  \A r \in Ranks, list \in Seq(Visits), others \in Seq(Visits) :
    Len(list) = k /\ Below(h, list, c) /\ Before(r, list, others) \in J =>
      ReachesOthers(f, J, r, list, others)

LEMMA VisitsEndStep ==
  ASSUME NEW D \in Graphs, NEW h \in [Nodes -> Nat], Falling(D, h),
         NEW f, Recursion(D, f), NEW J \in SUBSET Pending, KeptByVisits(D, J),
         NEW c \in Nat, \A k \in Nat : VisitsEnd(D, h, f, J, c, k),
         NEW k \in Nat, VisitsEnd(D, h, f, J, c + 1, k)
  PROVE  VisitsEnd(D, h, f, J, c + 1, k + 1)
<1> SUFFICES ASSUME NEW r \in Ranks, NEW list \in Seq(Visits), NEW others \in Seq(Visits),
                    Len(list) = k + 1, Below(h, list, c + 1),
                    Before(r, list, others) \in J
             PROVE  ReachesOthers(f, J, r, list, others)
  BY DEF VisitsEnd
<1> DEFINE s == [rank |-> r, work |-> list \o others]
<1>1. /\ list # <<>> /\ Tail(list) \in Seq(Visits) /\ Len(Tail(list)) = k
      /\ \A i \in 1 .. Len(Tail(list)) : Tail(list)[i] = list[i + 1]
      /\ list \o others # <<>>
      /\ Head(list \o others) = list[1] /\ list[1] \in Visits
      /\ Tail(list \o others) = Tail(list) \o others
  OBVIOUS
<1>2. s \in J /\ s \in Pending /\ s.work # <<>> /\ s.rank = r /\ s.work = list \o others
  BY <1>1 DEF Before
<1>3. PICK more \in Seq(Visits) :
        /\ Visited(D, s).work = more \o Tail(s.work)
        /\ {more[i] : i \in 1 .. Len(more)} \subseteq
             {Onward(D, s, d) : d \in Dependents(D, Head(s.work).node)}
  <2> HIDE DEF s
  <2> QED
    BY <1>2, VisitedFacts
<1>4. Visited(D, s) \in J /\ f[s] = f[Visited(D, s)]
  BY <1>2 DEF KeptByVisits, Recursion
<1> HIDE DEF s
<1>5. Visited(D, s).rank \in Ranks /\ Visited(D, s) \in Pending
  BY <1>4 DEF Pending, Ranks
<1>6. Visited(D, s).work = more \o (Tail(list) \o others)
  BY <1>1, <1>2, <1>3
<1>7. Below(h, more, c)
  <2> SUFFICES ASSUME NEW i \in 1 .. Len(more) PROVE h[more[i].node] < c
    BY DEF Below
  <2>1. PICK d \in Dependents(D, list[1].node) : more[i] = Onward(D, s, d)
    BY <1>1, <1>2, <1>3
  <2>2. more[i].node = d
    BY <2>1 DEF Onward, Recalculate, MaybeIncrease
  <2>3. list[1].node \in Nodes /\ d \in Nodes
    BY <1>1, EdgeFacts DEF Visits
  <2>4. h[d] < h[list[1].node] /\ h[list[1].node] < c + 1
    <3>1. 1 \in 1 .. Len(list)
      OBVIOUS
    <3> QED
      BY <2>1, <2>3, <3>1 DEF Falling, Below
  <2> QED
    BY <2>2, <2>3, <2>4
<1>8. PICK later \in Seq(Visits) : later = Tail(list) \o others
  <2>1. Tail(list) \o others \in Seq(Visits)
    BY <1>1
  <2> QED
    BY <2>1
<1>9. PICK t \in J : t.work = later /\ f[Visited(D, s)] = f[t]
  <2>1. PICK q \in Ranks : q = Visited(D, s).rank
    BY <1>5
  <2>2. Visited(D, s) = Before(q, more, later)
    BY <1>5, <1>6, <1>8, <2>1 DEF Pending, Before
  <2>3. VisitsEnd(D, h, f, J, c, Len(more)) /\ Before(q, more, later) \in J
    BY <1>4, <2>2
  <2>4. ReachesOthers(f, J, q, more, later)
    BY <1>7, <2>3 DEF VisitsEnd
  <2> QED
    BY <2>2, <2>4 DEF ReachesOthers
<1>10. PICK u \in J : u.work = others /\ f[t] = f[u]
  <2>1. PICK tail \in Seq(Visits) :
          later = tail \o others /\ Len(tail) = k /\ Below(h, tail, c + 1)
    <3>1. /\ Tail(list) \in Seq(Visits)
          /\ later = Tail(list) \o others /\ Len(Tail(list)) = k
          /\ Below(h, Tail(list), c + 1)
      BY <1>1, <1>8 DEF Below
    <3> QED
      BY <3>1
  <2>2. PICK q \in Ranks : t = Before(q, tail, others)
    BY <1>9, <2>1 DEF Pending, Ranks, Before
  <2>3. ReachesOthers(f, J, q, tail, others)
    BY <1>9, <2>1, <2>2 DEF VisitsEnd
  <2> QED
    BY <2>2, <2>3 DEF ReachesOthers
<1> QED
  BY <1>4, <1>9, <1>10 DEF s, ReachesOthers, Before

LEMMA VisitsEndAll ==
  ASSUME NEW D \in Graphs, NEW h \in [Nodes -> Nat], Falling(D, h),
         NEW f, Recursion(D, f), NEW J \in SUBSET Pending, KeptByVisits(D, J)
  PROVE  \A c \in Nat, k \in Nat : VisitsEnd(D, h, f, J, c, k)
<1>1. \A c \in Nat : VisitsEnd(D, h, f, J, c, 0)
  <2> SUFFICES ASSUME NEW r \in Ranks, NEW list \in Seq(Visits),
                      NEW others \in Seq(Visits), Len(list) = 0,
                      Before(r, list, others) \in J
               PROVE  ReachesOthers(f, J, r, list, others)
    BY DEF VisitsEnd
  <2>1. list \o others = others
    OBVIOUS
  <2> QED
    BY <2>1 DEF ReachesOthers, Before
<1>2. \A k \in Nat : VisitsEnd(D, h, f, J, 0, k)
  <2> TAKE k \in Nat
  <2>1. ASSUME NEW list \in Seq(Visits), Len(list) = k, Below(h, list, 0)
        PROVE  k = 0
    <3>1. SUFFICES ASSUME k # 0 PROVE FALSE
      OBVIOUS
    <3>2. 1 \in 1 .. Len(list) /\ list[1] \in Visits
      BY <2>1, <3>1
    <3>3. h[list[1].node] \in Nat
      BY <3>2 DEF Visits
    <3> QED
      BY <2>1, <3>2, <3>3 DEF Below
  <2>2. CASE k = 0
    BY <1>1, <2>2
  <2>3. CASE k # 0
    BY <2>1, <2>3 DEF VisitsEnd
  <2> QED
    BY <2>2, <2>3
<1>3. ASSUME NEW c \in Nat, \A k \in Nat : VisitsEnd(D, h, f, J, c, k)
      PROVE  \A k \in Nat : VisitsEnd(D, h, f, J, c + 1, k)
  <2> DEFINE K == {k \in Nat : VisitsEnd(D, h, f, J, c + 1, k)}
  <2>1. 0 \in K
    BY <1>1
  <2>2. ASSUME NEW k \in Nat, k \in K PROVE k + 1 \in K
    BY <1>3, <2>2, VisitsEndStep
  <2>3. Nat \subseteq K
    <3> HIDE DEF K
    <3> QED
      BY <2>1, <2>2, SetInduction
  <2> QED
    BY <2>3
<1> DEFINE C == {c \in Nat : \A k \in Nat : VisitsEnd(D, h, f, J, c, k)}
<1>4. 0 \in C
  BY <1>2
<1>5. \A c \in Nat : c \in C => c + 1 \in C
  BY <1>3
<1>6. Nat \subseteq C
  <2> HIDE DEF C
  <2> QED
    BY <1>4, <1>5, SetInduction
<1> QED
  BY <1>6

\* Whatever a set of states that visits do not leave says of the state they begin
\* in, it says of the ranks that result.
LEMMA SettledIn ==
  ASSUME NEW D \in Graphs, NEW h \in [Nodes -> Nat], Falling(D, h),
         NEW r \in Ranks, NEW v \in Visits,
         NEW J \in SUBSET Pending, KeptByVisits(D, J),
         [rank |-> r, work |-> <<v>>] \in J
  PROVE  \E t \in J : t.work = <<>> /\ Settled(D, r, v) = t.rank
<1>1. PICK f : Recursion(D, f) /\ Settled(D, r, v) = f[[rank |-> r, work |-> <<v>>]]
  BY SettledBySolution
<1>2. h[v.node] \in Nat /\ h[v.node] + 1 \in Nat /\ h[v.node] < h[v.node] + 1
  BY DEF Visits
<1>3. VisitsEnd(D, h, f, J, h[v.node] + 1, 1)
  BY <1>1, <1>2, VisitsEndAll
<1>4. PICK list \in Seq(Visits), others \in Seq(Visits) :
        /\ list = <<v>> /\ others = <<>> /\ Len(list) = 1
        /\ list \o others = <<v>> /\ Below(h, list, h[v.node] + 1)
  <2>1. /\ <<v>> \in Seq(Visits) /\ <<>> \in Seq(Visits) /\ Len(<<v>>) = 1
        /\ <<v>> \o <<>> = <<v>>
    OBVIOUS
  <2>2. Below(h, <<v>>, h[v.node] + 1)
    BY <1>2 DEF Below
  <2> QED
    BY <2>1, <2>2
<1>5. Before(r, list, others) = [rank |-> r, work |-> <<v>>]
  BY <1>4 DEF Before
<1>6. PICK t \in J : t.work = <<>> /\ f[[rank |-> r, work |-> <<v>>]] = f[t]
  <2>1. ReachesOthers(f, J, r, list, others)
    BY <1>3, <1>4, <1>5 DEF VisitsEnd
  <2> QED
    BY <1>4, <1>5, <2>1 DEF ReachesOthers
<1>7. f[t] = t.rank
  BY <1>1, <1>6 DEF Recursion
<1> QED
  BY <1>1, <1>6, <1>7
-----------------------------------------------------------------------------
(***************************************************************************)
(* What the visits lead to.  F is a set that no edge to a dependent leaves. *)
(***************************************************************************)
ToVisit(s) == {s.work[i] : i \in 1 .. Len(s.work)}

LEMMA ToVisitFacts ==
  ASSUME NEW D \in Graphs, NEW s \in Pending, s.work # <<>>
  PROVE  \E others \in SUBSET Visits :
           /\ Head(s.work) \in Visits
           /\ ToVisit(s) = {Head(s.work)} \union others
           /\ Len(s.work) = 1 => others = {}
           /\ ToVisit(Visited(D, s)) = others \union
                (IF NewRank(D, s) = s.rank[Head(s.work).node] THEN {}
                 ELSE {Onward(D, s, d) : d \in Dependents(D, Head(s.work).node)})
<1>1. PICK more \in Seq(Visits) :
        /\ Head(s.work) \in Visits /\ Tail(s.work) \in Seq(Visits)
        /\ Visited(D, s).work = more \o Tail(s.work)
        /\ {more[i] : i \in 1 .. Len(more)} =
             IF NewRank(D, s) = s.rank[Head(s.work).node] THEN {}
             ELSE {Onward(D, s, d) : d \in Dependents(D, Head(s.work).node)}
  BY VisitedFacts
<1>2. s.work \in Seq(Visits)
  BY DEF Pending
<1>3. PICK w \in Seq(Visits), t \in Seq(Visits) : w = s.work /\ t = Tail(s.work)
  BY <1>1, <1>2
<1> DEFINE others == {t[i] : i \in 1 .. Len(t)}
<1>4. others \in SUBSET Visits
  OBVIOUS
<1>5. ToVisit(s) = {Head(s.work)} \union others
  <2>1. Len(w) \in Nat /\ Len(w) >= 1 /\ Head(w) = w[1] /\ Len(t) = Len(w) - 1
        /\ \A i \in 1 .. Len(t) : t[i] = w[i + 1]
    BY <1>3
  <2>2. \A i \in 1 .. Len(w) : i = 1 \/ (i - 1 \in 1 .. Len(t) /\ w[i] = t[i - 1])
    BY <2>1
  <2>3. {w[i] : i \in 1 .. Len(w)} = {w[1]} \union others
    <3>1. ASSUME NEW i \in 1 .. Len(w) PROVE w[i] \in {w[1]} \union others
      BY <2>2
    <3>2. w[1] \in {w[i] : i \in 1 .. Len(w)}
      BY <2>1
    <3>3. ASSUME NEW i \in 1 .. Len(t) PROVE t[i] \in {w[j] : j \in 1 .. Len(w)}
      <4>1. i + 1 \in 1 .. Len(w) /\ t[i] = w[i + 1]
        BY <2>1
      <4> QED
        BY <4>1
    <3> QED
      BY <3>1, <3>2, <3>3
  <2>4. ToVisit(s) = {w[i] : i \in 1 .. Len(w)} /\ Head(s.work) = w[1]
    BY <1>3, <2>1 DEF ToVisit
  <2> QED
    BY <2>3, <2>4
<1>6. Len(s.work) = 1 => others = {}
  BY <1>3
<1>7. ToVisit(Visited(D, s)) = {more[i] : i \in 1 .. Len(more)} \union others
  <2>1. Range(more \o t) = Range(more) \union Range(t)
    BY RangeConcatenation
  <2>2. Range(more) = {more[i] : i \in 1 .. Len(more)} /\ Range(t) = others
    BY RangeEquality
  <2>3. PICK z \in Seq(Visits) : z = more \o t
    <3>1. more \o t \in Seq(Visits)
      OBVIOUS
    <3> QED
      BY <3>1
  <2>4. Range(z) = {z[i] : i \in 1 .. Len(z)}
    BY RangeEquality
  <2>5. ToVisit(Visited(D, s)) = {z[i] : i \in 1 .. Len(z)}
    BY <1>1, <1>3, <2>3 DEF ToVisit
  <2> QED
    BY <2>1, <2>2, <2>3, <2>4, <2>5
<1> QED
  BY <1>1, <1>4, <1>5, <1>6, <1>7

\* Ranks are being raised: those that are not low have a visit to come.
Raising(D, F, old) ==
  {s \in Pending :
     /\ \A v \in ToVisit(s) :
          /\ ~v.recalculate /\ v.node \in F
          /\ \E d \in Dependencies(D, v.node) : s.rank[d] >= v.above
     /\ \A n \in Nodes : \A d \in Dependencies(D, n) :
          \/ s.rank[n] >= s.rank[d] + 1
          \/ \E v \in ToVisit(s) : v.node = n /\ v.above >= s.rank[d]
     /\ \A n \in Nodes : Tight(D, s.rank, n)
     /\ \A n \in Nodes \ F : s.rank[n] = old[n]}

\* Ranks are being lowered: those that are not tight have a visit to come.
Lowering(D, F, old) ==
  {s \in Pending :
     /\ \A v \in ToVisit(s) : v.recalculate /\ v.node \in F
     /\ \A n \in Nodes : Low(D, s.rank, n)
     /\ \A n \in Nodes : Tight(D, s.rank, n) \/ \E v \in ToVisit(s) : v.node = n
     /\ \A n \in Nodes \ F : s.rank[n] = old[n]}

LEMMA RaisingKept ==
  ASSUME NEW D \in Graphs, NEW F \in SUBSET Nodes, NEW old \in Ranks,
         \A n \in F : Dependents(D, n) \subseteq F
  PROVE  KeptByVisits(D, Raising(D, F, old))
<1> SUFFICES ASSUME NEW s \in Raising(D, F, old), s.work # <<>>
             PROVE  Visited(D, s) \in Raising(D, F, old)
  BY DEF KeptByVisits
<1>1. s \in Pending /\ s.rank \in Ranks
  BY DEF Raising, Pending, Ranks
<1>2. PICK others \in SUBSET Visits :
        /\ Head(s.work) \in Visits
        /\ ToVisit(s) = {Head(s.work)} \union others
        /\ ToVisit(Visited(D, s)) = others \union
             (IF NewRank(D, s) = s.rank[Head(s.work).node] THEN {}
              ELSE {Onward(D, s, d) : d \in Dependents(D, Head(s.work).node)})
  BY <1>1, ToVisitFacts
<1>3. PICK v \in Visits, x \in Nodes, a \in Nat :
        v = Head(s.work) /\ x = v.node /\ a = v.above
  BY <1>2 DEF Visits
<1>4. PICK r \in Ranks, w \in Nat, q \in Ranks :
        /\ r = s.rank /\ w = NewRank(D, s) /\ q = Visited(D, s).rank
        /\ q = [r EXCEPT ![x] = w] /\ Visited(D, s) \in Pending
  BY <1>1, <1>3, VisitedFacts DEF Pending, Ranks
<1>5. ~v.recalculate /\ x \in F /\ \E d \in Dependencies(D, x) : r[d] >= a
  BY <1>2, <1>3, <1>4 DEF Raising
<1>6. w = IF a >= r[x] THEN a + 1 ELSE r[x]
  BY <1>3, <1>4, <1>5 DEF NewRank, Raised
<1>7. /\ r[x] \in Nat /\ w >= r[x] /\ w >= a + 1
      /\ \A n \in Nodes : r[n] \in Nat /\ q[n] \in Nat /\ q[n] >= r[n]
      /\ q[x] = w /\ \A n \in Nodes : n # x => q[n] = r[n]
  BY <1>4, <1>6 DEF Ranks
<1>8. \A n \in Nodes : Dependencies(D, n) \subseteq Nodes
  BY EdgeFacts
<1>9. ToVisit(Visited(D, s)) = others \union
        (IF w = r[x] THEN {} ELSE {MaybeIncrease(d, w) : d \in Dependents(D, x)})
  <2>1. \A d \in Dependents(D, x) : Onward(D, s, d) = MaybeIncrease(d, w)
    BY <1>3, <1>4, <1>7 DEF Onward
  <2> QED
    BY <1>2, <1>3, <1>4, <2>1
<1>10. ASSUME NEW u \in ToVisit(Visited(D, s))
       PROVE  /\ ~u.recalculate /\ u.node \in F
              /\ \E d \in Dependencies(D, u.node) : q[d] >= u.above
  <2>1. CASE u \in others
    <3>1. ~u.recalculate /\ u.node \in F /\ u \in Visits
          /\ \E d \in Dependencies(D, u.node) : r[d] >= u.above
      BY <1>2, <1>4, <2>1 DEF Raising
    <3> QED
      BY <1>7, <1>8, <3>1 DEF Visits
  <2>2. CASE u \notin others
    <3>1. PICK d \in Dependents(D, x) : u = MaybeIncrease(d, w)
      BY <1>9, <2>2
    <3>2. d \in F /\ x \in Dependencies(D, d)
      BY <1>5, <3>1, EdgeFacts
    <3> QED
      BY <1>7, <3>1, <3>2 DEF MaybeIncrease
  <2> QED
    BY <2>1, <2>2
<1>11. ASSUME NEW n \in Nodes, NEW d \in Dependencies(D, n)
       PROVE  \/ q[n] >= q[d] + 1
              \/ \E u \in ToVisit(Visited(D, s)) : u.node = n /\ u.above >= q[d]
  <2>1. d \in Nodes
    BY <1>8
  <2>2. CASE d = x /\ w # r[x]
    <3>1. n \in Dependents(D, x)
      BY <2>2, EdgeFacts
    <3>2. MaybeIncrease(n, w) \in ToVisit(Visited(D, s))
      BY <1>9, <2>2, <3>1
    <3> QED
      BY <1>7, <2>2, <3>2 DEF MaybeIncrease
  <2>3. CASE ~(d = x /\ w # r[x])
    <3>1. q[d] = r[d]
      BY <1>7, <2>1, <2>3
    <3>2. \/ r[n] >= r[d] + 1
          \/ \E u \in ToVisit(s) : u.node = n /\ u.above >= r[d]
      BY <1>4 DEF Raising
    <3>3. CASE r[n] >= r[d] + 1
      BY <1>7, <2>1, <3>1, <3>3
    <3>4. ASSUME NEW u \in ToVisit(s), u.node = n, u.above >= r[d]
          PROVE  q[n] >= q[d] + 1 \/ u \in others
      <4>1. CASE u = v
        <5>1. n = x /\ a >= r[d]
          BY <1>3, <3>4, <4>1
        <5> QED
          BY <1>7, <2>1, <3>1, <5>1
      <4>2. CASE u # v
        BY <1>2, <1>3, <4>2
      <4> QED
        BY <4>1, <4>2
    <3> QED
      BY <1>9, <3>1, <3>2, <3>3, <3>4
  <2> QED
    BY <2>2, <2>3
<1>12. ASSUME NEW n \in Nodes PROVE Tight(D, q, n)
  <2>1. Tight(D, r, n)
    BY <1>4 DEF Raising
  <2>2. CASE q[n] = r[n]
    <3>1. q[n] = 0 \/ \E d \in Dependencies(D, n) : q[n] <= r[d] + 1
      BY <2>1, <2>2 DEF Tight
    <3>2. \A d \in Dependencies(D, n) : q[n] <= r[d] + 1 => q[n] <= q[d] + 1
      BY <1>7, <1>8
    <3> QED
      BY <3>1, <3>2 DEF Tight
  <2>3. CASE q[n] # r[n]
    <3>1. n = x /\ w = a + 1
      BY <1>6, <1>7, <2>3
    <3>2. PICK d \in Dependencies(D, x) : r[d] >= a
      BY <1>5
    <3>3. q[x] <= q[d] + 1
      BY <1>7, <1>8, <3>1, <3>2
    <3> QED
      BY <3>1, <3>3 DEF Tight
  <2> QED
    BY <2>2, <2>3
<1>13. \A n \in Nodes \ F : q[n] = old[n]
  BY <1>4, <1>5, <1>7 DEF Raising
<1> QED
  BY <1>4, <1>10, <1>11, <1>12, <1>13 DEF Raising

LEMMA LoweringKept ==
  ASSUME NEW D \in Graphs, NEW F \in SUBSET Nodes, NEW old \in Ranks,
         \A n \in F : Dependents(D, n) \subseteq F
  PROVE  KeptByVisits(D, Lowering(D, F, old))
<1> SUFFICES ASSUME NEW s \in Lowering(D, F, old), s.work # <<>>
             PROVE  Visited(D, s) \in Lowering(D, F, old)
  BY DEF KeptByVisits
<1>1. s \in Pending /\ s.rank \in Ranks
  BY DEF Lowering, Pending, Ranks
<1>2. PICK others \in SUBSET Visits :
        /\ Head(s.work) \in Visits
        /\ ToVisit(s) = {Head(s.work)} \union others
        /\ ToVisit(Visited(D, s)) = others \union
             (IF NewRank(D, s) = s.rank[Head(s.work).node] THEN {}
              ELSE {Onward(D, s, d) : d \in Dependents(D, Head(s.work).node)})
  BY <1>1, ToVisitFacts
<1>3. PICK v \in Visits, x \in Nodes : v = Head(s.work) /\ x = v.node
  BY <1>2 DEF Visits
<1>4. PICK r \in Ranks, w \in Nat, q \in Ranks :
        /\ r = s.rank /\ w = NewRank(D, s) /\ q = Visited(D, s).rank
        /\ q = [r EXCEPT ![x] = w] /\ Visited(D, s) \in Pending
  BY <1>1, <1>3, VisitedFacts DEF Pending, Ranks
<1>5. v.recalculate /\ x \in F /\ Low(D, r, x)
  BY <1>2, <1>3, <1>4 DEF Lowering
<1>6. /\ \A d \in Dependencies(D, x) : w >= r[d] + 1
      /\ w = 0 \/ \E d \in Dependencies(D, x) : w = r[d] + 1
  <2>1. w = OwnRank(D, r, x)
    BY <1>3, <1>4, <1>5 DEF NewRank
  <2> QED
    BY <2>1, OwnRankFacts
<1>7. /\ \A n \in Nodes : Dependencies(D, n) \subseteq Nodes
      /\ x \notin Dependencies(D, x)
  <2>1. r[x] \in Nat
    BY DEF Ranks
  <2>2. ~(r[x] >= r[x] + 1)
    BY <2>1
  <2> QED
    BY <1>5, <2>2, EdgeFacts DEF Low
<1>8. w <= r[x]
  <2>1. r[x] \in Nat /\ \A d \in Dependencies(D, x) : r[d] \in Nat
    BY <1>7 DEF Ranks
  <2> QED
    BY <1>5, <1>6, <2>1 DEF Low
<1>9. /\ \A n \in Nodes : r[n] \in Nat /\ q[n] \in Nat /\ q[n] <= r[n]
      /\ q[x] = w /\ \A n \in Nodes : n # x => q[n] = r[n]
  BY <1>4, <1>8 DEF Ranks
<1>10. ToVisit(Visited(D, s)) = others \union
         (IF w = r[x] THEN {} ELSE {Recalculate(d) : d \in Dependents(D, x)})
  <2>1. CASE w = r[x]
    BY <1>2, <1>3, <1>4, <2>1
  <2>2. CASE w # r[x]
    <3>1. w < r[x]
      BY <1>8, <1>9, <2>2
    <3>2. \A d \in Dependents(D, x) : Onward(D, s, d) = Recalculate(d)
      BY <1>3, <1>4, <3>1 DEF Onward
    <3> QED
      BY <1>2, <1>3, <1>4, <2>2, <3>2
  <2> QED
    BY <2>1, <2>2
<1>11. ASSUME NEW u \in ToVisit(Visited(D, s)) PROVE u.recalculate /\ u.node \in F
  <2>1. CASE u \in others
    BY <1>2, <2>1 DEF Lowering
  <2>2. CASE u \notin others
    <3>1. PICK d \in Dependents(D, x) : u = Recalculate(d)
      BY <1>10, <2>2
    <3> QED
      BY <1>5, <3>1 DEF Recalculate
  <2> QED
    BY <2>1, <2>2
<1>12. ASSUME NEW n \in Nodes PROVE Low(D, q, n)
  <2>1. \A d \in Dependencies(D, n) : r[n] >= r[d] + 1
    BY <1>4 DEF Lowering, Low
  <2>2. \A d \in Dependencies(D, n) : q[n] >= r[d] + 1
    BY <1>6, <1>9, <2>1
  <2>3. \A d \in Dependencies(D, n) : q[n] >= q[d] + 1
    BY <1>7, <1>9, <2>2
  <2> QED
    BY <2>3 DEF Low
<1>13. ASSUME NEW n \in Nodes
       PROVE  Tight(D, q, n) \/ \E u \in ToVisit(Visited(D, s)) : u.node = n
  <2>1. CASE n = x
    <3>1. \A d \in Dependencies(D, x) : q[d] = r[d]
      BY <1>7, <1>9
    <3>2. w = 0 \/ \E d \in Dependencies(D, x) : w <= q[d] + 1
      BY <1>6, <1>7, <1>9, <3>1
    <3> QED
      BY <1>9, <2>1, <3>2 DEF Tight
  <2>2. CASE n # x /\ x \in Dependencies(D, n) /\ w # r[x]
    <3>1. Recalculate(n) \in ToVisit(Visited(D, s))
      BY <1>10, <2>2, EdgeFacts
    <3> QED
      BY <3>1 DEF Recalculate
  <2>3. CASE n # x /\ ~(x \in Dependencies(D, n) /\ w # r[x])
    <3>1. q[n] = r[n] /\ \A d \in Dependencies(D, n) : q[d] = r[d]
      BY <1>7, <1>9, <2>3
    <3>2. Tight(D, r, n) \/ \E u \in ToVisit(s) : u.node = n
      BY <1>4 DEF Lowering
    <3>3. ASSUME NEW u \in ToVisit(s), u.node = n PROVE u \in ToVisit(Visited(D, s))
      BY <1>2, <1>3, <1>10, <2>3, <3>3
    <3> QED
      BY <3>1, <3>2, <3>3 DEF Tight
  <2> QED
    BY <2>1, <2>2, <2>3
<1>14. \A n \in Nodes \ F : q[n] = old[n]
  BY <1>4, <1>5, <1>9 DEF Lowering
<1> QED
  BY <1>4, <1>11, <1>12, <1>13, <1>14 DEF Lowering

\* The ranks q are exact, and as in r outside F.
SettledTo(D, F, r, q) ==
  q \in Ranks /\ Exact(D, q) /\ \A x \in Nodes \ F : q[x] = r[x]

\* When nothing is left to visit the ranks are exact, and as they were outside F.
LEMMA NothingToVisit ==
  ASSUME NEW D \in Graphs, NEW F \in SUBSET Nodes, NEW old \in Ranks,
         NEW s \in Raising(D, F, old) \union Lowering(D, F, old), s.work = <<>>
  PROVE  SettledTo(D, F, old, s.rank)
<1>1. ToVisit(s) = {}
  BY DEF ToVisit
<1>2. s.rank \in Ranks /\ \A n \in Nodes \ F : s.rank[n] = old[n]
  BY DEF Raising, Lowering, Pending, Ranks
<1>3. \A n \in Nodes : Low(D, s.rank, n) /\ Tight(D, s.rank, n)
  BY <1>1 DEF Raising, Lowering, Low
<1> QED
  BY <1>2, <1>3, ExactRank DEF Exact, SettledTo

\* A visit to come, and nothing else.
LEMMA OneVisit ==
  ASSUME NEW r \in Ranks, NEW v \in Visits
  PROVE  /\ [rank |-> r, work |-> <<v>>] \in Pending
         /\ ToVisit([rank |-> r, work |-> <<v>>]) = {v}
BY DEF Pending, Ranks, ToVisit

\* Only n may have a rank that is not exact.
WrongOnlyAt(D, r, n) == \A x \in Nodes \ {n} : Low(D, r, x) /\ Tight(D, r, x)

\* Only n may be too low, and a visit that raises it above k is what it needs.
LowOnlyAt(D, r, n, k) ==
  /\ \A x \in Nodes : Tight(D, r, x)
  /\ \A x \in Nodes \ {n} : Low(D, r, x)
  /\ \A d \in Dependencies(D, n) : r[n] >= r[d] + 1 \/ k >= r[d]
  /\ \E d \in Dependencies(D, n) : r[d] >= k

\* maybeIncreaseGlobalDependencyRank on n.
LEMMA SettledRaised ==
  ASSUME NEW D \in Graphs, NEW h \in [Nodes -> Nat], Falling(D, h),
         NEW F \in SUBSET Nodes, \A x \in F : Dependents(D, x) \subseteq F,
         NEW r \in Ranks, NEW n \in F, NEW k \in Nat, LowOnlyAt(D, r, n, k)
  PROVE  SettledTo(D, F, r, Settled(D, r, MaybeIncrease(n, k)))
<1> DEFINE v == MaybeIncrease(n, k)
           s == [rank |-> r, work |-> <<v>>]
<1>1. v \in Visits /\ ~v.recalculate /\ v.node = n /\ v.above = k
  BY DEF Visits, MaybeIncrease
<1> HIDE DEF v
<1>2. s \in Pending /\ ToVisit(s) = {v} /\ s.rank = r
  BY <1>1, OneVisit
<1>3. \A x \in Nodes : \A d \in Dependencies(D, x) :
        r[x] >= r[d] + 1 \/ (v.node = x /\ v.above >= r[d])
  BY <1>1 DEF Low, LowOnlyAt
<1> HIDE DEF s
<1>4. s \in Raising(D, F, r)
  BY <1>1, <1>2, <1>3 DEF Raising, LowOnlyAt
<1>5. Raising(D, F, r) \in SUBSET Pending /\ KeptByVisits(D, Raising(D, F, r))
  BY RaisingKept DEF Raising
<1>6. PICK t \in Raising(D, F, r) : t.work = <<>> /\ Settled(D, r, v) = t.rank
  BY <1>1, <1>4, <1>5, SettledIn DEF s
<1> QED
  BY <1>6, NothingToVisit DEF v

\* recalculateGlobalDependencyRank on n, when only n may have a wrong rank.
LEMMA SettledRecalculated ==
  ASSUME NEW D \in Graphs, NEW h \in [Nodes -> Nat], Falling(D, h),
         NEW F \in SUBSET Nodes, \A x \in F : Dependents(D, x) \subseteq F,
         NEW r \in Ranks, NEW n \in F,
         WrongOnlyAt(D, r, n)
  PROVE  SettledTo(D, F, r, Settled(D, r, Recalculate(n)))
<1> DEFINE v == Recalculate(n)
           s == [rank |-> r, work |-> <<v>>]
           after == Visited(D, s)
           w == NewRank(D, s)
           q == after.rank
<1>1. v \in Visits /\ v.recalculate /\ v.node = n
  BY DEF Visits, Recalculate
<1> HIDE DEF v
<1>2. s \in Pending /\ s.rank = r /\ s.work # <<>> /\ Head(s.work) = v /\ Len(s.work) = 1
  BY <1>1, OneVisit
<1> HIDE DEF s
<1>3. ToVisit(after) = IF w = r[n] THEN {} ELSE {Onward(D, s, d) : d \in Dependents(D, n)}
  BY <1>1, <1>2, ToVisitFacts
<1>4. w \in Nat /\ after \in Pending /\ q = [r EXCEPT ![n] = w]
  BY <1>1, <1>2, VisitedFacts
<1>5. w = OwnRank(D, r, n)
  BY <1>1, <1>2 DEF NewRank
<1>6. \A d \in Dependents(D, n) :
        Onward(D, s, d) = IF w < r[n] THEN Recalculate(d) ELSE MaybeIncrease(d, w)
  BY <1>1, <1>2 DEF Onward
<1> HIDE DEF after, w
<1>7. /\ \A d \in Dependencies(D, n) : w >= r[d] + 1
      /\ w = 0 \/ \E d \in Dependencies(D, n) : w = r[d] + 1
  BY <1>5, OwnRankFacts
<1>8. /\ \A x \in Nodes : Dependencies(D, x) \subseteq Nodes
      /\ n \notin Dependencies(D, n)
  <2>1. h[n] \in Nat /\ ~(h[n] < h[n])
    OBVIOUS
  <2> QED
    BY <2>1, EdgeFacts DEF Falling
<1>9. /\ \A x \in Nodes : r[x] \in Nat /\ q[x] \in Nat
      /\ q[n] = w /\ \A x \in Nodes : x # n => q[x] = r[x]
  BY <1>4 DEF Ranks
<1>10. Low(D, q, n) /\ Tight(D, q, n)
  BY <1>7, <1>8, <1>9 DEF Low, Tight
<1>11. \A x \in Nodes \ F : q[x] = r[x]
  BY <1>9
<1>12. ASSUME w >= r[n] PROVE after \in Raising(D, F, r)
  <2>1. ASSUME NEW u \in ToVisit(after)
        PROVE  \E d \in Dependents(D, n) : w # r[n] /\ u = MaybeIncrease(d, w)
    BY <1>3, <1>4, <1>6, <1>9, <1>12
  <2>2. ASSUME NEW u \in ToVisit(after)
        PROVE  /\ ~u.recalculate /\ u.node \in F
               /\ \E d \in Dependencies(D, u.node) : q[d] >= u.above
    <3>1. PICK d \in Dependents(D, n) : u = MaybeIncrease(d, w)
      BY <2>1
    <3>2. d \in F /\ n \in Dependencies(D, d)
      BY EdgeFacts
    <3>3. q[n] >= w
      BY <1>4, <1>9
    <3> QED
      BY <3>1, <3>2, <3>3 DEF MaybeIncrease
  <2>3. ASSUME NEW x \in Nodes, NEW d \in Dependencies(D, x)
        PROVE  \/ q[x] >= q[d] + 1
               \/ \E u \in ToVisit(after) : u.node = x /\ u.above >= q[d]
    <3>1. CASE x = n
      BY <1>10, <3>1 DEF Low, WrongOnlyAt
    <3>2. CASE x # n /\ d # n
      BY <1>8, <1>9, <3>2 DEF Low, WrongOnlyAt
    <3>3. CASE x # n /\ d = n /\ w = r[n]
      BY <1>9, <3>3 DEF Low, WrongOnlyAt
    <3>4. CASE x # n /\ d = n /\ w # r[n]
      <4>1. x \in Dependents(D, n)
        BY <3>4, EdgeFacts
      <4>2. ~(w < r[n])
        BY <1>4, <1>9, <1>12
      <4>3. MaybeIncrease(x, w) \in ToVisit(after)
        BY <1>3, <1>6, <3>4, <4>1, <4>2
      <4>4. w >= q[d]
        BY <1>4, <1>9, <3>4
      <4> QED
        BY <4>3, <4>4 DEF MaybeIncrease
    <3> QED
      BY <3>1, <3>2, <3>3, <3>4
  <2>4. ASSUME NEW x \in Nodes, x # n PROVE Tight(D, q, x)
    <3>1. r[x] = 0 \/ \E d \in Dependencies(D, x) : r[x] <= r[d] + 1
      BY <2>4 DEF Tight, WrongOnlyAt
    <3>2. \A d \in Nodes : r[x] <= r[d] + 1 => r[x] <= q[d] + 1
      BY <1>4, <1>9, <1>12
    <3> QED
      BY <1>8, <1>9, <2>4, <3>1, <3>2 DEF Tight, WrongOnlyAt
  <2> QED
    BY <1>4, <1>10, <1>11, <2>2, <2>3, <2>4 DEF Raising
<1>13. ASSUME w < r[n] PROVE after \in Lowering(D, F, r)
  <2>1. \A x \in Dependents(D, n) : Recalculate(x) \in ToVisit(after)
    <3>1. w # r[n]
      BY <1>4, <1>9, <1>13
    <3> QED
      BY <1>3, <1>6, <1>13, <3>1
  <2>2. ASSUME NEW u \in ToVisit(after) PROVE u.recalculate /\ u.node \in F
    <3>1. PICK d \in Dependents(D, n) : u = Recalculate(d)
      BY <1>3, <1>6, <1>13
    <3> QED
      BY <3>1 DEF Recalculate
  <2>3. ASSUME NEW x \in Nodes, x # n PROVE Low(D, q, x)
    <3>1. \A d \in Dependencies(D, x) : r[x] >= r[d] + 1
      BY <2>3 DEF Low, WrongOnlyAt
    <3>2. \A d \in Nodes : r[x] >= r[d] + 1 => r[x] >= q[d] + 1
      BY <1>4, <1>9, <1>13
    <3> QED
      BY <1>8, <1>9, <2>3, <3>1, <3>2 DEF Low, WrongOnlyAt
  <2>4. ASSUME NEW x \in Nodes, x # n
        PROVE  Tight(D, q, x) \/ \E u \in ToVisit(after) : u.node = x
    <3>1. CASE n \in Dependencies(D, x)
      <4>1. Recalculate(x) \in ToVisit(after)
        BY <2>1, <3>1, EdgeFacts
      <4> QED
        BY <4>1 DEF Recalculate
    <3>2. CASE n \notin Dependencies(D, x)
      BY <1>8, <1>9, <2>4, <3>2 DEF Tight, WrongOnlyAt
    <3> QED
      BY <3>1, <3>2
  <2> QED
    BY <1>4, <1>10, <1>11, <2>2, <2>3, <2>4 DEF Lowering
<1> DEFINE J == {s} \union (Raising(D, F, r) \union Lowering(D, F, r))
<1>14. after \in Raising(D, F, r) \union Lowering(D, F, r)
  BY <1>4, <1>9, <1>12, <1>13
<1>15. J \in SUBSET Pending
  BY <1>2 DEF Raising, Lowering
<1>16. KeptByVisits(D, J)
  <2>1. KeptByVisits(D, Raising(D, F, r)) /\ KeptByVisits(D, Lowering(D, F, r))
    BY RaisingKept, LoweringKept
  <2> QED
    BY <1>14, <2>1 DEF KeptByVisits, after
<1>17. PICK t \in J : t.work = <<>> /\ Settled(D, r, v) = t.rank
  <2>1. [rank |-> r, work |-> <<v>>] \in J
    BY DEF s
  <2> HIDE DEF J
  <2> QED
    BY <1>1, <1>15, <1>16, <2>1, SettledIn
<1>18. t \in Raising(D, F, r) \union Lowering(D, F, r)
  BY <1>2, <1>17
<1> QED
  BY <1>17, <1>18, NothingToVisit DEF v
-----------------------------------------------------------------------------
(***************************************************************************)
(* Edits of the graph keep the ranks exact, and change only those of nodes  *)
(* downstream.                                                              *)
(***************************************************************************)
\* Numbers that rise from dependency to dependent give heights that fall.
LEMMA FallingHeights ==
  ASSUME NEW D \in Graphs, NEW g \in [Nodes -> Nat],
         \A n \in Nodes : \A d \in Dependencies(D, n) : g[d] < g[n]
  PROVE  \E h \in [Nodes -> Nat] : Falling(D, h)
<1> DEFINE above(x) == {y \in Nodes : g[y] > g[x]}
           h == [x \in Nodes |-> Cardinality(above(x))]
<1>1. \A x \in Nodes : IsFiniteSet(above(x)) /\ Cardinality(above(x)) \in Nat
  BY GraphConstants, FS_Subset, FS_CardinalityType
<1>2. ASSUME NEW n \in Nodes, NEW d \in Dependents(D, n) PROVE h[d] < h[n]
  <2>1. d \in Nodes /\ g[n] < g[d] /\ g[n] \in Nat /\ g[d] \in Nat
    BY EdgeFacts
  <2>2. above(d) \subseteq above(n)
    BY <2>1
  <2>3. d \in above(n) /\ d \notin above(d)
    BY <2>1
  <2>4. above(d) # above(n)
    BY <2>3
  <2> HIDE DEF above
  <2>5. Cardinality(above(d)) <= Cardinality(above(n))
        /\ Cardinality(above(d)) # Cardinality(above(n))
    BY <1>1, <2>2, <2>4, FS_Subset
  <2> QED
    BY <1>1, <2>1, <2>5
<1>3. h \in [Nodes -> Nat]
  BY <1>1
<1> QED
  BY <1>2, <1>3 DEF Falling

\* Exact ranks rise from dependency to dependent, those of fewer edges too.
LEMMA ExactFalling ==
  ASSUME NEW D \in Graphs, NEW r \in Ranks, Exact(D, r), NEW E \in Graphs,
         \A n \in Nodes : Dependencies(E, n) \subseteq Dependencies(D, n)
  PROVE  \E h \in [Nodes -> Nat] : Falling(E, h)
<1>1. r \in [Nodes -> Nat]
  BY DEF Ranks
<1>2. ASSUME NEW n \in Nodes, NEW d \in Dependencies(E, n) PROVE r[d] < r[n]
  BY ExactAcyclic
<1> QED
  BY <1>1, <1>2, FallingHeights

\* The graph after the edge of that name is removed from n: the ranks are exact,
\* and those that differ are of nodes in F.
EdgeRemoved(D, r, F, n, name, after) ==
  /\ after = [dep |-> after.dep, rank |-> after.rank]
  /\ after.dep = [D EXCEPT ![n][name] = NoNode]
  /\ after.dep \in Graphs
  /\ \A x \in Nodes : Dependencies(after.dep, x) \subseteq Dependencies(D, x)
  /\ after.rank \in Ranks
  /\ Exact(after.dep, after.rank)
  /\ \A x \in Nodes \ F : after.rank[x] = r[x]

\* removeDependency: F has the node and what depends on it.
LEMMA WithoutEdgeFacts ==
  ASSUME NEW D \in Graphs, NEW r \in Ranks, Exact(D, r),
         NEW n \in Nodes, NEW name \in Names,
         NEW F \in SUBSET Nodes, n \in F, \A x \in F : Dependents(D, x) \subseteq F,
         NEW graph, graph = [dep |-> D, rank |-> r], NEW edge, edge = <<n, name>>
  PROVE  EdgeRemoved(D, r, F, n, name, WithoutEdge(graph, edge))
<1> DEFINE E == [D EXCEPT ![n][name] = NoNode]
           q == Settled(E, r, Recalculate(n))
<1>1. WithoutEdge(graph, edge) = [dep |-> E, rank |-> q]
  BY DEF WithoutEdge
<1>2. E \in Graphs
  BY DEF Graphs
<1>3. /\ \A x \in Nodes : Dependencies(E, x) \subseteq Dependencies(D, x)
      /\ \A x \in Nodes : x # n => Dependencies(E, x) = Dependencies(D, x)
  BY DEF Graphs, Dependencies
<1>4. \A x \in Nodes : Dependents(E, x) \subseteq Dependents(D, x)
  BY <1>3 DEF Dependents
<1> HIDE DEF E
<1>5. PICK h \in [Nodes -> Nat] : Falling(E, h)
  BY <1>2, <1>3, ExactFalling
<1>6. WrongOnlyAt(E, r, n)
  <2>1. \A x \in Nodes : Low(D, r, x) /\ Tight(D, r, x)
    BY ExactRank DEF Exact
  <2> QED
    BY <1>3, <2>1 DEF Low, Tight, WrongOnlyAt
<1>7. SettledTo(E, F, r, q)
  <2>1. \A x \in F : Dependents(E, x) \subseteq F
    BY <1>4
  <2> QED
    BY <1>2, <1>5, <1>6, <2>1, SettledRecalculated
<1> HIDE DEF q
<1>8. E = [D EXCEPT ![n][name] = NoNode]
  BY DEF E
<1>9. PICK after : /\ after = WithoutEdge(graph, edge) /\ after = [dep |-> E, rank |-> q]
                   /\ after.dep = E /\ after.rank = q
  BY <1>1
<1> QED
  BY <1>2, <1>3, <1>7, <1>8, <1>9 DEF EdgeRemoved, SettledTo

\* setDependency, of n, to m.
EdgeAdded(D, r, n, name, m) ==
  LET E == [D EXCEPT ![n][name] = m]
      q == CASE D[n][name] = m -> r
             [] D[n][name] = NoNode -> Settled(E, r, MaybeIncrease(n, r[m]))
             [] OTHER -> Settled(E, r, Recalculate(n))
  IN  /\ E \in Graphs /\ q \in Ranks /\ Exact(E, q)
      /\ \A x \in Nodes \ Downstream(E, {n}) : q[x] = r[x]

LEMMA AddedEdge ==
  ASSUME NEW D \in Graphs, NEW r \in Ranks, Exact(D, r),
         NEW n \in Nodes, NEW m \in Nodes, NEW name \in Names,
         CanBeDependency(D, n, m)
  PROVE  EdgeAdded(D, r, n, name, m)
<1> USE DEF EdgeAdded
<1> DEFINE E == [D EXCEPT ![n][name] = m]
           F == Downstream(E, {n})
<1>1. E \in Graphs
  BY DEF Graphs
<1>2. /\ \A x \in Nodes : x # n => Dependencies(E, x) = Dependencies(D, x)
      /\ Dependencies(E, n) \subseteq Dependencies(D, n) \union {m}
      /\ m \in Dependencies(E, n)
      /\ D[n][name] = NoNode => Dependencies(E, n) = Dependencies(D, n) \union {m}
  <2>1. \A x \in Nodes : x # n => E[x] = D[x]
    BY DEF Graphs
  <2>2. /\ E[n][name] = m /\ \A s \in Names : s # name => E[n][s] = D[n][s]
    BY DEF Graphs
  <2>3. m # NoNode
    BY GraphConstants
  <2> HIDE DEF E
  <2> QED
    BY <2>1, <2>2, <2>3 DEF Dependencies
<1>3. D[n][name] = m => E = D
  BY DEF Graphs
<1> HIDE DEF E
<1>4. F \in SUBSET Nodes /\ n \in F /\ \A x \in F : Dependents(E, x) \subseteq F
  BY <1>1, DownstreamFacts
<1>5. \A x \in Nodes : /\ Low(D, r, x) /\ Tight(D, r, x)
                       /\ Dependencies(D, x) \subseteq Nodes
  BY ExactRank, EdgeFacts DEF Exact
<1>6. PICK h \in [Nodes -> Nat] : Falling(E, h)
  <2> DEFINE G == Downstream(D, {n})
             g == [x \in Nodes |-> r[x] + (IF x \in G THEN r[m] + 1 ELSE 0)]
  <2>1. r[m] \in Nat /\ \A x \in Nodes : r[x] \in Nat
    BY DEF Ranks
  <2>2. n \in G /\ m \notin G /\ \A x \in Nodes : \A d \in Dependencies(D, x) : d \in G => x \in G
    <3>1. n \in G /\ m \notin G
      BY DownstreamFacts, UpstreamDownstream DEF CanBeDependency
    <3>2. \A x \in Nodes : \A d \in Dependencies(D, x) : x \in Dependents(D, d)
      BY <1>5 DEF Dependents
    <3> QED
      BY <3>1, <3>2, DownstreamFacts
  <2>3. g \in [Nodes -> Nat]
    BY <2>1
  <2>4. ASSUME NEW x \in Nodes, NEW d \in Dependencies(E, x) PROVE g[d] < g[x]
    <3>1. CASE d \in Dependencies(D, x)
      <4>1. d \in Nodes /\ r[d] < r[x]
        BY <3>1, ExactAcyclic
      <4> HIDE DEF G
      <4> QED
        BY <2>1, <2>2, <3>1, <4>1
    <3>2. CASE d \notin Dependencies(D, x)
      <4>1. x = n /\ d = m
        BY <1>2, <3>2
      <4> HIDE DEF G
      <4> QED
        BY <2>1, <2>2, <4>1
    <3> QED
      BY <3>1, <3>2
  <2> HIDE DEF g
  <2> QED
    BY <1>1, <2>3, <2>4, FallingHeights
<1>7. CASE D[n][name] = m
  <2>1. E = D
    BY <1>3, <1>7
  <2>2. E \in Graphs /\ r \in Ranks /\ Exact(E, r)
    BY <2>1
  <2> QED
    BY <1>7, <2>2, GraphConstants DEF E
<1>8. CASE D[n][name] = NoNode
  <2>1. PICK k \in Nat : k = r[m] /\ m # NoNode
    BY GraphConstants DEF Ranks
  <2>2. \A x \in Nodes : Tight(E, r, x)
    BY <1>2, <1>5, <1>8 DEF Tight
  <2>3. \A x \in Nodes \ {n} : Low(E, r, x)
    BY <1>2, <1>5 DEF Low
  <2>4. \A d \in Dependencies(E, n) : r[n] >= r[d] + 1 \/ k >= r[d]
    BY <1>2, <1>5, <2>1 DEF Low
  <2>5. \E d \in Dependencies(E, n) : r[d] >= k
    BY <1>2, <2>1
  <2>6. LowOnlyAt(E, r, n, k)
    BY <2>2, <2>3, <2>4, <2>5 DEF LowOnlyAt
  <2> HIDE DEF F
  <2>7. SettledTo(E, F, r, Settled(E, r, MaybeIncrease(n, k)))
    BY <1>1, <1>4, <1>6, <2>6, SettledRaised
  <2> QED
    BY <1>1, <1>8, <2>1, <2>7 DEF E, F, SettledTo
<1>9. CASE D[n][name] # m /\ D[n][name] # NoNode
  <2>1. WrongOnlyAt(E, r, n)
    BY <1>2, <1>5 DEF Low, Tight, WrongOnlyAt
  <2> HIDE DEF F
  <2>2. SettledTo(E, F, r, Settled(E, r, Recalculate(n)))
    BY <1>1, <1>4, <1>6, <2>1, SettledRecalculated
  <2> QED
    BY <1>1, <1>9, <2>2 DEF E, F, SettledTo
<1> QED
  BY <1>7, <1>8, <1>9

\* The recursion that defines WithoutEdges has a solution.
Removal(graph, edges, f, k) ==
  f = [i \in 0 .. k |-> IF i = 0 THEN graph ELSE WithoutEdge(f[i - 1], edges[i])]

LEMMA RemovalSolved ==
  ASSUME NEW graph, NEW edges, NEW k \in Nat
  PROVE  \E f : Removal(graph, edges, f, k)
<1> DEFINE K == {j \in Nat : \E f : Removal(graph, edges, f, j)}
<1>1. 0 \in K
  <2>1. [i \in 0 .. 0 |-> graph] =
          [i \in 0 .. 0 |-> IF i = 0 THEN graph
                            ELSE WithoutEdge([x \in 0 .. 0 |-> graph][i - 1], edges[i])]
    OBVIOUS
  <2> QED
    BY <2>1 DEF Removal
<1>2. ASSUME NEW j \in Nat, j \in K PROVE j + 1 \in K
  <2>1. PICK f : Removal(graph, edges, f, j)
    BY <1>2
  <2> DEFINE g == [i \in 0 .. j + 1 |->
                     IF i = j + 1 THEN WithoutEdge(f[j], edges[j + 1]) ELSE f[i]]
  <2>2. ASSUME NEW i \in 0 .. j + 1
        PROVE  g[i] = IF i = 0 THEN graph ELSE WithoutEdge(g[i - 1], edges[i])
    <3>1. CASE i = j + 1
      <4>1. i # 0 /\ i - 1 = j /\ j \in 0 .. j + 1 /\ j # j + 1
        BY <3>1
      <4>2. g[i] = WithoutEdge(f[j], edges[j + 1]) /\ g[j] = f[j]
        BY <3>1, <4>1
      <4> QED
        BY <3>1, <4>1, <4>2
    <3>2. CASE i # j + 1
      <4>1. i \in 0 .. j
        BY <3>2
      <4>2. g[i] = f[i] /\ (i # 0 => g[i - 1] = f[i - 1])
        BY <4>1
      <4>3. f[i] = IF i = 0 THEN graph ELSE WithoutEdge(f[i - 1], edges[i])
        BY <2>1, <4>1 DEF Removal
      <4> QED
        BY <4>2, <4>3
    <3> QED
      BY <3>1, <3>2
  <2>3. g = [i \in 0 .. j + 1 |-> IF i = 0 THEN graph ELSE WithoutEdge(g[i - 1], edges[i])]
    BY <2>2
  <2> HIDE DEF g
  <2>4. j + 1 \in Nat
    OBVIOUS
  <2> QED
    BY <2>3, <2>4 DEF Removal
<1>3. Nat \subseteq K
  <2> HIDE DEF K
  <2> QED
    BY <1>1, <1>2, SetInduction
<1> QED
  BY <1>3

LEMMA WithoutEdgesBySolution ==
  ASSUME NEW graph, NEW edges, Len(edges) \in Nat
  PROVE  \E f : Removal(graph, edges, f, Len(edges))
                /\ WithoutEdges(graph, edges) = f[Len(edges)]
<1>1. PICK g : g = CHOOSE f : f = [i \in 0 .. Len(edges) |->
                 IF i = 0 THEN graph ELSE WithoutEdge(f[i - 1], edges[i])]
  OBVIOUS
<1>2. Removal(graph, edges, g, Len(edges))
  BY <1>1, RemovalSolved DEF Removal
<1>3. WithoutEdges(graph, edges) = g[Len(edges)]
  BY <1>1 DEF WithoutEdges
<1> QED
  BY <1>2, <1>3

\* The graph without the first k of some edges of nodes in F.
IsWithout(graph, D, r, F, edges, k) ==
  /\ graph = [dep |-> graph.dep, rank |-> graph.rank]
  /\ graph.dep \in Graphs
  /\ \A n \in Nodes, name \in Names :
       graph.dep[n][name] = IF \E i \in 1 .. k : edges[i] = <<n, name>> THEN NoNode
                            ELSE D[n][name]
  /\ graph.rank \in Ranks
  /\ Exact(graph.dep, graph.rank)
  /\ \A n \in Nodes \ F : graph.rank[n] = r[n]

LEMMA IsWithoutStep ==
  ASSUME NEW D \in Graphs, NEW r \in Ranks,
         NEW F \in SUBSET Nodes, \A x \in F : Dependents(D, x) \subseteq F,
         NEW edges \in Seq(Nodes \X Names),
         \A i \in 1 .. Len(edges) : edges[i][1] \in F,
         NEW k \in Nat, k + 1 <= Len(edges),
         NEW graph, IsWithout(graph, D, r, F, edges, k)
  PROVE  IsWithout(WithoutEdge(graph, edges[k + 1]), D, r, F, edges, k + 1)
<1>1. PICK n \in F, name \in Names : edges[k + 1] = <<n, name>>
  <2>1. k + 1 \in 1 .. Len(edges)
    OBVIOUS
  <2> QED
    BY <2>1
<1>2. PICK E \in Graphs, q \in Ranks :
        graph = [dep |-> E, rank |-> q] /\ E = graph.dep /\ q = graph.rank
  BY DEF IsWithout
<1>3. Exact(E, q) /\ \A x \in Nodes \ F : q[x] = r[x]
  BY <1>2 DEF IsWithout
<1>4. \A x \in F : Dependents(E, x) \subseteq F
  <2>1. ASSUME NEW x \in F, NEW y \in Dependents(E, x) PROVE y \in Dependents(D, x)
    <3>1. PICK s \in Names : y \in Nodes /\ x # NoNode /\ E[y][s] = x
      BY DEF Dependents, Dependencies
    <3>2. D[y][s] = x
      BY <1>2, <3>1 DEF IsWithout
    <3> QED
      BY <3>1, <3>2 DEF Dependents, Dependencies
  <2> QED
    BY <2>1
<1>5. EdgeRemoved(E, q, F, n, name, WithoutEdge(graph, edges[k + 1]))
  <2>1. n \in Nodes
    OBVIOUS
  <2> QED
    BY <1>1, <1>2, <1>3, <1>4, <2>1, WithoutEdgeFacts
<1>6. PICK after :
        /\ after = WithoutEdge(graph, edges[k + 1])
        /\ after = [dep |-> after.dep, rank |-> after.rank]
        /\ after.dep = [E EXCEPT ![n][name] = NoNode]
        /\ after.dep \in Graphs /\ after.rank \in Ranks
        /\ Exact(after.dep, after.rank)
        /\ \A x \in Nodes \ F : after.rank[x] = q[x]
  BY <1>5 DEF EdgeRemoved
<1>7. ASSUME NEW m \in Nodes, NEW s \in Names
      PROVE  after.dep[m][s] = IF \E i \in 1 .. k + 1 : edges[i] = <<m, s>> THEN NoNode
                               ELSE D[m][s]
  <2>1. E[m][s] = IF \E i \in 1 .. k : edges[i] = <<m, s>> THEN NoNode ELSE D[m][s]
    BY <1>2 DEF IsWithout
  <2>2. (\E i \in 1 .. k + 1 : edges[i] = <<m, s>>) <=>
          (\E i \in 1 .. k : edges[i] = <<m, s>>) \/ <<m, s>> = <<n, name>>
    <3>1. \A i \in 1 .. k + 1 : i \in 1 .. k \/ i = k + 1
      OBVIOUS
    <3>2. k + 1 \in 1 .. k + 1 /\ 1 .. k \subseteq 1 .. k + 1
      OBVIOUS
    <3> QED
      BY <1>1, <3>1, <3>2
  <2>3. after.dep[m][s] = IF <<m, s>> = <<n, name>> THEN NoNode ELSE E[m][s]
    BY <1>6 DEF Graphs
  <2> QED
    BY <2>1, <2>2, <2>3
<1> QED
  BY <1>3, <1>6, <1>7 DEF IsWithout

LEMMA WithoutEdgesFacts ==
  ASSUME NEW D \in Graphs, NEW r \in Ranks, Exact(D, r),
         NEW F \in SUBSET Nodes, \A x \in F : Dependents(D, x) \subseteq F,
         NEW edges \in Seq(Nodes \X Names),
         \A i \in 1 .. Len(edges) : edges[i][1] \in F
  PROVE  IsWithout(WithoutEdges([dep |-> D, rank |-> r], edges), D, r, F, edges, Len(edges))
<1> DEFINE graph == [dep |-> D, rank |-> r]
<1>1. Len(edges) \in Nat
  OBVIOUS
<1>2. PICK f : Removal(graph, edges, f, Len(edges))
               /\ WithoutEdges(graph, edges) = f[Len(edges)]
  BY <1>1, WithoutEdgesBySolution
<1> DEFINE K == {k \in Nat : k <= Len(edges) => IsWithout(f[k], D, r, F, edges, k)}
<1>3. 0 \in K
  <2>1. f[0] = graph
    BY <1>1, <1>2 DEF Removal
  <2>2. IsWithout(graph, D, r, F, edges, 0)
    BY DEF IsWithout
  <2> QED
    BY <2>1, <2>2
<1>4. ASSUME NEW k \in Nat, k \in K PROVE k + 1 \in K
  <2>1. SUFFICES ASSUME k + 1 <= Len(edges)
                 PROVE  IsWithout(f[k + 1], D, r, F, edges, k + 1)
    OBVIOUS
  <2>2. IsWithout(f[k], D, r, F, edges, k)
    BY <1>1, <1>4, <2>1
  <2>3. f[k + 1] = WithoutEdge(f[k], edges[k + 1])
    <3>1. k + 1 \in 0 .. Len(edges) /\ k + 1 # 0 /\ (k + 1) - 1 = k
      BY <1>1, <2>1
    <3> QED
      BY <1>2, <3>1 DEF Removal
  <2> QED
    BY <2>1, <2>2, <2>3, IsWithoutStep
<1>5. Nat \subseteq K
  <2> HIDE DEF K
  <2> QED
    BY <1>3, <1>4, SetInduction
<1>6. IsWithout(f[Len(edges)], D, r, F, edges, Len(edges))
  BY <1>1, <1>5
<1> QED
  BY <1>2, <1>6

\* destroy: the edges of n, and those to n, are removed.
EdgesRemoved(D, r, n) ==
  LET edges(m, S) == {<<m, name>> : name \in {s \in Names : D[m][s] \in S}}
      own == SetToSeq(edges(n, Nodes))
      others == SetToSeq(UNION {edges(m, {n}) : m \in Nodes})
      graph == WithoutEdges([dep |-> D, rank |-> r], own \o others)
  IN  /\ graph.dep \in Graphs
      /\ \A m \in Nodes, name \in Names :
           graph.dep[m][name] = IF m = n \/ D[m][name] = n THEN NoNode ELSE D[m][name]
      /\ graph.rank \in Ranks
      /\ Exact(graph.dep, graph.rank)
      /\ \A m \in Nodes \ Downstream(D, {n}) : graph.rank[m] = r[m]

LEMMA DestroyedFacts ==
  ASSUME NEW D \in Graphs, NEW r \in Ranks, Exact(D, r), NEW n \in Nodes
  PROVE  EdgesRemoved(D, r, n)
<1> DEFINE edges(m, S) == {<<m, name>> : name \in {s \in Names : D[m][s] \in S}}
           OwnEdges == edges(n, Nodes)
           OtherEdges == UNION {edges(m, {n}) : m \in Nodes}
           own == SetToSeq(OwnEdges)
           others == SetToSeq(OtherEdges)
           F == Downstream(D, {n})
<1>1. IsFiniteSet(Nodes \X Names)
  BY GraphConstants, FS_Product
<1>2. OwnEdges \in SUBSET (Nodes \X Names) /\ OtherEdges \in SUBSET (Nodes \X Names)
  OBVIOUS
<1>3. /\ \A m \in Nodes, s \in Names : <<m, s>> \in OwnEdges <=> m = n /\ D[m][s] \in Nodes
      /\ \A m \in Nodes, s \in Names : <<m, s>> \in OtherEdges <=> D[m][s] = n
  OBVIOUS
<1>4. F \in SUBSET Nodes /\ n \in F /\ \A x \in F : Dependents(D, x) \subseteq F
  BY DownstreamFacts
<1>5. /\ own \in Seq(OwnEdges) /\ {own[i] : i \in 1 .. Len(own)} = OwnEdges
      /\ others \in Seq(OtherEdges) /\ {others[i] : i \in 1 .. Len(others)} = OtherEdges
  <2> HIDE DEF OwnEdges, OtherEdges
  <2>1. IsFiniteSet(OwnEdges) /\ IsFiniteSet(OtherEdges)
    BY <1>1, <1>2, FS_Subset
  <2> QED
    BY <2>1, ListedSet
<1> HIDE DEF OwnEdges, OtherEdges
<1>6. PICK a \in Seq(Nodes \X Names), b \in Seq(Nodes \X Names), list \in Seq(Nodes \X Names) :
        a = own /\ b = others /\ list = own \o others
  <2>1. own \in Seq(Nodes \X Names) /\ others \in Seq(Nodes \X Names)
    <3> HIDE DEF own, others
    <3> QED
      BY <1>2, <1>5, SeqMonotonic
  <2>2. own \o others \in Seq(Nodes \X Names)
    <3> HIDE DEF own, others
    <3> QED
      BY <2>1
  <2> QED
    BY <2>1, <2>2
<1> HIDE DEF own, others
<1>7. {list[i] : i \in 1 .. Len(list)} = OwnEdges \union OtherEdges
  <2>1. Range(list) = Range(a) \union Range(b)
    BY <1>6, RangeConcatenation
  <2>2. /\ Range(a) = {a[i] : i \in 1 .. Len(a)}
        /\ Range(b) = {b[i] : i \in 1 .. Len(b)}
        /\ Range(list) = {list[i] : i \in 1 .. Len(list)}
    BY RangeEquality
  <2>3. Range(a) = OwnEdges
    BY <1>5, <1>6, <2>2
  <2>4. Range(b) = OtherEdges
    BY <1>5, <1>6, <2>2
  <2> QED
    BY <2>1, <2>2, <2>3, <2>4
<1>8. \A i \in 1 .. Len(list) : list[i][1] \in F
  <2> TAKE i \in 1 .. Len(list)
  <2>1. PICK m \in Nodes, s \in Names : list[i] = <<m, s>>
    OBVIOUS
  <2>2. m = n \/ D[m][s] = n
    BY <1>3, <1>7, <2>1
  <2>3. m = n \/ m \in Dependents(D, n)
    BY <2>2, GraphConstants DEF Dependents, Dependencies
  <2> HIDE DEF F
  <2> QED
    BY <1>4, <2>1, <2>3
<1>9. PICK graph : graph = WithoutEdges([dep |-> D, rank |-> r], list)
  OBVIOUS
<1>10. IsWithout(graph, D, r, F, list, Len(list))
  <2> HIDE DEF F
  <2> QED
    BY <1>4, <1>8, <1>9, WithoutEdgesFacts
<1>11. ASSUME NEW m \in Nodes, NEW s \in Names
       PROVE  graph.dep[m][s] = IF m = n \/ D[m][s] = n THEN NoNode ELSE D[m][s]
  <2>1. graph.dep[m][s] = IF \E i \in 1 .. Len(list) : list[i] = <<m, s>> THEN NoNode
                          ELSE D[m][s]
    BY <1>10 DEF IsWithout
  <2>2. (\E i \in 1 .. Len(list) : list[i] = <<m, s>>) <=>
          (m = n /\ D[m][s] \in Nodes) \/ D[m][s] = n
    <3>1. (\E i \in 1 .. Len(list) : list[i] = <<m, s>>) <=>
            <<m, s>> \in {list[i] : i \in 1 .. Len(list)}
      OBVIOUS
    <3> QED
      BY <1>3, <1>7, <3>1
  <2>3. D[m][s] \in Nodes \/ D[m][s] = NoNode
    BY DEF Graphs
  <2> QED
    BY <2>1, <2>2, <2>3
<1>12. /\ graph.dep \in Graphs /\ graph.rank \in Ranks
       /\ Exact(graph.dep, graph.rank)
       /\ \A m \in Nodes \ F : graph.rank[m] = r[m]
  BY <1>10 DEF IsWithout
<1> QED
  BY <1>6, <1>9, <1>11, <1>12 DEF own, others, OwnEdges, OtherEdges, EdgesRemoved
-----------------------------------------------------------------------------
(***************************************************************************)
(* Marks: what is marked, to refresh or out of date goes up to dependents.  *)
(***************************************************************************)
UpwardIn(D, S, T) == \A n \in S : Dependents(D, n) \subseteq T

\* A set that goes up has all that is downstream of its nodes.
LEMMA UpwardDownstream ==
  ASSUME NEW D \in Graphs, NEW T \in SUBSET Nodes, UpwardIn(D, T, T),
         NEW n \in T
  PROVE  Downstream(D, {n}) \subseteq T
BY DownstreamFacts DEF UpwardIn

\* A set is added to another, with what is reached outside of it.
LEMMA AddedReach ==
  ASSUME NEW M \in SUBSET Nodes, NEW S \in SUBSET Nodes,
         NEW next \in [Nodes -> SUBSET Nodes],
         \A n \in Nodes : next[n] \intersect M = {}
  PROVE  /\ M \union Reach(S \ M, next) \in SUBSET Nodes
         /\ S \subseteq M \union Reach(S \ M, next)
         /\ \A n \in (M \union Reach(S \ M, next)) \ M :
              next[n] \subseteq M \union Reach(S \ M, next)
<1>1. S \ M \in SUBSET Nodes
  OBVIOUS
<1> QED
  BY <1>1, ReachFacts DEF Closed

\* markForRecompile marks the nodes, and the dependents of what it marks.
LEMMA RecompiledFacts ==
  ASSUME NEW D \in Graphs, NEW M \in SUBSET Nodes, NEW S \in SUBSET Nodes
  PROVE  /\ Recompiled(M, D, S) \in SUBSET Nodes
         /\ M \subseteq Recompiled(M, D, S) /\ S \subseteq Recompiled(M, D, S)
         /\ UpwardIn(D, Recompiled(M, D, S) \ M, Recompiled(M, D, S))
<1> DEFINE next == [n \in Nodes |-> (Dependencies(D, n) \union Dependents(D, n)) \ M]
<1>1. next \in [Nodes -> SUBSET Nodes] /\ \A n \in Nodes : next[n] \intersect M = {}
  BY EdgeFacts
<1>2. \A n \in Nodes : Dependents(D, n) \subseteq M \union next[n]
  OBVIOUS
<1>3. Recompiled(M, D, S) = M \union Reach(S \ M, next)
  BY DEF Recompiled
<1> HIDE DEF next
<1>4. /\ Recompiled(M, D, S) \in SUBSET Nodes /\ S \subseteq Recompiled(M, D, S)
      /\ \A m \in Recompiled(M, D, S) \ M : next[m] \subseteq Recompiled(M, D, S)
  <2>1. /\ M \union Reach(S \ M, next) \in SUBSET Nodes
        /\ S \subseteq M \union Reach(S \ M, next)
        /\ \A n \in (M \union Reach(S \ M, next)) \ M :
             next[n] \subseteq M \union Reach(S \ M, next)
    BY <1>1, AddedReach
  <2> QED
    BY <1>3, <2>1
<1>5. M \subseteq Recompiled(M, D, S)
  BY <1>3
<1> QED
  BY <1>2, <1>4, <1>5 DEF UpwardIn

\* So do markForRefresh and setOutOfDate.
LEMMA RefreshedFacts ==
  ASSUME NEW D \in Graphs, NEW M \in SUBSET Nodes, NEW n \in Nodes
  PROVE  /\ Refreshed(M, D, n) \in SUBSET Nodes
         /\ M \subseteq Refreshed(M, D, n) /\ n \in Refreshed(M, D, n)
         /\ UpwardIn(D, Refreshed(M, D, n) \ M, Refreshed(M, D, n))
<1> DEFINE next == [m \in Nodes |-> Dependents(D, m) \ M]
<1>1. next \in [Nodes -> SUBSET Nodes] /\ \A m \in Nodes : next[m] \intersect M = {}
  BY EdgeFacts
<1>2. \A m \in Nodes : Dependents(D, m) \subseteq M \union next[m]
  OBVIOUS
<1>3. Refreshed(M, D, n) = M \union Reach({n} \ M, next)
  BY DEF Refreshed
<1> HIDE DEF next
<1>4. /\ Refreshed(M, D, n) \in SUBSET Nodes /\ {n} \subseteq Refreshed(M, D, n)
      /\ \A m \in Refreshed(M, D, n) \ M : next[m] \subseteq Refreshed(M, D, n)
  <2>1. {n} \in SUBSET Nodes
    OBVIOUS
  <2>2. /\ M \union Reach({n} \ M, next) \in SUBSET Nodes
        /\ {n} \subseteq M \union Reach({n} \ M, next)
        /\ \A m \in (M \union Reach({n} \ M, next)) \ M :
             next[m] \subseteq M \union Reach({n} \ M, next)
    BY <1>1, <2>1, AddedReach
  <2> QED
    BY <1>3, <2>2
<1>5. M \subseteq Refreshed(M, D, n)
  BY <1>3
<1> QED
  BY <1>2, <1>4, <1>5 DEF UpwardIn

LEMMA OutOfDateFacts ==
  ASSUME NEW D \in Graphs, NEW M \in SUBSET Nodes, NEW S \in SUBSET Nodes
  PROVE  /\ OutOfDate(M, D, S) \in SUBSET Nodes
         /\ M \subseteq OutOfDate(M, D, S) /\ S \subseteq OutOfDate(M, D, S)
         /\ UpwardIn(D, OutOfDate(M, D, S) \ M, OutOfDate(M, D, S))
<1> DEFINE next == [n \in Nodes |-> Dependents(D, n) \ M]
<1>1. next \in [Nodes -> SUBSET Nodes] /\ \A n \in Nodes : next[n] \intersect M = {}
  BY EdgeFacts
<1>2. \A n \in Nodes : Dependents(D, n) \subseteq M \union next[n]
  OBVIOUS
<1>3. OutOfDate(M, D, S) = M \union Reach(S \ M, next)
  BY DEF OutOfDate
<1> HIDE DEF next
<1>4. /\ OutOfDate(M, D, S) \in SUBSET Nodes /\ S \subseteq OutOfDate(M, D, S)
      /\ \A m \in OutOfDate(M, D, S) \ M : next[m] \subseteq OutOfDate(M, D, S)
  BY <1>1, <1>3, AddedReach
<1>5. M \subseteq OutOfDate(M, D, S)
  BY <1>3
<1> QED
  BY <1>2, <1>4, <1>5 DEF UpwardIn
-----------------------------------------------------------------------------
(***************************************************************************)
(* Run states.                                                              *)
(***************************************************************************)
MissingIn(D, B, n) == {name \in B[n] : D[n][name] = NoNode}
StreamIn(D, r, n) == {<<r[m], m>> : m \in Upstream(D, {n})}

\* What RunStatesSound says of one node.
SoundAt(D, r, B, R, n) ==
  /\ R[n].state = "can" =>
       /\ \A m \in Upstream(D, {n}) : MissingIn(D, B, m) = {} /\ R[m].state = "can"
       /\ R[n].stream = StreamIn(D, r, n)
  /\ R[n].state = "cannot" => \E m \in Upstream(D, {n}) : MissingIn(D, B, m) # {}

LEMMA RunStatesSoundAt ==
  RunStatesSound <=> \A n \in Nodes \ marked : SoundAt(dep, rank, bindings, run, n)
BY DEF RunStatesSound, SoundAt, MissingIn, StreamIn, Missing, Stream

\* Two graphs with the same edges but from nodes of N are the same upstream of a
\* node, when none of N is there.
LEMMA SameUpstream ==
  ASSUME NEW D \in Graphs, NEW E \in Graphs, NEW N \in SUBSET Nodes, NEW x \in Nodes,
         \A y \in Nodes \ N : E[y] = D[y],
         Upstream(E, {x}) \intersect N = {}
  PROVE  Upstream(E, {x}) = Upstream(D, {x})
<1>1. \A y \in Nodes \ N : Dependencies(E, y) = Dependencies(D, y)
  BY DEF Dependencies
<1>2. /\ Upstream(E, {x}) \in SUBSET Nodes /\ x \in Upstream(E, {x})
      /\ \A y \in Upstream(E, {x}) : Dependencies(E, y) \subseteq Upstream(E, {x})
  BY UpstreamFacts
<1>3. Upstream(D, {x}) \subseteq Upstream(E, {x})
  <2>1. \A y \in Upstream(E, {x}) : Dependencies(D, y) \subseteq Upstream(E, {x})
    BY <1>1, <1>2
  <2> QED
    BY <1>2, <2>1, UpstreamFacts
<1>4. /\ Upstream(D, {x}) \in SUBSET Nodes /\ x \in Upstream(D, {x})
      /\ \A y \in Upstream(D, {x}) : Dependencies(D, y) \subseteq Upstream(D, {x})
  BY UpstreamFacts
<1>5. \A y \in Upstream(D, {x}) : Dependencies(E, y) \subseteq Upstream(D, {x})
  BY <1>1, <1>3, <1>4
<1>6. Upstream(E, {x}) \subseteq Upstream(D, {x})
  BY <1>4, <1>5, UpstreamFacts
<1> QED
  BY <1>3, <1>6

\* What is sound at a node stays so when nothing upstream of it is changed.
LEMMA SoundAtKept ==
  ASSUME NEW D \in Graphs, NEW E \in Graphs, NEW N \in SUBSET Nodes, NEW x \in Nodes,
         NEW r, NEW q, NEW B, NEW C, NEW R, NEW Q,
         \A y \in Nodes \ N : E[y] = D[y] /\ C[y] = B[y] /\ Q[y] = R[y],
         Upstream(E, {x}) \intersect N = {},
         \A y \in Upstream(E, {x}) : q[y] = r[y],
         SoundAt(D, r, B, R, x)
  PROVE  SoundAt(E, q, C, Q, x)
<1>1. Upstream(E, {x}) = Upstream(D, {x})
  <2>1. \A y \in Nodes \ N : E[y] = D[y]
    OBVIOUS
  <2> QED
    BY <2>1, SameUpstream
<1>2. Upstream(E, {x}) \in SUBSET Nodes /\ x \in Upstream(E, {x})
  BY UpstreamFacts
<1>3. \A y \in Upstream(E, {x}) : E[y] = D[y] /\ C[y] = B[y] /\ Q[y] = R[y]
  BY <1>2
<1>4. \A y \in Upstream(E, {x}) : MissingIn(E, C, y) = MissingIn(D, B, y)
  BY <1>3 DEF MissingIn
<1>5. StreamIn(E, q, x) = StreamIn(D, r, x)
  BY <1>1 DEF StreamIn
<1> QED
  BY <1>1, <1>2, <1>3, <1>4, <1>5 DEF SoundAt

\* What is upstream of a node outside of a set that goes up is outside of it.
LEMMA OutsideUpward ==
  ASSUME NEW D \in Graphs, NEW T \in SUBSET Nodes, UpwardIn(D, T, T), NEW x \in Nodes \ T
  PROVE  Upstream(D, {x}) \intersect T = {}
<1>1. ASSUME NEW t \in T, t \in Upstream(D, {x}) PROVE FALSE
  <2>1. x \in Downstream(D, {t})
    BY <1>1, UpstreamDownstream
  <2> QED
    BY <2>1, UpwardDownstream
<1> QED
  BY <1>1
-----------------------------------------------------------------------------
(***************************************************************************)
(* The invariant of the graph: the marks go up to the dependents, and the   *)
(* ranks, the errors and the run states are right where nothing is marked.  *)
(***************************************************************************)
MarkedUpward == UpwardIn(dep, marked, marked)
ErrorsSound == \A n \in Nodes \ marked : n \in errors <=> MissingIn(dep, bindings, n) # {}
StatesSound == \A n \in Nodes \ marked : SoundAt(dep, rank, bindings, run, n)

GraphInv ==
  /\ TypeOK
  /\ RankExact
  /\ MarkedUpward
  /\ ErrorsSound
  /\ StatesSound

LEMMA GraphInvTypes ==
  ASSUME GraphInv
  PROVE  /\ dep \in Graphs /\ rank \in Ranks /\ Exact(dep, rank)
         /\ bindings \in [Nodes -> SUBSET Names] /\ run \in [Nodes -> RunState]
         /\ marked \in SUBSET Nodes /\ refresh \in SUBSET Nodes /\ dirty \in SUBSET Nodes
         /\ current \in SUBSET Nodes /\ executing \in SUBSET Nodes
         /\ faults \in [Nodes -> SUBSET Faults]
BY DEF GraphInv, TypeOK, Graphs, Ranks, RankExact, Exact

\* The history stays one.
HistoryOK == current \subseteq Nodes /\ faults \in [Nodes -> SUBSET Faults]

LEMMA ForgottenTypes ==
  ASSUME GraphInv, NEW S, Forgotten(S)
  PROVE  HistoryOK'
<1>1. current' \subseteq Nodes
  BY GraphInvTypes DEF Forgotten
<1>2. \A m \in Nodes : {wrong \in faults[m] : m \notin S} \in SUBSET Faults
  BY GraphInvTypes
<1>3. faults' \in [Nodes -> SUBSET Faults]
  BY <1>2 DEF Forgotten
<1> QED
  BY <1>1, <1>3 DEF HistoryOK

LEMMA RunToEndTypes ==
  ASSUME GraphInv, NEW n \in Nodes, NEW caught \in SUBSET {"exception"}, RunToEnd(n, caught)
  PROVE  HistoryOK'
<1> DEFINE wrong == caught \union (IF calls[n] = "stale" THEN {"stale"} ELSE {})
           below == Downstream(dep, {n})
<1>1. wrong \in SUBSET Faults
  BY DEF Faults
<1>2. /\ current' = (current \ below) \union
             (IF wrong = {} /\ Dependencies(dep, n) \subseteq current THEN {n} ELSE {})
      /\ faults' = [m \in Nodes |->
             IF m = n THEN wrong ELSE {w \in faults[m] : m \notin below}]
  BY DEF RunToEnd
<1> HIDE DEF wrong, below
<1>3. \A m \in Nodes : {w \in faults[m] : m \notin below} \in SUBSET Faults
  BY GraphInvTypes
<1>4. faults' \in [Nodes -> SUBSET Faults]
  BY <1>1, <1>2, <1>3
<1>5. current' \subseteq Nodes
  BY <1>2, GraphInvTypes
<1> QED
  BY <1>4, <1>5 DEF HistoryOK

\* An edit of the edges or of the bindings of n.
EditOf(n) ==
  /\ dep' \in Graphs
  /\ rank' \in Ranks
  /\ Exact(dep', rank')
  /\ bindings' \in [Nodes -> SUBSET Names]
  /\ \A y \in Nodes \ {n} : dep'[y] = dep[y] /\ bindings'[y] = bindings[y]
  /\ \A y \in Nodes \ Downstream(dep', {n}) : rank'[y] = rank[y]
  /\ Edited(n)

\* The marks after it go up the new graph.
LEMMA EditMarks ==
  ASSUME GraphInv, NEW n \in Nodes, EditOf(n)
  PROVE  /\ marked' \in SUBSET Nodes /\ marked \subseteq marked' /\ n \in marked'
         /\ UpwardIn(dep', marked', marked')
         /\ \A y \in Nodes : Dependents(dep', y) \subseteq Dependents(dep, y) \union {n}
<1>1. dep \in Graphs /\ dep' \in Graphs /\ marked \in SUBSET Nodes /\ UpwardIn(dep, marked, marked)
  BY GraphInvTypes DEF EditOf, GraphInv, MarkedUpward
<1>2. PICK S \in SUBSET Nodes : S = {n}
  OBVIOUS
<1>3. PICK W : W = marked'
  OBVIOUS
<1>4. W = Recompiled(marked, dep', S)
  BY <1>2, <1>3 DEF EditOf, Edited
<1>5. W \in SUBSET Nodes /\ marked \subseteq W /\ S \subseteq W /\ UpwardIn(dep', W \ marked, W)
  BY <1>1, <1>4, RecompiledFacts
<1>6. \A y \in Nodes : Dependents(dep', y) \subseteq Dependents(dep, y) \union {n}
  <2>1. \A y \in Nodes \ {n} : dep'[y] = dep[y]
    BY DEF EditOf
  <2> QED
    BY <2>1 DEF Dependents, Dependencies
<1>7. UpwardIn(dep', W, W)
  <2>1. ASSUME NEW y \in W, NEW z \in Dependents(dep', y) PROVE z \in W
    <3>1. CASE y \in marked
      <4>1. z \in Dependents(dep, y) \union {n}
        BY <1>1, <1>6, <2>1, <3>1
      <4>2. Dependents(dep, y) \subseteq marked
        BY <1>1, <3>1 DEF UpwardIn
      <4> QED
        BY <1>2, <1>5, <4>1, <4>2
    <3>2. CASE y \notin marked
      BY <1>5, <2>1, <3>2 DEF UpwardIn
    <3> QED
      BY <3>1, <3>2
  <2> QED
    BY <2>1 DEF UpwardIn
<1> QED
  BY <1>2, <1>3, <1>5, <1>6, <1>7

\* It keeps the invariant: what is downstream of n is marked, and what is not
\* does not depend on n.
LEMMA EditKeepsGraph ==
  ASSUME GraphInv, NEW n \in Nodes, EditOf(n)
  PROVE  GraphInv'
<1>1. dep \in Graphs /\ dep' \in Graphs /\ marked \in SUBSET Nodes /\ UpwardIn(dep, marked, marked)
  BY GraphInvTypes DEF EditOf, GraphInv, MarkedUpward
<1>2. \A y \in Nodes \ {n} : dep'[y] = dep[y] /\ bindings'[y] = bindings[y]
  BY DEF EditOf
<1>3. /\ marked' \in SUBSET Nodes /\ marked \subseteq marked' /\ n \in marked'
      /\ UpwardIn(dep', marked', marked')
  BY EditMarks
<1>4. TypeOK'
  <2>1. dep' \in Graphs /\ rank' \in Ranks /\ bindings' \in [Nodes -> SUBSET Names]
    BY DEF EditOf
  <2>2. PICK S : S = Downstream(dep', {n})
    OBVIOUS
  <2>3. Forgotten(S)
    BY <2>2 DEF EditOf, Edited
  <2>4. HistoryOK'
    BY <2>3, ForgottenTypes
  <2> QED
    BY <1>3, <2>1, <2>4 DEF GraphInv, TypeOK, HistoryOK, EditOf, Edited, evaluation, Graphs, Ranks
<1>5. RankExact'
  BY DEF EditOf, RankExact, Exact
<1>6. ASSUME NEW x \in Nodes \ marked'
      PROVE  SoundAt(dep', rank', bindings', run', x)
  <2>1. x \in Nodes \ marked
    BY <1>3
  <2>2. SoundAt(dep, rank, bindings, run, x)
    BY <2>1 DEF GraphInv, StatesSound
  <2>3. Upstream(dep', {x}) \intersect marked' = {} /\ Upstream(dep', {x}) \in SUBSET Nodes
    <3>1. {x} \in SUBSET Nodes
      OBVIOUS
    <3> QED
      BY <1>1, <1>3, <3>1, OutsideUpward, UpstreamFacts
  <2>4. Downstream(dep', {n}) \subseteq marked'
    BY <1>1, <1>3, UpwardDownstream
  <2>5. \A y \in Upstream(dep', {x}) : rank'[y] = rank[y]
    BY <2>3, <2>4 DEF EditOf
  <2>6. \A y \in Nodes \ {n} : dep'[y] = dep[y] /\ bindings'[y] = bindings[y] /\ run'[y] = run[y]
    BY <1>2 DEF EditOf, Edited
  <2>7. Upstream(dep', {x}) \intersect {n} = {} /\ {n} \in SUBSET Nodes
    BY <1>3, <2>3
  <2> QED
    BY <1>1, <2>1, <2>2, <2>5, <2>6, <2>7, SoundAtKept
<1>7. ErrorsSound'
  <2>1. ASSUME NEW x \in Nodes \ marked'
        PROVE  x \in errors' <=> MissingIn(dep', bindings', x) # {}
    <3>1. x \in Nodes \ marked /\ dep'[x] = dep[x] /\ bindings'[x] = bindings[x] /\ errors' = errors
      BY <1>2, <1>3 DEF EditOf, Edited
    <3> QED
      BY <3>1 DEF GraphInv, ErrorsSound, MissingIn
  <2> QED
    BY <2>1 DEF ErrorsSound
<1> QED
  BY <1>3, <1>4, <1>5, <1>6, <1>7 DEF GraphInv, MarkedUpward, StatesSound

LEMMA SetDependencyEdits ==
  ASSUME GraphInv, NEW n \in Nodes, NEW name \in Names, NEW m \in Nodes,
         SetDependency(n, name, m)
  PROVE  EditOf(n)
<1>1. dep \in Graphs /\ rank \in Ranks /\ Exact(dep, rank) /\ bindings \in [Nodes -> SUBSET Names]
  BY GraphInvTypes
<1>2. /\ CanBeDependency(dep, n, m)
      /\ dep' = [dep EXCEPT ![n][name] = m]
      /\ rank' = CASE dep[n][name] = m -> rank
                   [] dep[n][name] = NoNode -> Settled(dep', rank, MaybeIncrease(n, rank[m]))
                   [] OTHER -> Settled(dep', rank, Recalculate(n))
      /\ Edited(n) /\ bindings' = bindings
  BY DEF SetDependency
<1>3. /\ dep' \in Graphs /\ rank' \in Ranks /\ Exact(dep', rank')
      /\ \A x \in Nodes \ Downstream(dep', {n}) : rank'[x] = rank[x]
  <2> DEFINE E == [dep EXCEPT ![n][name] = m]
             q == CASE dep[n][name] = m -> rank
                    [] dep[n][name] = NoNode -> Settled(E, rank, MaybeIncrease(n, rank[m]))
                    [] OTHER -> Settled(E, rank, Recalculate(n))
  <2>1. /\ E \in Graphs /\ q \in Ranks /\ Exact(E, q)
        /\ \A x \in Nodes \ Downstream(E, {n}) : q[x] = rank[x]
    <3>1. EdgeAdded(dep, rank, n, name, m)
      BY <1>1, <1>2, AddedEdge
    <3> QED
      BY <3>1 DEF EdgeAdded
  <2>2. dep' = E /\ rank' = q
    BY <1>2
  <2> HIDE DEF E, q
  <2> QED
    BY <2>1, <2>2
<1>4. \A y \in Nodes \ {n} : dep'[y] = dep[y]
  BY <1>1, <1>2 DEF Graphs
<1> QED
  BY <1>1, <1>2, <1>3, <1>4 DEF EditOf

LEMMA RemoveDependencyEdits ==
  ASSUME GraphInv, NEW n \in Nodes, NEW name \in Names, RemoveDependency(n, name)
  PROVE  EditOf(n)
<1>1. dep \in Graphs /\ rank \in Ranks /\ Exact(dep, rank) /\ bindings \in [Nodes -> SUBSET Names]
  BY GraphInvTypes
<1> DEFINE E == [dep EXCEPT ![n][name] = NoNode]
           F == Downstream(E, {n})
           graph == WithoutEdge([dep |-> dep, rank |-> rank], <<n, name>>)
<1>2. dep' = graph.dep /\ rank' = graph.rank /\ Edited(n) /\ bindings' = bindings
  BY DEF RemoveDependency
<1>3. E \in Graphs /\ \A y \in Nodes \ {n} : E[y] = dep[y]
  BY <1>1 DEF Graphs
<1>4. F \in SUBSET Nodes /\ n \in F /\ \A x \in F : Dependents(dep, x) \subseteq F
  <2>1. \A x \in Nodes : Dependents(dep, x) \subseteq Dependents(E, x) \union {n}
    BY <1>3 DEF Dependents, Dependencies
  <2>2. {n} \in SUBSET Nodes
    OBVIOUS
  <2> HIDE DEF E
  <2> QED
    BY <1>3, <2>1, <2>2, DownstreamFacts
<1>5. EdgeRemoved(dep, rank, F, n, name, graph)
  <2> HIDE DEF F
  <2> QED
    BY <1>1, <1>4, WithoutEdgeFacts
<1>6. /\ dep' = E /\ dep' \in Graphs /\ rank' \in Ranks /\ Exact(dep', rank')
      /\ \A x \in Nodes \ F : rank'[x] = rank[x]
  <2> HIDE DEF graph, F
  <2> QED
    BY <1>2, <1>5 DEF EdgeRemoved
<1> QED
  BY <1>1, <1>2, <1>3, <1>6 DEF EditOf

LEMMA BindingEdits ==
  ASSUME GraphInv, NEW n \in Nodes, NEW name \in Names,
         AppendBinding(n, name) \/ RemoveBinding(n, name)
  PROVE  EditOf(n)
<1>1. dep \in Graphs /\ rank \in Ranks /\ Exact(dep, rank) /\ bindings \in [Nodes -> SUBSET Names]
  BY GraphInvTypes
<1>2. dep' = dep /\ rank' = rank /\ Edited(n)
  BY DEF AppendBinding, RemoveBinding
<1>3. bindings' \in [Nodes -> SUBSET Names] /\ \A y \in Nodes \ {n} : bindings'[y] = bindings[y]
  BY <1>1 DEF AppendBinding, RemoveBinding
<1> QED
  BY <1>1, <1>2, <1>3 DEF EditOf

\* destroy keeps it too: what was downstream of n is marked, n itself is as new.
LEMMA DestroyKeepsGraph ==
  ASSUME GraphInv, NEW n \in Nodes, Destroy(n)
  PROVE  /\ GraphInv'
         /\ \A y \in Nodes : Dependents(dep', y) \subseteq Dependents(dep, y) \ {n}
         /\ Dependents(dep', n) = {}
         /\ marked \subseteq marked' \union {n} /\ n \notin marked'
         /\ Downstream(dep, {n}) \subseteq marked' \union {n}
<1>1. /\ dep \in Graphs /\ rank \in Ranks /\ Exact(dep, rank)
      /\ bindings \in [Nodes -> SUBSET Names] /\ run \in [Nodes -> RunState]
      /\ marked \in SUBSET Nodes /\ UpwardIn(dep, marked, marked)
  BY GraphInvTypes DEF GraphInv, MarkedUpward
<1>2. /\ dep' \in Graphs
      /\ \A m \in Nodes, name \in Names :
           dep'[m][name] = IF m = n \/ dep[m][name] = n THEN NoNode ELSE dep[m][name]
      /\ rank' \in Ranks
      /\ Exact(dep', rank')
      /\ \A m \in Nodes \ Downstream(dep, {n}) : rank'[m] = rank[m]
  <2> DEFINE edges(m, S) == {<<m, name>> : name \in {s \in Names : dep[m][s] \in S}}
             own == SetToSeq(edges(n, Nodes))
             others == SetToSeq(UNION {edges(m, {n}) : m \in Nodes})
             graph == WithoutEdges([dep |-> dep, rank |-> rank], own \o others)
  <2>1. EdgesRemoved(dep, rank, n)
    BY <1>1, DestroyedFacts
  <2>2. dep' = graph.dep /\ rank' = graph.rank
    BY DEF Destroy
  <2> QED
    BY <2>1, <2>2 DEF EdgesRemoved
<1>3. /\ \A y \in Nodes : Dependents(dep', y) \subseteq Dependents(dep, y) \ {n}
      /\ Dependents(dep', n) = {}
  <2>1. \A y, z \in Nodes : z \in Dependencies(dep', y) =>
          y # n /\ z # n /\ z \in Dependencies(dep, y)
    BY <1>2 DEF Dependencies
  <2> QED
    BY <2>1 DEF Dependents
<1>4. PICK first : first = Recompiled(marked, dep, {n})
  OBVIOUS
<1> DEFINE N == {n} \union Dependents(dep, n)
<1>5. /\ marked' = Recompiled(first, dep', Dependents(dep, n)) \ {n}
      /\ errors' = errors \ {n} /\ run' = [run EXCEPT ![n] = NoRunState]
      /\ bindings' = [bindings EXCEPT ![n] = {}]
  BY <1>4 DEF Destroy
<1>6. first \in SUBSET Nodes /\ marked \subseteq first /\ n \in first /\ UpwardIn(dep, first, first)
  <2>1. {n} \in SUBSET Nodes
    OBVIOUS
  <2>2. dep \in Graphs /\ marked \in SUBSET Nodes
    BY <1>1
  <2>3. first \in SUBSET Nodes /\ marked \subseteq first
    BY <1>4, <2>1, <2>2, RecompiledFacts
  <2>4. {n} \subseteq first
    BY <1>4, <2>1, <2>2, RecompiledFacts
  <2>5. UpwardIn(dep, first \ marked, first)
    BY <1>4, <2>1, <2>2, RecompiledFacts
  <2>6. UpwardIn(dep, first, first)
    BY <1>1, <2>3, <2>5 DEF UpwardIn
  <2> QED
    BY <2>3, <2>4, <2>6
<1>7. Downstream(dep, {n}) \subseteq first
  BY <1>1, <1>6, UpwardDownstream
<1>8. N \in SUBSET Nodes /\ N \subseteq Downstream(dep, {n})
  <2>1. {n} \in SUBSET Nodes
    OBVIOUS
  <2>2. Dependents(dep, n) \in SUBSET Nodes
    BY <1>1, EdgeFacts
  <2>3. n \in Downstream(dep, {n}) /\ Dependents(dep, n) \subseteq Downstream(dep, {n})
    BY <1>1, <2>1, DownstreamFacts
  <2> QED
    BY <2>2, <2>3
<1>9. PICK W \in SUBSET Nodes : /\ W = Recompiled(first, dep', Dependents(dep, n))
                                /\ first \subseteq W
                                /\ UpwardIn(dep', W \ first, W)
  <2>1. Dependents(dep, n) \in SUBSET Nodes
    BY <1>1, EdgeFacts
  <2> QED
    BY <1>2, <1>6, <2>1, RecompiledFacts
<1>10. UpwardIn(dep', marked', marked')
  <2>1. ASSUME NEW y \in marked', NEW z \in Dependents(dep', y) PROVE z \in marked'
    <3>1. y \in Nodes /\ z # n /\ z \in Dependents(dep, y) /\ y \in W
      BY <1>3, <1>5, <1>9, <2>1
    <3>2. z \in W
      BY <1>6, <1>9, <2>1, <3>1 DEF UpwardIn
    <3> QED
      BY <1>5, <1>9, <3>1, <3>2
  <2> QED
    BY <2>1 DEF UpwardIn
<1>11. \A y \in Nodes \ N : dep'[y] = dep[y] /\ bindings'[y] = bindings[y] /\ run'[y] = run[y]
  <2>1. ASSUME NEW y \in Nodes \ N PROVE dep'[y] = dep[y]
    <3>1. \A s \in Names : dep[y][s] # n
      BY <2>1, GraphConstants DEF Dependents, Dependencies
    <3>2. \A s \in Names : dep'[y][s] = dep[y][s]
      BY <1>2, <2>1, <3>1
    <3>3. dep[y] \in [Names -> Nodes \union {NoNode}] /\ dep'[y] \in [Names -> Nodes \union {NoNode}]
      BY <1>1, <1>2 DEF Graphs
    <3> QED
      BY <3>2, <3>3
  <2> QED
    BY <1>1, <1>5, <2>1
<1>12. TypeOK'
  <2>1. run' \in [Nodes -> RunState]
    BY <1>1, <1>5 DEF RunState, NoRunState
  <2>2. bindings' \in [Nodes -> SUBSET Names]
    BY <1>1, <1>5
  <2>3. marked' \subseteq Nodes
    BY <1>5, <1>9
  <2>4. calls' \in [Nodes -> CallState]
    BY DEF Destroy, GraphInv, TypeOK, CallState
  <2>5. HistoryOK'
    BY ForgottenTypes DEF Destroy
  <2> QED
    BY <1>2, <2>1, <2>2, <2>3, <2>4, <2>5
    DEF GraphInv, TypeOK, HistoryOK, Destroy, evaluation, Graphs, Ranks
<1>13. RankExact'
  BY <1>2 DEF RankExact, Exact
<1>14. StatesSound'
  <2>1. ASSUME NEW x \in Nodes \ marked'
        PROVE  SoundAt(dep', rank', bindings', run', x)
    <3>1. CASE x = n
      BY <1>1, <1>5, <3>1 DEF SoundAt, NoRunState
    <3>2. CASE x # n
      <4>1. x \in Nodes \ first
        BY <1>5, <1>9, <2>1, <3>2
      <4>2. Upstream(dep, {x}) \intersect first = {} /\ Upstream(dep, {x}) \in SUBSET Nodes
        <5>1. {x} \in SUBSET Nodes
          OBVIOUS
        <5> QED
          BY <1>1, <1>6, <4>1, <5>1, OutsideUpward, UpstreamFacts
      <4>3. Upstream(dep, {x}) \intersect N = {}
        BY <1>7, <1>8, <4>2
      <4>4. Upstream(dep, {x}) = Upstream(dep', {x})
        <5>1. \A y \in Nodes \ N : dep[y] = dep'[y]
          BY <1>11
        <5>2. dep \in Graphs /\ dep' \in Graphs /\ N \in SUBSET Nodes /\ x \in Nodes
          BY <1>1, <1>2, <1>8, <2>1
        <5> HIDE DEF N
        <5> QED
          BY <4>3, <5>1, <5>2, SameUpstream
      <4>5. \A y \in Upstream(dep', {x}) : rank'[y] = rank[y]
        BY <1>2, <1>7, <4>2, <4>4
      <4>6. SoundAt(dep, rank, bindings, run, x)
        BY <1>6, <4>1 DEF GraphInv, StatesSound
      <4>7. dep \in Graphs /\ dep' \in Graphs /\ N \in SUBSET Nodes /\ x \in Nodes
        BY <1>1, <1>2, <1>8, <2>1
      <4>8. Upstream(dep', {x}) \intersect N = {}
        BY <4>3, <4>4
      <4> HIDE DEF N
      <4> QED
        BY <1>11, <4>5, <4>6, <4>7, <4>8, SoundAtKept
    <3> QED
      BY <3>1, <3>2
  <2> QED
    BY <2>1 DEF StatesSound
<1>15. ErrorsSound'
  <2>1. ASSUME NEW x \in Nodes \ marked'
        PROVE  x \in errors' <=> MissingIn(dep', bindings', x) # {}
    <3>1. CASE x = n
      BY <1>1, <1>5, <3>1 DEF MissingIn
    <3>2. CASE x # n
      <4>1. x \in Nodes \ marked /\ x \notin N
        BY <1>5, <1>6, <1>7, <1>8, <1>9, <2>1, <3>2
      <4>2. dep'[x] = dep[x] /\ bindings'[x] = bindings[x]
        BY <1>11, <4>1
      <4> QED
        BY <1>5, <3>2, <4>1, <4>2 DEF GraphInv, ErrorsSound, MissingIn
    <3> QED
      BY <3>1, <3>2
  <2> QED
    BY <2>1 DEF ErrorsSound
<1>16. GraphInv'
  BY <1>10, <1>12, <1>13, <1>14, <1>15 DEF GraphInv, MarkedUpward
<1>17. /\ marked \subseteq marked' \union {n} /\ n \notin marked'
       /\ Downstream(dep, {n}) \subseteq marked' \union {n}
  BY <1>5, <1>6, <1>7, <1>9
<1> QED
  BY <1>3, <1>16, <1>17
-----------------------------------------------------------------------------
(***************************************************************************)
(* PrepareForExecution and ensureRunState.  R stands for the run states     *)
(* after invalidateRunState.                                                *)
(***************************************************************************)
Ready(R) ==
  /\ dep \in Graphs
  /\ R \in [Nodes -> RunState]
  /\ CompiledErrors = {n \in Nodes : MissingIn(dep, bindings, n) # {}}
  /\ \A n \in Nodes : SoundAt(dep, rank, bindings, R, n)

LEMMA PreparedReady ==
  ASSUME GraphInv
  PROVE  Ready(PreparedRun)
<1>1. /\ dep \in Graphs /\ marked \in SUBSET Nodes /\ UpwardIn(dep, marked, marked)
      /\ run \in [Nodes -> RunState] /\ errors \subseteq Nodes
  BY GraphInvTypes DEF GraphInv, TypeOK, MarkedUpward
<1>2. PreparedRun \in [Nodes -> RunState]
  BY <1>1 DEF PreparedRun, RunState, NoRunState
<1>3. CompiledErrors = {n \in Nodes : MissingIn(dep, bindings, n) # {}}
  <2>1. \A n \in Nodes : Missing(n) = MissingIn(dep, bindings, n)
    BY DEF Missing, MissingIn
  <2> QED
    BY <1>1, <2>1 DEF CompiledErrors, GraphInv, ErrorsSound
<1>4. ASSUME NEW n \in Nodes PROVE SoundAt(dep, rank, bindings, PreparedRun, n)
  <2>1. CASE n \in marked
    BY <2>1 DEF SoundAt, PreparedRun, NoRunState
  <2>2. CASE n \notin marked
    <3>1. n \in Nodes \ marked /\ SoundAt(dep, rank, bindings, run, n)
      BY <2>2 DEF GraphInv, StatesSound
    <3>2. Upstream(dep, {n}) \intersect marked = {}
      BY <1>1, <3>1, OutsideUpward
    <3>3. \A y \in Nodes \ marked :
            dep[y] = dep[y] /\ bindings[y] = bindings[y] /\ PreparedRun[y] = run[y]
      BY DEF PreparedRun
    <3>4. \A y \in Upstream(dep, {n}) : rank[y] = rank[y]
      OBVIOUS
    <3> QED
      BY <1>1, <3>1, <3>2, <3>3, <3>4, SoundAtKept
  <2> QED
    BY <2>1, <2>2
<1> QED
  BY <1>1, <1>2, <1>3, <1>4 DEF Ready

\* ensureRunState asks the dependencies of a node it makes a run state for, if the
\* node has no error itself.
LEMMA AskedFacts ==
  ASSUME NEW R, Ready(R), NEW n \in Nodes
  PROVE  /\ Asked(R, n) \in SUBSET Nodes /\ n \in Asked(R, n)
         /\ \A m \in Asked(R, n) :
              R[m].state = "null" /\ m \notin CompiledErrors =>
                Dependencies(dep, m) \subseteq Asked(R, n)
         /\ Asked(R, n) \subseteq Upstream(dep, {n})
<1> DEFINE next == [m \in Nodes |->
      IF R[m].state = "null" /\ m \notin CompiledErrors THEN Dependencies(dep, m) ELSE {}]
<1>1. dep \in Graphs
  BY DEF Ready
<1>2. next \in [Nodes -> SUBSET Nodes]
  BY <1>1, EdgeFacts
<1>3. /\ \A m \in Nodes : R[m].state = "null" /\ m \notin CompiledErrors =>
           next[m] = Dependencies(dep, m)
      /\ \A m \in Nodes : next[m] \subseteq Dependencies(dep, m)
  OBVIOUS
<1>4. Asked(R, n) = Reach({n}, next)
  BY DEF Asked
<1> HIDE DEF next
<1>5. {n} \in SUBSET Nodes
  OBVIOUS
<1>6. PICK A \in SUBSET Nodes :
        /\ A = Reach({n}, next) /\ {n} \subseteq A /\ Closed(A, next)
        /\ \A T \in SUBSET Nodes : {n} \subseteq T /\ Closed(T, next) => A \subseteq T
  BY <1>2, <1>5, ReachFacts
<1>7. PICK U \in SUBSET Nodes :
        /\ U = Upstream(dep, {n}) /\ {n} \subseteq U
        /\ \A m \in U : Dependencies(dep, m) \subseteq U
  BY <1>1, <1>5, UpstreamFacts
<1>8. Closed(U, next)
  BY <1>3, <1>7 DEF Closed
<1>9. A \subseteq U
  BY <1>6, <1>7, <1>8
<1>10. \A m \in A : R[m].state = "null" /\ m \notin CompiledErrors =>
         Dependencies(dep, m) \subseteq A
  BY <1>3, <1>6 DEF Closed
<1> QED
  BY <1>4, <1>6, <1>7, <1>9, <1>10

\* A node can execute when no binding upstream of it lacks its dependency.
LEMMA CanExecuteFacts ==
  ASSUME NEW R, Ready(R), NEW n \in Nodes
  PROVE  CanExecute(R, n) <=> \A m \in Upstream(dep, {n}) : MissingIn(dep, bindings, m) = {}
<1>1. /\ dep \in Graphs /\ R \in [Nodes -> RunState]
      /\ \A m \in Nodes : m \in CompiledErrors <=> MissingIn(dep, bindings, m) # {}
      /\ \A m \in Nodes : SoundAt(dep, rank, bindings, R, m)
  BY DEF Ready
<1>2. \A m \in Nodes : R[m].state \in {"null", "can", "cannot"}
  BY <1>1 DEF RunState
<1>3. PICK A \in SUBSET Nodes :
        /\ A = Asked(R, n) /\ n \in A /\ A \subseteq Upstream(dep, {n})
        /\ \A m \in A : R[m].state = "null" /\ m \notin CompiledErrors =>
             Dependencies(dep, m) \subseteq A
  BY AskedFacts
<1>4. \A m \in Nodes : /\ {m} \in SUBSET Nodes
                       /\ Upstream(dep, {m}) \in SUBSET Nodes /\ m \in Upstream(dep, {m})
                       /\ \A y \in Upstream(dep, {m}) :
                            Dependencies(dep, y) \subseteq Upstream(dep, {m})
  BY <1>1, UpstreamFacts
<1>5. ASSUME \A m \in Upstream(dep, {n}) : MissingIn(dep, bindings, m) = {}
      PROVE  CanExecute(R, n)
  <2>1. ASSUME NEW m \in A, R[m].state = "cannot" PROVE FALSE
    <3>1. m \in Upstream(dep, {n})
      BY <1>3
    <3>2. Upstream(dep, {m}) \subseteq Upstream(dep, {n})
      <4>1. {n} \in SUBSET Nodes
        OBVIOUS
      <4> QED
        BY <1>1, <3>1, <4>1, UpstreamTransitive
    <3>3. \E y \in Upstream(dep, {m}) : MissingIn(dep, bindings, y) # {}
      BY <1>1, <2>1 DEF SoundAt
    <3> QED
      BY <1>5, <3>2, <3>3
  <2>2. \A m \in A : m \notin CompiledErrors
    BY <1>1, <1>3, <1>5
  <2> QED
    BY <1>2, <1>3, <2>1, <2>2 DEF CanExecute
<1>6. ASSUME CanExecute(R, n)
      PROVE  \A m \in Upstream(dep, {n}) : MissingIn(dep, bindings, m) = {}
  <2>1. \A m \in A : IF R[m].state = "null" THEN m \notin CompiledErrors ELSE R[m].state = "can"
    BY <1>3, <1>6 DEF CanExecute
  <2> DEFINE C == {y \in Nodes : R[y].state = "can"}
             T == A \union C
  <2>2. \A y \in C : MissingIn(dep, bindings, y) = {} /\ Dependencies(dep, y) \subseteq C
    <3> TAKE y \in C
    <3>1. \A z \in Upstream(dep, {y}) : MissingIn(dep, bindings, z) = {} /\ R[z].state = "can"
      BY <1>1 DEF SoundAt
    <3> QED
      BY <1>4, <3>1
  <2>3. \A y \in T : MissingIn(dep, bindings, y) = {} /\ Dependencies(dep, y) \subseteq T
    BY <1>1, <1>3, <2>1, <2>2
  <2>4. T \in SUBSET Nodes /\ {n} \subseteq T /\ {n} \in SUBSET Nodes
    BY <1>3
  <2>5. Upstream(dep, {n}) \subseteq T
    <3> HIDE DEF T
    <3> QED
      BY <1>1, <2>3, <2>4, UpstreamFacts
  <2> QED
    BY <2>3, <2>5
<1> QED
  BY <1>5, <1>6

\* The run states ensureRunState makes are sound, if it has asked the dependencies
\* of those that can execute.
LEMMA EnsuredFacts ==
  ASSUME NEW R, Ready(R), NEW S \in SUBSET Nodes, rank \in Ranks,
         \A m \in S : R[m].state = "null" /\ CanExecute(R, m) => Dependencies(dep, m) \subseteq S,
         NEW Q, Q = Ensured(R, S)
  PROVE  /\ Q \in [Nodes -> RunState]
         /\ \A m \in Nodes : SoundAt(dep, rank, bindings, Q, m)
         /\ \A m \in S : CanExecute(R, m) => Q[m].state = "can"
<1>1. /\ dep \in Graphs /\ R \in [Nodes -> RunState]
      /\ \A m \in Nodes : m \in CompiledErrors <=> MissingIn(dep, bindings, m) # {}
      /\ \A m \in Nodes : SoundAt(dep, rank, bindings, R, m)
  BY DEF Ready
<1>2. \A m \in Nodes : R[m].state \in {"null", "can", "cannot"}
  BY <1>1 DEF RunState
<1>3. \A m \in Nodes : /\ {m} \in SUBSET Nodes
                       /\ Upstream(dep, {m}) \in SUBSET Nodes /\ m \in Upstream(dep, {m})
                       /\ \A y \in Upstream(dep, {m}) :
                            Dependencies(dep, y) \subseteq Upstream(dep, {m})
  BY <1>1, UpstreamFacts
<1>4. \A m \in Nodes : \A y \in Upstream(dep, {m}) : Upstream(dep, {y}) \subseteq Upstream(dep, {m})
  BY <1>1, <1>3, UpstreamTransitive
<1>5. \A m \in Nodes :
        CanExecute(R, m) <=> \A y \in Upstream(dep, {m}) : MissingIn(dep, bindings, y) = {}
  BY CanExecuteFacts
<1>6. \A m \in Nodes : Stream(m) = StreamIn(dep, rank, m) /\ Stream(m) \in SUBSET (Nat \X Nodes)
  <2> TAKE m \in Nodes
  <2>1. \A y \in Upstream(dep, {m}) : y \in Nodes /\ rank[y] \in Nat
    BY <1>3 DEF Ranks
  <2>2. Stream(m) = StreamIn(dep, rank, m)
    BY DEF Stream, StreamIn
  <2>3. ASSUME NEW task \in Stream(m) PROVE task \in Nat \X Nodes
    <3>1. PICK y \in Upstream(dep, {m}) : task = <<rank[y], y>>
      BY DEF Stream
    <3> QED
      BY <2>1, <3>1
  <2> QED
    BY <2>2, <2>3
<1>7. \A m \in Nodes :
        Q[m] = IF m \notin S \/ R[m].state # "null" THEN R[m]
               ELSE IF CanExecute(R, m) THEN [state |-> "can", stream |-> Stream(m)]
               ELSE [state |-> "cannot", stream |-> {}]
  BY DEF Ensured
<1>8. Q \in [Nodes -> RunState]
  <2>1. \A m \in Nodes : [state |-> "can", stream |-> Stream(m)] \in RunState
    BY <1>6 DEF RunState
  <2>2. [state |-> "cannot", stream |-> {}] \in RunState
    BY DEF RunState
  <2> QED
    BY <1>1, <2>1, <2>2 DEF Ensured
<1>9. \A m \in Nodes : R[m].state = "can" => Q[m] = R[m]
  BY <1>7
<1>10. ASSUME NEW m \in S, CanExecute(R, m), NEW y \in Upstream(dep, {m})
       PROVE  Q[y].state = "can"
  <2> DEFINE T == {z \in Upstream(dep, {m}) : R[z].state = "can" \/ z \in S}
  <2>1. \A z \in Upstream(dep, {m}) :
          MissingIn(dep, bindings, z) = {} /\ CanExecute(R, z) /\ R[z].state # "cannot"
    <3> TAKE z \in Upstream(dep, {m})
    <3>1. z \in Nodes /\ Upstream(dep, {z}) \subseteq Upstream(dep, {m})
      BY <1>3, <1>4
    <3>2. \A x \in Upstream(dep, {m}) : MissingIn(dep, bindings, x) = {}
      BY <1>5, <1>10
    <3>3. CanExecute(R, z)
      BY <1>5, <3>1, <3>2
    <3>4. R[z].state # "cannot"
      BY <1>1, <3>1, <3>2 DEF SoundAt
    <3> QED
      BY <3>2, <3>3, <3>4
  <2>2. \A z \in T : Dependencies(dep, z) \subseteq T
    <3> TAKE z \in T
    <3>1. z \in Nodes /\ Dependencies(dep, z) \subseteq Upstream(dep, {m})
      BY <1>3
    <3>2. CASE R[z].state = "can"
      <4>1. \A x \in Upstream(dep, {z}) : R[x].state = "can"
        BY <1>1, <3>1, <3>2 DEF SoundAt
      <4> QED
        BY <1>3, <3>1, <4>1
    <3>3. CASE R[z].state = "null" /\ z \in S
      BY <2>1, <3>1, <3>3
    <3> QED
      BY <1>2, <2>1, <3>1, <3>2, <3>3
  <2>3. T \in SUBSET Nodes /\ {m} \subseteq T
    BY <1>3
  <2>4. Upstream(dep, {m}) \subseteq T
    <3> HIDE DEF T
    <3> QED
      BY <1>1, <1>3, <2>2, <2>3, UpstreamFacts
  <2>5. CASE R[y].state = "can"
    BY <1>3, <1>9, <2>5
  <2>6. CASE R[y].state # "can"
    <3>1. y \in S /\ R[y].state = "null" /\ CanExecute(R, y)
      BY <1>2, <1>3, <2>1, <2>4, <2>6
    <3>2. Q[y] = [state |-> "can", stream |-> Stream(y)]
      BY <1>7, <3>1
    <3> QED
      BY <3>2
  <2> QED
    BY <2>5, <2>6
<1>11. \A m \in S : CanExecute(R, m) => Q[m].state = "can"
  BY <1>3, <1>10
<1>12. ASSUME NEW m \in Nodes PROVE SoundAt(dep, rank, bindings, Q, m)
  <2>1. CASE m \notin S \/ R[m].state # "null"
    <3>1. Q[m] = R[m] /\ SoundAt(dep, rank, bindings, R, m)
      BY <1>1, <1>7, <2>1
    <3>2. \A y \in Upstream(dep, {m}) : R[y].state = "can" => Q[y].state = "can"
      BY <1>3, <1>9
    <3> QED
      BY <3>1, <3>2 DEF SoundAt
  <2>2. CASE m \in S /\ R[m].state = "null" /\ CanExecute(R, m)
    <3>1. Q[m] = [state |-> "can", stream |-> Stream(m)]
      BY <1>7, <2>2
    <3>2. \A y \in Upstream(dep, {m}) : MissingIn(dep, bindings, y) = {} /\ Q[y].state = "can"
      BY <1>5, <1>10, <2>2
    <3>3. Q[m].state = "can" /\ Q[m].stream = StreamIn(dep, rank, m)
      BY <1>6, <3>1
    <3> QED
      BY <3>2, <3>3 DEF SoundAt
  <2>3. CASE m \in S /\ R[m].state = "null" /\ ~CanExecute(R, m)
    <3>1. Q[m] = [state |-> "cannot", stream |-> {}]
      BY <1>7, <2>3
    <3>2. \E y \in Upstream(dep, {m}) : MissingIn(dep, bindings, y) # {}
      BY <1>5, <2>3
    <3> QED
      BY <3>1, <3>2 DEF SoundAt
  <2> QED
    BY <2>1, <2>2, <2>3
<1> QED
  BY <1>8, <1>11, <1>12

LEMMA PreparedKeepsGraph ==
  ASSUME GraphInv, Prepared, UNCHANGED <<dep, rank, bindings, executing, current, faults>>,
         run' \in [Nodes -> RunState],
         \A n \in Nodes : SoundAt(dep, rank, bindings, run', n),
         evaluating' \in Nodes \union {NoNode}, rest' \subseteq Nat \X Nodes
  PROVE  GraphInv'
<1>1. /\ dep \in Graphs /\ marked \in SUBSET Nodes /\ refresh \in SUBSET Nodes
      /\ dirty \in SUBSET Nodes
  BY GraphInvTypes
<1>2. /\ CompiledErrors = {n \in Nodes : MissingIn(dep, bindings, n) # {}}
      /\ errors' = CompiledErrors
      /\ marked' = {} /\ refresh' = {} /\ dirty' = PreparedDirty /\ calls' = PreparedCalls
  BY PreparedReady DEF Ready, Prepared
<1>3. dirty' \subseteq Nodes
  <2>1. PICK S \in SUBSET Nodes : S = marked \union refresh
    BY <1>1
  <2>2. OutOfDate(dirty, dep, S) \in SUBSET Nodes
    BY <1>1, OutOfDateFacts
  <2> QED
    BY <1>2, <2>1, <2>2 DEF PreparedDirty
<1>4. calls' \in [Nodes -> CallState]
  BY <1>2 DEF PreparedCalls, CallState, GraphInv, TypeOK
<1>5. TypeOK'
  BY <1>2, <1>3, <1>4 DEF GraphInv, TypeOK
<1>6. MarkedUpward' /\ RankExact' /\ ErrorsSound'
  BY <1>2 DEF MarkedUpward, UpwardIn, GraphInv, RankExact, OwnRank, Dependencies, ErrorsSound
<1>7. StatesSound'
  BY DEF StatesSound
<1> QED
  BY <1>5, <1>6, <1>7 DEF GraphInv

\* evaluate runs the stream of the node as the graph is now.
LEMMA EvaluateFacts ==
  ASSUME GraphInv, NEW n \in Nodes, Evaluate(n)
  PROVE  /\ run' \in [Nodes -> RunState]
         /\ \A m \in Nodes : SoundAt(dep, rank, bindings, run', m)
         /\ run'[n].state = "can"
         /\ run'[n].stream = StreamIn(dep, rank, n) /\ rest' = StreamIn(dep, rank, n)
         /\ rest' \subseteq Nat \X Nodes
<1> DEFINE R == PreparedRun
           A == Asked(R, n)
<1>1. Ready(R) /\ rank \in Ranks
  BY PreparedReady, GraphInvTypes
<1>2. CanExecute(R, n) /\ run' = Ensured(R, A) /\ rest' = run'[n].stream
  BY DEF Evaluate
<1> HIDE DEF R
<1>3. A \in SUBSET Nodes /\ n \in A
  BY <1>1, AskedFacts
<1>4. \A m \in A : R[m].state = "null" /\ CanExecute(R, m) => Dependencies(dep, m) \subseteq A
  <2>1. ASSUME NEW m \in A, R[m].state = "null", CanExecute(R, m)
        PROVE  Dependencies(dep, m) \subseteq A
    <3>1. m \in Nodes
      BY <1>3
    <3>2. m \in Asked(R, m)
      BY <1>1, <3>1, AskedFacts
    <3>3. m \notin CompiledErrors
      BY <2>1, <3>2 DEF CanExecute
    <3> QED
      BY <1>1, <2>1, <3>3, AskedFacts
  <2> QED
    BY <2>1
<1> HIDE DEF A
<1>5. /\ run' \in [Nodes -> RunState]
      /\ \A m \in Nodes : SoundAt(dep, rank, bindings, run', m)
      /\ \A m \in A : CanExecute(R, m) => run'[m].state = "can"
  BY <1>1, <1>2, <1>3, <1>4, EnsuredFacts
<1>6. run'[n].state = "can" /\ run'[n].stream = StreamIn(dep, rank, n)
  BY <1>2, <1>3, <1>5 DEF SoundAt
<1>7. run'[n].stream \subseteq Nat \X Nodes
  BY <1>5 DEF RunState
<1> QED
  BY <1>2, <1>5, <1>6, <1>7

LEMMA EvaluateRefusedFacts ==
  ASSUME GraphInv, NEW n \in Nodes, EvaluateRefused(n)
  PROVE  /\ run' \in [Nodes -> RunState]
         /\ \A m \in Nodes : SoundAt(dep, rank, bindings, run', m)
<1> DEFINE R == PreparedRun
<1>1. Ready(R) /\ rank \in Ranks
  BY PreparedReady, GraphInvTypes
<1>2. PICK S \in SUBSET Asked(R, n) :
        /\ \A m \in S : R[m].state = "null" /\ m \notin CompiledErrors /\ CanExecute(R, m) =>
             Dependencies(dep, m) \subseteq S
        /\ run' = Ensured(R, S)
  BY DEF EvaluateRefused
<1> HIDE DEF R
<1>3. S \in SUBSET Nodes
  BY <1>1, <1>2, AskedFacts
<1>4. \A m \in S : R[m].state = "null" /\ CanExecute(R, m) => Dependencies(dep, m) \subseteq S
  <2>1. ASSUME NEW m \in S, R[m].state = "null", CanExecute(R, m)
        PROVE  Dependencies(dep, m) \subseteq S
    <3>1. m \in Asked(R, m)
      BY <1>1, <1>3, AskedFacts
    <3>2. m \notin CompiledErrors
      BY <2>1, <3>1 DEF CanExecute
    <3> QED
      BY <1>2, <2>1, <3>2
  <2> QED
    BY <2>1
<1> QED
  BY <1>1, <1>2, <1>3, <1>4, EnsuredFacts

LEMMA UneditedKeepsGraph ==
  ASSUME GraphInv, UNCHANGED <<dep, rank, bindings, errors, marked, run>>, TypeOK'
  PROVE  GraphInv'
BY DEF GraphInv, RankExact, OwnRank, Dependencies, MarkedUpward, ErrorsSound, StatesSound

LEMMA ResizedTypes ==
  ASSUME GraphInv, NEW n \in Nodes, NEW c \in CallState, Resized(n, c)
  PROVE  refresh' \in SUBSET Nodes /\ calls' \in [Nodes -> CallState]
<1>1. refresh' \in SUBSET Nodes
  BY GraphInvTypes, RefreshedFacts DEF Resized
<1>2. calls' \in [Nodes -> CallState]
  BY DEF Resized, GraphInv, TypeOK, CallState
<1> QED
  BY <1>1, <1>2

LEMMA CommandKeepsGraph ==
  ASSUME GraphInv, NEW n \in Nodes, Edit(n) \/ Evaluate(n) \/ EvaluateRefused(n)
  PROVE  GraphInv'
<1>1. ASSUME NEW name \in Names, NEW m \in Nodes, SetDependency(n, name, m) PROVE GraphInv'
  BY <1>1, SetDependencyEdits, EditKeepsGraph
<1>2. ASSUME NEW name \in Names, RemoveDependency(n, name) PROVE GraphInv'
  BY <1>2, RemoveDependencyEdits, EditKeepsGraph
<1>3. ASSUME NEW name \in Names, AppendBinding(n, name) \/ RemoveBinding(n, name) PROVE GraphInv'
  BY <1>3, BindingEdits, EditKeepsGraph
<1>4. CASE Destroy(n)
  BY <1>4, DestroyKeepsGraph
<1>5. CASE SetData(n)
  <2>1. dirty' \subseteq Nodes
    <3>1. PICK S \in SUBSET Nodes : S = {n}
      OBVIOUS
    <3>2. dep \in Graphs /\ dirty \in SUBSET Nodes
      BY GraphInvTypes
    <3>3. OutOfDate(dirty, dep, S) \in SUBSET Nodes
      BY <3>2, OutOfDateFacts
    <3> QED
      BY <1>5, <3>1, <3>3 DEF SetData
  <2>2. HistoryOK'
    BY <1>5, ForgottenTypes DEF SetData
  <2>3. TypeOK'
    BY <1>5, <2>1, <2>2 DEF GraphInv, TypeOK, HistoryOK, SetData, graphVars, evaluation
  <2> QED
    BY <1>5, <2>3, UneditedKeepsGraph DEF SetData, graphVars
<1>6. CASE Resize(n)
  <2>1. PICK c \in CallState : Resized(n, c)
    <3>1. Resized(n, IF calls[n] = "none" THEN "none" ELSE "stale")
      BY <1>6 DEF Resize
    <3>2. (IF calls[n] = "none" THEN "none" ELSE "stale") \in CallState
      BY DEF CallState
    <3> QED
      BY <3>1, <3>2
  <2>2. refresh' \in SUBSET Nodes /\ calls' \in [Nodes -> CallState]
    BY <2>1, ResizedTypes
  <2>3. HistoryOK'
    BY <1>6, ForgottenTypes DEF Resize
  <2>4. TypeOK'
    BY <1>6, <2>2, <2>3 DEF GraphInv, TypeOK, HistoryOK, Resize, graphVars, evaluation
  <2> QED
    BY <1>6, <2>4, UneditedKeepsGraph DEF Resize, graphVars
<1>7. CASE Evaluate(n)
  <2>1. /\ run' \in [Nodes -> RunState]
        /\ \A m \in Nodes : SoundAt(dep, rank, bindings, run', m)
        /\ rest' \subseteq Nat \X Nodes
    BY <1>7, EvaluateFacts
  <2>2. /\ Prepared /\ UNCHANGED <<dep, rank, bindings, executing, current, faults>>
        /\ evaluating' \in Nodes \union {NoNode}
    BY <1>7 DEF Evaluate
  <2> QED
    BY <2>1, <2>2, PreparedKeepsGraph
<1>8. CASE EvaluateRefused(n)
  <2>1. /\ run' \in [Nodes -> RunState]
        /\ \A m \in Nodes : SoundAt(dep, rank, bindings, run', m)
    BY <1>8, EvaluateRefusedFacts
  <2>2. /\ Prepared /\ UNCHANGED <<dep, rank, bindings, executing, current, faults>>
        /\ evaluating' = evaluating /\ rest' = rest
    BY <1>8 DEF EvaluateRefused, evaluation
  <2>3. evaluating' \in Nodes \union {NoNode} /\ rest' \subseteq Nat \X Nodes
    BY <2>2 DEF GraphInv, TypeOK
  <2> QED
    BY <2>1, <2>2, <2>3, PreparedKeepsGraph
<1> QED
  BY <1>1, <1>2, <1>3, <1>4, <1>5, <1>6, <1>7, <1>8 DEF Edit

LEMMA TaskKeepsGraph ==
  ASSUME GraphInv, NEW n \in Nodes, Task(n)
  PROVE  GraphInv'
<1>1. UNCHANGED <<dep, rank, bindings, errors, marked, run>>
  BY DEF Task, SkipClean, BeginOperators, EndOperators, EndOperatorsResized, ThrowOperators, graphVars
<1>2. TypeOK'
  <2>1. ASSUME NEW k, SkipClean(k, n) PROVE TypeOK'
    BY <2>1 DEF GraphInv, TypeOK, SkipClean, Begins, graphVars
  <2>2. ASSUME NEW k, BeginOperators(k, n) PROVE TypeOK'
    BY <2>2 DEF GraphInv, TypeOK, BeginOperators, Begins, graphVars, CallState
  <2>3. CASE EndOperators(n)
    <3>1. HistoryOK' /\ executing' = executing \ {n} /\ dirty' = dirty \ {n}
      BY <2>3, RunToEndTypes DEF EndOperators, RunToEnd
    <3> QED
      BY <2>3, <3>1 DEF GraphInv, TypeOK, HistoryOK, EndOperators, graphVars
  <2>4. CASE EndOperatorsResized(n)
    <3>1. refresh' \in SUBSET Nodes /\ calls' \in [Nodes -> CallState]
      <4>1. Resized(n, "none") /\ "none" \in CallState
        BY <2>4 DEF EndOperatorsResized, CallState
      <4> QED
        BY <4>1, ResizedTypes
    <3>2. HistoryOK' /\ executing' = executing \ {n} /\ dirty' = dirty \ {n}
      BY <2>4, RunToEndTypes DEF EndOperatorsResized, RunToEnd
    <3> QED
      BY <2>4, <3>1, <3>2 DEF GraphInv, TypeOK, HistoryOK, EndOperatorsResized, graphVars
  <2>5. CASE ThrowOperators(n)
    <3>1. evaluating' \in Nodes \union {NoNode} /\ rest' \subseteq Nat \X Nodes
      BY <2>5 DEF GraphInv, TypeOK, ThrowOperators
    <3>2. HistoryOK'
      BY <2>5, ForgottenTypes DEF ThrowOperators
    <3> QED
      BY <2>5, <3>1, <3>2 DEF GraphInv, TypeOK, HistoryOK, ThrowOperators, graphVars
  <2> QED
    BY <2>1, <2>2, <2>3, <2>4, <2>5 DEF Task
<1> QED
  BY <1>1, <1>2, UneditedKeepsGraph

LEMMA GraphInvInit == Init => GraphInv
<1> SUFFICES ASSUME Init PROVE GraphInv
  OBVIOUS
<1>1. TypeOK
  BY DEF Init, TypeOK, RunState, NoRunState, CallState
<1>2. \A n \in Nodes : Dependencies(dep, n) = {}
  BY DEF Init, Dependencies
<1>3. dep \in Graphs /\ rank \in Ranks
  BY <1>1 DEF TypeOK, Graphs, Ranks
<1>4. RankExact
  <2>1. \A n \in Nodes : Low(dep, rank, n) /\ Tight(dep, rank, n)
    BY <1>2 DEF Init, Low, Tight
  <2> QED
    BY <1>3, <2>1, ExactRank DEF RankExact
<1>5. MarkedUpward
  BY DEF Init, MarkedUpward, UpwardIn
<1>6. ErrorsSound
  BY DEF Init, ErrorsSound, MissingIn
<1>7. StatesSound
  BY DEF Init, StatesSound, SoundAt, NoRunState
<1> QED
  BY <1>1, <1>4, <1>5, <1>6, <1>7 DEF GraphInv

LEMMA GraphInvNext == GraphInv /\ [Next]_vars => GraphInv'
<1> SUFFICES ASSUME GraphInv, [Next]_vars PROVE GraphInv'
  OBVIOUS
<1>1. ASSUME NEW n \in Nodes, Edit(n) \/ Evaluate(n) \/ EvaluateRefused(n) PROVE GraphInv'
  BY <1>1, CommandKeepsGraph
<1>2. ASSUME NEW n \in Nodes, Task(n) PROVE GraphInv'
  BY <1>2, TaskKeepsGraph
<1>3. CASE PrepareForExecution
  <2>1. /\ run' = PreparedRun /\ Prepared /\ UNCHANGED <<dep, rank, bindings, executing, current, faults>>
        /\ evaluating' = evaluating /\ rest' = rest
    BY <1>3 DEF PrepareForExecution, evaluation
  <2>2. /\ run' \in [Nodes -> RunState]
        /\ \A n \in Nodes : SoundAt(dep, rank, bindings, run', n)
    BY <2>1, PreparedReady DEF Ready
  <2>3. evaluating' \in Nodes \union {NoNode} /\ rest' \subseteq Nat \X Nodes
    BY <2>1 DEF GraphInv, TypeOK
  <2> QED
    BY <2>1, <2>2, <2>3, PreparedKeepsGraph
<1>4. CASE EndEvaluate
  <2>1. TypeOK'
    BY <1>4 DEF GraphInv, TypeOK, EndEvaluate, graphVars
  <2> QED
    BY <1>4, <2>1, UneditedKeepsGraph DEF EndEvaluate, graphVars
<1>5. CASE UNCHANGED vars
  <2>1. TypeOK'
    BY <1>5 DEF GraphInv, TypeOK, vars, graphVars, evaluation
  <2> QED
    BY <1>5, <2>1, UneditedKeepsGraph DEF vars, graphVars
<1> QED
  BY <1>1, <1>2, <1>3, <1>4, <1>5 DEF Next

LEMMA GraphInvariant == Spec => []GraphInv
BY GraphInvInit, GraphInvNext, PTL DEF Spec

\* Every command and every task leaves a graph, run states and calls that the
\* next one can read.
THEOREM GraphTypeCorrect == Spec => []TypeOK
<1>1. GraphInv => TypeOK
  BY DEF GraphInv
<1> QED
  BY <1>1, GraphInvariant, PTL

\* Whatever the order in which edges are added and removed, the ranks kept edge
\* by edge by setDependency, removeDependency and destroy are those of the graph.
THEOREM RanksAreExact == Spec => []RankExact
<1>1. GraphInv => RankExact
  BY DEF GraphInv
<1> QED
  BY <1>1, GraphInvariant, PTL

\* What a node knows about running itself is what the graph says, however the
\* edits, the failed evaluations and the recompilations have followed each other.
THEOREM RunStatesAreSound == Spec => []RunStatesSound
<1>1. GraphInv => RunStatesSound
  BY RunStatesSoundAt DEF GraphInv, StatesSound
<1> QED
  BY <1>1, GraphInvariant, PTL
-----------------------------------------------------------------------------
(***************************************************************************)
(* The invariant of evaluations: one runs the tasks of its stream in the    *)
(* order of ranks, on a graph without marks; a stale call is of a node that *)
(* a mark will have bound again.                                            *)
(***************************************************************************)
RefreshUpward == UpwardIn(dep, refresh, refresh \union marked)
StaleMarked == \A n \in Nodes : calls[n] = "stale" => n \in marked \union refresh
IdleRest == evaluating = NoNode => rest = {} /\ executing = {}
UpToDate == evaluating # NoNode => marked = {} /\ (MayResize = {} => refresh = {})
OwnStream ==
  evaluating # NoNode =>
    /\ run[evaluating].stream = StreamIn(dep, rank, evaluating)
    /\ rest \subseteq StreamIn(dep, rank, evaluating)
    /\ executing \subseteq dirty \intersect Upstream(dep, {evaluating})
OneGroup ==
  evaluating # NoNode =>
    \A n \in executing :
      /\ <<rank[n], n>> \notin rest
      /\ \A task \in rest : rank[n] <= task[1]
      /\ \A m \in executing : rank[m] = rank[n]

EvaluationInv ==
  /\ RefreshUpward
  /\ StaleMarked
  /\ IdleRest
  /\ UpToDate
  /\ OwnStream
  /\ OneGroup

LEMMA StreamFacts ==
  ASSUME NEW D \in Graphs, NEW r \in Ranks, NEW n \in Nodes
  PROVE  /\ \A task \in StreamIn(D, r, n) :
              task = <<r[task[2]], task[2]>> /\ task[2] \in Upstream(D, {n})
         /\ \A m \in Upstream(D, {n}) : <<r[m], m>> \in StreamIn(D, r, n)
         /\ \A k, m : <<k, m>> \in StreamIn(D, r, n) <=> m \in Upstream(D, {n}) /\ k = r[m]
BY DEF StreamIn

\* While no node is evaluated, only the marks and the calls matter.
LEMMA IdleKeepsEvaluation ==
  ASSUME Idle, IdleRest, UNCHANGED evaluation, RefreshUpward', StaleMarked'
  PROVE  EvaluationInv'
BY DEF Idle, IdleRest, evaluation, EvaluationInv, UpToDate, OwnStream, OneGroup

LEMMA EditKeepsEvaluation ==
  ASSUME GraphInv, EvaluationInv, NEW n \in Nodes, EditOf(n), Idle
  PROVE  EvaluationInv'
<1>1. /\ marked \subseteq marked' /\ n \in marked'
      /\ \A y \in Nodes : Dependents(dep', y) \subseteq Dependents(dep, y) \union {n}
  BY EditMarks
<1>2. refresh' = refresh /\ calls' = calls /\ UNCHANGED evaluation /\ refresh \subseteq Nodes
  BY GraphInvTypes DEF EditOf, Edited
<1>3. RefreshUpward'
  BY <1>1, <1>2 DEF EvaluationInv, RefreshUpward, UpwardIn
<1>4. StaleMarked'
  BY <1>1, <1>2 DEF EvaluationInv, StaleMarked
<1> QED
  BY <1>2, <1>3, <1>4, IdleKeepsEvaluation DEF EvaluationInv

LEMMA DestroyKeepsEvaluation ==
  ASSUME GraphInv, EvaluationInv, NEW n \in Nodes, Destroy(n)
  PROVE  EvaluationInv'
<1>1. /\ \A y \in Nodes : Dependents(dep', y) \subseteq Dependents(dep, y) \ {n}
      /\ marked \subseteq marked' \union {n}
  BY DestroyKeepsGraph
<1>2. /\ refresh' = refresh \ {n} /\ calls' = [calls EXCEPT ![n] = "none"]
      /\ UNCHANGED evaluation /\ Idle /\ refresh \subseteq Nodes
  BY GraphInvTypes DEF Destroy
<1>3. RefreshUpward'
  <2>1. ASSUME NEW y \in refresh', NEW z \in Dependents(dep', y)
        PROVE  z \in refresh' \union marked'
    <3>1. y \in refresh /\ z \in Dependents(dep, y) /\ z # n
      BY <1>1, <1>2, <2>1
    <3>2. z \in refresh \union marked
      BY <3>1 DEF EvaluationInv, RefreshUpward, UpwardIn
    <3> QED
      BY <1>1, <1>2, <3>1, <3>2
  <2> QED
    BY <2>1 DEF RefreshUpward, UpwardIn
<1>4. StaleMarked'
  BY <1>1, <1>2 DEF EvaluationInv, StaleMarked, GraphInv, TypeOK
<1> QED
  BY <1>2, <1>3, <1>4, IdleKeepsEvaluation DEF EvaluationInv

\* markForRefresh has already reached the dependents of a node that is marked.
LEMMA ResizedKeepsMarks ==
  ASSUME GraphInv, EvaluationInv, NEW n \in Nodes, NEW c \in CallState, Resized(n, c),
         UNCHANGED <<dep, marked>>
  PROVE  /\ RefreshUpward' /\ StaleMarked'
         /\ n \in refresh'
<1>1. dep \in Graphs /\ refresh \in SUBSET Nodes
  BY GraphInvTypes
<1>2. PICK W \in SUBSET Nodes :
        /\ refresh' = W /\ W = Refreshed(refresh, dep, n)
        /\ refresh \subseteq W /\ n \in W /\ UpwardIn(dep, W \ refresh, W)
  BY <1>1, RefreshedFacts DEF Resized
<1>3. UpwardIn(dep, W, W \union marked)
  BY <1>2 DEF EvaluationInv, RefreshUpward, UpwardIn
<1>4. RefreshUpward'
  BY <1>2, <1>3 DEF RefreshUpward
<1>5. ASSUME NEW m \in Nodes, calls'[m] = "stale" PROVE m \in marked \union W
  <2>1. CASE m = n
    BY <1>2, <2>1
  <2>2. CASE m # n /\ n \in Dependencies(dep, m)
    <3>1. m \in Dependents(dep, n)
      BY <2>2 DEF Dependents
    <3> QED
      BY <1>2, <1>3, <3>1 DEF UpwardIn
  <2>3. CASE m # n /\ n \notin Dependencies(dep, m)
    <3>1. calls'[m] = calls[m]
      BY <2>3 DEF Resized
    <3> QED
      BY <1>2, <1>5, <3>1 DEF EvaluationInv, StaleMarked
  <2> QED
    BY <2>1, <2>2, <2>3
<1> QED
  BY <1>2, <1>4, <1>5 DEF StaleMarked

LEMMA PreparedMarks ==
  ASSUME EvaluationInv, Prepared
  PROVE  RefreshUpward' /\ StaleMarked'
<1>1. RefreshUpward'
  BY DEF Prepared, RefreshUpward, UpwardIn
<1>2. StaleMarked'
  BY DEF Prepared, PreparedCalls, EvaluationInv, StaleMarked
<1> QED
  BY <1>1, <1>2

LEMMA EvaluateKeepsEvaluation ==
  ASSUME GraphInv, EvaluationInv, NEW n \in Nodes, Evaluate(n)
  PROVE  EvaluationInv'
<1>1. RefreshUpward' /\ StaleMarked'
  BY PreparedMarks DEF Evaluate
<1>2. /\ evaluating' = n /\ executing' = {} /\ marked' = {} /\ refresh' = {}
      /\ dep' = dep /\ rank' = rank
  BY DEF Evaluate, Prepared, EvaluationInv, IdleRest, Idle
<1>3. run'[n].stream = StreamIn(dep, rank, n) /\ rest' = StreamIn(dep, rank, n)
  BY EvaluateFacts
<1>4. IdleRest' /\ UpToDate' /\ OneGroup'
  BY <1>2, GraphConstants DEF IdleRest, UpToDate, OneGroup
<1>5. OwnStream'
  BY <1>2, <1>3 DEF OwnStream
<1> QED
  BY <1>1, <1>4, <1>5 DEF EvaluationInv

LEMMA CommandKeepsEvaluation ==
  ASSUME GraphInv, EvaluationInv, NEW n \in Nodes, Edit(n) \/ Evaluate(n) \/ EvaluateRefused(n)
  PROVE  EvaluationInv'
<1>1. ASSUME NEW name \in Names, NEW m \in Nodes, SetDependency(n, name, m)
      PROVE  EvaluationInv'
  BY <1>1, SetDependencyEdits, EditKeepsEvaluation DEF SetDependency
<1>2. ASSUME NEW name \in Names, RemoveDependency(n, name) PROVE EvaluationInv'
  BY <1>2, RemoveDependencyEdits, EditKeepsEvaluation DEF RemoveDependency
<1>3. ASSUME NEW name \in Names, AppendBinding(n, name) \/ RemoveBinding(n, name)
      PROVE  EvaluationInv'
  BY <1>3, BindingEdits, EditKeepsEvaluation DEF AppendBinding, RemoveBinding
<1>4. CASE Destroy(n)
  BY <1>4, DestroyKeepsEvaluation
<1>5. CASE SetData(n)
  <2>1. RefreshUpward' /\ StaleMarked'
    BY <1>5 DEF SetData, graphVars, EvaluationInv, RefreshUpward, UpwardIn, Dependents,
                Dependencies, StaleMarked
  <2> QED
    BY <1>5, <2>1, IdleKeepsEvaluation DEF SetData, EvaluationInv
<1>6. CASE Resize(n)
  <2>1. PICK c \in CallState : Resized(n, c)
    <3>1. Resized(n, IF calls[n] = "none" THEN "none" ELSE "stale")
      BY <1>6 DEF Resize
    <3>2. (IF calls[n] = "none" THEN "none" ELSE "stale") \in CallState
      BY DEF CallState
    <3> QED
      BY <3>1, <3>2
  <2>2. RefreshUpward' /\ StaleMarked'
    BY <1>6, <2>1, ResizedKeepsMarks DEF Resize, graphVars
  <2> QED
    BY <1>6, <2>2, IdleKeepsEvaluation DEF Resize, EvaluationInv
<1>7. CASE Evaluate(n)
  BY <1>7, EvaluateKeepsEvaluation
<1>8. CASE EvaluateRefused(n)
  BY <1>8, PreparedMarks, IdleKeepsEvaluation DEF EvaluateRefused, EvaluationInv
<1> QED
  BY <1>1, <1>2, <1>3, <1>4, <1>5, <1>6, <1>7, <1>8 DEF Edit

\* A task that runs operators is of the node's stream, at the node's rank.
LEMMA RunningFacts ==
  ASSUME GraphInv, EvaluationInv, evaluating # NoNode
  PROVE  /\ evaluating \in Nodes /\ dep \in Graphs /\ rank \in Ranks
         /\ Upstream(dep, {evaluating}) \in SUBSET Nodes
         /\ evaluating \in Upstream(dep, {evaluating})
         /\ \A m \in Upstream(dep, {evaluating}) :
              Dependencies(dep, m) \subseteq Upstream(dep, {evaluating})
         /\ \A k, m : <<k, m>> \in run[evaluating].stream <=>
              m \in Upstream(dep, {evaluating}) /\ k = rank[m]
         /\ \A k, m : <<k, m>> \in rest => m \in Upstream(dep, {evaluating}) /\ k = rank[m]
         /\ \A k : Group(k) = {m \in Upstream(dep, {evaluating}) : rank[m] = k}
<1>1. evaluating \in Nodes /\ dep \in Graphs /\ rank \in Ranks
  BY GraphInvTypes DEF GraphInv, TypeOK
<1>2. {evaluating} \in SUBSET Nodes
  BY <1>1
<1>3. PICK U \in SUBSET Nodes :
        /\ U = Upstream(dep, {evaluating}) /\ evaluating \in U
        /\ \A m \in U : Dependencies(dep, m) \subseteq U
  BY <1>1, <1>2, UpstreamFacts
<1>4. \A k, m : <<k, m>> \in run[evaluating].stream <=> m \in U /\ k = rank[m]
  <2>1. run[evaluating].stream = StreamIn(dep, rank, evaluating)
    BY DEF EvaluationInv, OwnStream
  <2>2. ASSUME NEW k, NEW m
        PROVE  <<k, m>> \in run[evaluating].stream <=> m \in U /\ k = rank[m]
    <3>1. <<k, m>> \in StreamIn(dep, rank, evaluating) <=> m \in U /\ k = rank[m]
      BY <1>3 DEF StreamIn
    <3> QED
      BY <2>1, <3>1
  <2> QED
    BY <2>2
<1>5. \A k, m : <<k, m>> \in rest => m \in U /\ k = rank[m]
  BY <1>1, <1>3, StreamFacts DEF EvaluationInv, OwnStream
<1>6. \A k : Group(k) = {m \in U : rank[m] = k}
  BY <1>3, <1>4 DEF Group
<1> QED
  BY <1>1, <1>3, <1>4, <1>5, <1>6

LEMMA BeginsFacts ==
  ASSUME GraphInv, EvaluationInv, NEW n \in Nodes, NEW k, Begins(k, n)
  PROVE  /\ evaluating # NoNode /\ k = rank[n] /\ n \in Upstream(dep, {evaluating})
         /\ <<rank[n], n>> \in rest /\ rest' = rest \ {<<rank[n], n>>}
         /\ \A task \in rest : rank[n] <= task[1]
         /\ \A m \in executing : rank[m] = rank[n]
<1>1. /\ evaluating # NoNode /\ <<k, n>> \in rest /\ rest' = rest \ {<<k, n>>}
      /\ \A task \in rest : k <= task[1]
      /\ executing \subseteq Group(k)
  BY DEF Begins
<1>2. k = rank[n] /\ n \in Upstream(dep, {evaluating})
  BY <1>1, RunningFacts
<1>3. \A m \in executing : rank[m] = k
  BY <1>1, RunningFacts
<1> QED
  BY <1>1, <1>2, <1>3

LEMMA ExecutingFacts ==
  ASSUME GraphInv, EvaluationInv, NEW n \in executing
  PROVE  /\ evaluating # NoNode /\ n \in Nodes /\ n \in dirty
         /\ n \in Upstream(dep, {evaluating})
         /\ <<rank[n], n>> \notin rest
         /\ \A task \in rest : rank[n] <= task[1]
         /\ \A m \in executing : rank[m] = rank[n]
<1>1. evaluating # NoNode
  BY DEF EvaluationInv, IdleRest
<1> QED
  BY <1>1, GraphInvTypes DEF EvaluationInv, OwnStream, OneGroup

\* A task that is alone in its group is the only one that runs.
LEMMA AloneInGroup ==
  ASSUME GraphInv, EvaluationInv, NEW n \in executing, NEW k, Group(k) = {n}
  PROVE  executing = {n}
<1>1. evaluating # NoNode
  BY ExecutingFacts
<1>2. Group(k) = {m \in Upstream(dep, {evaluating}) : rank[m] = k}
  BY <1>1, RunningFacts
<1>3. \A m \in executing : m \in Upstream(dep, {evaluating}) /\ rank[m] = rank[n]
  BY ExecutingFacts
<1> QED
  BY <1>2, <1>3

LEMMA TaskKeepsEvaluation ==
  ASSUME GraphInv, EvaluationInv, NEW n \in Nodes, Task(n)
  PROVE  EvaluationInv'
<1>1. UNCHANGED <<dep, rank, bindings, errors, marked, run>>
  BY DEF Task, SkipClean, BeginOperators, EndOperators, EndOperatorsResized, ThrowOperators, graphVars
<1>2. ASSUME NEW k, SkipClean(k, n) PROVE EvaluationInv'
  <2>1. UNCHANGED <<refresh, calls, dirty, evaluating, executing>> /\ rest' \subseteq rest
        /\ evaluating # NoNode
    BY <1>2 DEF SkipClean, Begins
  <2>2. RefreshUpward' /\ StaleMarked'
    BY <1>1, <2>1 DEF EvaluationInv, RefreshUpward, UpwardIn, Dependents, Dependencies, StaleMarked
  <2>3. IdleRest' /\ UpToDate'
    BY <1>1, <2>1 DEF EvaluationInv, IdleRest, UpToDate
  <2>4. OwnStream'
    BY <1>1, <2>1 DEF EvaluationInv, OwnStream
  <2>5. OneGroup'
    BY <1>1, <2>1 DEF EvaluationInv, OneGroup
  <2> QED
    BY <2>2, <2>3, <2>4, <2>5 DEF EvaluationInv
<1>3. ASSUME NEW k, BeginOperators(k, n) PROVE EvaluationInv'
  <2>1. /\ UNCHANGED <<refresh, dirty, evaluating>> /\ executing' = executing \union {n}
        /\ n \in dirty /\ Begins(k, n)
        /\ calls' = [calls EXCEPT ![n] = IF @ = "none" THEN "bound" ELSE @]
    BY <1>3 DEF BeginOperators
  <2>2. /\ evaluating # NoNode /\ n \in Upstream(dep, {evaluating})
        /\ rest' = rest \ {<<rank[n], n>>}
        /\ \A task \in rest : rank[n] <= task[1]
        /\ \A m \in executing : rank[m] = rank[n]
    BY <2>1, BeginsFacts
  <2>3. RefreshUpward'
    BY <1>1, <2>1 DEF EvaluationInv, RefreshUpward, UpwardIn, Dependents, Dependencies
  <2>4. StaleMarked'
    BY <1>1, <2>1 DEF EvaluationInv, StaleMarked, GraphInv, TypeOK
  <2>5. IdleRest' /\ UpToDate'
    BY <1>1, <2>1, <2>2 DEF EvaluationInv, IdleRest, UpToDate
  <2>6. OwnStream'
    BY <1>1, <2>1, <2>2 DEF EvaluationInv, OwnStream
  <2>7. OneGroup'
    <3>1. ASSUME NEW m \in executing'
          PROVE  <<rank[m], m>> \notin rest' /\ rank[m] = rank[n]
      <4>1. CASE m = n
        BY <2>2, <4>1
      <4>2. CASE m # n
        <5>1. m \in executing
          BY <2>1, <3>1, <4>2
        <5> QED
          BY <2>2, <5>1, ExecutingFacts
      <4> QED
        BY <4>1, <4>2
    <3>2. \A task \in rest' : rank[n] <= task[1]
      BY <2>2
    <3> QED
      BY <1>1, <2>1, <3>1, <3>2 DEF OneGroup
  <2> QED
    BY <2>3, <2>4, <2>5, <2>6, <2>7 DEF EvaluationInv
<1>4. CASE EndOperators(n) \/ EndOperatorsResized(n)
  <2>1. /\ UNCHANGED <<evaluating, rest>> /\ n \in executing
        /\ executing' = executing \ {n} /\ dirty' = dirty \ {n}
    BY <1>4 DEF EndOperators, EndOperatorsResized, RunToEnd
  <2>2. evaluating # NoNode
    BY <2>1, ExecutingFacts
  <2>3. RefreshUpward' /\ StaleMarked' /\ (MayResize = {} => refresh' = refresh)
    <3>1. CASE EndOperators(n)
      BY <1>1, <3>1 DEF EndOperators, EvaluationInv, RefreshUpward, UpwardIn, Dependents,
                        Dependencies, StaleMarked
    <3>2. CASE EndOperatorsResized(n)
      <4>1. Resized(n, "none") /\ "none" \in CallState /\ MayResize # {}
        BY <3>2 DEF EndOperatorsResized, CallState
      <4> QED
        BY <1>1, <4>1, ResizedKeepsMarks
    <3> QED
      BY <1>4, <3>1, <3>2
  <2>4. IdleRest' /\ UpToDate'
    BY <1>1, <2>1, <2>2, <2>3 DEF EvaluationInv, IdleRest, UpToDate
  <2>5. OwnStream'
    BY <1>1, <2>1 DEF EvaluationInv, OwnStream
  <2>6. OneGroup'
    BY <1>1, <2>1 DEF EvaluationInv, OneGroup
  <2> QED
    BY <2>3, <2>4, <2>5, <2>6 DEF EvaluationInv
<1>5. CASE ThrowOperators(n)
  <2>1. /\ UNCHANGED <<refresh, calls, dirty>> /\ n \in executing /\ executing' = executing \ {n}
        /\ \/ /\ \E k : Group(k) = {n}
              /\ evaluating' = NoNode /\ rest' = {}
           \/ UNCHANGED <<evaluating, rest>>
    BY <1>5 DEF ThrowOperators
  <2>2. RefreshUpward' /\ StaleMarked'
    BY <1>1, <2>1 DEF EvaluationInv, RefreshUpward, UpwardIn, Dependents, Dependencies, StaleMarked
  <2>3. CASE evaluating' = NoNode /\ rest' = {} /\ \E k : Group(k) = {n}
    <3>1. executing = {n}
      BY <2>1, <2>3, AloneInGroup
    <3> QED
      BY <2>1, <2>2, <2>3, <3>1
      DEF EvaluationInv, IdleRest, UpToDate, OwnStream, OneGroup
  <2>4. CASE UNCHANGED <<evaluating, rest>>
    <3>1. IdleRest' /\ UpToDate'
      BY <1>1, <2>1, <2>4 DEF EvaluationInv, IdleRest, UpToDate
    <3>2. OwnStream'
      BY <1>1, <2>1, <2>4 DEF EvaluationInv, OwnStream
    <3>3. OneGroup'
      BY <1>1, <2>1, <2>4 DEF EvaluationInv, OneGroup
    <3> QED
      BY <2>2, <3>1, <3>2, <3>3 DEF EvaluationInv
  <2> QED
    BY <2>1, <2>3, <2>4
<1> QED
  BY <1>2, <1>3, <1>4, <1>5 DEF Task

LEMMA EvaluationInvInit == Init => EvaluationInv
BY DEF Init, EvaluationInv, RefreshUpward, UpwardIn, StaleMarked, IdleRest, UpToDate,
       OwnStream, OneGroup

LEMMA EvaluationInvNext == GraphInv /\ EvaluationInv /\ [Next]_vars => EvaluationInv'
<1> SUFFICES ASSUME GraphInv, EvaluationInv, [Next]_vars PROVE EvaluationInv'
  OBVIOUS
<1>1. ASSUME NEW n \in Nodes, Edit(n) \/ Evaluate(n) \/ EvaluateRefused(n) PROVE EvaluationInv'
  BY <1>1, CommandKeepsEvaluation
<1>2. ASSUME NEW n \in Nodes, Task(n) PROVE EvaluationInv'
  BY <1>2, TaskKeepsEvaluation
<1>3. CASE PrepareForExecution
  BY <1>3, PreparedMarks, IdleKeepsEvaluation DEF PrepareForExecution, EvaluationInv
<1>4. CASE EndEvaluate
  <2>1. RefreshUpward' /\ StaleMarked'
    BY <1>4 DEF EndEvaluate, graphVars, EvaluationInv, RefreshUpward, UpwardIn, Dependents,
                Dependencies, StaleMarked
  <2>2. IdleRest' /\ UpToDate' /\ OwnStream' /\ OneGroup'
    BY <1>4 DEF EndEvaluate, IdleRest, UpToDate, OwnStream, OneGroup
  <2> QED
    BY <2>1, <2>2 DEF EvaluationInv
<1>5. CASE UNCHANGED vars
  <2>1. UNCHANGED <<dep, rank, marked, refresh, dirty, run, calls, evaluating, rest, executing>>
    BY <1>5 DEF vars, graphVars, evaluation
  <2>2. RefreshUpward' /\ StaleMarked'
    BY <2>1 DEF EvaluationInv, RefreshUpward, UpwardIn, Dependents, Dependencies, StaleMarked
  <2>3. IdleRest' /\ UpToDate' /\ OwnStream' /\ OneGroup'
    BY <2>1 DEF EvaluationInv, IdleRest, UpToDate, OwnStream, OneGroup
  <2> QED
    BY <2>2, <2>3 DEF EvaluationInv
<1> QED
  BY <1>1, <1>2, <1>3, <1>4, <1>5 DEF Next

LEMMA EvaluationInvariant == Spec => []EvaluationInv
BY EvaluationInvInit, EvaluationInvNext, GraphInvariant, PTL DEF Spec

\* Where no operator resizes its own node while a node is evaluated, no operator
\* runs with the size or the addresses of storage from before a resize: markForRefresh
\* reaches every call bound to that storage, and PrepareForExecution unbinds it.
THEOREM NoCallIsStale ==
  ASSUME MayResize = {}
  PROVE  Spec => []NoStaleCall
<1>1. GraphInv /\ EvaluationInv => NoStaleCall
  <2> SUFFICES ASSUME GraphInv, EvaluationInv, NEW n \in executing PROVE calls[n] # "stale"
    BY DEF NoStaleCall
  <2>1. evaluating # NoNode /\ n \in Nodes
    BY ExecutingFacts
  <2> QED
    BY <2>1 DEF EvaluationInv, UpToDate, StaleMarked
<1> QED
  BY <1>1, GraphInvariant, EvaluationInvariant, PTL
-----------------------------------------------------------------------------
(***************************************************************************)
(* What is dirty goes up to the dependents, and what is clean is current,   *)
(* unless an evaluation goes on after an exception (the run graph_stale).   *)
(* It does not where no operator throws, and where a node has at most one   *)
(* dependency: its ranks are then those of a chain, and every group of the  *)
(* stream has one task, which the calling thread runs.                      *)
(***************************************************************************)
ThrowsAlone == MayThrow = {} \/ \A x, y \in Names : x = y

DirtyUpward == UpwardIn(dep, dirty, dirty \union marked)

\* The nodes with a node of B upstream; where the pool caught an exception; where
\* anything went wrong.
Spoiled(D, B) == {n \in Nodes : Upstream(D, {n}) \intersect B # {}}
Caught == {n \in Nodes : "exception" \in faults[n]}
Faulty == {n \in Nodes : faults[n] # {}}

CurrentOrSpoiled ==
  Nodes \ (dirty \union marked \union refresh) \subseteq current \union Spoiled(dep, Caught)
CleanWhileEvaluating ==
  evaluating # NoNode =>
    /\ Nodes \ dirty \subseteq current \union Spoiled(dep, Faulty)
    /\ \A n \in Upstream(dep, {evaluating}) :
         n \in dirty => n \in executing \/ <<rank[n], n>> \in rest

DataInv ==
  /\ DirtyUpward
  /\ CurrentOrSpoiled
  /\ CleanWhileEvaluating

\* A node stays spoiled when nothing upstream of it is changed.
LEMMA SpoiledKept ==
  ASSUME NEW D \in Graphs, NEW E \in Graphs, NEW N \in SUBSET Nodes, UpwardIn(E, N, N),
         \A y \in Nodes \ N : E[y] = D[y],
         NEW B \in SUBSET Nodes, NEW C \in SUBSET Nodes, B \ N \subseteq C,
         NEW x \in Nodes \ N, x \in Spoiled(D, B)
  PROVE  x \in Spoiled(E, C)
<1>1. Upstream(E, {x}) \intersect N = {}
  BY OutsideUpward
<1>2. Upstream(E, {x}) = Upstream(D, {x})
  BY <1>1, SameUpstream
<1> QED
  BY <1>1, <1>2 DEF Spoiled

LEMMA SpoiledMonotone ==
  ASSUME NEW D, NEW B, NEW C, B \subseteq C
  PROVE  Spoiled(D, B) \subseteq Spoiled(D, C)
BY DEF Spoiled

\* What is upstream of a dependency spoils the node, too.
LEMMA SpoiledByDependency ==
  ASSUME NEW D \in Graphs, NEW n \in Nodes, NEW d \in Dependencies(D, n), NEW B,
         d \in Spoiled(D, B)
  PROVE  n \in Spoiled(D, B)
<1>1. {n} \in SUBSET Nodes /\ {d} \in SUBSET Nodes
  BY EdgeFacts
<1>2. /\ Upstream(D, {n}) \in SUBSET Nodes /\ d \in Upstream(D, {n})
      /\ \A m \in Upstream(D, {n}) : Dependencies(D, m) \subseteq Upstream(D, {n})
  BY <1>1, UpstreamFacts
<1>3. Upstream(D, {d}) \subseteq Upstream(D, {n})
  BY <1>1, <1>2, UpstreamFacts
<1> QED
  BY <1>3 DEF Spoiled

\* What a command does not make the history forget is as current as before.
LEMMA ForgottenKeepsCurrent ==
  ASSUME GraphInv, dep' \in Graphs, NEW N \in SUBSET Nodes, UpwardIn(dep', N, N),
         \A y \in Nodes \ N : dep'[y] = dep[y], Forgotten(N),
         NEW x \in Nodes \ N, x \in current \union Spoiled(dep, Caught)
  PROVE  x \in current' \union Spoiled(dep', Caught')
<1>1. CASE x \in current
  BY <1>1 DEF Forgotten
<1>2. CASE x \in Spoiled(dep, Caught)
  <2>1. Caught \in SUBSET Nodes /\ Caught' \in SUBSET Nodes
    BY DEF Caught
  <2>2. Caught \ N \subseteq Caught'
    BY DEF Caught, Forgotten
  <2>3. dep \in Graphs
    BY GraphInvTypes
  <2> HIDE DEF Caught
  <2> QED
    BY <1>2, <2>1, <2>2, <2>3, SpoiledKept
<1> QED
  BY <1>1, <1>2

\* Two sets that go up together have all that is downstream of their nodes.
LEMMA UpwardTogether ==
  ASSUME NEW D \in Graphs, NEW S \in SUBSET Nodes, NEW T \in SUBSET Nodes,
         UpwardIn(D, S, S \union T), UpwardIn(D, T, T), NEW n \in S
  PROVE  Downstream(D, {n}) \subseteq S \union T
<1>1. PICK W \in SUBSET Nodes : W = S \union T
  OBVIOUS
<1>2. UpwardIn(D, W, W) /\ n \in W
  BY <1>1 DEF UpwardIn
<1> QED
  BY <1>1, <1>2, UpwardDownstream

\* While no node is evaluated the data are right by the marks alone.
LEMMA IdleKeepsData ==
  ASSUME Idle, UNCHANGED evaluation, DirtyUpward', CurrentOrSpoiled'
  PROVE  DataInv'
BY DEF Idle, evaluation, DataInv, CleanWhileEvaluating

LEMMA EditKeepsData ==
  ASSUME GraphInv, DataInv, NEW n \in Nodes, EditOf(n), Idle
  PROVE  DataInv'
<1>1. dep \in Graphs /\ dep' \in Graphs /\ marked \in SUBSET Nodes /\ UpwardIn(dep, marked, marked)
  BY GraphInvTypes DEF EditOf, GraphInv, MarkedUpward
<1>2. /\ marked' \in SUBSET Nodes /\ marked \subseteq marked' /\ n \in marked'
      /\ UpwardIn(dep', marked', marked')
      /\ \A y \in Nodes : Dependents(dep', y) \subseteq Dependents(dep, y) \union {n}
  BY EditMarks
<1>3. /\ UNCHANGED <<dirty, refresh, evaluation>> /\ dirty \subseteq Nodes
  BY GraphInvTypes DEF EditOf, Edited
<1>4. DirtyUpward'
  BY <1>2, <1>3 DEF DataInv, DirtyUpward, UpwardIn
<1>5. PICK N \in SUBSET Nodes : /\ N \subseteq marked' /\ n \in N
                                /\ UpwardIn(dep', N, N) /\ Forgotten(N)
  <2>1. {n} \in SUBSET Nodes
    OBVIOUS
  <2>2. PICK N : N = Downstream(dep', {n})
    OBVIOUS
  <2>3. N \in SUBSET Nodes /\ n \in N /\ UpwardIn(dep', N, N)
    BY <1>1, <2>1, <2>2, DownstreamFacts DEF UpwardIn
  <2>4. N \subseteq marked'
    BY <1>1, <1>2, <2>2, UpwardDownstream
  <2>5. Forgotten(N)
    BY <2>2 DEF EditOf, Edited
  <2> QED
    BY <2>3, <2>4, <2>5
<1>6. \A y \in Nodes \ N : dep'[y] = dep[y]
  BY <1>5 DEF EditOf
<1>7. CurrentOrSpoiled'
  <2>1. ASSUME NEW x \in Nodes \ (dirty' \union marked' \union refresh')
        PROVE  x \in current' \union Spoiled(dep', Caught')
    <3>1. x \in Nodes \ N /\ x \in current \union Spoiled(dep, Caught)
      BY <1>2, <1>3, <1>5, <2>1 DEF DataInv, CurrentOrSpoiled
    <3> QED
      BY <1>1, <1>5, <1>6, <3>1, ForgottenKeepsCurrent
  <2> QED
    BY <2>1 DEF CurrentOrSpoiled
<1> QED
  BY <1>3, <1>4, <1>7, IdleKeepsData

\* destroy changes the edges of n and of its dependents only.
LEMMA DestroyKeepsEdges ==
  ASSUME GraphInv, NEW n \in Nodes, Destroy(n), NEW N \in SUBSET Nodes, n \in N,
         Dependents(dep, n) \subseteq N
  PROVE  dep' \in Graphs /\ \A y \in Nodes \ N : dep'[y] = dep[y]
<1>1. /\ dep \in Graphs /\ rank \in Ranks /\ Exact(dep, rank)
  BY GraphInvTypes
<1>2. /\ dep' \in Graphs
      /\ \A m \in Nodes, name \in Names :
           dep'[m][name] = IF m = n \/ dep[m][name] = n THEN NoNode ELSE dep[m][name]
  <2> DEFINE edges(m, S) == {<<m, name>> : name \in {s \in Names : dep[m][s] \in S}}
             own == SetToSeq(edges(n, Nodes))
             others == SetToSeq(UNION {edges(m, {n}) : m \in Nodes})
             graph == WithoutEdges([dep |-> dep, rank |-> rank], own \o others)
  <2>1. EdgesRemoved(dep, rank, n)
    BY <1>1, DestroyedFacts
  <2>2. dep' = graph.dep
    BY DEF Destroy
  <2> QED
    BY <2>1, <2>2 DEF EdgesRemoved
<1>3. ASSUME NEW y \in Nodes \ N PROVE dep'[y] = dep[y]
  <2>1. \A s \in Names : dep[y][s] # n
    BY <1>3, GraphConstants DEF Dependents, Dependencies
  <2>2. \A s \in Names : dep'[y][s] = dep[y][s]
    BY <1>2, <1>3, <2>1
  <2>3. dep[y] \in [Names -> Nodes \union {NoNode}] /\ dep'[y] \in [Names -> Nodes \union {NoNode}]
    BY <1>1, <1>2 DEF Graphs
  <2> QED
    BY <2>2, <2>3
<1> QED
  BY <1>2, <1>3

LEMMA DestroyKeepsData ==
  ASSUME GraphInv, DataInv, NEW n \in Nodes, Destroy(n)
  PROVE  DataInv'
<1>1. /\ \A y \in Nodes : Dependents(dep', y) \subseteq Dependents(dep, y) \ {n}
      /\ Dependents(dep', n) = {}
      /\ marked \subseteq marked' \union {n} /\ n \notin marked'
      /\ Downstream(dep, {n}) \subseteq marked' \union {n}
  BY DestroyKeepsGraph
<1>2. /\ UNCHANGED evaluation /\ Idle /\ dirty \subseteq Nodes
      /\ refresh' = refresh \ {n} /\ dirty' = dirty \union {n}
      /\ Forgotten(Downstream(dep, {n}))
  BY GraphInvTypes DEF Destroy
<1>3. DirtyUpward'
  <2>1. ASSUME NEW y \in dirty', NEW z \in Dependents(dep', y) PROVE z \in dirty' \union marked'
    <3>1. y \in dirty /\ z \in Dependents(dep, y)
      BY <1>1, <1>2, <2>1
    <3>2. z \in dirty \union marked
      BY <3>1 DEF DataInv, DirtyUpward, UpwardIn
    <3> QED
      BY <1>1, <1>2, <3>2
  <2> QED
    BY <2>1 DEF DirtyUpward, UpwardIn
<1>4. PICK N \in SUBSET Nodes : /\ N = Downstream(dep, {n}) /\ n \in N
                                /\ Dependents(dep, n) \subseteq N /\ UpwardIn(dep', N, N)
  <2>1. {n} \in SUBSET Nodes /\ dep \in Graphs
    BY GraphInvTypes
  <2>2. PICK N : N = Downstream(dep, {n})
    OBVIOUS
  <2>3. /\ N \in SUBSET Nodes /\ n \in N
        /\ \A y \in N : Dependents(dep, y) \subseteq N
    BY <2>1, <2>2, DownstreamFacts
  <2>4. UpwardIn(dep', N, N)
    BY <1>1, <2>3 DEF UpwardIn
  <2> QED
    BY <2>2, <2>3, <2>4
<1>5. dep \in Graphs /\ dep' \in Graphs /\ \A y \in Nodes \ N : dep'[y] = dep[y]
  BY <1>4, DestroyKeepsEdges, GraphInvTypes
<1>6. CurrentOrSpoiled'
  <2>1. ASSUME NEW x \in Nodes \ (dirty' \union marked' \union refresh')
        PROVE  x \in current' \union Spoiled(dep', Caught')
    <3>1. x \in Nodes \ N /\ x \in current \union Spoiled(dep, Caught)
      BY <1>1, <1>2, <1>4, <2>1 DEF DataInv, CurrentOrSpoiled
    <3> QED
      BY <1>2, <1>4, <1>5, <3>1, ForgottenKeepsCurrent
  <2> QED
    BY <2>1 DEF CurrentOrSpoiled
<1> QED
  BY <1>2, <1>3, <1>6, IdleKeepsData

\* A change of a node's data, or an exception, that is passed on to all that is
\* downstream of it.
LEMMA InputChanged ==
  ASSUME GraphInv, DataInv, NEW n \in Nodes, dep' = dep,
         Forgotten(Downstream(dep, {n})),
         Downstream(dep, {n}) \subseteq dirty' \union marked' \union refresh',
         dirty \union marked \union refresh \subseteq dirty' \union marked' \union refresh'
  PROVE  CurrentOrSpoiled'
<1>1. dep \in Graphs /\ {n} \in SUBSET Nodes
  BY GraphInvTypes
<1>2. PICK N : N = Downstream(dep, {n})
  OBVIOUS
<1>3. N \in SUBSET Nodes /\ UpwardIn(dep, N, N)
  BY <1>1, <1>2, DownstreamFacts DEF UpwardIn
<1>4. UpwardIn(dep', N, N) /\ dep' \in Graphs /\ \A y \in Nodes \ N : dep'[y] = dep[y]
  BY <1>1, <1>3
<1>5. ASSUME NEW x \in Nodes \ (dirty' \union marked' \union refresh')
      PROVE  x \in current' \union Spoiled(dep', Caught')
  <2>1. x \in Nodes \ N /\ x \in current \union Spoiled(dep, Caught)
    BY <1>2, <1>5 DEF DataInv, CurrentOrSpoiled
  <2>2. Forgotten(N)
    BY <1>2
  <2> QED
    BY <1>3, <1>4, <2>1, <2>2, ForgottenKeepsCurrent
<1> QED
  BY <1>5 DEF CurrentOrSpoiled

\* setOutOfDate has already gone on from a node that is dirty.
LEMMA SetDataKeepsData ==
  ASSUME GraphInv, DataInv, NEW n \in Nodes, SetData(n)
  PROVE  DataInv'
<1>1. /\ dep \in Graphs /\ marked \in SUBSET Nodes /\ UpwardIn(dep, marked, marked)
      /\ dirty \in SUBSET Nodes
  BY GraphInvTypes DEF GraphInv, MarkedUpward
<1>2. PICK S \in SUBSET Nodes : S = {n}
  OBVIOUS
<1>3. PICK W \in SUBSET Nodes : /\ dirty' = W /\ dirty \subseteq W /\ S \subseteq W
                                /\ UpwardIn(dep, W \ dirty, W)
  <2>1. PICK W : W = OutOfDate(dirty, dep, S)
    OBVIOUS
  <2>2. W \in SUBSET Nodes /\ dirty \subseteq W /\ S \subseteq W /\ UpwardIn(dep, W \ dirty, W)
    BY <1>1, <2>1, OutOfDateFacts
  <2>3. dirty' = W
    BY <1>2, <2>1 DEF SetData
  <2> QED
    BY <2>2, <2>3
<1>4. UpwardIn(dep, W, W \union marked)
  BY <1>3 DEF DataInv, DirtyUpward, UpwardIn
<1>5. Downstream(dep, {n}) \subseteq W \union marked
  BY <1>1, <1>2, <1>3, <1>4, UpwardTogether
<1>6. /\ UNCHANGED evaluation /\ Idle /\ dep' = dep /\ marked' = marked /\ refresh' = refresh
      /\ Forgotten(Downstream(dep, {n}))
  BY DEF SetData, graphVars
<1>7. DirtyUpward'
  BY <1>3, <1>4, <1>6 DEF DirtyUpward
<1>8. CurrentOrSpoiled'
  BY <1>3, <1>5, <1>6, InputChanged
<1> QED
  BY <1>6, <1>7, <1>8, IdleKeepsData

LEMMA ResizeKeepsData ==
  ASSUME GraphInv, EvaluationInv, DataInv, NEW n \in Nodes, Resize(n)
  PROVE  DataInv'
<1>1. /\ dep \in Graphs /\ marked \in SUBSET Nodes /\ UpwardIn(dep, marked, marked)
      /\ refresh \in SUBSET Nodes
  BY GraphInvTypes DEF GraphInv, MarkedUpward
<1>2. PICK W \in SUBSET Nodes :
        /\ refresh' = W /\ W = Refreshed(refresh, dep, n)
        /\ refresh \subseteq W /\ n \in W /\ UpwardIn(dep, W \ refresh, W)
  BY <1>1, RefreshedFacts DEF Resize, Resized
<1>3. UpwardIn(dep, W, W \union marked)
  BY <1>2 DEF EvaluationInv, RefreshUpward, UpwardIn
<1>4. Downstream(dep, {n}) \subseteq W \union marked
  BY <1>1, <1>2, <1>3, UpwardTogether
<1>5. /\ UNCHANGED evaluation /\ Idle /\ dep' = dep /\ marked' = marked /\ dirty' = dirty
      /\ Forgotten(Downstream(dep, {n}))
  BY DEF Resize, graphVars
<1>6. DirtyUpward'
  BY <1>5 DEF DataInv, DirtyUpward, UpwardIn, Dependents, Dependencies
<1>7. CurrentOrSpoiled'
  BY <1>2, <1>4, <1>5, InputChanged
<1> QED
  BY <1>5, <1>6, <1>7, IdleKeepsData

\* PrepareForExecution makes what was marked dirty.
LEMMA PreparedData ==
  ASSUME GraphInv, DataInv, Prepared, UNCHANGED <<dep, current, faults>>
  PROVE  /\ DirtyUpward' /\ CurrentOrSpoiled'
         /\ Nodes \ dirty' \subseteq current' \union Spoiled(dep', Caught')
<1>1. dep \in Graphs /\ dirty \in SUBSET Nodes
  BY GraphInvTypes
<1>2. PICK S \in SUBSET Nodes : S = marked \union refresh
  BY GraphInvTypes
<1>3. PICK W \in SUBSET Nodes : /\ dirty' = W /\ dirty \subseteq W /\ S \subseteq W
                                /\ UpwardIn(dep, W \ dirty, W)
  <2>1. PICK W : W = OutOfDate(dirty, dep, S)
    OBVIOUS
  <2>2. W \in SUBSET Nodes /\ dirty \subseteq W /\ S \subseteq W /\ UpwardIn(dep, W \ dirty, W)
    BY <1>1, <2>1, OutOfDateFacts
  <2>3. dirty' = W
    BY <1>2, <2>1 DEF Prepared, PreparedDirty
  <2> QED
    BY <2>2, <2>3
<1>4. UpwardIn(dep, W, W)
  BY <1>2, <1>3 DEF DataInv, DirtyUpward, UpwardIn
<1>5. DirtyUpward'
  BY <1>3, <1>4 DEF Prepared, DirtyUpward, UpwardIn, Dependents, Dependencies
<1>6. Nodes \ dirty' \subseteq current' \union Spoiled(dep', Caught')
  <2>1. Caught' = Caught
    BY DEF Caught
  <2> QED
    BY <1>2, <1>3, <2>1 DEF DataInv, CurrentOrSpoiled
<1>7. CurrentOrSpoiled'
  BY <1>6 DEF CurrentOrSpoiled
<1> QED
  BY <1>5, <1>6, <1>7

LEMMA EvaluateKeepsData ==
  ASSUME GraphInv, DataInv, NEW n \in Nodes, Evaluate(n)
  PROVE  DataInv'
<1>1. /\ Prepared /\ UNCHANGED <<dep, rank, current, faults>> /\ evaluating' = n
  BY DEF Evaluate
<1>2. /\ DirtyUpward' /\ CurrentOrSpoiled'
      /\ Nodes \ dirty' \subseteq current' \union Spoiled(dep', Faulty')
  <2>1. /\ DirtyUpward' /\ CurrentOrSpoiled'
        /\ Nodes \ dirty' \subseteq current' \union Spoiled(dep', Caught')
    BY <1>1, PreparedData
  <2>2. Caught' \subseteq Faulty'
    BY DEF Caught, Faulty
  <2>3. Spoiled(dep', Caught') \subseteq Spoiled(dep', Faulty')
    BY <2>2 DEF Spoiled
  <2> QED
    BY <2>1, <2>3
<1>3. \A m \in Upstream(dep, {n}) : <<rank[m], m>> \in rest'
  BY EvaluateFacts DEF StreamIn
<1>4. CleanWhileEvaluating'
  BY <1>1, <1>2, <1>3 DEF CleanWhileEvaluating
<1> QED
  BY <1>2, <1>4 DEF DataInv

LEMMA CommandKeepsData ==
  ASSUME GraphInv, EvaluationInv, DataInv, NEW n \in Nodes,
         Edit(n) \/ Evaluate(n) \/ EvaluateRefused(n)
  PROVE  DataInv'
<1>1. ASSUME NEW name \in Names, NEW m \in Nodes, SetDependency(n, name, m) PROVE DataInv'
  BY <1>1, SetDependencyEdits, EditKeepsData DEF SetDependency
<1>2. ASSUME NEW name \in Names, RemoveDependency(n, name) PROVE DataInv'
  BY <1>2, RemoveDependencyEdits, EditKeepsData DEF RemoveDependency
<1>3. ASSUME NEW name \in Names, AppendBinding(n, name) \/ RemoveBinding(n, name) PROVE DataInv'
  BY <1>3, BindingEdits, EditKeepsData DEF AppendBinding, RemoveBinding
<1>4. CASE EvaluateRefused(n)
  BY <1>4, PreparedData, IdleKeepsData DEF EvaluateRefused
<1> QED
  BY <1>1, <1>2, <1>3, <1>4, DestroyKeepsData, SetDataKeepsData, ResizeKeepsData,
     EvaluateKeepsData DEF Edit

\* While the operators of a node run, nothing it depends on is dirty: it would be
\* run itself, or be in a group still to come, at a lower rank.
LEMMA DependenciesClean ==
  ASSUME GraphInv, EvaluationInv, DataInv, NEW n \in executing
  PROVE  /\ Dependencies(dep, n) \intersect dirty = {}
         /\ Downstream(dep, {n}) \subseteq dirty
<1>1. /\ evaluating # NoNode /\ n \in Nodes /\ n \in dirty /\ n \in Upstream(dep, {evaluating})
      /\ \A task \in rest : rank[n] <= task[1]
      /\ \A m \in executing : rank[m] = rank[n]
  BY ExecutingFacts
<1>2. /\ dep \in Graphs /\ rank \in Ranks /\ Exact(dep, rank)
      /\ dirty \in SUBSET Nodes /\ marked \in SUBSET Nodes
  BY GraphInvTypes
<1>3. ASSUME NEW d \in Dependencies(dep, n), d \in dirty PROVE FALSE
  <2>1. d \in Nodes /\ rank[n] \in Nat /\ rank[d] \in Nat /\ rank[n] > rank[d]
    BY <1>1, <1>2, ExactAcyclic
  <2>2. d \in Upstream(dep, {evaluating})
    BY <1>1, RunningFacts
  <2>3. d \in executing \/ <<rank[d], d>> \in rest
    BY <1>1, <1>3, <2>2 DEF DataInv, CleanWhileEvaluating
  <2>4. CASE d \in executing
    BY <1>1, <2>1, <2>4
  <2>5. CASE <<rank[d], d>> \in rest
    <3>1. rank[n] <= rank[d]
      BY <1>1, <2>5
    <3> QED
      BY <2>1, <3>1
  <2> QED
    BY <2>3, <2>4, <2>5
<1>4. marked = {}
  BY <1>1 DEF EvaluationInv, UpToDate
<1>5. UpwardIn(dep, dirty, dirty)
  BY <1>4 DEF DataInv, DirtyUpward
<1>6. Downstream(dep, {n}) \subseteq dirty
  BY <1>1, <1>2, <1>5, UpwardDownstream
<1> QED
  BY <1>3, <1>6

\* The rank of a node upstream is lower.
LEMMA UpstreamRank ==
  ASSUME NEW D \in Graphs, NEW r \in Ranks, Exact(D, r), NEW y \in Nodes,
         NEW x \in Upstream(D, {y})
  PROVE  x = y \/ r[x] < r[y]
<1> DEFINE T == {z \in Nodes : z = y \/ r[z] < r[y]}
<1>1. T \in SUBSET Nodes /\ {y} \subseteq T /\ {y} \in SUBSET Nodes
  OBVIOUS
<1>2. \A z \in T : Dependencies(D, z) \subseteq T
  <2>1. ASSUME NEW z \in T, NEW d \in Dependencies(D, z) PROVE d \in T
    <3>1. d \in Nodes /\ r[z] \in Nat /\ r[d] \in Nat /\ r[z] > r[d]
      BY <2>1, ExactAcyclic
    <3>2. r[y] \in Nat
      BY DEF Ranks
    <3> QED
      BY <2>1, <3>1, <3>2
  <2> QED
    BY <2>1
<1>3. Upstream(D, {y}) \subseteq T
  <2> HIDE DEF T
  <2> QED
    BY <1>1, <1>2, UpstreamFacts
<1> QED
  BY <1>3

\* Where a node has one dependency at most, what is upstream of it is a chain, and
\* no two of its nodes have the same rank.
LEMMA ChainRanks ==
  ASSUME NEW D \in Graphs, NEW r \in Ranks, Exact(D, r), \A s, t \in Names : s = t,
         NEW e \in Nodes, NEW x \in Upstream(D, {e}), NEW y \in Upstream(D, {e}),
         r[x] = r[y]
  PROVE  x = y
<1>1. \A m \in Nodes : /\ {m} \in SUBSET Nodes
                       /\ Upstream(D, {m}) \in SUBSET Nodes /\ m \in Upstream(D, {m})
                       /\ \A z \in Upstream(D, {m}) : Dependencies(D, z) \subseteq Upstream(D, {m})
  BY UpstreamFacts
<1>2. \A m \in Nodes : \A d, f \in Dependencies(D, m) : d = f
  BY DEF Dependencies
<1>3. ASSUME NEW m \in Nodes, NEW d \in Dependencies(D, m)
      PROVE  Upstream(D, {m}) \subseteq {m} \union Upstream(D, {d})
  <2> DEFINE T == {m} \union Upstream(D, {d})
  <2>1. d \in Nodes
    BY EdgeFacts
  <2>2. T \in SUBSET Nodes /\ {m} \subseteq T
    BY <1>1, <2>1
  <2>3. \A z \in T : Dependencies(D, z) \subseteq T
    BY <1>1, <1>2, <2>1
  <2> HIDE DEF T
  <2> QED
    BY <1>1, <2>2, <2>3, UpstreamFacts DEF T
<1> DEFINE T == {z \in Nodes : z \in Upstream(D, {y}) \/ y \in Upstream(D, {z})}
<1>4. y \in Nodes /\ T \in SUBSET Nodes /\ {e} \subseteq T /\ {e} \in SUBSET Nodes
  BY <1>1
<1>5. \A z \in T : Dependencies(D, z) \subseteq T
  <2>1. ASSUME NEW z \in T, NEW d \in Dependencies(D, z) PROVE d \in T
    <3>1. z \in Nodes /\ d \in Nodes
      BY <2>1, EdgeFacts
    <3>2. CASE z \in Upstream(D, {y})
      BY <1>1, <1>4, <3>1, <3>2
    <3>3. CASE y \in Upstream(D, {z})
      <4>1. y = z \/ y \in Upstream(D, {d})
        BY <1>3, <3>1, <3>3
      <4>2. CASE y = z
        BY <1>1, <3>1, <4>2
      <4> QED
        BY <3>1, <4>1, <4>2
    <3> QED
      BY <2>1, <3>2, <3>3
  <2> QED
    BY <2>1
<1>6. x \in T
  <2> HIDE DEF T
  <2>1. Upstream(D, {e}) \subseteq T
    BY <1>4, <1>5, UpstreamFacts
  <2> QED
    BY <2>1
<1>7. x \in Nodes /\ r[x] \in Nat /\ r[y] \in Nat
  BY <1>4, <1>6 DEF Ranks
<1>8. x = y \/ r[x] < r[y] \/ r[y] < r[x]
  BY <1>4, <1>6, <1>7, UpstreamRank
<1> QED
  BY <1>7, <1>8

\* What is outside of T, where nothing is spoiled but by B, and what the operators
\* of n leave after they ran to their end, with n as spoiled as C says.
LEMMA RunToEndKeeps ==
  ASSUME dep \in Graphs, NEW n \in Nodes, NEW caught \in SUBSET {"exception"},
         RunToEnd(n, caught),
         NEW T \in SUBSET Nodes, Downstream(dep, {n}) \subseteq T,
         NEW B \in SUBSET Nodes, NEW C \in SUBSET Nodes,
         B \ Downstream(dep, {n}) \subseteq C,
         Nodes \ T \subseteq current \union Spoiled(dep, B)
  PROVE  /\ Nodes \ T \subseteq current' \union Spoiled(dep, C)
         /\ /\ Dependencies(dep, n) \intersect T = {}
            /\ caught \union (IF calls[n] = "stale" THEN {"stale"} ELSE {}) = {} \/ n \in C
            => n \in current' \union Spoiled(dep, C)
<1> DEFINE wrong == caught \union (IF calls[n] = "stale" THEN {"stale"} ELSE {})
<1>1. {n} \in SUBSET Nodes
  OBVIOUS
<1>2. PICK N \in SUBSET Nodes : N = Downstream(dep, {n}) /\ UpwardIn(dep, N, N)
  BY <1>1, DownstreamFacts DEF UpwardIn
<1>3. current' = (current \ N) \union
        (IF wrong = {} /\ Dependencies(dep, n) \subseteq current THEN {n} ELSE {})
  BY <1>2 DEF RunToEnd
<1> HIDE DEF wrong
<1>4. B \ N \subseteq C /\ N \subseteq T
  BY <1>2
<1>5. ASSUME NEW x \in Nodes \ T PROVE x \in (current \ N) \union Spoiled(dep, C)
  <2>1. x \in Nodes \ N /\ x \in current \union Spoiled(dep, B)
    BY <1>4, <1>5
  <2>2. CASE x \in Spoiled(dep, B)
    BY <1>2, <1>4, <2>1, <2>2, SpoiledKept
  <2> QED
    BY <2>1, <2>2
<1>6. ASSUME Dependencies(dep, n) \intersect T = {}, wrong = {} \/ n \in C
      PROVE  n \in current' \union Spoiled(dep, C)
  <2>1. CASE n \in C
    <3>1. n \in Upstream(dep, {n})
      BY <1>1, UpstreamFacts
    <3> QED
      BY <2>1, <3>1 DEF Spoiled
  <2>2. CASE wrong = {} /\ Dependencies(dep, n) \subseteq current
    BY <1>3, <2>2
  <2>3. CASE \E d \in Dependencies(dep, n) : d \notin current
    <3>1. PICK d \in Dependencies(dep, n) : d \notin current
      BY <2>3
    <3>2. d \in Nodes \ T
      BY <1>6, <3>1, EdgeFacts
    <3>3. d \in Spoiled(dep, C)
      BY <1>5, <3>1, <3>2
    <3> QED
      BY <3>3, SpoiledByDependency
  <2> QED
    BY <1>6, <2>1, <2>2, <2>3
<1> QED
  BY <1>3, <1>5, <1>6 DEF wrong

LEMMA EndKeepsData ==
  ASSUME GraphInv, EvaluationInv, DataInv, NEW n \in Nodes,
         EndOperators(n) \/ EndOperatorsResized(n)
  PROVE  DataInv'
<1>1. PICK caught \in SUBSET {"exception"} : RunToEnd(n, caught)
  BY DEF EndOperators, EndOperatorsResized
<1>2. /\ n \in executing /\ executing' = executing \ {n} /\ dirty' = dirty \ {n}
      /\ UNCHANGED <<dep, rank, bindings, errors, marked, run, evaluating, rest>>
  BY <1>1 DEF EndOperators, EndOperatorsResized, RunToEnd, graphVars
<1>3. evaluating # NoNode /\ n \in dirty
  BY <1>2, ExecutingFacts
<1>4. Dependencies(dep, n) \intersect dirty = {} /\ Downstream(dep, {n}) \subseteq dirty
  BY <1>2, DependenciesClean
<1>5. /\ Nodes \ dirty \subseteq current \union Spoiled(dep, Faulty)
      /\ marked = {} /\ dirty \in SUBSET Nodes /\ refresh \in SUBSET Nodes /\ dep \in Graphs
  BY <1>3, GraphInvTypes DEF DataInv, CleanWhileEvaluating, EvaluationInv, UpToDate
<1> DEFINE wrong == caught \union (IF calls[n] = "stale" THEN {"stale"} ELSE {})
           below == Downstream(dep, {n})
<1>6. faults' = [m \in Nodes |-> IF m = n THEN wrong ELSE {w \in faults[m] : m \notin below}]
  BY <1>1 DEF RunToEnd
<1>7. /\ Faulty \in SUBSET Nodes /\ Faulty' \in SUBSET Nodes
      /\ Caught \in SUBSET Nodes /\ Caught' \in SUBSET Nodes
  BY DEF Faulty, Caught
<1>8. /\ Faulty \ below \subseteq Faulty' /\ (wrong = {} \/ n \in Faulty')
  <2> HIDE DEF wrong, below
  <2>0. n \in below
    <3>1. {n} \in SUBSET Nodes
      OBVIOUS
    <3> QED
      BY <1>5, <3>1, DownstreamFacts DEF below
  <2> QED
    BY <1>6, <2>0 DEF Faulty
<1>9. /\ Caught \ below \subseteq Caught' /\ ("exception" \in wrong => n \in Caught')
  <2> HIDE DEF wrong, below
  <2>0. n \in below
    <3>1. {n} \in SUBSET Nodes
      OBVIOUS
    <3> QED
      BY <1>5, <3>1, DownstreamFacts DEF below
  <2> QED
    BY <1>6, <2>0 DEF Caught
<1>10. Nodes \ dirty' \subseteq current' \union Spoiled(dep, Faulty')
  <2>1. PICK B \in SUBSET Nodes : B = Faulty
    BY <1>7
  <2>2. PICK C \in SUBSET Nodes : C = Faulty'
    BY <1>7
  <2>3. B \ Downstream(dep, {n}) \subseteq C /\ (wrong = {} \/ n \in C)
    BY <1>8, <2>1, <2>2
  <2>4. Nodes \ dirty \subseteq current \union Spoiled(dep, B)
    BY <1>5, <2>1
  <2>5. /\ Nodes \ dirty \subseteq current' \union Spoiled(dep, C)
        /\ n \in current' \union Spoiled(dep, C)
    BY <1>1, <1>4, <1>5, <2>3, <2>4, RunToEndKeeps
  <2> QED
    BY <1>2, <2>2, <2>5
<1>11. CurrentOrSpoiled'
  <2>1. PICK B \in SUBSET Nodes : B = Caught
    BY <1>7
  <2>2. PICK C \in SUBSET Nodes : C = Caught'
    BY <1>7
  <2>3. PICK T \in SUBSET Nodes : T = dirty \union refresh
    BY <1>5
  <2>4. B \ Downstream(dep, {n}) \subseteq C /\ Downstream(dep, {n}) \subseteq T
    BY <1>4, <1>9, <2>1, <2>2, <2>3
  <2>5. Nodes \ T \subseteq current \union Spoiled(dep, B)
    BY <1>5, <2>1, <2>3 DEF DataInv, CurrentOrSpoiled
  <2>6. /\ Nodes \ T \subseteq current' \union Spoiled(dep, C)
        /\ Dependencies(dep, n) \intersect T = {} /\ (wrong = {} \/ n \in C) =>
             n \in current' \union Spoiled(dep, C)
    BY <1>1, <1>5, <2>4, <2>5, RunToEndKeeps
  <2>7. refresh \subseteq refresh'
    <3>1. CASE EndOperators(n)
      BY <3>1 DEF EndOperators
    <3>2. CASE EndOperatorsResized(n)
      BY <1>5, <3>2, RefreshedFacts DEF EndOperatorsResized, Resized
    <3> QED
      BY <3>1, <3>2
  <2>8. ASSUME n \notin refresh' PROVE n \in current' \union Spoiled(dep, C)
    <3>1. calls[n] # "stale"
      BY <1>5, <2>7, <2>8 DEF EvaluationInv, StaleMarked
    <3>2. wrong = {} \/ n \in C
      BY <1>9, <2>2, <3>1
    <3>3. Dependencies(dep, n) \intersect refresh = {}
      <4>1. ASSUME NEW d \in Dependencies(dep, n), d \in refresh PROVE FALSE
        <5>1. n \in Dependents(dep, d)
          BY <4>1 DEF Dependents
        <5> QED
          BY <1>5, <2>7, <2>8, <4>1, <5>1 DEF EvaluationInv, RefreshUpward, UpwardIn
      <4> QED
        BY <4>1
    <3> QED
      BY <1>4, <2>3, <2>6, <3>2, <3>3
  <2>9. ASSUME NEW x \in Nodes \ (dirty' \union marked' \union refresh')
        PROVE  x \in current' \union Spoiled(dep', Caught')
    <3>1. CASE x = n
      BY <1>2, <2>2, <2>8, <2>9, <3>1
    <3>2. CASE x # n
      BY <1>2, <2>2, <2>3, <2>6, <2>7, <2>9, <3>2
    <3> QED
      BY <3>1, <3>2
  <2> QED
    BY <2>9 DEF CurrentOrSpoiled
<1>12. CleanWhileEvaluating'
  BY <1>2, <1>3, <1>10 DEF DataInv, CleanWhileEvaluating
<1>13. DirtyUpward'
  <2>1. ASSUME NEW y \in dirty', NEW z \in Dependents(dep, y) PROVE z \in dirty'
    <3>1. y \in dirty /\ z \in dirty
      BY <1>2, <1>5, <2>1 DEF DataInv, DirtyUpward, UpwardIn
    <3>2. z # n
      BY <1>4, <2>1, <3>1 DEF Dependents
    <3> QED
      BY <1>2, <3>1, <3>2
  <2> QED
    BY <1>2, <1>5, <2>1 DEF DirtyUpward, UpwardIn, Dependents, Dependencies
<1> QED
  BY <1>11, <1>12, <1>13 DEF DataInv

\* An exception ends the evaluation, and leaves dirty what was to be computed.
LEMMA ThrowKeepsData ==
  ASSUME ThrowsAlone, GraphInv, EvaluationInv, DataInv, NEW n \in Nodes, ThrowOperators(n)
  PROVE  DataInv'
<1>1. n \in executing /\ n \in MayThrow
  BY DEF ThrowOperators
<1>2. evaluating # NoNode /\ n \in Upstream(dep, {evaluating})
  BY <1>1, ExecutingFacts
<1>3. dep \in Graphs /\ rank \in Ranks /\ Exact(dep, rank) /\ evaluating \in Nodes
  BY <1>2, GraphInvTypes, RunningFacts
<1>4. Group(rank[n]) = {n}
  <2>1. Group(rank[n]) = {m \in Upstream(dep, {evaluating}) : rank[m] = rank[n]}
    BY <1>2, RunningFacts
  <2>2. \A s, t \in Names : s = t
    BY <1>1 DEF ThrowsAlone
  <2>3. \A m \in Upstream(dep, {evaluating}) : rank[m] = rank[n] => m = n
    BY <1>2, <1>3, <2>2, ChainRanks
  <2> QED
    BY <1>2, <2>1, <2>3
<1>5. <<rank[n], n>> \in run[evaluating].stream
  BY <1>2, RunningFacts
<1>6. /\ evaluating' = NoNode /\ Forgotten(Downstream(dep, {n}))
      /\ UNCHANGED <<dep, rank, bindings, errors, marked, refresh, dirty>>
  <2>1. \E k \in {task[1] : task \in run[evaluating].stream} : Group(k) = {n}
    BY <1>4, <1>5
  <2> QED
    BY <2>1 DEF ThrowOperators, graphVars
<1>7. Downstream(dep, {n}) \subseteq dirty
  BY <1>1, DependenciesClean
<1>8. DirtyUpward' /\ CurrentOrSpoiled'
  <2>1. DirtyUpward'
    BY <1>6 DEF DataInv, DirtyUpward, UpwardIn, Dependents, Dependencies
  <2>2. CurrentOrSpoiled'
    BY <1>6, <1>7, InputChanged
  <2> QED
    BY <2>1, <2>2
<1>9. CleanWhileEvaluating'
  BY <1>6 DEF CleanWhileEvaluating
<1> QED
  BY <1>8, <1>9 DEF DataInv

LEMMA TaskKeepsData ==
  ASSUME ThrowsAlone, GraphInv, EvaluationInv, DataInv, NEW n \in Nodes, Task(n)
  PROVE  DataInv'
<1>1. ASSUME NEW k, SkipClean(k, n) PROVE DataInv'
  <2>1. /\ UNCHANGED <<dep, rank, marked, refresh, dirty, evaluating, executing, current, faults>>
        /\ n \notin dirty
    BY <1>1 DEF SkipClean, graphVars
  <2>2. rest' = rest \ {<<rank[n], n>>} /\ evaluating # NoNode
    BY <1>1, BeginsFacts DEF SkipClean
  <2>3. DirtyUpward' /\ CurrentOrSpoiled'
    BY <2>1 DEF DataInv, DirtyUpward, UpwardIn, Dependents, Dependencies, CurrentOrSpoiled, Caught
  <2>4. CleanWhileEvaluating'
    BY <2>1, <2>2 DEF DataInv, CleanWhileEvaluating, Faulty
  <2> QED
    BY <2>3, <2>4 DEF DataInv
<1>2. ASSUME NEW k, BeginOperators(k, n) PROVE DataInv'
  <2>1. /\ UNCHANGED <<dep, rank, marked, refresh, dirty, evaluating, current, faults>>
        /\ executing' = executing \union {n}
    BY <1>2 DEF BeginOperators, graphVars
  <2>2. rest' = rest \ {<<rank[n], n>>} /\ evaluating # NoNode
    BY <1>2, BeginsFacts DEF BeginOperators
  <2>3. DirtyUpward' /\ CurrentOrSpoiled'
    BY <2>1 DEF DataInv, DirtyUpward, UpwardIn, Dependents, Dependencies, CurrentOrSpoiled, Caught
  <2>4. CleanWhileEvaluating'
    BY <2>1, <2>2 DEF DataInv, CleanWhileEvaluating, Faulty
  <2> QED
    BY <2>3, <2>4 DEF DataInv
<1> QED
  BY <1>1, <1>2, EndKeepsData, ThrowKeepsData DEF Task

LEMMA DataInvInit == Init => DataInv
<1>1. ASSUME Init PROVE DirtyUpward /\ CurrentOrSpoiled /\ CleanWhileEvaluating
  BY <1>1 DEF Init, DirtyUpward, UpwardIn, Dependents, CurrentOrSpoiled, CleanWhileEvaluating
<1> QED
  BY <1>1 DEF DataInv

LEMMA DataInvNext ==
  ASSUME ThrowsAlone
  PROVE  GraphInv /\ EvaluationInv /\ DataInv /\ [Next]_vars => DataInv'
<1> SUFFICES ASSUME GraphInv, EvaluationInv, DataInv, [Next]_vars PROVE DataInv'
  OBVIOUS
<1>1. ASSUME NEW n \in Nodes, Edit(n) \/ Evaluate(n) \/ EvaluateRefused(n) PROVE DataInv'
  BY <1>1, CommandKeepsData
<1>2. ASSUME NEW n \in Nodes, Task(n) PROVE DataInv'
  BY <1>2, TaskKeepsData
<1>3. CASE PrepareForExecution
  BY <1>3, PreparedData, IdleKeepsData DEF PrepareForExecution
<1>4. CASE EndEvaluate
  BY <1>4 DEF EndEvaluate, graphVars, DataInv, DirtyUpward, UpwardIn, Dependents, Dependencies,
              CurrentOrSpoiled, CleanWhileEvaluating, Caught, Faulty
<1>5. CASE UNCHANGED vars
  <2>1. /\ UNCHANGED <<dep, rank, marked, refresh, dirty, evaluating, rest, executing>>
        /\ UNCHANGED <<current, faults>>
    BY <1>5 DEF vars, graphVars, evaluation
  <2> QED
    BY <2>1 DEF DataInv, DirtyUpward, UpwardIn, Dependents, Dependencies, CurrentOrSpoiled,
                CleanWhileEvaluating, Caught, Faulty
<1> QED
  BY <1>1, <1>2, <1>3, <1>4, <1>5 DEF Next

LEMMA DataInvariant ==
  ASSUME ThrowsAlone
  PROVE  Spec => []DataInv
BY DataInvInit, DataInvNext, GraphInvariant, EvaluationInvariant, PTL DEF Spec

\* Where no evaluation goes on after an exception that a caller sees, a node that
\* is clean, and that no mark will make dirty, has data computed from its
\* dependencies' present data, or the pool caught an exception there or upstream.
THEOREM CleanNodesAreCurrent ==
  ASSUME ThrowsAlone
  PROVE  Spec => []CleanIsCurrent
<1>1. DataInv => CleanIsCurrent
  <2> SUFFICES ASSUME DataInv, NEW n \in Nodes \ (dirty \union marked \union refresh)
               PROVE  n \in current \/ \E m \in Upstream(dep, {n}) : "exception" \in faults[m]
    BY DEF CleanIsCurrent
  <2>1. n \in current \union Spoiled(dep, Caught)
    BY DEF DataInv, CurrentOrSpoiled
  <2> QED
    BY <2>1 DEF Spoiled, Caught
<1> QED
  BY <1>1, DataInvariant, PTL

\* There, setOutOfDate may stop at a dirty node.
THEOREM DirtyIsPassedOn ==
  ASSUME ThrowsAlone
  PROVE  Spec => []DirtyReachesDependents
<1>1. GraphInv /\ DataInv => DirtyReachesDependents
  <2> SUFFICES ASSUME GraphInv, DataInv, NEW n \in dirty
               PROVE  Downstream(dep, {n}) \subseteq dirty \union marked
    BY DEF DirtyReachesDependents
  <2> QED
    BY GraphInvTypes, UpwardTogether DEF GraphInv, MarkedUpward, DataInv, DirtyUpward
<1> QED
  BY <1>1, GraphInvariant, DataInvariant, PTL

\* There, the operators of a node run after those of its dependencies, which do
\* not run again: the tasks of the stream are run in the order of the exact ranks.
THEOREM OperatorsRunInOrder ==
  ASSUME ThrowsAlone
  PROVE  Spec => []EvaluationOrder
<1>1. GraphInv /\ EvaluationInv /\ DataInv => EvaluationOrder
  <2> SUFFICES ASSUME GraphInv, EvaluationInv, DataInv, NEW n \in executing
               PROVE  Dependencies(dep, n) \intersect (dirty \union executing) = {}
    BY DEF EvaluationOrder
  <2>1. executing \subseteq dirty
    BY ExecutingFacts
  <2> QED
    BY <2>1, DependenciesClean
<1> QED
  BY <1>1, GraphInvariant, EvaluationInvariant, DataInvariant, PTL

\* There, an evaluation that runs to its end leaves the node, and every node it
\* depends on, clean and computed from present data, or something went wrong in a
\* run there or upstream that evaluateLocal is not told of.
THEOREM EvaluationLeavesCurrent ==
  ASSUME ThrowsAlone
  PROVE  Spec => EvaluationMakesCurrent
<1> DEFINE Made == rest = {} /\ EndEvaluate =>
                     \A n \in Upstream(dep, {evaluating}) :
                       /\ n \notin dirty
                       /\ n \in current \/ \E m \in Upstream(dep, {n}) : faults[m] # {}
<1>1. GraphInv /\ EvaluationInv /\ DataInv /\ [Next]_vars => [Made]_vars
  <2> SUFFICES ASSUME GraphInv, EvaluationInv, DataInv, EndEvaluate, rest = {},
                      NEW n \in Upstream(dep, {evaluating})
               PROVE  /\ n \notin dirty
                      /\ n \in current \/ \E m \in Upstream(dep, {n}) : faults[m] # {}
    OBVIOUS
  <2>1. evaluating # NoNode /\ executing = {}
    BY DEF EndEvaluate
  <2>2. n \in Nodes /\ n \notin dirty
    BY <2>1, RunningFacts DEF DataInv, CleanWhileEvaluating
  <2>3. n \in current \union Spoiled(dep, Faulty)
    BY <2>1, <2>2 DEF DataInv, CleanWhileEvaluating
  <2> QED
    BY <2>2, <2>3 DEF Spoiled, Faulty
<1> QED
  BY <1>1, GraphInvariant, EvaluationInvariant, DataInvariant, PTL DEF Spec, EvaluationMakesCurrent
=============================================================================
