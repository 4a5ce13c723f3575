----------------------------- MODULE EventsProofs -----------------------------
(***************************************************************************)
(* Theorems about Events, and their proofs: lists and how often they have a *)
(* handler, what is below a handler, how far marks go, and the invariants   *)
(* that rest on them.                                                       *)
(***************************************************************************)
EXTENDS Events, FiniteSetTheorems, SequenceTheorems, WellFoundedInduction, TLAPS

Lists == Seq(Handlers)
-----------------------------------------------------------------------------
(***************************************************************************)
(* Lists.                                                                   *)
(***************************************************************************)
\* A set that has zero and the successor of each number it has has them all.
LEMMA SetInduction ==
  ASSUME NEW S, 0 \in S, \A k \in Nat : k \in S => k + 1 \in S
  PROVE  Nat \subseteq S
<1> DEFINE T == Nat \ S
           R == OpToRel(<, Nat)
<1>1. SUFFICES ASSUME T # {} PROVE FALSE
  OBVIOUS
<1>2. PICK k \in T : \A j \in T : <<j, k>> \notin R
  <2>1. IsWellFoundedOn(R, Nat) /\ T \subseteq Nat /\ T # {}
    BY <1>1, NatLessThanWellFounded
  <2> HIDE DEF T, R
  <2> QED
    BY <2>1, WFMin
<1>3. k \in Nat /\ k # 0
  OBVIOUS
<1>4. k - 1 \in Nat /\ k - 1 < k /\ (k - 1) + 1 = k
  BY <1>3
<1>5. <<k - 1, k>> \in R
  BY <1>3, <1>4 DEF OpToRel
<1>6. k - 1 \notin T
  BY <1>2, <1>5
<1> QED
  BY <1>3, <1>4, <1>6

\* The places of c among the first k elements of a list.
Places(s, k, c) == {i \in 1 .. k : s[i] = c}

LEMMA PlacesFacts ==
  ASSUME NEW s \in Lists, NEW k \in 0 .. Len(s), NEW c
  PROVE  /\ IsFiniteSet(Places(s, k, c))
         /\ Cardinality(Places(s, k, c)) \in Nat
         /\ k = 0 => Cardinality(Places(s, k, c)) = 0
         /\ Times(s, c) = Cardinality(Places(s, Len(s), c))
<1>1. IsFiniteSet(1 .. k)
  BY FS_Interval DEF Lists
<1>2. IsFiniteSet(Places(s, k, c))
  BY <1>1, FS_Subset DEF Places
<1>3. Cardinality(Places(s, k, c)) \in Nat
  BY <1>2, FS_CardinalityType
<1>4. k = 0 => Places(s, k, c) = {}
  BY DEF Places
<1>5. DOMAIN s = 1 .. Len(s)
  BY DEF Lists
<1>6. {i \in DOMAIN s : s[i] = c} = Places(s, Len(s), c)
  BY <1>5 DEF Places
<1> QED
  BY <1>2, <1>3, <1>4, <1>6, FS_EmptySet DEF Times

\* One element more.
LEMMA PlacesStep ==
  ASSUME NEW s \in Lists, NEW k \in 1 .. Len(s), NEW c
  PROVE  Cardinality(Places(s, k, c)) =
           IF s[k] = c THEN Cardinality(Places(s, k - 1, c)) + 1
           ELSE Cardinality(Places(s, k - 1, c))
<1>1. k \in Nat /\ k - 1 \in 0 .. Len(s)
  BY DEF Lists
<1>2. IsFiniteSet(Places(s, k - 1, c))
  BY <1>1, PlacesFacts
<1>3. k \notin Places(s, k - 1, c)
  BY <1>1 DEF Places
<1>4. CASE s[k] = c
  <2>1. Places(s, k, c) = Places(s, k - 1, c) \union {k}
    BY <1>1, <1>4 DEF Places
  <2> QED
    BY <1>2, <1>3, <1>4, <2>1, FS_AddElement
<1>5. CASE s[k] # c
  <2>1. Places(s, k, c) = Places(s, k - 1, c)
    BY <1>1, <1>5 DEF Places
  <2> QED
    BY <1>5, <2>1
<1> QED
  BY <1>4, <1>5

\* A list has its elements at least once, and no other ones.
LEMMA TimesFacts ==
  ASSUME NEW s \in Lists, NEW c
  PROVE  /\ Times(s, c) \in Nat
         /\ Times(s, c) > 0 <=> c \in ToSet(s)
         /\ Contains(s, c) <=> c \in ToSet(s)
<1> DEFINE P == Places(s, Len(s), c)
<1>1. Len(s) \in Nat /\ DOMAIN s = 1 .. Len(s)
  BY DEF Lists
<1>2. Len(s) \in 0 .. Len(s)
  BY <1>1
<1>3. IsFiniteSet(P) /\ Cardinality(P) \in Nat /\ Times(s, c) = Cardinality(P)
  BY <1>2, PlacesFacts
<1>4. Cardinality(P) = 0 <=> P = {}
  BY <1>3, FS_EmptySet
<1>5. P # {} <=> c \in ToSet(s)
  BY <1>1 DEF Places, ToSet
<1>6. Contains(s, c) <=> c \in ToSet(s)
  BY <1>1 DEF Contains, ToSet
<1> HIDE DEF P
<1> QED
  BY <1>3, <1>4, <1>5, <1>6

LEMMA EmptyFacts ==
  /\ <<>> \in Lists
  /\ ToSet(<<>>) = {}
  /\ \A c : Times(<<>>, c) = 0
<1>1. <<>> \in Lists
  BY DEF Lists
<1>2. ToSet(<<>>) = {}
  BY DEF ToSet
<1>3. ASSUME NEW c PROVE Times(<<>>, c) = 0
  BY <1>1, <1>2, TimesFacts
<1> QED
  BY <1>1, <1>2, <1>3

LEMMA AppendFacts ==
  ASSUME NEW s \in Lists, NEW h \in Handlers
  PROVE  /\ Append(s, h) \in Lists
         /\ ToSet(Append(s, h)) = ToSet(s) \union {h}
         /\ \A c : Times(Append(s, h), c) = IF c = h THEN Times(s, c) + 1 ELSE Times(s, c)
<1> DEFINE t == Append(s, h)
<1>1. Len(s) \in Nat /\ DOMAIN s = 1 .. Len(s)
  BY DEF Lists
<1>2. t \in Lists /\ Len(t) = Len(s) + 1 /\ t[Len(t)] = h /\ \A i \in 1 .. Len(s) : t[i] = s[i]
  BY DEF Lists
<1>3. DOMAIN t = 1 .. Len(s) + 1
  BY <1>2 DEF Lists
<1>4. ToSet(t) = ToSet(s) \union {h}
  <2> HIDE DEF t
  <2> QED
    BY <1>1, <1>2, <1>3 DEF ToSet
<1>5. ASSUME NEW c PROVE Times(t, c) = IF c = h THEN Times(s, c) + 1 ELSE Times(s, c)
  <2> HIDE DEF t
  <2>1. Len(t) \in 1 .. Len(t) /\ Len(t) \in 0 .. Len(t) /\ Len(s) \in 0 .. Len(s)
    BY <1>1, <1>2
  <2>2. Times(t, c) = Cardinality(Places(t, Len(t), c))
    BY <1>2, <2>1, PlacesFacts
  <2>3. Times(s, c) = Cardinality(Places(s, Len(s), c))
    BY <2>1, PlacesFacts
  <2>4. Len(t) - 1 = Len(s) /\ Places(t, Len(s), c) = Places(s, Len(s), c)
    BY <1>1, <1>2 DEF Places
  <2>5. Cardinality(Places(t, Len(t), c)) =
          IF h = c THEN Cardinality(Places(t, Len(t) - 1, c)) + 1
          ELSE Cardinality(Places(t, Len(t) - 1, c))
    BY <1>2, <2>1, PlacesStep
  <2> QED
    BY <2>2, <2>3, <2>4, <2>5
<1> QED
  BY <1>2, <1>4, <1>5

\* What Without keeps of the first k elements of s.
Kept(s, h, k, f) ==
  f = [i \in 0 .. k |->
         IF i = 0 THEN <<>> ELSE IF s[i] = h THEN f[i - 1] ELSE Append(f[i - 1], s[i])]

LEMMA KeptExists ==
  ASSUME NEW s \in Lists, NEW h
  PROVE  \E f : Kept(s, h, Len(s), f)
<1> DEFINE S == {k \in Nat : \E f : Kept(s, h, k, f)}
<1>1. 0 \in S
  <2>1. Kept(s, h, 0, [i \in 0 .. 0 |-> <<>>])
    BY DEF Kept
  <2> QED
    BY <2>1
<1>2. ASSUME NEW k \in Nat, k \in S
      PROVE  k + 1 \in S
  <2>1. PICK f : Kept(s, h, k, f)
    BY <1>2
  <2> DEFINE last == IF s[k + 1] = h THEN f[k] ELSE Append(f[k], s[k + 1])
             g == [i \in 0 .. k + 1 |-> IF i = k + 1 THEN last ELSE f[i]]
  <2>2. ASSUME NEW i \in 0 .. k + 1
        PROVE  g[i] = IF i = 0 THEN <<>> ELSE IF s[i] = h THEN g[i - 1]
                      ELSE Append(g[i - 1], s[i])
    <3>1. CASE i = 0
      <4>1. g[0] = f[0] /\ 0 \in 0 .. k
        BY <1>2
      <4> HIDE DEF g
      <4> QED
        BY <2>1, <3>1, <4>1 DEF Kept
    <3>2. CASE i = k + 1
      <4>1. g[i] = last /\ g[i - 1] = f[k] /\ i # 0
        BY <1>2, <3>2
      <4> HIDE DEF g
      <4> QED
        BY <3>2, <4>1
    <3>3. CASE i # 0 /\ i # k + 1
      <4>1. g[i] = f[i] /\ g[i - 1] = f[i - 1] /\ i \in 0 .. k
        BY <1>2, <3>3
      <4> HIDE DEF g
      <4> QED
        BY <2>1, <3>3, <4>1 DEF Kept
    <3> QED
      BY <3>1, <3>2, <3>3
  <2>3. DOMAIN g = 0 .. k + 1
    OBVIOUS
  <2>4. g = [i \in 0 .. k + 1 |-> g[i]]
    OBVIOUS
  <2> HIDE DEF g
  <2>5. Kept(s, h, k + 1, g)
    BY <2>2, <2>4 DEF Kept
  <2> QED
    BY <1>2, <2>5
<1> HIDE DEF S
<1>3. Nat \subseteq S
  BY <1>1, <1>2, SetInduction
<1>4. Len(s) \in S
  BY <1>3 DEF Lists
<1> QED
  BY <1>4 DEF S

\* Without keeps the other handlers as often as they were.
LEMMA WithoutFacts ==
  ASSUME NEW s \in Lists, NEW h
  PROVE  /\ Without(s, h) \in Lists
         /\ \A c : Times(Without(s, h), c) = IF c = h THEN 0 ELSE Times(s, c)
         /\ ToSet(Without(s, h)) = ToSet(s) \ {h}
<1>1. PICK f : Kept(s, h, Len(s), f) /\ Without(s, h) = f[Len(s)]
  <2>1. PICK g : g = CHOOSE f : Kept(s, h, Len(s), f)
    OBVIOUS
  <2>2. Kept(s, h, Len(s), g)
    BY <2>1, KeptExists
  <2>3. Without(s, h) = g[Len(s)]
    BY <2>1 DEF Without, Kept
  <2> QED
    BY <2>2, <2>3
<1> DEFINE Right(k) == /\ f[k] \in Lists
                       /\ \A c : Times(f[k], c) =
                            IF c = h THEN 0 ELSE Cardinality(Places(s, k, c))
           S == {k \in Nat : k <= Len(s) => Right(k)}
<1>2. Len(s) \in Nat /\ \A i \in 1 .. Len(s) : s[i] \in Handlers
  BY DEF Lists
<1>3. f[0] = <<>>
  BY <1>1, <1>2 DEF Kept
<1>4. 0 \in S
  <2>1. 0 \in 0 .. Len(s)
    BY <1>2
  <2>2. \A c : Cardinality(Places(s, 0, c)) = 0
    BY <2>1, PlacesFacts
  <2> QED
    BY <1>3, <2>2, EmptyFacts
<1>5. ASSUME NEW k \in Nat, k \in S
      PROVE  k + 1 \in S
  <2>1. SUFFICES ASSUME k + 1 <= Len(s) PROVE Right(k + 1)
    OBVIOUS
  <2>2. Right(k)
    BY <1>2, <1>5, <2>1
  <2>3. k + 1 \in 1 .. Len(s) /\ k + 1 \in 0 .. Len(s) /\ (k + 1) - 1 = k /\ k + 1 # 0
    BY <1>2, <2>1
  <2>4. f[k + 1] = IF s[k + 1] = h THEN f[k] ELSE Append(f[k], s[k + 1])
    BY <1>1, <2>3 DEF Kept
  <2>5. \A c : Cardinality(Places(s, k + 1, c)) =
          IF s[k + 1] = c THEN Cardinality(Places(s, k, c)) + 1
          ELSE Cardinality(Places(s, k, c))
    BY <2>3, PlacesStep
  <2>6. CASE s[k + 1] = h
    BY <2>2, <2>4, <2>5, <2>6
  <2>7. CASE s[k + 1] # h
    <3>1. s[k + 1] \in Handlers
      BY <1>2, <2>3
    <3>2. f[k + 1] \in Lists
      BY <2>2, <2>4, <2>7, <3>1, AppendFacts
    <3>3. \A c : Times(f[k + 1], c) =
            IF c = s[k + 1] THEN Times(f[k], c) + 1 ELSE Times(f[k], c)
      BY <2>2, <2>4, <2>7, <3>1, AppendFacts
    <3> QED
      BY <2>2, <2>5, <2>7, <3>2, <3>3
  <2> QED
    BY <2>6, <2>7
<1>6. Nat \subseteq S
  <2> HIDE DEF S
  <2> QED
    BY <1>4, <1>5, SetInduction
<1>7. Right(Len(s))
  BY <1>2, <1>6
<1>8. \A c : Times(s, c) = Cardinality(Places(s, Len(s), c))
  <2>1. Len(s) \in 0 .. Len(s)
    BY <1>2
  <2> QED
    BY <2>1, PlacesFacts
<1>9. Without(s, h) \in Lists /\ \A c : Times(Without(s, h), c) = IF c = h THEN 0 ELSE Times(s, c)
  BY <1>1, <1>7, <1>8
<1>10. ASSUME NEW c PROVE c \in ToSet(Without(s, h)) <=> c \in ToSet(s) \ {h}
  BY <1>9, TimesFacts
<1> QED
  BY <1>9, <1>10
-----------------------------------------------------------------------------
(***************************************************************************)
(* What can be reached, and what is below a handler or under an event.      *)
(***************************************************************************)
\* Reach has the objects it starts from, no edge leaves it, and it is the
\* smallest such set.
LEMMA ReachFacts ==
  ASSUME NEW S \in SUBSET Objects, NEW next \in [Objects -> SUBSET Objects]
  PROVE  /\ Reach(S, next) \in SUBSET Objects
         /\ S \subseteq Reach(S, next)
         /\ \A o \in Reach(S, next) : next[o] \subseteq Reach(S, next)
         /\ \A T \in SUBSET Objects :
              S \subseteq T /\ (\A o \in T : next[o] \subseteq T) => Reach(S, next) \subseteq T
<1>1. Reach(S, next) \in SUBSET Objects /\ S \subseteq Reach(S, next)
  BY DEF Reach
<1>2. \A T \in SUBSET Objects :
        S \subseteq T /\ Closed(T, next) => Reach(S, next) \subseteq T
  BY DEF Reach
<1>3. ASSUME NEW m \in Reach(S, next), NEW y \in next[m]
      PROVE  y \in Reach(S, next)
  <2>1. m \in Objects /\ y \in Objects
    BY <1>1
  <2>2. \A T \in SUBSET Objects : S \subseteq T /\ Closed(T, next) => y \in T
    BY <1>2 DEF Closed
  <2> QED
    BY <2>1, <2>2 DEF Reach
<1> QED
  BY <1>1, <1>2, <1>3 DEF Closed

\* Below a handler are itself and the children of those below it, and no others.
LEMMA BelowFacts ==
  ASSUME NEW C \in [Handlers -> Lists], NEW h \in Handlers
  PROVE  /\ Below(C, h) \in SUBSET Handlers
         /\ h \in Below(C, h)
         /\ \A m \in Below(C, h) : ToSet(C[m]) \subseteq Below(C, h)
         /\ \A T \in SUBSET Handlers :
              h \in T /\ (\A m \in T : ToSet(C[m]) \subseteq T) => Below(C, h) \subseteq T
<1> DEFINE next == [o \in Objects |-> IF o \in Handlers THEN ToSet(C[o]) ELSE {}]
<1>1. \A m \in Handlers : ToSet(C[m]) \subseteq Handlers
  BY DEF ToSet, Lists
<1>2. Handlers \subseteq Objects
  BY DEF Objects
<1>3. next \in [Objects -> SUBSET Objects] /\ \A m \in Handlers : next[m] = ToSet(C[m])
  BY <1>1, <1>2
<1>4. PICK S \in SUBSET Objects : S = {h}
  BY <1>2
<1>5. Below(C, h) = Reach(S, next)
  BY <1>4 DEF Below
<1> HIDE DEF next
<1>6. /\ Reach(S, next) \in SUBSET Objects
      /\ S \subseteq Reach(S, next)
      /\ \A o \in Reach(S, next) : next[o] \subseteq Reach(S, next)
      /\ \A T \in SUBSET Objects :
           S \subseteq T /\ (\A o \in T : next[o] \subseteq T) => Reach(S, next) \subseteq T
  BY <1>3, ReachFacts
<1>7. \A T \in SUBSET Handlers :
        h \in T /\ (\A m \in T : ToSet(C[m]) \subseteq T) => Below(C, h) \subseteq T
  <2>1. SUFFICES ASSUME NEW T \in SUBSET Handlers, h \in T, \A m \in T : ToSet(C[m]) \subseteq T
                 PROVE  Below(C, h) \subseteq T
    OBVIOUS
  <2>2. T \in SUBSET Objects /\ S \subseteq T /\ \A m \in T : next[m] \subseteq T
    BY <1>2, <1>3, <1>4, <2>1
  <2> QED
    BY <1>5, <1>6, <2>2
<1>8. Below(C, h) \subseteq Handlers
  BY <1>1, <1>7
<1>9. h \in Below(C, h)
  BY <1>4, <1>5, <1>6
<1>10. \A m \in Below(C, h) : ToSet(C[m]) \subseteq Below(C, h)
  BY <1>3, <1>5, <1>6, <1>8
<1> QED
  BY <1>7, <1>8, <1>9, <1>10

\* The handlers under an event.
Under(H, C, e) == UNION {Below(C, h) : h \in ToSet(H[e])}

LEMMA UnderFacts ==
  ASSUME NEW H \in [AllEvents -> Lists], NEW C \in [Handlers -> Lists], NEW e \in AllEvents
  PROVE  /\ Under(H, C, e) \in SUBSET Handlers
         /\ ToSet(H[e]) \subseteq Under(H, C, e)
         /\ \A m \in Under(H, C, e) : ToSet(C[m]) \subseteq Under(H, C, e)
         /\ \A T \in SUBSET Handlers :
              ToSet(H[e]) \subseteq T /\ (\A m \in T : ToSet(C[m]) \subseteq T) =>
                Under(H, C, e) \subseteq T
<1>1. ToSet(H[e]) \subseteq Handlers
  BY DEF ToSet, Lists
<1>2. \A h \in ToSet(H[e]) :
        /\ Below(C, h) \in SUBSET Handlers
        /\ h \in Below(C, h)
        /\ \A m \in Below(C, h) : ToSet(C[m]) \subseteq Below(C, h)
        /\ \A T \in SUBSET Handlers :
             h \in T /\ (\A m \in T : ToSet(C[m]) \subseteq T) => Below(C, h) \subseteq T
  BY <1>1, BelowFacts
<1>3. Under(H, C, e) \subseteq Handlers
  BY <1>2 DEF Under
<1>4. ToSet(H[e]) \subseteq Under(H, C, e)
  BY <1>2 DEF Under
<1>5. ASSUME NEW m \in Under(H, C, e)
      PROVE  ToSet(C[m]) \subseteq Under(H, C, e)
  <2>1. PICK h \in ToSet(H[e]) : m \in Below(C, h)
    BY DEF Under
  <2>2. ToSet(C[m]) \subseteq Below(C, h)
    BY <1>2, <2>1
  <2> QED
    BY <2>2 DEF Under
<1>6. ASSUME NEW T \in SUBSET Handlers, ToSet(H[e]) \subseteq T,
             \A m \in T : ToSet(C[m]) \subseteq T
      PROVE  Under(H, C, e) \subseteq T
  BY <1>2, <1>6 DEF Under
<1> QED
  BY <1>3, <1>4, <1>5, <1>6

\* The handlers under an event stay the same while its list does, and those of
\* the handlers under it afterwards.
LEMMA SameUnder ==
  ASSUME NEW H \in [AllEvents -> Lists], NEW C \in [Handlers -> Lists],
         NEW I \in [AllEvents -> Lists], NEW D \in [Handlers -> Lists],
         NEW e \in AllEvents, I[e] = H[e], \A h \in Under(I, D, e) : D[h] = C[h]
  PROVE  Under(I, D, e) = Under(H, C, e)
<1> DEFINE U == Under(H, C, e)
           V == Under(I, D, e)
           W == U \intersect V
<1>1. /\ U \in SUBSET Handlers
      /\ ToSet(H[e]) \subseteq U
      /\ \A m \in U : ToSet(C[m]) \subseteq U
      /\ \A T \in SUBSET Handlers :
           ToSet(H[e]) \subseteq T /\ (\A m \in T : ToSet(C[m]) \subseteq T) => U \subseteq T
  BY UnderFacts
<1>2. /\ V \in SUBSET Handlers
      /\ ToSet(I[e]) \subseteq V
      /\ \A m \in V : ToSet(D[m]) \subseteq V
      /\ \A T \in SUBSET Handlers :
           ToSet(I[e]) \subseteq T /\ (\A m \in T : ToSet(D[m]) \subseteq T) => V \subseteq T
  BY UnderFacts
<1>3. \A h \in V : D[h] = C[h]
  OBVIOUS
<1> HIDE DEF U, V
<1>4. U \subseteq V
  BY <1>1, <1>2, <1>3
<1>5. W \in SUBSET Handlers /\ ToSet(I[e]) \subseteq W /\ \A m \in W : ToSet(D[m]) \subseteq W
  BY <1>1, <1>2, <1>3
<1>6. V \subseteq W
  <2> HIDE DEF W
  <2> QED
    BY <1>2, <1>5
<1> QED
  BY <1>4, <1>6 DEF U, V
-----------------------------------------------------------------------------
(***************************************************************************)
(* The links and what is known of them.                                     *)
(***************************************************************************)
LinksTyped(H, E, C, P) ==
  /\ H \in [AllEvents -> Lists]
  /\ E \in [Handlers -> SUBSET AllEvents]
  /\ C \in [Handlers -> Lists]
  /\ P \in [Handlers -> [Handlers -> Nat]]

LinksExact(H, E, C, P) ==
  /\ \A h \in Handlers, e \in AllEvents : e \in E[h] <=> h \in ToSet(H[e])
  /\ \A h, p \in Handlers : P[h][p] = Times(C[p], h)

LinksGood == LinksTyped(handlers, events, children, parents)
             /\ LinksExact(handlers, events, children, parents)

LEMMA AppendHandlerLinks ==
  ASSUME LinksGood, NEW e \in AllEvents, NEW h \in Handlers, AppendEventHandler(e, h)
  PROVE  LinksGood'
<1>1. LinksTyped(handlers, events, children, parents)
  BY DEF LinksGood
<1>2. /\ handlers' = [handlers EXCEPT ![e] = Append(@, h)]
      /\ events' = [events EXCEPT ![h] = @ \union {e}]
      /\ children' = children /\ parents' = parents
  BY DEF AppendEventHandler
<1>3. /\ Append(handlers[e], h) \in Lists
      /\ ToSet(Append(handlers[e], h)) = ToSet(handlers[e]) \union {h}
  BY <1>1, AppendFacts DEF LinksTyped
<1>4. LinksTyped(handlers', events', children', parents')
  BY <1>1, <1>2, <1>3 DEF LinksTyped
<1>5. ASSUME NEW g \in Handlers, NEW d \in AllEvents
      PROVE  d \in events'[g] <=> g \in ToSet(handlers'[d])
  <2>1. d \in events[g] <=> g \in ToSet(handlers[d])
    BY DEF LinksGood, LinksExact
  <2>2. handlers'[d] = IF d = e THEN Append(handlers[e], h) ELSE handlers[d]
    BY <1>1, <1>2 DEF LinksTyped
  <2>3. events'[g] = IF g = h THEN events[g] \union {e} ELSE events[g]
    BY <1>1, <1>2 DEF LinksTyped
  <2> QED
    BY <1>3, <2>1, <2>2, <2>3
<1>6. LinksExact(handlers', events', children', parents')
  BY <1>2, <1>5 DEF LinksGood, LinksExact
<1> QED
  BY <1>4, <1>6 DEF LinksGood

LEMMA AppendChildLinks ==
  ASSUME LinksGood, NEW p \in Handlers, NEW h \in Handlers, AppendChildEventHandler(p, h)
  PROVE  LinksGood'
<1>1. LinksTyped(handlers, events, children, parents)
  BY DEF LinksGood
<1>2. /\ children' = [children EXCEPT ![p] = Append(@, h)]
      /\ parents' = [parents EXCEPT ![h][p] = @ + 1]
      /\ handlers' = handlers /\ events' = events
  BY DEF AppendChildEventHandler
<1>3. /\ Append(children[p], h) \in Lists
      /\ \A c : Times(Append(children[p], h), c) =
           IF c = h THEN Times(children[p], c) + 1 ELSE Times(children[p], c)
  BY <1>1, AppendFacts DEF LinksTyped
<1>4. LinksTyped(handlers', events', children', parents')
  BY <1>1, <1>2, <1>3 DEF LinksTyped
<1>5. ASSUME NEW g \in Handlers, NEW q \in Handlers
      PROVE  parents'[g][q] = Times(children'[q], g)
  <2>1. parents[g][q] = Times(children[q], g)
    BY DEF LinksGood, LinksExact
  <2>2. children'[q] = IF q = p THEN Append(children[p], h) ELSE children[q]
    BY <1>1, <1>2 DEF LinksTyped
  <2>3. parents'[g][q] = IF g = h /\ q = p THEN parents[g][q] + 1 ELSE parents[g][q]
    BY <1>1, <1>2 DEF LinksTyped
  <2> QED
    BY <1>3, <2>1, <2>2, <2>3
<1>6. LinksExact(handlers', events', children', parents')
  BY <1>2, <1>5 DEF LinksGood, LinksExact
<1> QED
  BY <1>4, <1>6 DEF LinksGood

\* What ParentRemoved leaves.
LEMMA ParentRemovedFacts ==
  ASSUME LinksGood, NEW p \in Handlers, NEW h \in Handlers
  PROVE  /\ ParentRemoved(parents, p, h) \in [Handlers -> [Handlers -> Nat]]
         /\ \A g, q \in Handlers : ParentRemoved(parents, p, h)[g][q] =
              IF g = h /\ q = p THEN 0 ELSE parents[g][q]
<1>1. parents \in [Handlers -> [Handlers -> Nat]] /\ children[p] \in Lists
  BY DEF LinksGood, LinksTyped
<1>2. parents[h][p] = Times(children[p], h) /\ Times(children[p], h) \in Nat
  BY <1>1, TimesFacts DEF LinksGood, LinksExact
<1>3. parents[h][p] - Times(children[p], h) = 0
  BY <1>2
<1> QED
  BY <1>1, <1>3 DEF ParentRemoved

LEMMA RemoveChildLinks ==
  ASSUME LinksGood, NEW p \in Handlers, NEW h \in Handlers, RemoveChildEventHandler(p, h)
  PROVE  LinksGood'
<1>1. LinksTyped(handlers, events, children, parents)
  BY DEF LinksGood
<1>2. /\ children' = [children EXCEPT ![p] = Without(@, h)]
      /\ parents' = ParentRemoved(parents, p, h)
      /\ handlers' = handlers /\ events' = events
  BY DEF RemoveChildEventHandler
<1>3. /\ Without(children[p], h) \in Lists
      /\ \A c : Times(Without(children[p], h), c) = IF c = h THEN 0 ELSE Times(children[p], c)
  BY <1>1, WithoutFacts DEF LinksTyped
<1>4. /\ parents' \in [Handlers -> [Handlers -> Nat]]
      /\ \A g, q \in Handlers : parents'[g][q] = IF g = h /\ q = p THEN 0 ELSE parents[g][q]
  BY <1>2, ParentRemovedFacts
<1>5. LinksTyped(handlers', events', children', parents')
  BY <1>1, <1>2, <1>3, <1>4 DEF LinksTyped
<1>6. ASSUME NEW g \in Handlers, NEW q \in Handlers
      PROVE  parents'[g][q] = Times(children'[q], g)
  <2>1. parents[g][q] = Times(children[q], g)
    BY DEF LinksGood, LinksExact
  <2>2. children'[q] = IF q = p THEN Without(children[p], h) ELSE children[q]
    BY <1>1, <1>2 DEF LinksTyped
  <2> QED
    BY <1>3, <1>4, <2>1, <2>2
<1>7. LinksExact(handlers', events', children', parents')
  BY <1>2, <1>6 DEF LinksGood, LinksExact
<1> QED
  BY <1>5, <1>7 DEF LinksGood

LEMMA DestroyEventLinks ==
  ASSUME LinksGood, NEW e \in AllEvents, DestroyEvent(e)
  PROVE  LinksGood'
<1>1. LinksTyped(handlers, events, children, parents)
  BY DEF LinksGood
<1>2. /\ handlers' = [handlers EXCEPT ![e] = <<>>]
      /\ events' = [h \in Handlers |-> events[h] \ {e}]
      /\ children' = children /\ parents' = parents
  BY DEF DestroyEvent
<1>3. LinksTyped(handlers', events', children', parents')
  BY <1>1, <1>2, EmptyFacts DEF LinksTyped
<1>4. ASSUME NEW g \in Handlers, NEW d \in AllEvents
      PROVE  d \in events'[g] <=> g \in ToSet(handlers'[d])
  <2>1. d \in events[g] <=> g \in ToSet(handlers[d])
    BY DEF LinksGood, LinksExact
  <2>2. handlers'[d] = IF d = e THEN <<>> ELSE handlers[d]
    BY <1>1, <1>2 DEF LinksTyped
  <2> QED
    BY <1>2, <2>1, <2>2, EmptyFacts
<1>5. LinksExact(handlers', events', children', parents')
  BY <1>2, <1>4 DEF LinksGood, LinksExact
<1> QED
  BY <1>3, <1>5 DEF LinksGood

LEMMA DestroyHandlerLinks ==
  ASSUME LinksGood, NEW h \in Handlers, DestroyEventHandler(h)
  PROVE  LinksGood'
<1>1. LinksTyped(handlers, events, children, parents)
  BY DEF LinksGood
<1>2. /\ handlers' = [e \in AllEvents |-> Without(handlers[e], h)]
      /\ events' = [events EXCEPT ![h] = {}]
      /\ children' = [p \in Handlers |-> IF p = h THEN <<>> ELSE Without(children[p], h)]
      /\ parents' = [c \in Handlers |-> [p \in Handlers |->
           IF c = h \/ p = h THEN 0 ELSE parents[c][p]]]
  BY DEF DestroyEventHandler
<1>3. \A s \in Lists : /\ Without(s, h) \in Lists
                       /\ ToSet(Without(s, h)) = ToSet(s) \ {h}
                       /\ \A c : Times(Without(s, h), c) = IF c = h THEN 0 ELSE Times(s, c)
  BY WithoutFacts
<1>4. LinksTyped(handlers', events', children', parents')
  <2>1. handlers' \in [AllEvents -> Lists]
    BY <1>1, <1>2, <1>3 DEF LinksTyped
  <2>2. events' \in [Handlers -> SUBSET AllEvents]
    BY <1>1, <1>2 DEF LinksTyped
  <2>3. children' \in [Handlers -> Lists]
    BY <1>1, <1>2, <1>3, EmptyFacts DEF LinksTyped
  <2>4. parents' \in [Handlers -> [Handlers -> Nat]]
    BY <1>1, <1>2 DEF LinksTyped
  <2> QED
    BY <2>1, <2>2, <2>3, <2>4 DEF LinksTyped
<1>5. ASSUME NEW g \in Handlers, NEW d \in AllEvents
      PROVE  d \in events'[g] <=> g \in ToSet(handlers'[d])
  <2>1. d \in events[g] <=> g \in ToSet(handlers[d])
    BY DEF LinksGood, LinksExact
  <2>2. ToSet(handlers'[d]) = ToSet(handlers[d]) \ {h}
    BY <1>1, <1>2, <1>3 DEF LinksTyped
  <2>3. events'[g] = IF g = h THEN {} ELSE events[g]
    BY <1>1, <1>2 DEF LinksTyped
  <2> QED
    BY <2>1, <2>2, <2>3
<1>6. ASSUME NEW g \in Handlers, NEW q \in Handlers
      PROVE  parents'[g][q] = Times(children'[q], g)
  <2>1. parents[g][q] = Times(children[q], g)
    BY DEF LinksGood, LinksExact
  <2>2. parents'[g][q] = IF g = h \/ q = h THEN 0 ELSE parents[g][q]
    BY <1>2
  <2>3. children'[q] = IF q = h THEN <<>> ELSE Without(children[q], h)
    BY <1>2
  <2>4. CASE q = h
    BY <2>2, <2>3, <2>4, EmptyFacts
  <2>5. CASE q # h
    <3>1. Times(children'[q], g) = IF g = h THEN 0 ELSE Times(children[q], g)
      BY <1>1, <1>3, <2>3, <2>5 DEF LinksTyped
    <3> QED
      BY <2>1, <2>2, <2>5, <3>1
  <2> QED
    BY <2>4, <2>5
<1>7. LinksExact(handlers', events', children', parents')
  BY <1>5, <1>6 DEF LinksExact
<1> QED
  BY <1>4, <1>7 DEF LinksGood
-----------------------------------------------------------------------------
(***************************************************************************)
(* The names that handlers give, and the users that nodes know of.          *)
(***************************************************************************)
Scopes == [Names -> Nodes \union {NoNode}]
Giving(s, m) == {name \in Names : s[name] = m}

NamesTyped(sc, U) == sc \in [Handlers -> Scopes] /\ U \in [Nodes -> [Handlers -> Nat]]
NamesExact(sc, U) ==
  \A m \in Nodes, h \in Handlers : U[m][h] = Cardinality(Giving(sc[h], m))
NamesGood == NamesTyped(scopes, users) /\ NamesExact(scopes, users)

LEMMA UsesFacts ==
  ASSUME NEW s \in Scopes, NEW m \in Nodes
  PROVE  /\ IsFiniteSet(Giving(s, m))
         /\ Cardinality(Giving(s, m)) \in Nat
         /\ Cardinality(Giving(s, m)) > 0 <=> \E name \in Names : s[name] = m
<1>1. IsFiniteSet(Giving(s, m))
  BY EventConstants, FS_Subset DEF Giving
<1>2. Cardinality(Giving(s, m)) \in Nat
  BY <1>1, FS_CardinalityType
<1>3. Cardinality(Giving(s, m)) = 0 <=> Giving(s, m) = {}
  BY <1>1, FS_EmptySet
<1>4. Giving(s, m) # {} <=> \E name \in Names : s[name] = m
  BY DEF Giving
<1> QED
  BY <1>1, <1>2, <1>3, <1>4

\* The users of m when name is given to other, or to none.
LEMMA UsesChanged ==
  ASSUME NEW s \in Scopes, NEW name \in Names, NEW other \in Nodes \union {NoNode},
         NEW m \in Nodes, s[name] # other
  PROVE  Cardinality(Giving([s EXCEPT ![name] = other], m)) =
           IF m = other THEN Cardinality(Giving(s, m)) + 1
           ELSE IF m = s[name] THEN Cardinality(Giving(s, m)) - 1
           ELSE Cardinality(Giving(s, m))
<1> DEFINE t == [s EXCEPT ![name] = other]
<1>1. IsFiniteSet(Giving(s, m))
  BY UsesFacts
<1>2. \A n \in Names : t[n] = IF n = name THEN other ELSE s[n]
  BY DEF Scopes
<1> HIDE DEF t
<1>3. CASE m = other
  <2>1. Giving(t, m) = Giving(s, m) \union {name} /\ name \notin Giving(s, m)
    BY <1>2, <1>3 DEF Giving
  <2>2. Cardinality(Giving(t, m)) = Cardinality(Giving(s, m)) + 1
    BY <1>1, <2>1, FS_AddElement
  <2> QED
    BY <1>3, <2>2 DEF t
<1>4. CASE m # other /\ m = s[name]
  <2>1. Giving(t, m) = Giving(s, m) \ {name} /\ name \in Giving(s, m)
    BY <1>2, <1>4 DEF Giving
  <2>2. Cardinality(Giving(t, m)) = Cardinality(Giving(s, m)) - 1
    BY <1>1, <2>1, FS_RemoveElement
  <2> QED
    BY <1>4, <2>2 DEF t
<1>5. CASE m # other /\ m # s[name]
  <2>1. Giving(t, m) = Giving(s, m)
    BY <1>2, <1>5 DEF Giving
  <2> QED
    BY <1>5, <2>1 DEF t
<1> QED
  BY <1>3, <1>4, <1>5

LEMMA UnusedFacts ==
  ASSUME NamesGood, NEW h \in Handlers, NEW old \in Nodes \union {NoNode},
         old # NoNode => \E name \in Names : scopes[h][name] = old
  PROVE  /\ Unused(users, old, h) \in [Nodes -> [Handlers -> Nat]]
         /\ \A m \in Nodes, g \in Handlers : Unused(users, old, h)[m][g] =
              IF m = old /\ g = h THEN users[m][g] - 1 ELSE users[m][g]
<1>1. users \in [Nodes -> [Handlers -> Nat]] /\ scopes[h] \in Scopes
  BY DEF NamesGood, NamesTyped
<1>2. NoNode \notin Nodes
  BY EventConstants DEF Containers
<1>3. CASE old = NoNode
  BY <1>1, <1>2, <1>3 DEF Unused
<1>4. CASE old # NoNode
  <2>1. old \in Nodes
    BY <1>4
  <2>2. users[old][h] = Cardinality(Giving(scopes[h], old))
    BY <2>1 DEF NamesGood, NamesExact
  <2>3. users[old][h] > 0 /\ users[old][h] \in Nat
    BY <1>1, <1>4, <2>1, <2>2, UsesFacts
  <2>4. users[old][h] - 1 \in Nat
    BY <2>3
  <2>5. Unused(users, old, h) = [users EXCEPT ![old][h] = @ - 1]
    BY <1>4 DEF Unused
  <2> QED
    BY <1>1, <2>1, <2>4, <2>5
<1> QED
  BY <1>3, <1>4

LEMMA SetScopeNames ==
  ASSUME NamesGood, NEW h \in Handlers, NEW name \in Names, NEW m \in Nodes,
         SetScope(h, name, m)
  PROVE  NamesGood'
<1> DEFINE old == scopes[h][name]
           U == Unused(users, old, h)
<1>1. scopes \in [Handlers -> Scopes] /\ users \in [Nodes -> [Handlers -> Nat]]
  BY DEF NamesGood, NamesTyped
<1>2. scopes[h] \in Scopes /\ old \in Nodes \union {NoNode}
  BY <1>1 DEF Scopes
<1>3. /\ scopes' = [scopes EXCEPT ![h][name] = m]
      /\ users' = [U EXCEPT ![m][h] = @ + 1]
      /\ old # m
  BY DEF SetScope
<1>4. /\ U \in [Nodes -> [Handlers -> Nat]]
      /\ \A n \in Nodes, g \in Handlers : U[n][g] =
           IF n = old /\ g = h THEN users[n][g] - 1 ELSE users[n][g]
  BY <1>2, UnusedFacts
<1>5. \A n \in Nodes : Cardinality(Giving([scopes[h] EXCEPT ![name] = m], n)) =
           IF n = m THEN Cardinality(Giving(scopes[h], n)) + 1
           ELSE IF n = old THEN Cardinality(Giving(scopes[h], n)) - 1
           ELSE Cardinality(Giving(scopes[h], n))
  BY <1>2, <1>3, UsesChanged
<1>6. [scopes[h] EXCEPT ![name] = m] \in Scopes
  BY <1>2 DEF Scopes
<1>7. scopes' = [scopes EXCEPT ![h] = [scopes[h] EXCEPT ![name] = m]]
  BY <1>3
<1> HIDE DEF U, old
<1>8. NamesTyped(scopes', users')
  BY <1>1, <1>3, <1>4, <1>6, <1>7 DEF NamesTyped
<1>9. ASSUME NEW n \in Nodes, NEW g \in Handlers
      PROVE  users'[n][g] = Cardinality(Giving(scopes'[g], n))
  <2>1. users[n][g] = Cardinality(Giving(scopes[g], n)) /\ users[n][g] \in Nat
    BY <1>1 DEF NamesGood, NamesExact
  <2>2. users'[n][g] = IF n = m /\ g = h THEN U[n][g] + 1 ELSE U[n][g]
    BY <1>3, <1>4
  <2>3. scopes'[g] = IF g = h THEN [scopes[h] EXCEPT ![name] = m] ELSE scopes[g]
    BY <1>1, <1>7
  <2>4. U[n][g] = IF n = old /\ g = h THEN users[n][g] - 1 ELSE users[n][g]
    BY <1>4
  <2>5. CASE g # h
    BY <2>1, <2>2, <2>3, <2>4, <2>5
  <2>6. CASE g = h
    <3>1. Cardinality(Giving(scopes'[g], n)) =
            IF n = m THEN users[n][g] + 1 ELSE IF n = old THEN users[n][g] - 1 ELSE users[n][g]
      BY <1>5, <2>1, <2>3, <2>6
    <3> QED
      BY <1>3, <2>1, <2>2, <2>4, <2>6, <3>1
  <2> QED
    BY <2>5, <2>6
<1> QED
  BY <1>8, <1>9 DEF NamesGood, NamesExact

LEMMA RemoveScopeNames ==
  ASSUME NamesGood, NEW h \in Handlers, NEW name \in Names, RemoveScope(h, name)
  PROVE  NamesGood'
<1> DEFINE old == scopes[h][name]
<1>1. scopes \in [Handlers -> Scopes] /\ users \in [Nodes -> [Handlers -> Nat]]
  BY DEF NamesGood, NamesTyped
<1>2. scopes[h] \in Scopes /\ old \in Nodes \union {NoNode} /\ NoNode \notin Nodes
  BY <1>1, EventConstants DEF Scopes, Containers
<1>3. /\ scopes' = [scopes EXCEPT ![h][name] = NoNode]
      /\ users' = Unused(users, old, h)
      /\ old # NoNode
  BY DEF RemoveScope
<1>4. /\ users' \in [Nodes -> [Handlers -> Nat]]
      /\ \A n \in Nodes, g \in Handlers : users'[n][g] =
           IF n = old /\ g = h THEN users[n][g] - 1 ELSE users[n][g]
  <2>1. /\ Unused(users, old, h) \in [Nodes -> [Handlers -> Nat]]
        /\ \A n \in Nodes, g \in Handlers : Unused(users, old, h)[n][g] =
             IF n = old /\ g = h THEN users[n][g] - 1 ELSE users[n][g]
    BY <1>2, UnusedFacts
  <2> QED
    BY <1>3, <2>1
<1>5. \A n \in Nodes : Cardinality(Giving([scopes[h] EXCEPT ![name] = NoNode], n)) =
           IF n = old THEN Cardinality(Giving(scopes[h], n)) - 1
           ELSE Cardinality(Giving(scopes[h], n))
  BY <1>2, <1>3, UsesChanged
<1>6. [scopes[h] EXCEPT ![name] = NoNode] \in Scopes
  BY <1>2 DEF Scopes
<1>7. scopes' = [scopes EXCEPT ![h] = [scopes[h] EXCEPT ![name] = NoNode]]
  BY <1>3
<1> HIDE DEF old
<1>8. NamesTyped(scopes', users')
  BY <1>1, <1>4, <1>6, <1>7 DEF NamesTyped
<1>9. ASSUME NEW n \in Nodes, NEW g \in Handlers
      PROVE  users'[n][g] = Cardinality(Giving(scopes'[g], n))
  <2>1. users[n][g] = Cardinality(Giving(scopes[g], n))
    BY DEF NamesGood, NamesExact
  <2>2. scopes'[g] = IF g = h THEN [scopes[h] EXCEPT ![name] = NoNode] ELSE scopes[g]
    BY <1>1, <1>7
  <2> QED
    BY <1>4, <1>5, <2>1, <2>2
<1> QED
  BY <1>8, <1>9 DEF NamesGood, NamesExact

LEMMA DestroyNodeNames ==
  ASSUME NamesGood, NEW m \in Nodes, DestroyNode(m)
  PROVE  NamesGood'
<1>1. scopes \in [Handlers -> Scopes] /\ users \in [Nodes -> [Handlers -> Nat]]
  BY DEF NamesGood, NamesTyped
<1>2. /\ scopes' = [h \in Handlers |->
           [name \in Names |-> IF scopes[h][name] = m THEN NoNode ELSE scopes[h][name]]]
      /\ users' = [users EXCEPT ![m] = [h \in Handlers |-> 0]]
  BY DEF DestroyNode
<1>3. NoNode \notin Nodes
  BY EventConstants DEF Containers
<1>4. scopes' \in [Handlers -> Scopes]
  BY <1>1, <1>2 DEF Scopes
<1>5. users' \in [Nodes -> [Handlers -> Nat]]
  BY <1>1, <1>2
<1>6. ASSUME NEW n \in Nodes, NEW g \in Handlers
      PROVE  users'[n][g] = Cardinality(Giving(scopes'[g], n))
  <2>1. users[n][g] = Cardinality(Giving(scopes[g], n))
    BY DEF NamesGood, NamesExact
  <2>2. \A name \in Names : scopes'[g][name] = IF scopes[g][name] = m THEN NoNode ELSE scopes[g][name]
    BY <1>2
  <2>3. CASE n = m
    <3>1. Giving(scopes'[g], n) = {}
      BY <1>3, <2>2, <2>3 DEF Giving
    <3>2. users'[n][g] = 0
      BY <1>1, <1>2, <2>3
    <3> QED
      BY <3>1, <3>2, FS_EmptySet
  <2>4. CASE n # m
    <3>1. Giving(scopes'[g], n) = Giving(scopes[g], n)
      BY <1>3, <2>2, <2>4 DEF Giving
    <3>2. users'[n][g] = users[n][g]
      BY <1>1, <1>2, <2>4
    <3> QED
      BY <2>1, <3>1, <3>2
  <2> QED
    BY <2>3, <2>4
<1> QED
  BY <1>4, <1>5, <1>6 DEF NamesGood, NamesTyped, NamesExact

LEMMA DestroyHandlerNames ==
  ASSUME NamesGood, NEW h \in Handlers, DestroyEventHandler(h)
  PROVE  NamesGood'
<1>1. scopes \in [Handlers -> Scopes] /\ users \in [Nodes -> [Handlers -> Nat]]
  BY DEF NamesGood, NamesTyped
<1>2. /\ scopes' = [scopes EXCEPT ![h] = [name \in Names |-> NoNode]]
      /\ users' = [m \in Nodes |-> [users[m] EXCEPT ![h] = 0]]
  BY DEF DestroyEventHandler
<1>3. NoNode \notin Nodes
  BY EventConstants DEF Containers
<1>4. scopes' \in [Handlers -> Scopes]
  BY <1>1, <1>2 DEF Scopes
<1>5. users' \in [Nodes -> [Handlers -> Nat]]
  BY <1>1, <1>2
<1>6. ASSUME NEW n \in Nodes, NEW g \in Handlers
      PROVE  users'[n][g] = Cardinality(Giving(scopes'[g], n))
  <2>1. users[n][g] = Cardinality(Giving(scopes[g], n))
    BY DEF NamesGood, NamesExact
  <2>2. users'[n][g] = IF g = h THEN 0 ELSE users[n][g]
    BY <1>1, <1>2
  <2>3. CASE g = h
    <3>1. Giving(scopes'[g], n) = {}
      BY <1>1, <1>2, <1>3, <2>3 DEF Giving
    <3> QED
      BY <2>2, <2>3, <3>1, FS_EmptySet
  <2>4. CASE g # h
    BY <1>1, <1>2, <2>1, <2>2, <2>4
  <2> QED
    BY <2>3, <2>4
<1> QED
  BY <1>4, <1>5, <1>6 DEF NamesGood, NamesTyped, NamesExact
-----------------------------------------------------------------------------
(***************************************************************************)
(* No handler is below itself, so that handlers can be taken lowest first.  *)
(***************************************************************************)
Acyclic(C) == \A p \in Handlers : \A h \in ToSet(C[p]) : p \notin Below(C, h)

LEMMA HandlersFinite == IsFiniteSet(Handlers) /\ Handlers \subseteq Objects
BY EventConstants, FS_Subset DEF Objects

\* Below a child is less than below its parent.
LEMMA ChildBelow ==
  ASSUME NEW C \in [Handlers -> Lists], Acyclic(C), NEW p \in Handlers, NEW h \in ToSet(C[p])
  PROVE  h \in Handlers /\ Below(C, h) \subseteq Below(C, p) /\ Below(C, h) # Below(C, p)
<1>1. h \in Handlers
  BY DEF ToSet, Lists
<1>2. Below(C, p) \in SUBSET Handlers /\ p \in Below(C, p) /\ h \in Below(C, p)
      /\ \A m \in Below(C, p) : ToSet(C[m]) \subseteq Below(C, p)
  BY BelowFacts
<1>3. Below(C, h) \subseteq Below(C, p)
  BY <1>1, <1>2, BelowFacts
<1>4. p \notin Below(C, h)
  BY DEF Acyclic
<1> QED
  BY <1>1, <1>2, <1>3, <1>4

\* Among any handlers there is one that has no child among them.
LEMMA LowestHandler ==
  ASSUME NEW C \in [Handlers -> Lists], Acyclic(C), NEW W \in SUBSET Handlers, W # {}
  PROVE  \E h \in W : ToSet(C[h]) \intersect W = {}
<1> DEFINE T == {Below(C, h) : h \in W}
           R == StrictSubsetOrdering(Handlers)
<1>1. IsWellFoundedOn(R, SUBSET Handlers)
  BY HandlersFinite, FS_StrictSubsetOrderingWellFounded, FS_FiniteSubsetsOfFinite
<1>2. T \subseteq SUBSET Handlers /\ T # {}
  BY BelowFacts
<1>3. PICK m \in T : \A e \in T : <<e, m>> \notin R
  <2> HIDE DEF T, R
  <2> QED
    BY <1>1, <1>2, WFMin
<1>4. PICK h \in W : m = Below(C, h)
  OBVIOUS
<1>5. ASSUME NEW c \in ToSet(C[h]), c \in W
      PROVE  FALSE
  <2>1. Below(C, c) \subseteq Below(C, h) /\ Below(C, c) # Below(C, h)
    BY ChildBelow
  <2>2. Below(C, c) \in T /\ Below(C, h) \in SUBSET Handlers
    BY <1>2, <1>4, <1>5
  <2>3. <<Below(C, c), Below(C, h)>> \in R
    BY <2>1, <2>2 DEF StrictSubsetOrdering
  <2> QED
    BY <1>3, <1>4, <2>2, <2>3
<1> QED
  BY <1>5

\* Sets of handlers with all their children, built up one handler at a time,
\* come to be all handlers.
LEMMA LowestFirst ==
  ASSUME NEW C \in [Handlers -> Lists], Acyclic(C), NEW K \in SUBSET SUBSET Handlers,
         {} \in K,
         \A D \in K, h \in Handlers : h \notin D /\ ToSet(C[h]) \subseteq D => D \union {h} \in K
  PROVE  Handlers \in K
<1> DEFINE T == {Handlers \ D : D \in K}
           R == StrictSubsetOrdering(Handlers)
<1>1. IsWellFoundedOn(R, SUBSET Handlers)
  BY HandlersFinite, FS_StrictSubsetOrderingWellFounded, FS_FiniteSubsetsOfFinite
<1>2. T \subseteq SUBSET Handlers /\ T # {}
  <2>1. Handlers \ {} \in T
    OBVIOUS
  <2> QED
    BY <2>1
<1>3. PICK m \in T : \A e \in T : <<e, m>> \notin R
  <2> HIDE DEF T, R
  <2> QED
    BY <1>1, <1>2, WFMin
<1>4. PICK D \in K : m = Handlers \ D
  OBVIOUS
<1>5. CASE m = {}
  <2>1. D = Handlers
    BY <1>4, <1>5
  <2> QED
    BY <2>1
<1>6. CASE m # {}
  <2>1. m \in SUBSET Handlers
    BY <1>2
  <2>2. PICK h \in m : ToSet(C[h]) \intersect m = {}
    BY <1>6, <2>1, LowestHandler
  <2>3. h \in Handlers /\ ToSet(C[h]) \subseteq Handlers
    BY <2>1 DEF ToSet, Lists
  <2>4. h \notin D /\ ToSet(C[h]) \subseteq D
    BY <1>4, <2>2, <2>3
  <2>5. D \union {h} \in K
    BY <2>3, <2>4
  <2>6. Handlers \ (D \union {h}) \in T
    BY <2>5
  <2>7. <<Handlers \ (D \union {h}), m>> \in R
    BY <1>4, <2>3, <2>4 DEF StrictSubsetOrdering
  <2> QED
    BY <1>3, <2>6, <2>7
<1> QED
  BY <1>5, <1>6

\* With fewer children, no handler comes to be below itself.
LEMMA FewerChildren ==
  ASSUME NEW C \in [Handlers -> Lists], NEW D \in [Handlers -> Lists], Acyclic(C),
         \A p \in Handlers : ToSet(D[p]) \subseteq ToSet(C[p])
  PROVE  Acyclic(D)
<1>1. \A h \in Handlers : Below(D, h) \subseteq Below(C, h)
  <2>1. SUFFICES ASSUME NEW h \in Handlers PROVE Below(D, h) \subseteq Below(C, h)
    OBVIOUS
  <2>2. Below(C, h) \in SUBSET Handlers /\ h \in Below(C, h)
        /\ \A m \in Below(C, h) : ToSet(D[m]) \subseteq Below(C, h)
    BY BelowFacts
  <2> QED
    BY <2>2, BelowFacts
<1>2. \A p \in Handlers : ToSet(D[p]) \subseteq Handlers
  BY DEF ToSet, Lists
<1> QED
  BY <1>1, <1>2 DEF Acyclic

\* Nor with a child that it was not below.
LEMMA OneMoreChild ==
  ASSUME NEW C \in [Handlers -> Lists], NEW D \in [Handlers -> Lists], Acyclic(C),
         NEW p \in Handlers, NEW h \in Handlers, p \notin Below(C, h),
         \A q \in Handlers : ToSet(D[q]) \subseteq
           IF q = p THEN ToSet(C[q]) \union {h} ELSE ToSet(C[q])
  PROVE  Acyclic(D)
<1> DEFINE T(x) == Below(C, x) \union (IF p \in Below(C, x) THEN Below(C, h) ELSE {})
<1>1. \A x \in Handlers : /\ Below(C, x) \in SUBSET Handlers
                          /\ x \in Below(C, x)
                          /\ \A m \in Below(C, x) : ToSet(C[m]) \subseteq Below(C, x)
  BY BelowFacts
<1>2. ASSUME NEW x \in Handlers
      PROVE  Below(D, x) \subseteq T(x)
  <2>1. T(x) \in SUBSET Handlers /\ x \in T(x)
    BY <1>1
  <2>2. ASSUME NEW m \in T(x) PROVE ToSet(D[m]) \subseteq T(x)
    <3>1. m \in Handlers
      BY <2>1
    <3>2. CASE m \in Below(C, x) /\ m # p
      BY <1>1, <3>1, <3>2
    <3>3. CASE m = p
      <4>1. p \in Below(C, x)
        BY <2>2, <3>3
      <4> QED
        BY <1>1, <3>3, <4>1
    <3>4. CASE m \in Below(C, h) /\ m # p /\ p \in Below(C, x)
      BY <1>1, <3>1, <3>4
    <3> QED
      BY <2>2, <3>2, <3>3, <3>4
  <2> HIDE DEF T
  <2> QED
    BY <2>1, <2>2, BelowFacts
<1>3. ASSUME NEW q \in Handlers, NEW c \in ToSet(D[q]), q \in Below(D, c)
      PROVE  FALSE
  <2>1. c \in Handlers
    BY DEF ToSet, Lists
  <2>2. q \in T(c)
    BY <1>2, <1>3, <2>1
  <2>3. CASE c \in ToSet(C[q])
    <3>1. q \notin Below(C, c) /\ Below(C, c) \subseteq Below(C, q)
      BY <2>3, ChildBelow DEF Acyclic
    <3>2. p \in Below(C, c) /\ q \in Below(C, h)
      BY <2>2, <3>1
    <3>3. Below(C, q) \subseteq Below(C, h)
      BY <1>1, <3>2, BelowFacts
    <3> QED
      BY <3>1, <3>2, <3>3
  <2>4. CASE q = p /\ c = h
    BY <2>2, <2>4
  <2> QED
    BY <2>3, <2>4
<1> QED
  BY <1>3 DEF Acyclic
-----------------------------------------------------------------------------
(***************************************************************************)
(* How far marks go: from a handler to all that run it.                     *)
(***************************************************************************)
Up(E, P, h) == E[h] \union {p \in Handlers : P[h][p] > 0}
ReachUp(M, E, P) == \A h \in Handlers : h \in M => Up(E, P, h) \subseteq M

\* What is under an event that is not marked is not marked either, and does not
\* have what is gone.
LEMMA UnmarkedUnder ==
  ASSUME NEW H, NEW E, NEW C, NEW P, LinksTyped(H, E, C, P), LinksExact(H, E, C, P),
         NEW M, ReachUp(M, E, P), NEW gone, \A h \in Handlers \intersect gone : Up(E, P, h) = {},
         NEW e \in AllEvents, e \notin M
  PROVE  \A h \in Under(H, C, e) : h \in Handlers /\ h \notin M /\ h \notin gone
<1> DEFINE T == {h \in Handlers : h \notin M /\ h \notin gone}
<1>1. H \in [AllEvents -> Lists] /\ C \in [Handlers -> Lists]
  BY DEF LinksTyped
<1>2. ASSUME NEW h \in ToSet(H[e]) PROVE h \in T
  <2>1. h \in Handlers
    BY <1>1 DEF ToSet, Lists
  <2>2. e \in Up(E, P, h)
    BY <1>2, <2>1 DEF LinksExact, Up
  <2> QED
    BY <2>1, <2>2 DEF ReachUp
<1>3. ASSUME NEW m \in T, NEW h \in ToSet(C[m]) PROVE h \in T
  <2>1. h \in Handlers /\ m \in Handlers
    BY <1>1 DEF ToSet, Lists
  <2>2. P[h][m] = Times(C[m], h)
    BY <2>1 DEF LinksExact
  <2>3. Times(C[m], h) > 0
    BY <1>1, <1>3, <2>1, TimesFacts
  <2>4. m \in Up(E, P, h)
    BY <2>1, <2>2, <2>3 DEF Up
  <2> QED
    BY <1>3, <2>1, <2>4 DEF ReachUp
<1>4. T \in SUBSET Handlers
  OBVIOUS
<1>5. Under(H, C, e) \subseteq T
  <2> HIDE DEF T
  <2> QED
    BY <1>1, <1>2, <1>3, <1>4, UnderFacts
<1> QED
  BY <1>5

LEMMA MarksFacts ==
  ASSUME NEW H, NEW E, NEW C, NEW P, LinksTyped(H, E, C, P)
  PROVE  /\ Marks(H, E, C, P) \in [Objects -> SUBSET Objects]
         /\ \A h \in Handlers : Up(E, P, h) \subseteq Marks(H, E, C, P)[h]
<1>1. \A h \in Handlers : h \in Objects /\ h \notin AllEvents
  BY EventConstants DEF Objects
<1>2. ASSUME NEW o \in Objects PROVE Marks(H, E, C, P)[o] \in SUBSET Objects
  <2>1. CASE o \in AllEvents
    <3>1. ToSet(H[o]) \subseteq Handlers
      BY <2>1 DEF LinksTyped, ToSet, Lists
    <3> QED
      BY <2>1, <3>1 DEF Marks, Objects
  <2>2. CASE o \notin AllEvents
    <3>1. o \in Handlers
      BY <2>2 DEF Objects
    <3>2. ToSet(C[o]) \subseteq Handlers /\ E[o] \subseteq AllEvents
      BY <3>1 DEF LinksTyped, ToSet, Lists
    <3> QED
      BY <2>2, <3>2 DEF Marks, Objects
  <2> QED
    BY <2>1, <2>2
<1>3. Marks(H, E, C, P) \in [Objects -> SUBSET Objects]
  BY <1>2 DEF Marks
<1>4. \A h \in Handlers : Up(E, P, h) \subseteq Marks(H, E, C, P)[h]
  BY <1>1 DEF Marks, Up
<1> QED
  BY <1>3, <1>4

\* Marks spread from what is marked anew, and not from what was marked before.
LEMMA RecompiledFacts ==
  ASSUME NEW M \in SUBSET Objects, NEW next \in [Objects -> SUBSET Objects],
         NEW S \in SUBSET Objects
  PROVE  /\ Recompiled(M, next, S) \in SUBSET Objects
         /\ M \union S \subseteq Recompiled(M, next, S)
         /\ \A o \in Recompiled(M, next, S) \ M : next[o] \subseteq Recompiled(M, next, S)
<1> DEFINE rest == [o \in Objects |-> next[o] \ M]
<1>1. rest \in [Objects -> SUBSET Objects] /\ S \ M \in SUBSET Objects
  OBVIOUS
<1>2. PICK N \in SUBSET Objects : N = S \ M
  BY <1>1
<1>3. Recompiled(M, next, S) = M \union Reach(N, rest)
  BY <1>2 DEF Recompiled
<1>4. /\ Reach(N, rest) \in SUBSET Objects
      /\ N \subseteq Reach(N, rest)
      /\ \A o \in Reach(N, rest) : rest[o] \subseteq Reach(N, rest)
  <2> HIDE DEF rest
  <2> QED
    BY <1>1, ReachFacts
<1>5. \A o \in Reach(N, rest) : next[o] \ M \subseteq Reach(N, rest)
  BY <1>4
<1> HIDE DEF rest
<1> QED
  BY <1>2, <1>3, <1>4, <1>5

LEMMA MarkedUp ==
  ASSUME NEW H, NEW E, NEW C, NEW P, LinksTyped(H, E, C, P),
         NEW M \in SUBSET Objects, NEW S \in SUBSET Objects, NEW gone,
         \A h \in Handlers : h \in M => Up(E, P, h) \subseteq M \union S,
         \A h \in Handlers : h \notin gone => Up(E, P, h) \intersect gone = {}
  PROVE  LET R == Recompiled(M, Marks(H, E, C, P), S)
         IN  R \in SUBSET Objects /\ M \union S \subseteq R /\ ReachUp(R \ gone, E, P)
<1> DEFINE next == Marks(H, E, C, P)
           R == Recompiled(M, next, S)
<1>1. next \in [Objects -> SUBSET Objects] /\ \A h \in Handlers : Up(E, P, h) \subseteq next[h]
  BY MarksFacts
<1>2. /\ R \in SUBSET Objects
      /\ M \union S \subseteq R
      /\ \A o \in R \ M : next[o] \subseteq R
  <2> HIDE DEF next
  <2> QED
    BY <1>1, RecompiledFacts
<1>3. ASSUME NEW h \in Handlers, h \in R PROVE Up(E, P, h) \subseteq R
  <2> HIDE DEF next, R
  <2>1. CASE h \in M
    BY <1>2, <2>1
  <2>2. CASE h \notin M
    BY <1>1, <1>2, <1>3, <2>2
  <2> QED
    BY <2>1, <2>2
<1> HIDE DEF next
<1>4. ReachUp(R \ gone, E, P)
  <2> HIDE DEF R
  <2> QED
    BY <1>3 DEF ReachUp
<1> QED
  BY <1>2, <1>4 DEF next
-----------------------------------------------------------------------------
(***************************************************************************)
(* What an edit leaves alone.                                               *)
(***************************************************************************)
RestTyped ==
  /\ scopeName \in [Handlers -> Names \union {NoName}]
  /\ bindings \in [Handlers -> [Phases -> SUBSET Names]]
  /\ selector \in [Handlers -> Names \union {NoName}]
  /\ selects \in SUBSET AllEvents
  /\ broken \in SUBSET Nodes
  /\ dirty \in SUBSET Nodes
  /\ errors \in SUBSET Objects
  /\ marked \in SUBSET Objects
  /\ can \in [Objects -> {"null", "can", "cannot"}]
  /\ stream \in [AllEvents -> SUBSET Nodes]
  /\ tasks \in [AllEvents -> Seq(Task)]
  /\ stale \in SUBSET AllEvents

LEMMA TypesTogether == TypeOK <=> /\ LinksTyped(handlers, events, children, parents)
                                  /\ NamesTyped(scopes, users)
                                  /\ RestTyped
BY DEF TypeOK, LinksTyped, NamesTyped, RestTyped, Scopes, Lists

\* The marks of an edit reach up, and what they reach starts anew; gone are the
\* objects destroyed.
MarksMade(gone) ==
  /\ marked' \in SUBSET Objects
  /\ marked' \intersect gone = {}
  /\ marked \subseteq marked' \union gone
  /\ ReachUp(marked', events', parents')
  /\ \A o \in Objects : can'[o] = IF o \in marked' \union gone THEN "null" ELSE can[o]
  /\ \A e \in AllEvents \ (marked' \union gone) : stream'[e] = stream[e] /\ tasks'[e] = tasks[e]

AnswersTyped ==
  /\ marked \in SUBSET Objects
  /\ can \in [Objects -> {"null", "can", "cannot"}]
  /\ stream \in [AllEvents -> SUBSET Nodes]
  /\ tasks \in [AllEvents -> Seq(Task)]
  /\ stale \in SUBSET AllEvents

LEMMA MarkedFromFacts ==
  ASSUME RestTyped, LinksGood', NEW M \in SUBSET Objects, NEW S \in SUBSET Objects, NEW gone,
         MarkedFrom(M, S, gone), marked \subseteq M \union gone,
         \A h \in Handlers : h \in M => Up(events', parents', h) \subseteq M \union S,
         \A h \in Handlers : h \notin gone => Up(events', parents', h) \intersect gone = {}
  PROVE  MarksMade(gone) /\ AnswersTyped' /\ (M \union S) \ gone \subseteq marked'
<1> DEFINE R == Recompiled(M, Marks(handlers', events', children', parents'), S)
<1>1. LinksTyped(handlers', events', children', parents')
  BY DEF LinksGood
<1>2. R \in SUBSET Objects /\ M \union S \subseteq R /\ ReachUp(R \ gone, events', parents')
  BY <1>1, MarkedUp
<1>3. marked' = R \ gone
  BY DEF MarkedFrom
<1> HIDE DEF R
<1>4. /\ can' = [o \in Objects |-> IF o \in marked' \union gone THEN "null" ELSE can[o]]
      /\ stream' = [e \in AllEvents |-> IF e \in marked' \union gone THEN {} ELSE stream[e]]
      /\ tasks' = [e \in AllEvents |-> IF e \in marked' \union gone THEN <<>> ELSE tasks[e]]
      /\ stale' = stale \ (marked' \union gone)
  BY DEF MarkedFrom
<1>5. MarksMade(gone)
  <2>1. marked' \in SUBSET Objects /\ marked' \intersect gone = {}
        /\ marked \subseteq marked' \union gone
    BY <1>2, <1>3
  <2>2. ReachUp(marked', events', parents')
    BY <1>2, <1>3
  <2>3. \A o \in Objects : can'[o] = IF o \in marked' \union gone THEN "null" ELSE can[o]
    BY <1>4
  <2>4. \A e \in AllEvents \ (marked' \union gone) : stream'[e] = stream[e] /\ tasks'[e] = tasks[e]
    BY <1>4
  <2> QED
    BY <2>1, <2>2, <2>3, <2>4 DEF MarksMade
<1>6. AnswersTyped'
  <2>1. can' \in [Objects -> {"null", "can", "cannot"}]
    BY <1>4 DEF RestTyped
  <2>2. stream' \in [AllEvents -> SUBSET Nodes]
    BY <1>4 DEF RestTyped
  <2>3. tasks' \in [AllEvents -> Seq(Task)]
    <3>1. <<>> \in Seq(Task)
      OBVIOUS
    <3> QED
      BY <1>4, <3>1 DEF RestTyped
  <2>4. stale' \in SUBSET AllEvents
    BY <1>4 DEF RestTyped
  <2> QED
    BY <1>2, <1>3, <2>1, <2>2, <2>3, <2>4 DEF AnswersTyped
<1> QED
  BY <1>2, <1>3, <1>5, <1>6

\* An object that the edit does not reach is what it was.
SameHandler(h) ==
  /\ children'[h] = children[h]
  /\ scopes'[h] = scopes[h]
  /\ scopeName'[h] = scopeName[h]
  /\ bindings'[h] = bindings[h]
  /\ selector'[h] = selector[h]
  /\ \A name \in Names : scopes[h][name] \in broken' <=> scopes[h][name] \in broken
SameEvent(e) == handlers'[e] = handlers[e] /\ (e \in selects' <=> e \in selects)

Elsewhere(gone) ==
  /\ \A h \in Handlers \ (marked' \union gone) : SameHandler(h)
  /\ \A e \in AllEvents \ (marked' \union gone) : SameEvent(e)
  /\ \A o \in Objects \ (marked' \union gone) : o \in errors' <=> o \in errors

Gone(gone) ==
  /\ \A h \in Handlers \intersect gone :
       h \notin errors' /\ selector'[h] = NoName /\ Up(events', parents', h) = {}
  /\ \A e \in AllEvents \intersect gone : e \notin errors' /\ handlers'[e] = <<>>

EditOf(gone) ==
  /\ LinksGood' /\ NamesGood' /\ RestTyped' /\ Acyclic(children')
  /\ MarksMade(gone)
  /\ Elsewhere(gone)
  /\ Gone(gone)

LinksInv == LinksGood /\ NamesGood /\ RestTyped /\ Acyclic(children) /\ ReachUp(marked, events, parents)

\* An edit of one object, with what it refers to.
LEMMA EditedFacts ==
  ASSUME LinksInv, LinksGood', NamesGood', Acyclic(children'), NEW o \in Objects, Edited(o),
         \A h \in Handlers : h # o => SameHandler(h),
         \A e \in AllEvents : e # o => SameEvent(e),
         \A h \in Handlers : Up(events', parents', h) \subseteq Up(events, parents, h) \union {o},
         scopeName' \in [Handlers -> Names \union {NoName}],
         bindings' \in [Handlers -> [Phases -> SUBSET Names]],
         selector' \in [Handlers -> Names \union {NoName}],
         selects' \in SUBSET AllEvents
  PROVE  EditOf({})
<1>1. RestTyped /\ ReachUp(marked, events, parents)
  BY DEF LinksInv
<1>2. MarkedFrom(marked, {o}, {}) /\ broken' = broken /\ dirty' = dirty /\ errors' = errors
  BY DEF Edited
<1>3. PICK S \in SUBSET Objects : S = {o}
  OBVIOUS
<1>4. PICK gone : gone = {}
  OBVIOUS
<1>5. marked \in SUBSET Objects
  BY <1>1 DEF RestTyped
<1>6. \A h \in Handlers : h \in marked => Up(events', parents', h) \subseteq marked \union S
  BY <1>1, <1>3 DEF ReachUp
<1>7. \A h \in Handlers : h \notin gone => Up(events', parents', h) \intersect gone = {}
  BY <1>4
<1>8. MarkedFrom(marked, S, gone) /\ marked \subseteq marked \union gone
  BY <1>2, <1>3, <1>4
<1>9. MarksMade(gone) /\ AnswersTyped' /\ (marked \union S) \ gone \subseteq marked'
  BY <1>1, <1>5, <1>6, <1>7, <1>8, MarkedFromFacts
<1>10. o \in marked'
  BY <1>3, <1>4, <1>9
<1>11. Elsewhere({})
  BY <1>2, <1>10 DEF Elsewhere
<1>12. Gone({})
  BY DEF Gone
<1>13. RestTyped'
  BY <1>1, <1>2, <1>9 DEF RestTyped, AnswersTyped
<1> QED
  BY <1>4, <1>9, <1>11, <1>12, <1>13 DEF EditOf
-----------------------------------------------------------------------------
(***************************************************************************)
(* Edits of one object.                                                     *)
(***************************************************************************)
LEMMA NoLinkChange ==
  ASSUME LinksInv, UNCHANGED links
  PROVE  LinksGood' /\ Acyclic(children')
         /\ \A h \in Handlers : Up(events', parents', h) = Up(events, parents, h)
<1>1. handlers' = handlers /\ events' = events /\ children' = children /\ parents' = parents
  BY DEF links
<1>2. LinksGood /\ Acyclic(children)
  BY DEF LinksInv
<1> QED
  BY <1>1, <1>2 DEF LinksGood

LEMMA NoNameChange ==
  ASSUME LinksInv, UNCHANGED <<scopes, users>>
  PROVE  NamesGood'
BY DEF LinksInv, NamesGood

LEMMA ObjectKinds ==
  /\ \A h \in Handlers : h \in Objects /\ h \notin AllEvents
  /\ \A e \in AllEvents : e \in Objects /\ e \notin Handlers
BY EventConstants DEF Objects

LEMMA SetSelectTypeEdit ==
  ASSUME LinksInv, NEW e0 \in AllEvents, SetSelectType(e0)
  PROVE  EditOf({})
<1>1. /\ Edited(e0) /\ broken' = broken
      /\ selects' = selects \union {e0}
      /\ handlers' = handlers /\ events' = events /\ children' = children /\ parents' = parents
      /\ scopes' = scopes /\ users' = users /\ scopeName' = scopeName /\ bindings' = bindings
      /\ selector' = selector
  BY DEF SetSelectType, Edited, links, given
<1>2. LinksGood /\ NamesGood /\ RestTyped /\ Acyclic(children)
  BY DEF LinksInv
<1>3. LinksGood' /\ Acyclic(children')
  BY <1>1, NoLinkChange DEF links
<1>4. \A h \in Handlers : Up(events', parents', h) \subseteq Up(events, parents, h) \union {e0}
  BY <1>1
<1>5. NamesGood'
  BY <1>1, NoNameChange
<1>6. \A h \in Handlers : h # e0 => SameHandler(h)
  BY <1>1, <1>2, ObjectKinds DEF SameHandler, RestTyped, LinksGood, LinksTyped, NamesGood, NamesTyped
<1>7. \A e \in AllEvents : e # e0 => SameEvent(e)
  BY <1>1, <1>2, ObjectKinds DEF SameEvent, RestTyped, LinksGood, LinksTyped, NamesGood, NamesTyped
<1>8. /\ scopeName' \in [Handlers -> Names \union {NoName}]
      /\ bindings' \in [Handlers -> [Phases -> SUBSET Names]]
      /\ selector' \in [Handlers -> Names \union {NoName}]
      /\ selects' \in SUBSET AllEvents
  BY <1>1, <1>2 DEF RestTyped
<1>9. e0 \in Objects
  BY ObjectKinds
<1> QED
  BY <1>1, <1>3, <1>4, <1>5, <1>6, <1>7, <1>8, <1>9, EditedFacts

LEMMA SetScopeEdit ==
  ASSUME LinksInv, NEW h0 \in Handlers, NEW name \in Names, NEW m \in Nodes, SetScope(h0, name, m)
  PROVE  EditOf({})
<1>1. /\ Edited(h0) /\ broken' = broken
      /\ scopes' = [scopes EXCEPT ![h0][name] = m]
      /\ handlers' = handlers /\ events' = events /\ children' = children /\ parents' = parents
      /\ scopeName' = scopeName /\ bindings' = bindings /\ selector' = selector /\ selects' = selects
  BY DEF SetScope, Edited, links, given
<1>2. LinksGood /\ NamesGood /\ RestTyped /\ Acyclic(children)
  BY DEF LinksInv
<1>3. LinksGood' /\ Acyclic(children')
  BY <1>1, NoLinkChange DEF links
<1>4. \A h \in Handlers : Up(events', parents', h) \subseteq Up(events, parents, h) \union {h0}
  BY <1>1
<1>5. NamesGood'
  BY <1>2, SetScopeNames
<1>6. \A h \in Handlers : h # h0 => SameHandler(h)
  BY <1>1, <1>2, ObjectKinds DEF SameHandler, RestTyped, LinksGood, LinksTyped, NamesGood, NamesTyped
<1>7. \A e \in AllEvents : e # h0 => SameEvent(e)
  BY <1>1, <1>2, ObjectKinds DEF SameEvent, RestTyped, LinksGood, LinksTyped, NamesGood, NamesTyped
<1>8. /\ scopeName' \in [Handlers -> Names \union {NoName}]
      /\ bindings' \in [Handlers -> [Phases -> SUBSET Names]]
      /\ selector' \in [Handlers -> Names \union {NoName}]
      /\ selects' \in SUBSET AllEvents
  BY <1>1, <1>2 DEF RestTyped
<1>9. h0 \in Objects
  BY ObjectKinds
<1> QED
  BY <1>1, <1>3, <1>4, <1>5, <1>6, <1>7, <1>8, <1>9, EditedFacts

LEMMA RemoveScopeEdit ==
  ASSUME LinksInv, NEW h0 \in Handlers, NEW name \in Names, RemoveScope(h0, name)
  PROVE  EditOf({})
<1>1. /\ Edited(h0) /\ broken' = broken
      /\ scopes' = [scopes EXCEPT ![h0][name] = NoNode]
      /\ handlers' = handlers /\ events' = events /\ children' = children /\ parents' = parents
      /\ scopeName' = scopeName /\ bindings' = bindings /\ selector' = selector /\ selects' = selects
  BY DEF RemoveScope, Edited, links, given
<1>2. LinksGood /\ NamesGood /\ RestTyped /\ Acyclic(children)
  BY DEF LinksInv
<1>3. LinksGood' /\ Acyclic(children')
  BY <1>1, NoLinkChange DEF links
<1>4. \A h \in Handlers : Up(events', parents', h) \subseteq Up(events, parents, h) \union {h0}
  BY <1>1
<1>5. NamesGood'
  BY <1>2, RemoveScopeNames
<1>6. \A h \in Handlers : h # h0 => SameHandler(h)
  BY <1>1, <1>2, ObjectKinds DEF SameHandler, RestTyped, LinksGood, LinksTyped, NamesGood, NamesTyped
<1>7. \A e \in AllEvents : e # h0 => SameEvent(e)
  BY <1>1, <1>2, ObjectKinds DEF SameEvent, RestTyped, LinksGood, LinksTyped, NamesGood, NamesTyped
<1>8. /\ scopeName' \in [Handlers -> Names \union {NoName}]
      /\ bindings' \in [Handlers -> [Phases -> SUBSET Names]]
      /\ selector' \in [Handlers -> Names \union {NoName}]
      /\ selects' \in SUBSET AllEvents
  BY <1>1, <1>2 DEF RestTyped
<1>9. h0 \in Objects
  BY ObjectKinds
<1> QED
  BY <1>1, <1>3, <1>4, <1>5, <1>6, <1>7, <1>8, <1>9, EditedFacts

LEMMA SetScopeNameEdit ==
  ASSUME LinksInv, NEW h0 \in Handlers, NEW name \in Names \union {NoName}, SetScopeName(h0, name)
  PROVE  EditOf({})
<1>1. /\ Edited(h0) /\ broken' = broken
      /\ scopeName' = [scopeName EXCEPT ![h0] = name]
      /\ handlers' = handlers /\ events' = events /\ children' = children /\ parents' = parents
      /\ scopes' = scopes /\ users' = users /\ bindings' = bindings /\ selector' = selector
      /\ selects' = selects
  BY DEF SetScopeName, Edited, links, given
<1>2. LinksGood /\ NamesGood /\ RestTyped /\ Acyclic(children)
  BY DEF LinksInv
<1>3. LinksGood' /\ Acyclic(children')
  BY <1>1, NoLinkChange DEF links
<1>4. \A h \in Handlers : Up(events', parents', h) \subseteq Up(events, parents, h) \union {h0}
  BY <1>1
<1>5. NamesGood'
  BY <1>1, NoNameChange
<1>6. \A h \in Handlers : h # h0 => SameHandler(h)
  BY <1>1, <1>2, ObjectKinds DEF SameHandler, RestTyped, LinksGood, LinksTyped, NamesGood, NamesTyped
<1>7. \A e \in AllEvents : e # h0 => SameEvent(e)
  BY <1>1, <1>2, ObjectKinds DEF SameEvent, RestTyped, LinksGood, LinksTyped, NamesGood, NamesTyped
<1>8. /\ scopeName' \in [Handlers -> Names \union {NoName}]
      /\ bindings' \in [Handlers -> [Phases -> SUBSET Names]]
      /\ selector' \in [Handlers -> Names \union {NoName}]
      /\ selects' \in SUBSET AllEvents
  BY <1>1, <1>2 DEF RestTyped
<1>9. h0 \in Objects
  BY ObjectKinds
<1> QED
  BY <1>1, <1>3, <1>4, <1>5, <1>6, <1>7, <1>8, <1>9, EditedFacts

LEMMA SetSelectorEdit ==
  ASSUME LinksInv, NEW h0 \in Handlers, NEW name \in Names, SetSelector(h0, name)
  PROVE  EditOf({})
<1>1. /\ Edited(h0) /\ broken' = broken
      /\ selector' = [selector EXCEPT ![h0] = name]
      /\ handlers' = handlers /\ events' = events /\ children' = children /\ parents' = parents
      /\ scopes' = scopes /\ users' = users /\ scopeName' = scopeName /\ bindings' = bindings
      /\ selects' = selects
  BY DEF SetSelector, Edited, links, given
<1>2. LinksGood /\ NamesGood /\ RestTyped /\ Acyclic(children)
  BY DEF LinksInv
<1>3. LinksGood' /\ Acyclic(children')
  BY <1>1, NoLinkChange DEF links
<1>4. \A h \in Handlers : Up(events', parents', h) \subseteq Up(events, parents, h) \union {h0}
  BY <1>1
<1>5. NamesGood'
  BY <1>1, NoNameChange
<1>6. \A h \in Handlers : h # h0 => SameHandler(h)
  BY <1>1, <1>2, ObjectKinds DEF SameHandler, RestTyped, LinksGood, LinksTyped, NamesGood, NamesTyped
<1>7. \A e \in AllEvents : e # h0 => SameEvent(e)
  BY <1>1, <1>2, ObjectKinds DEF SameEvent, RestTyped, LinksGood, LinksTyped, NamesGood, NamesTyped
<1>8. /\ scopeName' \in [Handlers -> Names \union {NoName}]
      /\ bindings' \in [Handlers -> [Phases -> SUBSET Names]]
      /\ selector' \in [Handlers -> Names \union {NoName}]
      /\ selects' \in SUBSET AllEvents
  BY <1>1, <1>2 DEF RestTyped
<1>9. h0 \in Objects
  BY ObjectKinds
<1> QED
  BY <1>1, <1>3, <1>4, <1>5, <1>6, <1>7, <1>8, <1>9, EditedFacts

LEMMA AppendBindingEdit ==
  ASSUME LinksInv, NEW h0 \in Handlers, NEW phase \in Phases, NEW name \in Names, AppendBinding(h0, phase, name)
  PROVE  EditOf({})
<1>1. /\ Edited(h0) /\ broken' = broken
      /\ bindings' = [bindings EXCEPT ![h0][phase] = @ \union {name}]
      /\ handlers' = handlers /\ events' = events /\ children' = children /\ parents' = parents
      /\ scopes' = scopes /\ users' = users /\ scopeName' = scopeName /\ selector' = selector
      /\ selects' = selects
  BY DEF AppendBinding, Edited, links, given
<1>2. LinksGood /\ NamesGood /\ RestTyped /\ Acyclic(children)
  BY DEF LinksInv
<1>3. LinksGood' /\ Acyclic(children')
  BY <1>1, NoLinkChange DEF links
<1>4. \A h \in Handlers : Up(events', parents', h) \subseteq Up(events, parents, h) \union {h0}
  BY <1>1
<1>5. NamesGood'
  BY <1>1, NoNameChange
<1>6. \A h \in Handlers : h # h0 => SameHandler(h)
  BY <1>1, <1>2, ObjectKinds DEF SameHandler, RestTyped, LinksGood, LinksTyped, NamesGood, NamesTyped
<1>7. \A e \in AllEvents : e # h0 => SameEvent(e)
  BY <1>1, <1>2, ObjectKinds DEF SameEvent, RestTyped, LinksGood, LinksTyped, NamesGood, NamesTyped
<1>8. /\ scopeName' \in [Handlers -> Names \union {NoName}]
      /\ bindings' \in [Handlers -> [Phases -> SUBSET Names]]
      /\ selector' \in [Handlers -> Names \union {NoName}]
      /\ selects' \in SUBSET AllEvents
  BY <1>1, <1>2 DEF RestTyped
<1>9. h0 \in Objects
  BY ObjectKinds
<1> QED
  BY <1>1, <1>3, <1>4, <1>5, <1>6, <1>7, <1>8, <1>9, EditedFacts

LEMMA RemoveBindingEdit ==
  ASSUME LinksInv, NEW h0 \in Handlers, NEW phase \in Phases, NEW name \in Names, RemoveBinding(h0, phase, name)
  PROVE  EditOf({})
<1>1. /\ Edited(h0) /\ broken' = broken
      /\ bindings' = [bindings EXCEPT ![h0][phase] = @ \ {name}]
      /\ handlers' = handlers /\ events' = events /\ children' = children /\ parents' = parents
      /\ scopes' = scopes /\ users' = users /\ scopeName' = scopeName /\ selector' = selector
      /\ selects' = selects
  BY DEF RemoveBinding, Edited, links, given
<1>2. LinksGood /\ NamesGood /\ RestTyped /\ Acyclic(children)
  BY DEF LinksInv
<1>3. LinksGood' /\ Acyclic(children')
  BY <1>1, NoLinkChange DEF links
<1>4. \A h \in Handlers : Up(events', parents', h) \subseteq Up(events, parents, h) \union {h0}
  BY <1>1
<1>5. NamesGood'
  BY <1>1, NoNameChange
<1>6. \A h \in Handlers : h # h0 => SameHandler(h)
  BY <1>1, <1>2, ObjectKinds DEF SameHandler, RestTyped, LinksGood, LinksTyped, NamesGood, NamesTyped
<1>7. \A e \in AllEvents : e # h0 => SameEvent(e)
  BY <1>1, <1>2, ObjectKinds DEF SameEvent, RestTyped, LinksGood, LinksTyped, NamesGood, NamesTyped
<1>8. /\ scopeName' \in [Handlers -> Names \union {NoName}]
      /\ bindings' \in [Handlers -> [Phases -> SUBSET Names]]
      /\ selector' \in [Handlers -> Names \union {NoName}]
      /\ selects' \in SUBSET AllEvents
  BY <1>1, <1>2 DEF RestTyped
<1>9. h0 \in Objects
  BY ObjectKinds
<1> QED
  BY <1>1, <1>3, <1>4, <1>5, <1>6, <1>7, <1>8, <1>9, EditedFacts

LEMMA AppendEventHandlerEdit ==
  ASSUME LinksInv, NEW e0 \in AllEvents, NEW c \in Handlers, AppendEventHandler(e0, c)
  PROVE  EditOf({})
<1>1. /\ Edited(e0) /\ broken' = broken
      /\ handlers' = [handlers EXCEPT ![e0] = Append(@, c)]
      /\ events' = [events EXCEPT ![c] = @ \union {e0}]
      /\ children' = children /\ parents' = parents /\ scopes' = scopes /\ users' = users
      /\ scopeName' = scopeName /\ bindings' = bindings /\ selector' = selector /\ selects' = selects
  BY DEF AppendEventHandler, Edited, links, given
<1>2. LinksGood /\ NamesGood /\ RestTyped /\ Acyclic(children)
  BY DEF LinksInv
<1>3. LinksGood' /\ Acyclic(children')
  BY <1>1, <1>2, AppendHandlerLinks
<1>4. \A h \in Handlers : Up(events', parents', h) \subseteq Up(events, parents, h) \union {e0}
  BY <1>1, <1>2 DEF Up, LinksGood, LinksTyped
<1>5. NamesGood'
  BY <1>1, NoNameChange
<1>6. \A h \in Handlers : h # e0 => SameHandler(h)
  BY <1>1, <1>2, ObjectKinds DEF SameHandler, RestTyped, LinksGood, LinksTyped, NamesGood, NamesTyped
<1>7. \A e \in AllEvents : e # e0 => SameEvent(e)
  BY <1>1, <1>2, ObjectKinds DEF SameEvent, RestTyped, LinksGood, LinksTyped, NamesGood, NamesTyped
<1>8. /\ scopeName' \in [Handlers -> Names \union {NoName}]
      /\ bindings' \in [Handlers -> [Phases -> SUBSET Names]]
      /\ selector' \in [Handlers -> Names \union {NoName}]
      /\ selects' \in SUBSET AllEvents
  BY <1>1, <1>2 DEF RestTyped
<1>9. e0 \in Objects
  BY ObjectKinds
<1> QED
  BY <1>1, <1>3, <1>4, <1>5, <1>6, <1>7, <1>8, <1>9, EditedFacts

LEMMA AppendChildEdit ==
  ASSUME LinksInv, NEW h0 \in Handlers, NEW c \in Handlers, AppendChildEventHandler(h0, c)
  PROVE  EditOf({})
<1>1. /\ Edited(h0) /\ broken' = broken
      /\ children' = [children EXCEPT ![h0] = Append(@, c)]
      /\ parents' = [parents EXCEPT ![c][h0] = @ + 1]
      /\ h0 \notin Below(children, c)
      /\ handlers' = handlers /\ events' = events /\ scopes' = scopes /\ users' = users
      /\ scopeName' = scopeName /\ bindings' = bindings /\ selector' = selector /\ selects' = selects
  BY DEF AppendChildEventHandler, Edited, links, given
<1>2. LinksGood /\ NamesGood /\ RestTyped /\ Acyclic(children)
  BY DEF LinksInv
<1>3. LinksGood' /\ Acyclic(children')
  <2>1. LinksGood'
    BY <1>2, AppendChildLinks
  <2>2. children \in [Handlers -> Lists] /\ children' \in [Handlers -> Lists]
    BY <1>2, <2>1 DEF LinksGood, LinksTyped
  <2>3. ToSet(Append(children[h0], c)) = ToSet(children[h0]) \union {c}
    BY <2>2, AppendFacts
  <2>4. \A q \in Handlers : ToSet(children'[q]) \subseteq
          IF q = h0 THEN ToSet(children[q]) \union {c} ELSE ToSet(children[q])
    BY <1>1, <2>2, <2>3
  <2>5. Acyclic(children')
    BY <1>1, <1>2, <2>2, <2>4, OneMoreChild
  <2> QED
    BY <2>1, <2>5
<1>4. \A h \in Handlers : Up(events', parents', h) \subseteq Up(events, parents, h) \union {h0}
  BY <1>1, <1>2 DEF Up, LinksGood, LinksTyped
<1>5. NamesGood'
  BY <1>1, NoNameChange
<1>6. \A h \in Handlers : h # h0 => SameHandler(h)
  BY <1>1, <1>2, ObjectKinds DEF SameHandler, RestTyped, LinksGood, LinksTyped, NamesGood, NamesTyped
<1>7. \A e \in AllEvents : e # h0 => SameEvent(e)
  BY <1>1, <1>2, ObjectKinds DEF SameEvent, RestTyped, LinksGood, LinksTyped, NamesGood, NamesTyped
<1>8. /\ scopeName' \in [Handlers -> Names \union {NoName}]
      /\ bindings' \in [Handlers -> [Phases -> SUBSET Names]]
      /\ selector' \in [Handlers -> Names \union {NoName}]
      /\ selects' \in SUBSET AllEvents
  BY <1>1, <1>2 DEF RestTyped
<1>9. h0 \in Objects
  BY ObjectKinds
<1> QED
  BY <1>1, <1>3, <1>4, <1>5, <1>6, <1>7, <1>8, <1>9, EditedFacts

LEMMA RemoveChildEdit ==
  ASSUME LinksInv, NEW h0 \in Handlers, NEW c \in Handlers, RemoveChildEventHandler(h0, c)
  PROVE  EditOf({})
<1>1. /\ Edited(h0) /\ broken' = broken
      /\ children' = [children EXCEPT ![h0] = Without(@, c)]
      /\ parents' = ParentRemoved(parents, h0, c)
      /\ handlers' = handlers /\ events' = events /\ scopes' = scopes /\ users' = users
      /\ scopeName' = scopeName /\ bindings' = bindings /\ selector' = selector /\ selects' = selects
  BY DEF RemoveChildEventHandler, Edited, links, given
<1>2. LinksGood /\ NamesGood /\ RestTyped /\ Acyclic(children)
  BY DEF LinksInv
<1>3. LinksGood' /\ Acyclic(children')
  <2>1. LinksGood'
    BY <1>2, RemoveChildLinks
  <2>2. children \in [Handlers -> Lists] /\ children' \in [Handlers -> Lists]
    BY <1>2, <2>1 DEF LinksGood, LinksTyped
  <2>3. ToSet(Without(children[h0], c)) \subseteq ToSet(children[h0])
    BY <2>2, WithoutFacts
  <2>4. \A q \in Handlers : ToSet(children'[q]) \subseteq ToSet(children[q])
    BY <1>1, <2>2, <2>3
  <2>5. Acyclic(children')
    BY <1>2, <2>2, <2>4, FewerChildren
  <2> QED
    BY <2>1, <2>5
<1>4. \A h \in Handlers : Up(events', parents', h) \subseteq Up(events, parents, h) \union {h0}
  <2>1. \A g, q \in Handlers : parents'[g][q] = IF g = c /\ q = h0 THEN 0 ELSE parents[g][q]
    BY <1>1, <1>2, ParentRemovedFacts
  <2> QED
    BY <1>1, <2>1 DEF Up
<1>5. NamesGood'
  BY <1>1, NoNameChange
<1>6. \A h \in Handlers : h # h0 => SameHandler(h)
  BY <1>1, <1>2, ObjectKinds DEF SameHandler, RestTyped, LinksGood, LinksTyped, NamesGood, NamesTyped
<1>7. \A e \in AllEvents : e # h0 => SameEvent(e)
  BY <1>1, <1>2, ObjectKinds DEF SameEvent, RestTyped, LinksGood, LinksTyped, NamesGood, NamesTyped
<1>8. /\ scopeName' \in [Handlers -> Names \union {NoName}]
      /\ bindings' \in [Handlers -> [Phases -> SUBSET Names]]
      /\ selector' \in [Handlers -> Names \union {NoName}]
      /\ selects' \in SUBSET AllEvents
  BY <1>1, <1>2 DEF RestTyped
<1>9. h0 \in Objects
  BY ObjectKinds
<1> QED
  BY <1>1, <1>3, <1>4, <1>5, <1>6, <1>7, <1>8, <1>9, EditedFacts
-----------------------------------------------------------------------------
(***************************************************************************)
(* Edits of nodes, and destructions.                                        *)
(***************************************************************************)
LEMMA NotUsing ==
  ASSUME NamesGood, NEW m \in Nodes, NEW h \in Handlers
  PROVE  users[m][h] > 0 <=> \E name \in Names : scopes[h][name] = m
<1>1. scopes[h] \in Scopes /\ users[m][h] = Cardinality(Giving(scopes[h], m))
  BY DEF NamesGood, NamesTyped, NamesExact
<1> QED
  BY <1>1, UsesFacts

\* An edit that ends with the marks of the users of a node.
LEMMA NodeEditMarks ==
  ASSUME LinksInv, UNCHANGED links, NEW m \in Nodes,
         MarkedFrom(marked, {h \in Handlers : users[m][h] > 0}, {})
  PROVE  /\ MarksMade({}) /\ AnswersTyped'
         /\ \A h \in Handlers : h \notin marked' => ~ \E name \in Names : scopes[h][name] = m
<1>1. LinksGood' /\ \A h \in Handlers : Up(events', parents', h) = Up(events, parents, h)
  BY NoLinkChange
<1>2. PICK S \in SUBSET Objects : S = {h \in Handlers : users[m][h] > 0}
  BY ObjectKinds
<1>3. PICK gone : gone = {}
  OBVIOUS
<1>4. RestTyped /\ marked \in SUBSET Objects /\ ReachUp(marked, events, parents)
  BY DEF LinksInv, RestTyped
<1>5. \A h \in Handlers : h \in marked => Up(events', parents', h) \subseteq marked \union S
  BY <1>1, <1>4 DEF ReachUp
<1>6. \A h \in Handlers : h \notin gone => Up(events', parents', h) \intersect gone = {}
  BY <1>3
<1>7. MarkedFrom(marked, S, gone) /\ marked \subseteq marked \union gone
  BY <1>2, <1>3
<1>8. MarksMade(gone) /\ AnswersTyped' /\ (marked \union S) \ gone \subseteq marked'
  BY <1>1, <1>4, <1>5, <1>6, <1>7, MarkedFromFacts
<1>9. NamesGood
  BY DEF LinksInv
<1>10. \A h \in Handlers : h \notin marked' => ~(users[m][h] > 0)
  BY <1>2, <1>3, <1>8
<1> QED
  BY <1>3, <1>8, <1>9, <1>10, NotUsing

LEMMA EditNodeEdit ==
  ASSUME LinksInv, NEW m \in Nodes, EditNode(m)
  PROVE  EditOf({})
<1>1. /\ broken' = broken \ {m} \/ broken' = broken \union {m}
      /\ dirty' = dirty \union {m}
      /\ UNCHANGED links /\ UNCHANGED <<scopes, users>>
      /\ scopeName' = scopeName /\ bindings' = bindings /\ selector' = selector
      /\ selects' = selects /\ errors' = errors /\ scopes' = scopes
      /\ MarkedFrom(marked, {h \in Handlers : users[m][h] > 0}, {})
  BY DEF EditNode, given
<1>2. LinksGood' /\ Acyclic(children') /\ NamesGood'
  BY <1>1, NoLinkChange, NoNameChange
<1>3. MarksMade({}) /\ AnswersTyped'
  BY <1>1, NodeEditMarks
<1>4. \A h \in Handlers : h \notin marked' => ~ \E name \in Names : scopes[h][name] = m
  BY <1>1, NodeEditMarks
<1>5. handlers' = handlers /\ children' = children
  BY <1>1 DEF links
<1>6. Elsewhere({})
  <2>1. \A h \in Handlers : h \notin marked' => SameHandler(h)
    BY <1>1, <1>4, <1>5 DEF SameHandler
  <2> QED
    BY <1>1, <1>5, <2>1 DEF Elsewhere, SameEvent
<1>7. RestTyped'
  BY <1>1, <1>3 DEF RestTyped, AnswersTyped, LinksInv
<1> QED
  BY <1>2, <1>3, <1>6, <1>7 DEF EditOf, Gone

LEMMA DestroyNodeEdit ==
  ASSUME LinksInv, NEW m \in Nodes, DestroyNode(m)
  PROVE  EditOf({})
<1>1. /\ broken' = broken \ {m}
      /\ dirty' = dirty \union {m}
      /\ UNCHANGED links
      /\ scopes' = [h \in Handlers |->
           [name \in Names |-> IF scopes[h][name] = m THEN NoNode ELSE scopes[h][name]]]
      /\ scopeName' = scopeName /\ bindings' = bindings /\ selector' = selector
      /\ selects' = selects /\ errors' = errors
      /\ MarkedFrom(marked, {h \in Handlers : users[m][h] > 0}, {})
  BY DEF DestroyNode
<1>2. LinksGood' /\ Acyclic(children')
  BY <1>1, NoLinkChange
<1>3. NamesGood'
  BY DestroyNodeNames DEF LinksInv
<1>4. MarksMade({}) /\ AnswersTyped'
  BY <1>1, NodeEditMarks
<1>5. \A h \in Handlers : h \notin marked' => ~ \E name \in Names : scopes[h][name] = m
  BY <1>1, NodeEditMarks
<1>6. handlers' = handlers /\ children' = children
  BY <1>1 DEF links
<1>7. Elsewhere({})
  <2>1. ASSUME NEW h \in Handlers, h \notin marked'
        PROVE  SameHandler(h)
    <3>1. scopes[h] \in Scopes /\ scopes'[h] = [name \in Names |-> scopes[h][name]]
      BY <1>1, <1>5, <2>1 DEF LinksInv, NamesGood, NamesTyped
    <3>2. scopes'[h] = scopes[h]
      BY <3>1 DEF Scopes
    <3> QED
      BY <1>1, <1>5, <1>6, <2>1, <3>2 DEF SameHandler
  <2> QED
    BY <1>1, <1>6, <2>1 DEF Elsewhere, SameEvent
<1>8. RestTyped'
  BY <1>1, <1>4 DEF RestTyped, AnswersTyped, LinksInv
<1> QED
  BY <1>2, <1>3, <1>4, <1>7, <1>8 DEF EditOf, Gone

LEMMA DestroyEventEdit ==
  ASSUME LinksInv, NEW e0 \in AllEvents, DestroyEvent(e0)
  PROVE  EditOf({e0})
<1>1. /\ handlers' = [handlers EXCEPT ![e0] = <<>>]
      /\ events' = [h \in Handlers |-> events[h] \ {e0}]
      /\ selects' = selects \ {e0}
      /\ errors' = errors \ {e0}
      /\ children' = children /\ parents' = parents /\ UNCHANGED <<scopes, users>>
      /\ scopeName' = scopeName /\ bindings' = bindings /\ selector' = selector
      /\ broken' = broken /\ dirty' = dirty /\ scopes' = scopes
      /\ MarkedFrom(marked, {}, {e0})
  BY DEF DestroyEvent
<1>2. LinksGood /\ RestTyped /\ Acyclic(children) /\ ReachUp(marked, events, parents)
  BY DEF LinksInv
<1>3. LinksGood' /\ Acyclic(children') /\ NamesGood'
  BY <1>1, <1>2, DestroyEventLinks, NoNameChange
<1>4. PICK S \in SUBSET Objects : S = {}
  OBVIOUS
<1>5. PICK gone : gone = {e0}
  OBVIOUS
<1>6. marked \in SUBSET Objects
  BY <1>2 DEF RestTyped
<1>7. \A h \in Handlers : Up(events', parents', h) = Up(events, parents, h) \ {e0}
  BY <1>1, ObjectKinds DEF Up
<1>8. \A h \in Handlers : h \in marked => Up(events', parents', h) \subseteq marked \union S
  BY <1>2, <1>7 DEF ReachUp
<1>9. \A h \in Handlers : h \notin gone => Up(events', parents', h) \intersect gone = {}
  BY <1>5, <1>7
<1>10. MarkedFrom(marked, S, gone) /\ marked \subseteq marked \union gone
  BY <1>1, <1>4, <1>5
<1>11. MarksMade(gone) /\ AnswersTyped'
  BY <1>2, <1>3, <1>6, <1>8, <1>9, <1>10, MarkedFromFacts
<1>12. \A e \in AllEvents : handlers'[e] = IF e = e0 THEN <<>> ELSE handlers[e]
  BY <1>1, <1>2 DEF LinksGood, LinksTyped
<1>13. Elsewhere({e0})
  <2>1. \A h \in Handlers : SameHandler(h)
    BY <1>1 DEF SameHandler
  <2>2. \A e \in AllEvents : e # e0 => SameEvent(e)
    BY <1>1, <1>12 DEF SameEvent
  <2> QED
    BY <1>1, <2>1, <2>2 DEF Elsewhere
<1>14. Gone({e0})
  BY <1>1, <1>12, ObjectKinds DEF Gone
<1>15. RestTyped'
  BY <1>1, <1>2, <1>11 DEF RestTyped, AnswersTyped
<1> QED
  BY <1>3, <1>5, <1>11, <1>13, <1>14, <1>15 DEF EditOf

\* A list that does not have h is the same without it.
LEMMA WithoutSame ==
  ASSUME NEW s \in Lists, NEW h, h \notin ToSet(s)
  PROVE  Without(s, h) = s
<1>1. PICK f : Kept(s, h, Len(s), f) /\ Without(s, h) = f[Len(s)]
  <2>1. PICK g : g = CHOOSE f : Kept(s, h, Len(s), f)
    OBVIOUS
  <2>2. Kept(s, h, Len(s), g)
    BY <2>1, KeptExists
  <2>3. Without(s, h) = g[Len(s)]
    BY <2>1 DEF Without, Kept
  <2> QED
    BY <2>2, <2>3
<1> DEFINE Right(k) == /\ f[k] \in Lists
                       /\ Len(f[k]) = k
                       /\ \A i \in 1 .. k : f[k][i] = s[i]
           S == {k \in Nat : k <= Len(s) => Right(k)}
<1>2. Len(s) \in Nat /\ \A i \in 1 .. Len(s) : s[i] \in Handlers /\ s[i] # h
  BY DEF Lists, ToSet
<1>3. f[0] = <<>>
  BY <1>1, <1>2 DEF Kept
<1>4. 0 \in S
  <2>1. <<>> \in Lists /\ Len(<<>>) = 0
    BY EmptyFacts
  <2> QED
    BY <1>3, <2>1
<1>5. ASSUME NEW k \in Nat, k \in S
      PROVE  k + 1 \in S
  <2>1. SUFFICES ASSUME k + 1 <= Len(s) PROVE Right(k + 1)
    OBVIOUS
  <2>2. Right(k)
    BY <1>2, <1>5, <2>1
  <2>3. k + 1 \in 1 .. Len(s) /\ k + 1 \in 0 .. Len(s) /\ (k + 1) - 1 = k /\ k + 1 # 0
    BY <1>2, <2>1
  <2>4. s[k + 1] \in Handlers /\ s[k + 1] # h
    BY <1>2, <2>3
  <2>5. f[k + 1] = Append(f[k], s[k + 1])
    BY <1>1, <2>3, <2>4 DEF Kept
  <2>6. f[k + 1] \in Lists /\ Len(f[k + 1]) = k + 1
    BY <2>2, <2>4, <2>5 DEF Lists
  <2>7. \A i \in 1 .. k + 1 : f[k + 1][i] = s[i]
    BY <2>2, <2>4, <2>5 DEF Lists
  <2> QED
    BY <2>6, <2>7
<1>6. Nat \subseteq S
  <2> HIDE DEF S
  <2> QED
    BY <1>4, <1>5, SetInduction
<1>7. Right(Len(s))
  BY <1>2, <1>6
<1>8. f[Len(s)] = s
  BY <1>7 DEF Lists
<1> QED
  BY <1>1, <1>8

LEMMA DestroyEventHandlerEdit ==
  ASSUME LinksInv, NEW h0 \in Handlers, DestroyEventHandler(h0)
  PROVE  EditOf({h0})
<1> DEFINE first == Head(children[h0])
           C1 == [children EXCEPT ![h0] = Without(@, first)]
           P1 == ParentRemoved(parents, h0, first)
           M1 == IF children[h0] = <<>> THEN marked
                 ELSE Recompiled(marked, Marks(handlers, events, C1, P1), {h0})
           above == {p \in Handlers : parents[h0][p] > 0} \union events[h0]
<1>1. /\ handlers' = [e \in AllEvents |-> Without(handlers[e], h0)]
      /\ events' = [events EXCEPT ![h0] = {}]
      /\ children' = [p \in Handlers |-> IF p = h0 THEN <<>> ELSE Without(children[p], h0)]
      /\ parents' = [c \in Handlers |-> [p \in Handlers |->
           IF c = h0 \/ p = h0 THEN 0 ELSE parents[c][p]]]
      /\ scopes' = [scopes EXCEPT ![h0] = [name \in Names |-> NoNode]]
      /\ scopeName' = [scopeName EXCEPT ![h0] = NoName]
      /\ bindings' = [bindings EXCEPT ![h0] = [phase \in Phases |-> {}]]
      /\ selector' = [selector EXCEPT ![h0] = NoName]
      /\ errors' = errors \ {h0}
      /\ selects' = selects /\ broken' = broken /\ dirty' = dirty
      /\ MarkedFrom(M1 \ {h0}, above, {h0})
  BY DEF DestroyEventHandler
<1>2. LinksGood /\ NamesGood /\ RestTyped /\ Acyclic(children) /\ ReachUp(marked, events, parents)
  BY DEF LinksInv
<1>3. /\ handlers \in [AllEvents -> Lists] /\ events \in [Handlers -> SUBSET AllEvents]
      /\ children \in [Handlers -> Lists] /\ parents \in [Handlers -> [Handlers -> Nat]]
  BY <1>2 DEF LinksGood, LinksTyped
<1>4. LinksGood' /\ NamesGood'
  BY <1>2, DestroyHandlerLinks, DestroyHandlerNames
<1>5. Acyclic(children')
  <2>1. children' \in [Handlers -> Lists]
    BY <1>4 DEF LinksGood, LinksTyped
  <2>2. \A p \in Handlers : ToSet(children'[p]) \subseteq ToSet(children[p])
    BY <1>1, <1>3, WithoutFacts, EmptyFacts
  <2> QED
    BY <1>2, <1>3, <2>1, <2>2, FewerChildren
<1>6. marked \in SUBSET Objects
  BY <1>2 DEF RestTyped
<1>7. M1 \in SUBSET Objects /\ marked \subseteq M1
      /\ \A g \in Handlers : g \in M1 => \A p \in Handlers :
           (parents[g][p] > 0 /\ p # h0 => p \in M1) /\ events[g] \subseteq M1
  <2>1. CASE children[h0] = <<>>
    BY <1>2, <1>6, <2>1 DEF ReachUp, Up
  <2>2. CASE children[h0] # <<>>
    <3>1. first \in Handlers
      BY <1>3, <2>2 DEF Lists
    <3>2. Without(children[h0], first) \in Lists
      BY <1>3, WithoutFacts
    <3>3. /\ P1 \in [Handlers -> [Handlers -> Nat]]
          /\ \A g, q \in Handlers : P1[g][q] =
               IF g = first /\ q = h0 THEN 0 ELSE parents[g][q]
      BY <1>2, <3>1, ParentRemovedFacts
    <3>4. C1 \in [Handlers -> Lists]
      BY <1>3, <3>2
    <3> HIDE DEF first, C1, P1
    <3>5. LinksTyped(handlers, events, C1, P1)
      BY <1>3, <3>3, <3>4 DEF LinksTyped
    <3>6. PICK S \in SUBSET Objects : S = {h0}
      BY ObjectKinds
    <3>7. PICK none : none = {}
      OBVIOUS
    <3>8. \A g \in Handlers : g \in marked => Up(events, P1, g) \subseteq marked \union S
      BY <1>2, <3>3 DEF ReachUp, Up
    <3>9. \A g \in Handlers : g \notin none => Up(events, P1, g) \intersect none = {}
      BY <3>7
    <3> DEFINE R == Recompiled(marked, Marks(handlers, events, C1, P1), S)
    <3>10. R \in SUBSET Objects /\ marked \union S \subseteq R /\ ReachUp(R \ none, events, P1)
      BY <1>6, <3>5, <3>8, <3>9, MarkedUp
    <3>11. M1 = R /\ R \ none = R
      BY <2>2, <3>6, <3>7
    <3> HIDE DEF R, M1
    <3>12. ASSUME NEW g \in Handlers, g \in M1, NEW p \in Handlers
           PROVE  (parents[g][p] > 0 /\ p # h0 => p \in M1) /\ events[g] \subseteq M1
      <4>1. Up(events, P1, g) \subseteq M1
        BY <3>10, <3>11, <3>12 DEF ReachUp
      <4>2. p # h0 => P1[g][p] = parents[g][p]
        BY <3>3
      <4> QED
        BY <4>1, <4>2 DEF Up
    <3> QED
      BY <3>10, <3>11, <3>12
  <2> QED
    BY <2>1, <2>2
<1> HIDE DEF M1, C1, P1, first
<1>8. PICK gone : gone = {h0}
  OBVIOUS
<1>9. PICK S \in SUBSET Objects : S = above
  BY <1>3 DEF Objects
<1>10. PICK M \in SUBSET Objects : M = M1 \ {h0}
  BY <1>7
<1>11. \A g \in Handlers : Up(events', parents', g) =
         IF g = h0 THEN {} ELSE Up(events, parents, g) \ {h0}
  <2>1. ASSUME NEW g \in Handlers
        PROVE  Up(events', parents', g) = IF g = h0 THEN {} ELSE Up(events, parents, g) \ {h0}
    <3>1. events'[g] = IF g = h0 THEN {} ELSE events[g]
      BY <1>1, <1>3
    <3>2. \A p \in Handlers : parents'[g][p] = IF g = h0 \/ p = h0 THEN 0 ELSE parents[g][p]
      BY <1>1
    <3>3. h0 \notin events[g]
      BY <1>3, ObjectKinds
    <3>4. CASE g = h0
      BY <3>1, <3>2, <3>4 DEF Up
    <3>5. CASE g # h0
      BY <3>1, <3>2, <3>3, <3>5 DEF Up
    <3> QED
      BY <3>4, <3>5
  <2> QED
    BY <2>1
<1>12. \A g \in Handlers : g \in M => Up(events', parents', g) \subseteq M \union S
  <2>1. ASSUME NEW g \in Handlers, g \in M, NEW x \in Up(events', parents', g)
        PROVE  x \in M
    <3>1. g # h0 /\ g \in M1
      BY <1>10, <2>1
    <3>2. x \in Up(events, parents, g) /\ x # h0
      BY <1>11, <2>1, <3>1
    <3>3. x \in events[g] \/ (x \in Handlers /\ parents[g][x] > 0)
      BY <3>2 DEF Up
    <3>4. x \in M1
      BY <1>7, <3>1, <3>2, <3>3
    <3> QED
      BY <1>10, <3>2, <3>4
  <2> QED
    BY <2>1
<1>13. \A g \in Handlers : g \notin gone => Up(events', parents', g) \intersect gone = {}
  BY <1>8, <1>11
<1>14. MarkedFrom(M, S, gone) /\ marked \subseteq M \union gone
  BY <1>1, <1>7, <1>8, <1>9, <1>10
<1>15. MarksMade(gone) /\ AnswersTyped' /\ (M \union S) \ gone \subseteq marked'
  BY <1>2, <1>4, <1>12, <1>13, <1>14, MarkedFromFacts
<1>16. above \ {h0} \subseteq marked'
  BY <1>8, <1>9, <1>15
<1>17. ASSUME NEW g \in Handlers, g \notin marked', g # h0
       PROVE  SameHandler(g)
  <2>1. ~(parents[h0][g] > 0) /\ parents[h0][g] = Times(children[g], h0)
    BY <1>2, <1>16, <1>17 DEF LinksGood, LinksExact
  <2>2. h0 \notin ToSet(children[g])
    BY <1>3, <2>1, TimesFacts
  <2>3. Without(children[g], h0) = children[g]
    BY <1>3, <2>2, WithoutSame
  <2>4. children'[g] = children[g]
    BY <1>1, <1>17, <2>3
  <2>5. scopes'[g] = scopes[g] /\ scopeName'[g] = scopeName[g] /\ bindings'[g] = bindings[g]
        /\ selector'[g] = selector[g]
    BY <1>1, <1>2, <1>17 DEF RestTyped, NamesGood, NamesTyped
  <2> QED
    BY <1>1, <2>4, <2>5 DEF SameHandler
<1>18. ASSUME NEW e \in AllEvents, e \notin marked'
       PROVE  SameEvent(e)
  <2>1. e \notin events[h0]
    BY <1>16, <1>18, ObjectKinds
  <2>2. h0 \notin ToSet(handlers[e])
    BY <1>2, <2>1 DEF LinksGood, LinksExact
  <2>3. Without(handlers[e], h0) = handlers[e]
    BY <1>3, <2>2, WithoutSame
  <2> QED
    BY <1>1, <2>3 DEF SameEvent
<1>19. Elsewhere({h0})
  <2>1. \A o \in Objects : o # h0 => (o \in errors' <=> o \in errors)
    BY <1>1
  <2> QED
    BY <1>17, <1>18, <2>1 DEF Elsewhere
<1>20. Gone({h0})
  <2>1. Up(events', parents', h0) = {}
    BY <1>11
  <2>2. selector'[h0] = NoName /\ h0 \notin errors'
    BY <1>1, <1>2 DEF RestTyped
  <2> QED
    BY <2>1, <2>2, ObjectKinds DEF Gone
<1>21. RestTyped'
  BY <1>1, <1>2, <1>15 DEF RestTyped, AnswersTyped
<1> QED
  BY <1>4, <1>5, <1>8, <1>15, <1>19, <1>20, <1>21 DEF EditOf
-----------------------------------------------------------------------------
(***************************************************************************)
(* What is collected.                                                       *)
(***************************************************************************)
Outer == [Names -> Containers \union {NoNode}]

\* What Collected makes of a handler within a scope, when f is what it makes of
\* its children.
CollectedOf(selecting, f, h, parent) ==
  Tasks(h, "pre", bindings[h]["pre"], Bound(h, parent))
  \o FlattenSeq([i \in DOMAIN children[h] |-> f[children[h][i]][ChildScope(h, parent)]])
  \o Tasks(h, "post", bindings[h]["post"], Bound(h, parent))
  \o SelectTasks(h, selecting, Bound(h, parent))

Collects(selecting, f) ==
  f = [h \in Handlers |-> [parent \in Outer |-> CollectedOf(selecting, f, h, parent)]]

\* Only what f makes of the children counts.
LEMMA CollectedOfSame ==
  ASSUME NEW selecting, NEW f, NEW g, NEW h, NEW parent, DOMAIN children[h] = 1 .. Len(children[h]),
         \A c \in ToSet(children[h]) : f[c] = g[c]
  PROVE  CollectedOf(selecting, f, h, parent) = CollectedOf(selecting, g, h, parent)
<1>1. \A i \in DOMAIN children[h] : children[h][i] \in ToSet(children[h])
  BY DEF ToSet
<1>2. [i \in DOMAIN children[h] |-> f[children[h][i]][ChildScope(h, parent)]]
      = [i \in DOMAIN children[h] |-> g[children[h][i]][ChildScope(h, parent)]]
  BY <1>1
<1> QED
  BY <1>2 DEF CollectedOf

LEMMA CollectsExists ==
  ASSUME children \in [Handlers -> Lists], Acyclic(children), NEW selecting
  PROVE  \E f : Collects(selecting, f)
<1> DEFINE At(f, h) == f[h] = [parent \in Outer |-> CollectedOf(selecting, f, h, parent)]
           K == {D \in SUBSET Handlers : /\ \A h \in D : ToSet(children[h]) \subseteq D
                                         /\ \E f : \A h \in D : At(f, h)}
<1>1. {} \in K
  OBVIOUS
<1>2. ASSUME NEW D \in K, NEW h \in Handlers, h \notin D, ToSet(children[h]) \subseteq D
      PROVE  D \union {h} \in K
  <2>1. PICK f : \A g \in D : At(f, g)
    BY <1>2
  <2> DEFINE fh == [parent \in Outer |-> CollectedOf(selecting, f, h, parent)]
             F == [g \in Handlers |-> IF g = h THEN fh ELSE f[g]]
  <2>2. D \in SUBSET Handlers /\ \A g \in D : ToSet(children[g]) \subseteq D
    BY <1>2
  <2>3. F[h] = fh /\ \A g \in D : F[g] = f[g]
    BY <1>2, <2>2
  <2> HIDE DEF F
  <2>4. ASSUME NEW g \in D \union {h}
        PROVE  At(F, g)
    <3>1. g \in Handlers /\ \A c \in ToSet(children[g]) : F[c] = f[c]
      BY <1>2, <2>2, <2>3
    <3>2. DOMAIN children[g] = 1 .. Len(children[g])
      BY <3>1 DEF Lists
    <3>3. \A parent \in Outer :
            CollectedOf(selecting, F, g, parent) = CollectedOf(selecting, f, g, parent)
      BY <3>1, <3>2, CollectedOfSame
    <3>4. F[g] = [parent \in Outer |-> CollectedOf(selecting, f, g, parent)]
      <4>1. CASE g = h
        BY <2>3, <4>1
      <4>2. CASE g # h
        BY <2>1, <2>3, <4>2
      <4> QED
        BY <4>1, <4>2
    <3> QED
      BY <3>3, <3>4
  <2>5. \E f1 : \A g \in D \union {h} : At(f1, g)
    BY <2>4
  <2> HIDE DEF At
  <2> QED
    BY <1>2, <2>2, <2>5
<1>3. K \in SUBSET SUBSET Handlers
  OBVIOUS
<1>4. Handlers \in K
  <2> HIDE DEF K
  <2> QED
    BY <1>1, <1>2, <1>3, LowestFirst
<1>5. PICK f : \A h \in Handlers : At(f, h)
  BY <1>4
<1> DEFINE F == [h \in Handlers |-> f[h]]
<1>6. \A h \in Handlers : F[h] = f[h]
  OBVIOUS
<1> HIDE DEF F
<1>7. ASSUME NEW h \in Handlers
      PROVE  F[h] = [parent \in Outer |-> CollectedOf(selecting, F, h, parent)]
  <2>1. \A c \in ToSet(children[h]) : F[c] = f[c]
    BY <1>6 DEF ToSet, Lists
  <2>2. DOMAIN children[h] = 1 .. Len(children[h])
    BY DEF Lists
  <2>3. \A parent \in Outer :
          CollectedOf(selecting, F, h, parent) = CollectedOf(selecting, f, h, parent)
    BY <2>1, <2>2, CollectedOfSame
  <2> QED
    BY <1>5, <1>6, <2>3
<1>8. F = [h \in Handlers |-> F[h]]
  BY DEF F
<1>9. Collects(selecting, F)
  BY <1>7, <1>8 DEF Collects
<1> QED
  BY <1>9

\* What is collected is what such an f makes of each handler of a list.
CollectedSolved ==
  \A selecting \in BOOLEAN, hs \in Lists :
    \E f : /\ Collects(selecting, f)
           /\ Collected(hs, selecting) = FlattenSeq([i \in DOMAIN hs |-> f[hs[i]][NoScope]])

LEMMA CollectedBySolution ==
  LinksGood /\ Acyclic(children) => CollectedSolved
<1>1. SUFFICES ASSUME LinksGood, Acyclic(children), NEW selecting \in BOOLEAN, NEW hs \in Lists
      PROVE  \E f : /\ Collects(selecting, f)
                    /\ Collected(hs, selecting) = FlattenSeq([i \in DOMAIN hs |-> f[hs[i]][NoScope]])
  BY DEF CollectedSolved
<1>2. children \in [Handlers -> Lists]
  BY <1>1 DEF LinksGood, LinksTyped
<1>3. PICK f : f = CHOOSE g : Collects(selecting, g)
  OBVIOUS
<1>4. Collects(selecting, f)
  BY <1>1, <1>2, <1>3, CollectsExists
<1>5. Collected(hs, selecting) = FlattenSeq([i \in DOMAIN hs |-> f[hs[i]][NoScope]])
  BY <1>3 DEF Collected, Collects, CollectedOf, Outer
<1> QED
  BY <1>4, <1>5

LEMMA CollectedSolvedNext ==
  (LinksGood /\ Acyclic(children))' => CollectedSolved'
BY CollectedBySolution, PTL
-----------------------------------------------------------------------------
(***************************************************************************)
(* What is under an event that an edit does not mark stays as it was.       *)
(***************************************************************************)
LEMMA UnmarkedSame ==
  ASSUME LinksInv, NEW gone, EditOf(gone), NEW e \in AllEvents, e \notin marked', e \notin gone
  PROVE  /\ Under(handlers', children', e) \in SUBSET Handlers
         /\ \A h \in Under(handlers', children', e) :
              h \notin marked' /\ h \notin gone /\ SameHandler(h)
         /\ Under(handlers', children', e) = Under(handlers, children, e)
         /\ SameEvent(e)
<1>1. /\ LinksTyped(handlers', events', children', parents')
      /\ LinksExact(handlers', events', children', parents')
      /\ ReachUp(marked', events', parents')
      /\ \A h \in Handlers \intersect gone : Up(events', parents', h) = {}
      /\ Elsewhere(gone)
  BY DEF EditOf, LinksGood, MarksMade, Gone
<1>2. \A h \in Under(handlers', children', e) : h \in Handlers /\ h \notin marked' /\ h \notin gone
  BY <1>1, UnmarkedUnder
<1>3. \A h \in Under(handlers', children', e) : SameHandler(h)
  BY <1>1, <1>2 DEF Elsewhere
<1>4. SameEvent(e)
  BY <1>1 DEF Elsewhere
<1>5. /\ handlers \in [AllEvents -> Lists] /\ children \in [Handlers -> Lists]
      /\ handlers' \in [AllEvents -> Lists] /\ children' \in [Handlers -> Lists]
  BY <1>1 DEF LinksTyped, LinksInv, LinksGood
<1>6. handlers'[e] = handlers[e] /\ \A h \in Under(handlers', children', e) : children'[h] = children[h]
  BY <1>3, <1>4 DEF SameHandler, SameEvent
<1>7. Under(handlers', children', e) = Under(handlers, children, e)
  BY <1>5, <1>6, SameUnder
<1> QED
  BY <1>2, <1>3, <1>4, <1>7

\* What is collected under an event is the same while its handlers are.
LEMMA CollectedOfKept ==
  ASSUME NEW selecting, NEW f, NEW g, NEW h \in Handlers, NEW parent, SameHandler(h),
         DOMAIN children[h] = 1 .. Len(children[h]), \A c \in ToSet(children[h]) : f[c] = g[c]
  PROVE  CollectedOf(selecting, f, h, parent) = CollectedOf(selecting, g, h, parent)'
<1>1. CollectedOf(selecting, f, h, parent) = CollectedOf(selecting, g, h, parent)
  BY CollectedOfSame
<1>2. /\ children'[h] = children[h] /\ scopes'[h] = scopes[h] /\ scopeName'[h] = scopeName[h]
      /\ bindings'[h] = bindings[h] /\ selector'[h] = selector[h]
  BY DEF SameHandler
<1>3. Bound(h, parent) = Bound(h, parent)'
  BY <1>2 DEF Bound
<1>4. ChildScope(h, parent) = ChildScope(h, parent)'
  BY <1>2, <1>3 DEF ChildScope
<1>5. CollectedOf(selecting, g, h, parent) = CollectedOf(selecting, g, h, parent)'
  BY <1>2, <1>3, <1>4 DEF CollectedOf, SelectTasks
<1> QED
  BY <1>1, <1>5

LEMMA CollectedKept ==
  ASSUME LinksInv, LinksGood', Acyclic(children'), NEW e \in AllEvents, SameEvent(e),
         \A h \in Under(handlers', children', e) : SameHandler(h), NEW selecting \in BOOLEAN
  PROVE  Collected(handlers[e], selecting)' = Collected(handlers[e], selecting)
<1> DEFINE U == Under(handlers', children', e)
<1>1. U \in SUBSET Handlers /\ (\A h \in U : SameHandler(h)) /\ handlers'[e] = handlers[e]
  BY UnderFacts DEF SameEvent, LinksGood, LinksTyped
<1>2. /\ LinksGood /\ Acyclic(children) /\ (LinksGood /\ Acyclic(children))'
      /\ Acyclic(children')
      /\ handlers' \in [AllEvents -> Lists] /\ children' \in [Handlers -> Lists]
      /\ handlers \in [AllEvents -> Lists]
  BY DEF LinksInv, LinksGood, LinksTyped
<1>3. PICK hs \in Lists : hs = handlers[e]
  BY <1>2
<1>4. CollectedSolved
  BY <1>2, CollectedBySolution
<1>5. CollectedSolved'
  BY <1>2, CollectedSolvedNext
<1>6. PICK f : /\ Collects(selecting, f)
               /\ Collected(hs, selecting) = FlattenSeq([i \in DOMAIN hs |-> f[hs[i]][NoScope]])
  BY <1>4 DEF CollectedSolved
<1>7. PICK g : /\ Collects(selecting, g)'
               /\ Collected(hs, selecting)' = FlattenSeq([i \in DOMAIN hs |-> g[hs[i]][NoScope]])
  BY <1>5 DEF CollectedSolved
<1>8. /\ ToSet(handlers'[e]) \subseteq U
      /\ \A m \in U : ToSet(children'[m]) \subseteq U
  BY <1>2, UnderFacts
<1> HIDE DEF U
<1>9. \A h \in U : f[h] = g[h]
  <2> DEFINE W == {h \in U : f[h] # g[h]}
  <2>1. SUFFICES ASSUME W # {} PROVE FALSE
    OBVIOUS
  <2>2. W \in SUBSET Handlers
    BY <1>1
  <2>3. PICK h \in W : ToSet(children'[h]) \intersect W = {}
    <3> HIDE DEF W
    <3> QED
      BY <1>2, <2>1, <2>2, LowestHandler
  <2>4. h \in Handlers /\ h \in U /\ SameHandler(h)
    BY <1>1
  <2>5. children'[h] = children[h] /\ DOMAIN children[h] = 1 .. Len(children[h])
    BY <1>2, <2>4 DEF SameHandler, Lists
  <2>6. \A c \in ToSet(children[h]) : f[c] = g[c]
    BY <1>8, <2>3, <2>4, <2>5
  <2>7. \A parent \in Outer :
          CollectedOf(selecting, f, h, parent) = CollectedOf(selecting, g, h, parent)'
    BY <2>4, <2>5, <2>6, CollectedOfKept
  <2>8. f[h] = [parent \in Outer |-> CollectedOf(selecting, f, h, parent)]
    BY <1>6, <2>4 DEF Collects
  <2>9. g[h] = [parent \in Outer |-> CollectedOf(selecting, g, h, parent)']
    BY <1>7, <2>4 DEF Collects, Outer
  <2>10. f[h] = g[h]
    BY <2>7, <2>8, <2>9
  <2> QED
    BY <2>10
<1>10. \A i \in DOMAIN hs : hs[i] \in U
  BY <1>1, <1>3, <1>8 DEF ToSet
<1>11. Collected(hs, selecting)' = Collected(hs, selecting)
  BY <1>6, <1>7, <1>9, <1>10
<1> QED
  BY <1>1, <1>3, <1>11

\* Nor does what is found of it change.
LEMMA FoundKept ==
  ASSUME LinksInv, LinksGood', Acyclic(children'), NEW e \in AllEvents, SameEvent(e),
         \A h \in Under(handlers', children', e) : SameHandler(h),
         Under(handlers', children', e) = Under(handlers, children, e)
  PROVE  /\ NotFound(e)' <=> NotFound(e)
         /\ NodesUnder(e)' = NodesUnder(e)
         /\ Collected(handlers[e], e \in selects)' = Collected(handlers[e], e \in selects)
<1>1. /\ \A h \in Under(handlers', children', e) : SameHandler(h)
      /\ Under(handlers', children', e) = Under(handlers, children, e)
      /\ SameEvent(e)
  OBVIOUS
<1>2. \A selecting \in BOOLEAN :
        Collected(handlers[e], selecting)' = Collected(handlers[e], selecting)
  BY CollectedKept
<1>3. Collected(handlers[e], TRUE)' = Collected(handlers[e], TRUE)
  BY <1>2
<1>4. NotFound(e)' <=> NotFound(e)
  BY <1>3 DEF NotFound
<1>5. NodesUnder(e)' = NodesUnder(e)
  <2>1. \A h \in Under(handlers, children, e) : NamedBy(h)' = NamedBy(h)
    BY <1>1 DEF SameHandler, NamedBy
  <2>2. HandlersUnder(e)' = HandlersUnder(e) /\ HandlersUnder(e) = Under(handlers, children, e)
    BY <1>1 DEF HandlersUnder, Under
  <2> QED
    BY <2>1, <2>2 DEF NodesUnder
<1>6. (e \in selects') = (e \in selects)
  BY <1>1 DEF SameEvent
<1>7. Collected(handlers[e], e \in selects)' = Collected(handlers[e], e \in selects)
  <2>1. PICK b \in BOOLEAN : b = (e \in selects)
    <3>1. (e \in selects) \in BOOLEAN
      OBVIOUS
    <3> QED
      BY <3>1, Zenon
  <2>2. Collected(handlers[e], b)' = Collected(handlers[e], b)
    BY <1>2
  <2> QED
    BY <1>6, <2>1, <2>2
<1> QED
  BY <1>4, <1>5, <1>7
LEMMA UnmarkedFound ==
  ASSUME LinksInv, NEW gone, EditOf(gone), NEW e \in AllEvents, e \notin marked', e \notin gone
  PROVE  /\ NotFound(e)' <=> NotFound(e)
         /\ NodesUnder(e)' = NodesUnder(e)
         /\ Collected(handlers[e], e \in selects)' = Collected(handlers[e], e \in selects)
<1>1. LinksGood' /\ Acyclic(children')
  BY DEF EditOf
<1>2. /\ \A h \in Under(handlers', children', e) : SameHandler(h)
      /\ Under(handlers', children', e) = Under(handlers, children, e)
      /\ SameEvent(e)
  BY UnmarkedSame
<1> QED
  BY <1>1, <1>2, FoundKept
-----------------------------------------------------------------------------
(***************************************************************************)
(* Answers: whether an object can execute, and what an event keeps to run.  *)
(***************************************************************************)
\* A handler by itself is fit to run.
Fit(h) == ~NotBound(h) /\ NamedBy(h) \intersect broken = {}

\* An answer is that of the object itself and of those it runs.
HandlerAnswered(h) ==
  /\ can[h] = "can" => Fit(h) /\ \A c \in ToSet(children[h]) : can[c] = "can"
  /\ can[h] = "cannot" => ~Fit(h) \/ \E c \in ToSet(children[h]) : can[c] = "cannot"

EventAnswered(e) ==
  /\ can[e] = "can" => ~NotFound(e) /\ \A c \in ToSet(handlers[e]) : can[c] = "can"
  /\ can[e] = "cannot" => NotFound(e) \/ \E c \in ToSet(handlers[e]) : can[c] = "cannot"

EventKept(e) ==
  can[e] = "can" => stream[e] = NodesUnder(e) /\ tasks[e] = Collected(handlers[e], e \in selects)

AnswersInv ==
  /\ ErrorsCurrent
  /\ \A o \in marked : can[o] = "null"
  /\ \A h \in Handlers : HandlerAnswered(h)
  /\ \A e \in AllEvents : EventAnswered(e) /\ EventKept(e)

EventsInv == LinksInv /\ AnswersInv

LEMMA NothingCollected ==
  ASSUME NEW selecting
  PROVE  Collected(<<>>, selecting) = <<>>
<1>1. PICK f : Collected(<<>>, selecting) = FlattenSeq([i \in DOMAIN <<>> |-> f[<<>>[i]][NoScope]])
  BY DEF Collected
<1> DEFINE s == [i \in DOMAIN <<>> |-> f[<<>>[i]][NoScope]]
<1>2. s = <<>>
  OBVIOUS
<1>3. FlattenSeq(<<>>) = <<>>
  BY DEF FlattenSeq
<1> QED
  BY <1>1, <1>2, <1>3

NothingFound == \A e \in AllEvents : handlers[e] = <<>> => ~NotFound(e)

LEMMA NothingIsFound == NothingFound
<1>1. SUFFICES ASSUME NEW e \in AllEvents, handlers[e] = <<>> PROVE ~NotFound(e)
  BY DEF NothingFound
<1>2. Collected(handlers[e], TRUE) = <<>>
  BY <1>1, NothingCollected
<1>3. DOMAIN <<>> = {}
  OBVIOUS
<1> QED
  BY <1>2, <1>3 DEF NotFound

LEMMA NothingFoundNext == NothingFound'
BY NothingIsFound, PTL

LEMMA EditKeepsErrors ==
  ASSUME LinksInv, ErrorsCurrent, NEW gone, EditOf(gone)
  PROVE  ErrorsCurrent'
<1>1. /\ \A h \in Handlers \ (marked' \union gone) : SameHandler(h)
      /\ \A o \in Objects \ (marked' \union gone) : o \in errors' <=> o \in errors
      /\ \A h \in Handlers \intersect gone : h \notin errors' /\ selector'[h] = NoName
      /\ \A e \in AllEvents \intersect gone : e \notin errors' /\ handlers'[e] = <<>>
      /\ marked \subseteq marked' \union gone
  BY DEF EditOf, Elsewhere, Gone, MarksMade
<1>2. ASSUME NEW h \in Handlers, h \notin marked'
      PROVE  h \in errors' <=> NotBound(h)'
  <2>1. CASE h \in gone
    BY <1>1, <2>1 DEF NotBound
  <2>2. CASE h \notin gone
    <3>1. SameHandler(h) /\ h \notin marked /\ (h \in errors' <=> h \in errors)
      BY <1>1, <1>2, <2>2, ObjectKinds
    <3>2. h \in errors <=> NotBound(h)
      BY <3>1 DEF ErrorsCurrent
    <3>3. NotBound(h)' <=> NotBound(h)
      BY <3>1 DEF SameHandler, NotBound
    <3> QED
      BY <3>1, <3>2, <3>3
  <2> QED
    BY <2>1, <2>2
<1>3. ASSUME NEW e \in AllEvents, e \notin marked'
      PROVE  e \in errors' <=> NotFound(e)'
  <2>1. CASE e \in gone
    BY <1>1, <2>1, NothingFoundNext DEF NothingFound
  <2>2. CASE e \notin gone
    <3>1. e \notin marked /\ (e \in errors' <=> e \in errors)
      BY <1>1, <1>3, <2>2, ObjectKinds
    <3>2. e \in errors <=> NotFound(e)
      BY <3>1 DEF ErrorsCurrent
    <3>3. NotFound(e)' <=> NotFound(e)
      BY <1>3, <2>2, UnmarkedFound
    <3> QED
      BY <3>1, <3>2, <3>3
  <2> QED
    BY <2>1, <2>2
<1> QED
  BY <1>2, <1>3 DEF ErrorsCurrent

LEMMA EditKeepsHandlers ==
  ASSUME LinksInv, AnswersInv, NEW gone, EditOf(gone), NEW h \in Handlers
  PROVE  HandlerAnswered(h)'
<1>1. /\ \A g \in Handlers \ (marked' \union gone) : SameHandler(g)
      /\ \A o \in Objects : can'[o] = IF o \in marked' \union gone THEN "null" ELSE can[o]
      /\ ReachUp(marked', events', parents')
      /\ \A g \in Handlers \intersect gone : Up(events', parents', g) = {}
      /\ LinksGood'
  BY DEF EditOf, Elsewhere, MarksMade, Gone
<1>2. CASE h \in marked' \union gone
  <2>1. can'[h] = "null"
    BY <1>1, <1>2, ObjectKinds
  <2> QED
    BY <2>1 DEF HandlerAnswered
<1>3. CASE h \notin marked' \union gone
  <2>1. SameHandler(h) /\ can'[h] = can[h]
    BY <1>1, <1>3, ObjectKinds
  <2>2. HandlerAnswered(h)
    BY DEF AnswersInv
  <2>3. children' \in [Handlers -> Lists] /\ children'[h] = children[h]
    BY <1>1, <2>1 DEF LinksGood, LinksTyped, SameHandler
  <2>4. ASSUME NEW c \in ToSet(children[h])
        PROVE  can'[c] = can[c]
    <3>1. c \in Handlers /\ c \in ToSet(children'[h])
      BY <2>3 DEF ToSet, Lists
    <3>2. parents'[c][h] = Times(children'[h], c)
      BY <1>1, <3>1 DEF LinksGood, LinksExact
    <3>3. Times(children'[h], c) > 0
      BY <2>3, <3>1, TimesFacts
    <3>4. h \in Up(events', parents', c)
      BY <3>2, <3>3 DEF Up
    <3>5. c \notin marked' /\ c \notin gone
      BY <1>1, <1>3, <3>1, <3>4 DEF ReachUp
    <3> QED
      BY <1>1, <3>1, <3>5, ObjectKinds
  <2>5. Fit(h)' <=> Fit(h)
    <3>1. NotBound(h)' <=> NotBound(h)
      BY <2>1 DEF SameHandler, NotBound
    <3>2. NamedBy(h)' = NamedBy(h)
      BY <2>1 DEF SameHandler, NamedBy
    <3>3. \A m \in NamedBy(h) : m \in broken' <=> m \in broken
      BY <2>1 DEF SameHandler, NamedBy
    <3> QED
      BY <3>1, <3>2, <3>3 DEF Fit
  <2> QED
    BY <2>1, <2>2, <2>3, <2>4, <2>5 DEF HandlerAnswered
<1> QED
  BY <1>2, <1>3

LEMMA EditKeepsEvents ==
  ASSUME LinksInv, AnswersInv, NEW gone, EditOf(gone), NEW e \in AllEvents
  PROVE  EventAnswered(e)' /\ EventKept(e)'
<1>1. /\ \A o \in Objects : can'[o] = IF o \in marked' \union gone THEN "null" ELSE can[o]
      /\ \A d \in AllEvents \ (marked' \union gone) : stream'[d] = stream[d] /\ tasks'[d] = tasks[d]
      /\ LinksGood'
  BY DEF EditOf, MarksMade
<1>2. CASE e \in marked' \union gone
  <2>1. can'[e] = "null"
    BY <1>1, <1>2, ObjectKinds
  <2> QED
    BY <2>1 DEF EventAnswered, EventKept
<1>3. CASE e \notin marked' \union gone
  <2>1. /\ Under(handlers', children', e) \in SUBSET Handlers
        /\ \A h \in Under(handlers', children', e) : h \notin marked' /\ h \notin gone
        /\ SameEvent(e)
    BY <1>3, UnmarkedSame
  <2>2. /\ NotFound(e)' <=> NotFound(e)
        /\ NodesUnder(e)' = NodesUnder(e)
        /\ Collected(handlers[e], e \in selects)' = Collected(handlers[e], e \in selects)
    BY <1>3, UnmarkedFound
  <2>3. EventAnswered(e) /\ EventKept(e)
    BY DEF AnswersInv
  <2>4. /\ can'[e] = can[e] /\ stream'[e] = stream[e] /\ tasks'[e] = tasks[e]
        /\ handlers'[e] = handlers[e]
    BY <1>1, <1>3, <2>1, ObjectKinds DEF SameEvent
  <2>5. ToSet(handlers'[e]) \subseteq Under(handlers', children', e)
    BY <1>1, UnderFacts DEF LinksGood, LinksTyped
  <2>6. \A c \in ToSet(handlers[e]) : can'[c] = can[c]
    BY <1>1, <2>1, <2>4, <2>5, ObjectKinds
  <2>7. EventAnswered(e)'
    BY <2>2, <2>3, <2>4, <2>6 DEF EventAnswered
  <2>8. EventKept(e)'
    BY <2>2, <2>3, <2>4 DEF EventKept
  <2> QED
    BY <2>7, <2>8
<1> QED
  BY <1>2, <1>3

LEMMA EditKeepsInv ==
  ASSUME EventsInv, NEW gone, EditOf(gone)
  PROVE  EventsInv'
<1>1. LinksInv /\ AnswersInv /\ ErrorsCurrent
  BY DEF EventsInv, AnswersInv
<1>2. LinksInv'
  BY DEF EditOf, LinksInv, MarksMade
<1>3. ErrorsCurrent'
  BY <1>1, EditKeepsErrors
<1>4. \A o \in marked' : can'[o] = "null"
  BY DEF EditOf, MarksMade
<1>5. \A h \in Handlers : HandlerAnswered(h)'
  BY <1>1, EditKeepsHandlers
<1>6. \A e \in AllEvents : EventAnswered(e)' /\ EventKept(e)'
  BY <1>1, EditKeepsEvents
<1> QED
  BY <1>2, <1>3, <1>4, <1>5, <1>6 DEF EventsInv, AnswersInv
-----------------------------------------------------------------------------
(***************************************************************************)
(* PrepareForExecution, and who is asked whether it can execute.            *)
(***************************************************************************)
LEMMA FirstOf ==
  ASSUME NEW S \in SUBSET Nat, S # {}
  PROVE  \E i \in S : \A k \in S : i <= k
<1> DEFINE R == OpToRel(<, Nat)
<1>1. IsWellFoundedOn(R, Nat)
  BY NatLessThanWellFounded
<1>2. PICK i \in S : \A k \in S : <<k, i>> \notin R
  <2> HIDE DEF R
  <2> QED
    BY <1>1, WFMin
<1>3. \A k \in S : ~(k < i)
  BY <1>2 DEF OpToRel
<1> QED
  BY <1>3

\* The errors that Compile leaves are those of the present graph.
LEMMA CompiledErrorsExact ==
  ASSUME ErrorsCurrent
  PROVE  /\ \A h \in Handlers : h \in CompiledErrors <=> NotBound(h)
         /\ \A e \in AllEvents : e \in CompiledErrors <=> NotFound(e)
         /\ \A h \in Handlers : CanAlone(h) <=> Fit(h)
<1>1. \A h \in Handlers : h \in CompiledErrors <=> NotBound(h)
  BY ObjectKinds DEF CompiledErrors, ErrorsCurrent
<1>2. \A e \in AllEvents : e \in CompiledErrors <=> NotFound(e)
  BY ObjectKinds DEF CompiledErrors, ErrorsCurrent
<1>3. \A h \in Handlers : CanAlone(h) <=> Fit(h)
  BY <1>1 DEF CanAlone, Fit
<1> QED
  BY <1>1, <1>2, <1>3

\* The answer of a handler, when a has those of its children.
AnswerOf(a, h) ==
  IF can[h] # "null" THEN can[h]
  ELSE IF CanAlone(h) /\ \A i \in DOMAIN children[h] : a[children[h][i]] = "can"
  THEN "can" ELSE "cannot"

LEMMA AnswerOfSame ==
  ASSUME NEW a, NEW b, NEW h, \A c \in ToSet(children[h]) : a[c] = b[c]
  PROVE  AnswerOf(a, h) = AnswerOf(b, h)
BY DEF AnswerOf, ToSet

LEMMA AnswerExists ==
  ASSUME children \in [Handlers -> Lists], Acyclic(children)
  PROVE  \E a : a = [h \in Handlers |-> AnswerOf(a, h)]
<1> DEFINE At(a, h) == a[h] = AnswerOf(a, h)
           K == {D \in SUBSET Handlers : /\ \A h \in D : ToSet(children[h]) \subseteq D
                                         /\ \E a : \A h \in D : At(a, h)}
<1>1. {} \in K
  OBVIOUS
<1>2. ASSUME NEW D \in K, NEW h \in Handlers, h \notin D, ToSet(children[h]) \subseteq D
      PROVE  D \union {h} \in K
  <2>1. PICK a : \A g \in D : At(a, g)
    BY <1>2
  <2> DEFINE F == [g \in Handlers |-> IF g = h THEN AnswerOf(a, h) ELSE a[g]]
  <2>2. D \in SUBSET Handlers /\ \A g \in D : ToSet(children[g]) \subseteq D
    BY <1>2
  <2>3. F[h] = AnswerOf(a, h) /\ \A g \in D : F[g] = a[g]
    BY <1>2, <2>2
  <2> HIDE DEF F
  <2>4. ASSUME NEW g \in D \union {h}
        PROVE  At(F, g)
    <3>1. \A c \in ToSet(children[g]) : F[c] = a[c]
      BY <1>2, <2>2, <2>3
    <3>2. AnswerOf(F, g) = AnswerOf(a, g)
      BY <3>1, AnswerOfSame
    <3>3. F[g] = AnswerOf(a, g)
      <4>1. CASE g = h
        BY <2>3, <4>1
      <4>2. CASE g # h
        BY <2>1, <2>3, <4>2
      <4> QED
        BY <4>1, <4>2
    <3> QED
      BY <3>2, <3>3
  <2>5. \E f1 : \A g \in D \union {h} : At(f1, g)
    BY <2>4
  <2> HIDE DEF At
  <2> QED
    BY <1>2, <2>2, <2>5
<1>3. K \in SUBSET SUBSET Handlers
  OBVIOUS
<1>4. Handlers \in K
  <2> HIDE DEF K
  <2> QED
    BY <1>1, <1>2, <1>3, LowestFirst
<1>5. PICK a : \A h \in Handlers : At(a, h)
  BY <1>4
<1> DEFINE F == [h \in Handlers |-> a[h]]
<1>6. \A h \in Handlers : F[h] = a[h]
  OBVIOUS
<1>7. F = [h \in Handlers |-> F[h]]
  OBVIOUS
<1> HIDE DEF F
<1>8. ASSUME NEW h \in Handlers
      PROVE  F[h] = AnswerOf(F, h)
  <2>1. \A c \in ToSet(children[h]) : F[c] = a[c]
    BY <1>6 DEF ToSet, Lists
  <2>2. AnswerOf(F, h) = AnswerOf(a, h)
    BY <2>1, AnswerOfSame
  <2> QED
    BY <1>5, <1>6, <2>2
<1>9. F = [h \in Handlers |-> AnswerOf(F, h)]
  BY <1>7, <1>8
<1> QED
  BY <1>9

LEMMA AnswerFacts ==
  ASSUME children \in [Handlers -> Lists], Acyclic(children),
         can \in [Objects -> {"null", "can", "cannot"}]
  PROVE  \A h \in Handlers : Answer[h] = AnswerOf(Answer, h) /\ Answer[h] \in {"can", "cannot"}
<1>1. PICK a : a = CHOOSE b : b = [h \in Handlers |-> AnswerOf(b, h)]
  OBVIOUS
<1>2. a = [h \in Handlers |-> AnswerOf(a, h)]
  BY <1>1, AnswerExists
<1>3. Answer = a
  BY <1>1 DEF Answer, AnswerOf
<1>4. \A h \in Handlers : Answer[h] = AnswerOf(Answer, h)
  BY <1>2, <1>3
<1>5. \A h \in Handlers : AnswerOf(Answer, h) \in {"can", "cannot"}
  BY ObjectKinds DEF AnswerOf
<1> QED
  BY <1>4, <1>5

\* Of a list, those are asked that decide whether all can.
LEMMA AsksFacts ==
  ASSUME NEW hs \in Lists, \A h \in Handlers : Answer[h] \in {"can", "cannot"}
  PROVE  /\ Asks(hs) \subseteq ToSet(hs)
         /\ AllCan(hs) <=> \A c \in ToSet(hs) : Answer[c] = "can"
         /\ AllCan(hs) => Asks(hs) = ToSet(hs)
         /\ ~AllCan(hs) => \E c \in Asks(hs) : Answer[c] = "cannot"
<1>1. DOMAIN hs = 1 .. Len(hs) /\ Len(hs) \in Nat /\ \A i \in DOMAIN hs : hs[i] \in Handlers
  BY DEF Lists
<1>2. Asks(hs) \subseteq ToSet(hs)
  BY DEF Asks, ToSet
<1>3. AllCan(hs) <=> \A c \in ToSet(hs) : Answer[c] = "can"
  BY DEF AllCan, ToSet
<1>4. ASSUME AllCan(hs) PROVE Asks(hs) = ToSet(hs)
  <2>1. ASSUME NEW i \in DOMAIN hs PROVE \A k \in 1 .. i - 1 : Answer[hs[k]] = "can"
    BY <1>1, <1>4 DEF AllCan
  <2> QED
    BY <1>2, <2>1 DEF Asks, ToSet
<1>5. ASSUME ~AllCan(hs) PROVE \E c \in Asks(hs) : Answer[c] = "cannot"
  <2> DEFINE S == {i \in DOMAIN hs : Answer[hs[i]] # "can"}
  <2>1. S \in SUBSET Nat /\ S # {}
    BY <1>1, <1>5 DEF AllCan
  <2>2. PICK i \in S : \A k \in S : i <= k
    <3> HIDE DEF S
    <3> QED
      BY <2>1, FirstOf
  <2>3. i \in DOMAIN hs /\ Answer[hs[i]] = "cannot"
    BY <1>1
  <2>4. \A k \in 1 .. i - 1 : k \in DOMAIN hs /\ ~(i <= k)
    BY <1>1, <2>3
  <2>5. \A k \in 1 .. i - 1 : Answer[hs[k]] = "can"
    BY <2>2, <2>4
  <2>6. hs[i] \in Asks(hs)
    BY <2>3, <2>5 DEF Asks
  <2> QED
    BY <2>3, <2>6
<1> QED
  BY <1>2, <1>3, <1>4, <1>5

\* The handlers asked, and those that they ask.
LEMMA AskedFacts ==
  ASSUME LinksInv, NEW e \in AllEvents, \A h \in Handlers : Answer[h] \in {"can", "cannot"}
  PROVE  /\ Asked(e) \in SUBSET Handlers
         /\ Asks(handlers[e]) \subseteq Asked(e)
         /\ \A h \in Asked(e) : can[h] = "null" /\ CanAlone(h) => Asks(children[h]) \subseteq Asked(e)
<1> DEFINE next == [o \in Objects |->
             IF o \in Handlers /\ can[o] = "null" /\ CanAlone(o) THEN Asks(children[o]) ELSE {}]
<1>1. handlers \in [AllEvents -> Lists] /\ children \in [Handlers -> Lists]
  BY DEF LinksInv, LinksGood, LinksTyped
<1>2. \A hs \in Lists : Asks(hs) \subseteq Handlers
  <2>1. \A hs \in Lists : ToSet(hs) \subseteq Handlers
    BY DEF ToSet, Lists
  <2> QED
    BY <2>1, AsksFacts
<1>3. next \in [Objects -> SUBSET Objects] /\ \A o \in Objects : next[o] \subseteq Handlers
  BY <1>1, <1>2, ObjectKinds
<1>4. PICK S \in SUBSET Objects : S = Asks(handlers[e]) /\ S \subseteq Handlers
  BY <1>1, <1>2, ObjectKinds
<1>5. Asked(e) = Reach(S, next)
  BY <1>4 DEF Asked
<1>6. \A h \in Handlers : can[h] = "null" /\ CanAlone(h) => next[h] = Asks(children[h])
  BY ObjectKinds
<1> HIDE DEF next
<1>7. /\ S \subseteq Reach(S, next)
      /\ \A o \in Reach(S, next) : next[o] \subseteq Reach(S, next)
      /\ \A T \in SUBSET Objects :
           S \subseteq T /\ (\A o \in T : next[o] \subseteq T) => Reach(S, next) \subseteq T
  BY <1>3, ReachFacts
<1>8. Handlers \in SUBSET Objects /\ \A o \in Handlers : next[o] \subseteq Handlers
  BY <1>3, ObjectKinds
<1>9. Reach(S, next) \subseteq Handlers
  BY <1>4, <1>7, <1>8
<1> QED
  BY <1>4, <1>5, <1>6, <1>7, <1>9

\* What the answers are after e was asked: those kept before are kept.
LEMMA EnsuredFacts ==
  ASSUME EventsInv, NEW e \in AllEvents
  PROVE  LET R == EnsuredEvent(e)
         IN  /\ R \in [Objects -> {"null", "can", "cannot"}]
             /\ \A o \in Objects : can[o] # "null" => R[o] = can[o]
             /\ \A d \in AllEvents : d # e => R[d] = can[d]
             /\ \A h \in Handlers :
                  /\ R[h] = "can" => Fit(h) /\ \A c \in ToSet(children[h]) : R[c] = "can"
                  /\ R[h] = "cannot" => ~Fit(h) \/ \E c \in ToSet(children[h]) : R[c] = "cannot"
             /\ R[e] = "can" => ~NotFound(e) /\ \A c \in ToSet(handlers[e]) : R[c] = "can"
             /\ R[e] = "cannot" => NotFound(e) \/ \E c \in ToSet(handlers[e]) : R[c] = "cannot"
<1> DEFINE R == EnsuredEvent(e)
<1>1. /\ handlers \in [AllEvents -> Lists] /\ children \in [Handlers -> Lists]
      /\ Acyclic(children) /\ can \in [Objects -> {"null", "can", "cannot"}]
      /\ LinksInv /\ ErrorsCurrent
      /\ (\A h \in Handlers : HandlerAnswered(h)) /\ EventAnswered(e)
  BY DEF EventsInv, LinksInv, AnswersInv, LinksGood, LinksTyped, RestTyped
<1>2. /\ e \in CompiledErrors <=> NotFound(e)
      /\ \A h \in Handlers : CanAlone(h) <=> Fit(h)
  BY <1>1, CompiledErrorsExact
<1>3. \A s \in Lists : ToSet(s) \subseteq Handlers
  BY DEF ToSet, Lists
<1>4. CASE can[e] # "null"
  <2>1. R = can
    BY <1>4 DEF EnsuredEvent
  <2> QED
    BY <1>1, <2>1 DEF HandlerAnswered, EventAnswered
<1>5. CASE can[e] = "null" /\ e \in CompiledErrors
  <2>1. R = [can EXCEPT ![e] = "cannot"]
    BY <1>5 DEF EnsuredEvent
  <2>2. R \in [Objects -> {"null", "can", "cannot"}] /\ R[e] = "cannot"
        /\ \A o \in Objects : o # e => R[o] = can[o]
    BY <1>1, <2>1, ObjectKinds
  <2> HIDE DEF R
  <2>3. \A h \in Handlers : R[h] = can[h]
    BY <2>2, ObjectKinds
  <2>4. \A h \in Handlers :
          /\ R[h] = "can" => Fit(h) /\ \A c \in ToSet(children[h]) : R[c] = "can"
          /\ R[h] = "cannot" => ~Fit(h) \/ \E c \in ToSet(children[h]) : R[c] = "cannot"
    BY <1>1, <1>3, <2>3 DEF HandlerAnswered
  <2>5. \A d \in AllEvents : d # e => R[d] = can[d]
    BY <2>2, ObjectKinds
  <2>6. \A o \in Objects : can[o] # "null" => R[o] = can[o]
    BY <1>5, <2>2
  <2>7. NotFound(e)
    BY <1>2, <1>5
  <2> QED
    BY <2>2, <2>4, <2>5, <2>6, <2>7 DEF R
<1>6. CASE can[e] = "null" /\ e \notin CompiledErrors
  <2>1. R = [o \in Objects |->
              IF o = e THEN IF AllCan(handlers[e]) THEN "can" ELSE "cannot"
              ELSE IF o \in Asked(e) THEN Answer[o] ELSE can[o]]
    BY <1>6 DEF EnsuredEvent
  <2>2. \A h \in Handlers : Answer[h] = AnswerOf(Answer, h) /\ Answer[h] \in {"can", "cannot"}
    BY <1>1, AnswerFacts
  <2>3. /\ Asked(e) \in SUBSET Handlers
        /\ Asks(handlers[e]) \subseteq Asked(e)
        /\ \A h \in Asked(e) : can[h] = "null" /\ CanAlone(h) => Asks(children[h]) \subseteq Asked(e)
    BY <1>1, <2>2, AskedFacts
  <2>4. /\ R[e] = IF AllCan(handlers[e]) THEN "can" ELSE "cannot"
        /\ \A h \in Handlers : R[h] = IF h \in Asked(e) THEN Answer[h] ELSE can[h]
        /\ \A d \in AllEvents : d # e => R[d] = can[d]
    BY <2>1, <2>3, ObjectKinds
  <2>5. R \in [Objects -> {"null", "can", "cannot"}]
    <3>1. ASSUME NEW o \in Objects
          PROVE  R[o] \in {"null", "can", "cannot"}
      <4>1. o \in Handlers \/ o \in AllEvents
        BY DEF Objects
      <4> HIDE DEF R
      <4> QED
        BY <1>1, <2>2, <2>4, <4>1
    <3> QED
      BY <2>1, <3>1
  <2> HIDE DEF R
  <2>6. ASSUME NEW h \in Handlers, can[h] # "null" PROVE R[h] = can[h]
    BY <2>2, <2>4, <2>6 DEF AnswerOf
  <2>7. \A o \in Objects : can[o] # "null" => R[o] = can[o]
    BY <1>6, <2>4, <2>6 DEF Objects
  <2>8. ASSUME NEW hs \in Lists, Asks(hs) \subseteq Asked(e)
        PROVE  /\ AllCan(hs) => \A c \in ToSet(hs) : R[c] = "can"
               /\ ~AllCan(hs) => \E c \in ToSet(hs) : R[c] = "cannot"
    <3>1. /\ Asks(hs) \subseteq ToSet(hs)
          /\ AllCan(hs) <=> \A c \in ToSet(hs) : Answer[c] = "can"
          /\ AllCan(hs) => Asks(hs) = ToSet(hs)
          /\ ~AllCan(hs) => \E c \in Asks(hs) : Answer[c] = "cannot"
      BY <2>2, AsksFacts
    <3>2. \A c \in Asks(hs) : R[c] = Answer[c]
      BY <1>3, <2>4, <2>8, <3>1
    <3> QED
      BY <3>1, <3>2
  <2>9. ASSUME NEW h \in Handlers
        PROVE  /\ R[h] = "can" => Fit(h) /\ \A c \in ToSet(children[h]) : R[c] = "can"
               /\ R[h] = "cannot" => ~Fit(h) \/ \E c \in ToSet(children[h]) : R[c] = "cannot"
    <3>1. children[h] \in Lists
      BY <1>1
    <3>2. CASE can[h] # "null"
      <4>1. R[h] = can[h] /\ HandlerAnswered(h)
        BY <1>1, <2>6, <3>2
      <4>2. \A c \in ToSet(children[h]) : can[c] # "null" => R[c] = can[c]
        BY <1>3, <2>6, <3>1
      <4> QED
        BY <4>1, <4>2 DEF HandlerAnswered
    <3>3. CASE can[h] = "null" /\ h \notin Asked(e)
      BY <2>4, <3>3
    <3>4. CASE can[h] = "null" /\ h \in Asked(e)
      <4>1. R[h] = Answer[h]
        BY <2>4, <3>4
      <4>2. Answer[h] = IF CanAlone(h) /\ AllCan(children[h]) THEN "can" ELSE "cannot"
        BY <2>2, <3>4 DEF AnswerOf, AllCan
      <4>3. CASE ~CanAlone(h)
        BY <1>2, <4>1, <4>2, <4>3
      <4>4. CASE CanAlone(h)
        <5>1. Asks(children[h]) \subseteq Asked(e)
          BY <2>3, <3>4, <4>4
        <5>2. /\ AllCan(children[h]) => \A c \in ToSet(children[h]) : R[c] = "can"
              /\ ~AllCan(children[h]) => \E c \in ToSet(children[h]) : R[c] = "cannot"
          BY <2>8, <3>1, <5>1
        <5> QED
          BY <1>2, <4>1, <4>2, <4>4, <5>2
      <4> QED
        BY <4>3, <4>4
    <3> QED
      BY <3>2, <3>3, <3>4
  <2>10. /\ AllCan(handlers[e]) => \A c \in ToSet(handlers[e]) : R[c] = "can"
         /\ ~AllCan(handlers[e]) => \E c \in ToSet(handlers[e]) : R[c] = "cannot"
    BY <1>1, <2>3, <2>8
  <2>11. /\ R[e] = "can" => ~NotFound(e) /\ \A c \in ToSet(handlers[e]) : R[c] = "can"
         /\ R[e] = "cannot" => NotFound(e) \/ \E c \in ToSet(handlers[e]) : R[c] = "cannot"
    BY <1>2, <1>6, <2>4, <2>10
  <2> QED
    BY <2>4, <2>5, <2>7, <2>9, <2>11 DEF R
<1> QED
  BY <1>4, <1>5, <1>6
-----------------------------------------------------------------------------
(***************************************************************************)
(* The tasks that are collected have their type.                            *)
(***************************************************************************)
LEMMA ConcatFacts ==
  ASSUME NEW X, NEW s \in Seq(X), NEW t \in Seq(X)
  PROVE  s \o t \in Seq(X) /\ ToSet(s \o t) = ToSet(s) \union ToSet(t)
<1> DEFINE u == s \o t
<1>1. Len(s) \in Nat /\ Len(t) \in Nat /\ DOMAIN s = 1 .. Len(s) /\ DOMAIN t = 1 .. Len(t)
  OBVIOUS
<1>2. u \in Seq(X) /\ Len(u) = Len(s) + Len(t)
  OBVIOUS
<1>3. \A i \in 1 .. Len(u) : u[i] = IF i <= Len(s) THEN s[i] ELSE t[i - Len(s)]
  OBVIOUS
<1>4. DOMAIN u = 1 .. Len(u)
  BY <1>2
<1> HIDE DEF u
<1>5. ToSet(u) \subseteq ToSet(s) \union ToSet(t)
  <2>1. ASSUME NEW i \in 1 .. Len(u) PROVE u[i] \in ToSet(s) \union ToSet(t)
    <3>1. CASE i <= Len(s)
      <4>1. u[i] = s[i] /\ i \in DOMAIN s
        BY <1>1, <1>2, <1>3, <3>1
      <4> QED
        BY <4>1 DEF ToSet
    <3>2. CASE ~(i <= Len(s))
      <4>1. u[i] = t[i - Len(s)] /\ i - Len(s) \in DOMAIN t
        BY <1>1, <1>2, <1>3, <3>2
      <4> QED
        BY <4>1 DEF ToSet
    <3> QED
      BY <3>1, <3>2
  <2> QED
    BY <1>4, <2>1 DEF ToSet
<1>6. ToSet(s) \subseteq ToSet(u)
  <2>1. \A i \in 1 .. Len(s) : i \in DOMAIN u /\ u[i] = s[i]
    BY <1>1, <1>2, <1>3, <1>4
  <2> QED
    BY <1>1, <2>1 DEF ToSet
<1>7. ToSet(t) \subseteq ToSet(u)
  <2>1. \A i \in 1 .. Len(t) : i + Len(s) \in DOMAIN u /\ u[i + Len(s)] = t[i]
    BY <1>1, <1>2, <1>3, <1>4
  <2> QED
    BY <1>1, <2>1 DEF ToSet
<1> QED
  BY <1>2, <1>5, <1>6, <1>7 DEF u

\* What FlattenSeq makes of the first k lists.
Flat(ss, k, f) == f = [i \in 1 .. k |-> IF i = 1 THEN ss[i] ELSE f[i - 1] \o ss[i]]

LEMMA FlatExists ==
  ASSUME NEW ss, NEW n \in Nat
  PROVE  \E f : Flat(ss, n, f)
<1> DEFINE S == {k \in Nat : \E f : Flat(ss, k, f)}
<1>1. 0 \in S
  <2>1. Flat(ss, 0, [i \in 1 .. 0 |-> <<>>])
    BY DEF Flat
  <2> QED
    BY <2>1
<1>2. ASSUME NEW k \in Nat, k \in S
      PROVE  k + 1 \in S
  <2>1. PICK f : Flat(ss, k, f)
    BY <1>2
  <2> DEFINE last == IF k + 1 = 1 THEN ss[k + 1] ELSE f[k] \o ss[k + 1]
             g == [i \in 1 .. k + 1 |-> IF i = k + 1 THEN last ELSE f[i]]
  <2>2. g = [i \in 1 .. k + 1 |-> g[i]]
    OBVIOUS
  <2>3. ASSUME NEW i \in 1 .. k + 1
        PROVE  g[i] = IF i = 1 THEN ss[i] ELSE g[i - 1] \o ss[i]
    <3>1. CASE i = k + 1
      <4>1. g[i] = last /\ (i # 1 => g[i - 1] = f[k])
        BY <3>1
      <4> HIDE DEF g
      <4> QED
        BY <3>1, <4>1
    <3>2. CASE i # k + 1
      <4>1. g[i] = f[i] /\ i \in 1 .. k /\ (i # 1 => g[i - 1] = f[i - 1])
        BY <3>2
      <4> HIDE DEF g
      <4> QED
        BY <2>1, <4>1 DEF Flat
    <3> QED
      BY <3>1, <3>2
  <2> HIDE DEF g
  <2>4. Flat(ss, k + 1, g)
    BY <2>2, <2>3 DEF Flat
  <2> QED
    BY <1>2, <2>4
<1> HIDE DEF S
<1>3. Nat \subseteq S
  BY <1>1, <1>2, SetInduction
<1> QED
  BY <1>3 DEF S

\* x is in one of the first k lists.
InSome(ss, k, x) == \E i \in 1 .. k : x \in ToSet(ss[i])

LEMMA InSomeStep ==
  ASSUME NEW ss, NEW k \in Nat, NEW x
  PROVE  /\ InSome(ss, k + 1, x) <=> InSome(ss, k, x) \/ x \in ToSet(ss[k + 1])
         /\ ~InSome(ss, 0, x)
<1>1. \A i : i \in 1 .. k + 1 <=> i \in 1 .. k \/ i = k + 1
  OBVIOUS
<1>2. ~ \E i : i \in 1 .. 0
  OBVIOUS
<1> QED
  BY <1>1, <1>2 DEF InSome

\* What is made of the first k lists has their elements.
FlatRight(X, ss, k, f) ==
  f[k] \in Seq(X) /\ \A x : x \in ToSet(f[k]) <=> InSome(ss, k, x)

LEMMA FlatStep ==
  ASSUME NEW X, NEW ss, NEW n \in Nat, NEW f, Flat(ss, n, f), NEW k \in Nat, k + 1 <= n,
         ss[k + 1] \in Seq(X), k # 0 => FlatRight(X, ss, k, f)
  PROVE  FlatRight(X, ss, k + 1, f)
<1>1. k + 1 \in 1 .. n /\ (k + 1) - 1 = k /\ (k + 1 = 1 <=> k = 0)
  OBVIOUS
<1>2. f[k + 1] = IF k = 0 THEN ss[k + 1] ELSE f[k] \o ss[k + 1]
  BY <1>1 DEF Flat
<1>3. \A x : /\ InSome(ss, k + 1, x) <=> InSome(ss, k, x) \/ x \in ToSet(ss[k + 1])
            /\ ~InSome(ss, 0, x)
  BY InSomeStep
<1>4. CASE k = 0
  BY <1>2, <1>3, <1>4 DEF FlatRight
<1>5. CASE k # 0
  <2>1. f[k + 1] = f[k] \o ss[k + 1] /\ f[k] \in Seq(X)
    BY <1>2, <1>5 DEF FlatRight
  <2>2. f[k + 1] \in Seq(X) /\ ToSet(f[k + 1]) = ToSet(f[k]) \union ToSet(ss[k + 1])
    BY <2>1, ConcatFacts
  <2> QED
    BY <1>3, <1>5, <2>2 DEF FlatRight
<1> QED
  BY <1>4, <1>5

\* FlattenSeq has the elements of the lists, and no others.
LEMMA FlattenFacts ==
  ASSUME NEW X, NEW n \in Nat, NEW ss, Len(ss) = n,
         \A i \in 1 .. n : ss[i] \in Seq(X), n = 0 => ss = <<>>
  PROVE  /\ FlattenSeq(ss) \in Seq(X)
         /\ \A x : x \in ToSet(FlattenSeq(ss)) <=> InSome(ss, n, x)
<1>1. CASE n = 0
  <2>1. FlattenSeq(ss) = <<>> /\ <<>> \in Seq(X) /\ ToSet(<<>>) = {}
    BY <1>1, EmptyFacts DEF FlattenSeq
  <2> QED
    BY <1>1, <2>1, InSomeStep
<1>2. CASE n # 0
  <2>1. PICK f : Flat(ss, n, f) /\ FlattenSeq(ss) = f[n]
    <3>1. PICK f : f = CHOOSE g : Flat(ss, n, g)
      OBVIOUS
    <3>2. Flat(ss, n, f)
      BY <3>1, FlatExists
    <3>3. FlattenSeq(ss) = f[n]
      BY <1>2, <3>1 DEF FlattenSeq, Flat
    <3> QED
      BY <3>2, <3>3
  <2> DEFINE S == {k \in Nat : k # 0 /\ k <= n => FlatRight(X, ss, k, f)}
  <2>2. 0 \in S
    OBVIOUS
  <2>3. ASSUME NEW k \in Nat, k \in S
        PROVE  k + 1 \in S
    <3>1. SUFFICES ASSUME k + 1 <= n PROVE FlatRight(X, ss, k + 1, f)
      OBVIOUS
    <3>2. ss[k + 1] \in Seq(X)
      BY <3>1
    <3>3. k # 0 => FlatRight(X, ss, k, f)
      BY <2>3, <3>1
    <3> QED
      BY <2>1, <3>1, <3>2, <3>3, FlatStep
  <2>4. Nat \subseteq S
    <3> HIDE DEF S
    <3> QED
      BY <2>2, <2>3, SetInduction
  <2>5. n \in S
    BY <2>4
  <2>6. FlatRight(X, ss, n, f)
    BY <1>2, <2>5
  <2> QED
    BY <2>1, <2>6 DEF FlatRight
<1> QED
  BY <1>1, <1>2

\* The lists that f makes of the handlers cs, one after the other.
LEMMA FlatMapFacts ==
  ASSUME NEW X, NEW cs \in Lists, NEW f, NEW p, \A c \in ToSet(cs) : f[c][p] \in Seq(X)
  PROVE  LET all == FlattenSeq([i \in DOMAIN cs |-> f[cs[i]][p]])
         IN  /\ all \in Seq(X)
             /\ \A x : x \in ToSet(all) <=> \E c \in ToSet(cs) : x \in ToSet(f[c][p])
<1> DEFINE m == [i \in DOMAIN cs |-> f[cs[i]][p]]
<1>1. Len(cs) \in Nat /\ DOMAIN cs = 1 .. Len(cs)
  BY DEF Lists
<1>2. \A i \in 1 .. Len(cs) : cs[i] \in ToSet(cs) /\ m[i] = f[cs[i]][p]
  BY <1>1 DEF ToSet
<1>3. Len(m) = Len(cs)
  <2>1. m = [i \in 1 .. Len(cs) |-> f[cs[i]][p]]
    BY <1>1
  <2> HIDE DEF m
  <2> QED
    BY <1>1, <2>1
<1>4. Len(cs) = 0 => m = <<>>
  <2>1. ASSUME Len(cs) = 0 PROVE m = <<>>
    <3>1. DOMAIN cs = {}
      BY <1>1, <2>1
    <3> QED
      BY <3>1
  <2> QED
    BY <2>1
<1> HIDE DEF m
<1>5. \A i \in 1 .. Len(cs) : m[i] \in Seq(X)
  BY <1>2
<1>6. /\ FlattenSeq(m) \in Seq(X)
      /\ \A x : x \in ToSet(FlattenSeq(m)) <=> InSome(m, Len(cs), x)
  BY <1>1, <1>3, <1>4, <1>5, FlattenFacts
<1>7. ASSUME NEW x
      PROVE  InSome(m, Len(cs), x) <=> \E c \in ToSet(cs) : x \in ToSet(f[c][p])
  <2>1. ASSUME InSome(m, Len(cs), x)
        PROVE  \E c \in ToSet(cs) : x \in ToSet(f[c][p])
    <3>1. PICK i \in 1 .. Len(cs) : x \in ToSet(m[i])
      BY <2>1 DEF InSome
    <3> QED
      BY <1>2, <3>1
  <2>2. ASSUME NEW c \in ToSet(cs), x \in ToSet(f[c][p])
        PROVE  InSome(m, Len(cs), x)
    <3>1. PICK i \in 1 .. Len(cs) : cs[i] = c
      BY <1>1 DEF ToSet
    <3>2. m[i] = f[c][p]
      BY <1>2, <3>1
    <3> QED
      BY <2>2, <3>1, <3>2 DEF InSome
  <2> QED
    BY <2>1, <2>2
<1> QED
  BY <1>6, <1>7 DEF m

\* A task that may refer to what is not found.
LooseTask ==
  [handler : Handlers, phase : Phases \union {"select"},
   uses : SUBSET (Names \X (Containers \union {NoNode}))]

LEMMA OuterFacts ==
  ASSUME NamesGood
  PROVE  /\ NoScope \in Outer
         /\ \A h \in Handlers, parent \in Outer :
              Bound(h, parent) \in Outer /\ ChildScope(h, parent) \in Outer
<1>1. scopes \in [Handlers -> Scopes] /\ Nodes \subseteq Containers /\ Handlers \subseteq Containers
  BY DEF NamesGood, NamesTyped, Containers
<1>2. ASSUME NEW h \in Handlers, NEW parent \in Outer
      PROVE  Bound(h, parent) \in Outer
  <2>1. \A name \in Names : scopes[h][name] \in Nodes \union {NoNode}
                            /\ parent[name] \in Containers \union {NoNode}
    BY <1>1 DEF Scopes, Outer
  <2> QED
    BY <1>1, <2>1 DEF Bound, Outer
<1>3. ASSUME NEW h \in Handlers, NEW parent \in Outer
      PROVE  ChildScope(h, parent) \in Outer
  <2>1. \A name \in Names : Bound(h, parent)[name] \in Containers \union {NoNode}
    BY <1>2 DEF Outer
  <2> QED
    BY <1>1, <2>1 DEF ChildScope, Outer
<1> QED
  BY <1>2, <1>3 DEF NoScope, Outer

LEMMA ConcatFacts3 ==
  ASSUME NEW X, NEW a \in Seq(X), NEW b \in Seq(X), NEW c \in Seq(X)
  PROVE  /\ (a \o b) \o c \in Seq(X)
         /\ ToSet((a \o b) \o c) = ToSet(a) \union ToSet(b) \union ToSet(c)
<1>1. PICK d \in Seq(X) : d = a \o b /\ ToSet(d) = ToSet(a) \union ToSet(b)
  BY ConcatFacts
<1>2. d \o c \in Seq(X) /\ ToSet(d \o c) = ToSet(d) \union ToSet(c)
  BY ConcatFacts
<1> QED
  BY <1>1, <1>2

LEMMA TasksFacts ==
  ASSUME NEW h \in Handlers, NEW phase \in Phases \union {"select"}, NEW names \in SUBSET Names,
         NEW scope \in Outer
  PROVE  Tasks(h, phase, names, scope) \in Seq(LooseTask)
<1>1. \A name \in names : scope[name] \in Containers \union {NoNode}
  BY DEF Outer
<1>2. {<<name, scope[name]>> : name \in names} \in SUBSET (Names \X (Containers \union {NoNode}))
  BY <1>1
<1>3. [handler |-> h, phase |-> phase, uses |-> {<<name, scope[name]>> : name \in names}] \in LooseTask
  BY <1>2 DEF LooseTask
<1> DEFINE t == [handler |-> h, phase |-> phase, uses |-> {<<name, scope[name]>> : name \in names}]
<1>4. t \in LooseTask
  BY <1>3
<1> HIDE DEF t
<1>5. <<t>> \in Seq(LooseTask) /\ <<>> \in Seq(LooseTask)
  BY <1>4
<1>6. Tasks(h, phase, names, scope) = IF names = {} THEN <<>> ELSE <<t>>
  BY DEF Tasks, t
<1> QED
  BY <1>5, <1>6

\* What is collected of a handler without select tasks is also with them.
LEMMA CollectedOfTyped ==
  ASSUME LinksInv, NEW selecting \in BOOLEAN, NEW f, NEW g, NEW h \in Handlers, NEW p \in Outer,
         \A c \in ToSet(children[h]), q \in Outer :
           /\ f[c][q] \in Seq(LooseTask) /\ g[c][q] \in Seq(LooseTask)
           /\ ToSet(f[c][q]) \subseteq ToSet(g[c][q])
  PROVE  /\ CollectedOf(selecting, f, h, p) \in Seq(LooseTask)
         /\ CollectedOf(TRUE, g, h, p) \in Seq(LooseTask)
         /\ ToSet(CollectedOf(selecting, f, h, p)) \subseteq ToSet(CollectedOf(TRUE, g, h, p))
<1> DEFINE s == Bound(h, p)
           q == ChildScope(h, p)
           pre == Tasks(h, "pre", bindings[h]["pre"], s)
           post == Tasks(h, "post", bindings[h]["post"], s)
           sel(b) == SelectTasks(h, b, s)
           F == FlattenSeq([i \in DOMAIN children[h] |-> f[children[h][i]][q]])
           G == FlattenSeq([i \in DOMAIN children[h] |-> g[children[h][i]][q]])
<1>1. children[h] \in Lists /\ NamesGood /\ RestTyped
  BY DEF LinksInv, LinksGood, LinksTyped
<1>2. s \in Outer /\ q \in Outer
  BY <1>1, OuterFacts
<1>3. bindings[h]["pre"] \in SUBSET Names /\ bindings[h]["post"] \in SUBSET Names
      /\ {selector[h]} \ {NoName} \in SUBSET Names
  BY <1>1 DEF RestTyped, Phases
<1>4. {} \in SUBSET Names /\ "pre" \in Phases /\ "post" \in Phases
  BY DEF Phases
<1> HIDE DEF s, q
<1>5. pre \in Seq(LooseTask) /\ post \in Seq(LooseTask)
  BY <1>2, <1>3, <1>4, TasksFacts
<1>6. sel(TRUE) \in Seq(LooseTask)
  <2>1. sel(TRUE) = Tasks(h, "select", {selector[h]} \ {NoName}, s)
    BY DEF SelectTasks
  <2> HIDE DEF sel
  <2> QED
    BY <1>2, <1>3, <2>1, TasksFacts
<1>7. sel(FALSE) = <<>>
  BY DEF SelectTasks, Tasks
<1>8. sel(selecting) \in Seq(LooseTask) /\ ToSet(sel(selecting)) \subseteq ToSet(sel(TRUE))
  <2>1. selecting = TRUE \/ selecting = FALSE
    OBVIOUS
  <2>2. CASE selecting = TRUE
    BY <1>6, <2>2
  <2>3. CASE selecting = FALSE
    <3>1. sel(selecting) = <<>>
      BY <1>7, <2>3
    <3>2. <<>> \in Seq(LooseTask) /\ ToSet(<<>>) = {}
      BY EmptyFacts
    <3> HIDE DEF sel
    <3> QED
      BY <3>1, <3>2
  <2> QED
    BY <2>1, <2>2, <2>3
<1>9. /\ F \in Seq(LooseTask)
      /\ \A x : x \in ToSet(F) <=> \E c \in ToSet(children[h]) : x \in ToSet(f[c][q])
  BY <1>1, <1>2, FlatMapFacts
<1>10. /\ G \in Seq(LooseTask)
       /\ \A x : x \in ToSet(G) <=> \E c \in ToSet(children[h]) : x \in ToSet(g[c][q])
  BY <1>1, <1>2, FlatMapFacts
<1>11. ToSet(F) \subseteq ToSet(G)
  <2> HIDE DEF F, G
  <2> QED
    BY <1>2, <1>9, <1>10
<1>12. /\ CollectedOf(selecting, f, h, p) = pre \o F \o post \o sel(selecting)
       /\ CollectedOf(TRUE, g, h, p) = pre \o G \o post \o sel(TRUE)
  BY DEF CollectedOf, s, q
<1> HIDE DEF F, G, pre, post, sel
<1>13. /\ pre \o F \in Seq(LooseTask) /\ ToSet(pre \o F) = ToSet(pre) \union ToSet(F)
       /\ pre \o G \in Seq(LooseTask) /\ ToSet(pre \o G) = ToSet(pre) \union ToSet(G)
  BY <1>5, <1>9, <1>10, ConcatFacts
<1>14. PICK a \in Seq(LooseTask) : a = pre \o F
  BY <1>13
<1>15. PICK b \in Seq(LooseTask) : b = pre \o G
  BY <1>13
<1>16. PICK t \in Seq(LooseTask) : t = sel(selecting)
  BY <1>8
<1>17. PICK u \in Seq(LooseTask) : u = sel(TRUE)
  BY <1>6
<1>18. /\ (a \o post) \o t \in Seq(LooseTask)
       /\ ToSet((a \o post) \o t) = ToSet(a) \union ToSet(post) \union ToSet(t)
  BY <1>5, ConcatFacts3
<1>19. /\ (b \o post) \o u \in Seq(LooseTask)
       /\ ToSet((b \o post) \o u) = ToSet(b) \union ToSet(post) \union ToSet(u)
  BY <1>5, ConcatFacts3
<1>20. /\ CollectedOf(selecting, f, h, p) = (a \o post) \o t
       /\ CollectedOf(TRUE, g, h, p) = (b \o post) \o u
  BY <1>12, <1>14, <1>15, <1>16, <1>17
<1>21. ToSet(a) \subseteq ToSet(b) /\ ToSet(t) \subseteq ToSet(u)
  BY <1>8, <1>11, <1>13, <1>14, <1>15, <1>16, <1>17
<1>22. ToSet((a \o post) \o t) \subseteq ToSet((b \o post) \o u)
  BY <1>18, <1>19, <1>21
<1> QED
  BY <1>18, <1>19, <1>20, <1>22

\* When an event's names are all found, what is collected of it are tasks.
LEMMA CollectedTyped ==
  ASSUME LinksInv, NEW e \in AllEvents, ~NotFound(e), NEW selecting \in BOOLEAN
  PROVE  Collected(handlers[e], selecting) \in Seq(Task)
<1>1. /\ LinksGood /\ NamesGood /\ Acyclic(children)
      /\ children \in [Handlers -> Lists] /\ handlers \in [AllEvents -> Lists]
  BY DEF LinksInv, LinksGood, LinksTyped
<1>2. PICK hs \in Lists : hs = handlers[e]
  BY <1>1
<1>3. CollectedSolved
  BY <1>1, CollectedBySolution
<1>4. PICK f : /\ Collects(selecting, f)
               /\ Collected(hs, selecting) = FlattenSeq([i \in DOMAIN hs |-> f[hs[i]][NoScope]])
  BY <1>3 DEF CollectedSolved
<1>5. PICK g : /\ Collects(TRUE, g)
               /\ Collected(hs, TRUE) = FlattenSeq([i \in DOMAIN hs |-> g[hs[i]][NoScope]])
  BY <1>3 DEF CollectedSolved
<1> DEFINE Right(h) == \A q \in Outer :
             /\ f[h][q] \in Seq(LooseTask) /\ g[h][q] \in Seq(LooseTask)
             /\ ToSet(f[h][q]) \subseteq ToSet(g[h][q])
<1>6. \A h \in Handlers : Right(h)
  <2> DEFINE W == {h \in Handlers : ~Right(h)}
  <2>1. SUFFICES ASSUME W # {} PROVE FALSE
    OBVIOUS
  <2>2. PICK h \in W : ToSet(children[h]) \intersect W = {}
    <3>1. W \in SUBSET Handlers
      OBVIOUS
    <3> HIDE DEF W
    <3> QED
      BY <1>1, <2>1, <3>1, LowestHandler
  <2>3. h \in Handlers /\ ToSet(children[h]) \subseteq Handlers
    BY <1>1, <2>2 DEF ToSet, Lists
  <2>4. \A c \in ToSet(children[h]) : Right(c)
    BY <2>2, <2>3
  <2>5. ASSUME NEW p \in Outer
        PROVE  /\ f[h][p] = CollectedOf(selecting, f, h, p)
               /\ g[h][p] = CollectedOf(TRUE, g, h, p)
    <3>1. f[h] = [parent \in Outer |-> CollectedOf(selecting, f, h, parent)]
      BY <1>4, <2>3 DEF Collects
    <3>2. g[h] = [parent \in Outer |-> CollectedOf(TRUE, g, h, parent)]
      BY <1>5, <2>3 DEF Collects
    <3> HIDE DEF Right, W
    <3> QED
      BY <3>1, <3>2
  <2>6. ASSUME NEW p \in Outer
        PROVE  /\ CollectedOf(selecting, f, h, p) \in Seq(LooseTask)
               /\ CollectedOf(TRUE, g, h, p) \in Seq(LooseTask)
               /\ ToSet(CollectedOf(selecting, f, h, p)) \subseteq ToSet(CollectedOf(TRUE, g, h, p))
    BY <2>3, <2>4, CollectedOfTyped
  <2>7. Right(h)
    BY <2>5, <2>6
  <2> QED
    BY <2>2, <2>7
<1>7. NoScope \in Outer
  BY <1>1, OuterFacts
<1>8. \A c \in ToSet(hs) : c \in Handlers
  BY DEF ToSet, Lists
<1>9. /\ Collected(hs, selecting) \in Seq(LooseTask)
      /\ \A x : x \in ToSet(Collected(hs, selecting)) <=>
           \E c \in ToSet(hs) : x \in ToSet(f[c][NoScope])
  <2>1. \A c \in ToSet(hs) : f[c][NoScope] \in Seq(LooseTask)
    BY <1>6, <1>7, <1>8
  <2> HIDE DEF Right
  <2> QED
    BY <1>4, <2>1, FlatMapFacts
<1>10. /\ Collected(hs, TRUE) \in Seq(LooseTask)
       /\ \A x : x \in ToSet(Collected(hs, TRUE)) <=>
            \E c \in ToSet(hs) : x \in ToSet(g[c][NoScope])
  <2>1. \A c \in ToSet(hs) : g[c][NoScope] \in Seq(LooseTask)
    BY <1>6, <1>7, <1>8
  <2> HIDE DEF Right
  <2> QED
    BY <1>5, <2>1, FlatMapFacts
<1>11. \A c \in ToSet(hs) : ToSet(f[c][NoScope]) \subseteq ToSet(g[c][NoScope])
  BY <1>6, <1>7, <1>8
<1>12. ToSet(Collected(hs, selecting)) \subseteq ToSet(Collected(hs, TRUE))
  BY <1>9, <1>10, <1>11
<1>13. \A t \in ToSet(Collected(hs, TRUE)) : \A use \in t.uses : use[2] # NoNode
  BY <1>2 DEF NotFound, ToSet
<1>14. ASSUME NEW t \in LooseTask, \A use \in t.uses : use[2] # NoNode
       PROVE  t \in Task
  <2>1. t.uses \subseteq Names \X Containers
    BY <1>14 DEF LooseTask
  <2> QED
    BY <2>1 DEF LooseTask, Task
<1> DEFINE all == Collected(hs, selecting)
<1>15. all \in Seq(LooseTask) /\ \A i \in DOMAIN all : all[i] \in ToSet(all)
  BY <1>9 DEF ToSet
<1>16. \A i \in 1 .. Len(all) : all[i] \in Task
  <2> HIDE DEF all
  <2>1. \A i \in 1 .. Len(all) : i \in DOMAIN all /\ all[i] \in LooseTask
    BY <1>15
  <2>2. ToSet(all) \subseteq ToSet(Collected(hs, TRUE))
    BY <1>12 DEF all
  <2> QED
    BY <1>13, <1>14, <1>15, <2>1, <2>2
<1>17. all \in Seq(Task)
  <2> HIDE DEF all
  <2>1. Len(all) \in Nat /\ all = [i \in 1 .. Len(all) |-> all[i]]
    BY <1>15
  <2> QED
    BY <1>16, <2>1
<1> QED
  BY <1>2, <1>17
-----------------------------------------------------------------------------
(***************************************************************************)
(* Steps that edit nothing.                                                 *)
(***************************************************************************)
Steady == UNCHANGED <<links, given, broken>>

LEMMA SteadyFacts ==
  ASSUME LinksInv, Steady
  PROVE  /\ LinksGood' /\ NamesGood' /\ Acyclic(children')
         /\ \A h \in Handlers : SameHandler(h)
         /\ \A e \in AllEvents : SameEvent(e)
         /\ \A h \in Handlers : Up(events', parents', h) = Up(events, parents, h)
<1>1. /\ handlers' = handlers /\ events' = events /\ children' = children /\ parents' = parents
      /\ scopes' = scopes /\ users' = users /\ scopeName' = scopeName /\ bindings' = bindings
      /\ selector' = selector /\ selects' = selects /\ broken' = broken
  BY DEF Steady, links, given
<1>2. LinksGood' /\ Acyclic(children')
      /\ \A h \in Handlers : Up(events', parents', h) = Up(events, parents, h)
  BY <1>1, NoLinkChange DEF links
<1>3. NamesGood'
  BY <1>1, NoNameChange
<1>4. /\ \A h \in Handlers : SameHandler(h)
      /\ \A e \in AllEvents : SameEvent(e)
  BY <1>1 DEF SameHandler, SameEvent
<1> QED
  BY <1>2, <1>3, <1>4

\* What the present graph says of an event and of a handler stays.
LEMMA SteadyFound ==
  ASSUME LinksInv, Steady
  PROVE  /\ \A e \in AllEvents :
              /\ NotFound(e)' <=> NotFound(e)
              /\ NodesUnder(e)' = NodesUnder(e)
              /\ Collected(handlers[e], e \in selects)' = Collected(handlers[e], e \in selects)
         /\ \A h \in Handlers : (NotBound(h)' <=> NotBound(h)) /\ (Fit(h)' <=> Fit(h))
<1>1. /\ LinksGood' /\ Acyclic(children')
      /\ \A h \in Handlers : SameHandler(h)
      /\ \A e \in AllEvents : SameEvent(e)
  BY SteadyFacts
<1>2. handlers' = handlers /\ children' = children /\ scopes' = scopes /\ selector' = selector
      /\ broken' = broken
  BY DEF Steady, links, given
<1>3. ASSUME NEW e \in AllEvents
      PROVE  /\ NotFound(e)' <=> NotFound(e)
             /\ NodesUnder(e)' = NodesUnder(e)
             /\ Collected(handlers[e], e \in selects)' = Collected(handlers[e], e \in selects)
  <2>1. Under(handlers', children', e) = Under(handlers, children, e)
    BY <1>2
  <2>2. Under(handlers', children', e) \subseteq Handlers
    BY <1>1, UnderFacts DEF LinksGood, LinksTyped
  <2> QED
    BY <1>1, <2>1, <2>2, FoundKept
<1>4. ASSUME NEW h \in Handlers
      PROVE  (NotBound(h)' <=> NotBound(h)) /\ (Fit(h)' <=> Fit(h))
  BY <1>2 DEF NotBound, Fit, NamedBy
<1> QED
  BY <1>3, <1>4

LEMMA PreparedErrors ==
  ASSUME EventsInv, Steady, Prepared
  PROVE  /\ ErrorsCurrent'
         /\ errors' \in SUBSET Objects /\ marked' \in SUBSET Objects
         /\ ReachUp(marked', events', parents')
<1>1. LinksInv /\ ErrorsCurrent /\ RestTyped
  BY DEF EventsInv, AnswersInv, LinksInv
<1>2. marked' = {} /\ errors' = CompiledErrors
  BY DEF Prepared
<1>3. /\ \A h \in Handlers : h \in CompiledErrors <=> NotBound(h)
      /\ \A e \in AllEvents : e \in CompiledErrors <=> NotFound(e)
  BY <1>1, CompiledErrorsExact
<1>4. /\ \A h \in Handlers : h \in errors' <=> NotBound(h)'
      /\ \A e \in AllEvents : e \in errors' <=> NotFound(e)'
  BY <1>1, <1>2, <1>3, SteadyFound
<1>5. CompiledErrors \in SUBSET Objects
  BY <1>1, ObjectKinds DEF CompiledErrors, RestTyped
<1> QED
  BY <1>2, <1>4, <1>5 DEF ErrorsCurrent, ReachUp

\* What is collected of an event that can execute is kept; the rest stays.
LEMMA FireKeeps ==
  ASSUME EventsInv, NEW e \in AllEvents, Fire(e)
  PROVE  /\ Steady /\ Prepared /\ can' = EnsuredEvent(e)
         /\ stream' \in [AllEvents -> SUBSET Nodes] /\ tasks' \in [AllEvents -> Seq(Task)]
         /\ dirty' \in SUBSET Nodes /\ stale' = stale
         /\ \A d \in AllEvents : EventKept(d)'
<1> DEFINE R == EnsuredEvent(e)
           all == Collected(handlers[e], e \in selects)
<1>1. LinksInv /\ LinksGood /\ NamesGood /\ RestTyped /\ \A d \in AllEvents : EventKept(d)
  BY DEF EventsInv, AnswersInv, LinksInv
<1>2. Prepared /\ can' = R /\ stale' = stale /\ Steady
  BY DEF Fire, Steady
<1>3. /\ \A o \in Objects : can[o] # "null" => R[o] = can[o]
      /\ \A d \in AllEvents : d # e => R[d] = can[d]
      /\ R[e] = "can" => ~NotFound(e)
  BY EnsuredFacts
<1>4. /\ \A d \in AllEvents :
           /\ NodesUnder(d)' = NodesUnder(d)
           /\ Collected(handlers[d], d \in selects)' = Collected(handlers[d], d \in selects)
  BY <1>1, <1>2, SteadyFound
<1>5. stream \in [AllEvents -> SUBSET Nodes] /\ tasks \in [AllEvents -> Seq(Task)]
      /\ dirty \in SUBSET Nodes
  BY <1>1 DEF RestTyped
<1>6. NodesUnder(e) \in SUBSET Nodes
  <2>1. HandlersUnder(e) \subseteq Handlers
    BY <1>1, UnderFacts DEF HandlersUnder, Under, LinksGood, LinksTyped
  <2>2. \A h \in Handlers : NamedBy(h) \subseteq Nodes
    BY <1>1 DEF NamedBy, NamesGood, NamesTyped, Scopes
  <2> QED
    BY <2>1, <2>2 DEF NodesUnder
<1>7. R[e] = "can" => all \in Seq(Task)
  <2>1. PICK b \in BOOLEAN : b = (e \in selects)
    <3>1. (e \in selects) \in BOOLEAN
      OBVIOUS
    <3> QED
      BY <3>1, Zenon
  <2>2. R[e] = "can" => Collected(handlers[e], b) \in Seq(Task)
    BY <1>1, <1>3, CollectedTyped
  <2> QED
    BY <2>1, <2>2
<1>8. /\ R[e] = "can" => /\ stream' = IF can[e] = "can" THEN stream
                                      ELSE [stream EXCEPT ![e] = NodesUnder(e)]
                         /\ tasks' = IF can[e] = "can" THEN tasks
                                     ELSE [tasks EXCEPT ![e] = all]
                         /\ dirty' = dirty \ stream'[e]
      /\ R[e] # "can" => stream' = stream /\ tasks' = tasks /\ dirty' = dirty
  BY <1>2 DEF Fire
<1>9. \A d \in AllEvents : EventKept(d)' <=>
        (R[d] = "can" => stream'[d] = NodesUnder(d) /\ tasks'[d] = Collected(handlers[d], d \in selects))
  BY <1>2, <1>4 DEF EventKept
<1> HIDE DEF R, all
<1>10. stream' \in [AllEvents -> SUBSET Nodes] /\ tasks' \in [AllEvents -> Seq(Task)]
       /\ dirty' \in SUBSET Nodes
  <2>1. CASE R[e] = "can" /\ can[e] # "can"
    <3>1. stream' = [stream EXCEPT ![e] = NodesUnder(e)] /\ tasks' = [tasks EXCEPT ![e] = all]
          /\ dirty' = dirty \ stream'[e] /\ all \in Seq(Task)
      BY <1>7, <1>8, <2>1
    <3> QED
      BY <1>5, <1>6, <3>1
  <2>2. CASE ~(R[e] = "can" /\ can[e] # "can")
    BY <1>5, <1>8, <2>2
  <2> QED
    BY <2>1, <2>2
<1>11. ASSUME NEW d \in AllEvents
       PROVE  EventKept(d)'
  <2>1. CASE d # e \/ can[e] = "can"
    <3>1. stream'[d] = stream[d] /\ tasks'[d] = tasks[d] /\ R[d] = can[d]
      BY <1>3, <1>5, <1>8, <2>1, ObjectKinds
    <3> QED
      BY <1>1, <1>9, <3>1 DEF EventKept
  <2>2. CASE d = e /\ can[e] # "can"
    <3>1. R[e] = "can" => stream'[e] = NodesUnder(e) /\ tasks'[e] = all
      BY <1>5, <1>8, <2>2
    <3> QED
      BY <1>9, <2>2, <3>1 DEF all
  <2> QED
    BY <2>1, <2>2
<1> QED
  BY <1>2, <1>10, <1>11 DEF R

LEMMA FireKeepsInv ==
  ASSUME EventsInv, NEW e \in AllEvents, Fire(e)
  PROVE  EventsInv'
<1> DEFINE R == EnsuredEvent(e)
<1>1. /\ Steady /\ Prepared /\ can' = R
      /\ stream' \in [AllEvents -> SUBSET Nodes] /\ tasks' \in [AllEvents -> Seq(Task)]
      /\ dirty' \in SUBSET Nodes /\ stale' = stale
      /\ \A d \in AllEvents : EventKept(d)'
  BY FireKeeps
<1>2. LinksInv /\ RestTyped /\ (\A d \in AllEvents : EventAnswered(d))
  BY DEF EventsInv, AnswersInv, LinksInv
<1>3. /\ LinksGood' /\ NamesGood' /\ Acyclic(children')
      /\ handlers' = handlers /\ children' = children /\ scopeName' = scopeName
      /\ bindings' = bindings /\ selector' = selector /\ selects' = selects /\ broken' = broken
  BY <1>1, <1>2, SteadyFacts DEF Steady, links, given
<1>4. /\ ErrorsCurrent'
      /\ errors' \in SUBSET Objects /\ marked' \in SUBSET Objects
      /\ ReachUp(marked', events', parents')
      /\ marked' = {}
  BY <1>1, PreparedErrors DEF Prepared
<1>5. /\ \A d \in AllEvents : NotFound(d)' <=> NotFound(d)
      /\ \A h \in Handlers : Fit(h)' <=> Fit(h)
  BY <1>1, <1>2, SteadyFound
<1>6. /\ R \in [Objects -> {"null", "can", "cannot"}]
      /\ \A o \in Objects : can[o] # "null" => R[o] = can[o]
      /\ \A d \in AllEvents : d # e => R[d] = can[d]
      /\ \A h \in Handlers :
           /\ R[h] = "can" => Fit(h) /\ \A c \in ToSet(children[h]) : R[c] = "can"
           /\ R[h] = "cannot" => ~Fit(h) \/ \E c \in ToSet(children[h]) : R[c] = "cannot"
      /\ R[e] = "can" => ~NotFound(e) /\ \A c \in ToSet(handlers[e]) : R[c] = "can"
      /\ R[e] = "cannot" => NotFound(e) \/ \E c \in ToSet(handlers[e]) : R[c] = "cannot"
  BY EnsuredFacts
<1> HIDE DEF R
<1>7. LinksInv'
  <2>1. RestTyped'
    BY <1>1, <1>2, <1>3, <1>4, <1>6 DEF RestTyped
  <2> QED
    BY <1>3, <1>4, <2>1 DEF LinksInv
<1>8. \A h \in Handlers : HandlerAnswered(h)'
  BY <1>1, <1>3, <1>5, <1>6 DEF HandlerAnswered
<1>9. ASSUME NEW d \in AllEvents
      PROVE  EventAnswered(d)'
  <2>1. CASE d = e
    BY <1>1, <1>3, <1>5, <1>6, <2>1 DEF EventAnswered
  <2>2. CASE d # e
    <3>1. R[d] = can[d] /\ EventAnswered(d)
      BY <1>2, <1>6, <2>2
    <3>2. \A c \in ToSet(handlers[d]) : c \in Objects
      BY <1>2, ObjectKinds DEF LinksInv, LinksGood, LinksTyped, ToSet, Lists
    <3> QED
      BY <1>1, <1>3, <1>5, <1>6, <3>1, <3>2 DEF EventAnswered
  <2> QED
    BY <2>1, <2>2
<1> QED
  BY <1>1, <1>4, <1>7, <1>8, <1>9 DEF EventsInv, AnswersInv

\* The answers stay, and what was collected.
LEMMA RestKeepsInv ==
  ASSUME EventsInv, Steady, can' = can, stream' = stream, tasks' = tasks,
         dirty' \in SUBSET Nodes, stale' \in SUBSET AllEvents,
         Prepared \/ (marked' = marked /\ errors' = errors)
  PROVE  EventsInv'
<1>1. /\ LinksInv /\ RestTyped /\ ErrorsCurrent /\ \A o \in marked : can[o] = "null"
      /\ \A h \in Handlers : HandlerAnswered(h)
      /\ \A e \in AllEvents : EventAnswered(e) /\ EventKept(e)
  BY DEF EventsInv, AnswersInv, LinksInv
<1>2. /\ LinksGood' /\ NamesGood' /\ Acyclic(children')
      /\ handlers' = handlers /\ events' = events /\ children' = children /\ parents' = parents
      /\ scopeName' = scopeName
      /\ bindings' = bindings /\ selector' = selector /\ selects' = selects /\ broken' = broken
  BY <1>1, SteadyFacts DEF Steady, links, given
<1>3. /\ \A e \in AllEvents :
           /\ NotFound(e)' <=> NotFound(e)
           /\ NodesUnder(e)' = NodesUnder(e)
           /\ Collected(handlers[e], e \in selects)' = Collected(handlers[e], e \in selects)
      /\ \A h \in Handlers : (NotBound(h)' <=> NotBound(h)) /\ (Fit(h)' <=> Fit(h))
  BY <1>1, SteadyFound
<1>4. /\ ErrorsCurrent'
      /\ errors' \in SUBSET Objects /\ marked' \in SUBSET Objects
      /\ ReachUp(marked', events', parents')
      /\ \A o \in marked' : can'[o] = "null"
  <2>1. CASE Prepared
    BY <2>1, PreparedErrors DEF Prepared
  <2>2. CASE marked' = marked /\ errors' = errors
    <3>1. ErrorsCurrent'
      BY <1>1, <1>3, <2>2 DEF ErrorsCurrent
    <3> QED
      BY <1>1, <1>2, <2>2, <3>1 DEF RestTyped, LinksInv
  <2> QED
    BY <2>1, <2>2
<1>5. RestTyped'
  BY <1>1, <1>2, <1>4 DEF RestTyped
<1>6. \A h \in Handlers : HandlerAnswered(h)'
  BY <1>1, <1>2, <1>3 DEF HandlerAnswered
<1>7. \A e \in AllEvents : EventAnswered(e)' /\ EventKept(e)'
  BY <1>1, <1>2, <1>3 DEF EventAnswered, EventKept
<1> QED
  BY <1>2, <1>4, <1>5, <1>6, <1>7 DEF EventsInv, AnswersInv, LinksInv
-----------------------------------------------------------------------------
(***************************************************************************)
(* The invariant.                                                           *)
(***************************************************************************)
LEMMA InitLinks ==
  ASSUME Init
  PROVE  LinksInv
<1>1. LinksGood /\ Acyclic(children)
  <2>1. LinksTyped(handlers, events, children, parents)
    BY EmptyFacts DEF Init, LinksTyped
  <2>2. LinksExact(handlers, events, children, parents)
    BY EmptyFacts DEF Init, LinksExact
  <2>3. Acyclic(children)
    BY EmptyFacts DEF Init, Acyclic
  <2> QED
    BY <2>1, <2>2, <2>3 DEF LinksGood
<1>2. NamesGood
  <2>1. NoScope \in Scopes
    BY DEF NoScope, Scopes
  <2>2. NamesTyped(scopes, users)
    BY <2>1 DEF Init, NamesTyped
  <2>3. ASSUME NEW m \in Nodes, NEW h \in Handlers
        PROVE  users[m][h] = Cardinality(Giving(scopes[h], m))
    <3>1. m # NoNode
      BY EventConstants DEF Containers
    <3>2. Giving(scopes[h], m) = {}
      BY <3>1 DEF Init, NoScope, Giving
    <3> QED
      BY <3>2, FS_EmptySet DEF Init
  <2> QED
    BY <2>2, <2>3 DEF NamesGood, NamesExact
<1>3. RestTyped
  <2>1. <<>> \in Seq(Task)
    OBVIOUS
  <2> QED
    BY <2>1 DEF Init, RestTyped
<1>4. ReachUp(marked, events, parents)
  BY DEF Init, ReachUp
<1> QED
  BY <1>1, <1>2, <1>3, <1>4 DEF LinksInv

LEMMA EventsInvInit == Init => EventsInv
<1> SUFFICES ASSUME Init PROVE EventsInv
  OBVIOUS
<1>1. LinksInv
  BY InitLinks
<1>2. ErrorsCurrent
  <2>1. \A e \in AllEvents : ~NotFound(e)
    BY NothingIsFound DEF Init, NothingFound
  <2>2. \A h \in Handlers : ~NotBound(h)
    BY DEF Init, NotBound
  <2> QED
    BY <2>1, <2>2 DEF Init, ErrorsCurrent
<1>3. \A o \in Objects : can[o] = "null"
  BY DEF Init
<1>4. /\ \A o \in marked : can[o] = "null"
      /\ \A h \in Handlers : HandlerAnswered(h)
      /\ \A e \in AllEvents : EventAnswered(e) /\ EventKept(e)
  BY <1>3, ObjectKinds DEF Init, HandlerAnswered, EventAnswered, EventKept
<1> QED
  BY <1>1, <1>2, <1>4 DEF EventsInv, AnswersInv

LEMMA EventsInvNext == EventsInv /\ [Next]_vars => EventsInv'
<1> SUFFICES ASSUME EventsInv, [Next]_vars PROVE EventsInv'
  OBVIOUS
<1>1. LinksInv /\ RestTyped
  BY DEF EventsInv, LinksInv
<1>2. ASSUME NEW e \in AllEvents, NEW h \in Handlers, AppendEventHandler(e, h)
      PROVE  EventsInv'
  BY <1>1, <1>2, AppendEventHandlerEdit, EditKeepsInv
<1>3. ASSUME NEW e \in AllEvents, SetSelectType(e)
      PROVE  EventsInv'
  BY <1>1, <1>3, SetSelectTypeEdit, EditKeepsInv
<1>4. ASSUME NEW e \in AllEvents, DestroyEvent(e)
      PROVE  EventsInv'
  BY <1>1, <1>4, DestroyEventEdit, EditKeepsInv
<1>5. ASSUME NEW e \in AllEvents, Fire(e)
      PROVE  EventsInv'
  BY <1>5, FireKeepsInv
<1>6. ASSUME NEW h \in Handlers, NEW c \in Handlers, AppendChildEventHandler(h, c)
      PROVE  EventsInv'
  BY <1>1, <1>6, AppendChildEdit, EditKeepsInv
<1>7. ASSUME NEW h \in Handlers, NEW c \in Handlers, RemoveChildEventHandler(h, c)
      PROVE  EventsInv'
  BY <1>1, <1>7, RemoveChildEdit, EditKeepsInv
<1>8. ASSUME NEW h \in Handlers, NEW name \in Names, NEW m \in Nodes, SetScope(h, name, m)
      PROVE  EventsInv'
  BY <1>1, <1>8, SetScopeEdit, EditKeepsInv
<1>9. ASSUME NEW h \in Handlers, NEW name \in Names, RemoveScope(h, name)
      PROVE  EventsInv'
  BY <1>1, <1>9, RemoveScopeEdit, EditKeepsInv
<1>10. ASSUME NEW h \in Handlers, NEW name \in Names \union {NoName}, SetScopeName(h, name)
       PROVE  EventsInv'
  BY <1>1, <1>10, SetScopeNameEdit, EditKeepsInv
<1>11. ASSUME NEW h \in Handlers, NEW name \in Names, SetSelector(h, name)
       PROVE  EventsInv'
  BY <1>1, <1>11, SetSelectorEdit, EditKeepsInv
<1>12. ASSUME NEW h \in Handlers, NEW phase \in Phases, NEW name \in Names, AppendBinding(h, phase, name)
       PROVE  EventsInv'
  BY <1>1, <1>12, AppendBindingEdit, EditKeepsInv
<1>13. ASSUME NEW h \in Handlers, NEW phase \in Phases, NEW name \in Names, RemoveBinding(h, phase, name)
       PROVE  EventsInv'
  BY <1>1, <1>13, RemoveBindingEdit, EditKeepsInv
<1>14. ASSUME NEW h \in Handlers, DestroyEventHandler(h)
       PROVE  EventsInv'
  BY <1>1, <1>14, DestroyEventHandlerEdit, EditKeepsInv
<1>15. ASSUME NEW m \in Nodes, EditNode(m)
       PROVE  EventsInv'
  BY <1>1, <1>15, EditNodeEdit, EditKeepsInv
<1>16. ASSUME NEW m \in Nodes, DestroyNode(m)
       PROVE  EventsInv'
  BY <1>1, <1>16, DestroyNodeEdit, EditKeepsInv
<1>17. ASSUME NEW m \in Nodes, SetNodeData(m)
       PROVE  EventsInv'
  <2>1. /\ Steady /\ can' = can /\ stream' = stream /\ tasks' = tasks /\ stale' = stale
        /\ marked' = marked /\ errors' = errors /\ dirty' = dirty \union {m}
    BY <1>17 DEF SetNodeData, Steady, runs
  <2> QED
    BY <1>1, <2>1, RestKeepsInv DEF RestTyped
<1>18. ASSUME NEW m \in Nodes, ResizeNode(m)
       PROVE  EventsInv'
  <2>1. /\ Steady /\ can' = can /\ stream' = stream /\ tasks' = tasks
        /\ marked' = marked /\ errors' = errors /\ dirty' = dirty \union {m}
        /\ stale' = stale \union {e \in AllEvents :
             \E i \in DOMAIN tasks[e] : \E use \in tasks[e][i].uses : use[2] = m}
    BY <1>18 DEF ResizeNode, Steady
  <2>2. dirty' \in SUBSET Nodes /\ stale' \in SUBSET AllEvents
    BY <1>1, <2>1 DEF RestTyped
  <2> QED
    BY <2>1, <2>2, RestKeepsInv
<1>19. ASSUME PrepareForExecution
       PROVE  EventsInv'
  <2>1. /\ Prepared /\ Steady /\ can' = can /\ stream' = stream /\ tasks' = tasks
        /\ stale' = stale /\ dirty' = dirty
    BY <1>19 DEF PrepareForExecution, Steady, runs
  <2> QED
    BY <1>1, <2>1, RestKeepsInv DEF RestTyped
<1>20. ASSUME UNCHANGED vars
       PROVE  EventsInv'
  <2>1. /\ Steady /\ can' = can /\ stream' = stream /\ tasks' = tasks /\ stale' = stale
        /\ marked' = marked /\ errors' = errors /\ dirty' = dirty
    BY <1>20 DEF vars, Steady, runs
  <2> QED
    BY <1>1, <2>1, RestKeepsInv DEF RestTyped
<1>21. ASSUME NEW e \in AllEvents, EventCommand(e)
       PROVE  EventsInv'
  BY <1>2, <1>3, <1>4, <1>5, <1>21 DEF EventCommand
<1>22. ASSUME NEW h \in Handlers, HandlerCommand(h)
       PROVE  EventsInv'
  BY <1>6, <1>7, <1>8, <1>9, <1>10, <1>11, <1>12, <1>13, <1>14, <1>22 DEF HandlerCommand
<1>23. ASSUME NEW m \in Nodes, NodeCommand(m)
       PROVE  EventsInv'
  BY <1>15, <1>16, <1>17, <1>18, <1>23 DEF NodeCommand
<1> QED
  BY <1>19, <1>20, <1>21, <1>22, <1>23 DEF Next

\* In every reachable state the links and marks are sound, and so are the errors,
\* the answers and what the events keep to run: the invariant that all the
\* theorems here rest on.
THEOREM EventsInvHolds == Spec => []EventsInv
<1>1. Init => EventsInv
  BY EventsInvInit
<1>2. EventsInv /\ [Next]_vars => EventsInv'
  BY EventsInvNext
<1> QED
  BY <1>1, <1>2, PTL DEF Spec
-----------------------------------------------------------------------------
(***************************************************************************)
(* Handlers visited by way of those above them.                             *)
(***************************************************************************)
LEMMA LastOf ==
  ASSUME NEW n \in Nat, NEW S \in SUBSET (1 .. n), S # {}
  PROVE  Max(S) \in S /\ \A k \in S : Max(S) >= k
<1> DEFINE T == {i \in Nat : i <= n /\ n - i \in S}
<1>1. T \in SUBSET Nat /\ T # {}
  <2>1. PICK k \in S : TRUE
    OBVIOUS
  <2>2. n - k \in T
    BY <2>1
  <2> QED
    BY <2>2
<1>2. PICK i \in T : \A k \in T : i <= k
  <2> HIDE DEF T
  <2> QED
    BY <1>1, FirstOf
<1>3. n - i \in S
  BY <1>2
<1>4. ASSUME NEW k \in S PROVE n - i >= k
  <2>1. n - k \in T
    OBVIOUS
  <2> QED
    BY <1>2, <2>1
<1>5. \E x \in S : \A k \in S : x >= k
  BY <1>3, <1>4
<1> QED
  BY <1>5 DEF Max

LEMMA SameWithoutLast ==
  ASSUME NEW n \in Nat, NEW S \in SUBSET (1 .. n + 1), NEW T \in SUBSET (1 .. n), n + 1 \notin S,
         \A i \in 1 .. n : i \in S <=> i \in T
  PROVE  S = T
<1>1. \A i \in 1 .. n + 1 : i \in 1 .. n \/ i = n + 1
  OBVIOUS
<1>2. S \subseteq 1 .. n
  BY <1>1
<1> QED
  BY <1>2

\* What name is for the children at the end of a path: the nearest handler's own
\* name, or else what it gives.
Named(path, name) ==
  {i \in DOMAIN path : scopeName[path[i]] = name \/ scopes[path[i]][name] # NoNode}
Within(path) ==
  [name \in Names |->
    IF Named(path, name) = {} THEN NoNode
    ELSE LET h == path[Max(Named(path, name))]
         IN  IF scopeName[h] = name THEN h ELSE scopes[h][name]]

\* What names are found to be at the end of a path.
Found(path) == [name \in Names |-> Nearest(path, name)]

LEMMA WithinNothing == Within(<<>>) = NoScope
<1>1. DOMAIN <<>> = {}
  OBVIOUS
<1>2. \A name : Named(<<>>, name) = {}
  BY <1>1 DEF Named
<1> QED
  BY <1>2 DEF Within, NoScope

LEMMA PathFacts ==
  ASSUME NEW above \in Lists, NEW h \in Handlers
  PROVE  /\ Append(above, h) \in Lists
         /\ Len(above) \in Nat /\ Len(Append(above, h)) = Len(above) + 1
         /\ DOMAIN above = 1 .. Len(above)
         /\ DOMAIN Append(above, h) = 1 .. Len(above) + 1
         /\ Append(above, h)[Len(above) + 1] = h
         /\ \A i \in 1 .. Len(above) : Append(above, h)[i] = above[i]
BY DEF Lists

\* One handler further, a name is what that handler makes of it.
LEMMA NamedFurther ==
  ASSUME NEW above \in Lists, NEW h \in Handlers, NEW name \in Names
  PROVE  LET n == Len(above)
             path == Append(above, h)
             here == scopeName[h] = name \/ scopes[h][name] # NoNode
         IN  /\ Named(above, name) \in SUBSET (1 .. n)
             /\ here => /\ Named(path, name) # {}
                        /\ Max(Named(path, name)) = n + 1
             /\ ~here => Named(path, name) = Named(above, name)
<1> DEFINE n == Len(above)
           path == Append(above, h)
           here == scopeName[h] = name \/ scopes[h][name] # NoNode
<1>1. /\ n \in Nat /\ DOMAIN above = 1 .. n /\ DOMAIN path = 1 .. n + 1
      /\ path[n + 1] = h /\ \A i \in 1 .. n : path[i] = above[i]
  BY PathFacts
<1> HIDE DEF n, path
<1>2. Named(above, name) \in SUBSET (1 .. n) /\ Named(path, name) \in SUBSET (1 .. n + 1)
  BY <1>1 DEF Named
<1>3. n + 1 \in Named(path, name) <=> here
  BY <1>1 DEF Named
<1>4. \A i \in 1 .. n : i \in Named(path, name) <=> i \in Named(above, name)
  BY <1>1 DEF Named
<1>5. ASSUME here
      PROVE  Named(path, name) # {} /\ Max(Named(path, name)) = n + 1
  <2>1. n + 1 \in Named(path, name) /\ n + 1 \in Nat
    BY <1>1, <1>3, <1>5
  <2>2. /\ Max(Named(path, name)) \in Named(path, name)
        /\ \A k \in Named(path, name) : Max(Named(path, name)) >= k
    BY <1>2, <2>1, LastOf
  <2>3. Max(Named(path, name)) \in 1 .. n + 1 /\ Max(Named(path, name)) >= n + 1
    BY <1>2, <2>1, <2>2
  <2> QED
    BY <1>1, <2>1, <2>3
<1>6. ASSUME ~here
      PROVE  Named(path, name) = Named(above, name)
  BY <1>1, <1>2, <1>3, <1>4, <1>6, SameWithoutLast
<1> QED
  BY <1>2, <1>5, <1>6 DEF n, path

LEMMA WithinFurther ==
  ASSUME NEW above \in Lists, NEW h \in Handlers
  PROVE  ChildScope(h, Within(above)) = Within(Append(above, h))
<1> DEFINE n == Len(above)
           path == Append(above, h)
<1>1. ASSUME NEW name \in Names
      PROVE  ChildScope(h, Within(above))[name] = Within(path)[name]
  <2> DEFINE here == scopeName[h] = name \/ scopes[h][name] # NoNode
  <2>1. /\ Named(above, name) \in SUBSET (1 .. n)
        /\ here => /\ Named(path, name) # {}
                   /\ Max(Named(path, name)) = n + 1
        /\ ~here => Named(path, name) = Named(above, name)
    BY NamedFurther
  <2>2. /\ n \in Nat /\ path[n + 1] = h /\ \A i \in 1 .. n : path[i] = above[i]
    BY PathFacts
  <2> HIDE DEF n, path
  <2>3. ChildScope(h, Within(above))[name]
        = IF name = scopeName[h] THEN h
          ELSE IF scopes[h][name] # NoNode THEN scopes[h][name] ELSE Within(above)[name]
    BY DEF ChildScope, Bound
  <2>4. CASE here
    <3>1. Within(path)[name] = IF scopeName[h] = name THEN h ELSE scopes[h][name]
      BY <2>1, <2>2, <2>4 DEF Within
    <3> QED
      BY <2>3, <2>4, <3>1
  <2>5. CASE ~here
    <3>1. Within(path)[name] = Within(above)[name]
      <4>1. CASE Named(above, name) = {}
        BY <2>1, <2>5, <4>1 DEF Within
      <4>2. CASE Named(above, name) # {}
        <5>1. Max(Named(above, name)) \in 1 .. n
          BY <2>1, <2>2, <4>2, LastOf
        <5>2. path[Max(Named(above, name))] = above[Max(Named(above, name))]
          BY <2>2, <5>1
        <5> QED
          BY <2>1, <2>5, <4>2, <5>2 DEF Within
      <4> QED
        BY <4>1, <4>2
    <3> QED
      BY <2>3, <2>5, <3>1
  <2> QED
    BY <2>4, <2>5
<1> QED
  BY <1>1 DEF ChildScope, Within

LEMMA FoundFurther ==
  ASSUME NEW above \in Lists, NEW h \in Handlers
  PROVE  Bound(h, Within(above)) = Found(Append(above, h))
<1> DEFINE n == Len(above)
           path == Append(above, h)
<1>1. ASSUME NEW name \in Names
      PROVE  Bound(h, Within(above))[name] = Nearest(path, name)
  <2> DEFINE own(i) == i < Len(path) /\ scopeName[path[i]] = name
             at == {i \in DOMAIN path : own(i) \/ scopes[path[i]][name] # NoNode}
  <2>1. Nearest(path, name) = IF at = {} THEN NoNode
                              ELSE IF own(Max(at)) THEN path[Max(at)]
                              ELSE scopes[path[Max(at)]][name]
    BY DEF Nearest
  <2>2. /\ n \in Nat /\ DOMAIN above = 1 .. n /\ DOMAIN path = 1 .. n + 1 /\ Len(path) = n + 1
        /\ path[n + 1] = h /\ \A i \in 1 .. n : path[i] = above[i]
    BY PathFacts
  <2>3. Bound(h, Within(above))[name]
        = IF scopes[h][name] # NoNode THEN scopes[h][name] ELSE Within(above)[name]
    BY DEF Bound
  <2> HIDE DEF n, path
  <2>4. /\ \A i \in 1 .. n : own(i) <=> scopeName[above[i]] = name
        /\ ~own(n + 1)
    BY <2>2
  <2> HIDE DEF own
  <2>5. at \in SUBSET (1 .. n + 1)
    BY <2>2
  <2>6. n + 1 \in at <=> scopes[h][name] # NoNode
    BY <2>2, <2>4
  <2>7. Named(above, name) \in SUBSET (1 .. n)
    BY <2>2 DEF Named
  <2>8. \A i \in 1 .. n : i \in at <=> i \in Named(above, name)
    BY <2>2, <2>4 DEF Named
  <2> HIDE DEF at
  <2>9. CASE scopes[h][name] # NoNode
    <3>1. n + 1 \in at /\ n + 1 \in Nat
      BY <2>2, <2>6, <2>9
    <3>2. Max(at) \in at /\ \A k \in at : Max(at) >= k
      BY <2>5, <3>1, LastOf
    <3>3. Max(at) \in 1 .. n + 1 /\ Max(at) >= n + 1
      BY <2>5, <3>1, <3>2
    <3>4. Max(at) = n + 1
      BY <2>2, <3>3
    <3> QED
      BY <2>1, <2>2, <2>3, <2>4, <2>9, <3>1, <3>4
  <2>10. CASE scopes[h][name] = NoNode
    <3>1. at = Named(above, name)
      BY <2>2, <2>5, <2>6, <2>7, <2>8, <2>10, SameWithoutLast
    <3>2. CASE at = {}
      BY <2>1, <2>3, <2>10, <3>1, <3>2 DEF Within
    <3>3. CASE at # {}
      <4>1. Max(at) \in 1 .. n
        BY <2>2, <2>7, <3>1, <3>3, LastOf
      <4>2. path[Max(at)] = above[Max(at)] /\ (own(Max(at)) <=> scopeName[above[Max(at)]] = name)
        BY <2>2, <2>4, <4>1
      <4>3. Within(above)[name] = IF scopeName[above[Max(at)]] = name THEN above[Max(at)]
                                  ELSE scopes[above[Max(at)]][name]
        BY <3>1, <3>3 DEF Within
      <4> QED
        BY <2>1, <2>3, <2>10, <3>3, <4>2, <4>3
    <3> QED
      BY <3>2, <3>3
  <2> QED
    BY <2>9, <2>10
<1> QED
  BY <1>1 DEF Bound, Found

\* What Visited makes of a handler by way of those above it, when v is what it
\* makes of its children.
VisitedOf(selecting, v, h, above) ==
  Tasks(h, "pre", bindings[h]["pre"], Found(Append(above, h)))
  \o FlattenSeq([i \in DOMAIN children[h] |-> v[children[h][i]][Append(above, h)]])
  \o Tasks(h, "post", bindings[h]["post"], Found(Append(above, h)))
  \o SelectTasks(h, selecting, Found(Append(above, h)))

Visits(selecting, v) ==
  v = [h \in Handlers |-> [above \in Lists |-> VisitedOf(selecting, v, h, above)]]

\* A handler is visited as it is collected within what is named above it.
LEMMA VisitedOfCollected ==
  ASSUME NEW selecting, NEW v, NEW f, NEW h \in Handlers, NEW above \in Lists,
         \A c \in ToSet(children[h]) : v[c][Append(above, h)] = f[c][Within(Append(above, h))]
  PROVE  VisitedOf(selecting, v, h, above) = CollectedOf(selecting, f, h, Within(above))
<1>1. PICK s : s = Found(Append(above, h)) /\ s = Bound(h, Within(above))
  BY FoundFurther
<1>2. PICK q : q = Within(Append(above, h)) /\ q = ChildScope(h, Within(above))
  BY WithinFurther
<1>3. [i \in DOMAIN children[h] |-> v[children[h][i]][Append(above, h)]]
      = [i \in DOMAIN children[h] |-> f[children[h][i]][q]]
  BY <1>2 DEF ToSet
<1>4. VisitedOf(selecting, v, h, above)
      = Tasks(h, "pre", bindings[h]["pre"], s)
        \o FlattenSeq([i \in DOMAIN children[h] |-> f[children[h][i]][q]])
        \o Tasks(h, "post", bindings[h]["post"], s)
        \o SelectTasks(h, selecting, s)
  BY <1>1, <1>3 DEF VisitedOf
<1>5. CollectedOf(selecting, f, h, Within(above))
      = Tasks(h, "pre", bindings[h]["pre"], s)
        \o FlattenSeq([i \in DOMAIN children[h] |-> f[children[h][i]][q]])
        \o Tasks(h, "post", bindings[h]["post"], s)
        \o SelectTasks(h, selecting, s)
  BY <1>1, <1>2 DEF CollectedOf
<1> QED
  BY <1>4, <1>5

LEMMA WithinTyped ==
  ASSUME NamesGood, NEW above \in Lists
  PROVE  Within(above) \in Outer
<1>1. scopes \in [Handlers -> Scopes] /\ Nodes \subseteq Containers /\ Handlers \subseteq Containers
  BY DEF NamesGood, NamesTyped, Containers
<1>2. ASSUME NEW name \in Names
      PROVE  Within(above)[name] \in Containers \union {NoNode}
  <2>1. CASE Named(above, name) = {}
    BY <2>1 DEF Within
  <2>2. CASE Named(above, name) # {}
    <3>1. Len(above) \in Nat /\ Named(above, name) \in SUBSET (1 .. Len(above))
      BY DEF Named, Lists
    <3>2. Max(Named(above, name)) \in 1 .. Len(above)
      BY <2>2, <3>1, LastOf
    <3>3. PICK h \in Handlers : h = above[Max(Named(above, name))]
      BY <3>2 DEF Lists
    <3>4. scopes[h][name] \in Nodes \union {NoNode}
      BY <1>1 DEF Scopes
    <3>5. Within(above)[name] = IF scopeName[h] = name THEN h ELSE scopes[h][name]
      BY <2>2, <3>3 DEF Within
    <3> QED
      BY <1>1, <3>4, <3>5
  <2> QED
    BY <2>1, <2>2
<1> QED
  BY <1>2 DEF Outer, Within

\* What is collected, taken by way of those above, is what is visited.
LEMMA VisitsExists ==
  ASSUME LinksGood, NamesGood, NEW selecting, NEW f, Collects(selecting, f)
  PROVE  Visits(selecting, [h \in Handlers |-> [above \in Lists |-> f[h][Within(above)]]])
<1> DEFINE F == [h \in Handlers |-> [above \in Lists |-> f[h][Within(above)]]]
<1>1. children \in [Handlers -> Lists]
  BY DEF LinksGood, LinksTyped
<1>2. ASSUME NEW h \in Handlers, NEW above \in Lists
      PROVE  F[h][above] = VisitedOf(selecting, F, h, above)
  <2>1. F[h][above] = f[h][Within(above)]
    OBVIOUS
  <2>2. f[h] = [parent \in Outer |-> CollectedOf(selecting, f, h, parent)]
    BY DEF Collects
  <2>3. f[h][Within(above)] = CollectedOf(selecting, f, h, Within(above))
    BY <2>2, WithinTyped
  <2>4. \A c \in ToSet(children[h]) : F[c][Append(above, h)] = f[c][Within(Append(above, h))]
    <3>1. Append(above, h) \in Lists
      BY PathFacts
    <3>2. ToSet(children[h]) \subseteq Handlers
      BY <1>1 DEF ToSet, Lists
    <3> QED
      BY <3>1, <3>2
  <2> HIDE DEF F
  <2>5. VisitedOf(selecting, F, h, above) = CollectedOf(selecting, f, h, Within(above))
    BY <2>4, VisitedOfCollected
  <2> QED
    BY <2>1, <2>3, <2>5
<1>3. F = [h \in Handlers |-> [above \in Lists |-> F[h][above]]]
  OBVIOUS
<1> HIDE DEF F
<1>4. F = [h \in Handlers |-> [above \in Lists |-> VisitedOf(selecting, F, h, above)]]
  BY <1>2, <1>3
<1>5. Visits(selecting, F)
  BY <1>4 DEF Visits
<1> QED
  BY <1>5 DEF F

LEMMA VisitsCollected ==
  ASSUME LinksGood, NamesGood, Acyclic(children), NEW selecting,
         NEW f, Collects(selecting, f), NEW v, Visits(selecting, v)
  PROVE  \A h \in Handlers, above \in Lists : v[h][above] = f[h][Within(above)]
<1> DEFINE Right(h) == \A above \in Lists : v[h][above] = f[h][Within(above)]
           W == {h \in Handlers : ~Right(h)}
<1>1. children \in [Handlers -> Lists]
  BY DEF LinksGood, LinksTyped
<1>2. SUFFICES ASSUME W # {} PROVE FALSE
  OBVIOUS
<1>3. PICK h \in W : ToSet(children[h]) \intersect W = {}
  <2>1. W \in SUBSET Handlers
    OBVIOUS
  <2> HIDE DEF W
  <2> QED
    BY <1>1, <1>2, <2>1, LowestHandler
<1>4. h \in Handlers /\ ToSet(children[h]) \subseteq Handlers
  BY <1>1, <1>3 DEF ToSet, Lists
<1>5. \A c \in ToSet(children[h]) : Right(c)
  BY <1>3, <1>4
<1>6. ASSUME NEW above \in Lists
      PROVE  v[h][above] = f[h][Within(above)]
  <2>1. v[h] = [a \in Lists |-> VisitedOf(selecting, v, h, a)]
    BY <1>4 DEF Visits
  <2>2. f[h] = [parent \in Outer |-> CollectedOf(selecting, f, h, parent)]
    BY <1>4 DEF Collects
  <2>3. Within(above) \in Outer /\ Append(above, h) \in Lists
    BY <1>4, WithinTyped, PathFacts
  <2>4. \A c \in ToSet(children[h]) : v[c][Append(above, h)] = f[c][Within(Append(above, h))]
    BY <1>5, <2>3
  <2> HIDE DEF Right, W
  <2>5. VisitedOf(selecting, v, h, above) = CollectedOf(selecting, f, h, Within(above))
    BY <1>4, <2>4, VisitedOfCollected
  <2> QED
    BY <2>1, <2>2, <2>3, <2>5
<1> QED
  BY <1>3, <1>6

LEMMA VisitedBySolution ==
  ASSUME NEW e \in AllEvents, NEW F, Visits(e \in selects, F)
  PROVE  \E v : /\ Visits(e \in selects, v)
                /\ Visited(e) = FlattenSeq([i \in DOMAIN handlers[e] |-> v[handlers[e][i]][<<>>]])
<1>1. PICK v : v = CHOOSE g : Visits(e \in selects, g)
  OBVIOUS
<1>2. Visits(e \in selects, v)
  BY <1>1
<1>3. Visited(e) = FlattenSeq([i \in DOMAIN handlers[e] |-> v[handlers[e][i]][<<>>]])
  BY <1>1 DEF Visited, Visits, VisitedOf, Found, Lists
<1> QED
  BY <1>2, <1>3

\* The way of the code and that of the programming guide have the same tasks.
LEMMA VisitedIsCollected ==
  ASSUME LinksInv, NEW e \in AllEvents
  PROVE  Visited(e) = Collected(handlers[e], e \in selects)
<1>1. LinksGood /\ NamesGood /\ Acyclic(children) /\ handlers \in [AllEvents -> Lists]
  BY DEF LinksInv, LinksGood, LinksTyped
<1>2. PICK b \in BOOLEAN : b = (e \in selects)
  <2>1. (e \in selects) \in BOOLEAN
    OBVIOUS
  <2> QED
    BY <2>1, Zenon
<1>3. PICK hs \in Lists : hs = handlers[e]
  BY <1>1
<1>4. CollectedSolved
  BY <1>1, CollectedBySolution
<1>5. PICK f : /\ Collects(b, f)
               /\ Collected(hs, b) = FlattenSeq([i \in DOMAIN hs |-> f[hs[i]][NoScope]])
  BY <1>4 DEF CollectedSolved
<1>6. \E F : Visits(b, F)
  BY <1>1, <1>5, VisitsExists
<1>7. PICK F : Visits(e \in selects, F)
  BY <1>2, <1>6
<1>8. PICK v : /\ Visits(e \in selects, v)
               /\ Visited(e) = FlattenSeq([i \in DOMAIN handlers[e] |-> v[handlers[e][i]][<<>>]])
  BY <1>7, VisitedBySolution
<1>9. Visits(b, v)
  BY <1>2, <1>8
<1>10. \A h \in Handlers, above \in Lists : v[h][above] = f[h][Within(above)]
  BY <1>1, <1>5, <1>9, VisitsCollected
<1>11. <<>> \in Lists /\ Within(<<>>) = NoScope
  BY EmptyFacts, WithinNothing
<1>12. \A i \in DOMAIN hs : v[hs[i]][<<>>] = f[hs[i]][NoScope]
  <2>1. \A h \in Handlers : v[h][<<>>] = f[h][NoScope]
    <3>1. PICK none \in Lists : none = <<>> /\ Within(none) = NoScope
      BY <1>11
    <3> QED
      BY <1>10, <3>1
  <2>2. \A i \in DOMAIN hs : hs[i] \in Handlers
    BY DEF Lists
  <2> QED
    BY <2>1, <2>2
<1>13. [i \in DOMAIN hs |-> v[hs[i]][<<>>]] = [i \in DOMAIN hs |-> f[hs[i]][NoScope]]
  BY <1>12
<1> QED
  BY <1>2, <1>3, <1>5, <1>8, <1>13
-----------------------------------------------------------------------------
(***************************************************************************)
(* What follows.                                                            *)
(***************************************************************************)
LEMMA ExactFollows == EventsInv => BackReferencesExact
<1> SUFFICES ASSUME EventsInv PROVE BackReferencesExact
  OBVIOUS
<1>1. LinksGood /\ NamesGood
  BY DEF EventsInv, LinksInv
<1>2. /\ handlers \in [AllEvents -> Lists] /\ events \in [Handlers -> SUBSET AllEvents]
      /\ \A h \in Handlers, e \in AllEvents : e \in events[h] <=> h \in ToSet(handlers[e])
      /\ \A h, p \in Handlers : parents[h][p] = Times(children[p], h)
  BY <1>1 DEF LinksGood, LinksTyped, LinksExact
<1>3. \A e \in AllEvents, h \in Handlers : Contains(handlers[e], h) <=> h \in ToSet(handlers[e])
  BY <1>2, TimesFacts
<1>4. \A h \in Handlers : events[h] = {e \in AllEvents : Contains(handlers[e], h)}
  BY <1>2, <1>3
<1>5. \A m \in Nodes, h \in Handlers :
        users[m][h] = Cardinality({name \in Names : scopes[h][name] = m})
  BY <1>1 DEF NamesGood, NamesExact, Giving
<1> QED
  BY <1>2, <1>4, <1>5 DEF BackReferencesExact

\* All under an event that can execute can.
LEMMA CanFollows ==
  ASSUME EventsInv, NEW e \in AllEvents, can[e] = "can"
  PROVE  /\ NodesUnder(e) \intersect broken = {}
         /\ \A h \in HandlersUnder(e) : ~NotBound(h)
         /\ ~NotFound(e)
<1> DEFINE U == Under(handlers, children, e)
           T == {h \in U : can[h] = "can"}
<1>1. /\ handlers \in [AllEvents -> Lists] /\ children \in [Handlers -> Lists]
      /\ (\A h \in Handlers : HandlerAnswered(h)) /\ EventAnswered(e)
  BY DEF EventsInv, LinksInv, AnswersInv, LinksGood, LinksTyped
<1>2. /\ U \in SUBSET Handlers
      /\ ToSet(handlers[e]) \subseteq U
      /\ \A m \in U : ToSet(children[m]) \subseteq U
  BY <1>1, UnderFacts
<1>3. T \in SUBSET Handlers /\ ToSet(handlers[e]) \subseteq T
  BY <1>1, <1>2 DEF EventAnswered
<1>4. \A m \in T : ToSet(children[m]) \subseteq T
  BY <1>1, <1>2 DEF HandlerAnswered
<1>5. U \subseteq T
  <2> HIDE DEF T
  <2> QED
    BY <1>1, <1>3, <1>4, UnderFacts
<1>6. \A h \in U : Fit(h)
  BY <1>1, <1>2, <1>5 DEF HandlerAnswered
<1>7. HandlersUnder(e) = U
  BY DEF HandlersUnder, Under
<1> HIDE DEF U
<1>8. NodesUnder(e) \intersect broken = {}
  BY <1>6, <1>7 DEF NodesUnder, Fit
<1> QED
  BY <1>1, <1>6, <1>7, <1>8 DEF Fit, EventAnswered

\* Under an event that cannot execute there is what keeps it from that.
LEMMA CannotFollows ==
  ASSUME EventsInv, NEW e \in AllEvents, can[e] = "cannot",
         NodesUnder(e) \intersect broken = {},
         \A h \in HandlersUnder(e) : ~NotBound(h),
         ~NotFound(e)
  PROVE  FALSE
<1> DEFINE U == Under(handlers, children, e)
           W == {h \in U : can[h] = "cannot"}
<1>1. /\ handlers \in [AllEvents -> Lists] /\ children \in [Handlers -> Lists] /\ Acyclic(children)
      /\ (\A h \in Handlers : HandlerAnswered(h)) /\ EventAnswered(e)
  BY DEF EventsInv, LinksInv, AnswersInv, LinksGood, LinksTyped
<1>2. /\ U \in SUBSET Handlers
      /\ ToSet(handlers[e]) \subseteq U
      /\ \A m \in U : ToSet(children[m]) \subseteq U
  BY <1>1, UnderFacts
<1>3. HandlersUnder(e) = U
  BY DEF HandlersUnder, Under
<1> HIDE DEF U
<1>4. \A h \in U : Fit(h)
  BY <1>3 DEF NodesUnder, Fit
<1>5. W \in SUBSET Handlers /\ W # {}
  BY <1>1, <1>2 DEF EventAnswered
<1>6. PICK h \in W : ToSet(children[h]) \intersect W = {}
  <2> HIDE DEF W
  <2> QED
    BY <1>1, <1>5, LowestHandler
<1>7. PICK c \in ToSet(children[h]) : can[c] = "cannot"
  BY <1>1, <1>2, <1>4, <1>6 DEF HandlerAnswered
<1> QED
  BY <1>2, <1>6, <1>7

LEMMA CurrentFollows == EventsInv => EventIsCurrent
<1> SUFFICES ASSUME EventsInv PROVE EventIsCurrent
  OBVIOUS
<1>1. LinksInv /\ \A e \in AllEvents : EventKept(e)
  BY DEF EventsInv, AnswersInv
<1> DEFINE sound(e) == /\ NodesUnder(e) \intersect broken = {}
                       /\ \A h \in HandlersUnder(e) : ~NotBound(h)
                       /\ ~NotFound(e)
<1>2. \A e \in AllEvents : can[e] = "can" => sound(e)
  BY CanFollows
<1>3. \A e \in AllEvents : can[e] = "cannot" => ~sound(e)
  BY CannotFollows
<1>4. \A e \in AllEvents : can[e] = "can" => tasks[e] = Visited(e)
  BY <1>1, VisitedIsCollected DEF EventKept
<1> QED
  BY <1>2, <1>3, <1>4 DEF EventIsCurrent

\* Every variable of the events has its type in every reachable state; among the
\* tasks an event keeps there is none with a name that was not found.
THEOREM EventTypeCorrect == Spec => []TypeOK
<1>1. EventsInv => TypeOK
  BY TypesTogether DEF EventsInv, LinksInv, LinksGood, NamesGood
<1> QED
  BY <1>1, EventsInvHolds, PTL

\* After any sequence of edits and destructions, what a handler knows of the
\* events and the parents that refer to it, and a node of the handlers that name
\* it, is exact, with multiplicity: no edit is kept from one that refers to it.
THEOREM BackReferencesStayExact == Spec => []BackReferencesExact
<1> QED
  BY ExactFollows, EventsInvHolds, PTL

\* The errors kept for an object that is not marked for recompilation are those
\* of the present graph, however far away and long ago it was edited.
THEOREM ErrorsStayCurrent == Spec => []ErrorsCurrent
<1>1. EventsInv => ErrorsCurrent
  BY DEF EventsInv, AnswersInv
<1> QED
  BY <1>1, EventsInvHolds, PTL

\* What an unmarked event keeps to run is what the programming guide says it runs
\* in the present graph; whether it can execute is decided by the present graph.
THEOREM EventsStayCurrent == Spec => []EventIsCurrent
<1> QED
  BY CurrentFollows, EventsInvHolds, PTL

\* When an event that can execute is fired, every node that a handler under it
\* names has been brought up to date.
THEOREM NodesAreEvaluatedFirst == Spec => NodesEvaluatedFirst
<1> DEFINE Right == \A e \in AllEvents :
             can'[e] = "can" /\ Fire(e) => NodesUnder(e) \intersect dirty' = {}
<1>1. EventsInv => Right
  <2> SUFFICES ASSUME EventsInv, NEW e \in AllEvents, can'[e] = "can", Fire(e)
               PROVE  NodesUnder(e) \intersect dirty' = {}
    OBVIOUS
  <2>1. Steady /\ EventKept(e)'
    BY FireKeeps
  <2>2. NodesUnder(e)' = NodesUnder(e)
    BY <2>1, SteadyFound DEF EventsInv
  <2>3. stream'[e] = NodesUnder(e)
    BY <2>1, <2>2 DEF EventKept
  <2>4. dirty' = dirty \ stream'[e]
    BY DEF Fire
  <2> QED
    BY <2>3, <2>4
<1>2. EventsInv /\ [Next]_vars => [Right]_vars
  BY <1>1
<1>3. NodesEvaluatedFirst <=> [][Right]_vars
  BY DEF NodesEvaluatedFirst
<1> QED
  BY <1>2, <1>3, EventsInvHolds, PTL DEF Spec
===============================================================================
