--------------------------- MODULE OperatorsProofs ---------------------------
(***************************************************************************)
(* Proofs about Operators, for any operators, sources and addresses.        *)
(***************************************************************************)
EXTENDS Operators, FiniteSetTheorems, TLAPS

At(o, steps) == command.step \in steps /\ command.op = o

\* The operator of the command in progress, and the objects it holds so far.
CommandSound ==
  \A o \in Ops :
    /\ At(o, {"lookup", "take"}) => code[o] = NoCode /\ source[o] \in Sources
    /\ At(o, {"resolve", "read", "set"}) => code[o] \in Codes
    /\ At(o, {"lookup", "take", "resolve", "read", "set"}) => function[o] = NoFunction

TakeSound ==
  \A o \in Ops, c \in Codes :
    At(o, {"take"}) /\ command.code = c =>
      Released(c) \/ (text[c] = source[o] /\ cache[source[o]] \in {c, NoCode, Dead})

UnderWaySound ==
  \A o \in Ops, f \in Functions :
    At(o, {"read", "set"}) /\ command.function = f =>
      /\ ~InUse(f)
      /\ of[f] = code[o]
      /\ Callable(o) => stub[f] = entry[o]

JobsSound ==
  \A c \in Codes : job[c] \in {"invalidate", "delete"} => c \in alive /\ count[c] = 0

\* A weak handle that is not invalidated has code that is not freed.
CacheSound ==
  \A s \in Sources : cache[s] \in Codes =>
    /\ cache[s] \in alive
    /\ text[cache[s]] = s
    /\ count[cache[s]] > 0 \/ job[cache[s]] = "invalidate"

OneOwner ==
  \A o, p \in Ops, f \in Functions :
    f \in {function[o], call[o]} /\ f \in {function[p], call[p]} => o = p

SourceSound ==
  \A o \in Ops : code[o] \in Codes =>
    /\ source[o] \in Sources
    /\ text[code[o]] = source[o]
    /\ cache[source[o]] \in {code[o], Dead}

FunctionSound ==
  \A o \in Ops : function[o] # NoFunction =>
    /\ of[function[o]] = code[o]
    /\ Callable(o) => stub[function[o]] = entry[o]
    /\ o \notin marked => o \in able /\ call[o] \in {function[o], NoFunction}

CallableSound ==
  \A o \in Ops :
    Callable(o) /\ function[o] = NoFunction => At(o, {"resolve", "read", "set"})

IInv ==
  /\ TypeOK
  /\ RefsExact
  /\ CommandSound /\ TakeSound /\ UnderWaySound
  /\ JobsSound /\ CacheSound /\ OneOwner
  /\ SourceSound /\ FunctionSound /\ CallableSound
-----------------------------------------------------------------------------
(***************************************************************************)
(* Who has a code.                                                          *)
(***************************************************************************)
\* The sets that are counted are finite.
LEMMA HoldersFinite ==
  ASSUME NEW c
  PROVE  /\ IsFiniteSet(OpsWith(c)) /\ Cardinality(OpsWith(c)) \in Nat
         /\ IsFiniteSet(FunctionsOf(c)) /\ Cardinality(FunctionsOf(c)) \in Nat
<1>1. OpsWith(c) \subseteq Ops /\ FunctionsOf(c) \subseteq Functions
  BY DEF OpsWith, FunctionsOf
<1>2. IsFiniteSet(OpsWith(c)) /\ IsFiniteSet(FunctionsOf(c))
  BY <1>1, FS_Subset, OperatorConstants
<1> QED
  BY <1>2, FS_CardinalityType

\* A code that an operator or a function has is counted: it is alive, and its job is
\* not through with it.
LEMMA HeldIsLive ==
  ASSUME TypeOK, CountsExact, FreedAtZero, JobsSound, NEW c \in Codes,
         OpsWith(c) # {} \/ FunctionsOf(c) # {}
  PROVE  /\ count[c] \in Nat /\ count[c] > 0
         /\ c \in alive
         /\ job[c] \notin {"invalidate", "delete"}
<1>1. Cardinality(OpsWith(c)) \in Nat /\ Cardinality(FunctionsOf(c)) \in Nat
  BY HoldersFinite
<1>2. Cardinality(OpsWith(c)) > 0 \/ Cardinality(FunctionsOf(c)) > 0
  BY <1>1, HoldersFinite, FS_EmptySet
<1>3. JobRef(c) \in {0, 1}
  BY DEF JobRef
<1>4. count[c] = Cardinality(OpsWith(c)) + Cardinality(FunctionsOf(c)) + JobRef(c)
  BY DEF CountsExact
<1>5. count[c] > 0 /\ count[c] \in Nat
  BY <1>1, <1>2, <1>3, <1>4 DEF TypeOK
<1> QED
  BY <1>5 DEF FreedAtZero, JobsSound

\* A code without a count has no holder.
LEMMA UncountedIsFree ==
  ASSUME TypeOK, CountsExact, NEW c \in Codes, count[c] = 0
  PROVE  OpsWith(c) = {} /\ FunctionsOf(c) = {} /\ JobRef(c) = 0
<1>1. Cardinality(OpsWith(c)) \in Nat /\ Cardinality(FunctionsOf(c)) \in Nat
  BY HoldersFinite
<1>2. JobRef(c) \in {0, 1}
  BY DEF JobRef
<1>3. 0 = Cardinality(OpsWith(c)) + Cardinality(FunctionsOf(c)) + JobRef(c)
  BY DEF CountsExact
<1>4. Cardinality(OpsWith(c)) = 0 /\ Cardinality(FunctionsOf(c)) = 0 /\ JobRef(c) = 0
  BY <1>1, <1>2, <1>3
<1> QED
  BY <1>4, HoldersFinite, FS_EmptySet
-----------------------------------------------------------------------------
(***************************************************************************)
(* What the end of handles does.                                            *)
(***************************************************************************)
\* The part of a set that is lost, and what is left of it.
LEMMA LostPart ==
  ASSUME NEW S, IsFiniteSet(S), NEW T
  PROVE  /\ Cardinality(S \intersect T) \in Nat
         /\ Cardinality(S \intersect T) <= Cardinality(S)
         /\ Cardinality(S \ T) = Cardinality(S) - Cardinality(S \intersect T)
<1>1. IsFiniteSet(S \intersect T) /\ Cardinality(S \intersect T) <= Cardinality(S)
  BY FS_Subset
<1>2. Cardinality(S \ T) = Cardinality(S) - Cardinality(S \intersect T)
  BY FS_Difference
<1> QED
  BY <1>1, <1>2, FS_CardinalityType

\* The handles that go are those of functions not freed before, and of operators.
Dropping(F, O) ==
  /\ F \in SUBSET Functions
  /\ O \in SUBSET Ops
  /\ \A f \in F : of[f] \in Codes
  /\ Drop(F, O)
  /\ code' = [o \in Ops |-> IF o \in O THEN NoCode ELSE code[o]]
  /\ command = Idle
  /\ job' = job

LEMMA DropCounts ==
  ASSUME IInv, NEW F, NEW O, Dropping(F, O), NEW c \in Codes
  PROVE  /\ Lost(F, O, c) \in Nat
         /\ count'[c] = count[c] - Lost(F, O, c)
         /\ count'[c] \in Nat
         /\ count'[c] = Cardinality(OpsWith(c)') + Cardinality(FunctionsOf(c)') + JobRef(c)'
<1> DEFINE Fc == {f \in F : of[f] = c}
           Oc == {o \in O : code[o] = c}
<1>1. F \subseteq Functions /\ O \subseteq Ops
  BY DEF Dropping
<1>2. Fc = FunctionsOf(c) \intersect F /\ Oc = OpsWith(c) \intersect O
  BY <1>1 DEF FunctionsOf, OpsWith
<1>3. FunctionsOf(c)' = FunctionsOf(c) \ F
  BY <1>1, OperatorConstants DEF FunctionsOf, Dropping, Drop
<1>4. OpsWith(c)' = OpsWith(c) \ O
  BY <1>1, OperatorConstants DEF OpsWith, Dropping
<1>5. /\ Cardinality(Fc) \in Nat
      /\ Cardinality(Fc) <= Cardinality(FunctionsOf(c))
      /\ Cardinality(FunctionsOf(c)') = Cardinality(FunctionsOf(c)) - Cardinality(Fc)
  <2>1. IsFiniteSet(FunctionsOf(c))
    BY HoldersFinite
  <2>2. /\ Cardinality(FunctionsOf(c) \intersect F) \in Nat
        /\ Cardinality(FunctionsOf(c) \intersect F) <= Cardinality(FunctionsOf(c))
        /\ Cardinality(FunctionsOf(c) \ F) = Cardinality(FunctionsOf(c)) - Cardinality(FunctionsOf(c) \intersect F)
    BY <2>1, LostPart
  <2> QED
    BY <1>2, <1>3, <2>2
<1>6. /\ Cardinality(Oc) \in Nat
      /\ Cardinality(Oc) <= Cardinality(OpsWith(c))
      /\ Cardinality(OpsWith(c)') = Cardinality(OpsWith(c)) - Cardinality(Oc)
  <2>1. IsFiniteSet(OpsWith(c))
    BY HoldersFinite
  <2>2. /\ Cardinality(OpsWith(c) \intersect O) \in Nat
        /\ Cardinality(OpsWith(c) \intersect O) <= Cardinality(OpsWith(c))
        /\ Cardinality(OpsWith(c) \ O) = Cardinality(OpsWith(c)) - Cardinality(OpsWith(c) \intersect O)
    BY <2>1, LostPart
  <2> QED
    BY <1>2, <1>4, <2>2
<1>7. Lost(F, O, c) = Cardinality(Fc) + Cardinality(Oc)
  BY DEF Lost
<1>8. JobRef(c)' = JobRef(c) /\ JobRef(c) \in {0, 1}
  BY DEF JobRef, Dropping
<1>9. count'[c] = count[c] - Lost(F, O, c)
  BY DEF Dropping, Drop
<1>10. count[c] = Cardinality(OpsWith(c)) + Cardinality(FunctionsOf(c)) + JobRef(c)
  BY DEF IInv, RefsExact, CountsExact
<1>11. Cardinality(OpsWith(c)) \in Nat /\ Cardinality(FunctionsOf(c)) \in Nat
  BY HoldersFinite
<1> HIDE DEF Fc, Oc
<1> QED
  BY <1>5, <1>6, <1>7, <1>8, <1>9, <1>10, <1>11

\* What is freed with them: the code they were the last to have.
Last(F, O) == {c \in Codes : Lost(F, O, c) > 0 /\ count[c] = Lost(F, O, c)}

LEMMA DropFrees ==
  ASSUME IInv, NEW F, NEW O, Dropping(F, O), NEW c \in Codes
  PROVE  /\ c \in Last(F, O) <=> count[c] > 0 /\ count'[c] = 0
         /\ c \in Last(F, O) => job[c] \notin {"queued", "optimised", "invalidate", "delete"}
<1>1. /\ Lost(F, O, c) \in Nat
      /\ count'[c] = count[c] - Lost(F, O, c)
      /\ count'[c] \in Nat
      /\ count'[c] = Cardinality(OpsWith(c)') + Cardinality(FunctionsOf(c)') + JobRef(c)'
  BY DropCounts
<1>2. count[c] \in Nat
  BY DEF IInv, TypeOK
<1>3. c \in Last(F, O) <=> count[c] > 0 /\ count'[c] = 0
  BY <1>1, <1>2 DEF Last
<1>4. ASSUME c \in Last(F, O)
      PROVE  job[c] \notin {"queued", "optimised"}
  <2>1. Cardinality(OpsWith(c)') \in Nat /\ Cardinality(FunctionsOf(c)') \in Nat
    <3>1. IsFiniteSet(OpsWith(c)) /\ IsFiniteSet(FunctionsOf(c))
      BY HoldersFinite
    <3>2. OpsWith(c)' \subseteq Ops /\ FunctionsOf(c)' \subseteq Functions
      BY DEF OpsWith, FunctionsOf
    <3> QED
      BY <3>2, FS_Subset, FS_CardinalityType, OperatorConstants
  <2>2. JobRef(c)' \in {0, 1} /\ JobRef(c)' = JobRef(c)
    BY DEF JobRef, Dropping
  <2>3. JobRef(c) = 0
    BY <1>1, <1>3, <1>4, <2>1, <2>2
  <2> QED
    BY <2>3 DEF JobRef
<1>5. c \in Last(F, O) => job[c] \notin {"invalidate", "delete"}
  BY <1>2, <1>3 DEF IInv, JobsSound
<1> QED
  BY <1>3, <1>4, <1>5

LEMMA DropTypes ==
  ASSUME IInv, NEW F, NEW O, Dropping(F, O)
  PROVE  /\ code' \in [Ops -> Codes \union {NoCode}]
         /\ of' \in [Functions -> Codes \union {NoCode}]
         /\ stub' \in [Functions -> Names \union {NoName}]
         /\ runs' \in [Functions -> Engines]
         /\ alive' \subseteq Codes
         /\ text' \in [Codes -> Sources \union {NoSource}]
         /\ count' \in [Codes -> Nat]
         /\ engine' \in [Codes -> Engines]
         /\ registered' \in [Codes -> SUBSET Functions]
         /\ job' \in [Codes -> JobSteps]
         /\ cache' \in [Sources -> Codes \union {NoCode, Dead}]
<1>1. TypeOK
  BY DEF IInv
<1>2. count' \in [Codes -> Nat]
  <2>1. \A c \in Codes : count'[c] \in Nat
    BY DropCounts
  <2>2. count' = [c \in Codes |-> count[c] - Lost(F, O, c)]
    BY DEF Dropping, Drop
  <2> QED
    BY <2>1, <2>2
<1>3. cache' \in [Sources -> Codes \union {NoCode, Dead}]
  BY <1>1 DEF TypeOK, Dropping, Drop, Forgotten
<1>4. of' \in [Functions -> Codes \union {NoCode}] /\ stub' \in [Functions -> Names \union {NoName}]
  BY <1>1 DEF TypeOK, Dropping, Drop
<1>5. runs' \in [Functions -> Engines] /\ engine' \in [Codes -> Engines]
  BY <1>1 DEF TypeOK, Dropping, Drop, Engines
<1>6. text' \in [Codes -> Sources \union {NoSource}] /\ alive' \subseteq Codes
  BY <1>1 DEF TypeOK, Dropping, Drop
<1>7. registered' \in [Codes -> SUBSET Functions] /\ job' \in [Codes -> JobSteps]
  BY <1>1 DEF TypeOK, Dropping, Drop
<1>8. code' \in [Ops -> Codes \union {NoCode}]
  BY <1>1 DEF TypeOK, Dropping
<1> QED
  BY <1>2, <1>3, <1>4, <1>5, <1>6, <1>7, <1>8

LEMMA DropSound ==
  ASSUME IInv, NEW F, NEW O, Dropping(F, O), command'.step # "take"
  PROVE  /\ CountsExact' /\ FreedAtZero' /\ RegisteredExact'
         /\ JobsSound' /\ CacheSound'
<1>1. /\ TypeOK /\ FreedAtZero /\ RegisteredExact /\ JobsSound /\ CacheSound
      /\ job' = job /\ command = Idle
  BY DEF IInv, RefsExact, Dropping
<1>2. /\ alive' = alive \ Last(F, O)
      /\ text' = [c \in Codes |-> IF c \in Last(F, O) THEN NoSource ELSE text[c]]
      /\ cache' = [s \in Sources |-> IF cache[s] \in Last(F, O) THEN Dead ELSE cache[s]]
      /\ registered' = [c \in Codes |-> registered[c] \ F]
      /\ of' = [f \in Functions |-> IF f \in F THEN NoCode ELSE of[f]]
  BY DEF Dropping, Drop, Last, Forgotten
<1>3. \A c \in Codes :
        /\ count[c] \in Nat /\ count'[c] \in Nat
        /\ count'[c] <= count[c]
        /\ c \in Last(F, O) <=> count[c] > 0 /\ count'[c] = 0
  <2> TAKE c \in Codes
  <2>1. count[c] \in Nat
    BY <1>1 DEF TypeOK
  <2>2. /\ Lost(F, O, c) \in Nat /\ count'[c] \in Nat
        /\ count'[c] = count[c] - Lost(F, O, c)
    BY DropCounts
  <2>3. c \in Last(F, O) <=> count[c] > 0 /\ count'[c] = 0
    BY DropFrees
  <2> QED
    BY <2>1, <2>2, <2>3
<1>4. CountsExact'
  BY DropCounts DEF CountsExact
<1>5. FreedAtZero'
  <2>1. \A c \in Codes : count'[c] > 0 => c \in alive'
    BY <1>1, <1>2, <1>3 DEF FreedAtZero
  <2>2. ASSUME NEW c \in alive', count'[c] = 0
        PROVE  job'[c] \in {"invalidate", "delete"}
    <3>1. c \in alive /\ c \in Codes /\ c \notin Last(F, O)
      BY <1>1, <1>2, <2>2 DEF TypeOK
    <3>2. count[c] = 0
      BY <1>3, <2>2, <3>1
    <3> QED
      BY <1>1, <3>1, <3>2 DEF FreedAtZero, Idle
  <2> QED
    BY <2>1, <2>2 DEF FreedAtZero
<1>6. RegisteredExact'
  <2>1. \A c \in Codes : FunctionsOf(c)' = FunctionsOf(c) \ F
    BY <1>2, OperatorConstants DEF FunctionsOf
  <2> QED
    BY <1>1, <1>2, <2>1 DEF RegisteredExact
<1>7. JobsSound'
  <2> SUFFICES ASSUME NEW c \in Codes, job[c] \in {"invalidate", "delete"}
               PROVE  c \in alive' /\ count'[c] = 0
    BY <1>1 DEF JobsSound
  <2>1. c \in alive /\ count[c] = 0
    BY <1>1 DEF JobsSound
  <2> QED
    BY <1>2, <1>3, <2>1
<1>8. CacheSound'
  <2> SUFFICES ASSUME NEW s \in Sources, cache'[s] \in Codes
               PROVE  /\ cache'[s] \in alive'
                      /\ text'[cache'[s]] = s
                      /\ count'[cache'[s]] > 0 \/ job'[cache'[s]] = "invalidate"
    BY DEF CacheSound
  <2>1. cache'[s] = cache[s] /\ cache[s] \in Codes /\ cache[s] \notin Last(F, O)
    BY <1>2, OperatorConstants
  <2>2. /\ cache[s] \in alive /\ text[cache[s]] = s
        /\ count[cache[s]] > 0 \/ job[cache[s]] = "invalidate"
    BY <1>1, <2>1 DEF CacheSound
  <2>3. count[cache[s]] > 0 => count'[cache[s]] > 0
    BY <1>3, <2>1
  <2> QED
    BY <1>1, <1>2, <2>1, <2>2, <2>3
<1> QED
  BY <1>4, <1>5, <1>6, <1>7, <1>8

\* What is still held afterwards is as it was.
LEMMA DropKeeps ==
  ASSUME IInv, NEW F, NEW O, Dropping(F, O)
  PROVE  /\ \A f \in Functions \ F :
              /\ of'[f] = of[f] /\ stub'[f] = stub[f] /\ runs'[f] = runs[f]
              /\ of[f] \in Codes => engine'[of[f]] = engine[of[f]]
         /\ \A o \in Ops \ O : code[o] \in Codes =>
              /\ text'[code[o]] = text[code[o]]
              /\ code[o] \notin Last(F, O)
<1>1. TypeOK /\ CountsExact /\ FreedAtZero /\ JobsSound
  BY DEF IInv, RefsExact
<1>2. ASSUME NEW c \in Codes, OpsWith(c)' # {} \/ FunctionsOf(c)' # {}
      PROVE  c \notin Last(F, O)
  <2>1. IsFiniteSet(OpsWith(c)') /\ IsFiniteSet(FunctionsOf(c)')
    <3>1. OpsWith(c)' \subseteq Ops /\ FunctionsOf(c)' \subseteq Functions
      BY DEF OpsWith, FunctionsOf
    <3> QED
      BY <3>1, FS_Subset, OperatorConstants
  <2>2. Cardinality(OpsWith(c)') \in Nat /\ Cardinality(FunctionsOf(c)') \in Nat
    BY <2>1, FS_CardinalityType
  <2>3. Cardinality(OpsWith(c)') > 0 \/ Cardinality(FunctionsOf(c)') > 0
    BY <1>2, <2>1, <2>2, FS_EmptySet
  <2>4. JobRef(c)' \in {0, 1}
    BY DEF JobRef
  <2>5. count'[c] = Cardinality(OpsWith(c)') + Cardinality(FunctionsOf(c)') + JobRef(c)'
    BY DropCounts
  <2>6. count'[c] > 0
    BY <2>2, <2>3, <2>4, <2>5
  <2> QED
    BY <2>6, DropFrees
<1>3. ASSUME NEW f \in Functions \ F
      PROVE  /\ of'[f] = of[f] /\ stub'[f] = stub[f] /\ runs'[f] = runs[f]
             /\ of[f] \in Codes => engine'[of[f]] = engine[of[f]]
  <2>1. of'[f] = of[f] /\ stub'[f] = stub[f] /\ runs'[f] = runs[f]
    BY <1>3 DEF Dropping, Drop
  <2>2. ASSUME of[f] \in Codes PROVE engine'[of[f]] = engine[of[f]]
    <3>1. PICK c \in Codes : c = of[f]
      BY <2>2
    <3>2. FunctionsOf(c)' # {}
      BY <2>1, <3>1 DEF FunctionsOf
    <3>3. c \notin Last(F, O)
      BY <1>2, <3>2
    <3> QED
      BY <3>1, <3>3 DEF Dropping, Drop, Last
  <2> QED
    BY <2>1, <2>2
<1>4. ASSUME NEW o \in Ops \ O, code[o] \in Codes
      PROVE  text'[code[o]] = text[code[o]] /\ code[o] \notin Last(F, O)
  <2>1. PICK c \in Codes : c = code[o]
    BY <1>4
  <2>2. code'[o] = c
    BY <2>1 DEF Dropping
  <2>3. OpsWith(c)' # {}
    BY <2>2 DEF OpsWith
  <2>4. c \notin Last(F, O)
    BY <1>2, <2>3
  <2> QED
    BY <2>1, <2>4 DEF Dropping, Drop, Last
<1> QED
  BY <1>3, <1>4
-----------------------------------------------------------------------------
(***************************************************************************)
(* The beginning of a command.                                              *)
(***************************************************************************)
\* The function of an operator, unless a call has it, is nobody else's.
LEMMA UnusedSound ==
  ASSUME IInv, command = Idle, NEW o \in Ops
  PROVE  /\ Unused(o) \in SUBSET Functions
         /\ \A f \in Unused(o) : of[f] \in Codes
         /\ \A f \in Functions :
              f \in Unused(o) <=>
                /\ InUse(f)
                /\ \A p \in Ops : f # call[p] /\ (p # o => f # function[p])
<1>1. TypeOK /\ FunctionsLive /\ OneOwner
  BY DEF IInv, RefsExact
<1>2. function[o] \in Functions \union {NoFunction} /\ call[o] \in Functions \union {NoFunction}
  BY <1>1 DEF TypeOK
<1>3. Unused(o) \in SUBSET Functions
  BY <1>2 DEF Unused
<1>4. \A f \in Unused(o) : of[f] \in Codes
  <2> TAKE f \in Unused(o)
  <2>1. f \in Functions /\ InUse(f)
    BY <1>3 DEF Unused, InUse
  <2> QED
    BY <1>1, <2>1 DEF FunctionsLive, TypeOK
<1>5. ASSUME NEW f \in Functions
      PROVE  f \in Unused(o) <=>
                /\ InUse(f)
                /\ \A p \in Ops : f # call[p] /\ (p # o => f # function[p])
  <2>1. ASSUME f \in Unused(o)
        PROVE  InUse(f) /\ \A p \in Ops : f # call[p] /\ (p # o => f # function[p])
    BY <1>1, <2>1 DEF Unused, InUse, OneOwner
  <2>2. ASSUME InUse(f), \A p \in Ops : f # call[p] /\ (p # o => f # function[p])
        PROVE  f \in Unused(o)
    BY <2>2, OperatorConstants DEF Unused, InUse
  <2> QED
    BY <2>1, <2>2
<1> QED
  BY <1>3, <1>4, <1>5

\* Without a function in the way, those in use are those not freed.
LEMMA IdleFunctions ==
  ASSUME IInv, command = Idle, NEW f \in Functions
  PROVE  of[f] # NoCode <=> InUse(f)
BY DEF IInv, RefsExact, FunctionsLive, UnderWay, Idle

\* An operator is callable by what it is given.
LEMMA CallableNamed ==
  ASSUME NEW o, Callable(o)
  PROVE  entry[o] \in Names /\ source[o] \in Sources
BY OperatorConstants DEF Callable

\* What goes in each command is held before it.
LEMMA SetFilenameAndSourceCodeDrops ==
  ASSUME IInv, NEW o \in Ops, NEW s \in Sources \union {NoSource}, SetFilenameAndSourceCode(o, s)
  PROVE  Dropping(Unused(o), {o})
<1>1. TypeOK /\ command = Idle
  BY DEF IInv, SetFilenameAndSourceCode
<1>2. Unused(o) \in SUBSET Functions /\ \A f \in Unused(o) : of[f] \in Codes
  BY <1>1, UnusedSound
<1>3. code' = [p \in Ops |-> IF p \in {o} THEN NoCode ELSE code[p]]
  BY <1>1 DEF TypeOK, SetFilenameAndSourceCode
<1> QED
  BY <1>1, <1>2, <1>3 DEF Dropping, SetFilenameAndSourceCode

LEMMA SetEntryPointDrops ==
  ASSUME IInv, NEW o \in Ops, NEW n \in Names \union {NoName}, SetEntryPoint(o, n)
  PROVE  Dropping(Unused(o), {})
<1>1. TypeOK /\ command = Idle
  BY DEF IInv, SetEntryPoint
<1>2. Unused(o) \in SUBSET Functions /\ \A f \in Unused(o) : of[f] \in Codes
  BY <1>1, UnusedSound
<1>3. code' = [p \in Ops |-> IF p \in {} THEN NoCode ELSE code[p]]
  BY <1>1 DEF TypeOK, SetEntryPoint
<1> QED
  BY <1>1, <1>2, <1>3 DEF Dropping, SetEntryPoint

\* The functions of the calls that go, unless their operators have them.
Replaced == {call[o] : o \in {p \in marked : call[p] # function[p]}} \ {NoFunction}

LEMMA ReplacedSound ==
  ASSUME IInv
  PROVE  /\ Replaced \in SUBSET Functions
         /\ \A o \in Ops : function[o] \notin Replaced
         /\ \A o \in Ops \ marked : call[o] \notin Replaced
         /\ \A o \in Ops : o \in marked /\ call[o] # function[o] => call[o] \in Replaced \union {NoFunction}
         /\ \A f \in Replaced : InUse(f)
<1>1. TypeOK /\ OneOwner
  BY DEF IInv
<1>2. Replaced \in SUBSET Functions /\ \A f \in Replaced : InUse(f)
  BY <1>1 DEF TypeOK, InUse, Replaced
<1>3. \A o \in Ops : o \in marked /\ call[o] # function[o] => call[o] \in Replaced \union {NoFunction}
  BY DEF Replaced
<1>4. ASSUME NEW o \in Ops, NEW f \in Replaced, f \in {function[o], call[o]}
      PROVE  o \in marked /\ f # function[o]
  <2>1. PICK p \in Ops : p \in marked /\ call[p] # function[p] /\ f = call[p]
    BY <1>1 DEF TypeOK, Replaced
  <2>2. o = p
    BY <1>1, <1>2, <1>4, <2>1 DEF OneOwner
  <2> QED
    BY <2>1, <2>2
<1> QED
  BY <1>2, <1>3, <1>4

LEMMA PrepareForExecutionDrops ==
  ASSUME IInv, PrepareForExecution
  PROVE  Dropping(Replaced, {})
<1>1. TypeOK /\ command = Idle
  BY DEF IInv, PrepareForExecution
<1>2. \A f \in Replaced : f \in Functions /\ of[f] \in Codes
  BY <1>1, ReplacedSound, IdleFunctions DEF TypeOK
<1>3. code' = [p \in Ops |-> IF p \in {} THEN NoCode ELSE code[p]]
  BY <1>1 DEF TypeOK, PrepareForExecution
<1> QED
  BY <1>1, <1>2, <1>3 DEF Dropping, PrepareForExecution, Replaced

LEMMA SetFilenameAndSourceCodeStep ==
  ASSUME IInv, NEW o \in Ops, NEW s \in Sources \union {NoSource}, SetFilenameAndSourceCode(o, s)
  PROVE  IInv'
<1> DEFINE F == Unused(o)
<1>1. /\ TypeOK /\ CommandSound /\ OneOwner /\ SourceSound /\ FunctionSound /\ CallableSound
      /\ command = Idle
  BY DEF IInv, SetFilenameAndSourceCode
<1>2. /\ F \in SUBSET Functions
      /\ \A f \in F : of[f] \in Codes
      /\ \A f \in Functions :
           f \in F <=> InUse(f) /\ \A p \in Ops : f # call[p] /\ (p # o => f # function[p])
  BY <1>1, UnusedSound
<1> HIDE DEF F
<1>3. /\ source' = [source EXCEPT ![o] = s]
      /\ ast' = [ast EXCEPT ![o] = NoName]
      /\ code' = [code EXCEPT ![o] = NoCode]
      /\ function' = [function EXCEPT ![o] = NoFunction]
      /\ Drop(F, {o})
      /\ command' = IF s = NoSource THEN Idle ELSE [step |-> "lookup", op |-> o]
      /\ UNCHANGED <<entry, call, able, marked, job, undefined>>
  BY DEF SetFilenameAndSourceCode, F
<1>4. Dropping(F, {o})
  BY SetFilenameAndSourceCodeDrops DEF F
<1>5. command' = Idle \/ (command' = [step |-> "lookup", op |-> o] /\ s \in Sources)
  BY <1>3
<1> command'.step \in {"idle", "lookup"}
  BY <1>5 DEF Idle
<1>6. /\ CountsExact' /\ FreedAtZero' /\ RegisteredExact' /\ JobsSound' /\ CacheSound'
  BY <1>4, DropSound
<1>7. TypeOK'
  <2>1. command' \in Command
    BY <1>5 DEF Command
  <2>2. /\ source' \in [Ops -> Sources \union {NoSource}]
        /\ entry' \in [Ops -> Names \union {NoName}]
        /\ ast' \in [Ops -> Names \union {NoName}]
        /\ function' \in [Ops -> Functions \union {NoFunction}]
        /\ call' \in [Ops -> Functions \union {NoFunction}]
        /\ able' \subseteq Ops /\ marked' \subseteq Ops
        /\ undefined' \in BOOLEAN
    BY <1>1, <1>3 DEF TypeOK
  <2> QED
    BY <1>4, <2>1, <2>2, DropTypes DEF TypeOK
<1>8. FunctionsLive'
  <2> SUFFICES ASSUME NEW f \in Functions
               PROVE  of'[f] # NoCode <=> InUse(f)' \/ UnderWay(f)'
    BY DEF FunctionsLive
  <2>1. of'[f] # NoCode <=> of[f] # NoCode /\ f \notin F
    BY <1>3 DEF Drop
  <2>2. of[f] # NoCode <=> InUse(f)
    BY <1>1, IdleFunctions
  <2>3. InUse(f)' <=> InUse(f) /\ f \notin F
    <3>1. InUse(f)' <=> \E p \in Ops : f = call[p] \/ (p # o /\ f = function[p])
      BY <1>1, <1>3, OperatorConstants DEF InUse, TypeOK
    <3> QED
      BY <1>2, <3>1 DEF InUse
  <2>4. ~UnderWay(f)'
    BY <1>5 DEF UnderWay
  <2> QED
    BY <2>1, <2>2, <2>3, <2>4
<1>9. CommandSound'
  <2>1. code'[o] = NoCode /\ source'[o] = s /\ function'[o] = NoFunction
    BY <1>1, <1>3 DEF TypeOK
  <2>2. ASSUME NEW p \in Ops, At(p, {"lookup", "take", "resolve", "read", "set"})'
        PROVE  command'.step = "lookup" /\ p = o /\ s \in Sources
    BY <1>5, <2>2 DEF At, Idle
  <2> QED
    BY <2>1, <2>2 DEF CommandSound, At
<1>10. TakeSound' /\ UnderWaySound'
  BY <1>5 DEF TakeSound, UnderWaySound, At
<1>11. OneOwner'
  BY <1>1, <1>3, OperatorConstants DEF OneOwner, TypeOK
<1>12. SourceSound'
  <2> SUFFICES ASSUME NEW p \in Ops, code'[p] \in Codes
               PROVE  /\ source'[p] \in Sources
                      /\ text'[code'[p]] = source'[p]
                      /\ cache'[source'[p]] \in {code'[p], Dead}
    BY DEF SourceSound
  <2>1. p # o /\ code'[p] = code[p] /\ source'[p] = source[p]
    BY <1>1, <1>3, OperatorConstants DEF TypeOK
  <2>2. /\ source[p] \in Sources /\ text[code[p]] = source[p]
        /\ cache[source[p]] \in {code[p], Dead}
    BY <1>1, <2>1 DEF SourceSound
  <2>3. text'[code[p]] = text[code[p]]
    BY <1>4, <2>1, DropKeeps
  <2>4. cache'[source[p]] \in {cache[source[p]], Dead}
    BY <1>3, <2>2 DEF Drop, Forgotten
  <2> QED
    BY <2>1, <2>2, <2>3, <2>4
<1>13. ASSUME NEW p \in Ops, p # o
       PROVE  /\ Callable(p)' <=> Callable(p)
              /\ function'[p] = function[p] /\ code'[p] = code[p]
  BY <1>1, <1>3, <1>13 DEF Callable, TypeOK
<1>14. ~Callable(o)' /\ function'[o] = NoFunction
  BY <1>1, <1>3 DEF Callable, TypeOK
<1>15. FunctionSound'
  <2> SUFFICES ASSUME NEW p \in Ops, function'[p] # NoFunction
               PROVE  /\ of'[function'[p]] = code'[p]
                      /\ Callable(p)' => stub'[function'[p]] = entry'[p]
                      /\ p \notin marked' => p \in able' /\ call'[p] \in {function'[p], NoFunction}
    BY DEF FunctionSound
  <2>1. p # o /\ function'[p] = function[p] /\ code'[p] = code[p] /\ (Callable(p)' <=> Callable(p))
    BY <1>13, <1>14
  <2>2. function[p] \in Functions \ F
    BY <1>1, <1>2, <2>1 DEF TypeOK
  <2>3. of'[function[p]] = of[function[p]] /\ stub'[function[p]] = stub[function[p]]
    BY <1>4, <2>2, DropKeeps
  <2> QED
    BY <1>1, <1>3, <2>1, <2>3 DEF FunctionSound
<1>16. CallableSound'
  <2> SUFFICES ASSUME NEW p \in Ops, Callable(p)', function'[p] = NoFunction
               PROVE  FALSE
    BY DEF CallableSound
  <2>1. p # o /\ Callable(p) /\ function[p] = NoFunction
    BY <1>13, <1>14
  <2> QED
    BY <1>1, <2>1 DEF CallableSound, At, Idle
<1> QED
  BY <1>6, <1>7, <1>8, <1>9, <1>10, <1>11, <1>12, <1>15, <1>16 DEF IInv, RefsExact

LEMMA SetEntryPointStep ==
  ASSUME IInv, NEW o \in Ops, NEW n \in Names \union {NoName}, SetEntryPoint(o, n)
  PROVE  IInv'
<1> DEFINE F == Unused(o)
           resolves == n # NoName /\ code[o] # NoCode /\ source[o] \notin Broken
<1>1. /\ TypeOK /\ CommandSound /\ OneOwner /\ SourceSound /\ FunctionSound /\ CallableSound
      /\ command = Idle
  BY DEF IInv, SetEntryPoint
<1>2. /\ F \in SUBSET Functions
      /\ \A f \in F : of[f] \in Codes
      /\ \A f \in Functions :
           f \in F <=> InUse(f) /\ \A p \in Ops : f # call[p] /\ (p # o => f # function[p])
  BY <1>1, UnusedSound
<1> HIDE DEF F
<1>3. /\ entry' = [entry EXCEPT ![o] = n]
      /\ function' = [function EXCEPT ![o] = NoFunction]
      /\ Drop(F, {})
      /\ command' = IF resolves THEN [step |-> "resolve", op |-> o] ELSE Idle
      /\ UNCHANGED <<source, ast, code, call, able, marked, job, undefined>>
  BY DEF SetEntryPoint, F
<1>4. Dropping(F, {})
  BY SetEntryPointDrops DEF F
<1>5. command'.step \in {"resolve", "idle"} /\ (command'.step = "resolve" => command'.op = o /\ resolves)
  BY <1>3 DEF Idle
<1>6. /\ CountsExact' /\ FreedAtZero' /\ RegisteredExact' /\ JobsSound' /\ CacheSound'
  BY <1>4, <1>5, DropSound
<1>7. TypeOK'
  <2>1. command' \in Command
    BY <1>3 DEF Command
  <2>2. /\ source' \in [Ops -> Sources \union {NoSource}]
        /\ entry' \in [Ops -> Names \union {NoName}]
        /\ ast' \in [Ops -> Names \union {NoName}]
        /\ function' \in [Ops -> Functions \union {NoFunction}]
        /\ call' \in [Ops -> Functions \union {NoFunction}]
        /\ able' \subseteq Ops /\ marked' \subseteq Ops
        /\ undefined' \in BOOLEAN
    BY <1>1, <1>3 DEF TypeOK
  <2> QED
    BY <1>4, <2>1, <2>2, DropTypes DEF TypeOK
<1>8. FunctionsLive'
  <2> SUFFICES ASSUME NEW f \in Functions
               PROVE  of'[f] # NoCode <=> InUse(f)' \/ UnderWay(f)'
    BY DEF FunctionsLive
  <2>1. of'[f] # NoCode <=> of[f] # NoCode /\ f \notin F
    BY <1>3 DEF Drop
  <2>2. of[f] # NoCode <=> InUse(f)
    BY <1>1, IdleFunctions
  <2>3. InUse(f)' <=> InUse(f) /\ f \notin F
    <3>1. InUse(f)' <=> \E p \in Ops : f = call[p] \/ (p # o /\ f = function[p])
      BY <1>1, <1>3, OperatorConstants DEF InUse, TypeOK
    <3> QED
      BY <1>2, <3>1 DEF InUse
  <2>4. ~UnderWay(f)'
    BY <1>5 DEF UnderWay
  <2> QED
    BY <2>1, <2>2, <2>3, <2>4
<1>9. CommandSound'
  <2>1. resolves => code'[o] \in Codes
    BY <1>1, <1>3 DEF TypeOK
  <2>2. function'[o] = NoFunction
    BY <1>1, <1>3 DEF TypeOK
  <2> QED
    BY <1>5, <2>1, <2>2 DEF CommandSound, At
<1>10. TakeSound' /\ UnderWaySound'
  BY <1>5 DEF TakeSound, UnderWaySound, At
<1>11. OneOwner'
  BY <1>1, <1>3, OperatorConstants DEF OneOwner, TypeOK
<1>12. SourceSound'
  <2> SUFFICES ASSUME NEW p \in Ops, code[p] \in Codes
               PROVE  /\ source[p] \in Sources
                      /\ text'[code[p]] = source[p]
                      /\ cache'[source[p]] \in {code[p], Dead}
    BY <1>3 DEF SourceSound
  <2>1. /\ source[p] \in Sources /\ text[code[p]] = source[p]
        /\ cache[source[p]] \in {code[p], Dead}
    BY <1>1 DEF SourceSound
  <2>2. text'[code[p]] = text[code[p]]
    BY <1>4, DropKeeps
  <2>3. cache'[source[p]] \in {cache[source[p]], Dead}
    BY <1>3, <2>1 DEF Drop, Forgotten
  <2> QED
    BY <2>1, <2>2, <2>3
<1>13. ASSUME NEW p \in Ops, p # o
       PROVE  /\ Callable(p)' <=> Callable(p)
              /\ function'[p] = function[p] /\ entry'[p] = entry[p]
  BY <1>1, <1>3, <1>13 DEF Callable, TypeOK
<1>14. function'[o] = NoFunction /\ entry'[o] = n
  BY <1>1, <1>3 DEF TypeOK
<1>15. FunctionSound'
  <2> SUFFICES ASSUME NEW p \in Ops, function'[p] # NoFunction
               PROVE  /\ of'[function'[p]] = code'[p]
                      /\ Callable(p)' => stub'[function'[p]] = entry'[p]
                      /\ p \notin marked' => p \in able' /\ call'[p] \in {function'[p], NoFunction}
    BY DEF FunctionSound
  <2>1. p # o /\ function'[p] = function[p] /\ entry'[p] = entry[p] /\ (Callable(p)' <=> Callable(p))
    BY <1>13, <1>14
  <2>2. function[p] \in Functions \ F
    BY <1>1, <1>2, <2>1 DEF TypeOK
  <2>3. of'[function[p]] = of[function[p]] /\ stub'[function[p]] = stub[function[p]]
    BY <1>4, <2>2, DropKeeps
  <2> QED
    BY <1>1, <1>3, <2>1, <2>3 DEF FunctionSound
<1>16. CallableSound'
  <2> SUFFICES ASSUME NEW p \in Ops, Callable(p)', function'[p] = NoFunction
               PROVE  At(p, {"resolve", "read", "set"})'
    BY DEF CallableSound
  <2>1. CASE p # o
    BY <1>1, <1>13, <2>1 DEF CallableSound, At, Idle
  <2>2. CASE p = o
    <3>1. resolves
      BY <1>3, <1>14, <2>2, OperatorConstants DEF Callable
    <3> QED
      BY <1>3, <2>2, <3>1 DEF At
  <2> QED
    BY <2>1, <2>2
<1> QED
  BY <1>6, <1>7, <1>8, <1>9, <1>10, <1>11, <1>12, <1>15, <1>16 DEF IInv, RefsExact

\* Calls go; the functions that the operators still have do not.
LEMMA PrepareForExecutionStep ==
  ASSUME IInv, PrepareForExecution
  PROVE  IInv'
<1> DEFINE F == Replaced
<1>1. /\ TypeOK /\ OneOwner /\ SourceSound /\ FunctionSound /\ CallableSound
      /\ command = Idle
  BY DEF IInv, PrepareForExecution
<1>2. /\ able' = (able \ marked) \union {o \in marked : function[o] # NoFunction}
      /\ call' = [o \in Ops |-> IF o \in marked THEN NoFunction ELSE call[o]]
      /\ Drop(F, {})
      /\ marked' = {}
      /\ UNCHANGED <<source, entry, ast, code, function, job, command, undefined>>
  BY DEF PrepareForExecution, Replaced
<1>3. /\ F \in SUBSET Functions
      /\ \A o \in Ops : function[o] \notin F
      /\ \A o \in Ops \ marked : call[o] \notin F
      /\ \A o \in Ops : o \in marked /\ call[o] # function[o] => call[o] \in F \union {NoFunction}
  BY ReplacedSound DEF F
<1>4. Dropping(F, {})
  BY PrepareForExecutionDrops DEF F
<1> HIDE DEF F
<1>5. command' = Idle /\ command'.step = "idle"
  BY <1>1, <1>2 DEF Idle
<1>6. /\ CountsExact' /\ FreedAtZero' /\ RegisteredExact' /\ JobsSound' /\ CacheSound'
  BY <1>4, <1>5, DropSound
<1>7. TypeOK'
  <2>1. /\ source' \in [Ops -> Sources \union {NoSource}]
        /\ entry' \in [Ops -> Names \union {NoName}]
        /\ ast' \in [Ops -> Names \union {NoName}]
        /\ function' \in [Ops -> Functions \union {NoFunction}]
        /\ call' \in [Ops -> Functions \union {NoFunction}]
        /\ able' \subseteq Ops /\ marked' \subseteq Ops
        /\ undefined' \in BOOLEAN
        /\ command' \in Command
    BY <1>1, <1>2 DEF TypeOK
  <2> QED
    BY <1>4, <2>1, DropTypes DEF TypeOK
<1>8. FunctionsLive'
  <2> SUFFICES ASSUME NEW f \in Functions
               PROVE  of'[f] # NoCode <=> InUse(f)' \/ UnderWay(f)'
    BY DEF FunctionsLive
  <2>1. of'[f] # NoCode <=> of[f] # NoCode /\ f \notin F
    BY <1>2 DEF Drop
  <2>2. of[f] # NoCode <=> InUse(f)
    BY <1>1, IdleFunctions
  <2>3. InUse(f)' <=> InUse(f) /\ f \notin F
    <3>1. InUse(f)' <=> \E p \in Ops : f = function[p] \/ (p \notin marked /\ f = call[p])
      BY <1>2, OperatorConstants DEF InUse
    <3>2. ASSUME InUse(f)' PROVE InUse(f) /\ f \notin F
      BY <1>3, <3>1, <3>2 DEF InUse
    <3>3. ASSUME InUse(f), f \notin F PROVE InUse(f)'
      <4>1. PICK p \in Ops : f = function[p] \/ f = call[p]
        BY <3>3 DEF InUse
      <4>2. p \in marked /\ f = call[p] => f = function[p]
        BY <1>3, <3>3, OperatorConstants
      <4> QED
        BY <3>1, <4>1, <4>2
    <3> QED
      BY <3>2, <3>3
  <2>4. ~UnderWay(f)'
    BY <1>5 DEF UnderWay
  <2> QED
    BY <2>1, <2>2, <2>3, <2>4
<1>9. CommandSound' /\ TakeSound' /\ UnderWaySound'
  BY <1>5 DEF CommandSound, TakeSound, UnderWaySound, At
<1>10. OneOwner'
  BY <1>1, <1>2, OperatorConstants DEF OneOwner
<1>11. SourceSound'
  <2> SUFFICES ASSUME NEW p \in Ops, code[p] \in Codes
               PROVE  /\ source[p] \in Sources
                      /\ text'[code[p]] = source[p]
                      /\ cache'[source[p]] \in {code[p], Dead}
    BY <1>2 DEF SourceSound
  <2>1. /\ source[p] \in Sources /\ text[code[p]] = source[p]
        /\ cache[source[p]] \in {code[p], Dead}
    BY <1>1 DEF SourceSound
  <2>2. text'[code[p]] = text[code[p]]
    BY <1>4, DropKeeps
  <2>3. cache'[source[p]] \in {cache[source[p]], Dead}
    BY <1>2, <2>1 DEF Drop, Forgotten
  <2> QED
    BY <2>1, <2>2, <2>3
<1>12. \A p \in Ops : Callable(p)' <=> Callable(p)
  BY <1>2 DEF Callable
<1>13. FunctionSound'
  <2> SUFFICES ASSUME NEW p \in Ops, function[p] # NoFunction
               PROVE  /\ of'[function[p]] = code[p]
                      /\ Callable(p) => stub'[function[p]] = entry[p]
                      /\ p \in able' /\ call'[p] \in {function[p], NoFunction}
    BY <1>2, <1>12 DEF FunctionSound
  <2>1. function[p] \in Functions \ F
    BY <1>1, <1>3 DEF TypeOK
  <2>2. of'[function[p]] = of[function[p]] /\ stub'[function[p]] = stub[function[p]]
    BY <1>4, <2>1, DropKeeps
  <2>3. p \in able' /\ call'[p] \in {function[p], NoFunction}
    BY <1>1, <1>2 DEF FunctionSound
  <2> QED
    BY <1>1, <2>2, <2>3 DEF FunctionSound
<1>14. CallableSound'
  BY <1>1, <1>2, <1>12 DEF CallableSound, At, Idle
<1> QED
  BY <1>6, <1>7, <1>8, <1>9, <1>10, <1>11, <1>13, <1>14 DEF IInv, RefsExact

LEMMA UnbindDrops ==
  ASSUME IInv, NEW o \in Ops, Unbind(o)
  PROVE  Dropping({call[o]} \ {function[o]}, {})
<1>1. TypeOK /\ command = Idle /\ call[o] # NoFunction
  BY DEF IInv, Unbind
<1>2. call[o] \in Functions /\ InUse(call[o])
  BY <1>1 DEF TypeOK, InUse
<1>3. of[call[o]] \in Codes
  BY <1>1, <1>2, IdleFunctions DEF TypeOK
<1>4. code' = [p \in Ops |-> IF p \in {} THEN NoCode ELSE code[p]]
  BY <1>1 DEF TypeOK, Unbind
<1>5. \A f \in {call[o]} \ {function[o]} : f \in Functions /\ of[f] \in Codes
  BY <1>2, <1>3
<1> QED
  BY <1>1, <1>4, <1>5 DEF Dropping, Unbind

LEMMA UnbindStep ==
  ASSUME IInv, NEW o \in Ops, Unbind(o)
  PROVE  IInv'
<1> DEFINE F == {call[o]} \ {function[o]}
<1>1. /\ TypeOK /\ OneOwner /\ SourceSound /\ FunctionSound /\ CallableSound
      /\ command = Idle
  BY DEF IInv, Unbind
<1>2. /\ call' = [call EXCEPT ![o] = NoFunction]
      /\ Drop(F, {})
      /\ UNCHANGED <<source, entry, ast, code, function, able, marked, job, command, undefined>>
  BY DEF Unbind
<1>3. /\ F \in SUBSET Functions
      /\ \A p \in Ops : function[p] \notin F
      /\ \A p \in Ops \ {o} : call[p] \notin F
  <2>1. call[o] \in Functions
    BY <1>1 DEF TypeOK, Unbind
  <2> QED
    BY <1>1, <2>1 DEF OneOwner
<1>4. Dropping(F, {})
  BY UnbindDrops
<1>5. \A f \in Functions : f = call[o] => f = function[o] \/ f \in F
  OBVIOUS
<1> HIDE DEF F
<1>6. command' = Idle /\ command'.step = "idle"
  BY <1>1, <1>2 DEF Idle
<1>7. /\ CountsExact' /\ FreedAtZero' /\ RegisteredExact' /\ JobsSound' /\ CacheSound'
  BY <1>4, <1>6, DropSound
<1>8. TypeOK'
  <2>1. /\ source' \in [Ops -> Sources \union {NoSource}]
        /\ entry' \in [Ops -> Names \union {NoName}]
        /\ ast' \in [Ops -> Names \union {NoName}]
        /\ function' \in [Ops -> Functions \union {NoFunction}]
        /\ call' \in [Ops -> Functions \union {NoFunction}]
        /\ able' \subseteq Ops /\ marked' \subseteq Ops
        /\ undefined' \in BOOLEAN
        /\ command' \in Command
    BY <1>1, <1>2 DEF TypeOK
  <2> QED
    BY <1>4, <2>1, DropTypes DEF TypeOK
<1>9. FunctionsLive'
  <2> SUFFICES ASSUME NEW f \in Functions
               PROVE  of'[f] # NoCode <=> InUse(f)' \/ UnderWay(f)'
    BY DEF FunctionsLive
  <2>1. of'[f] # NoCode <=> of[f] # NoCode /\ f \notin F
    BY <1>2 DEF Drop
  <2>2. of[f] # NoCode <=> InUse(f)
    BY <1>1, IdleFunctions
  <2>3. InUse(f)' <=> InUse(f) /\ f \notin F
    <3>1. InUse(f)' <=> \E p \in Ops : f = function[p] \/ (p # o /\ f = call[p])
      BY <1>1, <1>2, OperatorConstants DEF InUse, TypeOK
    <3> QED
      BY <1>3, <1>5, <3>1 DEF InUse
  <2>4. ~UnderWay(f)'
    BY <1>6 DEF UnderWay
  <2> QED
    BY <2>1, <2>2, <2>3, <2>4
<1>10. CommandSound' /\ TakeSound' /\ UnderWaySound'
  BY <1>6 DEF CommandSound, TakeSound, UnderWaySound, At
<1>11. OneOwner'
  BY <1>1, <1>2, OperatorConstants DEF OneOwner, TypeOK
<1>12. SourceSound'
  <2> SUFFICES ASSUME NEW p \in Ops, code[p] \in Codes
               PROVE  /\ source[p] \in Sources
                      /\ text'[code[p]] = source[p]
                      /\ cache'[source[p]] \in {code[p], Dead}
    BY <1>2 DEF SourceSound
  <2>1. /\ source[p] \in Sources /\ text[code[p]] = source[p]
        /\ cache[source[p]] \in {code[p], Dead}
    BY <1>1 DEF SourceSound
  <2>2. text'[code[p]] = text[code[p]]
    BY <1>4, DropKeeps
  <2>3. cache'[source[p]] \in {cache[source[p]], Dead}
    BY <1>2, <2>1 DEF Drop, Forgotten
  <2> QED
    BY <2>1, <2>2, <2>3
<1>13. \A p \in Ops : Callable(p)' <=> Callable(p)
  BY <1>2 DEF Callable
<1>14. FunctionSound'
  <2> SUFFICES ASSUME NEW p \in Ops, function[p] # NoFunction
               PROVE  /\ of'[function[p]] = code[p]
                      /\ Callable(p) => stub'[function[p]] = entry[p]
                      /\ p \notin marked => p \in able /\ call'[p] \in {function[p], NoFunction}
    BY <1>2, <1>13 DEF FunctionSound
  <2>1. function[p] \in Functions \ F
    BY <1>1, <1>3 DEF TypeOK
  <2>2. of'[function[p]] = of[function[p]] /\ stub'[function[p]] = stub[function[p]]
    BY <1>4, <2>1, DropKeeps
  <2>3. call'[p] \in {call[p], NoFunction}
    BY <1>1, <1>2 DEF TypeOK
  <2> QED
    BY <1>1, <2>2, <2>3 DEF FunctionSound
<1>15. CallableSound'
  BY <1>1, <1>2, <1>13 DEF CallableSound, At, Idle
<1> QED
  BY <1>7, <1>8, <1>9, <1>10, <1>11, <1>12, <1>14, <1>15 DEF IInv, RefsExact

LEMMA BindStep ==
  ASSUME IInv, NEW o \in Ops, Bind(o)
  PROVE  IInv'
<1>1. /\ TypeOK /\ OneOwner /\ SourceSound /\ FunctionSound /\ CallableSound
      /\ CountsExact /\ FreedAtZero /\ RegisteredExact /\ FunctionsLive
      /\ JobsSound /\ CacheSound
      /\ command = Idle /\ call[o] = NoFunction /\ function[o] # NoFunction
  BY DEF IInv, RefsExact, Bind, Evaluates
<1>2. /\ call' = [call EXCEPT ![o] = function[o]]
      /\ UNCHANGED <<source, entry, ast, code, function, able, marked>>
      /\ UNCHANGED <<of, stub, runs, registered, alive, text, count, engine, job, cache, command, undefined>>
  BY DEF Bind, functions, objects
<1>3. command' = Idle /\ command.step = "idle"
  BY <1>1, <1>2 DEF Idle
<1>4. \A p \in Ops : call'[p] = IF p = o THEN function[o] ELSE call[p]
  BY <1>1, <1>2 DEF TypeOK
<1>5. TypeOK'
  BY <1>1, <1>2 DEF TypeOK
<1>6. CountsExact' /\ FreedAtZero' /\ RegisteredExact'
  BY <1>1, <1>2 DEF CountsExact, FreedAtZero, RegisteredExact, OpsWith, FunctionsOf, JobRef
<1>7. FunctionsLive'
  <2>1. \A f \in Functions : InUse(f)' <=> InUse(f)
    BY <1>1, <1>2, <1>4, OperatorConstants DEF InUse
  <2> QED
    BY <1>1, <1>2, <2>1 DEF FunctionsLive, UnderWay
<1>8. CommandSound' /\ TakeSound' /\ UnderWaySound'
  BY <1>2, <1>3 DEF CommandSound, TakeSound, UnderWaySound, At
<1>9. JobsSound' /\ CacheSound' /\ SourceSound'
  BY <1>1, <1>2 DEF JobsSound, CacheSound, SourceSound
<1>10. OneOwner'
  BY <1>1, <1>2, <1>4, OperatorConstants DEF OneOwner
<1>11. \A p \in Ops : Callable(p)' <=> Callable(p)
  BY <1>2 DEF Callable
<1>12. FunctionSound'
  BY <1>1, <1>2, <1>4, <1>11 DEF FunctionSound
<1>13. CallableSound'
  BY <1>1, <1>2, <1>11 DEF CallableSound, At
<1> QED
  BY <1>5, <1>6, <1>7, <1>8, <1>9, <1>10, <1>12, <1>13 DEF IInv, RefsExact
-----------------------------------------------------------------------------
(***************************************************************************)
(* The other steps of a command.                                            *)
(***************************************************************************)
\* In a step that only moves the command on, what is not about it stands.
OnlyCommand == UNCHANGED <<operators, functions, objects, cache, undefined>>

LEMMA OnlyCommandKeeps ==
  ASSUME IInv, OnlyCommand
  PROVE  /\ CountsExact' /\ RegisteredExact'
         /\ JobsSound' /\ CacheSound' /\ OneOwner' /\ SourceSound' /\ FunctionSound'
         /\ TypeOK' <=> command' \in Command
         /\ \A o \in Ops : Callable(o)' <=> Callable(o)
<1>1. /\ TypeOK /\ CountsExact /\ RegisteredExact
      /\ JobsSound /\ CacheSound /\ OneOwner /\ SourceSound /\ FunctionSound
  BY DEF IInv, RefsExact
<1>2. /\ UNCHANGED <<source, entry, ast, code, function, call, able, marked>>
      /\ UNCHANGED <<of, stub, runs, registered, alive, text, count, engine, job, cache, undefined>>
  BY DEF OnlyCommand, operators, functions, objects
<1>3. CountsExact' /\ RegisteredExact'
  BY <1>1, <1>2 DEF CountsExact, RegisteredExact, OpsWith, FunctionsOf, JobRef
<1>4. JobsSound' /\ CacheSound'
  BY <1>1, <1>2 DEF JobsSound, CacheSound
<1>5. \A o \in Ops : Callable(o)' <=> Callable(o)
  BY <1>2 DEF Callable
<1>6. OneOwner' /\ SourceSound'
  BY <1>1, <1>2 DEF OneOwner, SourceSound
<1>7. FunctionSound'
  BY <1>1, <1>2, <1>5 DEF FunctionSound
<1>8. TypeOK' <=> command' \in Command
  BY <1>1, <1>2 DEF TypeOK
<1> QED
  BY <1>3, <1>4, <1>5, <1>6, <1>7, <1>8

LEMMA FindCodeStep ==
  ASSUME IInv, NEW o \in Ops, FindCode(o)
  PROVE  IInv'
<1>1. /\ command = [step |-> "lookup", op |-> o]
      /\ OnlyCommand
  BY DEF FindCode, OnlyCommand
<1>2. PICK c \in Codes : c = cache[source[o]] /\ command' = [step |-> "take", op |-> o, code |-> c]
  BY DEF FindCode
<1>3. /\ CountsExact' /\ RegisteredExact'
      /\ JobsSound' /\ CacheSound' /\ OneOwner' /\ SourceSound' /\ FunctionSound'
      /\ TypeOK' <=> command' \in Command
      /\ \A p \in Ops : Callable(p)' <=> Callable(p)
  BY <1>1, OnlyCommandKeeps
<1>4. /\ UNCHANGED <<source, entry, code, function, call, of, stub, alive, text, count, job, cache>>
      /\ command.step = "lookup" /\ command.op = o
      /\ command'.step = "take" /\ command'.op = o /\ command'.code = c
  BY <1>1, <1>2 DEF OnlyCommand, operators, functions, objects
<1>5. TypeOK'
  BY <1>2, <1>3 DEF Command
<1>6. CommandSound'
  BY <1>4 DEF IInv, CommandSound, At
<1>7. FreedAtZero' /\ FunctionsLive'
  BY <1>4 DEF IInv, RefsExact, FreedAtZero, FunctionsLive, InUse, UnderWay
<1>8. TakeSound'
  <2>1. source[o] \in Sources
    BY <1>4 DEF IInv, CommandSound, At
  <2>2. text[c] = source[o]
    BY <1>2, <2>1 DEF IInv, CacheSound
  <2> QED
    BY <1>2, <1>4, <2>2 DEF TakeSound, At, Released
<1>9. UnderWaySound'
  BY <1>4 DEF UnderWaySound, At
<1>10. CallableSound'
  BY <1>3, <1>4 DEF IInv, CallableSound, At
<1> QED
  BY <1>3, <1>5, <1>6, <1>7, <1>8, <1>9, <1>10 DEF IInv, RefsExact

LEMMA FailToResolveStep ==
  ASSUME IInv, NEW o \in Ops, FailToResolve(o)
  PROVE  IInv'
<1>1. /\ command = [step |-> "resolve", op |-> o]
      /\ Resolved(o) = NoName /\ command' = Idle
      /\ OnlyCommand
  BY DEF FailToResolve, OnlyCommand
<1>2. /\ CountsExact' /\ RegisteredExact'
      /\ JobsSound' /\ CacheSound' /\ OneOwner' /\ SourceSound' /\ FunctionSound'
      /\ TypeOK' <=> command' \in Command
      /\ \A p \in Ops : Callable(p)' <=> Callable(p)
  BY <1>1, OnlyCommandKeeps
<1>3. /\ UNCHANGED <<source, entry, code, function, call, of, alive, count, job>>
      /\ command.step = "resolve" /\ command.op = o
      /\ command'.step = "idle"
  BY <1>1 DEF OnlyCommand, operators, functions, objects, Idle
<1>4. TypeOK'
  BY <1>1, <1>2 DEF Command
<1>5. CommandSound' /\ TakeSound' /\ UnderWaySound'
  BY <1>3 DEF CommandSound, TakeSound, UnderWaySound, At
<1>6. FreedAtZero' /\ FunctionsLive'
  BY <1>3 DEF IInv, RefsExact, FreedAtZero, FunctionsLive, InUse, UnderWay
<1>7. ~Callable(o)
  BY <1>1, OperatorConstants DEF Callable, Resolved
<1>8. CallableSound'
  BY <1>2, <1>3, <1>7 DEF IInv, CallableSound, At
<1> QED
  BY <1>2, <1>4, <1>5, <1>6, <1>8 DEF IInv, RefsExact

LEMMA ReadEngineStep ==
  ASSUME IInv, NEW o \in Ops, NEW f \in Functions, ReadEngine(o, f)
  PROVE  IInv'
<1>1. /\ command = [step |-> "read", op |-> o, function |-> f]
      /\ command' = [step |-> "set", op |-> o, function |-> f, engine |-> engine[of[f]]]
      /\ OnlyCommand
  BY DEF ReadEngine, OnlyCommand
<1>2. /\ CountsExact' /\ RegisteredExact'
      /\ JobsSound' /\ CacheSound' /\ OneOwner' /\ SourceSound' /\ FunctionSound'
      /\ TypeOK' <=> command' \in Command
      /\ \A p \in Ops : Callable(p)' <=> Callable(p)
  BY <1>1, OnlyCommandKeeps
<1>3. /\ UNCHANGED <<source, entry, code, function, call, of, stub, alive, count, job>>
      /\ command.step = "read" /\ command.op = o /\ command.function = f
      /\ command'.step = "set" /\ command'.op = o /\ command'.function = f
  BY <1>1 DEF OnlyCommand, operators, functions, objects
<1>4. TypeOK'
  <2>1. of[f] \in Codes
    BY <1>3 DEF IInv, UnderWaySound, CommandSound, At
  <2>2. engine[of[f]] \in Engines
    BY <2>1 DEF IInv, TypeOK
  <2> QED
    BY <1>1, <1>2, <2>2 DEF Command
<1>5. CommandSound'
  BY <1>3 DEF IInv, CommandSound, At
<1>6. TakeSound'
  BY <1>3 DEF TakeSound, At
<1>7. UnderWaySound'
  BY <1>2, <1>3 DEF IInv, UnderWaySound, At, InUse
<1>8. FreedAtZero' /\ FunctionsLive'
  BY <1>3 DEF IInv, RefsExact, FreedAtZero, FunctionsLive, InUse, UnderWay
<1>9. CallableSound'
  BY <1>2, <1>3 DEF IInv, CallableSound, At
<1> QED
  BY <1>2, <1>4, <1>5, <1>6, <1>7, <1>8, <1>9 DEF IInv, RefsExact

\* Nobody has an object that is not alive.
LEMMA FreshCode ==
  ASSUME IInv, NEW c \in Codes, c \notin alive
  PROVE  /\ count[c] = 0 /\ job[c] = "none"
         /\ OpsWith(c) = {} /\ FunctionsOf(c) = {}
<1>1. TypeOK /\ CountsExact /\ FreedAtZero /\ JobsSound
  BY DEF IInv, RefsExact
<1>2. count[c] = 0
  BY <1>1 DEF TypeOK, FreedAtZero
<1>3. OpsWith(c) = {} /\ FunctionsOf(c) = {} /\ JobRef(c) = 0
  BY <1>1, <1>2, UncountedIsFree
<1>4. job[c] \in JobSteps /\ job[c] \notin {"queued", "optimised", "invalidate", "delete"}
  BY <1>1, <1>3 DEF TypeOK, JobsSound, JobRef
<1> QED
  BY <1>2, <1>3, <1>4 DEF JobSteps

LEMMA CreateCodeStep ==
  ASSUME IInv, NEW o \in Ops, NEW c \in Codes, NEW optimised \in BOOLEAN,
         CreateCode(o, c, optimised)
  PROVE  IInv'
<1> DEFINE compiles == source[o] \notin Broken
           jobs == compiles /\ ~optimised
<1>1. /\ TypeOK /\ CountsExact /\ FreedAtZero /\ RegisteredExact /\ FunctionsLive
      /\ CommandSound /\ JobsSound /\ CacheSound /\ OneOwner
      /\ SourceSound /\ FunctionSound /\ CallableSound
  BY DEF IInv, RefsExact
<1>2. /\ command = [step |-> "lookup", op |-> o]
      /\ cache[source[o]] \notin Codes
      /\ c \notin alive
      /\ alive' = alive \union {c}
      /\ text' = [text EXCEPT ![c] = source[o]]
      /\ count' = [count EXCEPT ![c] = Retained(jobs)]
      /\ job' = [job EXCEPT ![c] = IF jobs THEN "queued" ELSE "none"]
      /\ engine' = [engine EXCEPT ![c] =
           IF ~compiles THEN "none" ELSE IF optimised THEN "optimised" ELSE "first"]
      /\ command' = [step |-> "take", op |-> o, code |-> c]
      /\ UNCHANGED <<source, entry, ast, code, function, call, able, marked>>
      /\ UNCHANGED <<of, stub, runs, registered, cache, undefined>>
  BY DEF CreateCode, operators, functions
<1>3. /\ command.step = "lookup" /\ command.op = o
      /\ command'.step = "take" /\ command'.op = o /\ command'.code = c
  BY <1>2
<1>4. count[c] = 0 /\ job[c] = "none" /\ OpsWith(c) = {} /\ FunctionsOf(c) = {}
  BY <1>2, FreshCode
<1>5. Retained(jobs) \in {0, 1} /\ (jobs <=> Retained(jobs) = 1)
  BY DEF Retained
<1>6. source[o] \in Sources
  BY <1>1, <1>3 DEF CommandSound, At
<1> HIDE DEF compiles, jobs
<1>7. \A d \in Codes :
        /\ d # c => count'[d] = count[d] /\ job'[d] = job[d] /\ text'[d] = text[d]
        /\ d = c => /\ count'[d] = Retained(jobs) /\ text'[d] = source[o]
                    /\ job'[d] = IF jobs THEN "queued" ELSE "none"
  BY <1>1, <1>2 DEF TypeOK
<1>8. TypeOK'
  <2>1. command' \in Command
    BY <1>2 DEF Command
  <2>2. job' \in [Codes -> JobSteps] /\ engine' \in [Codes -> Engines]
    BY <1>1, <1>2 DEF TypeOK, JobSteps, Engines
  <2>3. count' \in [Codes -> Nat]
    BY <1>1, <1>2, <1>5 DEF TypeOK
  <2>4. text' \in [Codes -> Sources \union {NoSource}] /\ alive' \subseteq Codes
    BY <1>1, <1>2, <1>6 DEF TypeOK
  <2> QED
    BY <1>1, <1>2, <2>1, <2>2, <2>3, <2>4 DEF TypeOK
<1>9. CountsExact'
  <2> SUFFICES ASSUME NEW d \in Codes
               PROVE  count'[d] = Cardinality(OpsWith(d)') + Cardinality(FunctionsOf(d)') + JobRef(d)'
    BY DEF CountsExact
  <2>1. OpsWith(d)' = OpsWith(d) /\ FunctionsOf(d)' = FunctionsOf(d)
    BY <1>2 DEF OpsWith, FunctionsOf
  <2>2. CASE d # c
    BY <1>1, <1>7, <2>1, <2>2 DEF CountsExact, JobRef
  <2>3. CASE d = c
    <3>1. Cardinality(OpsWith(d)') = 0 /\ Cardinality(FunctionsOf(d)') = 0
      BY <1>4, <2>1, <2>3, FS_EmptySet
    <3>2. JobRef(d)' = Retained(jobs)
      BY <1>5, <1>7, <2>3 DEF JobRef
    <3> QED
      BY <1>5, <1>7, <2>3, <3>1, <3>2
  <2> QED
    BY <2>2, <2>3
<1>10. FreedAtZero'
  BY <1>1, <1>2, <1>3, <1>7 DEF FreedAtZero, TypeOK
<1>11. RegisteredExact' /\ FunctionsLive'
  BY <1>1, <1>2, <1>3 DEF RegisteredExact, FunctionsOf, FunctionsLive, InUse, UnderWay
<1>12. CommandSound'
  BY <1>1, <1>2, <1>3 DEF CommandSound, At
<1>13. TakeSound'
  <2>1. cache[source[o]] \in {NoCode, Dead}
    BY <1>1, <1>2, <1>6 DEF TypeOK
  <2> QED
    BY <1>2, <1>3, <1>7, <2>1 DEF TakeSound, At
<1>14. UnderWaySound'
  BY <1>3 DEF UnderWaySound, At
<1>15. JobsSound'
  BY <1>1, <1>2, <1>7 DEF JobsSound
<1>16. CacheSound'
  <2>1. \A s \in Sources : cache[s] \in Codes => cache[s] # c
    BY <1>1, <1>2 DEF CacheSound
  <2> QED
    BY <1>1, <1>2, <1>7, <2>1 DEF CacheSound
<1>17. OneOwner'
  BY <1>1, <1>2 DEF OneOwner
<1>18. SourceSound'
  <2>1. \A p \in Ops : code[p] # c
    BY <1>4 DEF OpsWith
  <2> QED
    BY <1>1, <1>2, <1>7, <2>1 DEF SourceSound
<1>19. \A p \in Ops : Callable(p)' <=> Callable(p)
  BY <1>2 DEF Callable
<1>20. FunctionSound'
  BY <1>1, <1>2, <1>19 DEF FunctionSound
<1>21. CallableSound'
  BY <1>1, <1>2, <1>3, <1>19 DEF CallableSound, At
<1> QED
  BY <1>8, <1>9, <1>10, <1>11, <1>12, <1>13, <1>14, <1>15, <1>16, <1>17, <1>18, <1>20, <1>21
     DEF IInv, RefsExact

LEMMA TakeCodeStep ==
  ASSUME IInv, NEW o \in Ops, TakeCode(o)
  PROVE  IInv'
<1> DEFINE resolves == source[o] \notin Broken /\ entry[o] # NoName
<1>1. /\ TypeOK /\ CountsExact /\ FreedAtZero /\ RegisteredExact /\ FunctionsLive
      /\ CommandSound /\ TakeSound /\ JobsSound /\ CacheSound /\ OneOwner
      /\ SourceSound /\ FunctionSound /\ CallableSound
  BY DEF IInv, RefsExact
<1>2. command.step = "take" /\ command.op = o
  BY DEF TakeCode
<1>3. PICK c \in Codes : c = command.code
  BY <1>1, <1>2 DEF TypeOK, Command, Idle
<1>4. /\ ~Released(c)
      /\ count' = [count EXCEPT ![c] = @ + 1]
      /\ code' = [code EXCEPT ![o] = c]
      /\ cache' = Inserted(source[o], c)
      /\ command' = IF resolves THEN [step |-> "resolve", op |-> o] ELSE Idle
      /\ marked' = IF resolves THEN marked ELSE marked \union {o}
      /\ UNCHANGED <<source, entry, ast, function, call, able>>
      /\ UNCHANGED <<of, stub, runs, registered, alive, text, engine, job, undefined>>
  BY <1>3 DEF TakeCode, functions
<1>5. /\ code[o] = NoCode /\ source[o] \in Sources /\ function[o] = NoFunction
      /\ c \in alive /\ job[c] \notin {"invalidate", "delete"}
      /\ text[c] = source[o]
      /\ cache[source[o]] \in {c, NoCode, Dead}
  <2>1. code[o] = NoCode /\ source[o] \in Sources /\ function[o] = NoFunction
    BY <1>1, <1>2 DEF CommandSound, At
  <2>2. text[c] = source[o] /\ cache[source[o]] \in {c, NoCode, Dead}
    BY <1>1, <1>2, <1>3, <1>4 DEF TakeSound, At
  <2> QED
    BY <1>4, <2>1, <2>2 DEF Released
<1>6. /\ command'.step \in {"resolve", "idle"}
      /\ command'.step = "resolve" <=> resolves
      /\ resolves => command'.op = o
  BY <1>4 DEF Idle
<1> HIDE DEF resolves
<1>7. \A d \in Codes :
        /\ count[d] \in Nat /\ count'[d] \in Nat
        /\ d # c => count'[d] = count[d]
        /\ d = c => count'[d] = count[d] + 1
  BY <1>1, <1>4 DEF TypeOK
<1>8. \A p \in Ops : code'[p] = IF p = o THEN c ELSE code[p]
  BY <1>1, <1>4 DEF TypeOK
<1>9. \A s \in Sources :
        /\ s # source[o] => cache'[s] = cache[s]
        /\ s = source[o] => cache'[s] \in {c, Dead} /\ (cache[s] # NoCode => cache'[s] = cache[s])
  BY <1>1, <1>4, <1>5 DEF Inserted, TypeOK
<1>10. TypeOK'
  <2>1. command' \in Command
    BY <1>4 DEF Command
  <2>2. count' \in [Codes -> Nat]
    BY <1>1, <1>4, <1>7 DEF TypeOK
  <2>3. cache' \in [Sources -> Codes \union {NoCode, Dead}]
    BY <1>1, <1>4 DEF Inserted, TypeOK
  <2> QED
    BY <1>1, <1>4, <2>1, <2>2, <2>3 DEF TypeOK
<1>11. CountsExact'
  <2> SUFFICES ASSUME NEW d \in Codes
               PROVE  count'[d] = Cardinality(OpsWith(d)') + Cardinality(FunctionsOf(d)') + JobRef(d)'
    BY DEF CountsExact
  <2>1. FunctionsOf(d)' = FunctionsOf(d) /\ JobRef(d)' = JobRef(d)
    BY <1>4 DEF FunctionsOf, JobRef
  <2>2. count[d] = Cardinality(OpsWith(d)) + Cardinality(FunctionsOf(d)) + JobRef(d)
    BY <1>1 DEF CountsExact
  <2>3. CASE d # c
    <3>1. OpsWith(d)' = OpsWith(d)
      BY <1>5, <1>8, <2>3, OperatorConstants DEF OpsWith
    <3> QED
      BY <1>7, <2>1, <2>2, <2>3, <3>1
  <2>4. CASE d = c
    <3>1. OpsWith(d)' = OpsWith(d) \union {o} /\ o \notin OpsWith(d)
      BY <1>5, <1>8, <2>4, OperatorConstants DEF OpsWith
    <3>2. IsFiniteSet(OpsWith(d)) /\ Cardinality(OpsWith(d)) \in Nat /\ Cardinality(FunctionsOf(d)) \in Nat
      BY HoldersFinite
    <3>3. Cardinality(OpsWith(d)') = Cardinality(OpsWith(d)) + 1
      BY <3>1, <3>2, FS_AddElement
    <3>4. JobRef(d) \in {0, 1}
      BY DEF JobRef
    <3> QED
      BY <1>7, <2>1, <2>2, <2>4, <3>2, <3>3, <3>4
  <2> QED
    BY <2>3, <2>4
<1>12. FreedAtZero'
  <2>1. \A d \in Codes : count'[d] > 0 => d \in alive'
    BY <1>1, <1>4, <1>5, <1>7 DEF FreedAtZero
  <2>2. ASSUME NEW d \in alive', count'[d] = 0
        PROVE  job'[d] \in {"invalidate", "delete"}
    <3>1. d \in Codes /\ d \in alive
      BY <1>1, <1>4, <2>2 DEF TypeOK
    <3>2. d # c /\ count[d] = 0
      BY <1>7, <2>2, <3>1
    <3> QED
      BY <1>1, <1>3, <1>4, <3>1, <3>2 DEF FreedAtZero
  <2> QED
    BY <2>1, <2>2 DEF FreedAtZero
<1>13. RegisteredExact' /\ FunctionsLive'
  BY <1>1, <1>2, <1>4, <1>6 DEF RegisteredExact, FunctionsOf, FunctionsLive, InUse, UnderWay
<1>14. CommandSound'
  <2>1. code'[o] \in Codes /\ function'[o] = NoFunction
    BY <1>4, <1>5, <1>8
  <2> QED
    BY <1>6, <2>1 DEF CommandSound, At
<1>15. TakeSound' /\ UnderWaySound'
  BY <1>6 DEF TakeSound, UnderWaySound, At
<1>16. JobsSound'
  BY <1>1, <1>4, <1>5, <1>7 DEF JobsSound
<1>17. CacheSound'
  <2> SUFFICES ASSUME NEW s \in Sources, cache'[s] \in Codes
               PROVE  /\ cache'[s] \in alive /\ text[cache'[s]] = s
                      /\ count'[cache'[s]] > 0 \/ job[cache'[s]] = "invalidate"
    BY <1>4 DEF CacheSound
  <2>1. CASE s = source[o]
    <3>1. cache'[s] = c
      BY <1>9, <2>1, OperatorConstants
    <3> QED
      BY <1>5, <1>7, <2>1, <3>1
  <2>2. CASE s # source[o]
    <3>1. cache'[s] = cache[s]
      BY <1>9, <2>2
    <3>2. /\ cache[s] \in alive /\ text[cache[s]] = s
          /\ count[cache[s]] > 0 \/ job[cache[s]] = "invalidate"
      BY <1>1, <3>1 DEF CacheSound
    <3> QED
      BY <1>7, <3>1, <3>2
  <2> QED
    BY <2>1, <2>2
<1>18. OneOwner'
  BY <1>1, <1>4 DEF OneOwner
<1>19. SourceSound'
  <2> SUFFICES ASSUME NEW p \in Ops, code'[p] \in Codes
               PROVE  /\ source[p] \in Sources
                      /\ text[code'[p]] = source[p]
                      /\ cache'[source[p]] \in {code'[p], Dead}
    BY <1>4 DEF SourceSound
  <2>1. CASE p = o
    BY <1>5, <1>8, <1>9, <2>1
  <2>2. CASE p # o
    <3>1. code'[p] = code[p]
      BY <1>8, <2>2
    <3>2. /\ source[p] \in Sources /\ text[code[p]] = source[p]
          /\ cache[source[p]] \in {code[p], Dead}
      BY <1>1, <3>1 DEF SourceSound
    <3>3. cache[source[p]] # NoCode
      BY <3>1, <3>2, OperatorConstants
    <3> QED
      BY <1>9, <3>1, <3>2, <3>3
  <2> QED
    BY <2>1, <2>2
<1>20. FunctionSound'
  <2> SUFFICES ASSUME NEW p \in Ops, function[p] # NoFunction
               PROVE  /\ of[function[p]] = code'[p]
                      /\ Callable(p)' => stub[function[p]] = entry[p]
                      /\ p \notin marked' => p \in able /\ call[p] \in {function[p], NoFunction}
    BY <1>4 DEF FunctionSound
  <2>1. p # o
    BY <1>5
  <2>2. code'[p] = code[p] /\ (Callable(p)' <=> Callable(p)) /\ (p \notin marked' => p \notin marked)
    BY <1>4, <1>8, <2>1 DEF Callable
  <2> QED
    BY <1>1, <2>2 DEF FunctionSound
<1>21. CallableSound'
  <2> SUFFICES ASSUME NEW p \in Ops, Callable(p)', function[p] = NoFunction
               PROVE  At(p, {"resolve", "read", "set"})'
    BY <1>4 DEF CallableSound
  <2>1. CASE p = o
    <3>1. source[o] \notin Broken /\ entry[o] # NoName
      BY <1>4, <2>1, OperatorConstants DEF Callable
    <3>2. resolves
      BY <3>1 DEF resolves
    <3> QED
      BY <1>6, <2>1, <3>2 DEF At
  <2>2. CASE p # o
    <3>1. Callable(p)
      BY <1>4, <1>8, <2>2 DEF Callable
    <3> QED
      BY <1>1, <1>2, <2>2, <3>1 DEF CallableSound, At
  <2> QED
    BY <2>1, <2>2
<1> QED
  BY <1>10, <1>11, <1>12, <1>13, <1>14, <1>15, <1>16, <1>17, <1>18, <1>19, <1>20, <1>21
     DEF IInv, RefsExact

\* In a step that is not described, nothing but undefined changes.
LEMMA UndefinedStep ==
  ASSUME IInv, undefined' = TRUE, UNCHANGED <<operators, functions, objects, cache, command>>
  PROVE  IInv'
<1>1. /\ UNCHANGED <<source, entry, ast, code, function, call, able, marked>>
      /\ UNCHANGED <<of, stub, runs, registered, alive, text, count, engine, job, cache, command>>
      /\ undefined' = TRUE
  BY DEF operators, functions, objects
<1>2. TypeOK'
  BY <1>1 DEF IInv, TypeOK
<1>3. RefsExact'
  BY <1>1 DEF IInv, RefsExact, CountsExact, FreedAtZero, RegisteredExact, FunctionsLive,
              OpsWith, FunctionsOf, JobRef, InUse, UnderWay
<1>4. CommandSound' /\ TakeSound' /\ UnderWaySound'
  BY <1>1 DEF IInv, CommandSound, TakeSound, UnderWaySound, At, Released, InUse, Callable
<1>5. JobsSound' /\ CacheSound' /\ OneOwner'
  BY <1>1 DEF IInv, JobsSound, CacheSound, OneOwner
<1>6. SourceSound' /\ FunctionSound' /\ CallableSound'
  BY <1>1 DEF IInv, SourceSound, FunctionSound, CallableSound, Callable, At
<1> QED
  BY <1>2, <1>3, <1>4, <1>5, <1>6 DEF IInv

LEMMA CreateFunctionStep ==
  ASSUME IInv, NEW o \in Ops, NEW f \in Functions, CreateFunction(o, f)
  PROVE  IInv'
<1>1. /\ TypeOK /\ CountsExact /\ FreedAtZero /\ RegisteredExact /\ FunctionsLive
      /\ CommandSound /\ JobsSound /\ CacheSound /\ OneOwner
      /\ SourceSound /\ FunctionSound /\ CallableSound
  BY DEF IInv, RefsExact
<1>2. command.step = "resolve" /\ command.op = o
  BY DEF CreateFunction
<1>3. PICK c \in Codes : c = code[o]
  BY <1>1, <1>2 DEF CommandSound, At
<1>4. PICK n \in Names : n = Resolved(o)
  <2>1. Resolved(o) \in Names \union {NoName}
    BY <1>1, OperatorConstants DEF Resolved, TypeOK
  <2> QED
    BY <2>1 DEF CreateFunction
<1>5. /\ of[f] = NoCode
      /\ ast' = [ast EXCEPT ![o] = n]
      /\ of' = [of EXCEPT ![f] = c]
      /\ stub' = [stub EXCEPT ![f] = n]
      /\ count' = [count EXCEPT ![c] = @ + 1]
      /\ registered' = [registered EXCEPT ![c] = @ \union {f}]
      /\ command' = [step |-> "read", op |-> o, function |-> f]
      /\ UNCHANGED <<source, entry, code, function, call, able, marked>>
      /\ UNCHANGED <<runs, alive, text, engine, job, cache, undefined>>
  BY <1>3, <1>4 DEF CreateFunction
<1>6. command'.step = "read" /\ command'.op = o /\ command'.function = f
  BY <1>5
<1>7. \A g \in Functions :
        /\ g # f => of'[g] = of[g] /\ stub'[g] = stub[g]
        /\ g = f => of'[g] = c /\ stub'[g] = n
  BY <1>1, <1>5 DEF TypeOK
<1>8. \A d \in Codes :
        /\ count[d] \in Nat /\ count'[d] \in Nat
        /\ d # c => count'[d] = count[d]
        /\ d = c => count'[d] = count[d] + 1
  BY <1>1, <1>5 DEF TypeOK
<1>9. ~InUse(f) /\ function[o] = NoFunction
  BY <1>1, <1>2, <1>5 DEF FunctionsLive, CommandSound, At
<1>10. c \in alive /\ job[c] \notin {"invalidate", "delete"} /\ count[c] > 0
  <2>1. OpsWith(c) # {}
    BY <1>3 DEF OpsWith
  <2> QED
    BY <1>1, <2>1, HeldIsLive
<1>11. \A p \in Ops : Callable(p)' <=> Callable(p)
  BY <1>5 DEF Callable
<1>12. TypeOK'
  <2>1. command' \in Command
    BY <1>5 DEF Command
  <2>2. count' \in [Codes -> Nat]
    BY <1>1, <1>5, <1>8 DEF TypeOK
  <2>3. registered' \in [Codes -> SUBSET Functions]
    BY <1>1, <1>5 DEF TypeOK
  <2> QED
    BY <1>1, <1>5, <2>1, <2>2, <2>3 DEF TypeOK
<1>13. \A d \in Codes : FunctionsOf(d)' = IF d = c THEN FunctionsOf(d) \union {f} ELSE FunctionsOf(d)
  BY <1>5, <1>7, OperatorConstants DEF FunctionsOf
<1>14. CountsExact'
  <2> SUFFICES ASSUME NEW d \in Codes
               PROVE  count'[d] = Cardinality(OpsWith(d)') + Cardinality(FunctionsOf(d)') + JobRef(d)'
    BY DEF CountsExact
  <2>1. OpsWith(d)' = OpsWith(d) /\ JobRef(d)' = JobRef(d)
    BY <1>5 DEF OpsWith, JobRef
  <2>2. count[d] = Cardinality(OpsWith(d)) + Cardinality(FunctionsOf(d)) + JobRef(d)
    BY <1>1 DEF CountsExact
  <2>3. CASE d # c
    BY <1>8, <1>13, <2>1, <2>2, <2>3
  <2>4. CASE d = c
    <3>1. FunctionsOf(d)' = FunctionsOf(d) \union {f} /\ f \notin FunctionsOf(d)
      BY <1>5, <1>13, <2>4, OperatorConstants DEF FunctionsOf
    <3>2. IsFiniteSet(FunctionsOf(d)) /\ Cardinality(OpsWith(d)) \in Nat /\ Cardinality(FunctionsOf(d)) \in Nat
      BY HoldersFinite
    <3>3. Cardinality(FunctionsOf(d)') = Cardinality(FunctionsOf(d)) + 1
      BY <3>1, <3>2, FS_AddElement
    <3>4. JobRef(d) \in {0, 1}
      BY DEF JobRef
    <3> QED
      BY <1>8, <2>1, <2>2, <2>4, <3>2, <3>3, <3>4
  <2> QED
    BY <2>3, <2>4
<1>15. FreedAtZero'
  <2>1. \A d \in Codes : count'[d] > 0 => d \in alive'
    BY <1>1, <1>5, <1>8, <1>10 DEF FreedAtZero
  <2>2. ASSUME NEW d \in alive', count'[d] = 0
        PROVE  job'[d] \in {"invalidate", "delete"}
    <3>1. d \in Codes /\ d \in alive
      BY <1>1, <1>5, <2>2 DEF TypeOK
    <3>2. count[d] = 0
      BY <1>8, <2>2, <3>1
    <3> QED
      BY <1>1, <1>2, <1>5, <3>1, <3>2 DEF FreedAtZero
  <2> QED
    BY <2>1, <2>2 DEF FreedAtZero
<1>16. RegisteredExact'
  BY <1>1, <1>5, <1>13 DEF RegisteredExact, TypeOK
<1>17. FunctionsLive'
  <2> SUFFICES ASSUME NEW g \in Functions
               PROVE  of'[g] # NoCode <=> InUse(g)' \/ UnderWay(g)'
    BY DEF FunctionsLive
  <2>1. InUse(g)' <=> InUse(g)
    BY <1>5 DEF InUse
  <2>2. UnderWay(g)' <=> g = f
    BY <1>6 DEF UnderWay
  <2>3. of[g] # NoCode <=> InUse(g)
    BY <1>1, <1>2 DEF FunctionsLive, UnderWay
  <2> QED
    BY <1>7, <2>1, <2>2, <2>3, OperatorConstants
<1>18. CommandSound'
  BY <1>3, <1>5, <1>6, <1>9 DEF CommandSound, At
<1>19. TakeSound'
  BY <1>6 DEF TakeSound, At
<1>20. UnderWaySound'
  <2>1. ~InUse(f)'
    BY <1>5, <1>9 DEF InUse
  <2>2. Callable(o) => n = entry[o]
    BY <1>4, OperatorConstants DEF Callable, Resolved
  <2> QED
    BY <1>3, <1>5, <1>6, <1>7, <1>11, <2>1, <2>2 DEF UnderWaySound, At
<1>21. JobsSound'
  BY <1>1, <1>5, <1>8, <1>10 DEF JobsSound
<1>22. CacheSound'
  BY <1>1, <1>5, <1>8 DEF CacheSound
<1>23. OneOwner' /\ SourceSound'
  BY <1>1, <1>5 DEF OneOwner, SourceSound
<1>24. FunctionSound'
  <2> SUFFICES ASSUME NEW p \in Ops, function[p] # NoFunction
               PROVE  /\ of'[function[p]] = code[p]
                      /\ Callable(p) => stub'[function[p]] = entry[p]
                      /\ p \notin marked => p \in able /\ call[p] \in {function[p], NoFunction}
    BY <1>5, <1>11 DEF FunctionSound
  <2>1. function[p] \in Functions /\ function[p] # f
    BY <1>1, <1>9 DEF TypeOK, InUse
  <2> QED
    BY <1>1, <1>7, <2>1 DEF FunctionSound
<1>25. CallableSound'
  BY <1>1, <1>2, <1>5, <1>6, <1>11 DEF CallableSound, At
<1> QED
  BY <1>12, <1>14, <1>15, <1>16, <1>17, <1>18, <1>19, <1>20, <1>21, <1>22, <1>23, <1>24, <1>25
     DEF IInv, RefsExact

LEMMA SetFunctionStep ==
  ASSUME IInv, NEW o \in Ops, NEW f \in Functions, SetFunction(o, f)
  PROVE  IInv'
<1>1. /\ TypeOK /\ CountsExact /\ FreedAtZero /\ RegisteredExact /\ FunctionsLive
      /\ CommandSound /\ UnderWaySound /\ JobsSound /\ CacheSound /\ OneOwner
      /\ SourceSound /\ FunctionSound /\ CallableSound
  BY DEF IInv, RefsExact
<1>2. /\ command.step = "set" /\ command.op = o /\ command.function = f
      /\ runs' = [runs EXCEPT ![f] = command.engine]
      /\ function' = [function EXCEPT ![o] = f]
      /\ marked' = marked \union {o}
      /\ command' = Idle
      /\ UNCHANGED <<source, entry, ast, code, call, able>>
      /\ UNCHANGED <<of, stub, registered, alive, text, count, engine, job, cache, undefined>>
  BY DEF SetFunction, Recompiles, objects
<1>3. command'.step = "idle"
  BY <1>2 DEF Idle
<1>4. /\ ~InUse(f) /\ of[f] = code[o] /\ (Callable(o) => stub[f] = entry[o])
      /\ function[o] = NoFunction
  BY <1>1, <1>2 DEF UnderWaySound, CommandSound, At
<1>5. \A p \in Ops : function'[p] = IF p = o THEN f ELSE function[p]
  BY <1>1, <1>2 DEF TypeOK
<1>6. \A p \in Ops : Callable(p)' <=> Callable(p)
  BY <1>2 DEF Callable
<1>7. TypeOK'
  <2>1. command.engine \in Engines
    BY <1>1, <1>2 DEF TypeOK, Command, Idle
  <2>2. command' \in Command
    BY <1>2 DEF Command
  <2> QED
    BY <1>1, <1>2, <2>1, <2>2 DEF TypeOK
<1>8. CountsExact' /\ RegisteredExact'
  BY <1>1, <1>2 DEF CountsExact, RegisteredExact, OpsWith, FunctionsOf, JobRef
<1>9. FreedAtZero'
  BY <1>1, <1>2, <1>3 DEF FreedAtZero
<1>10. FunctionsLive'
  <2> SUFFICES ASSUME NEW g \in Functions
               PROVE  of[g] # NoCode <=> InUse(g)' \/ UnderWay(g)'
    BY <1>2 DEF FunctionsLive
  <2>1. InUse(g)' <=> InUse(g) \/ g = f
    BY <1>2, <1>4, <1>5, OperatorConstants DEF InUse
  <2>2. ~UnderWay(g)' /\ (UnderWay(g) <=> g = f)
    BY <1>2, <1>3 DEF UnderWay
  <2> QED
    BY <1>1, <2>1, <2>2 DEF FunctionsLive
<1>11. CommandSound' /\ TakeSound' /\ UnderWaySound'
  BY <1>3 DEF CommandSound, TakeSound, UnderWaySound, At
<1>12. JobsSound' /\ CacheSound' /\ SourceSound'
  BY <1>1, <1>2 DEF JobsSound, CacheSound, SourceSound
<1>13. OneOwner'
  BY <1>1, <1>2, <1>4, <1>5 DEF OneOwner, InUse
<1>14. FunctionSound'
  BY <1>1, <1>2, <1>4, <1>5, <1>6 DEF FunctionSound
<1>15. CallableSound'
  BY <1>1, <1>2, <1>5, <1>6, OperatorConstants DEF CallableSound, At
<1> QED
  BY <1>7, <1>8, <1>9, <1>10, <1>11, <1>12, <1>13, <1>14, <1>15 DEF IInv, RefsExact
-----------------------------------------------------------------------------
(***************************************************************************)
(* The steps of jobs.                                                       *)
(***************************************************************************)
LEMMA CompileOptimizedASTStep ==
  ASSUME IInv, NEW c \in Codes, CompileOptimizedAST(c)
  PROVE  IInv'
<1>1. /\ job[c] = "queued"
      /\ runs' = Told(c)
      /\ engine' = [engine EXCEPT ![c] = "optimised"]
      /\ job' = [job EXCEPT ![c] = "optimised"]
      /\ UNCHANGED <<source, entry, ast, code, function, call, able, marked>>
      /\ UNCHANGED <<of, stub, registered, alive, text, count, cache, command, undefined>>
  BY DEF CompileOptimizedAST, operators
<1>2. \A d \in Codes :
        /\ JobRef(d)' = JobRef(d)
        /\ \A s \in {"invalidate", "delete"} : job'[d] = s <=> job[d] = s
        /\ Released(d)' <=> Released(d)
  BY <1>1 DEF IInv, TypeOK, JobRef, Released
<1>3. TypeOK'
  BY <1>1 DEF IInv, TypeOK, JobSteps, Engines, Told
<1>4. RefsExact'
  <2>1. CountsExact' /\ RegisteredExact'
    BY <1>1, <1>2 DEF IInv, RefsExact, CountsExact, RegisteredExact, OpsWith, FunctionsOf
  <2>2. FreedAtZero'
    BY <1>1, <1>2 DEF IInv, TypeOK, RefsExact, FreedAtZero
  <2>3. FunctionsLive'
    BY <1>1 DEF IInv, RefsExact, FunctionsLive, InUse, UnderWay
  <2> QED
    BY <2>1, <2>2, <2>3 DEF RefsExact
<1>5. TakeSound'
  BY <1>1, <1>2 DEF IInv, TakeSound, At
<1>6. CommandSound' /\ UnderWaySound'
  BY <1>1 DEF IInv, CommandSound, UnderWaySound, At, InUse, Callable
<1>7. JobsSound' /\ CacheSound' /\ OneOwner'
  BY <1>1, <1>2 DEF IInv, JobsSound, CacheSound, OneOwner
<1>8. SourceSound' /\ FunctionSound' /\ CallableSound'
  BY <1>1 DEF IInv, SourceSound, FunctionSound, CallableSound, Callable, At
<1> QED
  BY <1>3, <1>4, <1>5, <1>6, <1>7, <1>8 DEF IInv

LEMMA ReleaseCodeStep ==
  ASSUME IInv, NEW c \in Codes, ReleaseCode(c)
  PROVE  IInv'
<1>1. /\ job[c] = "optimised"
      /\ count' = [count EXCEPT ![c] = @ - 1]
      /\ job' = [job EXCEPT ![c] = IF count[c] = 1 THEN "invalidate" ELSE "none"]
      /\ UNCHANGED <<source, entry, ast, code, function, call, able, marked>>
      /\ UNCHANGED <<of, stub, runs, registered, alive, text, engine, cache, command, undefined>>
  BY DEF ReleaseCode, operators, functions
<1>2. /\ TypeOK /\ CountsExact /\ FreedAtZero /\ JobsSound /\ CacheSound
  BY DEF IInv, RefsExact
<1>3. count[c] \in Nat /\ count[c] > 0 /\ c \in alive
  <2>1. Cardinality(OpsWith(c)) \in Nat /\ Cardinality(FunctionsOf(c)) \in Nat
    BY HoldersFinite
  <2>2. JobRef(c) = 1
    BY <1>1 DEF JobRef
  <2>3. count[c] = Cardinality(OpsWith(c)) + Cardinality(FunctionsOf(c)) + JobRef(c)
    BY <1>2 DEF CountsExact
  <2>4. count[c] \in Nat /\ count[c] > 0
    BY <2>1, <2>2, <2>3
  <2> QED
    BY <1>2, <2>4 DEF FreedAtZero
<1>4. \A d \in Codes :
        /\ count[d] \in Nat /\ count'[d] \in Nat
        /\ d # c => count'[d] = count[d] /\ job'[d] = job[d]
        /\ d = c => /\ count'[d] = count[d] - 1
                    /\ job'[d] = IF count'[d] = 0 THEN "invalidate" ELSE "none"
  BY <1>1, <1>2, <1>3 DEF TypeOK
<1>5. TypeOK'
  <2>1. count' \in [Codes -> Nat]
    BY <1>1, <1>2, <1>4 DEF TypeOK
  <2>2. job' \in [Codes -> JobSteps]
    BY <1>1, <1>2 DEF TypeOK, JobSteps
  <2> QED
    BY <1>1, <1>2, <2>1, <2>2 DEF TypeOK
<1>6. CountsExact'
  <2> SUFFICES ASSUME NEW d \in Codes
               PROVE  count'[d] = Cardinality(OpsWith(d)') + Cardinality(FunctionsOf(d)') + JobRef(d)'
    BY DEF CountsExact
  <2>1. OpsWith(d)' = OpsWith(d) /\ FunctionsOf(d)' = FunctionsOf(d)
    BY <1>1 DEF OpsWith, FunctionsOf
  <2>2. count[d] = Cardinality(OpsWith(d)) + Cardinality(FunctionsOf(d)) + JobRef(d)
    BY <1>2 DEF CountsExact
  <2>3. Cardinality(OpsWith(d)) \in Nat /\ Cardinality(FunctionsOf(d)) \in Nat
    BY HoldersFinite
  <2>4. CASE d # c
    <3>1. JobRef(d)' = JobRef(d)
      BY <1>4, <2>4 DEF JobRef
    <3> QED
      BY <1>4, <2>1, <2>2, <2>4, <3>1
  <2>5. CASE d = c
    <3>1. JobRef(d) = 1
      BY <1>1, <2>5 DEF JobRef
    <3>2. job'[d] \in {"invalidate", "none"}
      BY <1>4, <2>5
    <3>3. JobRef(d)' = 0
      BY <3>2 DEF JobRef
    <3> QED
      BY <1>4, <2>1, <2>2, <2>3, <2>5, <3>1, <3>3
  <2> QED
    BY <2>4, <2>5
<1>7. FreedAtZero'
  BY <1>1, <1>2, <1>3, <1>4 DEF FreedAtZero, TypeOK
<1>8. RegisteredExact' /\ FunctionsLive'
  BY <1>1 DEF IInv, RefsExact, RegisteredExact, FunctionsOf, FunctionsLive, InUse, UnderWay
<1>9. TakeSound'
  <2>1. \A d \in Codes : Released(d) => Released(d)'
    BY <1>1, <1>4 DEF Released
  <2> QED
    BY <1>1, <2>1 DEF IInv, TakeSound, At
<1>10. CommandSound' /\ UnderWaySound'
  BY <1>1 DEF IInv, CommandSound, UnderWaySound, At, InUse, Callable
<1>11. JobsSound'
  BY <1>1, <1>2, <1>3, <1>4 DEF JobsSound
<1>12. CacheSound'
  <2> SUFFICES ASSUME NEW s \in Sources, cache[s] \in Codes
               PROVE  count'[cache[s]] > 0 \/ job'[cache[s]] = "invalidate"
    BY <1>1, <1>2 DEF CacheSound
  <2>1. count[cache[s]] > 0 \/ job[cache[s]] = "invalidate"
    BY <1>2 DEF CacheSound
  <2>2. PICK d \in Codes : d = cache[s]
    OBVIOUS
  <2> QED
    BY <1>4, <2>1, <2>2
<1>13. OneOwner'
  BY <1>1 DEF IInv, OneOwner
<1>14. SourceSound' /\ FunctionSound' /\ CallableSound'
  BY <1>1 DEF IInv, SourceSound, FunctionSound, CallableSound, Callable, At
<1> QED
  BY <1>5, <1>6, <1>7, <1>8, <1>9, <1>10, <1>11, <1>12, <1>13, <1>14 DEF IInv, RefsExact

LEMMA InvalidateCodeStep ==
  ASSUME IInv, NEW c \in Codes, InvalidateCode(c)
  PROVE  IInv'
<1>1. /\ job[c] = "invalidate"
      /\ cache' = [s \in Sources |-> IF cache[s] = c THEN Dead ELSE cache[s]]
      /\ job' = [job EXCEPT ![c] = "delete"]
      /\ UNCHANGED <<source, entry, ast, code, function, call, able, marked>>
      /\ UNCHANGED <<of, stub, runs, registered, alive, text, count, engine, command, undefined>>
  BY DEF InvalidateCode, Forgotten, operators, functions
<1>2. \A d \in Codes :
        /\ JobRef(d)' = JobRef(d)
        /\ job'[d] \in {"invalidate", "delete"} <=> job[d] \in {"invalidate", "delete"}
        /\ d # c => job'[d] = job[d]
        /\ Released(d)' <=> Released(d)
  BY <1>1 DEF IInv, TypeOK, JobRef, Released
<1>3. TypeOK'
  BY <1>1 DEF IInv, TypeOK, JobSteps
<1>4. RefsExact'
  <2>1. CountsExact' /\ RegisteredExact'
    BY <1>1, <1>2 DEF IInv, RefsExact, CountsExact, RegisteredExact, OpsWith, FunctionsOf
  <2>2. FreedAtZero'
    BY <1>1, <1>2 DEF IInv, TypeOK, RefsExact, FreedAtZero
  <2>3. FunctionsLive'
    BY <1>1 DEF IInv, RefsExact, FunctionsLive, InUse, UnderWay
  <2> QED
    BY <2>1, <2>2, <2>3 DEF RefsExact
<1>5. \A s \in Sources : cache'[s] \in {cache[s], Dead} /\ cache'[s] # c
  BY <1>1, OperatorConstants
<1>6. TakeSound'
  <2> SUFFICES ASSUME NEW o \in Ops, NEW d \in Codes, At(o, {"take"}), command.code = d, ~Released(d)
               PROVE  text[d] = source[o] /\ cache'[source[o]] \in {d, NoCode, Dead}
    BY <1>1, <1>2 DEF TakeSound, At
  <2>1. text[d] = source[o] /\ cache[source[o]] \in {d, NoCode, Dead}
    BY DEF IInv, TakeSound
  <2>2. source[o] \in Sources
    BY DEF IInv, CommandSound, At
  <2> QED
    BY <1>5, <2>1, <2>2
<1>7. CommandSound' /\ UnderWaySound'
  BY <1>1 DEF IInv, CommandSound, UnderWaySound, At, InUse, Callable
<1>8. JobsSound' /\ OneOwner'
  BY <1>1, <1>2 DEF IInv, JobsSound, OneOwner
<1>9. CacheSound'
  <2> SUFFICES ASSUME NEW s \in Sources, cache'[s] \in Codes
               PROVE  /\ cache'[s] \in alive /\ text[cache'[s]] = s
                      /\ count[cache'[s]] > 0 \/ job'[cache'[s]] = "invalidate"
    BY <1>1 DEF CacheSound
  <2>1. cache'[s] = cache[s] /\ cache[s] # c
    BY <1>1, OperatorConstants
  <2> QED
    BY <1>2, <2>1 DEF IInv, CacheSound
<1>10. SourceSound'
  <2> SUFFICES ASSUME NEW p \in Ops, code[p] \in Codes
               PROVE  cache'[source[p]] \in {code[p], Dead}
    BY <1>1 DEF IInv, SourceSound
  <2>1. source[p] \in Sources /\ cache[source[p]] \in {code[p], Dead}
    BY DEF IInv, SourceSound
  <2> QED
    BY <1>5, <2>1
<1>11. FunctionSound' /\ CallableSound'
  BY <1>1 DEF IInv, FunctionSound, CallableSound, Callable, At
<1> QED
  BY <1>3, <1>4, <1>6, <1>7, <1>8, <1>9, <1>10, <1>11 DEF IInv

LEMMA DeleteCodeStep ==
  ASSUME IInv, NEW c \in Codes, DeleteCode(c)
  PROVE  IInv'
<1>1. /\ job[c] = "delete"
      /\ alive' = alive \ {c}
      /\ text' = [text EXCEPT ![c] = NoSource]
      /\ engine' = [engine EXCEPT ![c] = "none"]
      /\ job' = [job EXCEPT ![c] = "none"]
      /\ UNCHANGED <<source, entry, ast, code, function, call, able, marked>>
      /\ UNCHANGED <<of, stub, runs, registered, count, cache, command, undefined>>
  BY DEF DeleteCode, operators, functions
<1>2. /\ TypeOK /\ CountsExact /\ FreedAtZero /\ JobsSound /\ CacheSound
  BY DEF IInv, RefsExact
<1>3. count[c] = 0 /\ OpsWith(c) = {} /\ FunctionsOf(c) = {}
  <2>1. count[c] = 0
    BY <1>1, <1>2 DEF JobsSound
  <2> QED
    BY <1>2, <2>1, UncountedIsFree
<1>4. \A d \in Codes :
        /\ JobRef(d)' = JobRef(d)
        /\ d # c => job'[d] = job[d] /\ text'[d] = text[d]
        /\ d = c => job'[d] = "none"
        /\ Released(d) => Released(d)'
  BY <1>1, <1>2 DEF TypeOK, JobRef, Released
<1>5. TypeOK'
  BY <1>1, <1>2 DEF TypeOK, JobSteps, Engines
<1>6. RefsExact'
  <2>1. CountsExact' /\ RegisteredExact'
    BY <1>1, <1>4 DEF IInv, RefsExact, CountsExact, RegisteredExact, OpsWith, FunctionsOf
  <2>2. FreedAtZero'
    BY <1>1, <1>2, <1>3, <1>4 DEF TypeOK, FreedAtZero
  <2>3. FunctionsLive'
    BY <1>1 DEF IInv, RefsExact, FunctionsLive, InUse, UnderWay
  <2> QED
    BY <2>1, <2>2, <2>3 DEF RefsExact
<1>7. TakeSound'
  <2> SUFFICES ASSUME NEW o \in Ops, NEW d \in Codes, At(o, {"take"}), command.code = d, ~Released(d)'
               PROVE  text'[d] = source[o] /\ cache[source[o]] \in {d, NoCode, Dead}
    BY <1>1 DEF TakeSound, At
  <2>1. d # c
    BY <1>1 DEF Released
  <2>2. ~Released(d)
    BY <1>4
  <2> QED
    BY <1>4, <2>1, <2>2 DEF IInv, TakeSound
<1>8. CommandSound' /\ UnderWaySound'
  BY <1>1 DEF IInv, CommandSound, UnderWaySound, At, InUse, Callable
<1>9. JobsSound' /\ OneOwner'
  BY <1>1, <1>2, <1>4 DEF IInv, JobsSound, OneOwner
<1>10. CacheSound'
  <2> SUFFICES ASSUME NEW s \in Sources, cache[s] \in Codes
               PROVE  /\ cache[s] \in alive' /\ text'[cache[s]] = s
                      /\ count[cache[s]] > 0 \/ job'[cache[s]] = "invalidate"
    BY <1>1 DEF CacheSound
  <2>1. /\ cache[s] \in alive /\ text[cache[s]] = s
        /\ count[cache[s]] > 0 \/ job[cache[s]] = "invalidate"
    BY <1>2 DEF CacheSound
  <2>2. cache[s] # c
    BY <1>1, <1>3, <2>1
  <2> QED
    BY <1>1, <1>4, <2>1, <2>2
<1>11. SourceSound'
  <2>1. \A p \in Ops : code[p] # c
    BY <1>3 DEF OpsWith
  <2> QED
    BY <1>1, <1>4, <2>1 DEF IInv, SourceSound
<1>12. FunctionSound' /\ CallableSound'
  BY <1>1 DEF IInv, FunctionSound, CallableSound, Callable, At
<1> QED
  BY <1>5, <1>6, <1>7, <1>8, <1>9, <1>10, <1>11, <1>12 DEF IInv
-----------------------------------------------------------------------------
(***************************************************************************)
(* The invariant, and the properties it gives.                              *)
(***************************************************************************)
\* At first there is no code and no function.
LEMMA Initially ==
  Init => IInv
<1> SUFFICES ASSUME Init PROVE IInv
  OBVIOUS
<1> USE OperatorConstants
<1>1. TypeOK
  BY DEF Init, TypeOK, Engines, JobSteps, Command
<1>2. CountsExact
  <2> SUFFICES ASSUME NEW c \in Codes
               PROVE  count[c] = Cardinality(OpsWith(c)) + Cardinality(FunctionsOf(c)) + JobRef(c)
    BY DEF CountsExact
  <2>1. OpsWith(c) = {} /\ FunctionsOf(c) = {}
    BY DEF Init, OpsWith, FunctionsOf
  <2>2. JobRef(c) = 0 /\ count[c] = 0
    BY DEF Init, JobRef
  <2> QED
    BY <2>1, <2>2, FS_EmptySet
<1>3. FreedAtZero /\ FunctionsLive
  BY DEF Init, FreedAtZero, FunctionsLive, InUse, UnderWay, Idle
<1>4. RegisteredExact
  BY DEF Init, RegisteredExact, FunctionsOf
<1>5. CommandSound /\ TakeSound /\ UnderWaySound
  BY DEF Init, CommandSound, TakeSound, UnderWaySound, At, Idle
<1>6. JobsSound /\ CacheSound
  BY DEF Init, JobsSound, CacheSound
<1>7. OneOwner
  BY DEF Init, OneOwner
<1>8. SourceSound /\ FunctionSound /\ CallableSound
  BY DEF Init, SourceSound, FunctionSound, CallableSound, Callable
<1> QED
  BY <1>1, <1>2, <1>3, <1>4, <1>5, <1>6, <1>7, <1>8 DEF IInv, RefsExact

LEMMA StutteringStep ==
  ASSUME IInv, UNCHANGED vars
  PROVE  IInv'
<1>1. /\ UNCHANGED <<source, entry, ast, code, function, call, able, marked>>
      /\ UNCHANGED <<of, stub, runs, registered, alive, text, count, engine, job, cache, command, undefined>>
  BY DEF vars, operators, functions, objects
<1>2. TypeOK'
  BY <1>1 DEF IInv, TypeOK
<1>3. RefsExact'
  BY <1>1 DEF IInv, RefsExact, CountsExact, FreedAtZero, RegisteredExact, FunctionsLive,
              OpsWith, FunctionsOf, JobRef, InUse, UnderWay
<1>4. CommandSound' /\ TakeSound' /\ UnderWaySound'
  BY <1>1 DEF IInv, CommandSound, TakeSound, UnderWaySound, At, Released, InUse, Callable
<1>5. JobsSound' /\ CacheSound' /\ OneOwner'
  BY <1>1 DEF IInv, JobsSound, CacheSound, OneOwner
<1>6. SourceSound' /\ FunctionSound' /\ CallableSound'
  BY <1>1 DEF IInv, SourceSound, FunctionSound, CallableSound, Callable, At
<1> QED
  BY <1>2, <1>3, <1>4, <1>5, <1>6 DEF IInv

\* The inductive invariant of commands and jobs holds, for any operators, sources and
\* addresses, with jobs or without.
THEOREM Invariance ==
  Spec => []IInv
<1>1. Init => IInv
  BY Initially
<1>2. ASSUME IInv, [Next]_vars
      PROVE  IInv'
  <2>1. ASSUME NEW o \in Ops, Begin(o)
        PROVE  IInv'
    <3>1. ASSUME NEW s \in Sources \union {NoSource}, SetFilenameAndSourceCode(o, s)
          PROVE  IInv'
      BY <1>2, <3>1, SetFilenameAndSourceCodeStep
    <3>2. ASSUME NEW n \in Names \union {NoName}, SetEntryPoint(o, n)
          PROVE  IInv'
      BY <1>2, <3>2, SetEntryPointStep
    <3> QED
      BY <2>1, <3>1, <3>2 DEF Begin
  <2>2. ASSUME NEW o \in Ops, Continue(o)
        PROVE  IInv'
    <3>1. CASE FindCode(o)
      BY <1>2, <3>1, FindCodeStep
    <3>2. ASSUME NEW c \in Codes, NEW optimised \in BOOLEAN, CreateCode(o, c, optimised)
          PROVE  IInv'
      BY <1>2, <3>2, CreateCodeStep
    <3>3. CASE TakeCode(o)
      BY <1>2, <3>3, TakeCodeStep
    <3>4. CASE TakeReleasedCode(o)
      BY <1>2, <3>4, UndefinedStep DEF TakeReleasedCode
    <3>5. CASE FailToResolve(o)
      BY <1>2, <3>5, FailToResolveStep
    <3>6. ASSUME NEW f \in Functions, CreateFunction(o, f)
          PROVE  IInv'
      BY <1>2, <3>6, CreateFunctionStep
    <3>7. ASSUME NEW f \in Functions, ReadEngine(o, f)
          PROVE  IInv'
      BY <1>2, <3>7, ReadEngineStep
    <3>8. ASSUME NEW f \in Functions, SetFunction(o, f)
          PROVE  IInv'
      BY <1>2, <3>8, SetFunctionStep
    <3> QED
      BY <2>2, <3>1, <3>2, <3>3, <3>4, <3>5, <3>6, <3>7, <3>8 DEF Continue
  <2>3. CASE PrepareForExecution
    BY <1>2, <2>3, PrepareForExecutionStep
  <2>6. ASSUME NEW o \in Ops, Evaluate(o)
        PROVE  IInv'
    <3>1. CASE BindNothing(o)
      BY <1>2, <3>1, UndefinedStep DEF BindNothing
    <3> QED
      BY <1>2, <2>6, <3>1, BindStep, UnbindStep DEF Evaluate
  <2>4. ASSUME NEW c \in Codes, JobStep(c)
        PROVE  IInv'
    BY <1>2, <2>4, CompileOptimizedASTStep, ReleaseCodeStep, InvalidateCodeStep, DeleteCodeStep
       DEF JobStep
  <2>5. CASE UNCHANGED vars
    BY <1>2, <2>5, StutteringStep
  <2> QED
    BY <1>2, <2>1, <2>2, <2>3, <2>4, <2>5, <2>6 DEF Next
<1> QED
  BY <1>1, <1>2, PTL DEF Spec

\* Every variable keeps its type; no count of code goes below zero.
THEOREM TypeCorrect ==
  Spec => []TypeOK
<1>1. IInv => TypeOK
  BY DEF IInv
<1> QED
  BY <1>1, Invariance, PTL

\* The count of each code is the number of operators, functions and jobs that have it.
THEOREM RefsExactHolds ==
  Spec => []RefsExact
<1>1. IInv => RefsExact
  BY DEF IInv
<1> QED
  BY <1>1, Invariance, PTL

\* A compiled node calls the entry point in the code of its operator's source.
THEOREM CallsCurrentHolds ==
  Spec => []CallsCurrent
<1>1. IInv => CallsCurrent
  <2> SUFFICES ASSUME IInv, command = Idle, NEW o \in Ops, o \notin marked, Callable(o)
               PROVE  /\ o \in able
                      /\ function[o] # NoFunction
                      /\ call[o] \in {function[o], NoFunction}
                      /\ of[function[o]] = code[o]
                      /\ text[code[o]] = source[o]
                      /\ stub[function[o]] = entry[o]
    BY DEF CallsCurrent
  <2>1. function[o] # NoFunction
    BY DEF IInv, CallableSound, At, Idle
  <2>2. code[o] \in Codes
    BY DEF Callable, IInv, TypeOK
  <2> QED
    BY <2>1, <2>2 DEF IInv, FunctionSound, SourceSound
<1> QED
  BY <1>1, Invariance, PTL

\* Operators with the same source share its code unless the manager's entry is dead.
THEOREM SharedUnlessDeadHolds ==
  Spec => []SharedUnlessDead
<1>1. IInv => SharedUnlessDead
  <2> SUFFICES ASSUME IInv, NEW o \in Ops, NEW p \in Ops,
                      code[o] # NoCode, code[p] # NoCode, source[o] = source[p]
               PROVE  code[o] = code[p] \/ cache[source[o]] = Dead
    BY DEF SharedUnlessDead
  <2>1. code[o] \in Codes /\ code[p] \in Codes
    BY DEF IInv, TypeOK
  <2> QED
    BY <2>1 DEF IInv, SourceSound
<1> QED
  BY <1>1, Invariance, PTL

\* A function in use keeps up with the machine code of its code: one that goes is in
\* use no more, and the job tells all the functions of the code.
THEOREM FunctionsFollowHolds ==
  Spec => FunctionsFollow
<1> DEFINE Follows(f) ==
      InUse(f) /\ runs[f] = engine[of[f]] /\ of'[f] # NoCode => runs'[f] = engine'[of'[f]]
<1>1. ASSUME IInv, [Next]_vars, NEW f \in Functions
      PROVE  Follows(f)
  <2> SUFFICES ASSUME InUse(f), runs[f] = engine[of[f]], of'[f] # NoCode
               PROVE  runs'[f] = engine'[of'[f]]
    OBVIOUS
  <2>1. PICK c \in Codes : c = of[f]
    BY <1>1 DEF IInv, RefsExact, FunctionsLive, TypeOK
  <2>2. FunctionsOf(c) # {} /\ OpsWith(c) \union FunctionsOf(c) # {}
    BY <2>1 DEF FunctionsOf
  <2>3. c \in alive /\ job[c] \notin {"invalidate", "delete"}
    BY <1>1, <2>2, HeldIsLive DEF IInv, RefsExact
  <2>4. ASSUME NEW F, NEW O, Dropping(F, O)
        PROVE  runs'[f] = engine'[of'[f]]
    <3>1. f \notin F
      BY <2>4 DEF Dropping, Drop
    <3>2. of'[f] = of[f] /\ runs'[f] = runs[f] /\ engine'[of[f]] = engine[of[f]]
      BY <1>1, <2>1, <2>4, <3>1, DropKeeps
    <3> QED
      BY <2>1, <3>2
  <2>5. ASSUME NEW o \in Ops, Begin(o)
        PROVE  runs'[f] = engine'[of'[f]]
    <3>1. ASSUME NEW s \in Sources \union {NoSource}, SetFilenameAndSourceCode(o, s)
          PROVE  runs'[f] = engine'[of'[f]]
      BY <1>1, <2>4, <3>1, SetFilenameAndSourceCodeDrops
    <3>2. ASSUME NEW n \in Names \union {NoName}, SetEntryPoint(o, n)
          PROVE  runs'[f] = engine'[of'[f]]
      BY <1>1, <2>4, <3>2, SetEntryPointDrops
    <3> QED
      BY <2>5, <3>1, <3>2 DEF Begin
  <2>6. ASSUME NEW o \in Ops, Continue(o)
        PROVE  runs'[f] = engine'[of'[f]]
    <3>1. CASE UNCHANGED <<of, runs, engine>>
      BY <3>1
    <3>2. ASSUME NEW d \in Codes, NEW optimised \in BOOLEAN, CreateCode(o, d, optimised)
          PROVE  runs'[f] = engine'[of'[f]]
      <4>1. d # c
        BY <2>3, <3>2 DEF CreateCode
      <4>2. of'[f] = c /\ runs'[f] = runs[f]
        BY <2>1, <3>2 DEF CreateCode, functions
      <4>3. engine'[c] = engine[c]
        BY <1>1, <3>2, <4>1 DEF CreateCode, IInv, TypeOK
      <4> QED
        BY <2>1, <4>2, <4>3
    <3>3. ASSUME NEW g \in Functions, CreateFunction(o, g)
          PROVE  runs'[f] = engine'[of'[f]]
      <4>1. g # f
        BY <2>1, <3>3, OperatorConstants DEF CreateFunction
      <4>2. of'[f] = of[f]
        BY <1>1, <3>3, <4>1 DEF CreateFunction, IInv, TypeOK
      <4> QED
        BY <2>1, <3>3, <4>2 DEF CreateFunction
    <3>4. ASSUME NEW g \in Functions, SetFunction(o, g)
          PROVE  runs'[f] = engine'[of'[f]]
      <4>1. ~InUse(g)
        BY <1>1, <3>4 DEF SetFunction, IInv, UnderWaySound, At
      <4>2. runs'[f] = runs[f]
        BY <1>1, <3>4, <4>1 DEF SetFunction, IInv, TypeOK
      <4> QED
        BY <2>1, <3>4, <4>2 DEF SetFunction, objects
    <3>5. FindCode(o) \/ FailToResolve(o) \/ TakeReleasedCode(o) => UNCHANGED <<of, runs, engine>>
      BY DEF FindCode, FailToResolve, TakeReleasedCode, functions, objects
    <3>6. TakeCode(o) => UNCHANGED <<of, runs, engine>>
      BY DEF TakeCode, functions
    <3>7. \A g \in Functions : ReadEngine(o, g) => UNCHANGED <<of, runs, engine>>
      BY DEF ReadEngine, functions, objects
    <3> QED
      BY <2>6, <3>1, <3>2, <3>3, <3>4, <3>5, <3>6, <3>7 DEF Continue
  <2>7. CASE PrepareForExecution
    BY <1>1, <2>4, <2>7, PrepareForExecutionDrops
  <2>10. ASSUME NEW o \in Ops, Evaluate(o)
         PROVE  runs'[f] = engine'[of'[f]]
    <3>1. Bind(o) \/ BindNothing(o) => UNCHANGED <<of, runs, engine>>
      BY DEF Bind, BindNothing, functions, objects
    <3>2. CASE Unbind(o)
      BY <1>1, <2>4, <3>2, UnbindDrops
    <3> QED
      BY <2>10, <3>1, <3>2 DEF Evaluate
  <2>8. ASSUME NEW d \in Codes, JobStep(d)
        PROVE  runs'[f] = engine'[of'[f]]
    <3>1. CASE CompileOptimizedAST(d)
      <4>1. of'[f] = c /\ engine' = [engine EXCEPT ![d] = "optimised"]
            /\ runs' = [g \in Functions |-> IF g \in registered[d] THEN "optimised" ELSE runs[g]]
        BY <2>1, <3>1 DEF CompileOptimizedAST, Told
      <4>2. f \in registered[d] <=> c = d
        BY <1>1, <2>1 DEF IInv, RefsExact, RegisteredExact, FunctionsOf
      <4>3. engine'[c] = IF c = d THEN "optimised" ELSE engine[c]
        BY <1>1, <4>1 DEF IInv, TypeOK
      <4> QED
        BY <2>1, <4>1, <4>2, <4>3
    <3>2. CASE ReleaseCode(d) \/ InvalidateCode(d)
      BY <2>1, <3>2 DEF ReleaseCode, InvalidateCode, functions
    <3>3. CASE DeleteCode(d)
      <4>1. d # c
        BY <2>3, <3>3 DEF DeleteCode
      <4>2. of'[f] = c /\ runs'[f] = runs[f]
        BY <2>1, <3>3 DEF DeleteCode, functions
      <4>3. engine'[c] = engine[c]
        BY <1>1, <3>3, <4>1 DEF DeleteCode, IInv, TypeOK
      <4> QED
        BY <2>1, <4>2, <4>3
    <3> QED
      BY <2>8, <3>1, <3>2, <3>3 DEF JobStep
  <2>9. CASE UNCHANGED vars
    BY <2>1, <2>9 DEF vars, functions, objects
  <2> QED
    BY <1>1, <2>5, <2>6, <2>7, <2>8, <2>9, <2>10 DEF Next
<1>2. IInv /\ [Next]_vars => [\A f \in Functions : Follows(f)]_vars
  BY <1>1
<1> QED
  BY <1>2, Invariance, PTL DEF Spec, FunctionsFollow
-----------------------------------------------------------------------------
(***************************************************************************)
(* A client that compiles synchronously has no jobs.                        *)
(***************************************************************************)
Synchronous ==
  /\ \A c \in Codes : job[c] = "none"
  /\ command.step = "take" => command.code \in alive

\* Without jobs no code is retained after its last release: only a job can release a
\* code between the lookup of a weak handle and the retain that follows.
THEOREM SynchronousTakesLive ==
  ASSUME ~Jobs
  PROVE  Spec => [][\A o \in Ops : ~TakeReleasedCode(o)]_vars
<1>1. Init => Synchronous
  BY DEF Init, Synchronous, Idle
<1>2. ASSUME IInv, Synchronous, [Next]_vars
      PROVE  Synchronous'
  <2>1. ASSUME NEW o \in Ops, Begin(o)
        PROVE  Synchronous'
    <3>1. UNCHANGED job
      BY <2>1 DEF Begin, SetFilenameAndSourceCode, SetEntryPoint
    <3>2. ASSUME NEW s \in Sources \union {NoSource}, SetFilenameAndSourceCode(o, s)
          PROVE  command'.step # "take"
      BY <3>2 DEF SetFilenameAndSourceCode, Idle
    <3>3. ASSUME NEW n \in Names \union {NoName}, SetEntryPoint(o, n)
          PROVE  command'.step # "take"
      <4>1. command' \in {[step |-> "resolve", op |-> o], [step |-> "idle"]}
        BY <3>3 DEF SetEntryPoint, Idle
      <4> QED
        BY <4>1
    <3>4. command'.step # "take"
      BY <2>1, <3>2, <3>3 DEF Begin
    <3> QED
      BY <1>2, <3>1, <3>4 DEF Synchronous
  <2>2. ASSUME NEW o \in Ops, Continue(o)
        PROVE  Synchronous'
    <3>1. CASE FindCode(o)
      <4>1. source[o] \in Sources
        BY <1>2, <3>1 DEF FindCode, IInv, CommandSound, At
      <4>2. cache[source[o]] \in alive
        BY <1>2, <3>1, <4>1 DEF FindCode, IInv, CacheSound
      <4>3. UNCHANGED <<job, alive>> /\ command'.code = cache[source[o]]
        BY <3>1 DEF FindCode, objects
      <4> QED
        BY <1>2, <4>2, <4>3 DEF Synchronous
    <3>2. ASSUME NEW c \in Codes, NEW optimised \in BOOLEAN, CreateCode(o, c, optimised)
          PROVE  Synchronous'
      <4>1. job' = [job EXCEPT ![c] = "none"]
        BY <3>2 DEF CreateCode
      <4>2. c \in alive' /\ command'.code = c
        BY <3>2 DEF CreateCode
      <4> QED
        BY <1>2, <4>1, <4>2 DEF Synchronous, IInv, TypeOK
    <3>3. CASE TakeCode(o)
      BY <1>2, <3>3 DEF TakeCode, Synchronous, Idle
    <3>4. CASE TakeReleasedCode(o)
      BY <1>2, <3>4 DEF TakeReleasedCode, Synchronous, objects
    <3>5. CASE FailToResolve(o)
      BY <1>2, <3>5 DEF FailToResolve, Synchronous, Idle, objects
    <3>6. ASSUME NEW f \in Functions, CreateFunction(o, f) \/ ReadEngine(o, f) \/ SetFunction(o, f)
          PROVE  Synchronous'
      <4>1. UNCHANGED job /\ command'.step # "take"
        BY <3>6 DEF CreateFunction, ReadEngine, SetFunction, Idle, objects
      <4> QED
        BY <1>2, <4>1 DEF Synchronous
    <3> QED
      BY <2>2, <3>1, <3>2, <3>3, <3>4, <3>5, <3>6 DEF Continue
  <2>3. CASE PrepareForExecution
    BY <1>2, <2>3 DEF PrepareForExecution, Synchronous, Idle
  <2>4. ASSUME NEW c \in Codes, JobStep(c)
        PROVE  Synchronous'
    BY <1>2, <2>4 DEF JobStep, CompileOptimizedAST, ReleaseCode, InvalidateCode, DeleteCode, Synchronous
  <2>5. CASE UNCHANGED vars
    BY <1>2, <2>5 DEF vars, objects, Synchronous
  <2>6. ASSUME NEW o \in Ops, Evaluate(o)
        PROVE  Synchronous'
    <3>1. UNCHANGED <<job, command>> /\ command = Idle
      BY <2>6 DEF Evaluate, Bind, BindNothing, Unbind, Evaluates, objects
    <3> QED
      BY <1>2, <3>1 DEF Synchronous, Idle
  <2> QED
    BY <1>2, <2>1, <2>2, <2>3, <2>4, <2>5, <2>6 DEF Next
<1>3. ASSUME IInv, Synchronous, NEW o \in Ops, TakeReleasedCode(o)
      PROVE  FALSE
  <2>1. command.code \in alive /\ command.code \in Codes
    BY <1>3 DEF TakeReleasedCode, Synchronous, IInv, TypeOK
  <2> QED
    BY <1>3, <2>1 DEF TakeReleasedCode, Released, Synchronous
<1>4. IInv /\ Synchronous => [\A o \in Ops : ~TakeReleasedCode(o)]_vars
  BY <1>3
<1> QED
  BY <1>1, <1>2, <1>4, Invariance, PTL DEF Spec
=============================================================================
