------------------------ MODULE AsyncEvaluationProofs ------------------------
(***************************************************************************)
(* Proofs about AsyncEvaluation: the batches of ParallelCall partition the  *)
(* slices, for every size and every number of cores; an evaluation only     *)
(* uses the pool as ThreadPool lets it, so what is proved of the pool holds *)
(* of it; an operator is run once for each slice; and within an evaluation  *)
(* the operators of nodes run in the order of their dependencies, however   *)
(* many evaluations there are at a time.                                    *)
(***************************************************************************)
EXTENDS AsyncEvaluation, ThreadPoolRefinement

LEMMA Division ==
  ASSUME NEW a \in Nat, NEW d \in Nat \ {0}
  PROVE  /\ a \div d \in Nat
         /\ (a \div d) * d <= a
         /\ a < (a \div d) * d + d
OBVIOUS

LEMMA Remainder ==
  ASSUME NEW a \in Nat, NEW d \in Nat \ {0}, a < d
  PROVE  a % d = a
OBVIOUS

LEMMA Monotone ==
  ASSUME NEW a \in Nat, NEW b \in Nat, NEW d \in Nat, a < b
  PROVE  a * d + d <= b * d
OBVIOUS

\* A batch, spelt out: size slices from batch * size on, clipped at count.
LEMMA BatchFacts ==
  ASSUME NEW count \in Nat \ {0}, NEW cores \in Nat \ {0}
  PROVE  \E size \in Nat \ {0}, n \in Nat \ {0} :
           /\ n = BatchCount(count, cores)
           /\ count <= n * size
           /\ \A b \in 0..(n - 1) :
                /\ b * size \in Nat /\ b * size < count
                /\ \A s : s \in Batch(count, cores, b) <=>
                            s \in Nat /\ b * size <= s /\ s < b * size + size /\ s < count
<1>1. PICK size \in Nat \ {0} : size = BatchSize(count, cores)
  <2>1. count \div (cores * 4) \in Nat
    BY Division
  <2> QED
    BY <2>1 DEF BatchSize
<1>2. PICK n \in Nat : n = BatchCount(count, cores) /\ n = (count + size - 1) \div size
  <2>1. (count + size - 1) \div size \in Nat
    BY Division
  <2>2. BatchCount(count, cores) = (count + size - 1) \div size
    BY <1>1 DEF BatchCount
  <2> QED
    BY <2>1, <2>2
<1>3. PICK m \in Nat : m = n * size
  OBVIOUS
<1>4. m <= count + size - 1 /\ count + size - 1 < m + size
  BY <1>2, <1>3, Division
<1>5. n # 0
  BY <1>3, <1>4
<1>6. ASSUME NEW b \in 0..(n - 1)
      PROVE  /\ b * size \in Nat /\ b * size < count
             /\ \A s : s \in Batch(count, cores, b) <=>
                         s \in Nat /\ b * size <= s /\ s < b * size + size /\ s < count
  <2>1. PICK start \in Nat : start = b * size
    BY <1>6
  <2>2. start + size <= m
    BY <1>3, <1>6, <2>1, Monotone
  <2>3. start < count
    BY <1>4, <2>2
  <2>4. b % n = b
    BY <1>5, <1>6, Remainder
  <2>5. Batch(count, cores, b) =
          start..(start + (IF start + size > count THEN count - start ELSE size) - 1)
    BY <1>1, <1>2, <2>1, <2>4, Zenon DEF Batch
  <2>6. \A s : s \in Batch(count, cores, b) <=>
                 s \in Nat /\ start <= s /\ s < start + size /\ s < count
    <3>1. CASE start + size > count
      <4>1. Batch(count, cores, b) = start..(start + (count - start) - 1)
        BY <2>5, <3>1
      <4> QED
        BY <2>3, <3>1, <4>1
    <3>2. CASE ~(start + size > count)
      <4>1. Batch(count, cores, b) = start..(start + size - 1)
        BY <2>5, <3>2
      <4> QED
        BY <2>3, <3>2, <4>1
    <3> QED
      BY <3>1, <3>2
  <2> QED
    BY <2>1, <2>3, <2>6
<1>7. count <= n * size
  BY <1>3, <1>4
<1> QED
  BY <1>2, <1>5, <1>6, <1>7

\* Whatever the number of slices and of cores, the batches of ParallelCall hold
\* each slice once, and nothing but slices.
THEOREM BatchesPartition ==
  \A count, cores \in Nat \ {0} : Partition(count, cores)
<1> SUFFICES ASSUME NEW count \in Nat \ {0}, NEW cores \in Nat \ {0}
             PROVE  Partition(count, cores)
  OBVIOUS
<1>1. PICK size \in Nat \ {0}, n \in Nat \ {0} :
        /\ n = BatchCount(count, cores)
        /\ count <= n * size
        /\ \A b \in 0..(n - 1) :
             /\ b * size \in Nat /\ b * size < count
             /\ \A s : s \in Batch(count, cores, b) <=>
                         s \in Nat /\ b * size <= s /\ s < b * size + size /\ s < count
  BY BatchFacts
<1>2. ASSUME NEW s \in 0..(count - 1)
      PROVE  \E b \in 0..(n - 1) :
               /\ s \in Batch(count, cores, b)
               /\ \A c \in 0..(n - 1) : s \in Batch(count, cores, c) => c = b
  <2>1. PICK b \in Nat : b = s \div size /\ b * size <= s /\ s < b * size + size
    BY <1>2, Division
  <2>2. b < n
    <3>1. ASSUME n <= b PROVE FALSE
      <4>1. n * size <= b * size
        <5>1. CASE n = b
          BY <5>1
        <5>2. CASE n < b
          <6>1. n * size + size <= b * size
            BY <5>2, Monotone
          <6> QED
            BY <6>1
        <5> QED
          BY <3>1, <5>1, <5>2
      <4>2. n * size \in Nat /\ b * size \in Nat
        OBVIOUS
      <4> QED
        BY <1>1, <1>2, <2>1, <4>1, <4>2
    <3> QED
      BY <3>1
  <2>3. s \in Batch(count, cores, b)
    BY <1>1, <1>2, <2>1, <2>2
  <2>4. ASSUME NEW c \in 0..(n - 1), s \in Batch(count, cores, c)
        PROVE  c = b
    <3>1. c * size <= s /\ s < c * size + size
      BY <1>1, <2>4
    <3>2. c \in Nat /\ c * size \in Nat /\ b * size \in Nat
      BY <2>4
    <3>3. ~(c < b)
      <4>1. c < b => c * size + size <= b * size
        BY <3>2, Monotone
      <4> QED
        BY <1>2, <2>1, <3>1, <3>2, <4>1
    <3>4. ~(b < c)
      <4>1. b < c => b * size + size <= c * size
        BY <3>2, Monotone
      <4> QED
        BY <1>2, <2>1, <3>1, <3>2, <4>1
    <3> QED
      BY <3>2, <3>3, <3>4
  <2> QED
    BY <2>2, <2>3, <2>4
<1>3. ASSUME NEW b \in 0..(n - 1)
      PROVE  /\ Batch(count, cores, b) # {}
             /\ Batch(count, cores, b) \subseteq 0..(count - 1)
  <2>1. PICK start \in Nat : start = b * size /\ start < count
    BY <1>1
  <2>2. start \in Batch(count, cores, b)
    BY <1>1, <2>1
  <2> QED
    BY <1>1, <2>2
<1> QED
  BY <1>1, <1>2, <1>3 DEF Partition
-----------------------------------------------------------------------------
LEMMA CoresPositive == Cores \in Nat \ {0}
<1>1. IsFiniteSet(Workers)
  BY ConstantsAssumption, FS_Subset DEF Workers
<1>2. Cardinality(Workers) \in Nat /\ (Cardinality(Workers) = 0 <=> Workers = {})
  BY <1>1, FS_CardinalityType, FS_EmptySet
<1> QED
  BY <1>2, AsyncConstants DEF Cores

LEMMA BatchCountBound ==
  BatchCount(SliceCount, Cores) \in 1..MaxCount /\ Width \in 1..MaxCount /\ MaxCount \in Nat
<1>1. BatchCount(SliceCount, Cores) \in Nat \ {0}
  BY CoresPositive, AsyncConstants, BatchFacts
<1> QED
  BY <1>1, AsyncConstants, ConstantsAssumption DEF Cores

\* The call of executeParallel is one the pool knows.
LEMMA SubmitsCall ==
  ASSUME NEW t \in Threads, NEW n \in 1..MaxCount, NEW what,
         Calls_executeParallel(t, n, what)
  PROVE  Submit(t)
<1>1. "normal" \in Flags
  BY AsyncConstants
<1> QED
  BY <1>1 DEF Calls_executeParallel, Submit

\* A callback's step is a step of the pool, or does not touch it.
LEMMA CallbackStep ==
  ASSUME NEW t \in Threads, Callback(t)
  PROVE  PoolStep(t) \/ Submit(t) \/ UNCHANGED vars
<1>1. 1 \in 1..MaxCount
  BY BatchCountBound
<1>2. CASE AcquireMutex(t) \/ ReleaseMutex(t) \/ BeginOperators(t)
  BY <1>2 DEF AcquireMutex, ReleaseMutex, BeginOperators, vars
<1>3. CASE ExecuteGroup(t) \/ ExecuteDependent(t) \/ BeginSlices(t)
  BY <1>1, <1>3, BatchCountBound, SubmitsCall DEF ExecuteGroup, ExecuteDependent, BeginSlices
<1>4. CASE EndEvaluation(t) \/ SkipClean(t) \/ EndSlice(t) \/ EndOperators(t)
  BY <1>4 DEF EndEvaluation, SkipClean, EndSlice, EndOperators, Return, PoolStep
<1> QED
  BY <1>2, <1>3, <1>4 DEF Callback

LEMMA AsyncNextIsPool == [AsyncNext]_asyncVars => [Next]_vars
<1> SUFFICES ASSUME [AsyncNext]_asyncVars PROVE [Next]_vars
  OBVIOUS
<1>1. MainThread \in Threads
  BY ConstantsAssumption
<1>2. CASE EvaluateAsync
  <2>1. "idle" \in Flags /\ 1 \in 1..MaxCount
    BY AsyncConstants, BatchCountBound
  <2>2. Submit(MainThread)
    BY <1>2, <2>1 DEF EvaluateAsync, Submit
  <2> QED
    BY <1>1, <2>2 DEF Next
<1>3. CASE Evaluate \/ \E n \in 0..(Width - 1) : SetData(n)
  BY <1>3 DEF Evaluate, SetData
<1>4. CASE \E t \in Threads : Callback(t)
  BY <1>4, CallbackStep DEF Next
<1>5. CASE \E t \in Threads : Pool(t)
  BY <1>5 DEF Pool, PoolStep, Next
<1>6. CASE UNCHANGED asyncVars
  BY <1>6 DEF asyncVars
<1> QED
  BY <1>2, <1>3, <1>4, <1>5, <1>6 DEF AsyncNext

\* An evaluation is a client of the pool: whatever is proved of
\* ThreadPool (and, by Implementation, of ParallelCalls) holds while it runs.
THEOREM AsyncUsesPool == AsyncSpec => Spec
<1>1. AsyncInit => Init
  BY DEF AsyncInit
<1> QED
  BY <1>1, AsyncNextIsPool, PTL DEF AsyncSpec, Spec

\* A call that was made keeps its kind and its count.
CallsKept ==
  \A x \in Calls : call'[x].kind = call[x].kind /\ call'[x].count = call[x].count

LEMMA PoolStepKeepsCalls ==
  ASSUME IInv, NEW t \in Threads, PoolStep(t)
  PROVE  CallsKept
<1>1. call \in [Calls -> CallRecord]
  BY DEF IInv, TypeOK
<1>2. CASE WorkerExit(t) \/ Sleep(t) \/ ReturnExec(t) \/ Reacquire(t)
  BY <1>2 DEF WorkerExit, Sleep, ReturnExec, Reacquire, CallsKept
<1>3. CASE JoinReturn(t) \/ ReturnInline(t)
  <2>1. Top(t).call \in Calls /\ call' = Disposed(Top(t).call)
    BY <1>3, TopFrame DEF JoinReturn, ReturnInline, TopIs
  <2> QED
    BY <1>1, <2>1, DisposedKeeps DEF CallsKept
<1>4. CASE Take(t)
  <2>1. PICK x \in Calls, i \in Indices : call' = [call EXCEPT ![x].nextIndex = i + 1]
    BY <1>4, TakeFacts
  <2> QED
    BY <1>1, <2>1 DEF CallRecord, CallsKept
<1>5. CASE PostExecute(t)
  BY <1>5, PostExecuteKeeps DEF CallsKept
<1> QED
  BY <1>2, <1>3, <1>4, <1>5 DEF PoolStep

LEMMA KeptShape ==
  ASSUME JobShape, CallsKept, job' = job
  PROVE  JobShape'
BY DEF JobShape, CallsKept

\* A call of executeParallel makes a call of the kind and count its job has.
LEMMA MadeShape ==
  ASSUME IInv, JobShape, NEW t \in Threads, NEW n \in 1..MaxCount,
         NEW what \in Jobs \ {"none", "evaluate"},
         Calls_executeParallel(t, n, what), n = CountOf(what)
  PROVE  JobShape'
<1>1. PICK r :
        /\ nCalls < MaxCalls
        /\ call' = [call EXCEPT ![nCalls + 1] = r]
        /\ r.kind \in {"sync", "inline"} /\ r.count = n
  <2> DEFINE made(kind, count, next) ==
        [kind |-> kind, flag |-> "normal", count |-> count,
         nextIndex |-> next, completedCount |-> 0, alive |-> TRUE]
  <2>1. CASE n = 1
    <3>1. PICK r : r = made("inline", 1, 1)
      OBVIOUS
    <3>2. nCalls < MaxCalls /\ call' = [call EXCEPT ![nCalls + 1] = r]
      BY <2>1, <3>1 DEF Calls_executeParallel, ExecuteParallelInline, NewCall
    <3>3. r.kind \in {"sync", "inline"} /\ r.count = n
      BY <2>1, <3>1
    <3> HIDE DEF made
    <3> QED
      BY <3>2, <3>3
  <2>2. CASE n # 1
    <3>1. PICK r : r = made("sync", n, 0)
      OBVIOUS
    <3>2. nCalls < MaxCalls /\ call' = [call EXCEPT ![nCalls + 1] = r]
      BY <2>2, <3>1 DEF Calls_executeParallel, ExecuteParallel, NewCall
    <3>3. r.kind \in {"sync", "inline"} /\ r.count = n
      BY <3>1
    <3> HIDE DEF made
    <3> QED
      BY <3>2, <3>3
  <2> QED
    BY <2>1, <2>2
<1>2. nCalls + 1 \in Calls /\ call \in [Calls -> CallRecord]
  BY <1>1, FreshCall DEF IInv, TypeOK
<1>3. job' = [job EXCEPT ![nCalls + 1] = what]
  BY DEF Calls_executeParallel
<1>4. /\ call'[nCalls + 1] = r
      /\ \A y \in Calls \ {nCalls + 1} : call'[y] = call[y]
  BY <1>1, <1>2
<1> QED
  BY <1>1, <1>2, <1>3, <1>4 DEF JobShape

LEMMA CallbackShape ==
  ASSUME IInv, JobShape, NEW t \in Threads, Callback(t)
  PROVE  JobShape'
<1>1. 1 \in 1..MaxCount /\ {"group", "dependent", "slices"} \subseteq Jobs \ {"none", "evaluate"}
  BY BatchCountBound DEF Jobs
<1>2. CASE AcquireMutex(t) \/ ReleaseMutex(t) \/ BeginOperators(t)
  <2>1. CallsKept /\ job' = job
    BY <1>2 DEF AcquireMutex, ReleaseMutex, BeginOperators, vars, CallsKept
  <2> QED
    BY <2>1, KeptShape
<1>3. CASE ExecuteGroup(t)
  BY <1>1, <1>3, BatchCountBound, MadeShape DEF ExecuteGroup, CountOf
<1>4. CASE ExecuteDependent(t)
  BY <1>1, <1>4, MadeShape DEF ExecuteDependent, CountOf
<1>5. CASE BeginSlices(t)
  BY <1>1, <1>5, BatchCountBound, MadeShape DEF BeginSlices, CountOf
<1>6. CASE EndEvaluation(t) \/ SkipClean(t) \/ EndSlice(t) \/ EndOperators(t)
  <2>1. PoolStep(t) /\ job' = job
    BY <1>6 DEF EndEvaluation, SkipClean, EndSlice, EndOperators, Return, PoolStep, context
  <2> QED
    BY <2>1, PoolStepKeepsCalls, KeptShape
<1> QED
  BY <1>2, <1>3, <1>4, <1>5, <1>6 DEF Callback

LEMMA NextJobShape == IInv /\ JobShape /\ [AsyncNext]_asyncVars => JobShape'
<1> SUFFICES ASSUME IInv, JobShape, [AsyncNext]_asyncVars PROVE JobShape'
  OBVIOUS
<1>1. CASE EvaluateAsync
  <2>1. nCalls < MaxCalls
    BY <1>1 DEF EvaluateAsync, ExecuteParallelAsync, NewCall
  <2>2. nCalls + 1 \in Calls /\ job' = [job EXCEPT ![nCalls + 1] = "evaluate"]
    BY <1>1, <2>1, FreshCall DEF EvaluateAsync
  <2>3. /\ call'[nCalls + 1].kind = "async" /\ call'[nCalls + 1].count = 1
        /\ \A y \in Calls \ {nCalls + 1} : call'[y] = call[y]
    BY <1>1, <2>2 DEF EvaluateAsync, ExecuteParallelAsync, NewCall, IInv, TypeOK
  <2> QED
    BY <2>2, <2>3 DEF JobShape, Jobs, CountOf
<1>2. CASE Evaluate \/ (\E n \in 0..(Width - 1) : SetData(n)) \/ UNCHANGED asyncVars
  <2>1. CallsKept /\ job' = job
    BY <1>2 DEF Evaluate, SetData, asyncVars, vars, context, CallsKept
  <2> QED
    BY <2>1, KeptShape
<1>3. ASSUME NEW t \in Threads, Callback(t) PROVE JobShape'
  BY <1>3, CallbackShape
<1>4. ASSUME NEW t \in Threads, Pool(t) PROVE JobShape'
  <2>1. PoolStep(t) /\ job' = job
    BY <1>4 DEF Pool, PoolStep, context
  <2> QED
    BY <2>1, PoolStepKeepsCalls, KeptShape
<1> QED
  BY <1>1, <1>2, <1>3, <1>4 DEF AsyncNext

\* The slices of an operator have all been run, once each, when its call is over.
LEMMA ShapeRunsOnce == RInv /\ JobShape => SlicesRunOnce
<1> SUFFICES ASSUME RInv, JobShape,
                    NEW x \in Calls, job[x] = "slices", ~call[x].alive,
                    NEW s \in 0..(SliceCount - 1)
             PROVE  RanOnce(x, s)
  BY DEF SlicesRunOnce
<1>1. PICK n \in 1..MaxCount : n = BatchCount(SliceCount, Cores)
  BY BatchCountBound
<1>2. call[x].kind \in {"sync", "inline"} /\ call[x].count = n
  BY <1>1 DEF JobShape, CountOf
<1>3. call[x].nextIndex = n
  <2>1. CASE call[x].kind = "sync"
    <3>1. Completed(x) /\ HasTask(x)
      BY <2>1 DEF RInv, IInv, CallShape, HasTask
    <3> QED
      BY <1>2, <3>1, CompletedIsQuiet DEF RInv
  <2>2. CASE call[x].kind = "inline"
    BY <1>2, <2>2 DEF RInv, IndexShape
  <2> QED
    BY <1>2, <2>1, <2>2
<1>4. \A i \in Indices : runs[x][i] = IF i < n THEN 1 ELSE 0
  BY <1>3 DEF RInv, IInv, EachIndexOnce
<1>5. \A i : i \in 0..(n - 1) <=> i \in Indices /\ i < n
  BY <1>1, BatchCountBound DEF Indices
<1>6. PICK b \in 0..(n - 1) :
        /\ s \in Batch(SliceCount, Cores, b)
        /\ \A c \in 0..(n - 1) : s \in Batch(SliceCount, Cores, c) => c = b
  BY <1>1, CoresPositive, AsyncConstants, BatchesPartition DEF Partition
<1>7. b \in Indices /\ runs[x][b] = 1
  BY <1>4, <1>5, <1>6
<1>8. \A j \in Indices \ {b} : runs[x][j] > 0 => s \notin Batch(SliceCount, Cores, j)
  <2>1. ASSUME NEW j \in Indices \ {b}, runs[x][j] > 0 PROVE j \in 0..(n - 1)
    BY <1>4, <1>5, <2>1
  <2> QED
    BY <1>6, <2>1
<1> QED
  BY <1>6, <1>7, <1>8 DEF RanOnce

\* When an operator's executeParallel returns, it has been run once for each
\* slice, for any number of threads, nodes and slices.
THEOREM SlicesRunOnceHolds == AsyncSpec => []SlicesRunOnce
<1>1. AsyncInit => JobShape
  BY DEF AsyncInit, JobShape, Jobs
<1>2. RInv => IInv
  BY DEF RInv
<1>3. RInv /\ JobShape /\ [AsyncNext]_asyncVars => JobShape'
  BY <1>2, NextJobShape
<1> QED
  BY <1>1, <1>3, ShapeRunsOnce, AsyncUsesPool, RefinementInvariance, PTL DEF AsyncSpec
-----------------------------------------------------------------------------
(***************************************************************************)
(* The order within an evaluation, however many there are and whichever     *)
(* thread takes up another one while it waits in the first.                 *)
(***************************************************************************)

\* Evaluations are numbered as they are asked for: each is either the callback of
\* one evaluateAsync, or the command of the main thread.
Numbered ==
  /\ evaluation \in [Calls -> Nat]
  /\ asked \in Nat
  /\ command \in [evaluation : Nat, step : Nat]
  /\ command.evaluation <= asked
  /\ \A x \in Evaluations :
       evaluation[x] \in 1..asked /\ evaluation[x] # command.evaluation
  /\ \A x, y \in Evaluations : evaluation[x] = evaluation[y] => x = y

NodeCall(y) == job[y] \in NodeJobs /\ call[y].alive

\* Evaluation e is at place k of the stack of t; its place is 0 where it is the
\* command.
EvaluatesAt(t, k, e) ==
  IF k = 0
  THEN t = MainThread /\ command.evaluation = e
  ELSE /\ k \in DOMAIN stack[t]
       /\ job[stack[t][k].call] = "evaluate"
       /\ evaluation[stack[t][k].call] = e

\* The evaluation that made the call y waits in it.
WaitsIn(t, k, y) ==
  /\ EvaluatesAt(t, k, evaluation[y])
  /\ k + 1 \in DOMAIN stack[t]
  /\ stack[t][k + 1].call = y
  /\ stack[t][k + 1].role # "exec"

NodeCallsMade ==
  \A y \in Calls : NodeCall(y) => \E t \in Threads, k \in Nat : WaitsIn(t, k, y)

OrderInv == RInv /\ JobShape /\ Numbered /\ NodeCallsMade

\* The frame of an evaluate callback is that of a live call of one index.
LEMMA EvaluateFrame ==
  ASSUME OrderInv, NEW v \in Threads, NEW m \in DOMAIN stack[v],
         job[stack[v][m].call] = "evaluate"
  PROVE  /\ stack[v][m].call \in Evaluations
         /\ stack[v][m].role = "exec" /\ stack[v][m].index = 0
<1>1. /\ stack \in [Threads -> Seq(Frame)] /\ FrameShape /\ CallShape /\ IndexShape
      /\ call \in [Calls -> CallRecord]
  BY DEF OrderInv, RInv, IInv, TypeOK
<1>2. /\ stack[v][m].call \in Calls /\ stack[v][m].index \in Nat
      /\ stack[v][m].role \in {"exec", "inline", "join"}
  BY <1>1, FrameTyped DEF Frame
<1>3. PICK x \in Calls : x = stack[v][m].call
  BY <1>2
<1>4. call[x].kind = "async" /\ call[x].count = 1
  BY <1>3 DEF OrderInv, JobShape, CountOf
<1>5. stack[v][m].role = "exec"
  BY <1>1, <1>2, <1>3, <1>4 DEF FrameShape
<1>6. stack[v][m].index < call[x].nextIndex /\ call[x].nextIndex <= 1
  BY <1>1, <1>3, <1>4, <1>5 DEF IndexShape, CallShape
<1>7. call[x].nextIndex \in Nat
  BY <1>1, ConstantsAssumption DEF CallRecord
<1> QED
  BY <1>2, <1>3, <1>5, <1>6, <1>7 DEF Evaluations

\* An evaluation is at one place.
LEMMA OnePlace ==
  ASSUME OrderInv, NEW e,
         NEW t \in Threads, NEW k \in Nat, EvaluatesAt(t, k, e),
         NEW u \in Threads, NEW l \in Nat, EvaluatesAt(u, l, e)
  PROVE  t = u /\ k = l
<1>1. Numbered /\ IndexShape
  BY DEF OrderInv, RInv
<1>2. ASSUME NEW v \in Threads, NEW m \in DOMAIN stack[v],
             job[stack[v][m].call] = "evaluate", evaluation[stack[v][m].call] = e
      PROVE  e # command.evaluation
  BY <1>1, <1>2, EvaluateFrame DEF Numbered
<1>3. CASE k = 0 /\ l = 0
  BY <1>3 DEF EvaluatesAt
<1>4. CASE k = 0 /\ l # 0
  BY <1>2, <1>4 DEF EvaluatesAt
<1>5. CASE k # 0 /\ l = 0
  BY <1>2, <1>5 DEF EvaluatesAt
<1>6. CASE k # 0 /\ l # 0
  <2>1. /\ k \in DOMAIN stack[t] /\ l \in DOMAIN stack[u]
        /\ job[stack[t][k].call] = "evaluate" /\ job[stack[u][l].call] = "evaluate"
        /\ evaluation[stack[t][k].call] = e /\ evaluation[stack[u][l].call] = e
    BY <1>6 DEF EvaluatesAt
  <2>2. /\ stack[t][k].call \in Evaluations /\ stack[u][l].call \in Evaluations
        /\ stack[t][k].role = "exec" /\ stack[u][l].role = "exec"
        /\ stack[t][k].index = stack[u][l].index
    BY <2>1, EvaluateFrame
  <2>3. stack[t][k].call = stack[u][l].call
    BY <1>1, <2>1, <2>2 DEF Numbered
  <2> QED
    BY <1>1, <2>1, <2>2, <2>3 DEF IndexShape
<1> QED
  BY <1>3, <1>4, <1>5, <1>6

\* No two calls for nodes are made at a time by one evaluation.
LEMMA OneNodeCall ==
  ASSUME OrderInv, NEW y \in Calls, NEW z \in Calls, NodeCall(y), NodeCall(z),
         evaluation[y] = evaluation[z]
  PROVE  y = z
<1>1. PICK t \in Threads, k \in Nat : WaitsIn(t, k, y)
  BY DEF OrderInv, NodeCallsMade
<1>2. PICK u \in Threads, l \in Nat : WaitsIn(u, l, z)
  BY DEF OrderInv, NodeCallsMade
<1>3. t = u /\ k = l
  BY <1>1, <1>2, OnePlace DEF WaitsIn
<1> QED
  BY <1>1, <1>2, <1>3 DEF WaitsIn

\* A step of the pool makes no task live that did not.
LEMMA PoolStepAlive ==
  ASSUME IInv, NEW t \in Threads, PoolStep(t), NEW y \in Calls, call'[y].alive
  PROVE  call[y].alive
<1>1. call \in [Calls -> CallRecord] /\ ThreadShape
  BY DEF IInv, TypeOK
<1>2. CASE WorkerExit(t) \/ Sleep(t) \/ ReturnExec(t) \/ Reacquire(t)
  BY <1>2 DEF WorkerExit, Sleep, ReturnExec, Reacquire
<1>3. CASE JoinReturn(t) \/ ReturnInline(t)
  <2>1. Top(t).call \in Calls /\ call' = Disposed(Top(t).call)
    BY <1>3, TopFrame DEF JoinReturn, ReturnInline, TopIs
  <2> QED
    BY <1>1, <2>1, DisposedKeeps
<1>4. CASE Take(t)
  <2>1. PICK x \in Calls, i \in Indices : call' = [call EXCEPT ![x].nextIndex = i + 1]
    BY <1>4, TakeFacts
  <2> QED
    BY <1>1, <2>1 DEF CallRecord
<1>5. CASE PostExecute(t)
  <2>1. stack[t] # <<>>
    BY <1>1, <1>5 DEF PostExecute, ThreadShape, TopIs
  <2>2. PICK x \in Calls : x = Top(t).call /\ call[x].alive
    BY <2>1, TopFrame
  <2>3. PICK b : call' = [call EXCEPT ![x].completedCount = @ + 1, ![x].alive = b]
    BY <1>5, <2>2 DEF PostExecute
  <2>4. y # x => call'[y] = call[y]
    BY <1>1, <2>3
  <2> QED
    BY <2>2, <2>4
<1> QED
  BY <1>2, <1>3, <1>4, <1>5 DEF PoolStep

\* What executeParallel adds to the calls and to the stack.
LEMMA MadeCall ==
  ASSUME IInv, NEW t \in Threads, NEW n \in 1..MaxCount, NEW what,
         Calls_executeParallel(t, n, what)
  PROVE  /\ nCalls < MaxCalls
         /\ job' = [job EXCEPT ![nCalls + 1] = what]
         /\ \A y \in Calls \ {nCalls + 1} : call'[y] = call[y]
         /\ \E f \in Frame : /\ f.call = nCalls + 1 /\ f.role # "exec"
                             /\ stack' = Pushed(t, f)
<1>1. nCalls < MaxCalls /\ job' = [job EXCEPT ![nCalls + 1] = what]
  BY DEF Calls_executeParallel, ExecuteParallelInline, ExecuteParallel, NewCall
<1>2. nCalls + 1 \in Calls
  BY <1>1, FreshCall
<1>3. CASE n = 1
  <2>1. PICK f : f = [role |-> "inline", call |-> nCalls + 1, index |-> 0]
    OBVIOUS
  <2>2. f \in Frame
    BY <1>2, <2>1 DEF Frame
  <2>3. stack' = Pushed(t, f)
    BY <1>3, <2>1 DEF Calls_executeParallel, ExecuteParallelInline
  <2>4. \A y \in Calls \ {nCalls + 1} : call'[y] = call[y]
    BY <1>3 DEF Calls_executeParallel, ExecuteParallelInline, NewCall, IInv, TypeOK
  <2> QED
    BY <1>1, <2>1, <2>2, <2>3, <2>4
<1>4. CASE n # 1
  <2>1. PICK f : f = [role |-> "join", call |-> nCalls + 1, index |-> 0]
    OBVIOUS
  <2>2. f \in Frame
    BY <1>2, <2>1 DEF Frame
  <2>3. stack' = Pushed(t, f)
    BY <1>4, <2>1 DEF Calls_executeParallel, ExecuteParallel
  <2>4. \A y \in Calls \ {nCalls + 1} : call'[y] = call[y]
    BY <1>4 DEF Calls_executeParallel, ExecuteParallel, NewCall, IInv, TypeOK
  <2> QED
    BY <1>1, <2>1, <2>2, <2>3, <2>4
<1> QED
  BY <1>3, <1>4

LEMMA WaitsKept ==
  ASSUME NEW t \in Threads, NEW k \in Nat, NEW y \in Calls, WaitsIn(t, k, y),
         evaluation'[y] = evaluation[y],
         k + 1 \in DOMAIN stack'[t], stack'[t][k + 1] = stack[t][k + 1],
         k = 0 => command'.evaluation = command.evaluation,
         k # 0 => /\ k \in DOMAIN stack'[t] /\ stack'[t][k] = stack[t][k]
                  /\ job'[stack[t][k].call] = job[stack[t][k].call]
                  /\ evaluation'[stack[t][k].call] = evaluation[stack[t][k].call]
  PROVE  WaitsIn(t, k, y)'
BY DEF WaitsIn, EvaluatesAt

LEMMA NumberedKept ==
  ASSUME Numbered, evaluation' \in [Calls -> Nat], asked' = asked,
         command' \in [evaluation : Nat, step : Nat],
         command'.evaluation \in {command.evaluation, 0},
         \A x \in Calls : job'[x] = "evaluate" =>
                            job[x] = "evaluate" /\ evaluation'[x] = evaluation[x]
  PROVE  Numbered'
BY DEF Numbered, Evaluations

\* A step that leaves calls, stacks and evaluations alone.
LEMMA StillOrdered ==
  ASSUME OrderInv, UNCHANGED <<vars, job, evaluation, asked>>,
         command' \in [evaluation : Nat, step : Nat],
         command'.evaluation = command.evaluation
  PROVE  Numbered' /\ NodeCallsMade'
<1>1. stack' = stack /\ call' = call /\ job' = job /\ evaluation' = evaluation
  BY DEF vars
<1>2. Numbered'
  BY <1>1, NumberedKept DEF OrderInv, Numbered
<1>3. NodeCallsMade'
  BY <1>1 DEF OrderInv, NodeCallsMade, NodeCall, WaitsIn, EvaluatesAt
<1> QED
  BY <1>2, <1>3

LEMMA PoolStepOrdered ==
  ASSUME OrderInv, NEW t \in Threads, PoolStep(t),
         UNCHANGED <<job, evaluation, asked, command>>
  PROVE  Numbered' /\ NodeCallsMade'
<1>1. /\ stack \in [Threads -> Seq(Frame)] /\ ThreadShape /\ IInv
      /\ call \in [Calls -> CallRecord] /\ Numbered
  BY DEF OrderInv, RInv, IInv, TypeOK
<1>2. Numbered'
  BY <1>1, NumberedKept DEF Numbered
<1> SUFFICES ASSUME NEW y \in Calls, NodeCall(y)'
             PROVE  \E u \in Threads, k \in Nat : WaitsIn(u, k, y)'
  BY <1>2 DEF NodeCallsMade
<1>3. NodeCall(y)
  BY <1>1, PoolStepAlive DEF NodeCall
<1>4. PICK u \in Threads, k \in Nat : WaitsIn(u, k, y)
  BY <1>3 DEF OrderInv, NodeCallsMade
<1>5. /\ k + 1 \in 1..Len(stack[u]) /\ Len(stack[u]) \in Nat
      /\ DOMAIN stack[u] = 1..Len(stack[u])
  BY <1>1, <1>4, FrameTyped DEF WaitsIn
<1>6. SUFFICES /\ k + 1 \in DOMAIN stack'[u] /\ stack'[u][k + 1] = stack[u][k + 1]
               /\ k # 0 => k \in DOMAIN stack'[u] /\ stack'[u][k] = stack[u][k]
  BY <1>4, WaitsKept
<1>7. CASE stack' = stack
  BY <1>5, <1>7
<1>8. CASE Take(t)
  <2>1. PICK x \in Calls, i \in Indices :
          stack' = Pushed(t, [role |-> "exec", call |-> x, index |-> i])
    BY <1>1, <1>8, TakeFacts
  <2>2. PICK f : f = [role |-> "exec", call |-> x, index |-> i]
    OBVIOUS
  <2>3. f \in Frame
    BY <2>2 DEF Frame, Indices
  <2>4. /\ DOMAIN stack'[t] = 1..(Len(stack[t]) + 1)
        /\ \A l \in DOMAIN stack[t] : stack'[t][l] = stack[t][l]
        /\ \A v \in Threads \ {t} : stack'[v] = stack[v]
    BY <1>1, <2>1, <2>2, <2>3, PushFrame
  <2> QED
    BY <1>5, <2>4
<1>9. CASE JoinReturn(t) \/ ReturnInline(t) \/ PostExecute(t)
  <2>1. stack[t] # <<>> /\ stack' = Popped(t)
    BY <1>1, <1>9 DEF JoinReturn, ReturnInline, PostExecute, TopIs, ThreadShape
  <2>2. ~(u = t /\ k + 1 = Len(stack[t]))
    <3> SUFFICES ASSUME u = t, k + 1 = Len(stack[t]) PROVE FALSE
      OBVIOUS
    <3>1. Top(t).call = y /\ Top(t).role # "exec"
      BY <1>4 DEF WaitsIn, Top
    <3>2. ~PostExecute(t)
      BY <1>1, <3>1 DEF PostExecute, ThreadShape, TopIs
    <3>3. call' = Disposed(y)
      BY <1>9, <3>1, <3>2 DEF JoinReturn, ReturnInline
    <3> QED
      BY <1>1, <3>3, DisposedKeeps DEF NodeCall
  <2>3. /\ Len(stack[t]) \in Nat \ {0}
        /\ DOMAIN stack'[t] = 1..(Len(stack[t]) - 1)
        /\ \A l \in DOMAIN stack'[t] : stack'[t][l] = stack[t][l]
        /\ \A v \in Threads \ {t} : stack'[v] = stack[v]
    BY <1>1, <2>1, PopFrame
  <2>4. CASE u = t
    <3>1. k + 1 <= Len(stack[t]) - 1
      BY <1>5, <2>2, <2>3, <2>4
    <3> QED
      BY <2>3, <2>4, <3>1
  <2> QED
    BY <1>5, <2>3, <2>4
<1> QED
  BY <1>7, <1>8, <1>9
  DEF PoolStep, WorkerExit, Sleep, ReturnExec, Reacquire

\* The index of a callback is one of its call's.
LEMMA CallbackIndex ==
  ASSUME RInv, NEW t \in Threads, NEW k \in DOMAIN stack[t], stack[t][k].role # "join"
  PROVE  /\ stack[t][k].index \in Indices
         /\ stack[t][k].index < call[stack[t][k].call].count
<1>1. /\ stack \in [Threads -> Seq(Frame)] /\ call \in [Calls -> CallRecord]
      /\ IndexShape /\ FrameShape /\ CallShape
  BY DEF RInv, IInv, TypeOK
<1>2. PICK x \in Calls, i \in Nat :
        /\ x = stack[t][k].call /\ i = stack[t][k].index
        /\ stack[t][k].role \in {"exec", "inline"}
  BY <1>1, FrameTyped DEF Frame
<1>3. /\ call[x].count \in 0..MaxCount /\ call[x].nextIndex \in 0..MaxCount
      /\ call[x].nextIndex <= call[x].count
  BY <1>1 DEF CallRecord, CallShape
<1>4. i < call[x].count
  <2>1. CASE stack[t][k].role = "exec"
    <3>1. i < call[x].nextIndex
      BY <1>1, <1>2, <2>1 DEF IndexShape
    <3> QED
      BY <1>3, <3>1, ConstantsAssumption
  <2>2. CASE stack[t][k].role = "inline"
    <3>1. call[x].kind = "inline" /\ i = 0
      BY <1>1, <1>2, <2>2 DEF IndexShape, FrameShape
    <3> QED
      BY <1>1, <3>1 DEF IndexShape
  <2> QED
    BY <1>2, <2>1, <2>2
<1> QED
  BY <1>2, <1>3, <1>4, ConstantsAssumption DEF Indices

\* The thread is in a callback, or it is the main thread, in a command.
LEMMA CodeOf ==
  ASSUME OrderInv, NEW t \in Threads, NEW k \in Nat,
         k = Len(stack[t]), (\E n : InEvaluation(t, n))
  PROVE  EvaluatesAt(t, k, EvaluationOf(t))
<1>1. PICK n : InEvaluation(t, n)
  OBVIOUS
<1>2. stack[t] \in Seq(Frame)
  BY DEF OrderInv, RInv, IInv, TypeOK
<1>3. CASE stack[t] = <<>>
  <2>1. k = 0 /\ t = MainThread
    BY <1>1, <1>3 DEF InEvaluation, InCallback
  <2> QED
    BY <1>3, <2>1 DEF EvaluatesAt, EvaluationOf
<1>4. CASE stack[t] # <<>>
  <2>1. /\ k # 0 /\ k \in DOMAIN stack[t] /\ Top(t) = stack[t][k]
    BY <1>2, <1>4 DEF Top
  <2>2. job[Top(t).call] = "evaluate"
    BY <1>1, <1>4 DEF InEvaluation, InCallback
  <2> QED
    BY <1>4, <2>1, <2>2 DEF EvaluatesAt, EvaluationOf
<1> QED
  BY <1>3, <1>4

\* It waits in no call for nodes then.
LEMMA NoNodeCall ==
  ASSUME OrderInv, NEW t \in Threads, (\E n : InEvaluation(t, n)),
         NEW y \in Calls, evaluation[y] = EvaluationOf(t)
  PROVE  ~NodeCall(y)
<1> SUFFICES ASSUME NodeCall(y) PROVE FALSE
  OBVIOUS
<1>1. PICK u \in Threads, l \in Nat : WaitsIn(u, l, y)
  BY DEF OrderInv, NodeCallsMade
<1>2. stack[t] \in Seq(Frame) /\ stack[u] \in Seq(Frame)
  BY DEF OrderInv, RInv, IInv, TypeOK
<1>3. PICK k \in Nat : k = Len(stack[t])
  BY <1>2
<1>4. u = t /\ l = k
  BY <1>1, <1>3, CodeOf, OnePlace DEF WaitsIn
<1>5. l + 1 \in DOMAIN stack[u]
  BY <1>1 DEF WaitsIn
<1> QED
  BY <1>2, <1>3, <1>4, <1>5

LEMMA ProceedKeeps ==
  ASSUME Numbered, NEW t, Proceed(t)
  PROVE  /\ command' \in [evaluation : Nat, step : Nat]
         /\ command'.evaluation = command.evaluation
<1>1. command \in [evaluation : Nat, step : Nat]
  BY DEF Numbered
<1>2. CASE command' = [command EXCEPT !.step = @ + 1]
  BY <1>1, <1>2
<1>3. CASE command' = command
  BY <1>1, <1>3
<1> QED
  BY <1>2, <1>3 DEF Proceed

\* A call for nodes is one of the evaluation that makes it; a call for slices is
\* none for nodes.
LEMMA CallsOrdered ==
  ASSUME OrderInv, NEW t \in Threads, NEW n \in 1..MaxCount,
         NEW what \in Jobs \ {"none", "evaluate"}, Calls_executeParallel(t, n, what),
         what \in NodeJobs => \E m : InEvaluation(t, m),
         what \notin NodeJobs => stack[t] # <<>>,
         asked' = asked
  PROVE  Numbered' /\ NodeCallsMade'
<1>1. IInv /\ RInv /\ stack \in [Threads -> Seq(Frame)] /\ Numbered /\ job \in [Calls -> Jobs]
  BY DEF OrderInv, RInv, IInv, TypeOK, JobShape
<1>2. nCalls < MaxCalls
  BY <1>1, MadeCall
<1>3. PICK x \in Calls : x = nCalls + 1
  BY <1>1, <1>2, FreshCall
<1>4. /\ job' = [job EXCEPT ![x] = what]
      /\ \A y \in Calls \ {x} : call'[y] = call[y]
  BY <1>1, <1>3, MadeCall
<1>5. PICK f \in Frame : f.call = x /\ f.role # "exec" /\ stack' = Pushed(t, f)
  BY <1>1, <1>3, MadeCall
<1>6. PICK e \in Nat : e = EvaluationOf(t)
  <2>1. CASE stack[t] = <<>>
    BY <1>1, <2>1 DEF EvaluationOf, Numbered
  <2>2. CASE stack[t] # <<>>
    <3>1. Top(t).call \in Calls
      BY <1>1, <2>2, TopFrame
    <3> QED
      BY <1>1, <2>2, <3>1 DEF EvaluationOf, Numbered
  <2> QED
    BY <2>1, <2>2
<1>7. evaluation' = [evaluation EXCEPT ![x] = e] /\ Proceed(t)
  BY <1>3, <1>6 DEF Calls_executeParallel
<1>8. /\ evaluation' \in [Calls -> Nat] /\ evaluation'[x] = e /\ job'[x] = what
      /\ \A y \in Calls \ {x} : evaluation'[y] = evaluation[y] /\ job'[y] = job[y]
  BY <1>1, <1>4, <1>7 DEF Numbered
<1>9. /\ command' \in [evaluation : Nat, step : Nat]
      /\ command'.evaluation = command.evaluation
  BY <1>1, <1>7, ProceedKeeps
<1>10. Numbered'
  BY <1>1, <1>8, <1>9, NumberedKept
<1>11. PICK k \in Nat : k = Len(stack[t])
  BY <1>1
<1>12. /\ DOMAIN stack'[t] = 1..(k + 1) /\ DOMAIN stack[t] = 1..k
       /\ stack'[t][k + 1] = f
       /\ \A l \in DOMAIN stack[t] : stack'[t][l] = stack[t][l]
       /\ \A v \in Threads \ {t} : stack'[v] = stack[v]
  BY <1>1, <1>5, <1>11, PushFrame
<1>13. ASSUME NEW u \in Threads, NEW l \in DOMAIN stack[u]
       PROVE  stack[u][l].call \in Calls \ {x} /\ stack'[u][l] = stack[u][l] /\ l \in DOMAIN stack'[u]
  <2>1. stack[u][l].call \in Calls \ {x}
    BY <1>1, <1>2, <1>3, FreshCall
  <2> QED
    BY <1>11, <1>12, <2>1
<1> SUFFICES ASSUME NEW y \in Calls, NodeCall(y)'
             PROVE  \E u \in Threads, l \in Nat : WaitsIn(u, l, y)'
  BY <1>10 DEF NodeCallsMade
<1>14. CASE y = x
  <2>1. what \in NodeJobs
    BY <1>8, <1>14 DEF NodeCall
  <2>2. EvaluatesAt(t, k, e)
    BY <1>6, <1>11, <2>1, CodeOf
  <2>3. EvaluatesAt(t, k, e)'
    BY <1>8, <1>9, <1>13, <2>2 DEF EvaluatesAt
  <2>4. WaitsIn(t, k, y)'
    BY <1>5, <1>8, <1>12, <1>14, <2>3 DEF WaitsIn
  <2> QED
    BY <2>4
<1>15. CASE y # x
  <2>1. NodeCall(y)
    BY <1>4, <1>8, <1>15 DEF NodeCall
  <2>2. PICK u \in Threads, l \in Nat : WaitsIn(u, l, y)
    BY <2>1 DEF OrderInv, NodeCallsMade
  <2>3. l + 1 \in DOMAIN stack[u] /\ (l # 0 => l \in DOMAIN stack[u])
    BY <2>2 DEF WaitsIn, EvaluatesAt
  <2>4. WaitsIn(u, l, y)'
    BY <1>8, <1>9, <1>13, <1>15, <2>2, <2>3, WaitsKept
  <2> QED
    BY <2>4
<1> QED
  BY <1>14, <1>15

\* The command ends: nobody waits for it.
LEMMA CommandEnds ==
  ASSUME OrderInv, NEW t \in Threads, InEvaluation(t, 3), stack[t] = <<>>,
         UNCHANGED <<vars, job, evaluation, asked>>, command' = NoCommand
  PROVE  Numbered' /\ NodeCallsMade'
<1>1. /\ stack' = stack /\ call' = call /\ job' = job /\ evaluation' = evaluation
      /\ Numbered
  BY DEF vars, OrderInv
<1>2. command' \in [evaluation : Nat, step : Nat] /\ command'.evaluation = 0
  BY DEF NoCommand
<1>3. Numbered'
  BY <1>1, <1>2, NumberedKept DEF Numbered
<1> SUFFICES ASSUME NEW y \in Calls, NodeCall(y)'
             PROVE  \E u \in Threads, k \in Nat : WaitsIn(u, k, y)'
  BY <1>3 DEF NodeCallsMade
<1>4. NodeCall(y)
  BY <1>1 DEF NodeCall
<1>5. PICK u \in Threads, k \in Nat : WaitsIn(u, k, y)
  BY <1>4 DEF OrderInv, NodeCallsMade
<1>6. k # 0
  <2>1. evaluation[y] # EvaluationOf(t)
    BY <1>4, NoNodeCall
  <2>2. EvaluationOf(t) = command.evaluation
    BY DEF EvaluationOf
  <2> QED
    BY <1>5, <2>1, <2>2 DEF WaitsIn, EvaluatesAt
<1>7. WaitsIn(u, k, y)'
  BY <1>1, <1>5, <1>6 DEF WaitsIn, EvaluatesAt
<1> QED
  BY <1>7

LEMMA CallbackOrder ==
  ASSUME OrderInv, NEW t \in Threads, Callback(t)
  PROVE  Numbered' /\ NodeCallsMade'
<1>1. RInv /\ IInv /\ Numbered
  BY DEF OrderInv, RInv
<1>2. /\ Width \in 1..MaxCount /\ 1 \in 1..MaxCount /\ BatchCount(SliceCount, Cores) \in 1..MaxCount
      /\ "group" \in (Jobs \ {"none", "evaluate"}) \intersect NodeJobs
      /\ "dependent" \in (Jobs \ {"none", "evaluate"}) \intersect NodeJobs
      /\ "slices" \in (Jobs \ {"none", "evaluate"}) \ NodeJobs
  BY BatchCountBound DEF NodeJobs, Jobs
<1>3. CASE AcquireMutex(t) \/ BeginOperators(t)
  <2>1. Proceed(t) /\ UNCHANGED <<vars, job, evaluation, asked>>
    BY <1>3 DEF AcquireMutex, BeginOperators
  <2> QED
    BY <1>1, <2>1, ProceedKeeps, StillOrdered
<1>4. CASE ReleaseMutex(t)
  <2>1. InEvaluation(t, 3) /\ UNCHANGED <<vars, job, evaluation, asked>>
    BY <1>4 DEF ReleaseMutex
  <2>2. CASE stack[t] = <<>>
    <3>1. command' = NoCommand
      BY <1>4, <2>2 DEF ReleaseMutex
    <3> QED
      BY <2>1, <2>2, <3>1, CommandEnds
  <2>3. CASE stack[t] # <<>>
    <3>1. Proceed(t)
      BY <1>4, <2>3 DEF ReleaseMutex
    <3> QED
      BY <1>1, <2>1, <3>1, ProceedKeeps, StillOrdered
  <2> QED
    BY <2>2, <2>3
<1>5. CASE ExecuteGroup(t)
  <2>1. InEvaluation(t, 1) /\ Calls_executeParallel(t, Width, "group") /\ asked' = asked
    BY <1>5 DEF ExecuteGroup
  <2> QED
    BY <1>2, <2>1, CallsOrdered
<1>6. CASE ExecuteDependent(t)
  <2>1. InEvaluation(t, 2) /\ Calls_executeParallel(t, 1, "dependent") /\ asked' = asked
    BY <1>6 DEF ExecuteDependent
  <2> QED
    BY <1>2, <2>1, CallsOrdered
<1>7. CASE BeginSlices(t)
  <2>1. Calls_executeParallel(t, BatchCount(SliceCount, Cores), "slices") /\ asked' = asked
    BY <1>7 DEF BeginSlices
  <2>2. stack[t] # <<>>
    BY <1>7 DEF BeginSlices, InCallback
  <2> QED
    BY <1>2, <2>1, <2>2, CallsOrdered
<1>8. CASE EndEvaluation(t) \/ SkipClean(t) \/ EndSlice(t) \/ EndOperators(t)
  <2>1. PoolStep(t) /\ UNCHANGED <<job, evaluation, asked, command>>
    BY <1>8 DEF EndEvaluation, SkipClean, EndSlice, EndOperators, Return, PoolStep, context
  <2> QED
    BY <2>1, PoolStepOrdered
<1> QED
  BY <1>3, <1>4, <1>5, <1>6, <1>7, <1>8 DEF Callback

\* The client evaluates, now or on the pool: an evaluation nobody has heard of.
LEMMA EvaluateOrder ==
  ASSUME OrderInv, Evaluate
  PROVE  Numbered' /\ NodeCallsMade'
<1>1. Numbered /\ MainThread \in Threads
  BY ConstantsAssumption DEF OrderInv
<1>2. /\ stack' = stack /\ call' = call /\ job' = job /\ evaluation' = evaluation
      /\ stack[MainThread] = <<>>
  BY DEF Evaluate, Command, vars
<1>3. PICK e \in Nat : e = asked + 1
  BY <1>1 DEF Numbered
<1>4. asked' = e /\ command' = [evaluation |-> e, step |-> 1]
  BY <1>3 DEF Evaluate
<1>5. command' \in [evaluation : Nat, step : Nat] /\ command'.evaluation = e
  BY <1>4
<1>6. Numbered'
  BY <1>1, <1>2, <1>3, <1>4, <1>5 DEF Numbered, Evaluations
<1> SUFFICES ASSUME NEW y \in Calls, NodeCall(y)'
             PROVE  \E u \in Threads, k \in Nat : WaitsIn(u, k, y)'
  BY <1>6 DEF NodeCallsMade
<1>7. PICK u \in Threads, k \in Nat : WaitsIn(u, k, y)
  BY <1>2 DEF OrderInv, NodeCallsMade, NodeCall
<1>8. k # 0
  <2> SUFFICES ASSUME k = 0 PROVE FALSE
    OBVIOUS
  <2>1. u = MainThread /\ 1 \in DOMAIN stack[u]
    BY <1>7 DEF WaitsIn, EvaluatesAt
  <2>2. DOMAIN stack[u] = {}
    BY <1>2, <2>1
  <2> QED
    BY <2>1, <2>2
<1>9. WaitsIn(u, k, y)'
  BY <1>2, <1>7, <1>8 DEF WaitsIn, EvaluatesAt
<1> QED
  BY <1>9

LEMMA EvaluateAsyncOrder ==
  ASSUME OrderInv, EvaluateAsync
  PROVE  Numbered' /\ NodeCallsMade'
<1>1. /\ IInv /\ stack \in [Threads -> Seq(Frame)] /\ job \in [Calls -> Jobs]
      /\ call \in [Calls -> CallRecord] /\ Numbered
  BY DEF OrderInv, RInv, IInv, TypeOK, JobShape
<1>2. nCalls < MaxCalls
  BY DEF EvaluateAsync, ExecuteParallelAsync, NewCall
<1>3. PICK x \in Calls : x = nCalls + 1
  BY <1>1, <1>2, FreshCall
<1>4. PICK e \in Nat : e = asked + 1
  BY <1>1 DEF Numbered
<1>5. /\ job' = [job EXCEPT ![x] = "evaluate"] /\ evaluation' = [evaluation EXCEPT ![x] = e]
      /\ stack' = stack /\ command' = command /\ asked' = e
  BY <1>3, <1>4 DEF EvaluateAsync, ExecuteParallelAsync
<1>6. \A y \in Calls \ {x} : call'[y] = call[y]
  BY <1>1, <1>3 DEF EvaluateAsync, ExecuteParallelAsync, NewCall
<1>7. /\ job'[x] = "evaluate" /\ evaluation'[x] = e /\ evaluation' \in [Calls -> Nat]
      /\ \A y \in Calls \ {x} : job'[y] = job[y] /\ evaluation'[y] = evaluation[y]
  BY <1>1, <1>5 DEF Numbered
<1>8. Numbered'
  <2>1. ASSUME NEW y \in Calls, job'[y] = "evaluate", y # x
        PROVE  evaluation'[y] \in 1..asked /\ evaluation'[y] # command.evaluation
    BY <1>1, <1>7, <2>1 DEF Numbered, Evaluations
  <2>2. \A y \in Evaluations' :
          evaluation'[y] \in 1..asked' /\ evaluation'[y] # command'.evaluation
    BY <1>1, <1>4, <1>5, <1>7, <2>1 DEF Numbered, Evaluations
  <2>3. \A y, z \in Evaluations' : evaluation'[y] = evaluation'[z] => y = z
    BY <1>1, <1>4, <1>7, <2>1 DEF Numbered, Evaluations
  <2> QED
    BY <1>1, <1>4, <1>5, <1>7, <2>2, <2>3 DEF Numbered
<1> SUFFICES ASSUME NEW y \in Calls, NodeCall(y)'
             PROVE  \E u \in Threads, k \in Nat : WaitsIn(u, k, y)'
  BY <1>8 DEF NodeCallsMade
<1>9. y # x
  BY <1>7 DEF NodeCall, NodeJobs
<1>10. PICK u \in Threads, k \in Nat : WaitsIn(u, k, y)
  BY <1>6, <1>7, <1>9 DEF OrderInv, NodeCallsMade, NodeCall
<1>11. k + 1 \in DOMAIN stack[u] /\ (k # 0 => k \in DOMAIN stack[u])
  BY <1>10 DEF WaitsIn, EvaluatesAt
<1>12. k # 0 => stack[u][k].call \in Calls \ {x}
  BY <1>1, <1>2, <1>3, <1>11, FreshCall
<1>13. WaitsIn(u, k, y)'
  BY <1>5, <1>7, <1>9, <1>10, <1>11, <1>12, WaitsKept
<1> QED
  BY <1>13

LEMMA NextOrder ==
  ASSUME OrderInv, [AsyncNext]_asyncVars
  PROVE  Numbered' /\ NodeCallsMade'
<1>1. CASE Evaluate
  BY <1>1, EvaluateOrder
<1>2. CASE EvaluateAsync
  BY <1>2, EvaluateAsyncOrder
<1>3. CASE (\E n \in 0..(Width - 1) : SetData(n)) \/ UNCHANGED asyncVars
  <2>1. UNCHANGED <<vars, job, evaluation, asked>> /\ command' = command
    BY <1>3 DEF SetData, asyncVars, context
  <2> QED
    BY <2>1, StillOrdered DEF OrderInv, Numbered
<1>4. ASSUME NEW t \in Threads, Callback(t) PROVE Numbered' /\ NodeCallsMade'
  BY <1>4, CallbackOrder
<1>5. ASSUME NEW t \in Threads, Pool(t) PROVE Numbered' /\ NodeCallsMade'
  <2>1. PoolStep(t) /\ UNCHANGED <<job, evaluation, asked, command>>
    BY <1>5 DEF Pool, PoolStep, context
  <2> QED
    BY <2>1, PoolStepOrdered
<1> QED
  BY <1>1, <1>2, <1>3, <1>4, <1>5 DEF AsyncNext

LEMMA InitOrder == AsyncInit => Numbered /\ NodeCallsMade
BY DEF AsyncInit, NoCommand, Numbered, Evaluations, NodeCallsMade, NodeCall, NodeJobs

\* Each evaluation waits in the one call for nodes it has made.
THEOREM OrderInvariance == AsyncSpec => []OrderInv
<1>1. AsyncInit => JobShape /\ Numbered /\ NodeCallsMade
  BY InitOrder DEF AsyncInit, JobShape, Jobs
<1>2. RInv /\ RInv' /\ (JobShape /\ Numbered /\ NodeCallsMade) /\ [AsyncNext]_asyncVars
      => (JobShape /\ Numbered /\ NodeCallsMade)'
  BY NextOrder, NextJobShape DEF OrderInv, RInv
<1>3. OrderInv <=> RInv /\ (JobShape /\ Numbered /\ NodeCallsMade)
  BY DEF OrderInv
<1> QED
  BY <1>1, <1>2, <1>3, AsyncUsesPool, RefinementInvariance, PTL DEF AsyncSpec

\* Where the operators of node n run for evaluation e.
RunsAt(t, k, e, n) ==
  /\ stack[t][k].role \in {"exec", "inline"}
  /\ stack[t][k].call \in Calls /\ NodeCall(stack[t][k].call)
  /\ evaluation[stack[t][k].call] = e
  /\ stack[t][k].index = (IF n = Width THEN 0 ELSE n)
  /\ job[stack[t][k].call] = (IF n = Width THEN "dependent" ELSE "group")

LEMMA RunningFrame ==
  ASSUME OrderInv, NEW e, NEW n \in 0..Width, NEW f \in Running(e, n)
  PROVE  \E t \in Threads : \E k \in DOMAIN stack[t] : f = <<t, k>> /\ RunsAt(t, k, e, n)
<1>1. /\ stack \in [Threads -> Seq(Frame)] /\ FrameShape /\ JobShape /\ RInv
      /\ Width \in Nat
  BY BatchCountBound DEF OrderInv, RInv, IInv, TypeOK
<1>2. PICK t \in Threads : \E k \in DOMAIN stack[t] : f = <<t, k>>
  BY DEF Running, Frames
<1>3. PICK k \in DOMAIN stack[t] : f = <<t, k>>
  BY <1>2
<1>4. f[1] = t /\ f[2] = k
  BY <1>3
<1>5. /\ stack[t][k].role # "join"
      /\ evaluation[stack[t][k].call] = e
      /\ \/ job[stack[t][k].call] = "group" /\ stack[t][k].index = n
         \/ job[stack[t][k].call] = "dependent" /\ n = Width
  BY <1>4 DEF Running
<1>6. /\ stack[t][k].call \in Calls /\ stack[t][k].role \in {"exec", "inline"}
      /\ stack[t][k].index \in Nat
  BY <1>1, <1>5, FrameTyped DEF Frame
<1>7. stack[t][k].index < call[stack[t][k].call].count
  BY <1>1, <1>5, CallbackIndex
<1>8. NodeCall(stack[t][k].call)
  BY <1>1, <1>5 DEF FrameShape, NodeCall, NodeJobs
<1>9. CASE job[stack[t][k].call] = "group" /\ stack[t][k].index = n
  <2>1. call[stack[t][k].call].count = Width
    BY <1>1, <1>6, <1>9 DEF JobShape, CountOf
  <2>2. n # Width
    BY <1>1, <1>7, <1>9, <2>1
  <2> QED
    BY <1>3, <1>5, <1>6, <1>8, <1>9, <2>2 DEF RunsAt
<1>10. CASE job[stack[t][k].call] = "dependent" /\ n = Width
  <2>1. call[stack[t][k].call].count = 1
    BY <1>1, <1>6, <1>10 DEF JobShape, CountOf
  <2>2. stack[t][k].index = 0
    BY <1>6, <1>7, <2>1
  <2> QED
    BY <1>3, <1>5, <1>6, <1>8, <1>10, <2>2 DEF RunsAt
<1> QED
  BY <1>5, <1>9, <1>10

LEMMA DependentAlone ==
  ASSUME OrderInv, NEW e, NEW f \in Running(e, Width),
         NEW n \in 0..(Width - 1), NEW g \in Running(e, n)
  PROVE  FALSE
<1>1. Width \in 0..Width /\ n \in 0..Width /\ n # Width
  BY BatchCountBound
<1>2. PICK y \in Calls : NodeCall(y) /\ job[y] = "dependent" /\ evaluation[y] = e
  BY <1>1, RunningFrame DEF RunsAt
<1>3. PICK z \in Calls : NodeCall(z) /\ job[z] = "group" /\ evaluation[z] = e
  BY <1>1, RunningFrame DEF RunsAt
<1> QED
  BY <1>2, <1>3, OneNodeCall

LEMMA RunsOnce ==
  ASSUME OrderInv, NEW e, NEW n \in 0..Width, NEW f \in Running(e, n), NEW g \in Running(e, n)
  PROVE  f = g
<1>1. PICK t \in Threads : \E k \in DOMAIN stack[t] : f = <<t, k>> /\ RunsAt(t, k, e, n)
  BY RunningFrame
<1>2. PICK k \in DOMAIN stack[t] : f = <<t, k>> /\ RunsAt(t, k, e, n)
  BY <1>1
<1>3. PICK u \in Threads : \E l \in DOMAIN stack[u] : g = <<u, l>> /\ RunsAt(u, l, e, n)
  BY RunningFrame
<1>4. PICK l \in DOMAIN stack[u] : g = <<u, l>> /\ RunsAt(u, l, e, n)
  BY <1>3
<1>5. stack[t][k].call = stack[u][l].call /\ stack[t][k].index = stack[u][l].index
  BY <1>2, <1>4, OneNodeCall DEF RunsAt
<1>6. FrameShape /\ SingleFrames /\ IndexShape
  BY DEF OrderInv, RInv, IInv
<1>7. t = u /\ k = l
  <2>1. CASE stack[t][k].role = "exec" /\ stack[u][l].role = "exec"
    BY <1>5, <1>6, <2>1 DEF IndexShape
  <2>2. CASE stack[t][k].role = "inline" /\ stack[u][l].role = "inline"
    BY <1>5, <1>6, <2>2 DEF SingleFrames
  <2>3. ~(stack[t][k].role # stack[u][l].role)
    BY <1>2, <1>4, <1>5, <1>6 DEF FrameShape, HasTask, RunsAt
  <2> QED
    BY <1>2, <1>4, <2>1, <2>2, <2>3 DEF RunsAt
<1> QED
  BY <1>2, <1>4, <1>7

\* Within an evaluation the operators of the node run after all those of its
\* dependencies have ended, and those of each node once at a time: for any number
\* of threads, dependencies, and evaluations at a time.
THEOREM EvaluationOrderedHolds == AsyncSpec => []EvaluationOrdered
<1>1. OrderInv => EvaluationOrdered
  BY DependentAlone, RunsOnce DEF EvaluationOrdered
<1> QED
  BY <1>1, OrderInvariance, PTL
=============================================================================
