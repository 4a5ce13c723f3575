------------------------ MODULE ThreadPoolRefinement ------------------------
(***************************************************************************)
(* ThreadPool implements ParallelCalls, for any set of threads, any number  *)
(* of calls and any count.  To IInv the proof adds IndexShape, which tells  *)
(* the callbacks of one task apart.  A lemma about BusyWith says what each  *)
(* way of changing the stacks does to the indices that have begun and not   *)
(* ended; one lemma per action then finds the step of ParallelCalls, or the *)
(* stutter, that the action maps to.                                        *)
(***************************************************************************)
EXTENDS ThreadPoolProofs

\* Entering a callback makes its call busy with its index; entering
\* executeParallel makes no call busy.
LEMMA BusyPush ==
  ASSUME stack \in [Threads -> Seq(Frame)],
         NEW t \in Threads, NEW f \in Frame, stack' = Pushed(t, f),
         pc[t] # "post", pc'[t] # "post",
         \A u \in Threads \ {t} : pc'[u] = "post" <=> pc[u] = "post",
         NEW x, NEW i
  PROVE  BusyWith(x, i)' <=> \/ BusyWith(x, i)
                             \/ f.role # "join" /\ f.call = x /\ f.index = i
<1>1. /\ Len(stack[t]) \in Nat
      /\ DOMAIN stack'[t] = 1..(Len(stack[t]) + 1)
      /\ stack'[t][Len(stack[t]) + 1] = f
      /\ \A k \in DOMAIN stack[t] : k \in DOMAIN stack'[t] /\ stack'[t][k] = stack[t][k]
      /\ \A u \in Threads \ {t} : stack'[u] = stack[u]
      /\ \A u \in Threads : \A k \in DOMAIN stack'[u] :
           \/ u = t /\ k = Len(stack[t]) + 1 /\ stack'[u][k] = f
           \/ k \in DOMAIN stack[u] /\ stack'[u][k] = stack[u][k]
  BY PushFrame
<1>2. ASSUME BusyWith(x, i)'
      PROVE  \/ BusyWith(x, i)
             \/ f.role # "join" /\ f.call = x /\ f.index = i
  <2>1. PICK u \in Threads : \E k \in DOMAIN stack'[u] :
          /\ stack'[u][k].role # "join"
          /\ k = Len(stack'[u]) => pc'[u] # "post"
          /\ stack'[u][k].call = x /\ stack'[u][k].index = i
    BY <1>2 DEF BusyWith, Inside
  <2>2. PICK k \in DOMAIN stack'[u] :
          /\ stack'[u][k].role # "join"
          /\ k = Len(stack'[u]) => pc'[u] # "post"
          /\ stack'[u][k].call = x /\ stack'[u][k].index = i
    BY <2>1
  <2>3. CASE k \in DOMAIN stack[u] /\ stack'[u][k] = stack[u][k]
    <3>1. k = Len(stack[u]) => pc[u] # "post"
      BY <1>1, <2>2
    <3> QED
      BY <2>2, <2>3, <3>1 DEF BusyWith, Inside
  <2>4. CASE stack'[u][k] = f
    BY <2>2, <2>4
  <2> QED
    BY <1>1, <2>2, <2>3, <2>4
<1>3. ASSUME BusyWith(x, i) PROVE BusyWith(x, i)'
  <2>1. PICK u \in Threads : \E k \in DOMAIN stack[u] :
          /\ stack[u][k].role # "join"
          /\ k = Len(stack[u]) => pc[u] # "post"
          /\ stack[u][k].call = x /\ stack[u][k].index = i
    BY <1>3 DEF BusyWith, Inside
  <2>2. PICK k \in DOMAIN stack[u] :
          /\ stack[u][k].role # "join"
          /\ k = Len(stack[u]) => pc[u] # "post"
          /\ stack[u][k].call = x /\ stack[u][k].index = i
    BY <2>1
  <2>3. k \in DOMAIN stack'[u] /\ stack'[u][k] = stack[u][k]
    BY <1>1, <2>2
  <2>4. k = Len(stack'[u]) => pc'[u] # "post"
    BY <1>1, <2>2
  <2> QED
    BY <2>2, <2>3, <2>4 DEF BusyWith, Inside
<1>4. ASSUME f.role # "join" /\ f.call = x /\ f.index = i PROVE BusyWith(x, i)'
  <2>1. Len(stack[t]) + 1 \in DOMAIN stack'[t]
    BY <1>1
  <2> QED
    BY <1>1, <1>4, <2>1 DEF BusyWith, Inside
<1> QED
  BY <1>2, <1>3, <1>4

\* Leaving the innermost frame ends its index only.
LEMMA BusyPop ==
  ASSUME stack \in [Threads -> Seq(Frame)],
         NEW t \in Threads, stack[t] # <<>>, stack' = Popped(t),
         pc'[t] # "post",
         \A u \in Threads \ {t} : pc'[u] = "post" <=> pc[u] = "post",
         NEW x, NEW i
  PROVE  BusyWith(x, i)' <=>
           \E u \in Threads : \E k \in DOMAIN stack[u] :
             /\ Inside(u, k) /\ stack[u][k].call = x /\ stack[u][k].index = i
             /\ ~(u = t /\ k = Len(stack[t]))
<1> DEFINE n == Len(stack[t])
<1>1. /\ n \in Nat \ {0}
      /\ DOMAIN stack[t] = 1..n
      /\ DOMAIN stack'[t] = 1..(n - 1)
      /\ \A k \in DOMAIN stack'[t] : stack'[t][k] = stack[t][k]
      /\ \A u \in Threads \ {t} : stack'[u] = stack[u]
      /\ \A u \in Threads : \A k \in DOMAIN stack'[u] :
           /\ k \in DOMAIN stack[u] /\ stack'[u][k] = stack[u][k]
           /\ u = t => k < n
  BY PopFrame
<1> HIDE DEF n
<1>2. ASSUME BusyWith(x, i)'
      PROVE  \E u \in Threads : \E k \in DOMAIN stack[u] :
               /\ Inside(u, k) /\ stack[u][k].call = x /\ stack[u][k].index = i
               /\ ~(u = t /\ k = n)
  <2>1. PICK u \in Threads : \E k \in DOMAIN stack'[u] :
          /\ stack'[u][k].role # "join"
          /\ k = Len(stack'[u]) => pc'[u] # "post"
          /\ stack'[u][k].call = x /\ stack'[u][k].index = i
    BY <1>2 DEF BusyWith, Inside
  <2>2. PICK k \in DOMAIN stack'[u] :
          /\ stack'[u][k].role # "join"
          /\ k = Len(stack'[u]) => pc'[u] # "post"
          /\ stack'[u][k].call = x /\ stack'[u][k].index = i
    BY <2>1
  <2>3. k \in DOMAIN stack[u] /\ stack'[u][k] = stack[u][k] /\ (u = t => k < n)
    BY <1>1, <2>2
  <2>4. ~(u = t /\ k = n)
    BY <1>1, <2>3
  <2>5. k = Len(stack[u]) => pc[u] # "post"
    BY <1>1, <2>2, <2>3, <2>4 DEF n
  <2> QED
    BY <2>2, <2>3, <2>4, <2>5 DEF Inside
<1>3. ASSUME NEW u \in Threads, NEW k \in DOMAIN stack[u],
             Inside(u, k), stack[u][k].call = x, stack[u][k].index = i,
             ~(u = t /\ k = n)
      PROVE  BusyWith(x, i)'
  <2>1. k \in DOMAIN stack'[u] /\ stack'[u][k] = stack[u][k]
    BY <1>1, <1>3
  <2>2. k = Len(stack'[u]) => pc'[u] # "post"
    BY <1>1, <1>3 DEF Inside
  <2> QED
    BY <1>3, <2>1, <2>2 DEF BusyWith, Inside
<1> QED
  BY <1>2, <1>3 DEF n

\* Leaving a frame that was not inside a callback any more ends nothing.
LEMMA BusyPopQuiet ==
  ASSUME stack \in [Threads -> Seq(Frame)],
         NEW t \in Threads, stack[t] # <<>>, stack' = Popped(t),
         pc'[t] # "post",
         \A u \in Threads \ {t} : pc'[u] = "post" <=> pc[u] = "post",
         Top(t).role = "join" \/ pc[t] = "post",
         NEW x, NEW i
  PROVE  BusyWith(x, i)' <=> BusyWith(x, i)
<1>1. ~Inside(t, Len(stack[t]))
  BY DEF Inside, Top
<1>2. BusyWith(x, i)' <=>
           \E u \in Threads : \E k \in DOMAIN stack[u] :
             /\ Inside(u, k) /\ stack[u][k].call = x /\ stack[u][k].index = i
             /\ ~(u = t /\ k = Len(stack[t]))
  BY BusyPop
<1> QED
  BY <1>1, <1>2 DEF BusyWith

\* So does any change of pc that no thread inside a callback makes.
LEMMA BusyKept ==
  ASSUME stack' = stack,
         \A u \in Threads : pc'[u] = "post" <=> pc[u] = "post",
         NEW x, NEW i
  PROVE  BusyWith(x, i)' <=> BusyWith(x, i)
BY DEF BusyWith, Inside
-----------------------------------------------------------------------------
\* A step that enters no callback and leaves the counters of the calls alone.
LEMMA IndexKept ==
  ASSUME IInv, IndexShape,
         \A u \in Threads : \A k \in DOMAIN stack'[u] :
           k \in DOMAIN stack[u] /\ stack'[u][k] = stack[u][k],
         \A x \in Calls : /\ call'[x].kind = call[x].kind
                          /\ call'[x].count = call[x].count
                          /\ call'[x].nextIndex = call[x].nextIndex
  PROVE  IndexShape'
<1>1. \A u \in Threads : \A k \in DOMAIN stack[u] : stack[u][k].call \in Calls
  BY FrameTyped DEF IInv, TypeOK
<1> QED
  BY <1>1 DEF IndexShape

\* A step that makes the call nCalls + 1, and may enter it.
LEMMA IndexNewCall ==
  ASSUME IInv, IndexShape, nCalls < MaxCalls,
         NEW r, call' = [call EXCEPT ![nCalls + 1] = r],
         r.kind = "inline" => r.count = 1 /\ r.nextIndex = 1,
         r.kind # "none",
         NEW t \in Threads, NEW f \in Frame, f.role # "exec", f.index = 0,
         stack' = stack \/ stack' = Pushed(t, f)
  PROVE  IndexShape'
<1> DEFINE x == nCalls + 1
<1>1. /\ x \in Calls
      /\ \A u \in Threads : \A k \in DOMAIN stack[u] :
           stack[u][k].call \in Calls /\ stack[u][k].call # x
  BY FreshCall
<1>2. /\ call'[x] = r
      /\ \A y \in Calls \ {x} : call'[y] = call[y]
  BY <1>1 DEF IInv, TypeOK
<1>3. \A u \in Threads : \A k \in DOMAIN stack'[u] :
        \/ stack'[u][k].role # "exec" /\ stack'[u][k].index = 0
        \/ k \in DOMAIN stack[u] /\ stack'[u][k] = stack[u][k]
  <2>1. CASE stack' = stack
    BY <2>1
  <2>2. CASE stack' = Pushed(t, f)
    BY <2>2, PushFrame DEF IInv, TypeOK
  <2> QED
    BY <2>1, <2>2
<1> HIDE DEF x
<1>4. \A u \in Threads : \A k \in DOMAIN stack'[u] :
        LET frame == stack'[u][k]
        IN  /\ frame.role = "exec" => frame.index < call'[frame.call].nextIndex
            /\ frame.role = "inline" => frame.index = 0
  BY <1>1, <1>2, <1>3 DEF IndexShape
<1>5. \A u, v \in Threads : \A k \in DOMAIN stack'[u] : \A l \in DOMAIN stack'[v] :
        /\ stack'[u][k].role = "exec"
        /\ stack'[v][l].role = "exec"
        /\ stack'[u][k].call = stack'[v][l].call
        /\ stack'[u][k].index = stack'[v][l].index
        => u = v /\ k = l
  BY <1>3 DEF IndexShape
<1>6. \A y \in Calls :
        /\ call'[y].kind = "inline" => call'[y].count = 1 /\ call'[y].nextIndex = 1
        /\ call'[y].kind = "none" => call'[y].count = 0
  BY <1>2 DEF IndexShape
<1> QED
  BY <1>4, <1>5, <1>6 DEF IndexShape

\* What a thread does when it takes an index.
LEMMA TakeFacts ==
  ASSUME IInv, NEW t \in Threads, Take(t)
  PROVE  \E x \in Calls, i \in Indices :
           /\ i = call[x].nextIndex /\ i < call[x].count
           /\ HasTask(x) /\ call[x].alive
           /\ call' = [call EXCEPT ![x].nextIndex = i + 1]
           /\ stack' = Pushed(t, [role |-> "exec", call |-> x, index |-> i])
           /\ runs' = [runs EXCEPT ![x][i] = @ + 1]
           /\ pc[t] = "crit" /\ pc' = [pc EXCEPT ![t] = "user"]
<1>1. PICK q \in Queues : q = Preferred(t) /\ q \in Available(t)
  <2>1. Available(t) # {} /\ Available(t) \subseteq {"main", "normal", "idle"}
    BY DEF Take, Available, Queues
  <2>2. Preferred(t) \in Available(t)
    BY <2>1 DEF Preferred
  <2> QED
    BY <2>2, Zenon DEF Available
<1>2. queue \in [Queues -> Seq(Calls)] /\ call \in [Calls -> CallRecord]
  BY DEF IInv, TypeOK
<1>3. queue[q] # <<>> /\ Len(queue[q]) \in DOMAIN queue[q]
  BY <1>1, <1>2 DEF Available
<1>4. PICK x \in Calls : x = queue[q][Len(queue[q])]
  <2>1. queue[q][Len(queue[q])] \in Calls
    BY <1>2, <1>3
  <2> QED
    BY <2>1, Zenon
<1>5. /\ HasTask(x) /\ call[x].alive
      /\ call[x].nextIndex < call[x].count
      /\ call[x].nextIndex \in Indices
  BY <1>3, <1>4, QueuedTask
<1>6. PICK i \in Indices : i = call[x].nextIndex
  BY <1>5, Zenon
<1>7. /\ call' = [call EXCEPT ![x].nextIndex = i + 1]
      /\ stack' = Pushed(t, [role |-> "exec", call |-> x, index |-> i])
      /\ runs' = [runs EXCEPT ![x][i] = @ + 1]
      /\ pc[t] = "crit" /\ pc' = [pc EXCEPT ![t] = "user"]
  BY <1>1, <1>4, <1>6 DEF Take, PreExecute, LoopsOn
<1> QED
  BY <1>5, <1>6, <1>7

\* The index that is taken is the next one: nobody is inside it.
LEMMA IndexTake ==
  ASSUME IInv, IndexShape, NEW t \in Threads, Take(t)
  PROVE  IndexShape'
<1>1. PICK x \in Calls, i \in Indices :
        /\ i = call[x].nextIndex
        /\ HasTask(x)
        /\ call' = [call EXCEPT ![x].nextIndex = i + 1]
        /\ stack' = Pushed(t, [role |-> "exec", call |-> x, index |-> i])
  BY TakeFacts
<1> DEFINE f == [role |-> "exec", call |-> x, index |-> i]
           n == Len(stack[t])
<1>2. /\ i \in Nat /\ f \in Frame
      /\ f.role = "exec" /\ f.call = x /\ f.index = i
      /\ stack \in [Threads -> Seq(Frame)] /\ call \in [Calls -> CallRecord]
  <2>1. i \in Nat
    BY ConstantsAssumption DEF Indices
  <2> QED
    BY <2>1 DEF Frame, IInv, TypeOK
<1>3. /\ call'[x].nextIndex = i + 1 /\ call'[x].kind = call[x].kind
      /\ call'[x].count = call[x].count
      /\ \A y \in Calls \ {x} : call'[y] = call[y]
  BY <1>1, <1>2 DEF CallRecord
<1>4. \A u \in Threads : \A k \in DOMAIN stack'[u] :
        \/ u = t /\ k = n + 1 /\ stack'[u][k] = f
        \/ k \in DOMAIN stack[u] /\ stack'[u][k] = stack[u][k]
  BY <1>1, <1>2, PushFrame
<1>5. \A u \in Threads : \A k \in DOMAIN stack[u] :
        stack[u][k].call \in Calls /\ stack[u][k].index \in Nat
  BY <1>2, FrameTyped DEF Frame
<1> HIDE DEF f, n
<1>6. \A u \in Threads : \A k \in DOMAIN stack[u] :
        stack[u][k].role = "exec" /\ stack[u][k].call = x => stack[u][k].index < i
  BY <1>1 DEF IndexShape
<1>7. \A u \in Threads : \A k \in DOMAIN stack'[u] :
        LET frame == stack'[u][k]
        IN  /\ frame.role = "exec" => frame.index < call'[frame.call].nextIndex
            /\ frame.role = "inline" => frame.index = 0
  <2> SUFFICES ASSUME NEW u \in Threads, NEW k \in DOMAIN stack'[u]
               PROVE  /\ stack'[u][k].role = "exec" =>
                           stack'[u][k].index < call'[stack'[u][k].call].nextIndex
                      /\ stack'[u][k].role = "inline" => stack'[u][k].index = 0
    OBVIOUS
  <2>1. CASE stack'[u][k] = f
    BY <1>2, <1>3, <2>1
  <2>2. CASE k \in DOMAIN stack[u] /\ stack'[u][k] = stack[u][k]
    <3>1. CASE stack[u][k].call = x
      BY <1>2, <1>3, <1>5, <1>6, <2>2, <3>1 DEF IndexShape
    <3>2. CASE stack[u][k].call # x
      BY <1>3, <1>5, <2>2, <3>2 DEF IndexShape
    <3> QED
      BY <3>1, <3>2
  <2> QED
    BY <1>4, <2>1, <2>2
<1>8. \A u, v \in Threads : \A k \in DOMAIN stack'[u] : \A l \in DOMAIN stack'[v] :
        /\ stack'[u][k].role = "exec"
        /\ stack'[v][l].role = "exec"
        /\ stack'[u][k].call = stack'[v][l].call
        /\ stack'[u][k].index = stack'[v][l].index
        => u = v /\ k = l
  <2> SUFFICES ASSUME NEW u \in Threads, NEW v \in Threads,
                      NEW k \in DOMAIN stack'[u], NEW l \in DOMAIN stack'[v],
                      stack'[u][k].role = "exec", stack'[v][l].role = "exec",
                      stack'[u][k].call = stack'[v][l].call,
                      stack'[u][k].index = stack'[v][l].index
               PROVE  u = v /\ k = l
    OBVIOUS
  <2>1. ASSUME NEW w \in Threads, NEW m \in DOMAIN stack[w],
               stack[w][m].role = "exec", stack[w][m].call = x, stack[w][m].index = i
        PROVE  FALSE
    BY <1>2, <1>6, <2>1
  <2> QED
    BY <1>2, <1>4, <2>1 DEF IndexShape
<1>9. \A y \in Calls :
        /\ call'[y].kind = "inline" => call'[y].count = 1 /\ call'[y].nextIndex = 1
        /\ call'[y].kind = "none" => call'[y].count = 0
  BY <1>1, <1>3 DEF IndexShape, HasTask
<1> QED
  BY <1>7, <1>8, <1>9 DEF IndexShape

LEMMA InitIndexShape == Init => IndexShape
BY DEF Init, IndexShape

\* A callback that is accounted for keeps the indices of its task.
LEMMA PostExecuteKeeps ==
  ASSUME IInv, NEW t \in Threads, PostExecute(t)
  PROVE  \A x \in Calls : /\ call'[x].kind = call[x].kind
                          /\ call'[x].count = call[x].count
                          /\ call'[x].nextIndex = call[x].nextIndex
<1>1. PICK y : y = Top(t).call
  OBVIOUS
<1>2. PICK alive, done : call' = [call EXCEPT ![y].completedCount = done, ![y].alive = alive]
  BY <1>1 DEF PostExecute
<1>3. call \in [Calls -> CallRecord]
  BY DEF IInv, TypeOK
<1> QED
  BY <1>2, <1>3 DEF CallRecord

LEMMA DisposedKeeps ==
  ASSUME call \in [Calls -> CallRecord], NEW y \in Calls, call' = Disposed(y)
  PROVE  /\ \A x \in Calls : /\ call'[x].kind = call[x].kind
                             /\ call'[x].count = call[x].count
                             /\ call'[x].nextIndex = call[x].nextIndex
         /\ ~call'[y].alive
         /\ \A x \in Calls \ {y} : call'[x] = call[x]
BY DEF Disposed, CallRecord

\* The innermost frame of a thread inside a call.
LEMMA TopFrame ==
  ASSUME IInv, NEW t \in Threads, stack[t] # <<>>
  PROVE  /\ Len(stack[t]) \in DOMAIN stack[t]
         /\ Top(t) = stack[t][Len(stack[t])]
         /\ Top(t).call \in Calls
         /\ Top(t).index \in Nat
         /\ call[Top(t).call].alive
<1>1. Len(stack[t]) \in DOMAIN stack[t]
  BY DEF IInv, TypeOK
<1>2. Top(t) = stack[t][Len(stack[t])]
  BY DEF Top
<1>3. stack[t][Len(stack[t])] \in Frame
  BY <1>1, FrameTyped DEF IInv, TypeOK
<1> QED
  BY <1>1, <1>2, <1>3 DEF Frame, IInv, FrameShape

LEMMA PoolStepIndexShape ==
  ASSUME IInv, IndexShape, NEW t \in Threads, PoolStep(t)
  PROVE  IndexShape'
<1>0. /\ call \in [Calls -> CallRecord] /\ stack \in [Threads -> Seq(Frame)]
      /\ call' = call /\ stack' = stack => IndexShape'
  BY IndexKept DEF IInv, TypeOK
<1>1. CASE WorkerExit(t)
  BY <1>0, <1>1 DEF WorkerExit
<1>2. CASE JoinReturn(t)
  <2>1. /\ stack[t] # <<>> /\ stack' = Popped(t) /\ call' = Disposed(Top(t).call)
        /\ Top(t).call \in Calls
    BY <1>2, TopFrame DEF JoinReturn, TopIs
  <2>2. \A u \in Threads : \A k \in DOMAIN stack'[u] :
          k \in DOMAIN stack[u] /\ stack'[u][k] = stack[u][k]
    BY <1>0, <2>1, PopFrame
  <2> QED
    BY <1>0, <2>1, <2>2, DisposedKeeps, IndexKept
<1>3. CASE Sleep(t)
  BY <1>0, <1>3 DEF Sleep
<1>4. CASE Take(t)
  BY <1>4, IndexTake
<1>5. CASE ReturnExec(t)
  BY <1>0, <1>5 DEF ReturnExec
<1>6. CASE ReturnInline(t)
  <2>1. /\ stack[t] # <<>> /\ stack' = Popped(t) /\ call' = Disposed(Top(t).call)
        /\ Top(t).call \in Calls
    BY <1>6, TopFrame DEF ReturnInline, TopIs
  <2>2. \A u \in Threads : \A k \in DOMAIN stack'[u] :
          k \in DOMAIN stack[u] /\ stack'[u][k] = stack[u][k]
    BY <1>0, <2>1, PopFrame
  <2> QED
    BY <1>0, <2>1, <2>2, DisposedKeeps, IndexKept
<1>7. CASE PostExecute(t)
  <2>1. stack[t] # <<>> /\ stack' = Popped(t)
    BY <1>7 DEF PostExecute, IInv, ThreadShape, TopIs
  <2>2. \A u \in Threads : \A k \in DOMAIN stack'[u] :
          k \in DOMAIN stack[u] /\ stack'[u][k] = stack[u][k]
    BY <1>0, <2>1, PopFrame
  <2> QED
    BY <1>7, <2>2, PostExecuteKeeps, IndexKept
<1>8. CASE Reacquire(t)
  BY <1>0, <1>8 DEF Reacquire
<1> QED
  BY <1>1, <1>2, <1>3, <1>4, <1>5, <1>6, <1>7, <1>8 DEF PoolStep

\* The call with the record r is made, and entered with the frame f.
MakesCall(t, r, f) ==
  /\ nCalls < MaxCalls
  /\ call' = [call EXCEPT ![nCalls + 1] = r]
  /\ r.kind # "none"
  /\ r.kind = "inline" => r.count = 1 /\ r.nextIndex = 1
  /\ f \in Frame /\ f.role # "exec" /\ f.index = 0
  /\ stack' = stack \/ stack' = Pushed(t, f)

LEMMA SubmitIndexShape ==
  ASSUME IInv, IndexShape, NEW t \in Threads, Submit(t)
  PROVE  IndexShape'
<1> DEFINE record(kind, flag, n, next, alive) ==
             [kind |-> kind, flag |-> flag, count |-> n,
              nextIndex |-> next, completedCount |-> 0, alive |-> alive]
           frame(role) == [role |-> role, call |-> nCalls + 1, index |-> 0]
<1>1. PICK flag \in Flags :
        \/ ExecuteParallelInline(t, flag)
        \/ \E n \in 1..MaxCount : ExecuteParallel(t, n, flag)
        \/ \E n \in 1..MaxCount : ExecuteParallelAsync(t, n, flag)
        \/ ExecuteParallelAsyncEmpty(t, flag)
  BY DEF Submit
<1>2. nCalls < MaxCalls => frame("inline") \in Frame /\ frame("join") \in Frame
  BY ConstantsAssumption DEF Calls, IInv, TypeOK, Frame
<1>3. \E r, f : MakesCall(t, r, f)
  <2>1. CASE ExecuteParallelInline(t, flag)
    <3>1. MakesCall(t, record("inline", flag, 1, 1, TRUE), frame("inline"))
      BY <1>2, <2>1 DEF ExecuteParallelInline, NewCall, MakesCall
    <3> QED
      BY <3>1
  <2>2. ASSUME NEW n \in 1..MaxCount, ExecuteParallel(t, n, flag)
        PROVE  \E r, f : MakesCall(t, r, f)
    <3>1. MakesCall(t, record("sync", flag, n, 0, TRUE), frame("join"))
      BY <1>2, <2>2 DEF ExecuteParallel, NewCall, MakesCall
    <3> QED
      BY <3>1
  <2>3. ASSUME NEW n \in 1..MaxCount, ExecuteParallelAsync(t, n, flag)
        PROVE  \E r, f : MakesCall(t, r, f)
    <3>1. MakesCall(t, record("async", flag, n, 0, TRUE), frame("join"))
      BY <1>2, <2>3 DEF ExecuteParallelAsync, NewCall, MakesCall
    <3> QED
      BY <3>1
  <2>4. CASE ExecuteParallelAsyncEmpty(t, flag)
    <3>1. MakesCall(t, record("async", flag, 0, 0, FALSE), frame("join"))
      BY <1>2, <2>4 DEF ExecuteParallelAsyncEmpty, NewCall, MakesCall
    <3> QED
      BY <3>1
  <2> QED
    BY <1>1, <2>1, <2>2, <2>3, <2>4
<1> QED
  BY <1>3, IndexNewCall DEF MakesCall

LEMMA NextRInv == RInv /\ [Next]_vars => RInv'
<1> SUFFICES ASSUME RInv, [Next]_vars PROVE RInv'
  OBVIOUS
<1>1. IInv'
  BY NextIInv DEF RInv
<1>2. CASE call' = call /\ stack' = stack
  BY <1>1, <1>2, IndexKept DEF RInv, IndexShape
<1>3. ASSUME NEW t \in Threads, PoolStep(t) \/ Submit(t) PROVE RInv'
  BY <1>1, <1>3, PoolStepIndexShape, SubmitIndexShape DEF RInv
<1>4. CASE \/ \E t \in Threads : SpuriousWakeup(t)
           \/ Terminate \/ Terminated \/ UNCHANGED vars
  BY <1>2, <1>4 DEF SpuriousWakeup, Terminate, Terminated, vars
<1> QED
  BY <1>3, <1>4 DEF Next

\* In every reachable state, moreover, no two threads are inside the same index
\* of a task.
THEOREM RefinementInvariance == Spec => []RInv
<1>1. Init => RInv
  BY InitIInv, InitIndexShape DEF RInv
<1> QED
  BY <1>1, NextRInv, PTL DEF Spec
-----------------------------------------------------------------------------
\* The four images of call y are the ones they were.
ImagesKept(y) ==
  /\ Phase(y)' = Phase(y)
  /\ call'[y].count = call[y].count
  /\ Begun(y)' = Begun(y)
  /\ Ended(y)' = Ended(y)

LEMMA BegunExact ==
  ASSUME IInv, NEW x \in Calls
  PROVE  \A i : i \in Begun(x) <=> i \in Indices /\ i < call[x].nextIndex
BY DEF Begun, IInv, EachIndexOnce

LEMMA CallKept ==
  ASSUME NEW y \in Calls,
         /\ call'[y].kind = call[y].kind
         /\ call'[y].alive <=> call[y].alive
         /\ call'[y].count = call[y].count,
         runs'[y] = runs[y],
         \A i : BusyWith(y, i)' <=> BusyWith(y, i)
  PROVE  ImagesKept(y)
<1>1. Phase(y)' = Phase(y)
  BY DEF Phase
<1>2. Begun(y)' = Begun(y)
  BY DEF Begun
<1>3. Ended(y)' = Ended(y)
  BY <1>2 DEF Ended
<1> QED
  BY <1>1, <1>2, <1>3 DEF ImagesKept

LEMMA AllKept ==
  ASSUME \A y \in Calls : ImagesKept(y)
  PROVE  UNCHANGED Abstract!vars
<1>1. phases' = phases
  BY DEF phases, ImagesKept
<1>2. counts' = counts
  BY DEF counts, ImagesKept
<1>3. begunSets' = begunSets
  BY DEF begunSets, ImagesKept
<1>4. endedSets' = endedSets
  BY DEF endedSets, ImagesKept
<1> QED
  BY <1>1, <1>2, <1>3, <1>4 DEF Abstract!vars

LEMMA OneChanged ==
  ASSUME NEW x \in Calls, \A y \in Calls \ {x} : ImagesKept(y)
  PROVE  /\ phases' = [phases EXCEPT ![x] = Phase(x)']
         /\ counts' = [counts EXCEPT ![x] = call'[x].count]
         /\ begunSets' = [begunSets EXCEPT ![x] = Begun(x)']
         /\ endedSets' = [endedSets EXCEPT ![x] = Ended(x)']
         /\ phases[x] = Phase(x) /\ counts[x] = call[x].count
         /\ begunSets[x] = Begun(x) /\ endedSets[x] = Ended(x)
         /\ Phase(x)' = Phase(x) => phases' = phases
         /\ call'[x].count = call[x].count => counts' = counts
         /\ Begun(x)' = Begun(x) => begunSets' = begunSets
         /\ Ended(x)' = Ended(x) => endedSets' = endedSets
<1>1. /\ phases' = [phases EXCEPT ![x] = Phase(x)']
      /\ phases[x] = Phase(x)
      /\ Phase(x)' = Phase(x) => phases' = phases
  BY DEF phases, ImagesKept
<1>2. /\ counts' = [counts EXCEPT ![x] = call'[x].count]
      /\ counts[x] = call[x].count
      /\ call'[x].count = call[x].count => counts' = counts
  BY DEF counts, ImagesKept
<1>3. /\ begunSets' = [begunSets EXCEPT ![x] = Begun(x)']
      /\ begunSets[x] = Begun(x)
      /\ Begun(x)' = Begun(x) => begunSets' = begunSets
  BY DEF begunSets, ImagesKept
<1>4. /\ endedSets' = [endedSets EXCEPT ![x] = Ended(x)']
      /\ endedSets[x] = Ended(x)
      /\ Ended(x)' = Ended(x) => endedSets' = endedSets
  BY DEF endedSets, ImagesKept
<1> QED
  BY <1>1, <1>2, <1>3, <1>4

\* A step that changes no stack, no call and no count of runs, and lets no
\* callback return, maps to a stutter.
LEMMA QuietRefines ==
  ASSUME call' = call, stack' = stack, runs' = runs,
         \A u \in Threads : pc'[u] = "post" <=> pc[u] = "post"
  PROVE  UNCHANGED Abstract!vars
<1>1. \A y \in Calls : ImagesKept(y)
  BY BusyKept, CallKept
<1> QED
  BY <1>1, AllKept

\* Taking an index begins it.
LEMMA TakeRefines ==
  ASSUME RInv, NEW t \in Threads, Take(t)
  PROVE  Abstract!Next
<1>1. PICK x \in Calls, i \in Indices :
        /\ i = call[x].nextIndex /\ i < call[x].count
        /\ HasTask(x) /\ call[x].alive
        /\ call' = [call EXCEPT ![x].nextIndex = i + 1]
        /\ stack' = Pushed(t, [role |-> "exec", call |-> x, index |-> i])
        /\ runs' = [runs EXCEPT ![x][i] = @ + 1]
        /\ pc[t] = "crit" /\ pc' = [pc EXCEPT ![t] = "user"]
  BY TakeFacts DEF RInv
<1> DEFINE f == [role |-> "exec", call |-> x, index |-> i]
<1>2. /\ i \in Nat
      /\ stack \in [Threads -> Seq(Frame)] /\ call \in [Calls -> CallRecord]
      /\ pc \in [Threads -> Pcs] /\ runs \in [Calls -> [Indices -> Nat]]
  BY ConstantsAssumption DEF Indices, RInv, IInv, TypeOK
<1>3. f \in Frame /\ f.role = "exec" /\ f.call = x /\ f.index = i
  BY <1>2 DEF Frame
<1> HIDE DEF f
<1>4. ASSUME NEW y, NEW j
      PROVE  BusyWith(y, j)' <=> (BusyWith(y, j) \/ (x = y /\ i = j))
  <2>1. /\ pc[t] # "post" /\ pc'[t] # "post"
        /\ \A u \in Threads \ {t} : pc'[u] = "post" <=> pc[u] = "post"
    BY <1>1, <1>2
  <2>2. stack' = Pushed(t, f)
    BY <1>1 DEF f
  <2>3. BusyWith(y, j)' <=> \/ BusyWith(y, j)
                            \/ f.role # "join" /\ f.call = y /\ f.index = j
    BY <1>2, <1>3, <2>1, <2>2, BusyPush
  <2> QED
    BY <1>3, <2>3
<1>5. \A y \in Calls \ {x} : ImagesKept(y)
  BY <1>1, <1>2, <1>4, CallKept
<1>6. /\ call'[x].kind = call[x].kind /\ call'[x].alive = call[x].alive
      /\ call'[x].count = call[x].count
  BY <1>1, <1>2 DEF CallRecord
<1>7. Phase(x) = "open" /\ Phase(x)' = "open"
  BY <1>1, <1>6 DEF Phase, HasTask
<1>8. i \notin Begun(x)
  BY <1>1, <1>2, BegunExact DEF RInv
<1>9. Begun(x)' = Begun(x) \union {i}
  <2>1. \A j \in Indices : runs'[x][j] = IF j = i THEN runs[x][i] + 1 ELSE runs[x][j]
    BY <1>1, <1>2
  <2>2. runs[x][i] \in Nat
    BY <1>2
  <2>3. \A j \in Indices : runs'[x][j] > 0 <=> runs[x][j] > 0 \/ j = i
    BY <2>1, <2>2
  <2> QED
    BY <2>3 DEF Begun
<1>10. Ended(x)' = Ended(x)
  BY <1>4, <1>8, <1>9 DEF Ended
<1>11. Abstract!Begin(x, i)
  BY <1>1, <1>5, <1>6, <1>7, <1>8, <1>9, <1>10, OneChanged DEF Abstract!Begin
<1> QED
  BY <1>11 DEF Abstract!Next, Abstract!Calls, Abstract!Indices, Calls, Indices

\* While a thread is inside a callback no other thread is inside the same index.
LEMMA OnlyInside ==
  ASSUME RInv, NEW t \in Threads, stack[t] # <<>>, Top(t).role # "join",
         NEW u \in Threads, NEW k \in DOMAIN stack[u], Inside(u, k),
         stack[u][k].call = Top(t).call, stack[u][k].index = Top(t).index
  PROVE  u = t /\ k = Len(stack[t])
<1>1. Len(stack[t]) \in DOMAIN stack[t] /\ Top(t) = stack[t][Len(stack[t])]
  BY TopFrame DEF RInv
<1>2. /\ stack[u][k].role \in {"exec", "inline"}
      /\ Top(t).role \in {"exec", "inline"}
  BY <1>1, FrameTyped DEF RInv, IInv, TypeOK, Inside
<1>3. Top(t).role = "exec" <=> stack[u][k].role = "exec"
  BY <1>1, <1>2 DEF RInv, IInv, FrameShape, HasTask
<1>4. CASE Top(t).role = "exec"
  BY <1>1, <1>3, <1>4 DEF RInv, IndexShape
<1>5. CASE Top(t).role # "exec"
  BY <1>1, <1>3, <1>5 DEF RInv, IInv, SingleFrames
<1> QED
  BY <1>4, <1>5

\* The end of a callback ends its index, which had begun, and no other one.
LEMMA ReturnBusy ==
  ASSUME RInv, NEW t \in Threads, stack[t] # <<>>, Top(t).role # "join",
         pc[t] = "user",
         \/ stack' = stack /\ pc' = [pc EXCEPT ![t] = "post"]
         \/ stack' = Popped(t) /\ pc' = pc
  PROVE  /\ \A y, j : BusyWith(y, j)' <=>
              BusyWith(y, j) /\ ~(y = Top(t).call /\ j = Top(t).index)
         /\ BusyWith(Top(t).call, Top(t).index)
<1> DEFINE n == Len(stack[t])
           x == Top(t).call
           i == Top(t).index
<1>1. n \in DOMAIN stack[t] /\ Top(t) = stack[t][n]
  BY TopFrame DEF RInv
<1>2. stack \in [Threads -> Seq(Frame)] /\ pc \in [Threads -> Pcs]
  BY DEF RInv, IInv, TypeOK
<1>3. Inside(t, n)
  BY <1>1 DEF Inside
<1>4. BusyWith(x, i)
  BY <1>1, <1>3 DEF BusyWith
<1>5. ASSUME NEW y, NEW j
      PROVE  BusyWith(y, j)' <=>
               \E u \in Threads : \E k \in DOMAIN stack[u] :
                 /\ Inside(u, k) /\ stack[u][k].call = y /\ stack[u][k].index = j
                 /\ ~(u = t /\ k = n)
  <2>1. CASE stack' = stack /\ pc' = [pc EXCEPT ![t] = "post"]
    <3>1. \A u \in Threads : \A k \in DOMAIN stack[u] :
            Inside(u, k)' <=> Inside(u, k) /\ ~(u = t /\ k = n)
      BY <1>2, <2>1 DEF Inside
    <3> QED
      BY <2>1, <3>1 DEF BusyWith
  <2>2. CASE stack' = Popped(t) /\ pc' = pc
    BY <1>2, <2>2, BusyPop
  <2> QED
    BY <2>1, <2>2
<1>6. ASSUME NEW u \in Threads, NEW k \in DOMAIN stack[u], Inside(u, k),
             stack[u][k].call = x, stack[u][k].index = i
      PROVE  u = t /\ k = n
  BY <1>6, OnlyInside
<1>7. stack[t][n].call = x /\ stack[t][n].index = i
  BY <1>1
<1> HIDE DEF n, x, i
<1>8. ASSUME NEW y, NEW j
      PROVE  BusyWith(y, j)' <=> BusyWith(y, j) /\ ~(y = x /\ j = i)
  BY <1>5, <1>6, <1>7 DEF BusyWith
<1> QED
  BY <1>4, <1>8 DEF x, i

\* The index of a callback has begun.
LEMMA TopBegun ==
  ASSUME RInv, NEW t \in Threads, stack[t] # <<>>, Top(t).role # "join"
  PROVE  Top(t).index \in Indices /\ Top(t).index \in Begun(Top(t).call)
<1>1. /\ Len(stack[t]) \in DOMAIN stack[t] /\ Top(t) = stack[t][Len(stack[t])]
      /\ Top(t).call \in Calls /\ Top(t).index \in Nat
  BY TopFrame DEF RInv
<1>2. Top(t).role \in {"exec", "inline"}
  BY <1>1, FrameTyped DEF RInv, IInv, TypeOK
<1>3. Top(t).index < call[Top(t).call].nextIndex
  <2>1. CASE Top(t).role = "exec"
    BY <1>1, <2>1 DEF RInv, IndexShape
  <2>2. CASE Top(t).role = "inline"
    BY <1>1, <2>2 DEF RInv, IndexShape, IInv, FrameShape
  <2> QED
    BY <1>2, <2>1, <2>2
<1>4. call[Top(t).call].nextIndex \in 0..MaxCount /\ MaxCount \in Nat
  BY <1>1, ConstantsAssumption DEF RInv, IInv, TypeOK, CallRecord
<1>5. Top(t).index \in Indices
  BY <1>1, <1>3, <1>4 DEF Indices
<1> QED
  BY <1>1, <1>3, <1>5, BegunExact DEF RInv

\* A callback that returns out of Task::execute ends its index.
LEMMA ReturnExecRefines ==
  ASSUME RInv, NEW t \in Threads, ReturnExec(t)
  PROVE  Abstract!Next
<1>0. PICK x, i : x = Top(t).call /\ i = Top(t).index
  OBVIOUS
<1>1. /\ stack[t] # <<>> /\ Top(t).role = "exec" /\ pc[t] = "user"
      /\ stack' = stack /\ pc' = [pc EXCEPT ![t] = "post"]
      /\ call' = call /\ runs' = runs
  BY <1>0 DEF ReturnExec, TopIs
<1>2. /\ x \in Calls /\ call[x].alive /\ call[x].kind # "none"
      /\ i \in Indices /\ i \in Begun(x)
  BY <1>0, <1>1, TopFrame, TopBegun DEF RInv, IInv, FrameShape, HasTask
<1>3. /\ \A y, j : BusyWith(y, j)' <=> BusyWith(y, j) /\ ~(y = x /\ j = i)
      /\ BusyWith(x, i)
  BY <1>0, <1>1, ReturnBusy
<1>4. \A y \in Calls \ {x} : ImagesKept(y)
  BY <1>1, <1>3, CallKept
<1>5. /\ Phase(x) = "open" /\ Phase(x)' = Phase(x)
      /\ call'[x].count = call[x].count /\ Begun(x)' = Begun(x)
  BY <1>1, <1>2 DEF Phase, Begun
<1>6. Ended(x)' = Ended(x) \union {i} /\ i \notin Ended(x)
  BY <1>2, <1>3, <1>5 DEF Ended
<1>7. Abstract!End(x, i)
  BY <1>2, <1>4, <1>5, <1>6, OneChanged DEF Abstract!End
<1> QED
  BY <1>2, <1>7 DEF Abstract!Next, Abstract!Calls, Abstract!Indices, Calls, Indices

\* A callback that was run inline ends its call.
LEMMA ReturnInlineRefines ==
  ASSUME RInv, NEW t \in Threads, ReturnInline(t)
  PROVE  Abstract!Next
<1>0. PICK x : x = Top(t).call
  OBVIOUS
<1>1. /\ stack[t] # <<>> /\ Top(t).role = "inline" /\ pc[t] = "user"
      /\ stack' = Popped(t) /\ pc' = pc
      /\ call' = Disposed(x) /\ runs' = runs
  BY <1>0 DEF ReturnInline, TopIs
<1>2. /\ x \in Calls /\ call[x].alive /\ call[x].kind = "inline"
      /\ Top(t).index = 0 /\ call[x].count = 1 /\ call[x].nextIndex = 1
      /\ 0 \in Indices /\ 0 \in Begun(x)
  BY <1>0, <1>1, TopFrame, TopBegun DEF RInv, IInv, FrameShape, IndexShape
<1>3. /\ \A y, j : BusyWith(y, j)' <=> BusyWith(y, j) /\ ~(y = x /\ j = 0)
      /\ BusyWith(x, 0)
  BY <1>0, <1>1, <1>2, ReturnBusy
<1>4. call \in [Calls -> CallRecord]
  BY DEF RInv, IInv, TypeOK
<1>5. /\ ~call'[x].alive /\ call'[x].kind = call[x].kind
      /\ call'[x].count = call[x].count
      /\ \A y \in Calls \ {x} : call'[y] = call[y]
  BY <1>1, <1>2, <1>4, DisposedKeeps
<1>6. \A y \in Calls \ {x} : ImagesKept(y)
  BY <1>1, <1>3, <1>5, CallKept
<1>7. Phase(x) = "open" /\ Phase(x)' = "closed" /\ Begun(x)' = Begun(x)
  BY <1>1, <1>2, <1>5 DEF Phase, Begun
<1>8. Begun(x) = {0}
  <2>1. \A j \in Indices : j \in Nat
    BY ConstantsAssumption DEF Indices
  <2>2. \A j : j \in Begun(x) <=> j \in Indices /\ j < 1
    BY <1>2, BegunExact DEF RInv
  <2>3. \A j \in Begun(x) : j = 0
    BY <2>1, <2>2
  <2> QED
    BY <1>2, <2>3
<1>9. Ended(x) = {} /\ Ended(x)' = {0}
  BY <1>3, <1>7, <1>8 DEF Ended
<1>10. Abstract!EndInline(x)
  BY <1>2, <1>5, <1>6, <1>7, <1>8, <1>9, OneChanged DEF Abstract!EndInline
<1> QED
  BY <1>2, <1>10 DEF Abstract!Next, Abstract!Calls, Calls

\* When nobody is inside an index of a call that has handed out all of them,
\* all of them have ended.
LEMMA AllHaveEnded ==
  ASSUME RInv, NEW x \in Calls, call[x].nextIndex = call[x].count,
         \A i : ~BusyWith(x, i)
  PROVE  Ended(x) = 0..(call[x].count - 1)
<1>1. call[x].count \in 0..MaxCount /\ MaxCount \in Nat
  BY ConstantsAssumption DEF RInv, IInv, TypeOK, CallRecord
<1>2. \A i : i \in Begun(x) <=> i \in Indices /\ i < call[x].count
  BY BegunExact DEF RInv
<1>3. Begun(x) = 0..(call[x].count - 1)
  <2>1. PICK c \in 0..MaxCount : c = call[x].count
    BY <1>1, Zenon
  <2>2. \A i : i \in Indices /\ i < c <=> i \in 0..(c - 1)
    BY <1>1 DEF Indices
  <2> QED
    BY <1>2, <2>1, <2>2
<1> QED
  BY <1>3 DEF Ended

\* Who is inside an index of a task is among its callbacks in flight.
LEMMA BusyInFlight ==
  ASSUME RInv, NEW x \in Calls, HasTask(x), NEW i, BusyWith(x, i)
  PROVE  \E t \in Threads : \E k \in DOMAIN stack[t] :
           <<t, k>> \in InFlight(x) /\ Inside(t, k)
<1>1. PICK t \in Threads : \E k \in DOMAIN stack[t] :
        Inside(t, k) /\ stack[t][k].call = x
  BY DEF BusyWith
<1>2. PICK k \in DOMAIN stack[t] : Inside(t, k) /\ stack[t][k].call = x
  BY <1>1
<1>3. stack[t][k].role = "exec"
  BY <1>2, FrameTyped DEF RInv, IInv, TypeOK, Inside, FrameShape, HasTask
<1>4. <<t, k>> \in InFlight(x)
  BY <1>2, <1>3, ExecFramesMember DEF InFlight
<1> QED
  BY <1>2, <1>4

\* executeParallel returns: its call is closed.
LEMMA JoinReturnRefines ==
  ASSUME RInv, NEW t \in Threads, JoinReturn(t)
  PROVE  Abstract!Next
<1>0. PICK x : x = Top(t).call
  OBVIOUS
<1>1. /\ stack[t] # <<>> /\ Top(t).role = "join" /\ pc[t] = "crit" /\ Completed(x)
      /\ stack' = Popped(t) /\ pc' = [pc EXCEPT ![t] = "user"]
      /\ call' = Disposed(x) /\ runs' = runs
  BY <1>0 DEF JoinReturn, TopIs
<1>2. x \in Calls /\ call[x].alive /\ call[x].kind = "sync" /\ HasTask(x)
  BY <1>0, <1>1, TopFrame DEF RInv, IInv, FrameShape, HasTask
<1>3. call[x].nextIndex = call[x].count /\ InFlight(x) = {}
  BY <1>1, <1>2, CompletedIsQuiet DEF RInv
<1>4. /\ call \in [Calls -> CallRecord] /\ pc \in [Threads -> Pcs]
      /\ stack \in [Threads -> Seq(Frame)]
  BY DEF RInv, IInv, TypeOK
<1>5. \A y, j : BusyWith(y, j)' <=> BusyWith(y, j)
  <2>1. /\ pc'[t] # "post"
        /\ \A u \in Threads \ {t} : pc'[u] = "post" <=> pc[u] = "post"
    BY <1>1, <1>4
  <2> QED
    BY <1>1, <1>4, <2>1, BusyPopQuiet
<1>6. /\ ~call'[x].alive /\ call'[x].kind = call[x].kind
      /\ call'[x].count = call[x].count
      /\ \A y \in Calls \ {x} : call'[y] = call[y]
  BY <1>1, <1>2, <1>4, DisposedKeeps
<1>7. \A y \in Calls \ {x} : ImagesKept(y)
  BY <1>1, <1>5, <1>6, CallKept
<1>8. /\ Phase(x) = "open" /\ Phase(x)' = "closed"
      /\ Begun(x)' = Begun(x) /\ Ended(x)' = Ended(x)
  BY <1>1, <1>2, <1>5, <1>6 DEF Phase, Begun, Ended
<1>9. Ended(x) = 0..(call[x].count - 1)
  <2>1. \A i : ~BusyWith(x, i)
    BY <1>2, <1>3, BusyInFlight
  <2> QED
    BY <1>2, <1>3, <2>1, AllHaveEnded
<1>10. Abstract!Close(x)
  BY <1>2, <1>6, <1>7, <1>8, <1>9, OneChanged DEF Abstract!Close, Abstract!AllEnded
<1> QED
  BY <1>2, <1>10 DEF Abstract!Next, Abstract!Calls, Calls

\* Broadcasts let nobody return from a callback.
LEMMA AwakenedPost ==
  ASSUME NEW u \in Threads
  PROVE  Awakened[u] = "post" <=> pc[u] = "post"
BY DEF Awakened

\* The last callback of an asynchronous call, accounted for, closes the call;
\* any other one maps to a stutter.
LEMMA PostExecuteRefines ==
  ASSUME RInv, NEW t \in Threads, PostExecute(t)
  PROVE  Abstract!Next \/ UNCHANGED Abstract!vars
<1>0. PICK x, n : x = Top(t).call /\ n = Len(stack[t])
  OBVIOUS
<1>1. PICK last \in BOOLEAN : last <=> (Completes(x) /\ call[x].kind = "async")
  <2>1. (Completes(x) /\ call[x].kind = "async") \in BOOLEAN
    OBVIOUS
  <2> QED
    BY <2>1
<1>2. /\ pc[t] = "post" /\ stack' = Popped(t) /\ runs' = runs
      /\ \E done : call' = [call EXCEPT ![x].completedCount = done, ![x].alive = ~last]
      /\ \/ pc' = [Awakened EXCEPT ![t] = "crit"]
         \/ pc' = [pc EXCEPT ![t] = "crit"]
  <2>1. call' = [call EXCEPT ![x].completedCount = @ + 1,
                             ![x].alive = ~(Completes(x) /\ call[x].kind = "async")]
    BY <1>0 DEF PostExecute
  <2>2. call' = [call EXCEPT ![x].completedCount = call[x].completedCount + 1,
                             ![x].alive = ~last]
    BY <1>1, <2>1, Zenon
  <2> QED
    BY <1>0, <2>2 DEF PostExecute
<1>3. stack[t] # <<>> /\ Top(t).role = "exec"
  BY <1>2 DEF RInv, IInv, ThreadShape, TopIs
<1>4. /\ x \in Calls /\ call[x].alive /\ HasTask(x)
      /\ n \in DOMAIN stack[t] /\ Top(t) = stack[t][n]
  BY <1>0, <1>3, TopFrame DEF RInv, IInv, FrameShape
<1>5. /\ call \in [Calls -> CallRecord] /\ pc \in [Threads -> Pcs]
      /\ stack \in [Threads -> Seq(Frame)]
  BY DEF RInv, IInv, TypeOK
<1>6. \A y, j : BusyWith(y, j)' <=> BusyWith(y, j)
  <2>1. /\ pc'[t] # "post"
        /\ \A u \in Threads \ {t} : pc'[u] = "post" <=> pc[u] = "post"
    BY <1>2, <1>5, AwakenedPost DEF Awakened
  <2> QED
    BY <1>2, <1>3, <1>5, <2>1, BusyPopQuiet
<1>7. /\ call'[x].kind = call[x].kind /\ call'[x].count = call[x].count
      /\ call'[x].alive <=> ~last
      /\ \A y \in Calls \ {x} : call'[y] = call[y]
  BY <1>2, <1>4, <1>5 DEF CallRecord
<1>8. \A y \in Calls \ {x} : ImagesKept(y)
  BY <1>2, <1>6, <1>7, CallKept
<1>9. CASE ~last
  <2>1. ImagesKept(x)
    BY <1>2, <1>4, <1>6, <1>7, <1>9, CallKept
  <2> QED
    BY <1>8, <2>1, AllKept
<1>10. CASE last
  <2>1. <<t, n>> \in InFlight(x)
    BY <1>0, <1>3, <1>4, ExecFramesMember DEF InFlight
  <2>2. InFlight(x) = {<<t, n>>} /\ call[x].nextIndex = call[x].count
    <3>1. /\ call[x].completedCount + 1 = call[x].count
          /\ call[x].completedCount \in Nat
      BY <1>1, <1>4, <1>5, <1>10, ConstantsAssumption DEF Completes, CallRecord
    <3>2. /\ InFlight(x) = {<<t, n>>}
          /\ call[x].completedCount + 1 + Cardinality(InFlight(x) \ {<<t, n>>})
               = call[x].nextIndex
      BY <1>4, <2>1, <3>1, LastInFlight DEF RInv
    <3>3. InFlight(x) \ {<<t, n>>} = {}
      BY <3>2
    <3>4. Cardinality(InFlight(x) \ {<<t, n>>}) = 0
      BY <3>3, FS_EmptySet
    <3> QED
      BY <3>1, <3>2, <3>4
  <2>3. \A i : ~BusyWith(x, i)
    <3>1. ASSUME NEW i, BusyWith(x, i) PROVE FALSE
      <4>1. PICK u \in Threads : \E k \in DOMAIN stack[u] :
              <<u, k>> \in InFlight(x) /\ Inside(u, k)
        BY <1>4, <3>1, BusyInFlight
      <4>2. Inside(t, n)
        BY <2>2, <4>1
      <4> QED
        BY <1>0, <1>2, <4>2 DEF Inside
    <3> QED
      BY <3>1
  <2>4. Ended(x) = 0..(call[x].count - 1)
    BY <1>4, <2>2, <2>3, AllHaveEnded
  <2>5. /\ Phase(x) = "open" /\ Phase(x)' = "closed"
        /\ Begun(x)' = Begun(x) /\ Ended(x)' = Ended(x)
    BY <1>2, <1>4, <1>6, <1>7, <1>10 DEF Phase, Begun, Ended, HasTask
  <2>6. Abstract!Close(x)
    BY <1>4, <1>7, <1>8, <2>4, <2>5, OneChanged DEF Abstract!Close, Abstract!AllEnded
  <2> QED
    BY <1>4, <2>6 DEF Abstract!Next, Abstract!Calls, Calls
<1> QED
  BY <1>9, <1>10

\* Before a call is made it is unborn, and nothing of it has begun.
LEMMA UnbornCall ==
  ASSUME RInv, nCalls < MaxCalls, NEW x, x = nCalls + 1
  PROVE  /\ x \in Calls
         /\ Phase(x) = "unborn" /\ call[x].count = 0
         /\ Begun(x) = {} /\ Ended(x) = {}
         /\ \A i : ~BusyWith(x, i)
         /\ \A i \in Indices : runs[x][i] = 0
<1>1. /\ x \in Calls /\ call[x].kind = "none"
      /\ \A t \in Threads : \A k \in DOMAIN stack[t] : stack[t][k].call # x
      /\ \A i \in Indices : runs[x][i] = 0
  BY FreshCall DEF RInv
<1>2. Begun(x) = {}
  BY <1>1 DEF Begun
<1> QED
  BY <1>1, <1>2 DEF Phase, Ended, BusyWith, RInv, IndexShape

\* What making a call does to the calls.
LEMMA NewCallFacts ==
  ASSUME RInv, nCalls < MaxCalls, NEW r, call' = [call EXCEPT ![nCalls + 1] = r]
  PROVE  \E x \in Calls :
           /\ x = nCalls + 1
           /\ call'[x] = r
           /\ \A y \in Calls \ {x} : call'[y] = call[y]
<1>1. nCalls + 1 \in Calls
  BY FreshCall DEF RInv
<1>2. call \in [Calls -> CallRecord]
  BY DEF RInv, IInv, TypeOK
<1> QED
  BY <1>1, <1>2

\* A call of one index that its caller runs itself opens with the index begun.
LEMMA ExecuteParallelInlineRefines ==
  ASSUME RInv, NEW t \in Threads, NEW flag \in Queues, ExecuteParallelInline(t, flag)
  PROVE  Abstract!Next
<1>1. PICK x \in Calls :
        /\ x = nCalls + 1 /\ nCalls < MaxCalls
        /\ call'[x].kind = "inline" /\ call'[x].count = 1 /\ call'[x].alive
        /\ \A y \in Calls \ {x} : call'[y] = call[y]
  <2>1. PICK r : r = [kind |-> "inline", flag |-> flag, count |-> 1,
                      nextIndex |-> 1, completedCount |-> 0, alive |-> TRUE]
    OBVIOUS
  <2>2. nCalls < MaxCalls /\ call' = [call EXCEPT ![nCalls + 1] = r]
    BY <2>1 DEF ExecuteParallelInline, NewCall
  <2>3. PICK x \in Calls : /\ x = nCalls + 1 /\ call'[x] = r
                            /\ \A y \in Calls \ {x} : call'[y] = call[y]
    BY <2>2, NewCallFacts
  <2> QED
    BY <2>1, <2>2, <2>3
<1>2. PICK f : f = [role |-> "inline", call |-> x, index |-> 0]
  OBVIOUS
<1>3. /\ pc[t] = "user" /\ pc' = pc /\ stack' = Pushed(t, f)
      /\ runs' = [runs EXCEPT ![x][0] = @ + 1] /\ MaxCount >= 1
  BY <1>1, <1>2 DEF ExecuteParallelInline
<1>4. /\ Phase(x) = "unborn" /\ call[x].count = 0 /\ Begun(x) = {} /\ Ended(x) = {}
      /\ \A i : ~BusyWith(x, i)
      /\ \A i \in Indices : runs[x][i] = 0
  BY <1>1, UnbornCall
<1>5. /\ f \in Frame /\ f.role = "inline" /\ f.call = x /\ f.index = 0
      /\ stack \in [Threads -> Seq(Frame)] /\ runs \in [Calls -> [Indices -> Nat]]
      /\ 0 \in Indices
  BY <1>2, <1>3, ConstantsAssumption DEF Frame, Indices, RInv, IInv, TypeOK
<1>6. ASSUME NEW y, NEW j
      PROVE  BusyWith(y, j)' <=> (BusyWith(y, j) \/ (x = y /\ j = 0))
  <2>1. BusyWith(y, j)' <=> \/ BusyWith(y, j)
                            \/ f.role # "join" /\ f.call = y /\ f.index = j
    BY <1>3, <1>5, BusyPush
  <2> QED
    BY <1>5, <2>1
<1>7. \A y \in Calls \ {x} : ImagesKept(y)
  BY <1>1, <1>3, <1>5, <1>6, CallKept
<1>8. \A j \in Indices : runs'[x][j] = IF j = 0 THEN 1 ELSE 0
  BY <1>3, <1>4, <1>5
<1>9. Begun(x)' = {0}
  BY <1>5, <1>8 DEF Begun
<1>10. Ended(x)' = Ended(x)
  BY <1>4, <1>6, <1>9 DEF Ended
<1>11. Phase(x)' = "open"
  BY <1>1 DEF Phase
<1>12. Abstract!OpenInline(x)
  BY <1>1, <1>4, <1>7, <1>9, <1>10, <1>11, OneChanged DEF Abstract!OpenInline
<1> QED
  BY <1>12 DEF Abstract!Next, Abstract!Calls, Calls

\* A call that makes a Task opens with nothing begun.
LEMMA OpenRefines ==
  ASSUME RInv, NEW t \in Threads, NEW flag \in Queues, NEW n \in 1..MaxCount,
         ExecuteParallel(t, n, flag) \/ ExecuteParallelAsync(t, n, flag)
  PROVE  Abstract!Next
<1>1. PICK x \in Calls :
        /\ x = nCalls + 1 /\ nCalls < MaxCalls
        /\ call'[x].kind # "none" /\ call'[x].count = n /\ call'[x].alive
        /\ \A y \in Calls \ {x} : call'[y] = call[y]
  <2>1. CASE ExecuteParallel(t, n, flag)
    <3>1. PICK r : r = [kind |-> "sync", flag |-> flag, count |-> n,
                        nextIndex |-> 0, completedCount |-> 0, alive |-> TRUE]
      OBVIOUS
    <3>2. nCalls < MaxCalls /\ call' = [call EXCEPT ![nCalls + 1] = r]
      BY <2>1, <3>1 DEF ExecuteParallel, NewCall
    <3>3. PICK x \in Calls : /\ x = nCalls + 1 /\ call'[x] = r
                              /\ \A y \in Calls \ {x} : call'[y] = call[y]
      BY <3>2, NewCallFacts
    <3> QED
      BY <3>1, <3>2, <3>3
  <2>2. CASE ExecuteParallelAsync(t, n, flag)
    <3>1. PICK r : r = [kind |-> "async", flag |-> flag, count |-> n,
                        nextIndex |-> 0, completedCount |-> 0, alive |-> TRUE]
      OBVIOUS
    <3>2. nCalls < MaxCalls /\ call' = [call EXCEPT ![nCalls + 1] = r]
      BY <2>2, <3>1 DEF ExecuteParallelAsync, NewCall
    <3>3. PICK x \in Calls : /\ x = nCalls + 1 /\ call'[x] = r
                              /\ \A y \in Calls \ {x} : call'[y] = call[y]
      BY <3>2, NewCallFacts
    <3> QED
      BY <3>1, <3>2, <3>3
  <2> QED
    BY <2>1, <2>2
<1>2. /\ Phase(x) = "unborn" /\ call[x].count = 0 /\ Begun(x) = {} /\ Ended(x) = {}
  BY <1>1, UnbornCall
<1>3. runs' = runs
  BY DEF ExecuteParallel, ExecuteParallelAsync
<1>4. pc \in [Threads -> Pcs] /\ stack \in [Threads -> Seq(Frame)]
  BY DEF RInv, IInv, TypeOK
<1>5. \A y, j : BusyWith(y, j)' <=> BusyWith(y, j)
  <2>1. CASE ExecuteParallel(t, n, flag)
    <3>1. PICK f : f = [role |-> "join", call |-> x, index |-> 0]
      OBVIOUS
    <3>2. f \in Frame /\ f.role = "join"
      BY <3>1 DEF Frame
    <3>3. /\ stack' = Pushed(t, f) /\ pc[t] # "post" /\ pc'[t] # "post"
          /\ \A u \in Threads \ {t} : pc'[u] = "post" <=> pc[u] = "post"
      BY <1>1, <1>4, <2>1, <3>1, AwakenedPost DEF ExecuteParallel, Awakened
    <3>4. ASSUME NEW y, NEW j
          PROVE  BusyWith(y, j)' <=> \/ BusyWith(y, j)
                                     \/ f.role # "join" /\ f.call = y /\ f.index = j
      BY <1>4, <3>2, <3>3, BusyPush
    <3> QED
      BY <3>2, <3>4
  <2>2. CASE ExecuteParallelAsync(t, n, flag)
    <3>1. stack' = stack /\ \A u \in Threads : pc'[u] = "post" <=> pc[u] = "post"
      BY <2>2, AwakenedPost DEF ExecuteParallelAsync
    <3> QED
      BY <3>1, BusyKept
  <2> QED
    BY <2>1, <2>2
<1>6. \A y \in Calls \ {x} : ImagesKept(y)
  BY <1>1, <1>3, <1>5, CallKept
<1>7. Phase(x)' = "open" /\ Begun(x)' = Begun(x) /\ Ended(x)' = Ended(x)
  BY <1>1, <1>3, <1>5 DEF Phase, Begun, Ended
<1>8. Abstract!Open(x, n)
  BY <1>1, <1>2, <1>6, <1>7, OneChanged DEF Abstract!Open
<1> QED
  BY <1>8 DEF Abstract!Next, Abstract!Calls, Calls

\* An asynchronous call of no index is closed at once.
LEMMA ExecuteParallelAsyncEmptyRefines ==
  ASSUME RInv, NEW t \in Threads, NEW flag \in Queues, ExecuteParallelAsyncEmpty(t, flag)
  PROVE  Abstract!Next
<1>1. PICK x \in Calls :
        /\ x = nCalls + 1 /\ nCalls < MaxCalls
        /\ call'[x].kind = "async" /\ call'[x].count = 0 /\ ~call'[x].alive
        /\ \A y \in Calls \ {x} : call'[y] = call[y]
  <2>1. PICK r : r = [kind |-> "async", flag |-> flag, count |-> 0,
                      nextIndex |-> 0, completedCount |-> 0, alive |-> FALSE]
    OBVIOUS
  <2>2. nCalls < MaxCalls /\ call' = [call EXCEPT ![nCalls + 1] = r]
    BY <2>1 DEF ExecuteParallelAsyncEmpty, NewCall
  <2>3. PICK x \in Calls : /\ x = nCalls + 1 /\ call'[x] = r
                            /\ \A y \in Calls \ {x} : call'[y] = call[y]
    BY <2>2, NewCallFacts
  <2> QED
    BY <2>1, <2>2, <2>3
<1>2. pc' = pc /\ stack' = stack /\ runs' = runs
  BY DEF ExecuteParallelAsyncEmpty
<1>3. \A y, j : BusyWith(y, j)' <=> BusyWith(y, j)
  BY <1>2, BusyKept
<1>4. \A y \in Calls \ {x} : ImagesKept(y)
  BY <1>1, <1>2, <1>3, CallKept
<1>5. Phase(x) = "unborn" /\ call[x].count = 0
  BY <1>1, UnbornCall
<1>6. Phase(x)' = "closed" /\ Begun(x)' = Begun(x) /\ Ended(x)' = Ended(x)
  BY <1>1, <1>2, <1>3 DEF Phase, Begun, Ended
<1>7. Abstract!OpenEmpty(x)
  BY <1>1, <1>4, <1>5, <1>6, OneChanged DEF Abstract!OpenEmpty
<1> QED
  BY <1>7 DEF Abstract!Next, Abstract!Calls, Calls
-----------------------------------------------------------------------------
LEMMA InitRefines == Init => Abstract!Init
<1> SUFFICES ASSUME Init PROVE Abstract!Init
  OBVIOUS
<1>1. \A x \in Calls : Phase(x) = "unborn" /\ call[x].count = 0 /\ Begun(x) = {}
  BY DEF Init, Phase, Begun
<1>2. \A x \in Calls : Ended(x) = {}
  BY <1>1 DEF Ended
<1> QED
  BY <1>1, <1>2 DEF Abstract!Init, Abstract!Calls, Calls, phases, counts,
                    begunSets, endedSets

LEMMA NextRefines == RInv /\ [Next]_vars => [Abstract!Next]_(Abstract!vars)
<1> SUFFICES ASSUME RInv, [Next]_vars
             PROVE  Abstract!Next \/ UNCHANGED Abstract!vars
  OBVIOUS
<1>1. pc \in [Threads -> Pcs]
  BY DEF RInv, IInv, TypeOK
<1>2. ASSUME NEW t \in Threads,
             WorkerExit(t) \/ Sleep(t) \/ Reacquire(t) \/ SpuriousWakeup(t)
      PROVE  UNCHANGED Abstract!vars
  <2>1. /\ call' = call /\ stack' = stack /\ runs' = runs
        /\ \A u \in Threads : pc'[u] = "post" <=> pc[u] = "post"
    BY <1>1, <1>2 DEF WorkerExit, Sleep, LoopsOn, Reacquire, SpuriousWakeup
  <2> QED
    BY <2>1, QuietRefines
<1>3. ASSUME NEW t \in Threads, PoolStep(t)
      PROVE  Abstract!Next \/ UNCHANGED Abstract!vars
  BY <1>2, <1>3, JoinReturnRefines, TakeRefines, ReturnExecRefines,
     ReturnInlineRefines, PostExecuteRefines DEF PoolStep
<1>4. ASSUME NEW t \in Threads, Submit(t) PROVE Abstract!Next
  <2>1. PICK flag \in Queues :
          \/ ExecuteParallelInline(t, flag)
          \/ \E n \in 1..MaxCount : ExecuteParallel(t, n, flag)
          \/ \E n \in 1..MaxCount : ExecuteParallelAsync(t, n, flag)
          \/ ExecuteParallelAsyncEmpty(t, flag)
    BY <1>4, ConstantsAssumption DEF Submit
  <2> QED
    BY <2>1, ExecuteParallelInlineRefines, OpenRefines, ExecuteParallelAsyncEmptyRefines
<1>5. CASE Terminate \/ Terminated \/ UNCHANGED vars
  <2>1. /\ call' = call /\ stack' = stack /\ runs' = runs
    BY <1>5 DEF Terminate, Terminated, vars
  <2>2. \A u \in Threads : pc'[u] = "post" <=> pc[u] = "post"
    BY <1>1, <1>5, AwakenedPost DEF Terminate, Terminated, vars, Awakened
  <2> QED
    BY <2>1, <2>2, QuietRefines
<1> QED
  BY <1>2, <1>3, <1>4, <1>5 DEF Next

\* The pool implements what its clients rely on: a call runs its callback once
\* for each index and closes only when all of them have ended, whatever the
\* number of threads, calls and indices.
THEOREM Implementation == Spec => ImplementsParallelCalls
<1>1. Init => Abstract!Init
  BY InitRefines
<1>2. RInv /\ [Next]_vars => [Abstract!Next]_(Abstract!vars)
  BY NextRefines
<1> QED
  BY <1>1, <1>2, RefinementInvariance, PTL DEF Spec, ImplementsParallelCalls, Abstract!Spec
=============================================================================
