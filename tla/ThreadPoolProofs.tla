-------------------------- MODULE ThreadPoolProofs --------------------------
(***************************************************************************)
(* Proofs about ThreadPool, for any set of threads, any number of calls and *)
(* any count.  IInv is inductive: one lemma per action shows that the       *)
(* action preserves it (ExecuteParallelInlineStep .. PostExecuteStep),      *)
(* NextIInv puts them together, and the theorems at the end follow from     *)
(* Invariance.  Each lemma takes the part of a stack, of a queue or of the  *)
(* callbacks in flight that its action changes and leaves the rest alone.   *)
(***************************************************************************)
EXTENDS ThreadPool, FiniteSetTheorems, SequenceTheorems, WellFoundedInduction, TLAPS

\* A sequence without its last element: the queue of Take, the stack of Popped.
LEMMA DropLast ==
  ASSUME NEW S, NEW s \in Seq(S), s # <<>>
  PROVE  LET r == SubSeq(s, 1, Len(s) - 1)
         IN  /\ Len(s) \in Nat \ {0}
             /\ r \in Seq(S)
             /\ Len(r) = Len(s) - 1
             /\ DOMAIN r = 1..(Len(s) - 1)
             /\ \A k \in 1..(Len(s) - 1) : r[k] = s[k]
<1>1. /\ Len(s) \in Nat \ {0}
      /\ \A i \in 1..(Len(s) - 1) : s[i] \in S
  OBVIOUS
<1>2. PICK r : r = SubSeq(s, 1, Len(s) - 1)
  OBVIOUS
<1>3. PICK n \in Nat : n = Len(s) - 1
  <2>1. Len(s) - 1 \in Nat
    BY <1>1
  <2> QED
    BY <2>1, Zenon
<1>4. /\ SubSeq(s, 1, n) \in Seq(S)
      /\ Len(SubSeq(s, 1, n)) = IF 1 <= n THEN n - 1 + 1 ELSE 0
      /\ \A i \in 1..(n - 1 + 1) : SubSeq(s, 1, n)[i] = s[1 + i - 1]
  BY <1>1, <1>3, SubSeqProperties
<1>5. /\ r \in Seq(S)
      /\ Len(r) = IF 1 <= n THEN n - 1 + 1 ELSE 0
      /\ \A i \in 1..(n - 1 + 1) : r[i] = s[1 + i - 1]
  BY <1>2, <1>3, <1>4, Zenon
<1>6. Len(r) = n /\ \A i \in 1..n : r[i] = s[i]
  BY <1>3, <1>5
<1>7. DOMAIN r = 1..n
  BY <1>5, <1>6
<1> QED
  BY <1>1, <1>2, <1>3, <1>5, <1>6, <1>7

\* What entering a callback or executeParallel does to the stacks.
LEMMA PushFrame ==
  ASSUME stack \in [Threads -> Seq(Frame)],
         NEW t \in Threads, NEW f \in Frame,
         stack' = Pushed(t, f)
  PROVE  /\ stack' \in [Threads -> Seq(Frame)]
         /\ Len(stack[t]) \in Nat
         /\ Len(stack'[t]) = Len(stack[t]) + 1
         /\ DOMAIN stack'[t] = 1..(Len(stack[t]) + 1)
         /\ stack'[t][Len(stack[t]) + 1] = f
         /\ \A k \in DOMAIN stack[t] : stack'[t][k] = stack[t][k]
         /\ \A u \in Threads \ {t} : stack'[u] = stack[u]
         /\ \A u \in Threads : \A k \in DOMAIN stack'[u] :
              \/ u = t /\ k = Len(stack[t]) + 1 /\ stack'[u][k] = f
              \/ /\ k \in DOMAIN stack[u] /\ stack'[u][k] = stack[u][k]
                 /\ u = t => k < Len(stack[t]) + 1
BY DEF Pushed

\* What leaving a callback or executeParallel does to the stacks.
LEMMA PopFrame ==
  ASSUME stack \in [Threads -> Seq(Frame)],
         NEW t \in Threads, stack[t] # <<>>,
         stack' = Popped(t)
  PROVE  /\ stack' \in [Threads -> Seq(Frame)]
         /\ Len(stack[t]) \in Nat \ {0}
         /\ Len(stack'[t]) = Len(stack[t]) - 1
         /\ DOMAIN stack'[t] = 1..(Len(stack[t]) - 1)
         /\ \A k \in DOMAIN stack'[t] : stack'[t][k] = stack[t][k]
         /\ \A u \in Threads \ {t} : stack'[u] = stack[u]
         /\ \A u \in Threads : \A k \in DOMAIN stack'[u] :
              /\ k \in DOMAIN stack[u] /\ stack'[u][k] = stack[u][k]
              /\ u = t => k < Len(stack[t])
<1> DEFINE r == SubSeq(stack[t], 1, Len(stack[t]) - 1)
<1>1. /\ Len(stack[t]) \in Nat \ {0}
      /\ r \in Seq(Frame)
      /\ Len(r) = Len(stack[t]) - 1
      /\ DOMAIN r = 1..(Len(stack[t]) - 1)
      /\ \A k \in 1..(Len(stack[t]) - 1) : r[k] = stack[t][k]
  BY DropLast
<1>2. stack' = [stack EXCEPT ![t] = r]
  BY DEF Popped
<1> HIDE DEF r
<1> QED
  BY <1>1, <1>2

\* A frame names a call.
LEMMA FrameTyped ==
  ASSUME stack \in [Threads -> Seq(Frame)],
         NEW t \in Threads, NEW k \in DOMAIN stack[t]
  PROVE  /\ k \in Nat \ {0} /\ k <= Len(stack[t]) /\ Len(stack[t]) \in Nat
         /\ stack[t][k] \in Frame
         /\ stack[t][k].call \in Calls
         /\ stack[t][k].role \in {"exec", "inline", "join"}
<1>1. /\ k \in Nat \ {0} /\ k <= Len(stack[t]) /\ Len(stack[t]) \in Nat
      /\ stack[t][k] \in Frame
  OBVIOUS
<1> QED
  BY <1>1 DEF Frame

\* A thread that runs a task from a loop, or enters executeParallel from a
\* callback, keeps the alternation of frames that Nesting describes.
LEMMA PushNesting ==
  ASSUME stack \in [Threads -> Seq(Frame)], Nesting,
         NEW t \in Threads, NEW f \in Frame,
         stack' = Pushed(t, f),
         IF stack[t] = <<>> THEN f.role = "exec" <=> t # MainThread
                            ELSE f.role = "exec" <=> Top(t).role = "join"
  PROVE  Nesting'
<1> DEFINE n == Len(stack[t])
<1>1. /\ n \in Nat
      /\ DOMAIN stack[t] = 1..n
      /\ stack'[t][n + 1] = f
      /\ \A k \in DOMAIN stack[t] : stack'[t][k] = stack[t][k]
      /\ \A u \in Threads : \A k \in DOMAIN stack'[u] :
           \/ u = t /\ k = n + 1 /\ stack'[u][k] = f
           \/ /\ k \in DOMAIN stack[u] /\ stack'[u][k] = stack[u][k]
              /\ u = t => k < n + 1
      /\ \A u \in Threads \ {t} : stack'[u] = stack[u]
  BY PushFrame
<1>2. IF n = 0 THEN f.role = "exec" <=> t # MainThread
               ELSE f.role = "exec" <=> stack[t][n].role = "join"
  BY <1>1 DEF Top
<1> HIDE DEF n
<1>3. SUFFICES ASSUME NEW u \in Threads, NEW k \in DOMAIN stack'[u]
               PROVE  IF k = 1 THEN stack'[u][k].role = "exec" <=> u # MainThread
                      ELSE stack'[u][k].role = "exec" <=> stack'[u][k - 1].role = "join"
  BY DEF Nesting
<1>4. CASE u = t /\ k = n + 1
  BY <1>1, <1>2, <1>4
<1>5. CASE ~(u = t /\ k = n + 1)
  <2>1. k \in DOMAIN stack[u] /\ stack'[u][k] = stack[u][k] /\ (u = t => k < n + 1)
    BY <1>1, <1>5
  <2>2. k # 1 => k - 1 \in DOMAIN stack[u] /\ stack'[u][k - 1] = stack[u][k - 1]
    BY <1>1, <2>1
  <2>3. IF k = 1 THEN stack[u][k].role = "exec" <=> u # MainThread
        ELSE stack[u][k].role = "exec" <=> stack[u][k - 1].role = "join"
    BY <2>1 DEF Nesting
  <2> QED
    BY <2>1, <2>2, <2>3
<1> QED
  BY <1>4, <1>5

\* The callbacks of call x in flight, spelt out.
LEMMA ExecFramesMember ==
  ASSUME NEW st, NEW x
  PROVE  \A f : f \in ExecFrames(st, x) <=>
           \E t \in Threads : \E k \in DOMAIN st[t] :
             f = <<t, k>> /\ st[t][k].role = "exec" /\ st[t][k].call = x
<1>1. \A f : f \in Frames(st) <=> \E t \in Threads : \E k \in DOMAIN st[t] : f = <<t, k>>
  BY DEF Frames
<1> QED
  BY <1>1 DEF ExecFrames

\* Entering a callback adds it to those in flight; entering executeParallel
\* adds none.
LEMMA PushInFlight ==
  ASSUME stack \in [Threads -> Seq(Frame)],
         NEW t \in Threads, NEW f \in Frame,
         stack' = Pushed(t, f), NEW x
  PROVE  /\ <<t, Len(stack[t]) + 1>> \notin InFlight(x)
         /\ InFlight(x)' = IF f.role = "exec" /\ f.call = x
                           THEN InFlight(x) \union {<<t, Len(stack[t]) + 1>>}
                           ELSE InFlight(x)
<1> DEFINE n == Len(stack[t])
           g == <<t, n + 1>>
<1>1. /\ n \in Nat
      /\ DOMAIN stack[t] = 1..n
      /\ DOMAIN stack'[t] = 1..(n + 1)
      /\ stack'[t][n + 1] = f
      /\ \A k \in 1..n : stack'[t][k] = stack[t][k]
      /\ \A u \in Threads \ {t} : stack'[u] = stack[u]
  BY PushFrame
<1>2. g \notin ExecFrames(stack, x)
  BY <1>1, ExecFramesMember
<1>3. ASSUME NEW h
      PROVE  h \in ExecFrames(stack', x) <=>
               \/ h \in ExecFrames(stack, x)
               \/ h = g /\ f.role = "exec" /\ f.call = x
  <2>1. h \in ExecFrames(stack', x) <=>
          \E u \in Threads : \E k \in DOMAIN stack'[u] :
             h = <<u, k>> /\ stack'[u][k].role = "exec" /\ stack'[u][k].call = x
    BY ExecFramesMember
  <2>2. h \in ExecFrames(stack, x) <=>
          \E u \in Threads : \E k \in DOMAIN stack[u] :
             h = <<u, k>> /\ stack[u][k].role = "exec" /\ stack[u][k].call = x
    BY ExecFramesMember
  <2>3. ASSUME NEW u \in Threads, NEW k, h = <<u, k>>
        PROVE  (k \in DOMAIN stack'[u] /\ stack'[u][k].role = "exec" /\ stack'[u][k].call = x)
                 <=> \/ k \in DOMAIN stack[u] /\ stack[u][k].role = "exec" /\ stack[u][k].call = x
                     \/ h = g /\ f.role = "exec" /\ f.call = x
    <3>1. CASE u # t
      <4>1. stack'[u] = stack[u]
        BY <1>1, <3>1
      <4>2. h # g
        BY <2>3, <3>1
      <4> QED
        BY <4>1, <4>2
    <3>2. CASE u = t
      <4>1. h = g <=> k = n + 1
        BY <2>3, <3>2
      <4>2. k \in DOMAIN stack'[t] <=> k \in DOMAIN stack[t] \/ k = n + 1
        <5> HIDE DEF n
        <5> QED
          BY <1>1
      <4>3. /\ k \in DOMAIN stack[t] => stack'[t][k] = stack[t][k] /\ k # n + 1
            /\ k = n + 1 => stack'[t][k] = f
        <5> HIDE DEF n
        <5> QED
          BY <1>1
      <4> HIDE DEF g, n
      <4> QED
        BY <3>2, <4>1, <4>2, <4>3
    <3> QED
      BY <3>1, <3>2
  <2> QED
    BY <1>1, <2>1, <2>2, <2>3
<1> QED
  BY <1>2, <1>3 DEF InFlight

\* Leaving a callback takes it from those in flight; leaving executeParallel
\* takes none.
LEMMA PopInFlight ==
  ASSUME stack \in [Threads -> Seq(Frame)],
         NEW t \in Threads, stack[t] # <<>>,
         stack' = Popped(t), NEW x
  PROVE  /\ <<t, Len(stack[t])>> \in InFlight(x) <=> TopIs(t, "exec") /\ Top(t).call = x
         /\ InFlight(x)' = InFlight(x) \ {<<t, Len(stack[t])>>}
<1> DEFINE n == Len(stack[t])
           g == <<t, n>>
<1>1. /\ n \in Nat \ {0}
      /\ DOMAIN stack[t] = 1..n
      /\ DOMAIN stack'[t] = 1..(n - 1)
      /\ \A k \in 1..(n - 1) : stack'[t][k] = stack[t][k]
      /\ \A u \in Threads \ {t} : stack'[u] = stack[u]
  BY PopFrame
<1>2. g \in ExecFrames(stack, x) <=> TopIs(t, "exec") /\ Top(t).call = x
  BY <1>1, ExecFramesMember DEF TopIs, Top
<1>3. ASSUME NEW h
      PROVE  h \in ExecFrames(stack', x) <=> h \in ExecFrames(stack, x) /\ h # g
  <2>1. h \in ExecFrames(stack', x) <=>
          \E u \in Threads : \E k \in DOMAIN stack'[u] :
             h = <<u, k>> /\ stack'[u][k].role = "exec" /\ stack'[u][k].call = x
    BY ExecFramesMember
  <2>2. h \in ExecFrames(stack, x) <=>
          \E u \in Threads : \E k \in DOMAIN stack[u] :
             h = <<u, k>> /\ stack[u][k].role = "exec" /\ stack[u][k].call = x
    BY ExecFramesMember
  <2>3. ASSUME NEW u \in Threads, NEW k, h = <<u, k>>
        PROVE  (k \in DOMAIN stack'[u] /\ stack'[u][k].role = "exec" /\ stack'[u][k].call = x)
                 <=> /\ k \in DOMAIN stack[u] /\ stack[u][k].role = "exec" /\ stack[u][k].call = x
                     /\ h # g
    <3>1. CASE u # t
      <4>1. stack'[u] = stack[u]
        BY <1>1, <3>1
      <4>2. h # g
        BY <2>3, <3>1
      <4> QED
        BY <4>1, <4>2
    <3>2. CASE u = t
      <4>1. h # g <=> k # n
        BY <2>3, <3>2
      <4>2. k \in DOMAIN stack'[t] <=> k \in DOMAIN stack[t] /\ k # n
        <5> HIDE DEF n
        <5> QED
          BY <1>1
      <4>3. k \in DOMAIN stack'[t] => stack'[t][k] = stack[t][k]
        <5> HIDE DEF n
        <5> QED
          BY <1>1
      <4> HIDE DEF g
      <4> QED
        BY <3>2, <4>1, <4>2, <4>3
    <3> QED
      BY <3>1, <3>2
  <2> QED
    BY <1>1, <2>1, <2>2, <2>3
<1> QED
  BY <1>2, <1>3 DEF InFlight
-----------------------------------------------------------------------------
\* A step that leaves the tasks and the stacks alone.
LEMMA ControlStep ==
  ASSUME IInv,
         UNCHANGED <<nCalls, call, queue, stack, runs, finished>>,
         running' \in BOOLEAN, pc' \in [Threads -> Pcs],
         MutexHeldOnce', ThreadShape', NoLostWakeup'
  PROVE  IInv'
<1>1. TypeOK'
  BY DEF IInv, TypeOK
<1>2. \A x : InFlight(x)' = InFlight(x)
  BY DEF InFlight, ExecFrames, Frames
<1>3. /\ CallShape' /\ FrameShape' /\ Nesting' /\ SingleFrames' /\ JoinsAreYounger'
      /\ EachIndexOnce' /\ FinishedOnce' /\ MainThreadOnlyRespected'
  BY DEF IInv, CallShape, FrameShape, Nesting, SingleFrames, JoinsAreYounger, HasTask,
         EachIndexOnce, FinishedOnce, MainThreadOnlyRespected, Completed
<1>4. QueueExact'
  BY DEF IInv, QueueExact, HasTask
<1>5. Accounting' /\ \A x \in Calls : IsFiniteSet(InFlight(x)')
  BY <1>2 DEF IInv, Accounting, HasTask
<1> QED
  BY <1>1, <1>3, <1>4, <1>5 DEF IInv

\* m_stateCond.wait, entered under m_stateMutex with nothing to run.
LEMMA SleepStep ==
  ASSUME IInv, NEW t \in Threads, Sleep(t)
  PROVE  IInv'
<1> USE DEF IInv, Sleep, LoopsOn
<1>1. /\ pc \in [Threads -> Pcs]
      /\ pc' = [pc EXCEPT ![t] = "cond"]
      /\ stack' = stack /\ call' = call /\ queue' = queue /\ running' = running
      /\ running \in BOOLEAN
  BY DEF TypeOK
<1>2. pc' \in [Threads -> Pcs]
  BY <1>1 DEF Pcs
<1>3. MutexHeldOnce'
  BY <1>1 DEF MutexHeldOnce
<1>4. ThreadShape'
  BY <1>1 DEF ThreadShape, TopIs, Top, InWorkerLoop
<1>5. Available(t) = {} /\ (TopIs(t, "join") => ~Completed(Top(t).call)) /\ (InWorkerLoop(t) => running)
  BY DEF TopIs, InWorkerLoop
<1>6. NoLostWakeup'
  BY <1>1, <1>5 DEF NoLostWakeup, Available, TopIs, Top, Completed, InWorkerLoop
<1> QED
  BY <1>1, <1>2, <1>3, <1>4, <1>6, ControlStep

\* A worker leaves workerMain with no frame on its stack.
LEMMA WorkerExitStep ==
  ASSUME IInv, NEW t \in Threads, WorkerExit(t)
  PROVE  IInv'
<1> USE DEF IInv, WorkerExit
<1>1. /\ pc \in [Threads -> Pcs]
      /\ pc' = [pc EXCEPT ![t] = "exited"]
      /\ stack' = stack /\ call' = call /\ queue' = queue /\ running' = running
      /\ running \in BOOLEAN
  BY DEF TypeOK
<1>2. pc' \in [Threads -> Pcs]
  BY <1>1 DEF Pcs
<1>3. MutexHeldOnce'
  BY <1>1 DEF MutexHeldOnce
<1>4. ThreadShape'
  BY <1>1 DEF ThreadShape, TopIs, Top, InWorkerLoop
<1>5. NoLostWakeup'
  BY <1>1 DEF NoLostWakeup, Available, TopIs, Top, Completed, InWorkerLoop
<1> QED
  BY <1>1, <1>2, <1>3, <1>4, <1>5, ControlStep

\* A callback returns: it stays accounted for as in flight.
LEMMA ReturnExecStep ==
  ASSUME IInv, NEW t \in Threads, ReturnExec(t)
  PROVE  IInv'
<1> USE DEF IInv, ReturnExec
<1>1. /\ pc \in [Threads -> Pcs]
      /\ pc' = [pc EXCEPT ![t] = "post"]
      /\ stack' = stack /\ call' = call /\ queue' = queue /\ running' = running
      /\ running \in BOOLEAN
  BY DEF TypeOK
<1>2. pc' \in [Threads -> Pcs]
  BY <1>1 DEF Pcs
<1>3. MutexHeldOnce'
  BY <1>1 DEF MutexHeldOnce
<1>4. ThreadShape'
  BY <1>1 DEF ThreadShape, TopIs, Top, InWorkerLoop
<1>5. NoLostWakeup'
  BY <1>1 DEF NoLostWakeup, Available, TopIs, Top, Completed, InWorkerLoop
<1> QED
  BY <1>1, <1>2, <1>3, <1>4, <1>5, ControlStep

\* A woken thread gets m_stateMutex only when no other thread has it.
LEMMA ReacquireStep ==
  ASSUME IInv, NEW t \in Threads, Reacquire(t)
  PROVE  IInv'
<1> USE DEF IInv, Reacquire
<1>1. /\ pc \in [Threads -> Pcs]
      /\ pc' = [pc EXCEPT ![t] = "crit"]
      /\ stack' = stack /\ call' = call /\ queue' = queue /\ running' = running
      /\ running \in BOOLEAN
  BY DEF TypeOK
<1>2. pc' \in [Threads -> Pcs]
  BY <1>1 DEF Pcs
<1>3. MutexHeldOnce'
  BY <1>1 DEF MutexHeldOnce, MutexFree
<1>4. ThreadShape'
  BY <1>1 DEF ThreadShape, TopIs, Top, InWorkerLoop
<1>5. NoLostWakeup'
  BY <1>1 DEF NoLostWakeup, Available, TopIs, Top, Completed, InWorkerLoop
<1> QED
  BY <1>1, <1>2, <1>3, <1>4, <1>5, ControlStep

\* A spurious wakeup finds the thread in a loop that tests its condition again.
LEMMA SpuriousWakeupStep ==
  ASSUME IInv, NEW t \in Threads, SpuriousWakeup(t)
  PROVE  IInv'
<1> USE DEF IInv, SpuriousWakeup
<1>1. /\ pc \in [Threads -> Pcs]
      /\ pc' = [pc EXCEPT ![t] = "wake"]
      /\ stack' = stack /\ call' = call /\ queue' = queue /\ running' = running
      /\ running \in BOOLEAN
  BY DEF TypeOK
<1>2. pc' \in [Threads -> Pcs]
  BY <1>1 DEF Pcs
<1>3. MutexHeldOnce'
  BY <1>1 DEF MutexHeldOnce
<1>4. ThreadShape'
  BY <1>1 DEF ThreadShape, TopIs, Top, InWorkerLoop
<1>5. NoLostWakeup'
  BY <1>1 DEF NoLostWakeup, Available, TopIs, Top, Completed, InWorkerLoop
<1> QED
  BY <1>1, <1>2, <1>3, <1>4, <1>5, ControlStep

\* terminate() clears m_running and wakes every sleeper.
LEMMA TerminateStep ==
  ASSUME IInv, Terminate
  PROVE  IInv'
<1> USE DEF IInv, Terminate
<1>1. /\ pc \in [Threads -> Pcs]
      /\ pc' = [Awakened EXCEPT ![MainThread] = "joining"]
      /\ stack' = stack /\ call' = call /\ queue' = queue /\ running' = FALSE
      /\ MainThread \in Threads
  BY ConstantsAssumption DEF TypeOK
<1>2. /\ pc' \in [Threads -> Pcs]
      /\ \A t \in Threads : pc'[t] =
           IF t = MainThread THEN "joining" ELSE IF pc[t] = "cond" THEN "wake" ELSE pc[t]
  BY <1>1 DEF Pcs, Awakened
<1>3. MutexHeldOnce'
  BY <1>2 DEF MutexHeldOnce
<1>4. ThreadShape'
  BY <1>1, <1>2 DEF ThreadShape, TopIs, Top, InWorkerLoop
<1>5. NoLostWakeup'
  BY <1>2 DEF NoLostWakeup
<1> QED
  BY <1>1, <1>2, <1>3, <1>4, <1>5, ControlStep

\* The main thread leaves terminate() with no frame on its stack.
LEMMA TerminatedStep ==
  ASSUME IInv, Terminated
  PROVE  IInv'
<1> USE DEF IInv, Terminated
<1>1. /\ pc \in [Threads -> Pcs]
      /\ pc' = [pc EXCEPT ![MainThread] = "exited"]
      /\ stack' = stack /\ call' = call /\ queue' = queue /\ running' = running
      /\ running \in BOOLEAN
      /\ MainThread \in Threads
  BY ConstantsAssumption DEF TypeOK
<1>2. pc' \in [Threads -> Pcs]
  BY <1>1 DEF Pcs
<1>3. MutexHeldOnce'
  BY <1>1 DEF MutexHeldOnce
<1>4. ThreadShape'
  BY <1>1 DEF ThreadShape, TopIs, Top, InWorkerLoop
<1>5. NoLostWakeup'
  BY <1>1 DEF NoLostWakeup, Available, TopIs, Top, Completed, InWorkerLoop
<1> QED
  BY <1>1, <1>2, <1>3, <1>4, <1>5, ControlStep
-----------------------------------------------------------------------------
\* A call not made yet has left no trace.
LEMMA FreshCall ==
  ASSUME IInv, nCalls < MaxCalls
  PROVE  LET x == nCalls + 1
         IN  /\ x \in Calls
             /\ nCalls \in Nat
             /\ call[x].kind = "none" /\ ~call[x].alive /\ call[x].nextIndex = 0
             /\ \A t \in Threads : \A k \in DOMAIN stack[t] :
                  stack[t][k].call \in Calls /\ stack[t][k].call # x
             /\ InFlight(x) = {}
             /\ \A q \in Queues : \A k \in DOMAIN queue[q] : queue[q][k] # x
             /\ \A i \in Indices : runs[x][i] = 0
             /\ finished[x] = 0
<1> DEFINE x == nCalls + 1
<1>1. /\ x \in Calls /\ nCalls \in Nat
  BY ConstantsAssumption DEF IInv, TypeOK, Calls
<1>2. /\ call[x].kind = "none" /\ ~call[x].alive /\ call[x].nextIndex = 0
  BY <1>1 DEF IInv, CallShape
<1>3. \A t \in Threads : \A k \in DOMAIN stack[t] :
        stack[t][k].call \in Calls /\ stack[t][k].call # x
  <2> SUFFICES ASSUME NEW t \in Threads, NEW k \in DOMAIN stack[t]
               PROVE  stack[t][k].call \in Calls /\ stack[t][k].call # x
    OBVIOUS
  <2>1. stack[t][k].call \in Calls
    BY FrameTyped DEF IInv, TypeOK
  <2>2. call[stack[t][k].call].alive
    BY DEF IInv, FrameShape
  <2> QED
    BY <1>2, <2>1, <2>2
<1>4. InFlight(x) = {}
  BY <1>3, ExecFramesMember DEF InFlight
<1>5. \A q \in Queues : \A k \in DOMAIN queue[q] : queue[q][k] # x
  BY <1>1, <1>2 DEF IInv, QueueExact, HasTask
<1>6. \A i \in Indices : runs[x][i] = 0
  BY <1>1, <1>2 DEF IInv, EachIndexOnce, Indices
<1>7. finished[x] = 0
  BY <1>1, <1>2 DEF IInv, FinishedOnce
<1> QED
  BY <1>1, <1>2, <1>3, <1>4, <1>5, <1>6, <1>7

\* executeParallel runs a single iteration itself.
LEMMA ExecuteParallelInlineStep ==
  ASSUME IInv, NEW t \in Threads, NEW flag \in Queues, ExecuteParallelInline(t, flag)
  PROVE  IInv'
<1> DEFINE x == nCalls + 1
           f == [role |-> "inline", call |-> x, index |-> 0]
           r == [kind |-> "inline", flag |-> flag, count |-> 1,
                 nextIndex |-> 1, completedCount |-> 0, alive |-> TRUE]
           n == Len(stack[t])
<1> USE DEF ExecuteParallelInline, NewCall, IInv
<1>1. /\ x \in Calls /\ nCalls \in Nat
      /\ call[x].kind = "none" /\ ~call[x].alive /\ call[x].nextIndex = 0
      /\ \A u \in Threads : \A k \in DOMAIN stack[u] :
           stack[u][k].call \in Calls /\ stack[u][k].call # x
      /\ InFlight(x) = {}
      /\ \A q \in Queues : \A k \in DOMAIN queue[q] : queue[q][k] # x
      /\ \A i \in Indices : runs[x][i] = 0
      /\ finished[x] = 0
  BY FreshCall
<1>2. f \in Frame /\ stack \in [Threads -> Seq(Frame)]
  BY <1>1 DEF TypeOK, Frame
<1>3. /\ stack' \in [Threads -> Seq(Frame)]
      /\ n \in Nat
      /\ DOMAIN stack[t] = 1..n
      /\ Len(stack'[t]) = n + 1
      /\ DOMAIN stack'[t] = 1..(n + 1)
      /\ stack'[t][n + 1] = f
      /\ \A k \in DOMAIN stack[t] : stack'[t][k] = stack[t][k]
      /\ \A u \in Threads \ {t} : stack'[u] = stack[u]
  BY <1>2, PushFrame
<1>4. \A u \in Threads : \A k \in DOMAIN stack'[u] :
        \/ u = t /\ k = n + 1 /\ stack'[u][k] = f
        \/ /\ k \in DOMAIN stack[u] /\ stack'[u][k] = stack[u][k]
           /\ u = t => k < n + 1
  BY <1>2, PushFrame
<1>5. \A y : InFlight(y)' = InFlight(y)
  BY <1>2, PushInFlight
<1>6. /\ call \in [Calls -> CallRecord]
      /\ nCalls' = x /\ x \in 0..MaxCalls /\ MaxCount \in Nat /\ MaxCount >= 1
      /\ call' = [call EXCEPT ![x] = r]
      /\ queue' = queue /\ running' = running /\ pc' = pc /\ finished' = finished
      /\ runs' = [runs EXCEPT ![x][0] = @ + 1]
      /\ pc[t] = "user"
      /\ flag # "main" \/ t = MainThread
  BY <1>1, ConstantsAssumption DEF TypeOK, Calls, RunsInline
<1>7. r \in CallRecord
  BY <1>6 DEF CallRecord
<1>8. /\ r.kind = "inline" /\ r.flag = flag /\ r.count = 1 /\ r.nextIndex = 1
      /\ r.completedCount = 0 /\ r.alive = TRUE
      /\ f.role = "inline" /\ f.call = x
  OBVIOUS
<1> HIDE DEF x, f, n, r, ExecuteParallelInline, NewCall
<1>9. /\ call'[x] = r
      /\ \A y \in Calls \ {x} : call'[y] = call[y]
      /\ call' \in [Calls -> CallRecord]
  BY <1>1, <1>6, <1>7
<1>10. runs' \in [Calls -> [Indices -> Nat]] /\ EachIndexOnce'
  <2>1. /\ \A i \in Indices : runs'[x][i] = IF i = 0 THEN 1 ELSE 0
        /\ \A y \in Calls \ {x} : runs'[y] = runs[y]
        /\ runs' \in [Calls -> [Indices -> Nat]]
    BY <1>1, <1>6 DEF TypeOK, Indices
  <2> QED
    BY <1>1, <1>8, <1>9, <2>1 DEF EachIndexOnce, Indices
<1>11. TypeOK'
  BY <1>3, <1>6, <1>9, <1>10 DEF TypeOK
<1>12. MutexHeldOnce' /\ FinishedOnce'
  BY <1>1, <1>6, <1>8, <1>9 DEF MutexHeldOnce, FinishedOnce
<1>13. ThreadShape'
  BY <1>3, <1>6, <1>8 DEF ThreadShape, TopIs, Top, InWorkerLoop
<1>14. CallShape'
  BY <1>1, <1>6, <1>8, <1>9 DEF CallShape, Completed, Calls, x
<1>15. FrameShape'
  BY <1>1, <1>4, <1>8, <1>9 DEF FrameShape, HasTask
<1>16. Nesting'
  <2>1. /\ stack' = Pushed(t, f)
        /\ IF stack[t] = <<>> THEN f.role = "exec" <=> t # MainThread
                              ELSE f.role = "exec" <=> Top(t).role = "join"
    BY <1>6, <1>8 DEF ThreadShape, TopIs, ExecuteParallelInline, f, x
  <2> QED
    BY <1>2, <2>1, PushNesting
<1>17. SingleFrames'
  BY <1>1, <1>4, <1>8 DEF SingleFrames
<1>18. JoinsAreYounger'
  BY <1>3, <1>4, <1>8 DEF JoinsAreYounger
<1>19. Accounting' /\ \A y \in Calls : IsFiniteSet(InFlight(y)')
  BY <1>5, <1>8, <1>9 DEF Accounting, HasTask
<1>20. QueueExact'
  BY <1>1, <1>6, <1>8, <1>9 DEF QueueExact, HasTask
<1>21. MainThreadOnlyRespected'
  BY <1>1, <1>4, <1>6, <1>8, <1>9 DEF MainThreadOnlyRespected
<1>22. NoLostWakeup'
  BY <1>1, <1>3, <1>6, <1>9, FrameTyped DEF NoLostWakeup, Available, TopIs, Top, Completed, InWorkerLoop, TypeOK
<1> QED
  BY <1>11, <1>12, <1>13, <1>14, <1>15, <1>16, <1>17, <1>18, <1>19, <1>20, <1>21,
     <1>22, <1>10

\* Putting the Task of a new call in its queue.
LEMMA EnqueueFresh ==
  ASSUME queue \in [Queues -> Seq(Calls)], QueueExact,
         NEW x \in Calls, ~HasTask(x), NEW flag \in Queues,
         queue' = [queue EXCEPT ![flag] = Append(@, x)],
         call'[x].kind \in {"sync", "async"}, call'[x].flag = flag,
         call'[x].nextIndex < call'[x].count,
         \A y \in Calls \ {x} : call'[y] = call[y]
  PROVE  queue' \in [Queues -> Seq(Calls)] /\ QueueExact'
<1>1. /\ queue' \in [Queues -> Seq(Calls)]
      /\ \A q \in Queues \ {flag} : queue'[q] = queue[q]
      /\ Len(queue[flag]) \in Nat
      /\ DOMAIN queue[flag] = 1..Len(queue[flag])
      /\ DOMAIN queue'[flag] = 1..(Len(queue[flag]) + 1)
      /\ queue'[flag][Len(queue[flag]) + 1] = x
      /\ \A k \in DOMAIN queue[flag] : queue'[flag][k] = queue[flag][k]
  OBVIOUS
<1>2. SUFFICES ASSUME NEW q \in Queues
      PROVE  /\ \A k, l \in DOMAIN queue'[q] : queue'[q][k] = queue'[q][l] => k = l
             /\ \A y \in Calls :
                  (\E k \in DOMAIN queue'[q] : queue'[q][k] = y)
                    <=> /\ call'[y].kind \in {"sync", "async"}
                        /\ call'[y].flag = q
                        /\ call'[y].nextIndex < call'[y].count
  BY <1>1 DEF QueueExact, HasTask
<1>3. /\ \A k, l \in DOMAIN queue[q] : queue[q][k] = queue[q][l] => k = l
      /\ \A y \in Calls :
           (\E k \in DOMAIN queue[q] : queue[q][k] = y)
              <=> /\ call[y].kind \in {"sync", "async"}
                  /\ call[y].flag = q
                  /\ call[y].nextIndex < call[y].count
      /\ \A k \in DOMAIN queue[q] : queue[q][k] # x
  BY DEF QueueExact, HasTask
<1>4. CASE q # flag
  <2>1. queue'[q] = queue[q]
    BY <1>1, <1>4
  <2>2. call'[x].flag # q
    BY <1>4
  <2>3. ASSUME NEW y \in Calls
        PROVE  (\E k \in DOMAIN queue'[q] : queue'[q][k] = y)
                 <=> /\ call'[y].kind \in {"sync", "async"}
                     /\ call'[y].flag = q
                     /\ call'[y].nextIndex < call'[y].count
    <3>1. CASE y = x
      BY <1>3, <2>1, <2>2, <3>1
    <3>2. CASE y # x
      <4>1. call'[y] = call[y]
        BY <3>2
      <4> QED
        BY <1>3, <2>1, <4>1
    <3> QED
      BY <3>1, <3>2
  <2> QED
    BY <1>3, <2>1, <2>3
<1>5. CASE q = flag
  <2>1. \A k \in DOMAIN queue'[q] :
          \/ k \in DOMAIN queue[q] /\ queue'[q][k] = queue[q][k]
          \/ k = Len(queue[q]) + 1 /\ queue'[q][k] = x
    BY <1>1, <1>5
  <2>2. \A k, l \in DOMAIN queue'[q] : queue'[q][k] = queue'[q][l] => k = l
    BY <1>3, <2>1
  <2>3. \E k \in DOMAIN queue'[q] : queue'[q][k] = x
    BY <1>1, <1>5
  <2>4. \A y \in Calls \ {x} : (\E k \in DOMAIN queue'[q] : queue'[q][k] = y)
                                  <=> (\E k \in DOMAIN queue[q] : queue[q][k] = y)
    <3>1. \A k \in DOMAIN queue[q] : k \in DOMAIN queue'[q] /\ queue'[q][k] = queue[q][k]
      BY <1>1, <1>5
    <3> QED
      BY <2>1, <3>1
  <2>5. ASSUME NEW y \in Calls
        PROVE  (\E k \in DOMAIN queue'[q] : queue'[q][k] = y)
                 <=> /\ call'[y].kind \in {"sync", "async"}
                     /\ call'[y].flag = q
                     /\ call'[y].nextIndex < call'[y].count
    <3>1. CASE y = x
      BY <1>5, <2>3, <3>1
    <3>2. CASE y # x
      <4>1. call'[y] = call[y]
        BY <3>2
      <4> QED
        BY <1>3, <2>4, <3>2, <4>1
    <3> QED
      BY <3>1, <3>2
  <2> QED
    BY <2>2, <2>5
<1> QED
  BY <1>4, <1>5

\* executeParallel queues the Task on its stack, wakes everybody and waits.
LEMMA ExecuteParallelStep ==
  ASSUME IInv, NEW t \in Threads, NEW flag \in Queues, NEW m \in 1..MaxCount,
         ExecuteParallel(t, m, flag)
  PROVE  IInv'
<1> DEFINE x == nCalls + 1
           f == [role |-> "join", call |-> x, index |-> 0]
           r == [kind |-> "sync", flag |-> flag, count |-> m,
                 nextIndex |-> 0, completedCount |-> 0, alive |-> TRUE]
           n == Len(stack[t])
<1> USE DEF ExecuteParallel, NewCall, IInv
<1>1. /\ x \in Calls /\ nCalls \in Nat
      /\ call[x].kind = "none" /\ ~call[x].alive /\ call[x].nextIndex = 0
      /\ \A u \in Threads : \A k \in DOMAIN stack[u] :
           stack[u][k].call \in Calls /\ stack[u][k].call # x
      /\ InFlight(x) = {}
      /\ \A q \in Queues : \A k \in DOMAIN queue[q] : queue[q][k] # x
      /\ \A i \in Indices : runs[x][i] = 0
      /\ finished[x] = 0
  BY FreshCall
<1>2. f \in Frame /\ stack \in [Threads -> Seq(Frame)]
  BY <1>1 DEF TypeOK, Frame
<1>3. /\ stack' \in [Threads -> Seq(Frame)]
      /\ n \in Nat
      /\ DOMAIN stack[t] = 1..n
      /\ Len(stack'[t]) = n + 1
      /\ DOMAIN stack'[t] = 1..(n + 1)
      /\ stack'[t][n + 1] = f
      /\ \A k \in DOMAIN stack[t] : stack'[t][k] = stack[t][k]
      /\ \A u \in Threads \ {t} : stack'[u] = stack[u]
  BY <1>2, PushFrame
<1>4. \A u \in Threads : \A k \in DOMAIN stack'[u] :
        \/ u = t /\ k = n + 1 /\ stack'[u][k] = f
        \/ /\ k \in DOMAIN stack[u] /\ stack'[u][k] = stack[u][k]
           /\ u = t => k < n + 1
  BY <1>2, PushFrame
<1>5. \A y : InFlight(y)' = InFlight(y)
  BY <1>2, PushInFlight
<1>6. /\ call \in [Calls -> CallRecord]
      /\ nCalls' = x /\ x \in 0..MaxCalls /\ MaxCount \in Nat
      /\ call' = [call EXCEPT ![x] = r]
      /\ queue' = [queue EXCEPT ![flag] = Append(@, x)]
      /\ running' = running /\ finished' = finished /\ runs' = runs
      /\ pc[t] = "user" /\ m > 0
      /\ pc' = [Awakened EXCEPT ![t] = "crit"]
      /\ pc \in [Threads -> Pcs]
      /\ \A u \in Threads : pc[u] # "crit"
  BY <1>1, ConstantsAssumption DEF TypeOK, Calls, MutexFree
<1>7. r \in CallRecord
  BY <1>6 DEF CallRecord
<1>8. /\ r.kind = "sync" /\ r.flag = flag /\ r.count = m /\ r.nextIndex = 0
      /\ r.completedCount = 0 /\ r.alive = TRUE
      /\ f.role = "join" /\ f.call = x
  OBVIOUS
<1>9. /\ stack' = Pushed(t, f)
      /\ IF stack[t] = <<>> THEN f.role = "exec" <=> t # MainThread
                            ELSE f.role = "exec" <=> Top(t).role = "join"
  BY <1>6, <1>8 DEF ThreadShape, TopIs
<1> HIDE DEF x, f, n, r, ExecuteParallel, NewCall
<1>10. /\ call'[x] = r
       /\ \A y \in Calls \ {x} : call'[y] = call[y]
       /\ call' \in [Calls -> CallRecord]
  BY <1>1, <1>6, <1>7
<1>11. /\ pc' \in [Threads -> Pcs]
       /\ \A u \in Threads : pc'[u] =
            IF u = t THEN "crit" ELSE IF pc[u] = "cond" THEN "wake" ELSE pc[u]
  BY <1>6 DEF Awakened, Pcs
<1>12. queue' \in [Queues -> Seq(Calls)] /\ QueueExact'
  <2>1. queue \in [Queues -> Seq(Calls)] /\ QueueExact /\ ~HasTask(x)
    BY <1>1 DEF TypeOK, HasTask
  <2>2. /\ queue' = [queue EXCEPT ![flag] = Append(@, x)]
        /\ \A y \in Calls \ {x} : call'[y] = call[y]
        /\ x \in Calls
    BY <1>1, <1>6, <1>10
  <2>3. /\ call'[x].kind \in {"sync", "async"} /\ call'[x].flag = flag
        /\ call'[x].nextIndex < call'[x].count
    BY <1>8, <1>10
  <2> HIDE DEF IInv
  <2> QED
    BY <2>1, <2>2, <2>3, EnqueueFresh
<1>13. TypeOK'
  BY <1>3, <1>6, <1>10, <1>11, <1>12 DEF TypeOK
<1>14. MutexHeldOnce'
  BY <1>6, <1>11 DEF MutexHeldOnce
<1>15. FinishedOnce' /\ EachIndexOnce'
  BY <1>1, <1>6, <1>8, <1>10 DEF FinishedOnce, EachIndexOnce, Indices
<1>16. ThreadShape'
  BY <1>3, <1>6, <1>8, <1>11 DEF ThreadShape, TopIs, Top, InWorkerLoop
<1>17. CallShape'
  BY <1>1, <1>6, <1>8, <1>10 DEF CallShape, Completed, Calls, x
<1>18. FrameShape'
  BY <1>1, <1>4, <1>8, <1>10 DEF FrameShape, HasTask
<1>19. Nesting'
  BY <1>2, <1>9, PushNesting
<1>20. SingleFrames'
  BY <1>1, <1>4, <1>8 DEF SingleFrames
<1>21. JoinsAreYounger'
  <2>1. \A u \in Threads : \A k \in DOMAIN stack[u] : stack[u][k].call < x
    <3> SUFFICES ASSUME NEW u \in Threads, NEW k \in DOMAIN stack[u]
                 PROVE  stack[u][k].call < x
      OBVIOUS
    <3>1. /\ stack[u][k].call \in Calls
          /\ stack[u][k].role \in {"exec", "inline", "join"}
      BY <1>2, FrameTyped
    <3>2. call[stack[u][k].call].kind # "none"
      BY <3>1 DEF FrameShape, HasTask
    <3> QED
      BY <1>1, <3>1, <3>2 DEF CallShape, Calls, x
  <2> QED
    BY <1>3, <1>4, <1>8, <2>1 DEF JoinsAreYounger
<1>22. Accounting' /\ \A y \in Calls : IsFiniteSet(InFlight(y)')
  <2>1. r.completedCount + Cardinality(InFlight(x)) = r.nextIndex
    BY <1>1, <1>8, FS_EmptySet
  <2> QED
    BY <1>5, <1>8, <1>10, <2>1 DEF Accounting, HasTask
<1>23. QueueExact'
  BY <1>12
<1>24. MainThreadOnlyRespected'
  BY <1>1, <1>4, <1>8, <1>10 DEF MainThreadOnlyRespected
<1>25. NoLostWakeup'
  BY <1>6, <1>11 DEF NoLostWakeup
<1> QED
  BY <1>13, <1>14, <1>15, <1>16, <1>17, <1>18, <1>19, <1>20, <1>21, <1>22, <1>23,
     <1>24, <1>25

\* executeParallelAsync queues a Task on the heap and wakes everybody.
LEMMA ExecuteParallelAsyncStep ==
  ASSUME IInv, NEW t \in Threads, NEW flag \in Queues, NEW m \in 1..MaxCount,
         ExecuteParallelAsync(t, m, flag)
  PROVE  IInv'
<1> DEFINE x == nCalls + 1
           r == [kind |-> "async", flag |-> flag, count |-> m,
                 nextIndex |-> 0, completedCount |-> 0, alive |-> TRUE]
<1> USE DEF ExecuteParallelAsync, NewCall, IInv
<1>1. /\ x \in Calls /\ nCalls \in Nat
      /\ call[x].kind = "none" /\ ~call[x].alive /\ call[x].nextIndex = 0
      /\ \A u \in Threads : \A k \in DOMAIN stack[u] :
           stack[u][k].call \in Calls /\ stack[u][k].call # x
      /\ InFlight(x) = {}
      /\ \A i \in Indices : runs[x][i] = 0
      /\ finished[x] = 0
  BY FreshCall
<1>2. /\ call \in [Calls -> CallRecord]
      /\ nCalls' = x /\ x \in 0..MaxCalls /\ MaxCount \in Nat
      /\ call' = [call EXCEPT ![x] = r]
      /\ queue' = [queue EXCEPT ![flag] = Append(@, x)]
      /\ stack' = stack /\ running' = running /\ finished' = finished /\ runs' = runs
      /\ pc[t] = "user" /\ m > 0
      /\ pc' = Awakened
      /\ pc \in [Threads -> Pcs]
      /\ stack \in [Threads -> Seq(Frame)]
  BY <1>1, ConstantsAssumption DEF TypeOK, Calls
<1>3. r \in CallRecord
  BY <1>2 DEF CallRecord
<1>4. /\ r.kind = "async" /\ r.flag = flag /\ r.count = m /\ r.nextIndex = 0
      /\ r.completedCount = 0 /\ r.alive = TRUE
  OBVIOUS
<1> HIDE DEF x, r, ExecuteParallelAsync, NewCall
<1>5. /\ call'[x] = r
      /\ \A y \in Calls \ {x} : call'[y] = call[y]
      /\ call' \in [Calls -> CallRecord]
  BY <1>1, <1>2, <1>3
<1>6. /\ pc' \in [Threads -> Pcs]
      /\ \A u \in Threads : pc'[u] = IF pc[u] = "cond" THEN "wake" ELSE pc[u]
  BY <1>2 DEF Awakened, Pcs
<1>7. \A y : InFlight(y)' = InFlight(y)
  BY <1>2 DEF InFlight, ExecFrames, Frames
<1>8. queue' \in [Queues -> Seq(Calls)] /\ QueueExact'
  BY <1>1, <1>2, <1>4, <1>5, EnqueueFresh DEF TypeOK, HasTask
<1>9. TypeOK'
  BY <1>2, <1>5, <1>6, <1>8 DEF TypeOK
<1>10. MutexHeldOnce' /\ ThreadShape'
  BY <1>2, <1>6 DEF MutexHeldOnce, ThreadShape, TopIs, Top, InWorkerLoop
<1>11. FinishedOnce' /\ EachIndexOnce'
  BY <1>1, <1>2, <1>4, <1>5 DEF FinishedOnce, EachIndexOnce, Indices
<1>12. CallShape'
  BY <1>1, <1>2, <1>4, <1>5 DEF CallShape, Completed, Calls, x
<1>13. FrameShape'
  BY <1>1, <1>2, <1>4, <1>5 DEF FrameShape, HasTask
<1>14. Nesting' /\ SingleFrames' /\ JoinsAreYounger'
  BY <1>2 DEF Nesting, SingleFrames, JoinsAreYounger
<1>15. Accounting' /\ \A y \in Calls : IsFiniteSet(InFlight(y)')
  <2>1. r.completedCount + Cardinality(InFlight(x)) = r.nextIndex
    BY <1>1, <1>4, FS_EmptySet
  <2> QED
    BY <1>4, <1>5, <1>7, <2>1 DEF Accounting, HasTask
<1>16. MainThreadOnlyRespected'
  BY <1>1, <1>2, <1>5 DEF MainThreadOnlyRespected
<1>17. NoLostWakeup'
  BY <1>6 DEF NoLostWakeup
<1> QED
  BY <1>8, <1>9, <1>10, <1>11, <1>12, <1>13, <1>14, <1>15, <1>16, <1>17

\* executeParallelAsync with nothing to run finishes the call at once.
LEMMA ExecuteParallelAsyncEmptyStep ==
  ASSUME IInv, NEW t \in Threads, NEW flag \in Queues,
         ExecuteParallelAsyncEmpty(t, flag)
  PROVE  IInv'
<1> DEFINE x == nCalls + 1
           r == [kind |-> "async", flag |-> flag, count |-> 0,
                 nextIndex |-> 0, completedCount |-> 0, alive |-> FALSE]
<1> USE DEF ExecuteParallelAsyncEmpty, NewCall, IInv
<1>1. /\ x \in Calls /\ nCalls \in Nat
      /\ call[x].kind = "none" /\ ~call[x].alive /\ call[x].nextIndex = 0
      /\ \A u \in Threads : \A k \in DOMAIN stack[u] :
           stack[u][k].call \in Calls /\ stack[u][k].call # x
      /\ InFlight(x) = {}
      /\ \A i \in Indices : runs[x][i] = 0
      /\ finished[x] = 0
  BY FreshCall
<1>2. /\ call \in [Calls -> CallRecord]
      /\ nCalls' = x /\ x \in 0..MaxCalls /\ MaxCount \in Nat
      /\ call' = [call EXCEPT ![x] = r]
      /\ queue' = queue /\ stack' = stack /\ running' = running /\ runs' = runs
      /\ finished' = [finished EXCEPT ![x] = @ + 1]
      /\ pc' = pc
      /\ stack \in [Threads -> Seq(Frame)]
  BY <1>1, ConstantsAssumption DEF TypeOK, Calls
<1>3. r \in CallRecord
  BY <1>2 DEF CallRecord
<1>4. /\ r.kind = "async" /\ r.flag = flag /\ r.count = 0 /\ r.nextIndex = 0
      /\ r.completedCount = 0 /\ r.alive = FALSE
  OBVIOUS
<1> HIDE DEF x, r, ExecuteParallelAsyncEmpty, NewCall
<1>5. /\ call'[x] = r
      /\ \A y \in Calls \ {x} : call'[y] = call[y]
      /\ call' \in [Calls -> CallRecord]
  BY <1>1, <1>2, <1>3
<1>6. \A y : InFlight(y)' = InFlight(y)
  BY <1>2 DEF InFlight, ExecFrames, Frames
<1>7. /\ finished' \in [Calls -> Nat]
      /\ finished'[x] = 1
      /\ \A y \in Calls \ {x} : finished'[y] = finished[y]
  BY <1>1, <1>2 DEF TypeOK
<1>8. TypeOK'
  BY <1>2, <1>5, <1>7 DEF TypeOK
<1>9. MutexHeldOnce' /\ ThreadShape'
  BY <1>2 DEF MutexHeldOnce, ThreadShape, TopIs, Top, InWorkerLoop
<1>10. FinishedOnce' /\ EachIndexOnce'
  BY <1>1, <1>2, <1>4, <1>5, <1>7 DEF FinishedOnce, EachIndexOnce, Indices
<1>11. CallShape'
  BY <1>1, <1>2, <1>4, <1>5 DEF CallShape, Completed, Calls, x
<1>12. FrameShape'
  BY <1>1, <1>2, <1>4, <1>5 DEF FrameShape, HasTask
<1>13. Nesting' /\ SingleFrames' /\ JoinsAreYounger'
  <2>1. stack' = stack /\ Nesting /\ SingleFrames /\ JoinsAreYounger
    BY <1>2
  <2> HIDE DEF IInv
  <2> QED
    BY ONLY <2>1 DEF Nesting, SingleFrames, JoinsAreYounger
<1>14. Accounting' /\ \A y \in Calls : IsFiniteSet(InFlight(y)')
  <2>1. r.completedCount + Cardinality(InFlight(x)) = r.nextIndex
    BY <1>1, <1>4, FS_EmptySet
  <2> QED
    BY <1>4, <1>5, <1>6, <2>1 DEF Accounting, HasTask
<1>15. QueueExact'
  BY <1>1, <1>2, <1>4, <1>5 DEF QueueExact, HasTask
<1>16. MainThreadOnlyRespected'
  BY <1>1, <1>2, <1>5 DEF MainThreadOnlyRespected
<1>17. NoLostWakeup'
  BY <1>1, <1>2, <1>5, FrameTyped DEF NoLostWakeup, Available, TopIs, Top, Completed, InWorkerLoop
<1> QED
  BY <1>8, <1>9, <1>10, <1>11, <1>12, <1>13, <1>14, <1>15, <1>16, <1>17
-----------------------------------------------------------------------------
\* The frame of a call with no callback of a Task in flight is its only one.
LEMMA OnlyFrame ==
  ASSUME IInv, NEW t \in Threads, stack[t] # <<>>, Top(t).role # "exec",
         InFlight(Top(t).call) = {}
  PROVE  \A u \in Threads : \A k \in DOMAIN stack[u] :
           stack[u][k].call = Top(t).call => u = t /\ k = Len(stack[t])
<1>1. stack \in [Threads -> Seq(Frame)] /\ Len(stack[t]) \in DOMAIN stack[t]
  BY DEF IInv, TypeOK
<1>2. SUFFICES ASSUME NEW u \in Threads, NEW k \in DOMAIN stack[u],
                      stack[u][k].call = Top(t).call
               PROVE  u = t /\ k = Len(stack[t])
  OBVIOUS
<1>3. stack[u][k].role # "exec"
  BY <1>2, ExecFramesMember DEF InFlight
<1> QED
  BY <1>1, <1>2, <1>3 DEF IInv, SingleFrames, Top

\* A call with its last index accounted for has no callback in flight.
LEMMA CompletedIsQuiet ==
  ASSUME IInv, NEW x \in Calls, HasTask(x), Completed(x)
  PROVE  call[x].nextIndex = call[x].count /\ InFlight(x) = {}
<1>1. /\ call[x].nextIndex \in Nat /\ call[x].count \in Nat
      /\ call[x].completedCount \in Nat
  BY ConstantsAssumption DEF IInv, TypeOK, CallRecord
<1>2. /\ call[x].completedCount + Cardinality(InFlight(x)) = call[x].nextIndex
      /\ call[x].nextIndex <= call[x].count
      /\ IsFiniteSet(InFlight(x))
      /\ call[x].completedCount = call[x].count
  BY DEF IInv, Accounting, CallShape, Completed
<1>3. Cardinality(InFlight(x)) \in Nat
  BY <1>2, FS_CardinalityType
<1>4. Cardinality(InFlight(x)) = 0
  BY <1>1, <1>2, <1>3
<1> QED
  BY <1>1, <1>2, <1>4, FS_EmptySet

\* Popping a frame keeps the alternation of frames.
LEMMA PopNesting ==
  ASSUME stack \in [Threads -> Seq(Frame)], Nesting,
         NEW t \in Threads, stack[t] # <<>>,
         stack' = Popped(t)
  PROVE  Nesting'
<1>1. /\ \A u \in Threads \ {t} : stack'[u] = stack[u]
      /\ DOMAIN stack'[t] = 1..(Len(stack[t]) - 1)
      /\ Len(stack[t]) \in Nat \ {0}
      /\ DOMAIN stack[t] = 1..Len(stack[t])
      /\ \A k \in DOMAIN stack'[t] : stack'[t][k] = stack[t][k]
  BY PopFrame
<1>2. SUFFICES ASSUME NEW u \in Threads, NEW k \in DOMAIN stack'[u]
               PROVE  IF k = 1 THEN stack'[u][k].role = "exec" <=> u # MainThread
                      ELSE stack'[u][k].role = "exec" <=> stack'[u][k - 1].role = "join"
  BY DEF Nesting
<1>3. k \in DOMAIN stack[u] /\ stack'[u][k] = stack[u][k]
  <2>1. CASE u = t
    <3>1. k \in 1..(Len(stack[t]) - 1)
      BY <1>1, <2>1
    <3> QED
      BY <1>1, <2>1, <3>1
  <2>2. CASE u # t
    BY <1>1, <2>2
  <2> QED
    BY <2>1, <2>2
<1>4. k # 1 => stack'[u][k - 1] = stack[u][k - 1]
  <2>1. CASE u = t
    <3>1. k # 1 => k - 1 \in DOMAIN stack'[t]
      BY <1>1, <2>1
    <3> QED
      BY <1>1, <2>1, <3>1
  <2>2. CASE u # t
    BY <1>1, <2>2
  <2> QED
    BY <2>1, <2>2
<1>5. IF k = 1 THEN stack[u][k].role = "exec" <=> u # MainThread
      ELSE stack[u][k].role = "exec" <=> stack[u][k - 1].role = "join"
  BY <1>3 DEF Nesting
<1> QED
  BY <1>3, <1>4, <1>5

\* What is left of the stack when the innermost frame is popped.
LEMMA PopShape ==
  ASSUME IInv, NEW t \in Threads, stack[t] # <<>>, stack' = Popped(t)
  PROVE  /\ stack'[t] = <<>> => (Top(t).role = "exec" <=> t # MainThread)
         /\ stack'[t] # <<>> =>
              /\ Top(t)' \in Frame
              /\ Top(t).role = "exec" <=> Top(t)'.role = "join"
<1> DEFINE n == Len(stack[t])
<1>1. /\ stack' \in [Threads -> Seq(Frame)]
      /\ n \in Nat \ {0}
      /\ Len(stack'[t]) = n - 1
      /\ DOMAIN stack'[t] = 1..(n - 1)
      /\ DOMAIN stack[t] = 1..n
      /\ \A k \in DOMAIN stack'[t] : stack'[t][k] = stack[t][k]
  BY PopFrame DEF IInv, TypeOK
<1>2. Top(t) = stack[t][n] /\ Top(t)' = stack'[t][n - 1]
  BY <1>1 DEF Top
<1> HIDE DEF n
<1>3. IF n = 1 THEN stack[t][n].role = "exec" <=> t # MainThread
      ELSE stack[t][n].role = "exec" <=> stack[t][n - 1].role = "join"
  <2>1. n \in DOMAIN stack[t]
    BY <1>1
  <2> QED
    BY <2>1 DEF IInv, Nesting
<1>4. stack'[t] = <<>> <=> n = 1
  <2>1. stack'[t] \in Seq(Frame)
    BY <1>1
  <2> QED
    BY <1>1, <2>1
<1>5. CASE n = 1
  BY <1>2, <1>3, <1>4, <1>5
<1>6. CASE n # 1
  <2>1. n - 1 \in DOMAIN stack'[t]
    BY <1>1, <1>6
  <2>2. stack'[t][n - 1] \in Frame /\ stack'[t][n - 1] = stack[t][n - 1]
    BY <1>1, <2>1
  <2> QED
    BY <1>2, <1>3, <1>4, <1>6, <2>2
<1> QED
  BY <1>5, <1>6

\* A thread leaves a call it waits for, or that it runs inline.
LEMMA LeaveCallStep ==
  ASSUME IInv, NEW t \in Threads, stack[t] # <<>>, Top(t).role # "exec",
         pc[t] \in {"crit", "user"},
         HasTask(Top(t).call) => Completed(Top(t).call),
         call' = Disposed(Top(t).call),
         stack' = Popped(t),
         pc' = [pc EXCEPT ![t] = "user"],
         UNCHANGED <<nCalls, queue, running, runs, finished>>
  PROVE  IInv'
<1> DEFINE n == Len(stack[t])
<1>1. PICK x : x = Top(t).call
  OBVIOUS
<1>2. /\ stack \in [Threads -> Seq(Frame)] /\ stack[t] # <<>>
      /\ n \in DOMAIN stack[t]
      /\ stack' = Popped(t)
      /\ Top(t) = stack[t][n] /\ Top(t).role \in {"join", "inline"}
  <2>1. /\ stack \in [Threads -> Seq(Frame)]
        /\ n \in DOMAIN stack[t] /\ Top(t) = stack[t][n]
    BY DEF IInv, TypeOK, Top
  <2> QED
    BY <2>1, FrameTyped
<1>3. /\ x \in Calls
      /\ call[x].kind \in {"sync", "inline"}
      /\ call[x].kind = "sync" => Completed(x)
  BY <1>1, <1>2, FrameTyped DEF IInv, FrameShape, HasTask
<1>4. InFlight(x) = {}
  <2>1. CASE call[x].kind = "sync"
    BY <1>3, <2>1, CompletedIsQuiet DEF HasTask
  <2>2. CASE call[x].kind = "inline"
    BY <1>2, <2>2, ExecFramesMember DEF InFlight, IInv, FrameShape, HasTask
  <2> QED
    BY <1>3, <2>1, <2>2
<1>5. \A u \in Threads : \A k \in DOMAIN stack[u] :
        stack[u][k].call = x => u = t /\ k = n
  BY <1>1, <1>2, <1>4, OnlyFrame
<1>6. /\ stack' \in [Threads -> Seq(Frame)]
      /\ \A u \in Threads \ {t} : stack'[u] = stack[u]
      /\ \A u \in Threads : \A k \in DOMAIN stack'[u] :
           /\ k \in DOMAIN stack[u] /\ stack'[u][k] = stack[u][k]
           /\ u = t => k < n
  BY <1>2, PopFrame
<1>7. \A u \in Threads : \A k \in DOMAIN stack'[u] :
        stack'[u][k].call \in Calls \ {x}
  BY <1>2, <1>5, <1>6, FrameTyped
<1>8. \A y : InFlight(y)' = InFlight(y)
  <2> SUFFICES ASSUME NEW y PROVE InFlight(y)' = InFlight(y)
    OBVIOUS
  <2>1. <<t, n>> \notin InFlight(y) /\ InFlight(y)' = InFlight(y) \ {<<t, n>>}
    BY <1>2, PopInFlight DEF TopIs
  <2> QED
    BY <2>1
<1>9. /\ call \in [Calls -> CallRecord]
      /\ call' = Disposed(x)
      /\ pc \in [Threads -> Pcs] /\ pc[t] \in {"crit", "user"}
      /\ pc' = [pc EXCEPT ![t] = "user"]
      /\ nCalls' = nCalls /\ queue' = queue /\ running' = running
      /\ runs' = runs /\ finished' = finished
  BY <1>1 DEF IInv, TypeOK
<1>10. /\ call' \in [Calls -> CallRecord]
       /\ call'[x] = [call[x] EXCEPT !.alive = FALSE]
       /\ \A y \in Calls \ {x} : call'[y] = call[y]
  <2>1. call[x] \in CallRecord
    BY <1>3, <1>9
  <2>2. [call[x] EXCEPT !.alive = FALSE] \in CallRecord
    BY <2>1 DEF CallRecord
  <2> QED
    BY <1>3, <1>9, <2>2 DEF Disposed
<1>11. /\ \A y \in Calls : /\ call'[y].kind = call[y].kind
                           /\ call'[y].flag = call[y].flag
                           /\ call'[y].count = call[y].count
                           /\ call'[y].nextIndex = call[y].nextIndex
                           /\ call'[y].completedCount = call[y].completedCount
       /\ call'[x].alive = FALSE
  <2>1. call[x] \in CallRecord
    BY <1>3, <1>9
  <2>2. /\ call'[x].kind = call[x].kind
        /\ call'[x].flag = call[x].flag
        /\ call'[x].count = call[x].count
        /\ call'[x].nextIndex = call[x].nextIndex
        /\ call'[x].completedCount = call[x].completedCount
        /\ call'[x].alive = FALSE
    BY <1>10, <2>1 DEF CallRecord
  <2> QED
    BY <1>10, <2>2
<1>12. pc' \in [Threads -> Pcs]
  BY <1>9 DEF Pcs
<1> HIDE DEF n
<1>13. TypeOK'
  BY <1>6, <1>9, <1>10, <1>12 DEF IInv, TypeOK
<1>14. MutexHeldOnce'
  <2>1. \A u \in Threads : pc'[u] = "crit" => pc[u] = "crit"
    BY <1>9
  <2> QED
    BY <2>1 DEF IInv, MutexHeldOnce
<1>15. ThreadShape'
  <2>1. /\ stack'[t] = <<>> => t = MainThread
        /\ stack'[t] # <<>> => Top(t)'.role \in {"exec", "inline"}
    BY <1>2, PopShape DEF Frame
  <2> QED
    BY <1>6, <1>9, <2>1 DEF IInv, ThreadShape, TopIs, Top, InWorkerLoop
<1>16. CallShape'
  BY <1>3, <1>9, <1>10, <1>11 DEF IInv, CallShape, Completed
<1>17. FrameShape'
  <2>1. \A u \in Threads : \A k \in DOMAIN stack'[u] :
          call'[stack'[u][k].call] = call[stack[u][k].call]
    BY <1>6, <1>7, <1>10
  <2> SUFFICES ASSUME NEW u \in Threads, NEW k \in DOMAIN stack'[u], NEW g, g = stack'[u][k]
               PROVE  /\ call'[g.call].alive
                      /\ g.role = "exec" => call'[g.call].kind \in {"sync", "async"}
                      /\ g.role = "inline" => call'[g.call].kind = "inline"
                      /\ g.role = "join" => call'[g.call].kind = "sync"
    BY DEF FrameShape, HasTask
  <2>2. k \in DOMAIN stack[u] /\ g = stack[u][k] /\ call'[g.call] = call[g.call]
    BY <1>6, <2>1
  <2> QED
    BY <2>2 DEF IInv, FrameShape, HasTask
<1>18. Nesting'
  BY <1>2, PopNesting DEF IInv
<1>19. SingleFrames' /\ JoinsAreYounger'
  BY <1>6 DEF IInv, SingleFrames, JoinsAreYounger
<1>20. Accounting' /\ \A y \in Calls : IsFiniteSet(InFlight(y)')
  BY <1>8, <1>11 DEF IInv, Accounting, HasTask
<1>21. QueueExact'
  BY <1>9, <1>11 DEF IInv, QueueExact, HasTask
<1>22. EachIndexOnce'
  BY <1>9, <1>11 DEF IInv, EachIndexOnce
<1>23. MainThreadOnlyRespected'
  <2>1. \A u \in Threads : \A k \in DOMAIN stack'[u] :
          call'[stack'[u][k].call] = call[stack[u][k].call]
    BY <1>6, <1>7, <1>10
  <2> QED
    BY <1>6, <2>1 DEF IInv, MainThreadOnlyRespected
<1>24. FinishedOnce'
  BY <1>3, <1>9, <1>10, <1>11 DEF IInv, FinishedOnce
<1>25. NoLostWakeup'
  <2> SUFFICES ASSUME NEW u \in Threads, pc'[u] = "cond"
               PROVE  /\ Available(u)' = {}
                      /\ TopIs(u, "join")' => ~Completed(Top(u).call)'
                      /\ InWorkerLoop(u)' => running'
    BY DEF NoLostWakeup
  <2>1. u # t /\ pc[u] = "cond" /\ stack'[u] = stack[u]
    BY <1>6, <1>9
  <2>2. /\ Available(u) = {}
        /\ TopIs(u, "join") => ~Completed(Top(u).call)
        /\ InWorkerLoop(u) => running
    BY <2>1 DEF IInv, NoLostWakeup
  <2>3. TopIs(u, "join") => Top(u).call \in Calls
    BY <1>2, FrameTyped DEF TopIs, Top
  <2> QED
    BY <1>9, <1>11, <2>1, <2>2, <2>3 DEF Available, TopIs, Top, Completed, InWorkerLoop
<1> QED
  BY <1>13, <1>14, <1>15, <1>16, <1>17, <1>18, <1>19, <1>20, <1>21, <1>22, <1>23,
     <1>24, <1>25 DEF IInv

\* executeParallel returns and its Task is destroyed.
LEMMA JoinReturnStep ==
  ASSUME IInv, NEW t \in Threads, JoinReturn(t)
  PROVE  IInv'
BY LeaveCallStep DEF JoinReturn, TopIs

\* A callback that ran inline returns.
LEMMA ReturnInlineStep ==
  ASSUME IInv, NEW t \in Threads, ReturnInline(t)
  PROVE  IInv'
<1>1. stack[t] # <<>> /\ Top(t).role = "inline" /\ pc[t] = "user" /\ pc \in [Threads -> Pcs]
  BY DEF ReturnInline, TopIs, IInv, TypeOK
<1>2. call[Top(t).call].kind = "inline"
  <2>1. Len(stack[t]) \in DOMAIN stack[t] /\ Top(t) = stack[t][Len(stack[t])]
    BY <1>1 DEF IInv, TypeOK, Top
  <2> QED
    BY <1>1, <2>1 DEF IInv, FrameShape
<1>3. pc' = [pc EXCEPT ![t] = "user"]
  BY <1>1 DEF ReturnInline
<1> QED
  BY <1>1, <1>2, <1>3, LeaveCallStep DEF ReturnInline, HasTask
-----------------------------------------------------------------------------
\* A task found in a queue has an index to hand out, and exists.
LEMMA QueuedTask ==
  ASSUME IInv, NEW q \in Queues, NEW k \in DOMAIN queue[q], NEW x, x = queue[q][k]
  PROVE  /\ x \in Calls /\ HasTask(x) /\ call[x].flag = q /\ call[x].alive
         /\ call[x].nextIndex < call[x].count
         /\ call[x].nextIndex \in Indices
         /\ call[x].count \in 0..MaxCount
<1>1. x \in Calls /\ call \in [Calls -> CallRecord] /\ MaxCount \in Nat
  BY ConstantsAssumption DEF IInv, TypeOK
<1>2. HasTask(x) /\ call[x].flag = q /\ call[x].nextIndex < call[x].count
  BY <1>1 DEF IInv, QueueExact
<1>3. /\ call[x].nextIndex \in 0..MaxCount /\ call[x].count \in 0..MaxCount
      /\ call[x].completedCount \in 0..MaxCount /\ call[x].alive \in BOOLEAN
  BY <1>1 DEF CallRecord
<1>4. ~Completed(x)
  <2>1. SUFFICES ASSUME Completed(x) PROVE FALSE
    OBVIOUS
  <2>2. call[x].nextIndex = call[x].count
    BY <1>1, <1>2, <2>1, CompletedIsQuiet
  <2> QED
    BY <1>2, <1>3, <2>2
<1>5. call[x].alive
  BY <1>1, <1>2, <1>4 DEF IInv, CallShape, HasTask
<1> QED
  BY <1>1, <1>2, <1>3, <1>5 DEF Indices

\* executeOneTaskIfPossible hands out an index: the two counters, the queue and
\* the stack of the thread change together.
LEMMA TakeStep ==
  ASSUME IInv, NEW t \in Threads, Take(t)
  PROVE  IInv'
<1> DEFINE n == Len(stack[t])
<1>1. PICK q \in Queues : q = Preferred(t) /\ q \in Available(t)
  <2>1. Available(t) # {} /\ Available(t) \subseteq {"main", "normal", "idle"}
    BY DEF Take, Available, Queues
  <2>2. Preferred(t) \in Available(t)
    BY <2>1 DEF Preferred
  <2> QED
    BY <2>2, Zenon DEF Available
<1>2. /\ queue \in [Queues -> Seq(Calls)] /\ call \in [Calls -> CallRecord]
      /\ stack \in [Threads -> Seq(Frame)] /\ pc \in [Threads -> Pcs]
      /\ runs \in [Calls -> [Indices -> Nat]] /\ MaxCount \in Nat
  BY ConstantsAssumption DEF IInv, TypeOK
<1>3. /\ queue[q] # <<>> /\ (q = "main" => t = MainThread)
      /\ Len(queue[q]) \in DOMAIN queue[q]
      /\ Len(queue[q]) \in Nat \ {0} /\ DOMAIN queue[q] = 1..Len(queue[q])
  BY <1>1, <1>2 DEF Available
<1>4. PICK x \in Calls : x = queue[q][Len(queue[q])]
  <2>1. queue[q][Len(queue[q])] \in Calls
    BY <1>2, <1>3
  <2> QED
    BY <2>1, Zenon
<1>5. /\ HasTask(x) /\ call[x].flag = q /\ call[x].alive
      /\ call[x].nextIndex < call[x].count
      /\ call[x].nextIndex \in Indices
      /\ call[x].count \in 0..MaxCount
  BY <1>3, <1>4, QueuedTask
<1>6. PICK i \in Indices : i = call[x].nextIndex
  BY <1>5, Zenon
<1> DEFINE f == [role |-> "exec", call |-> x, index |-> i]
           r == [call[x] EXCEPT !.nextIndex = i + 1]
<1>7. /\ call' = [call EXCEPT ![x].nextIndex = i + 1]
      /\ queue' = IF i + 1 < call[x].count
                  THEN queue
                  ELSE [queue EXCEPT ![q] = SubSeq(@, 1, Len(@) - 1)]
      /\ stack' = Pushed(t, f)
      /\ runs' = [runs EXCEPT ![x][i] = @ + 1]
      /\ pc' = [pc EXCEPT ![t] = "user"]
      /\ nCalls' = nCalls /\ running' = running /\ finished' = finished
      /\ LoopsOn(t)
  BY <1>1, <1>4, <1>6 DEF Take, PreExecute, HasMore
<1>8. f \in Frame /\ f.role = "exec" /\ f.call = x
  BY <1>6 DEF Frame, Indices
<1>9. /\ n \in Nat
      /\ DOMAIN stack[t] = 1..n
      /\ stack' \in [Threads -> Seq(Frame)]
      /\ stack'[t] # <<>> /\ Top(t)' = f
      /\ \A u \in Threads \ {t} : stack'[u] = stack[u]
      /\ \A u \in Threads : \A k \in DOMAIN stack'[u] :
           \/ u = t /\ k = n + 1 /\ stack'[u][k] = f
           \/ /\ k \in DOMAIN stack[u] /\ stack'[u][k] = stack[u][k]
              /\ u = t => k < n + 1
  <2>1. /\ Len(stack'[t]) = n + 1 /\ stack'[t][n + 1] = f /\ n \in Nat
        /\ stack' \in [Threads -> Seq(Frame)]
    BY <1>2, <1>7, <1>8, PushFrame
  <2> HIDE DEF f
  <2>2. stack'[t] # <<>> /\ Top(t)' = f
    BY <2>1 DEF Top
  <2> QED
    BY <1>2, <1>7, <1>8, <2>1, <2>2, PushFrame
<1>10. call[x] \in CallRecord /\ r \in CallRecord
  <2>1. i + 1 \in 0..MaxCount
    BY <1>2, <1>6 DEF Indices
  <2>2. call[x] \in CallRecord
    BY <1>2
  <2> QED
    BY <2>1, <2>2 DEF CallRecord
<1>11. /\ call' \in [Calls -> CallRecord] /\ call'[x] = r
       /\ \A y \in Calls \ {x} : call'[y] = call[y]
  BY <1>2, <1>7, <1>10
<1>12. /\ \A y \in Calls : /\ call'[y].kind = call[y].kind
                           /\ call'[y].flag = call[y].flag
                           /\ call'[y].count = call[y].count
                           /\ call'[y].alive = call[y].alive
                           /\ call'[y].completedCount = call[y].completedCount
       /\ call'[x].nextIndex = i + 1
       /\ \A y \in Calls \ {x} : call'[y].nextIndex = call[y].nextIndex
  BY <1>10, <1>11 DEF CallRecord
<1> HIDE DEF f, n, r
<1>13. \A y : InFlight(y)' = IF y = x THEN InFlight(x) \union {<<t, n + 1>>} ELSE InFlight(y)
  BY <1>2, <1>7, <1>8, PushInFlight DEF n
<1>14. <<t, n + 1>> \notin InFlight(x)
  BY <1>2, <1>7, <1>8, PushInFlight DEF n
<1>15. /\ runs' \in [Calls -> [Indices -> Nat]]
       /\ runs'[x][i] = runs[x][i] + 1
       /\ \A j \in Indices \ {i} : runs'[x][j] = runs[x][j]
       /\ \A y \in Calls \ {x} : runs'[y] = runs[y]
  BY <1>2, <1>6, <1>7
<1>16. pc' \in [Threads -> Pcs] /\ pc[t] = "crit"
  BY <1>2, <1>7 DEF Pcs, LoopsOn
<1>17. /\ queue' \in [Queues -> Seq(Calls)]
       /\ \A p \in Queues \ {q} : queue'[p] = queue[p]
       /\ \A k \in DOMAIN queue'[q] : k \in DOMAIN queue[q] /\ queue'[q][k] = queue[q][k]
       /\ DOMAIN queue'[q] = IF i + 1 < call[x].count THEN 1..Len(queue[q])
                                                     ELSE 1..(Len(queue[q]) - 1)
  <2>1. PICK s \in Seq(Calls) : s = SubSeq(queue[q], 1, Len(queue[q]) - 1)
    BY <1>2, <1>3, DropLast, Zenon
  <2>2. /\ DOMAIN s = 1..(Len(queue[q]) - 1)
        /\ \A k \in 1..(Len(queue[q]) - 1) : s[k] = queue[q][k]
    BY <1>2, <1>3, <2>1, DropLast
  <2>3. queue' = IF i + 1 < call[x].count THEN queue ELSE [queue EXCEPT ![q] = s]
    BY <1>7, <2>1
  <2> QED
    BY <1>2, <1>3, <2>2, <2>3
<1>18. TypeOK'
  BY <1>7, <1>9, <1>11, <1>15, <1>16, <1>17 DEF IInv, TypeOK
<1>19. MutexHeldOnce'
  BY <1>2, <1>7 DEF IInv, MutexHeldOnce
<1>20. ThreadShape'
  BY <1>2, <1>7, <1>8, <1>9 DEF IInv, ThreadShape, TopIs, Top, InWorkerLoop
<1>21. CallShape'
  <2>1. i + 1 <= call[x].count
    BY <1>5, <1>6 DEF Indices
  <2>2. call[x].kind # "none"
    BY <1>5 DEF HasTask
  <2> QED
    BY <1>7, <1>12, <2>1, <2>2 DEF IInv, CallShape, Completed
<1>22. FrameShape'
  <2> SUFFICES ASSUME NEW u \in Threads, NEW k \in DOMAIN stack'[u], NEW g, g = stack'[u][k]
               PROVE  /\ call'[g.call].alive
                      /\ g.role = "exec" => call'[g.call].kind \in {"sync", "async"}
                      /\ g.role = "inline" => call'[g.call].kind = "inline"
                      /\ g.role = "join" => call'[g.call].kind = "sync"
    BY DEF FrameShape, HasTask
  <2>1. CASE g = f
    BY <1>5, <1>8, <1>12, <2>1 DEF HasTask
  <2>2. CASE g # f
    <3>1. k \in DOMAIN stack[u] /\ stack[u][k] = g
      BY <1>9, <2>2
    <3>2. g.call \in Calls
      BY <1>2, <3>1, FrameTyped
    <3> QED
      BY <1>12, <3>1, <3>2 DEF IInv, FrameShape, HasTask
  <2> QED
    BY <2>1, <2>2
<1>23. Nesting'
  <2>1. IF stack[t] = <<>> THEN t # MainThread ELSE Top(t).role = "join"
    BY <1>7 DEF LoopsOn, InWorkerLoop, TopIs
  <2> QED
    BY <1>2, <1>7, <1>8, <2>1, PushNesting DEF IInv
<1>24. SingleFrames' /\ JoinsAreYounger'
  <2>1. SingleFrames /\ JoinsAreYounger
    BY DEF IInv
  <2>2. SingleFrames'
    <3> SUFFICES ASSUME NEW u \in Threads, NEW v \in Threads,
                        NEW k \in DOMAIN stack'[u], NEW l \in DOMAIN stack'[v],
                        stack'[u][k].role # "exec", stack'[v][l].role # "exec",
                        stack'[u][k].call = stack'[v][l].call
                 PROVE  u = v /\ k = l
      BY DEF SingleFrames
    <3>1. k \in DOMAIN stack[u] /\ stack'[u][k] = stack[u][k]
      BY <1>8, <1>9
    <3>2. l \in DOMAIN stack[v] /\ stack'[v][l] = stack[v][l]
      BY <1>8, <1>9
    <3> QED
      BY <2>1, <3>1, <3>2 DEF SingleFrames
  <2>3. JoinsAreYounger'
    BY <1>8, <1>9, <2>1 DEF JoinsAreYounger
  <2> QED
    BY <2>2, <2>3
<1>25. Accounting' /\ \A y \in Calls : IsFiniteSet(InFlight(y)')
  <2>1. \A y \in Calls : IsFiniteSet(InFlight(y)) /\
          (HasTask(y) => call[y].completedCount + Cardinality(InFlight(y)) = call[y].nextIndex)
    BY DEF IInv, Accounting
  <2>2. /\ IsFiniteSet(InFlight(x)')
        /\ Cardinality(InFlight(x)') = Cardinality(InFlight(x)) + 1
        /\ Cardinality(InFlight(x)) \in Nat
    BY <1>13, <1>14, <2>1, FS_AddElement, FS_CardinalityType
  <2>3. call[x].completedCount \in Nat
    BY <1>2, <1>10 DEF CallRecord
  <2>4. call'[x].completedCount + Cardinality(InFlight(x)') = call'[x].nextIndex
    BY <1>5, <1>6, <1>12, <2>1, <2>2, <2>3
  <2> QED
    BY <1>12, <1>13, <2>1, <2>2, <2>4 DEF Accounting, HasTask
<1>26. QueueExact'
  <2>1. SUFFICES ASSUME NEW p \in Queues
        PROVE  /\ \A k, l \in DOMAIN queue'[p] : queue'[p][k] = queue'[p][l] => k = l
               /\ \A y \in Calls :
                    (\E k \in DOMAIN queue'[p] : queue'[p][k] = y)
                      <=> /\ call[y].kind \in {"sync", "async"}
                          /\ call[y].flag = p
                          /\ call'[y].nextIndex < call[y].count
    BY <1>12 DEF QueueExact, HasTask
  <2>2. /\ \A k, l \in DOMAIN queue[p] : queue[p][k] = queue[p][l] => k = l
        /\ \A y \in Calls :
             (\E k \in DOMAIN queue[p] : queue[p][k] = y)
                <=> /\ call[y].kind \in {"sync", "async"}
                    /\ call[y].flag = p
                    /\ call[y].nextIndex < call[y].count
    BY DEF IInv, QueueExact, HasTask
  <2>3. CASE p # q
    <3>1. queue'[p] = queue[p] /\ call[x].flag # p
      BY <1>5, <1>17, <2>3
    <3> QED
      BY <1>12, <2>2, <3>1
  <2>4. CASE p = q
    <3>1. \A k, l \in DOMAIN queue'[p] : queue'[p][k] = queue'[p][l] => k = l
      BY <1>17, <2>2, <2>4
    <3>2. \A y \in Calls \ {x} : (\E k \in DOMAIN queue'[p] : queue'[p][k] = y)
                                    <=> (\E k \in DOMAIN queue[p] : queue[p][k] = y)
      <4> SUFFICES ASSUME NEW y \in Calls \ {x}
                   PROVE  (\E k \in DOMAIN queue'[p] : queue'[p][k] = y)
                            <=> (\E k \in DOMAIN queue[p] : queue[p][k] = y)
        OBVIOUS
      <4>1. ASSUME NEW k \in DOMAIN queue'[q], queue'[q][k] = y
            PROVE  k \in DOMAIN queue[q] /\ queue[q][k] = y
        BY <1>17, <4>1
      <4>2. ASSUME NEW k \in DOMAIN queue[q], queue[q][k] = y
            PROVE  k \in DOMAIN queue'[q] /\ queue'[q][k] = y
        <5>1. k # Len(queue[q])
          BY <1>4, <4>2
        <5>2. k \in DOMAIN queue'[q]
          BY <1>3, <1>17, <5>1
        <5> QED
          BY <1>17, <4>2, <5>2
      <4> QED
        BY <2>4, <4>1, <4>2
    <3>3. (\E k \in DOMAIN queue'[p] : queue'[p][k] = x) <=> i + 1 < call[x].count
      BY <1>3, <1>4, <1>17, <2>2, <2>4
    <3> QED
      BY <1>5, <1>12, <2>2, <2>4, <3>1, <3>2, <3>3 DEF HasTask
  <2> QED
    BY <2>3, <2>4
<1>27. EachIndexOnce'
  <2>1. \A y \in Calls : \A j \in Indices : runs[y][j] = IF j < call[y].nextIndex THEN 1 ELSE 0
    BY DEF IInv, EachIndexOnce
  <2>2. \A j \in Indices : runs'[x][j] = IF j < i + 1 THEN 1 ELSE 0
    <3>1. \A j \in Indices : runs[x][j] = IF j < i THEN 1 ELSE 0
      BY <1>6, <2>1
    <3>2. Indices \subseteq Nat
      BY <1>2 DEF Indices
    <3> SUFFICES ASSUME NEW j \in Indices PROVE runs'[x][j] = IF j < i + 1 THEN 1 ELSE 0
      OBVIOUS
    <3>3. CASE j = i
      BY <1>15, <3>1, <3>2, <3>3
    <3>4. CASE j # i
      BY <1>15, <3>1, <3>2, <3>4
    <3> QED
      BY <3>3, <3>4
  <2> QED
    BY <1>12, <1>15, <2>1, <2>2 DEF EachIndexOnce
<1>28. MainThreadOnlyRespected'
  <2> SUFFICES ASSUME NEW u \in Threads, NEW k \in DOMAIN stack'[u], NEW g, g = stack'[u][k],
                      g.role # "join", call'[g.call].flag = "main"
               PROVE  u = MainThread
    BY DEF MainThreadOnlyRespected
  <2>1. CASE u = t /\ g = f
    BY <1>3, <1>5, <1>8, <1>12, <2>1
  <2>2. CASE ~(u = t /\ g = f)
    <3>1. k \in DOMAIN stack[u] /\ stack[u][k] = g
      BY <1>9, <2>2
    <3>2. g.call \in Calls
      BY <1>2, <3>1, FrameTyped
    <3> QED
      BY <1>12, <3>1, <3>2 DEF IInv, MainThreadOnlyRespected
  <2> QED
    BY <2>1, <2>2
<1>29. FinishedOnce'
  BY <1>7, <1>12 DEF IInv, FinishedOnce
<1>30. NoLostWakeup'
  <2> SUFFICES ASSUME NEW u \in Threads, pc'[u] = "cond"
               PROVE  /\ Available(u)' = {}
                      /\ TopIs(u, "join")' => ~Completed(Top(u).call)'
                      /\ InWorkerLoop(u)' => running'
    BY DEF NoLostWakeup
  <2>1. u # t /\ pc[u] = "cond" /\ stack'[u] = stack[u]
    BY <1>2, <1>7, <1>9
  <2>2. /\ Available(u) = {}
        /\ TopIs(u, "join") => ~Completed(Top(u).call)
        /\ InWorkerLoop(u) => running
    BY <2>1 DEF IInv, NoLostWakeup
  <2>3. TopIs(u, "join") => Top(u).call \in Calls
    BY <1>2, FrameTyped DEF TopIs, Top
  <2>4. \A p \in Queues : queue'[p] # <<>> => queue[p] # <<>>
    BY <1>2, <1>3, <1>17
  <2>5. Available(u)' = {}
    BY <2>2, <2>4 DEF Available
  <2> QED
    BY <1>7, <1>12, <2>1, <2>2, <2>3, <2>5 DEF TopIs, Top, Completed, InWorkerLoop
<1> QED
  BY <1>18, <1>19, <1>20, <1>21, <1>22, <1>23, <1>24, <1>25, <1>26, <1>27, <1>28,
     <1>29, <1>30 DEF IInv

\* A callback in flight is the last one when its call has one index left to
\* account for.
LEMMA LastInFlight ==
  ASSUME IInv, NEW x \in Calls, NEW g \in InFlight(x), HasTask(x)
  PROVE  /\ call[x].completedCount \in Nat /\ call[x].count \in Nat
         /\ call[x].completedCount + 1 <= call[x].count
         /\ call[x].completedCount + 1 = call[x].count => InFlight(x) = {g}
         /\ IsFiniteSet(InFlight(x) \ {g})
         /\ call[x].completedCount + 1 + Cardinality(InFlight(x) \ {g}) = call[x].nextIndex
<1>1. /\ call[x].nextIndex \in Nat /\ call[x].count \in Nat
      /\ call[x].completedCount \in Nat
  BY ConstantsAssumption DEF IInv, TypeOK, CallRecord
<1>2. /\ call[x].completedCount + Cardinality(InFlight(x)) = call[x].nextIndex
      /\ call[x].nextIndex <= call[x].count
      /\ IsFiniteSet(InFlight(x))
  BY DEF IInv, Accounting, CallShape
<1> DEFINE T == InFlight(x) \ {g}
<1>3. /\ IsFiniteSet(T) /\ Cardinality(T) \in Nat
      /\ Cardinality(InFlight(x)) \in Nat
      /\ Cardinality(T) = Cardinality(InFlight(x)) - 1
  BY <1>2, FS_RemoveElement, FS_CardinalityType
<1>4. call[x].completedCount + 1 = call[x].count => T = {}
  <2>1. call[x].completedCount + 1 = call[x].count => Cardinality(T) = 0
    BY <1>1, <1>2, <1>3
  <2> QED
    BY <1>3, <2>1, FS_EmptySet
<1> QED
  BY <1>1, <1>2, <1>3, <1>4

\* A callback is accounted for; the one that completes an asynchronous Task
\* runs finishedCallback and deletes it.
LEMMA PostExecuteStep ==
  ASSUME IInv, NEW t \in Threads, PostExecute(t)
  PROVE  IInv'
<1> DEFINE n == Len(stack[t])
<1>1. /\ call \in [Calls -> CallRecord] /\ pc \in [Threads -> Pcs]
      /\ stack \in [Threads -> Seq(Frame)] /\ finished \in [Calls -> Nat]
      /\ pc[t] = "post"
      /\ stack[t] # <<>> /\ Top(t).role = "exec"
      /\ n \in DOMAIN stack[t] /\ Top(t) = stack[t][n]
  <2>1. /\ call \in [Calls -> CallRecord] /\ pc \in [Threads -> Pcs]
        /\ stack \in [Threads -> Seq(Frame)] /\ finished \in [Calls -> Nat]
    BY DEF IInv, TypeOK
  <2>2. pc[t] = "post"
    BY DEF PostExecute
  <2>3. stack[t] # <<>> /\ Top(t).role = "exec"
    BY <2>2 DEF IInv, ThreadShape, TopIs
  <2>4. n \in DOMAIN stack[t]
    BY <2>1, <2>3
  <2> QED
    BY <2>1, <2>2, <2>3, <2>4 DEF Top
<1>2. PICK x \in Calls : x = Top(t).call
  <2>1. Top(t).call \in Calls
    BY <1>1, FrameTyped
  <2> QED
    BY <2>1, Zenon
<1>3. HasTask(x) /\ call[x].alive
  BY <1>1, <1>2 DEF IInv, FrameShape
<1>4. <<t, n>> \in InFlight(x) /\ stack' = Popped(t)
  BY <1>1, <1>2, PopInFlight DEF PostExecute, Completes, TopIs
<1>5. PICK done \in Nat : done = call[x].completedCount + 1
  <2>1. call[x] \in CallRecord
    BY <1>1
  <2>2. call[x].completedCount + 1 \in Nat
    BY <2>1, ConstantsAssumption DEF CallRecord
  <2> QED
    BY <2>2, Zenon
<1>6. /\ call[x].count \in Nat /\ done <= call[x].count
      /\ done = call[x].count => InFlight(x) = {<<t, n>>}
      /\ IsFiniteSet(InFlight(x) \ {<<t, n>>})
      /\ done + Cardinality(InFlight(x) \ {<<t, n>>}) = call[x].nextIndex
  BY <1>3, <1>4, <1>5, LastInFlight
<1> DEFINE last == done = call[x].count
           async == call[x].kind = "async"
<1>a. PICK b \in BOOLEAN : b = ~(last /\ async)
  OBVIOUS
<1> DEFINE r == [call[x] EXCEPT !.completedCount = done, !.alive = b]
<1>7. /\ call' = [call EXCEPT ![x].completedCount = done, ![x].alive = b]
      /\ finished' = IF last /\ async THEN [finished EXCEPT ![x] = @ + 1] ELSE finished
      /\ pc' = [(IF last THEN Awakened ELSE pc) EXCEPT ![t] = "crit"]
      /\ \A u \in Threads : pc[u] # "crit"
      /\ nCalls' = nCalls /\ queue' = queue /\ running' = running /\ runs' = runs
  BY <1>2, <1>5, <1>a DEF PostExecute, Completes, MutexFree
<1>8. r \in CallRecord
  <2>1. call[x] \in CallRecord
    BY <1>1
  <2>2. done \in 0..MaxCount
    BY <1>5, <1>6, <2>1, ConstantsAssumption DEF CallRecord
  <2> QED
    BY <2>1, <2>2 DEF CallRecord
<1>9. /\ call' \in [Calls -> CallRecord] /\ call'[x] = r
      /\ \A y \in Calls \ {x} : call'[y] = call[y]
  BY <1>1, <1>7, <1>8
<1>10. /\ \A y \in Calls : /\ call'[y].kind = call[y].kind
                           /\ call'[y].flag = call[y].flag
                           /\ call'[y].count = call[y].count
                           /\ call'[y].nextIndex = call[y].nextIndex
       /\ call'[x].completedCount = done
       /\ call'[x].alive = b
  <2>1. call[x] \in CallRecord
    BY <1>1
  <2>2. /\ call'[x].kind = call[x].kind
        /\ call'[x].flag = call[x].flag
        /\ call'[x].count = call[x].count
        /\ call'[x].nextIndex = call[x].nextIndex
        /\ call'[x].completedCount = done
        /\ call'[x].alive = b
    BY <1>9, <2>1 DEF CallRecord
  <2> QED
    BY <1>9, <2>2
<1> HIDE DEF r
<1>11. /\ stack' \in [Threads -> Seq(Frame)]
       /\ \A u \in Threads \ {t} : stack'[u] = stack[u]
       /\ \A u \in Threads : \A k \in DOMAIN stack'[u] :
            /\ k \in DOMAIN stack[u] /\ stack'[u][k] = stack[u][k]
            /\ u = t => k < n
  BY <1>1, <1>4, PopFrame
<1>12. \A y : InFlight(y)' = IF y = x THEN InFlight(x) \ {<<t, n>>} ELSE InFlight(y)
  <2> SUFFICES ASSUME NEW y
               PROVE  InFlight(y)' = IF y = x THEN InFlight(x) \ {<<t, n>>} ELSE InFlight(y)
    OBVIOUS
  <2>1. /\ <<t, n>> \in InFlight(y) <=> y = x
        /\ InFlight(y)' = InFlight(y) \ {<<t, n>>}
    BY <1>1, <1>2, <1>4, PopInFlight DEF TopIs
  <2> QED
    BY <2>1
<1>13. \A u \in Threads : \A k \in DOMAIN stack'[u] :
         /\ stack[u][k].call \in Calls
         /\ last /\ async => stack[u][k].call # x
  <2> SUFFICES ASSUME NEW u \in Threads, NEW k \in DOMAIN stack'[u]
               PROVE  /\ stack[u][k].call \in Calls
                      /\ last /\ async => stack[u][k].call # x
    OBVIOUS
  <2>1. k \in DOMAIN stack[u] /\ stack'[u][k] = stack[u][k] /\ (u = t => k < n)
    BY <1>11
  <2>2. stack[u][k].call \in Calls /\ stack[u][k].role \in {"exec", "inline", "join"}
    BY <1>1, <2>1, FrameTyped
  <2>3. SUFFICES ASSUME last, async, stack[u][k].call = x
                 PROVE  FALSE
    BY <2>2
  <2>4. stack[u][k].role = "exec"
    BY <2>1, <2>2, <2>3 DEF IInv, FrameShape
  <2>5. <<u, k>> \in InFlight(x)
    BY <2>1, <2>3, <2>4, ExecFramesMember DEF InFlight
  <2> QED
    BY <1>6, <1>11, <2>1, <2>3, <2>5
<1>14. /\ pc' \in [Threads -> Pcs]
       /\ pc'[t] = "crit"
       /\ \A u \in Threads \ {t} :
            pc'[u] = IF last /\ pc[u] = "cond" THEN "wake" ELSE pc[u]
  BY <1>1, <1>7 DEF Pcs, Awakened
<1>15. /\ finished' \in [Calls -> Nat]
       /\ finished'[x] = IF last /\ async THEN finished[x] + 1 ELSE finished[x]
       /\ \A y \in Calls \ {x} : finished'[y] = finished[y]
  BY <1>1, <1>7
<1> HIDE DEF n, last, async
<1>16. TypeOK'
  BY <1>7, <1>9, <1>11, <1>14, <1>15 DEF IInv, TypeOK
<1>17. MutexHeldOnce'
  BY <1>7, <1>14 DEF MutexHeldOnce
<1>18. ThreadShape'
  <2>1. /\ stack'[t] = <<>> => t # MainThread
        /\ stack'[t] # <<>> => Top(t)'.role = "join"
    BY <1>1, <1>4, PopShape
  <2>2. pc'[t] = "crit" /\ (InWorkerLoop(t)' \/ TopIs(t, "join")')
    BY <1>14, <2>1 DEF TopIs, InWorkerLoop
  <2> SUFFICES ASSUME NEW u \in Threads, u # t
               PROVE  /\ pc'[u] = "user" => \/ stack'[u] = <<>> /\ u = MainThread
                                            \/ TopIs(u, "exec")'
                                            \/ TopIs(u, "inline")'
                      /\ pc'[u] = "post" => TopIs(u, "exec")'
                      /\ pc'[u] \in {"crit", "cond", "wake"} =>
                           InWorkerLoop(u)' \/ TopIs(u, "join")'
                      /\ pc'[u] \in {"joining", "exited"} => stack'[u] = <<>>
    BY <2>2 DEF ThreadShape
  <2>3. stack'[u] = stack[u] /\ pc'[u] = IF last /\ pc[u] = "cond" THEN "wake" ELSE pc[u]
    BY <1>11, <1>14
  <2>4. /\ \A role : TopIs(u, role)' <=> TopIs(u, role)
        /\ InWorkerLoop(u)' <=> InWorkerLoop(u)
    BY <2>3 DEF TopIs, Top, InWorkerLoop
  <2> QED
    BY <2>3, <2>4 DEF IInv, ThreadShape
<1>19. CallShape'
  <2>1. \A y \in Calls \ {x} : call'[y] = call[y]
    BY <1>9
  <2>2. call[x].kind # "none"
    BY <1>3 DEF HasTask
  <2>3. Completed(x)' <=> last
    BY <1>10 DEF Completed, last
  <2>4. \A y \in Calls \ {x} : Completed(y)' <=> Completed(y)
    BY <2>1 DEF Completed
  <2>5. /\ call'[x].nextIndex <= call'[x].count
        /\ call'[x].kind = "async" => (call'[x].alive <=> ~Completed(x)')
        /\ call'[x].kind = "sync" => call'[x].alive
    BY <1>10, <1>a, <2>3 DEF IInv, CallShape, async
  <2>6. nCalls' = nCalls
    BY <1>7
  <2>7. ASSUME NEW y \in Calls
        PROVE  /\ call'[y].kind = "none" <=> y > nCalls'
               /\ call'[y].kind = "none" => call'[y].nextIndex = 0 /\ ~call'[y].alive
               /\ call'[y].nextIndex <= call'[y].count
               /\ call'[y].kind = "async" => (call'[y].alive <=> ~Completed(y)')
               /\ call'[y].kind = "sync" => (~call'[y].alive => Completed(y)')
    <3>1. CASE y = x
      BY <1>10, <2>2, <2>5, <2>6, <3>1 DEF IInv, CallShape
    <3>2. CASE y # x
      BY <2>1, <2>4, <2>6, <3>2 DEF IInv, CallShape
    <3> QED
      BY <3>1, <3>2
  <2> QED
    BY <2>7 DEF CallShape
<1>20. FrameShape'
  <2>1. \A u \in Threads : \A k \in DOMAIN stack'[u] : call'[stack[u][k].call].alive
    <3> SUFFICES ASSUME NEW u \in Threads, NEW k \in DOMAIN stack'[u]
                 PROVE  call'[stack[u][k].call].alive
      OBVIOUS
    <3>1. call[stack[u][k].call].alive /\ stack[u][k].call \in Calls
      BY <1>11, <1>13 DEF IInv, FrameShape
    <3>2. CASE stack[u][k].call = x
      BY <1>10, <1>13, <1>a, <3>2
    <3>3. CASE stack[u][k].call # x
      BY <1>9, <3>1, <3>3
    <3> QED
      BY <3>2, <3>3
  <2>2. \A u \in Threads : \A k \in DOMAIN stack'[u] :
          call'[stack[u][k].call].kind = call[stack[u][k].call].kind
    BY <1>10, <1>13
  <2> QED
    BY <1>11, <2>1, <2>2 DEF IInv, FrameShape, HasTask
<1>21. Nesting'
  BY <1>1, <1>4, PopNesting DEF IInv
<1>22. SingleFrames' /\ JoinsAreYounger'
  <2>1. SingleFrames /\ JoinsAreYounger
    BY DEF IInv
  <2>2. SingleFrames'
    BY <1>11, <2>1 DEF SingleFrames
  <2>3. JoinsAreYounger'
    BY <1>11, <2>1 DEF JoinsAreYounger
  <2> QED
    BY <2>2, <2>3
<1>23. Accounting' /\ \A y \in Calls : IsFiniteSet(InFlight(y)')
  <2>1. \A y \in Calls : IsFiniteSet(InFlight(y)) /\
          (HasTask(y) => call[y].completedCount + Cardinality(InFlight(y)) = call[y].nextIndex)
    BY DEF IInv, Accounting
  <2>2. call'[x].completedCount + Cardinality(InFlight(x)') = call'[x].nextIndex
    BY <1>6, <1>10, <1>12
  <2> QED
    BY <1>6, <1>9, <1>12, <2>1, <2>2 DEF Accounting, HasTask
<1>24. QueueExact'
  <2>1. queue' = queue
    BY <1>7
  <2>2. \A y \in Calls : /\ HasTask(y)' <=> HasTask(y)
                         /\ call'[y].flag = call[y].flag
                         /\ call'[y].nextIndex < call'[y].count
                              <=> call[y].nextIndex < call[y].count
    BY <1>10 DEF HasTask
  <2> QED
    BY <2>1, <2>2 DEF IInv, QueueExact
<1>25. EachIndexOnce'
  BY <1>7, <1>10 DEF IInv, EachIndexOnce
<1>26. MainThreadOnlyRespected'
  <2>1. \A u \in Threads : \A k \in DOMAIN stack'[u] :
          call'[stack[u][k].call].flag = call[stack[u][k].call].flag
    BY <1>10, <1>13
  <2> QED
    BY <1>11, <2>1 DEF IInv, MainThreadOnlyRespected
<1>27. FinishedOnce'
  <2>1. finished[x] = 0
    BY <1>3 DEF IInv, FinishedOnce
  <2>2. finished'[x] = IF call'[x].kind = "async" /\ ~call'[x].alive THEN 1 ELSE 0
    <3>1. CASE last /\ async
      <4>1. call'[x].kind = "async"
        BY <1>10, <3>1 DEF async
      <4>2. finished'[x] = 1
        BY <1>15, <2>1, <3>1
      <4>3. ~call'[x].alive
        BY <1>10, <1>a, <3>1
      <4> QED
        BY <4>1, <4>2, <4>3
    <3>2. CASE ~(last /\ async)
      BY <1>10, <1>15, <1>a, <2>1, <3>2
    <3> QED
      BY <3>1, <3>2
  <2> QED
    BY <1>9, <1>15, <2>2 DEF IInv, FinishedOnce
<1>28. NoLostWakeup'
  <2> SUFFICES ASSUME NEW u \in Threads, pc'[u] = "cond"
               PROVE  /\ Available(u)' = {}
                      /\ TopIs(u, "join")' => ~Completed(Top(u).call)'
                      /\ InWorkerLoop(u)' => running'
    BY DEF NoLostWakeup
  <2>1. u # t /\ pc[u] = "cond" /\ stack'[u] = stack[u] /\ ~last
    BY <1>11, <1>14
  <2>2. /\ Available(u) = {}
        /\ TopIs(u, "join") => ~Completed(Top(u).call)
        /\ InWorkerLoop(u) => running
    BY <2>1 DEF IInv, NoLostWakeup
  <2>3. TopIs(u, "join") => Top(u).call \in Calls
    BY <1>1, FrameTyped DEF TopIs, Top
  <2>4. ASSUME NEW y \in Calls, ~Completed(y)
        PROVE  call'[y].completedCount # call'[y].count
    BY <1>9, <1>10, <2>1, <2>4 DEF Completed, last
  <2> QED
    BY <1>7, <2>1, <2>2, <2>3, <2>4 DEF Available, TopIs, Top, Completed, InWorkerLoop
<1> QED
  BY <1>16, <1>17, <1>18, <1>19, <1>20, <1>21, <1>22, <1>23, <1>24, <1>25, <1>26,
     <1>27, <1>28 DEF IInv
-----------------------------------------------------------------------------
\* The constructor establishes the inductive invariant.
LEMMA InitIInv == Init => IInv
<1> SUFFICES ASSUME Init PROVE IInv
  OBVIOUS
<1>1. TypeOK
  BY ConstantsAssumption DEF Init, TypeOK, CallRecord, Pcs, Queues
<1>2. \A t \in Threads : stack[t] = <<>> /\ DOMAIN stack[t] = {}
  BY DEF Init
<1>3. \A x \in Calls : call[x].kind = "none" /\ call[x].nextIndex = 0
                       /\ call[x].count = 0 /\ ~call[x].alive
  BY DEF Init
<1>4. MutexHeldOnce /\ NoLostWakeup
  BY DEF Init, MutexHeldOnce, NoLostWakeup
<1>5. ThreadShape
  BY DEF Init, ThreadShape, InWorkerLoop
<1>6. CallShape
  BY <1>3 DEF Init, CallShape, Calls
<1>7. FrameShape /\ Nesting /\ SingleFrames /\ JoinsAreYounger /\ MainThreadOnlyRespected
  BY <1>2 DEF FrameShape, Nesting, SingleFrames, JoinsAreYounger, MainThreadOnlyRespected
<1>8. \A x \in Calls : IsFiniteSet(InFlight(x))
  <2>1. \A x \in Calls : InFlight(x) = {}
    BY <1>2, ExecFramesMember DEF InFlight
  <2> QED
    BY <2>1, FS_EmptySet
<1>9. Accounting /\ FinishedOnce
  BY <1>3 DEF Init, Accounting, FinishedOnce, HasTask
<1>10. QueueExact
  BY <1>3 DEF Init, QueueExact, HasTask
<1>11. EachIndexOnce
  BY <1>3, ConstantsAssumption DEF Init, EachIndexOnce, Indices
<1> QED
  BY <1>1, <1>4, <1>5, <1>6, <1>7, <1>8, <1>9, <1>10, <1>11 DEF IInv

\* Every step preserves the inductive invariant, one lemma for each action.
LEMMA NextIInv == IInv /\ [Next]_vars => IInv'
<1> SUFFICES ASSUME IInv, [Next]_vars PROVE IInv'
  OBVIOUS
<1>1. ASSUME NEW t \in Threads, PoolStep(t) PROVE IInv'
  BY <1>1, WorkerExitStep, JoinReturnStep, SleepStep, TakeStep, ReturnExecStep,
     ReturnInlineStep, PostExecuteStep, ReacquireStep DEF PoolStep
<1>2. ASSUME NEW t \in Threads, Submit(t) PROVE IInv'
  <2>1. PICK flag \in Flags :
          \/ ExecuteParallelInline(t, flag)
          \/ \E n \in 1..MaxCount : ExecuteParallel(t, n, flag)
          \/ \E n \in 1..MaxCount : ExecuteParallelAsync(t, n, flag)
          \/ ExecuteParallelAsyncEmpty(t, flag)
    BY <1>2 DEF Submit
  <2>2. flag \in Queues
    BY ConstantsAssumption
  <2> QED
    BY <2>1, <2>2, ExecuteParallelInlineStep, ExecuteParallelStep,
       ExecuteParallelAsyncStep, ExecuteParallelAsyncEmptyStep
<1>3. ASSUME NEW t \in Threads, SpuriousWakeup(t) PROVE IInv'
  BY <1>3, SpuriousWakeupStep
<1>4. CASE UNCHANGED vars
  <2>1. /\ UNCHANGED <<nCalls, call, queue, stack, runs, finished>>
        /\ running' = running /\ pc' = pc
    BY <1>4 DEF vars
  <2>2. running' \in BOOLEAN /\ pc' \in [Threads -> Pcs]
    BY <2>1 DEF IInv, TypeOK
  <2>3. MutexHeldOnce' /\ ThreadShape' /\ NoLostWakeup'
    BY <2>1 DEF IInv, MutexHeldOnce, ThreadShape, NoLostWakeup, TopIs, Top,
                InWorkerLoop, Available, Completed
  <2> QED
    BY <2>1, <2>2, <2>3, ControlStep
<1> QED
  BY <1>1, <1>2, <1>3, <1>4, TerminateStep, TerminatedStep DEF Next

\* In every reachable state of the pool, for any number of threads, calls and
\* indices, the inductive invariant holds.
THEOREM Invariance == Spec => []IInv
<1>1. Init => IInv
  BY InitIInv
<1>2. IInv /\ [Next]_vars => IInv'
  BY NextIInv
<1> QED
  BY <1>1, <1>2, PTL DEF Spec

\* The variables have their types.
THEOREM TypeCorrect == Spec => []TypeOK
<1>1. IInv => TypeOK
  BY DEF IInv
<1> QED
  BY <1>1, Invariance, PTL

\* completedCount and nextIndex account for the callbacks in flight.
THEOREM AccountingHolds == Spec => []Accounting
<1>1. IInv => Accounting
  BY DEF IInv
<1> QED
  BY <1>1, Invariance, PTL

\* A queue holds exactly the tasks with an index to hand out, each once.
THEOREM QueueExactHolds == Spec => []QueueExact
<1>1. IInv => QueueExact
  BY DEF IInv
<1> QED
  BY <1>1, Invariance, PTL

\* Every index that is handed out is run once.
THEOREM EachIndexOnceHolds == Spec => []EachIndexOnce
<1>1. IInv => EachIndexOnce
  BY DEF IInv
<1> QED
  BY <1>1, Invariance, PTL

\* MainThreadOnly callbacks run on the main thread only.
THEOREM MainThreadOnlyHolds == Spec => []MainThreadOnlyRespected
<1>1. IInv => MainThreadOnlyRespected
  BY DEF IInv
<1> QED
  BY <1>1, Invariance, PTL

\* No wakeup is lost.
THEOREM NoLostWakeupHolds == Spec => []NoLostWakeup
<1>1. IInv => NoLostWakeup
  BY DEF IInv
<1> QED
  BY <1>1, Invariance, PTL

\* No stack and no queue refers to a Task that is gone.
THEOREM NoDanglingTaskHolds == Spec => []NoDanglingTask
<1>1. ASSUME IInv PROVE NoDanglingTask
  <2>1. \A t \in Threads : \A k \in DOMAIN stack[t] : call[stack[t][k].call].alive
    BY <1>1 DEF IInv, FrameShape
  <2>2. \A q \in Queues : \A k \in DOMAIN queue[q] : call[queue[q][k]].alive
    BY <1>1, QueuedTask
  <2> QED
    BY <2>1, <2>2 DEF NoDanglingTask
<1> QED
  BY <1>1, Invariance, PTL

\* A task with its last index accounted for has run each of its indices.
LEMMA CompletedHasRun ==
  ASSUME IInv, NEW x \in Calls, HasTask(x), Completed(x)
  PROVE  InFlight(x) = {} /\ \A i \in 0..(call[x].count - 1) : runs[x][i] = 1
<1>1. InFlight(x) = {} /\ call[x].nextIndex = call[x].count
  BY CompletedIsQuiet
<1>2. call[x].count \in 0..MaxCount /\ MaxCount \in Nat
  BY ConstantsAssumption DEF IInv, TypeOK, CallRecord
<1>3. \A i \in 0..(call[x].count - 1) : i \in Indices /\ i < call[x].nextIndex
  BY <1>1, <1>2 DEF Indices
<1> QED
  BY <1>1, <1>3 DEF IInv, EachIndexOnce

\* finishedCallback is run once, after the last index has been run.
THEOREM FinishedOnceAfterAllHolds == Spec => []FinishedOnceAfterAll
<1>1. ASSUME IInv PROVE FinishedOnceAfterAll
  <2> SUFFICES ASSUME NEW x \in Calls
               PROVE  /\ finished[x] = IF call[x].kind = "async" /\ ~call[x].alive THEN 1 ELSE 0
                      /\ finished[x] = 1 =>
                           /\ InFlight(x) = {}
                           /\ \A i \in 0..(call[x].count - 1) : runs[x][i] = 1
    BY DEF FinishedOnceAfterAll
  <2>1. finished[x] = IF call[x].kind = "async" /\ ~call[x].alive THEN 1 ELSE 0
    BY <1>1 DEF IInv, FinishedOnce
  <2>2. ASSUME finished[x] = 1 PROVE HasTask(x) /\ Completed(x)
    <3>1. call[x].kind = "async" /\ ~call[x].alive
      BY <2>1, <2>2
    <3> QED
      BY <1>1, <3>1 DEF IInv, CallShape, HasTask
  <2> QED
    BY <1>1, <2>1, <2>2, CompletedHasRun
<1> QED
  BY <1>1, Invariance, PTL

\* Among any calls there is a youngest one.
LEMMA YoungestCall ==
  ASSUME NEW W, W \subseteq Calls, W # {}
  PROVE  \E y \in W : \A x \in W : x <= y
<1> DEFINE U(x) == {z \in Calls : z > x}
           T == {U(x) : x \in W}
           R == StrictSubsetOrdering(Calls)
<1>1. Calls \subseteq Nat /\ IsFiniteSet(Calls)
  BY ConstantsAssumption, FS_Interval DEF Calls
<1>2. IsWellFoundedOn(R, SUBSET Calls)
  BY <1>1, FS_StrictSubsetOrderingWellFounded, FS_FiniteSubsetsOfFinite
<1>3. T \subseteq SUBSET Calls /\ T # {}
  OBVIOUS
<1>4. PICK m \in T : \A e \in T : <<e, m>> \notin R
  <2> HIDE DEF T, R
  <2> QED
    BY <1>2, <1>3, WFMin
<1>5. PICK y \in W : m = U(y)
  OBVIOUS
<1>6. ASSUME NEW x \in W PROVE x <= y
  <2>1. x \in Nat /\ y \in Nat /\ x \in Calls
    BY <1>1
  <2>2. SUFFICES ASSUME x > y PROVE FALSE
    BY <2>1
  <2>3. U(x) \subseteq U(y) /\ x \in U(y) /\ x \notin U(x)
    <3>1. \A z \in Calls : z > x => z > y
      BY <1>1, <2>1, <2>2
    <3>2. ~(x > x)
      BY <2>1
    <3> QED
      BY <2>1, <2>2, <3>1, <3>2
  <2>4. <<U(x), U(y)>> \in R
    BY <2>3 DEF StrictSubsetOrdering
  <2> QED
    BY <1>4, <1>5, <2>4
<1> QED
  BY <1>6

\* Nested calls never deadlock: among the calls threads are asleep in, the
\* youngest one would have to wait for an index that a thread asleep in a still
\* younger call has been handed.
THEOREM NoJoinDeadlockHolds == Spec => []NoJoinDeadlock
<1>1. ASSUME IInv PROVE NoJoinDeadlock
  <2> SUFFICES ASSUME NEW t0 \in Threads, pc[t0] = "cond", TopIs(t0, "join"),
                      \A t \in Threads : pc[t] \notin {"crit", "post", "wake"},
                      \A t \in Threads : pc[t] = "user" => stack[t] = <<>>,
                      queue["main"] = <<>>
               PROVE  FALSE
    BY DEF NoJoinDeadlock
  <2>1. /\ stack \in [Threads -> Seq(Frame)] /\ pc \in [Threads -> Pcs]
        /\ call \in [Calls -> CallRecord] /\ queue \in [Queues -> Seq(Calls)]
        /\ MaxCalls \in Nat
    BY <1>1, ConstantsAssumption DEF IInv, TypeOK
  <2>2. \A t \in Threads : stack[t] # <<>> => pc[t] = "cond" /\ TopIs(t, "join")
    <3> SUFFICES ASSUME NEW t \in Threads, stack[t] # <<>>
                 PROVE  pc[t] = "cond" /\ TopIs(t, "join")
      OBVIOUS
    <3>1. pc[t] \in Pcs
      BY <2>1
    <3>2. pc[t] \notin {"joining", "exited"}
      BY <1>1 DEF IInv, ThreadShape
    <3>3. pc[t] = "cond"
      BY <3>1, <3>2 DEF Pcs
    <3> QED
      BY <1>1, <3>3 DEF IInv, ThreadShape, InWorkerLoop
  <2>3. \A t \in Threads : TopIs(t, "join") => Top(t).call \in Calls
    BY <2>1, FrameTyped DEF TopIs, Top
  <2> DEFINE W == {x \in Calls : \E t \in Threads : TopIs(t, "join") /\ Top(t).call = x}
  <2>4. PICK y \in W : \A x \in W : x <= y
    <3>1. W \subseteq Calls /\ W # {}
      BY <2>3
    <3> HIDE DEF W
    <3> QED
      BY <3>1, YoungestCall
  <2>5. PICK t \in Threads : TopIs(t, "join") /\ Top(t).call = y
    BY <2>4
  <2>6. y \in Calls /\ pc[t] = "cond" /\ ~Completed(y) /\ Available(t) = {}
    BY <1>1, <2>2, <2>3, <2>5 DEF IInv, NoLostWakeup, TopIs
  <2>7. call[y].kind = "sync"
    <3>1. Len(stack[t]) \in DOMAIN stack[t] /\ Top(t) = stack[t][Len(stack[t])]
      BY <2>1, <2>5 DEF TopIs, Top
    <3> QED
      BY <1>1, <2>5, <3>1 DEF IInv, FrameShape, TopIs
  <2>8. call[y].nextIndex \in Nat /\ call[y].count \in Nat /\ call[y].completedCount \in Nat
        /\ call[y].flag \in Queues
    BY <2>1, <2>6, ConstantsAssumption DEF CallRecord
  <2>9. CASE call[y].nextIndex < call[y].count
    <3>1. \E k \in DOMAIN queue[call[y].flag] : queue[call[y].flag][k] = y
      BY <1>1, <2>6, <2>7, <2>8, <2>9 DEF IInv, QueueExact, HasTask
    <3>2. queue[call[y].flag] # <<>>
      BY <2>1, <2>8, <3>1
    <3> QED
      BY <2>6, <2>8, <3>2 DEF Available
  <2>10. CASE ~(call[y].nextIndex < call[y].count)
    <3>1. InFlight(y) # {}
      <4>1. SUFFICES ASSUME InFlight(y) = {} PROVE FALSE
        OBVIOUS
      <4>2. Cardinality(InFlight(y)) = 0
        BY <4>1, FS_EmptySet
      <4>3. call[y].completedCount + Cardinality(InFlight(y)) = call[y].nextIndex
            /\ call[y].nextIndex <= call[y].count
        BY <1>1, <2>6, <2>7 DEF IInv, Accounting, CallShape, HasTask
      <4> QED
        BY <2>6, <2>8, <2>10, <4>2, <4>3 DEF Completed
    <3>2. PICK u \in Threads : \E k \in DOMAIN stack[u] :
                                 stack[u][k].role = "exec" /\ stack[u][k].call = y
      BY <3>1, ExecFramesMember DEF InFlight
    <3>3. PICK k \in DOMAIN stack[u] : stack[u][k].role = "exec" /\ stack[u][k].call = y
      BY <3>2
    <3>4. stack[u] # <<>> /\ k \in Nat /\ k <= Len(stack[u]) /\ Len(stack[u]) \in DOMAIN stack[u]
          /\ Len(stack[u]) \in Nat
      BY <2>1, <3>3
    <3>5. TopIs(u, "join") /\ Top(u) = stack[u][Len(stack[u])]
      BY <2>2, <3>4 DEF Top
    <3>6. k < Len(stack[u])
      BY <3>3, <3>4, <3>5 DEF TopIs
    <3>7. y < Top(u).call
      BY <1>1, <3>3, <3>4, <3>5, <3>6 DEF IInv, JoinsAreYounger, TopIs
    <3>8. Top(u).call \in W
      BY <2>3, <3>5
    <3>9. Top(u).call <= y /\ Top(u).call \in Nat /\ y \in Nat
      <4>1. Top(u).call \in Nat /\ y \in Nat
        BY <2>1, <2>3, <2>6, <3>5 DEF Calls
      <4>2. Top(u).call <= y
        <5> HIDE DEF W
        <5> QED
          BY <2>4, <3>8
      <4> QED
        BY <4>1, <4>2
    <3> QED
      BY <3>7, <3>9
  <2> QED
    BY <2>9, <2>10
<1> QED
  BY <1>1, Invariance, PTL

\* Only JoinReturn shortens the stack of a thread that waits in executeParallel.
LEMMA JoinLeaves ==
  ASSUME IInv, [Next]_vars, NEW t \in Threads, TopIs(t, "join"),
         Len(stack'[t]) < Len(stack[t])
  PROVE  Completed(Top(t).call)
<1>1. stack \in [Threads -> Seq(Frame)] /\ Len(stack[t]) \in Nat /\ nCalls \in Nat
      /\ MaxCount \in Nat
  BY ConstantsAssumption DEF IInv, TypeOK
<1>2. ASSUME stack'[t] = stack[t] PROVE FALSE
  BY <1>1, <1>2
<1>3. ASSUME NEW u \in Threads, NEW f \in Frame, stack' = Pushed(u, f) PROVE FALSE
  BY <1>1, <1>2, <1>3, PushFrame
<1>4. ASSUME NEW u \in Threads, stack[u] # <<>>, Top(u).role # "join", stack' = Popped(u)
      PROVE  FALSE
  BY <1>1, <1>2, <1>4, PopFrame DEF TopIs
<1>5. ASSUME NEW u \in Threads, PoolStep(u) PROVE Completed(Top(t).call)
  <2>1. CASE WorkerExit(u)
    BY <1>2, <2>1 DEF WorkerExit
  <2>2. CASE JoinReturn(u)
    BY <1>1, <1>2, <2>2, PopFrame DEF JoinReturn, TopIs
  <2>3. CASE Sleep(u)
    BY <1>2, <2>3 DEF Sleep
  <2>4. CASE Take(u)
    <3>1. PICK f : f.role = "exec" /\ stack' = Pushed(u, f)
      BY <2>4 DEF Take, PreExecute
    <3> QED
      BY <1>1, <1>2, <3>1 DEF Pushed
  <2>5. CASE ReturnExec(u)
    BY <1>2, <2>5 DEF ReturnExec
  <2>6. CASE ReturnInline(u)
    BY <1>4, <2>6 DEF ReturnInline, TopIs
  <2>7. CASE PostExecute(u)
    BY <1>4, <2>7 DEF PostExecute, Completes, IInv, ThreadShape, TopIs
  <2>8. CASE Reacquire(u)
    BY <1>2, <2>8 DEF Reacquire
  <2> QED
    BY <1>5, <2>1, <2>2, <2>3, <2>4, <2>5, <2>6, <2>7, <2>8 DEF PoolStep
<1>6. ASSUME NEW u \in Threads, Submit(u) PROVE FALSE
  <2>1. PICK flag \in Flags :
          \/ ExecuteParallelInline(u, flag)
          \/ \E n \in 1..MaxCount : ExecuteParallel(u, n, flag)
          \/ \E n \in 1..MaxCount : ExecuteParallelAsync(u, n, flag)
          \/ ExecuteParallelAsyncEmpty(u, flag)
    BY <1>6 DEF Submit
  <2>2. ASSUME nCalls < MaxCalls PROVE nCalls + 1 \in Calls
    BY <1>1, <2>2, ConstantsAssumption DEF Calls
  <2>3. CASE ExecuteParallelInline(u, flag)
    <3>1. [role |-> "inline", call |-> nCalls + 1, index |-> 0] \in Frame
      BY <2>2, <2>3 DEF ExecuteParallelInline, NewCall, Frame
    <3> QED
      BY <1>3, <2>3, <3>1 DEF ExecuteParallelInline
  <2>4. CASE \E n \in 1..MaxCount : ExecuteParallel(u, n, flag)
    <3>1. [role |-> "join", call |-> nCalls + 1, index |-> 0] \in Frame
      BY <2>2, <2>4 DEF ExecuteParallel, NewCall, Frame
    <3> QED
      BY <1>3, <2>4, <3>1 DEF ExecuteParallel
  <2>5. CASE \/ \E n \in 1..MaxCount : ExecuteParallelAsync(u, n, flag)
             \/ ExecuteParallelAsyncEmpty(u, flag)
    BY <1>2, <2>5 DEF ExecuteParallelAsync, ExecuteParallelAsyncEmpty
  <2> QED
    BY <2>1, <2>3, <2>4, <2>5
<1>7. ASSUME NEW u \in Threads, SpuriousWakeup(u) PROVE FALSE
  BY <1>2, <1>7 DEF SpuriousWakeup
<1>8. CASE Terminate \/ Terminated \/ UNCHANGED vars
  BY <1>2, <1>8 DEF Terminate, Terminated, vars
<1> QED
  BY <1>5, <1>6, <1>7, <1>8 DEF Next

\* When executeParallel returns, all of its indices have been run, and none of
\* them is being run any more.
THEOREM JoinIsABarrierHolds == Spec => JoinIsABarrier
<1> DEFINE Barrier ==
      \A t \in Threads :
        TopIs(t, "join") /\ Len(stack'[t]) < Len(stack[t]) =>
          LET x == Top(t).call
          IN  /\ InFlight(x) = {}
              /\ \A i \in 0..(call[x].count - 1) : runs[x][i] = 1
<1>1. ASSUME IInv, [Next]_vars PROVE Barrier
  <2> SUFFICES ASSUME NEW t \in Threads, TopIs(t, "join"), Len(stack'[t]) < Len(stack[t])
               PROVE  LET x == Top(t).call
                      IN  /\ InFlight(x) = {}
                          /\ \A i \in 0..(call[x].count - 1) : runs[x][i] = 1
    OBVIOUS
  <2>1. Completed(Top(t).call)
    BY <1>1, JoinLeaves
  <2>2. PICK k \in DOMAIN stack[t] : Top(t) = stack[t][k]
    BY <1>1 DEF IInv, TypeOK, TopIs, Top
  <2>3. Top(t).call \in Calls
    BY <1>1, <2>2, FrameTyped DEF IInv, TypeOK
  <2>4. HasTask(Top(t).call)
    BY <1>1, <2>2 DEF IInv, FrameShape, HasTask, TopIs
  <2> QED
    BY <1>1, <2>1, <2>3, <2>4, CompletedHasRun
<1>2. IInv /\ [Next]_vars => [Barrier]_vars
  BY <1>1
<1> QED
  BY <1>2, Invariance, PTL DEF Spec, JoinIsABarrier
=============================================================================
