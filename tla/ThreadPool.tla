----------------------------- MODULE ThreadPool -----------------------------
(***************************************************************************)
(* Fabric::MT::ThreadPool (src/Native/Core/MT/Impl.h and Impl.cpp): one     *)
(* pool of worker threads, three LIFO queues of tasks, one mutex and one    *)
(* condition variable.  A thread that calls executeParallel helps to run    *)
(* tasks, its own or anybody's, until its own task is complete; so a thread *)
(* has a stack of frames: callbacks it is inside of, and executeParallel    *)
(* calls it is waiting in.                                                  *)
(*                                                                          *)
(* A "call" is one invocation of executeParallel or executeParallelAsync.   *)
(* Calls are numbered in the order they are made.  Except for one that runs *)
(* inline or has nothing to run, a call has a Task object.                  *)
(***************************************************************************)
EXTENDS Integers, Sequences, FiniteSets

CONSTANTS
  Threads,     \* every thread that uses the pool: the workers and MainThread
  MainThread,  \* the thread that constructed the pool (m_isMainThread)
  Flags,       \* the queues the program uses, a subset of Queues
  MaxCalls,    \* bound: how many calls are made
  MaxCount     \* bound: the largest "count" of a call

\* m_mainThreadTasks, m_tasks, m_idleTasks
Queues == {"main", "normal", "idle"}

ASSUME ConstantsAssumption ==
  /\ IsFiniteSet(Threads)
  /\ MainThread \in Threads
  /\ Flags \subseteq Queues
  /\ MaxCalls \in Nat
  /\ MaxCount \in Nat

Workers == Threads \ {MainThread}
Calls == 1..MaxCalls

VARIABLES
  nCalls,   \* how many calls have been made
  call,     \* [Calls -> CallRecord], the Task of each call
  queue,    \* [Queues -> Seq(Calls)], the three vectors of Task pointers
  running,  \* m_running
  pc,       \* what each thread is doing
  stack,    \* [Threads -> Seq(Frame)], innermost frame last
  runs,     \* history: how often callback(userdata, i) was entered, per call
  finished  \* history: how often finishedCallback was run, per call

vars == <<nCalls, call, queue, running, pc, stack, runs, finished>>

Indices == 0..(MaxCount - 1)

\* "none" is a call not made yet.  alive: the Task exists (on its caller's
\* stack, or on the heap); an inline call has no Task, alive is its extent.
CallRecord ==
  [kind : {"none", "inline", "sync", "async"}, flag : Queues,
   count : 0..MaxCount, nextIndex : 0..MaxCount, completedCount : 0..MaxCount,
   alive : BOOLEAN]

\* exec: inside Task::execute; inline: inside the callback executeParallel ran
\* directly; join: inside the executeParallel loop for its own task.
Frame == [role : {"exec", "inline", "join"}, call : Calls, index : Nat]

\* user: client code, outside m_stateMutex.  post: a callback has returned and
\* the thread acquires m_stateMutex to account for it.  crit: holds
\* m_stateMutex, at the test of one of the two loops (workerMain,
\* executeParallel).  cond: asleep in m_stateCond.wait.  wake: woken (or a
\* worker just started), acquiring m_stateMutex.  joining: in terminate, waiting
\* for the workers.  exited: returned from workerMain or terminate.
Pcs == {"user", "post", "crit", "cond", "wake", "joining", "exited"}

Top(t) == stack[t][Len(stack[t])]
TopIs(t, role) == stack[t] # <<>> /\ Top(t).role = role
Pushed(t, frame) == [stack EXCEPT ![t] = Append(@, frame)]
Popped(t) == [stack EXCEPT ![t] = SubSeq(@, 1, Len(@) - 1)]

\* m_stateMutex is free.
MutexFree == \A t \in Threads : pc[t] # "crit"

\* Mutants of Awakened: a signal, which wakes one sleeper; and nothing at all.
AwakenedOne ==
  IF \E t \in Threads : pc[t] = "cond"
  THEN [pc EXCEPT ![CHOOSE t \in Threads : pc[t] = "cond"] = "wake"]
  ELSE pc

AwakenedNobody == pc

\* m_stateCond.broadcast()
Awakened == [t \in Threads |-> IF pc[t] = "cond" THEN "wake" ELSE pc[t]]

\* The Task of call x is destroyed, or its inline callback has returned.
Disposed(x) == [call EXCEPT ![x].alive = FALSE]

\* A mutant of Completed: complete once the last index is handed out.
CompletedWhenTaken(x) == call[x].nextIndex = call[x].count

\* Task::completed
Completed(x) == call[x].completedCount = call[x].count
-----------------------------------------------------------------------------
(***************************************************************************)
(* Submitting work.                                                         *)
(***************************************************************************)
NewCall(kind, flag, n, next, alive) ==
  LET x == nCalls + 1
  IN  /\ nCalls < MaxCalls
      /\ nCalls' = x
      /\ call' = [call EXCEPT ![x] =
           [kind |-> kind, flag |-> flag, count |-> n,
            nextIndex |-> next, completedCount |-> 0, alive |-> alive]]

\* executeParallel runs a single iteration itself, unless it has to run on the
\* main thread and this is another one.
RunsInline(t, n, flag) == n = 1 /\ (flag # "main" \/ t = MainThread)

ExecuteParallelInline(t, flag) ==
  LET x == nCalls + 1
  IN  /\ pc[t] = "user"
      /\ MaxCount >= 1
      /\ RunsInline(t, 1, flag)
      /\ NewCall("inline", flag, 1, 1, TRUE)
      /\ stack' = Pushed(t, [role |-> "inline", call |-> x, index |-> 0])
      /\ runs' = [runs EXCEPT ![x][0] = @ + 1]
      /\ UNCHANGED <<queue, running, pc, finished>>

\* A count of 0 returns at once and changes nothing: it is not an action.
ExecuteParallel(t, n, flag) ==
  LET x == nCalls + 1
  IN  /\ pc[t] = "user"
      /\ n > 0
      /\ ~RunsInline(t, n, flag)
      /\ MutexFree
      /\ NewCall("sync", flag, n, 0, TRUE)
      /\ queue' = [queue EXCEPT ![flag] = Append(@, x)]
      /\ stack' = Pushed(t, [role |-> "join", call |-> x, index |-> 0])
      /\ pc' = [Awakened EXCEPT ![t] = "crit"]
      /\ UNCHANGED <<running, runs, finished>>

ExecuteParallelAsync(t, n, flag) ==
  LET x == nCalls + 1
  IN  /\ pc[t] = "user"
      /\ n > 0
      /\ MutexFree
      /\ NewCall("async", flag, n, 0, TRUE)
      /\ queue' = [queue EXCEPT ![flag] = Append(@, x)]
      /\ pc' = Awakened
      /\ UNCHANGED <<running, stack, runs, finished>>

\* With nothing to run, finishedCallback is run at once by the caller.
ExecuteParallelAsyncEmpty(t, flag) ==
  LET x == nCalls + 1
  IN  /\ pc[t] = "user"
      /\ NewCall("async", flag, 0, 0, FALSE)
      /\ finished' = [finished EXCEPT ![x] = @ + 1]
      /\ UNCHANGED <<queue, running, pc, stack, runs>>
-----------------------------------------------------------------------------
(***************************************************************************)
(* The two loops around executeOneTaskIfPossible_CRITICAL_SECTION.          *)
(***************************************************************************)
InWorkerLoop(t) == t # MainThread /\ stack[t] = <<>>

\* workerMain leaves its loop.
WorkerExit(t) ==
  /\ pc[t] = "crit"
  /\ InWorkerLoop(t)
  /\ ~running
  /\ pc' = [pc EXCEPT ![t] = "exited"]
  /\ UNCHANGED <<nCalls, call, queue, running, stack, runs, finished>>

\* executeParallel leaves its loop; the Task on its stack is destroyed.
JoinReturn(t) ==
  /\ pc[t] = "crit"
  /\ TopIs(t, "join")
  /\ Completed(Top(t).call)
  /\ call' = Disposed(Top(t).call)
  /\ stack' = Popped(t)
  /\ pc' = [pc EXCEPT ![t] = "user"]
  /\ UNCHANGED <<nCalls, queue, running, runs, finished>>

\* A mutant of LoopsOn: a join, too, stops helping when the pool is terminated.
LoopsOnWhileRunning(t) ==
  /\ pc[t] = "crit"
  /\ running
  /\ InWorkerLoop(t) \/ (TopIs(t, "join") /\ ~Completed(Top(t).call))

\* The condition of the loop t is in holds: it calls executeOneTaskIfPossible.
LoopsOn(t) ==
  /\ pc[t] = "crit"
  /\ \/ InWorkerLoop(t) /\ running
     \/ TopIs(t, "join") /\ ~Completed(Top(t).call)

\* The queues t may take work from, and the one it prefers.
Available(t) ==
  {q \in Queues : queue[q] # <<>> /\ (q = "main" => t = MainThread)}

Preferred(t) ==
  IF "main" \in Available(t) THEN "main"
  ELSE IF "normal" \in Available(t) THEN "normal" ELSE "idle"

Sleep(t) ==
  /\ LoopsOn(t)
  /\ Available(t) = {}
  /\ pc' = [pc EXCEPT ![t] = "cond"]
  /\ UNCHANGED <<nCalls, call, queue, running, stack, runs, finished>>

\* Mutants of PreExecute and HasMore: the index is not counted; the last index
\* is tested for one too late.
PreExecuteUncounted(x) == call
HasMoreLate(x) == call[x].nextIndex < call[x].count

\* preExecute_CRITICAL_SECTION, and what it returns.
PreExecute(x) == [call EXCEPT ![x].nextIndex = @ + 1]
HasMore(x) == call[x].nextIndex + 1 < call[x].count

\* Take the next index of the last task of the queue; the task leaves the
\* queue with its last index.
Take(t) ==
  /\ LoopsOn(t)
  /\ Available(t) # {}
  /\ LET q == Preferred(t)
         x == queue[q][Len(queue[q])]
         i == call[x].nextIndex
     IN  /\ call' = PreExecute(x)
         /\ queue' = IF HasMore(x)
                     THEN queue
                     ELSE [queue EXCEPT ![q] = SubSeq(@, 1, Len(@) - 1)]
         /\ stack' = Pushed(t, [role |-> "exec", call |-> x, index |-> i])
         /\ runs' = [runs EXCEPT ![x][i] = @ + 1]
  /\ pc' = [pc EXCEPT ![t] = "user"]
  /\ UNCHANGED <<nCalls, running, finished>>

\* A callback returns or throws.  Out of Task::execute every exception is
\* caught (and logged); an inline callback returns to its caller's code.
ReturnExec(t) ==
  /\ pc[t] = "user"
  /\ TopIs(t, "exec")
  /\ pc' = [pc EXCEPT ![t] = "post"]
  /\ UNCHANGED <<nCalls, call, queue, running, stack, runs, finished>>

ReturnInline(t) ==
  /\ pc[t] = "user"
  /\ TopIs(t, "inline")
  /\ call' = Disposed(Top(t).call)
  /\ stack' = Popped(t)
  /\ UNCHANGED <<nCalls, queue, running, pc, runs, finished>>

\* A mutant of Completes: complete once no index is left to hand out.
CompletesWhenTaken(x) == call[x].nextIndex = call[x].count

\* The callback that is accounted for now is the last one of call x.
Completes(x) == call[x].completedCount + 1 = call[x].count

\* postExecute_CRITICAL_SECTION and what follows it.  The thread that completes
\* the task runs finishedCallback, disposes of the task and wakes everybody.
PostExecute(t) ==
  /\ pc[t] = "post"
  /\ MutexFree
  /\ LET x == Top(t).call
         last == Completes(x)
         async == call[x].kind = "async"
     IN  /\ call' = [call EXCEPT ![x].completedCount = @ + 1,
                                 ![x].alive = ~(last /\ async)]
         /\ finished' = IF last /\ async
                        THEN [finished EXCEPT ![x] = @ + 1]
                        ELSE finished
         /\ pc' = [(IF last THEN Awakened ELSE pc) EXCEPT ![t] = "crit"]
  /\ stack' = Popped(t)
  /\ UNCHANGED <<nCalls, queue, running, runs>>

\* m_stateCond.wait returns (or a worker starts): m_stateMutex is re-acquired.
Reacquire(t) ==
  /\ pc[t] = "wake"
  /\ MutexFree
  /\ pc' = [pc EXCEPT ![t] = "crit"]
  /\ UNCHANGED <<nCalls, call, queue, running, stack, runs, finished>>

\* pthread_cond_wait may return without a broadcast.
SpuriousWakeup(t) ==
  /\ pc[t] = "cond"
  /\ pc' = [pc EXCEPT ![t] = "wake"]
  /\ UNCHANGED <<nCalls, call, queue, running, stack, runs, finished>>
-----------------------------------------------------------------------------
(***************************************************************************)
(* terminate(), called by the main thread outside of any call.              *)
(***************************************************************************)
Terminate ==
  /\ pc[MainThread] = "user"
  /\ stack[MainThread] = <<>>
  /\ running
  /\ MutexFree
  /\ running' = FALSE
  /\ pc' = [Awakened EXCEPT ![MainThread] = "joining"]
  /\ UNCHANGED <<nCalls, call, queue, stack, runs, finished>>

Terminated ==
  /\ pc[MainThread] = "joining"
  /\ \A t \in Workers : pc[t] = "exited"
  /\ pc' = [pc EXCEPT ![MainThread] = "exited"]
  /\ UNCHANGED <<nCalls, call, queue, running, stack, runs, finished>>
-----------------------------------------------------------------------------
\* The constructor starts the workers, each of which acquires m_stateMutex.
Init ==
  /\ nCalls = 0
  /\ call = [x \in Calls |->
       [kind |-> "none", flag |-> "normal", count |-> 0,
        nextIndex |-> 0, completedCount |-> 0, alive |-> FALSE]]
  /\ queue = [q \in Queues |-> <<>>]
  /\ running = TRUE
  /\ pc = [t \in Threads |-> IF t = MainThread THEN "user" ELSE "wake"]
  /\ stack = [t \in Threads |-> <<>>]
  /\ runs = [x \in Calls |-> [i \in Indices |-> 0]]
  /\ finished = [x \in Calls |-> 0]

\* What a thread does inside the pool, and the return of a callback.
PoolStep(t) ==
  \/ WorkerExit(t)
  \/ JoinReturn(t)
  \/ Sleep(t)
  \/ Take(t)
  \/ ReturnExec(t)
  \/ ReturnInline(t)
  \/ PostExecute(t)
  \/ Reacquire(t)

\* What client code asks of the pool.
Submit(t) ==
  \E flag \in Flags :
    \/ ExecuteParallelInline(t, flag)
    \/ \E n \in 1..MaxCount : ExecuteParallel(t, n, flag)
    \/ \E n \in 1..MaxCount : ExecuteParallelAsync(t, n, flag)
    \/ ExecuteParallelAsyncEmpty(t, flag)

Next ==
  \/ \E t \in Threads : PoolStep(t) \/ Submit(t) \/ SpuriousWakeup(t)
  \/ Terminate
  \/ Terminated

Spec == Init /\ [][Next]_vars

(***************************************************************************)
(* Fairness: the operating system schedules every thread, a mutex that is   *)
(* released again and again is eventually granted to a thread that wants it *)
(* (strong fairness), and a callback eventually returns.  Nothing makes     *)
(* client code submit work or terminate the pool.                           *)
(***************************************************************************)
Fairness ==
  /\ \A t \in Threads : WF_vars(PoolStep(t))
  /\ \A t \in Threads : SF_vars(PostExecute(t)) /\ SF_vars(Reacquire(t))
  /\ WF_vars(Terminated)

FairSpec == Spec /\ Fairness
-----------------------------------------------------------------------------
(***************************************************************************)
(* Properties.                                                              *)
(***************************************************************************)

\* The callbacks of call x that have been entered and not accounted for: where
\* their frames are on the stacks st.
Frames(st) == UNION {{t} \X DOMAIN st[t] : t \in Threads}

ExecFrames(st, x) ==
  {f \in Frames(st) : st[f[1]][f[2]].role = "exec" /\ st[f[1]][f[2]].call = x}

InFlight(x) == ExecFrames(stack, x)

HasTask(x) == call[x].kind \in {"sync", "async"}

\* Every variable has its type.
TypeOK ==
  /\ nCalls \in 0..MaxCalls
  /\ call \in [Calls -> CallRecord]
  /\ queue \in [Queues -> Seq(Calls)]
  /\ running \in BOOLEAN
  /\ pc \in [Threads -> Pcs]
  /\ stack \in [Threads -> Seq(Frame)]
  /\ runs \in [Calls -> [Indices -> Nat]]
  /\ finished \in [Calls -> Nat]

\* The two counters of a Task account for the threads inside its callbacks:
\* what the assertions of preExecute, postExecute and ~Task rely on, although
\* the callbacks run outside m_stateMutex.
Accounting ==
  \A x \in Calls : HasTask(x) =>
    /\ call[x].completedCount + Cardinality(InFlight(x)) = call[x].nextIndex

\* A Task is in its queue, once, exactly while it has an index to hand out: no
\* task is lost, and no queue holds a pointer to a Task that is gone.
QueueExact ==
  \A q \in Queues :
    /\ \A k, l \in DOMAIN queue[q] : queue[q][k] = queue[q][l] => k = l
    /\ \A x \in Calls :
         (\E k \in DOMAIN queue[q] : queue[q][k] = x)
           <=> /\ HasTask(x)
               /\ call[x].flag = q
               /\ call[x].nextIndex < call[x].count

\* A Task lives as long as it is queued or some thread is inside one of its
\* callbacks or waits for it: no thread ever touches a Task that was deleted
\* (dispose) or whose caller has returned.
NoDanglingTask ==
  /\ \A t \in Threads : \A k \in DOMAIN stack[t] : call[stack[t][k].call].alive
  /\ \A q \in Queues : \A k \in DOMAIN queue[q] : call[queue[q][k]].alive

\* Whatever the interleaving, the callback runs once for each index handed out,
\* and never for another one.
EachIndexOnce ==
  \A x \in Calls : \A i \in Indices :
    runs[x][i] = IF i < call[x].nextIndex THEN 1 ELSE 0

\* A MainThreadOnly callback is only ever run by the main thread, also when
\* another thread asked for it or is waiting for it.
MainThreadOnlyRespected ==
  \A t \in Threads : \A k \in DOMAIN stack[t] :
    /\ stack[t][k].role # "join"
    /\ call[stack[t][k].call].flag = "main"
    => t = MainThread

\* finishedCallback runs exactly once, and only when every index has been run
\* and no thread is still inside a callback.
FinishedOnceAfterAll ==
  \A x \in Calls :
    /\ finished[x] = IF call[x].kind = "async" /\ ~call[x].alive THEN 1 ELSE 0
    /\ finished[x] = 1 => /\ InFlight(x) = {}
                          /\ \A i \in 0..(call[x].count - 1) : runs[x][i] = 1

\* A thread is only asleep when it has nothing to do: there is no task it may
\* run, the call it waits for is incomplete, and the pool has not been told to
\* stop.  No wakeup is lost.
NoLostWakeup ==
  \A t \in Threads : pc[t] = "cond" =>
    /\ Available(t) = {}
    /\ TopIs(t, "join") => ~Completed(Top(t).call)
    /\ InWorkerLoop(t) => running

\* Nested calls never deadlock, although a waiting thread may get stuck under
\* callbacks of unrelated calls: whenever a thread sleeps in executeParallel,
\* some thread is in the pool's code or in a callback, or work for the main
\* thread is waiting for the main thread to call the pool.
NoJoinDeadlock ==
  (\E t \in Threads : pc[t] = "cond" /\ TopIs(t, "join")) =>
    \/ \E t \in Threads : pc[t] \in {"crit", "post", "wake"}
    \/ \E t \in Threads : pc[t] = "user" /\ stack[t] # <<>>
    \/ queue["main"] # <<>>

\* executeParallel is a barrier: when it returns, each index has been run once
\* and no thread is inside any of them.
JoinIsABarrier ==
  [][\A t \in Threads :
       TopIs(t, "join") /\ Len(stack'[t]) < Len(stack[t]) =>
         LET x == Top(t).call
         IN  /\ InFlight(x) = {}
             /\ \A i \in 0..(call[x].count - 1) : runs[x][i] = 1]_vars

\* There is work for the main thread, and it never comes to call the pool again:
\* it has no reason to, or it is in terminate.
MainStaysAway == [](queue["main"] # <<>>)

\* Every executeParallel returns, also when the pool is terminated meanwhile,
\* unless work for the main thread waits for it for ever.
JoinReturns ==
  \A x \in Calls :
    (call[x].kind = "sync" /\ call[x].alive) ~> (~call[x].alive \/ MainStaysAway)

\* finishedCallback is eventually run, unless the pool is terminated, or work for
\* the main thread waits for it for ever.
AsyncFinishes ==
  \A x \in Calls :
    (call[x].kind = "async" /\ running) ~>
      (finished[x] = 1 \/ ~running \/ MainStaysAway)

\* A worker waits for a call that is for the main thread only, and has not run.
WaitsForMain ==
  \E k \in DOMAIN queue["main"] : call[queue["main"][k]].kind = "sync"

\* terminate() returns, every worker having left its loop, unless one of them waits
\* for the main thread, which runs no tasks in terminate.
TerminateReturns ==
  (pc[MainThread] = "joining") ~> (pc[MainThread] = "exited" \/ WaitsForMain)
-----------------------------------------------------------------------------
(***************************************************************************)
(* The inductive invariants, for the proofs in ThreadPoolProofs (IInv) and  *)
(* ThreadPoolRefinement (RInv).                                             *)
(***************************************************************************)
MutexHeldOnce == \A t, u \in Threads : pc[t] = "crit" /\ pc[u] = "crit" => t = u

\* Where the code a thread is in, told by its innermost frame, lets it be.
ThreadShape ==
  \A t \in Threads :
    /\ pc[t] = "user" => \/ stack[t] = <<>> /\ t = MainThread
                         \/ TopIs(t, "exec")
                         \/ TopIs(t, "inline")
    /\ pc[t] = "post" => TopIs(t, "exec")
    /\ pc[t] \in {"crit", "cond", "wake"} => InWorkerLoop(t) \/ TopIs(t, "join")
    /\ pc[t] \in {"joining", "exited"} => stack[t] = <<>>

\* Calls are numbered as they are made; a Task lives until it is complete.
CallShape ==
  \A x \in Calls :
    /\ call[x].kind = "none" <=> x > nCalls
    /\ call[x].kind = "none" => call[x].nextIndex = 0 /\ ~call[x].alive
    /\ call[x].nextIndex <= call[x].count
    /\ call[x].kind = "async" => (call[x].alive <=> ~Completed(x))
    /\ call[x].kind = "sync" => (~call[x].alive => Completed(x))

\* A frame belongs to a call of its kind, which is alive.
FrameShape ==
  \A t \in Threads : \A k \in DOMAIN stack[t] :
    LET frame == stack[t][k]
    IN  /\ call[frame.call].alive
        /\ frame.role = "exec" => HasTask(frame.call)
        /\ frame.role = "inline" => call[frame.call].kind = "inline"
        /\ frame.role = "join" => call[frame.call].kind = "sync"

\* A thread waits inside a callback (the main thread also outside of any); a
\* task is executed by a thread that waits, or by a worker's loop.
Nesting ==
  \A t \in Threads : \A k \in DOMAIN stack[t] :
    IF k = 1 THEN stack[t][k].role = "exec" <=> t # MainThread
             ELSE stack[t][k].role = "exec" <=> stack[t][k - 1].role = "join"

\* A call that is not a Task, or is waited for, has one frame.
SingleFrames ==
  \A t, u \in Threads : \A k \in DOMAIN stack[t] : \A l \in DOMAIN stack[u] :
    /\ stack[t][k].role # "exec"
    /\ stack[u][l].role # "exec"
    /\ stack[t][k].call = stack[u][l].call
    => t = u /\ k = l

\* A call a thread waits for was made after every callback that thread is
\* inside of was handed to it.
JoinsAreYounger ==
  \A t \in Threads : \A k, l \in DOMAIN stack[t] :
    k < l /\ stack[t][k].role = "exec" /\ stack[t][l].role = "join"
      => stack[t][k].call < stack[t][l].call

FinishedOnce ==
  \A x \in Calls :
    finished[x] = IF call[x].kind = "async" /\ ~call[x].alive THEN 1 ELSE 0

IInv ==
  /\ TypeOK
  /\ MutexHeldOnce
  /\ ThreadShape
  /\ CallShape
  /\ FrameShape
  /\ Nesting
  /\ SingleFrames
  /\ JoinsAreYounger
  /\ \A x \in Calls : IsFiniteSet(InFlight(x))
  /\ Accounting
  /\ QueueExact
  /\ EachIndexOnce
  /\ MainThreadOnlyRespected
  /\ FinishedOnce
  /\ NoLostWakeup

\* A callback is run for an index that was handed out, and no two callbacks of
\* a task for the same one; a call that has no Task has the one index 0.
IndexShape ==
  /\ \A t \in Threads : \A k \in DOMAIN stack[t] :
       LET frame == stack[t][k]
       IN  /\ frame.role = "exec" => frame.index < call[frame.call].nextIndex
           /\ frame.role = "inline" => frame.index = 0
  /\ \A t, u \in Threads : \A k \in DOMAIN stack[t] : \A l \in DOMAIN stack[u] :
       /\ stack[t][k].role = "exec"
       /\ stack[u][l].role = "exec"
       /\ stack[t][k].call = stack[u][l].call
       /\ stack[t][k].index = stack[u][l].index
       => t = u /\ k = l
  /\ \A x \in Calls :
       /\ call[x].kind = "inline" => call[x].count = 1 /\ call[x].nextIndex = 1
       /\ call[x].kind = "none" => call[x].count = 0

\* The inductive invariant, and what the refinement needs besides.
RInv == IInv /\ IndexShape
-----------------------------------------------------------------------------
\* The pool implements ParallelCalls under this mapping: an index has begun
\* once its callback was entered, and has ended once that callback returned; a
\* call is closed when executeParallel returns or finishedCallback has run.
Inside(t, k) ==
  /\ stack[t][k].role # "join"
  /\ k = Len(stack[t]) => pc[t] # "post"

BusyWith(x, i) ==
  \E t \in Threads : \E k \in DOMAIN stack[t] :
    Inside(t, k) /\ stack[t][k].call = x /\ stack[t][k].index = i

Phase(x) ==
  IF call[x].kind = "none" THEN "unborn"
  ELSE IF call[x].alive THEN "open" ELSE "closed"

Begun(x) == {i \in Indices : runs[x][i] > 0}
Ended(x) == {i \in Begun(x) : ~BusyWith(x, i)}

phases == [x \in Calls |-> Phase(x)]
counts == [x \in Calls |-> call[x].count]
begunSets == [x \in Calls |-> Begun(x)]
endedSets == [x \in Calls |-> Ended(x)]

Abstract == INSTANCE ParallelCalls WITH
  phase <- phases, count <- counts, begun <- begunSets, ended <- endedSets

ImplementsParallelCalls == Abstract!Spec
=============================================================================
