--------------------------- MODULE AsyncEvaluation ---------------------------
(***************************************************************************)
(* Evaluations on the thread pool.  Node::evaluate is a command of the main *)
(* thread, which holds the mutex of the context meanwhile (jsonRoute).      *)
(* Node::evaluateAsync makes an idle task of the pool, the callback of which*)
(* (Node::EvaluateAsyncCallback) holds that mutex, too, while it runs a     *)
(* TaskGroupStream.  The groups of the stream, and the operators over the   *)
(* slices of a node in them, are executeParallel calls of the same pool, and*)
(* a thread that waits in one runs what it finds in the queues, another     *)
(* evaluation too: the mutex is recursive (src/Native/Core/Util/Mutex.h).   *)
(* The pool is ThreadPool; this module says what the callbacks do.          *)
(*                                                                          *)
(* Every evaluation is of one node, which depends on Width others: the      *)
(* stream is a group of Width tasks, then a group of one.                   *)
(***************************************************************************)
EXTENDS ThreadPool, Batches

CONSTANTS
  Width,          \* the number of dependencies, nodes 0..(Width - 1)
  Sliced,         \* those of them with an operator over their slices
  SliceCount,     \* the size of the containers of the nodes in Sliced
  MaxEvaluations, \* bound: how often a node is evaluated
  MaxPending,     \* bound: how many evaluateAsync are unfinished at a time
  Nobody          \* no holder

ASSUME AsyncConstants ==
  /\ {"normal", "idle"} \subseteq Flags
  /\ Width \in 1..MaxCount
  /\ Sliced \subseteq 0..(Width - 1)
  /\ SliceCount \in Nat \ {0}
  /\ Workers # {}
  /\ BatchCount(SliceCount, Cardinality(Workers)) <= MaxCount
  /\ MaxEvaluations \in Nat
  /\ MaxPending \in Nat
  /\ Nobody \notin Threads

VARIABLES
  holder,  \* the thread that holds the context's mutex
  depth,   \* how often it has acquired it
  job,     \* [Calls -> Jobs], what the callback of a call is
  step,    \* [Calls -> [Indices -> 0..4]], where that callback is
  dirty,   \* the nodes with m_dirty
  command, \* the evaluation the main thread is a command of, and where it is
  asked,   \* how many evaluations were asked for, which numbers them
  evaluation \* history: [Calls -> 0..MaxEvaluations], which one a call is part of

context == <<holder, depth, job, step, dirty, command, asked, evaluation>>
asyncVars == <<vars, context>>

Jobs == {"none", "evaluate", "group", "dependent", "slices"}

\* getNumCores: the pool has one worker for each.
Cores == Cardinality(Workers)

\* The frame t is in the code of, and the node it evaluates.
InCallback(t, what, n) ==
  /\ pc[t] = "user"
  /\ stack[t] # <<>>
  /\ job[Top(t).call] = what
  /\ step[Top(t).call][Top(t).index] = n

NoCommand == [evaluation |-> 0, step |-> 0]

\* t is in the code of an evaluation, at n: 0 to acquire the mutex, 1 and 2 to
\* execute the groups, 3 to release the mutex, 4 done.  The main thread is in a
\* command where it is in no callback.
InEvaluation(t, n) ==
  \/ InCallback(t, "evaluate", n)
  \/ t = MainThread /\ pc[t] = "user" /\ stack[t] = <<>> /\ n > 0 /\ command.step = n

EvaluationOf(t) ==
  IF stack[t] = <<>> THEN command.evaluation ELSE evaluation[Top(t).call]

Proceed(t) ==
  IF stack[t] = <<>>
  THEN command' = [command EXCEPT !.step = @ + 1] /\ UNCHANGED step
  ELSE step' = [step EXCEPT ![Top(t).call][Top(t).index] = @ + 1] /\ UNCHANGED command

NodeOf(t) ==
  IF job[Top(t).call] = "dependent" THEN Width ELSE Top(t).index

\* A call of executeParallel by an evaluation, or by a callback of one; one of a
\* single index runs inline.
Calls_executeParallel(t, n, what) ==
  /\ IF n = 1 THEN ExecuteParallelInline(t, "normal") ELSE ExecuteParallel(t, n, "normal")
  /\ job' = [job EXCEPT ![nCalls + 1] = what]
  /\ evaluation' = [evaluation EXCEPT ![nCalls + 1] = EvaluationOf(t)]
  /\ Proceed(t)

Return(t) == ReturnExec(t) \/ ReturnInline(t)
-----------------------------------------------------------------------------
(***************************************************************************)
(* Node::evaluate, Node::evaluateAsync and Container::setData, commands of  *)
(* the main thread, and Node::EvaluateAsyncCallback.                        *)
(***************************************************************************)
Evaluations == {x \in Calls : job[x] = "evaluate"}
Pending == {x \in Evaluations : finished[x] = 0}

\* jsonRoute has the mutex, once the thread that evaluates has released it.
Command ==
  /\ pc[MainThread] = "user"
  /\ stack[MainThread] = <<>>
  /\ command = NoCommand
  /\ holder = Nobody

Evaluate ==
  /\ Command
  /\ asked < MaxEvaluations
  /\ asked' = asked + 1
  /\ command' = [evaluation |-> asked + 1, step |-> 1]
  /\ holder' = MainThread
  /\ depth' = 1
  /\ UNCHANGED <<vars, job, step, dirty, evaluation>>

EvaluateAsync ==
  /\ Command
  /\ asked < MaxEvaluations
  /\ Cardinality(Pending) < MaxPending
  /\ ExecuteParallelAsync(MainThread, 1, "idle")
  /\ asked' = asked + 1
  /\ job' = [job EXCEPT ![nCalls + 1] = "evaluate"]
  /\ evaluation' = [evaluation EXCEPT ![nCalls + 1] = asked + 1]
  /\ UNCHANGED <<holder, depth, step, dirty, command>>

\* Container::setData on a dependency makes the dependent dirty, too.
SetData(n) ==
  /\ Command
  /\ dirty' = dirty \union {n, Width}
  /\ UNCHANGED <<vars, holder, depth, job, step, command, asked, evaluation>>

\* A mutant of AcquireMutex: it does not wait.
AcquireMutexAnyway(t) ==
  /\ InEvaluation(t, 0)
  /\ holder' = t
  /\ depth' = depth + 1
  /\ Proceed(t)
  /\ UNCHANGED <<vars, job, dirty, asked, evaluation>>

AcquireMutex(t) ==
  /\ InEvaluation(t, 0)
  /\ holder \in {Nobody, t}
  /\ holder' = t
  /\ depth' = depth + 1
  /\ Proceed(t)
  /\ UNCHANGED <<vars, job, dirty, asked, evaluation>>

\* taskGroupStream.execute: one group after the other.
ExecuteGroup(t) ==
  /\ InEvaluation(t, 1)
  /\ Calls_executeParallel(t, Width, "group")
  /\ UNCHANGED <<holder, depth, dirty, asked>>

ExecuteDependent(t) ==
  /\ InEvaluation(t, 2)
  /\ Calls_executeParallel(t, 1, "dependent")
  /\ UNCHANGED <<holder, depth, dirty, asked>>

ReleaseMutex(t) ==
  /\ InEvaluation(t, 3)
  /\ holder' = IF depth = 1 THEN Nobody ELSE holder
  /\ depth' = depth - 1
  /\ IF stack[t] = <<>> THEN command' = NoCommand /\ UNCHANGED step ELSE Proceed(t)
  /\ UNCHANGED <<vars, job, dirty, asked, evaluation>>

EndEvaluation(t) ==
  /\ InCallback(t, "evaluate", 4)
  /\ ReturnExec(t)
  /\ UNCHANGED context
-----------------------------------------------------------------------------
(***************************************************************************)
(* Node::evaluateLocal, the task of a node, and the slices of an operator.  *)
(***************************************************************************)
NodeJobs == {"group", "dependent"}

SkipClean(t) ==
  /\ \E what \in NodeJobs : InCallback(t, what, 0)
  /\ NodeOf(t) \notin dirty
  /\ Return(t)
  /\ UNCHANGED context

\* The operators are run: by this thread alone, or in batches of slices.
BeginOperators(t) ==
  /\ \E what \in NodeJobs : InCallback(t, what, 0)
  /\ NodeOf(t) \in dirty
  /\ NodeOf(t) \notin Sliced
  /\ Proceed(t)
  /\ UNCHANGED <<vars, holder, depth, job, dirty, asked, evaluation>>

BeginSlices(t) ==
  /\ \E what \in NodeJobs : InCallback(t, what, 0)
  /\ NodeOf(t) \in dirty \intersect Sliced
  /\ Calls_executeParallel(t, BatchCount(SliceCount, Cores), "slices")
  /\ UNCHANGED <<holder, depth, dirty, asked>>

EndSlice(t) ==
  /\ InCallback(t, "slices", 0)
  /\ Return(t)
  /\ UNCHANGED context

EndOperators(t) ==
  /\ \E what \in NodeJobs : InCallback(t, what, 1)
  /\ dirty' = dirty \ {NodeOf(t)}
  /\ Return(t)
  /\ UNCHANGED <<holder, depth, job, step, command, asked, evaluation>>
-----------------------------------------------------------------------------
Callback(t) ==
  \/ AcquireMutex(t)
  \/ ExecuteGroup(t)
  \/ ExecuteDependent(t)
  \/ ReleaseMutex(t)
  \/ EndEvaluation(t)
  \/ SkipClean(t)
  \/ BeginOperators(t)
  \/ BeginSlices(t)
  \/ EndSlice(t)
  \/ EndOperators(t)

\* The steps of the pool that are not those of a callback.
Pool(t) ==
  /\ JoinReturn(t) \/ Sleep(t) \/ Take(t) \/ PostExecute(t) \/ Reacquire(t)
  /\ UNCHANGED context

AsyncInit ==
  /\ Init
  /\ holder = Nobody
  /\ depth = 0
  /\ job = [x \in Calls |-> "none"]
  /\ step = [x \in Calls |-> [i \in Indices |-> 0]]
  /\ dirty = 0..Width
  /\ command = NoCommand
  /\ asked = 0
  /\ evaluation = [x \in Calls |-> 0]

AsyncNext ==
  \/ Evaluate
  \/ EvaluateAsync
  \/ \E n \in 0..(Width - 1) : SetData(n)
  \/ \E t \in Threads : Callback(t) \/ Pool(t)

AsyncSpec == AsyncInit /\ [][AsyncNext]_asyncVars

\* Threads are scheduled, and mutexes are granted, as in ThreadPool; operators
\* end.  Nothing makes the client evaluate.
AsyncFairness ==
  /\ \A t \in Threads : WF_asyncVars(Callback(t) \/ Pool(t))
  /\ \A t \in Threads : SF_asyncVars(Callback(t))
  /\ \A t \in Threads :
       /\ SF_asyncVars(Reacquire(t) /\ UNCHANGED context)
       /\ SF_asyncVars(PostExecute(t) /\ UNCHANGED context)

FairAsyncSpec == AsyncSpec /\ AsyncFairness
-----------------------------------------------------------------------------
(***************************************************************************)
(* Properties.                                                              *)
(***************************************************************************)

\* Where the operators of node n, or their slices, are being run for evaluation e.
Running(e, n) ==
  {f \in Frames(stack) :
     LET frame == stack[f[1]][f[2]]
     IN  /\ frame.role # "join"
         /\ evaluation[frame.call] = e
         /\ \/ job[frame.call] = "group" /\ frame.index = n
            \/ job[frame.call] = "dependent" /\ n = Width
         /\ step[frame.call][frame.index] = 1
         /\ f[2] = Len(stack[f[1]]) => pc[f[1]] = "user"}

\* Within an evaluation, the operators of the node run after those of all its
\* dependencies have finished, and nobody runs those of a node a second time
\* meanwhile, whichever threads the tasks are handed to and whatever other
\* evaluation they take while they wait.
EvaluationOrdered ==
  \A e \in 1..MaxEvaluations :
    /\ Running(e, Width) # {} => \A n \in 0..(Width - 1) : Running(e, n) = {}
    /\ \A n \in 0..Width : \A f, g \in Running(e, n) : f = g

\* The evaluations between acquireMutex and releaseMutex are all on the stack of
\* the thread that holds the mutex, as often as it has acquired it: two of them
\* overlap only where one thread has begun the second while it waits in the first.
ContextHeld ==
  LET entered == {f \in Frames(stack) :
                    LET frame == stack[f[1]][f[2]]
                    IN  job[frame.call] = "evaluate" /\ step[frame.call][0] \in 1..3}
  IN  /\ \A f \in entered : f[1] = holder
      /\ command # NoCommand => holder = MainThread
      /\ depth = Cardinality(entered) + (IF command = NoCommand THEN 0 ELSE 1)
      /\ holder = Nobody <=> depth = 0

\* When ParallelCall::executeParallel returns, the operator has been run once
\* for each slice, whatever way the batches were handed to the threads.
RanOnce(x, s) ==
  \E i \in Indices :
    /\ runs[x][i] = 1
    /\ s \in Batch(SliceCount, Cores, i)
    /\ \A j \in Indices \ {i} :
         runs[x][j] > 0 => s \notin Batch(SliceCount, Cores, j)

SlicesRunOnce ==
  \A x \in Calls : job[x] = "slices" /\ ~call[x].alive =>
    \A s \in 0..(SliceCount - 1) : RanOnce(x, s)

\* What the calls of each job are: for the proofs.
CountOf(what) ==
  IF what = "slices" THEN BatchCount(SliceCount, Cores)
  ELSE IF what = "group" THEN Width ELSE 1

JobShape ==
  /\ job \in [Calls -> Jobs]
  /\ \A x \in Calls : job[x] # "none" =>
       /\ call[x].count = CountOf(job[x])
       /\ IF job[x] = "evaluate" THEN call[x].kind = "async"
          ELSE call[x].kind \in {"sync", "inline"}

\* The finished callback of every evaluateAsync is called.
EvaluationsFinish ==
  \A x \in Calls : (job[x] = "evaluate") ~> (finished[x] = 1)

\* A thread waits for the mutex that another one holds, in an evaluation it took
\* while it waited in another callback, which does not end before.
Buried ==
  \E t \in Threads :
    InCallback(t, "evaluate", 0) /\ holder \notin {Nobody, t} /\ Len(stack[t]) > 1

\* That is the one thing that keeps an evaluation from finishing.
FinishUnlessBuried ==
  \A x \in Calls : (job[x] = "evaluate") ~> (finished[x] = 1 \/ []Buried)
=============================================================================
