# A verification project for the Fabric Engine core

Fabric Engine evaluates dependency graphs of nodes whose operators, written in
the KL language and compiled to machine code, run in parallel on a pool of
threads. This directory holds TLA+ modules that model the part of the core on
which everything else rests, `src/Native/Core/MT` (the thread pool),
`src/Native/Core/DG` (the graph, its evaluation, its events, its operators and their
code) and the loading of
resources (`DG/ResourceLoadNode`, `IO/ResourceManager`), the configurations under
which TLC checks them, and proofs that TLAPS checks. `PROJECT.json` lists the
components, the runs, the hazards, the findings, and for each definition the
lines it models.

    tlc -workers 2 -config MCThreadPoolNested.cfg MCThreadPool
    tlapm ThreadPoolRefinement.tla

## The system

| Part | State it keeps | Operations | Interacts with |
|---|---|---|---|
| Thread pool (`MT/Impl.h`, `Impl.cpp`) | three LIFO vectors of `Task` pointers, `m_running`, one mutex, one condition variable; per task `m_nextIndex`, `m_completedCount` | `executeParallel`, `executeParallelAsync`, `terminate`, the workers' loop | calls callbacks, which call the pool again |
| Task groups, streams, parallel calls (`MT/TaskGroup*.cpp`, `ParallelCall.h`) | tasks by rank; base addresses, offsets and batches of a bound operator | `add`, `execute`; `addAdjustment`, `executeParallel` | built by nodes, run on the pool |
| Graph nodes (`DG/Node.cpp`) | dependencies, dependents, rank, `m_dirty`, `m_runState` | `setDependency`, `removeDependency`, `destroy`, `evaluate`, `evaluateAsync` | marks others through `CompiledObject`; streams on the pool |
| Compiled objects (`DG/CompiledObject.cpp`) | the sets of objects marked for recompile and for refresh, generations, errors | `markForRecompile`, `markForRefresh`, `PrepareForExecution` | nodes, binding lists, events, handlers, operators |
| Containers, binding lists (`DG/Container.cpp`, `BindingList.cpp`) | members and their slices; the operators of a node | `setData`, `resize`; `append`, `insert`, `remove`, `clear` | dirty and mark their node |
| Contexts, clients (`DG/Context.cpp`, `Client.cpp`) | named objects, clients, pending notifications, the recursive mutex | JSON commands, notification brackets | hold the mutex for every command |
| Events, handlers (`DG/Event.cpp`, `EventHandler.cpp`, `Scope.h`) | lists of handlers and children with references back, names given to nodes, selectors, the collected tasks | append, remove, `setScope`, `setScopeName`, `setSelector`, `destroy`, `fire`, `select` | marked by nodes, mark each other both ways; evaluate the nodes they name |
| Operators, functions, code (`DG/Operator.cpp`, `Function.cpp`, `Code.cpp`, `CodeManager.cpp`) | source, entry point, AST, execution engine, registered functions | set source or entry point, compile, optimise later in an idle task, replace the machine code | tasks of the pool; calls bound in nodes, which they mark |
| Resource loading (`DG/ResourceLoadNode.cpp`, `IO/ResourceManager.cpp`, `FileResourceProvider.cpp`, `HTTPResourceProvider.cpp`) | the URL asked for and its generation, pending requests, jobs and streams, files in use | evaluate, `get`, `cancelRequests`, `onData`, `onFile`, `onProgress`, `onFailure` | main-thread tasks, jobs on the pool, the browser's calls |
| Map-reduce producers (`MR`) | caches of produced values | `produce`, `flush` | run by any thread |
| Reference counting (`Base/RC`) | counts, weak containers | `retain`, `release`, `makeStrong` | everything |
| Primitives (`Util/Mutex.h`, `Cond.h`, `TLS.h`) | wait sets, ownership | acquire, release, wait, broadcast | the pool and contexts |
| Compiler, types, JSON, plug-ins, client bindings | large data, little shared state | | |

What is hard in this code, in short (`PROJECT.json` has the whole list, each
item at its line):

* **The pool.** A thread that waits for its own call runs anybody's callbacks
  meanwhile. So a stack may hold callbacks of unrelated calls, one condition
  variable serves both the workers and the waiting threads, and a task lives on the
  stack of a caller that other threads know nothing about.
* **Deferred consequences.** Edits of the graph only mark objects and raise
  ranks; three traversals (mark, refresh, set out of date) stop early at what is
  marked or dirty already, and are right only while certain relations between the
  marks, the dirty flags and the graph hold.
* **Asynchrony.** An evaluation, by a command of the main thread or in an idle task,
  holds the context's recursive mutex while it waits in the pool, and a waiting thread
  may be handed another one: the holder then enters again, and any other thread blocks
  on top of what it was doing.
* **Answers.** A resource arrives chunk by chunk, from a job on the pool or from
  the browser, while the node that asked for it may ask for another, keep what it
  has, or be destroyed; requests are not cancelled, they lose their client.
* **Shared code.** Operators share code that a job optimises and releases on its own
  time, while commands replace sources and entry points in any order, with errors.
* **Shared handlers.** An event's tasks are collected once. Handlers are shared by
  events and by other handlers, and what a name means depends on the way to them.

What makes each part correct: the pool runs each index once, wakes whoever has
something to do and returns when all is done; the graph never skips a node whose
data is stale and never runs operators before those they depend on; each evaluation,
asynchronous or not, keeps to that order whatever other one it overlaps with, and ends;
an event runs what
the present graph says, after the nodes it names; a load node shows all of the
resource of its URL or nothing, and each request is answered to the end; a node calls
what its operators say now, in the newest machine code, and no code is freed in use.

## Modules

| Module | Models | Used by |
|---|---|---|
| `ParallelCalls` | what a client of the pool may rely on: a call runs each index once and closes after all have ended | `ThreadPool`, as the abstract specification |
| `ThreadPool` | `MT::ThreadPool` with its mutex, its condition variable, nested calls and `terminate` | `AsyncEvaluation`, `ThreadPoolProofs` |
| `ThreadPoolProofs` | theorems about `ThreadPool`: its invariants | `ThreadPoolRefinement` |
| `ThreadPoolRefinement` | the theorem that `ThreadPool` implements `ParallelCalls` | `AsyncEvaluationProofs` |
| `Batches` | how `ParallelCall` deals slices out to iterations | `AsyncEvaluation` |
| `DependencyGraph` | nodes, marks, ranks, dirtiness, run states and evaluation of one context | `DependencyGraphProofs` |
| `DependencyGraphProofs` | theorems about `DependencyGraph`: traversals, ranks, marks, evaluations | |
| `AsyncEvaluation` | composes `ThreadPool` and `Batches` with what `Node::evaluate` and the callbacks of `Node::evaluateAsync` do | `AsyncEvaluationProofs` |
| `AsyncEvaluationProofs` | theorems about `Batches`, about the composition, and about both | |
| `ResourceLoading` | load nodes, the resource manager, and the two providers that answer its requests | `ResourceLoadingProofs` |
| `ResourceLoadingProofs` | theorems about `ResourceLoading`: requests, answers and references | `ResourceLoadingContents` |
| `ResourceLoadingContents` | theorems about what a load node shows | |
| `Events` | events, event handlers, their scopes and what an event collects and runs | `EventsProofs` |
| `EventsProofs` | theorems about `Events`: links, marks, answers and collected tasks | |
| `Operators` | operators, their functions, the code they share, the jobs that optimise it, and reference counts | `OperatorsProofs` |
| `OperatorsProofs` | theorems about `Operators` | |
| `MCThreadPool`, `MCOperators`, `MCDependencyGraph`, `MCAsyncEvaluation`, `MCResourceLoading`, `MCEvents` | instances for TLC | |

### ThreadPool

Calls of `executeParallel` and `executeParallelAsync` are numbered as they are
made; `call[x]` is the `Task` of call `x`, and `alive` says that it exists.
`queue` holds `m_mainThreadTasks`, `m_tasks` and `m_idleTasks`. Each thread has a
`pc` and a `stack` of frames: callbacks it is inside of and `executeParallel`
loops it waits in. The atomic steps are the stretches of code under
`m_stateMutex`: `ExecuteParallel` runs from the acquisition to the first test of
the loop; `Sleep`, `Take` and `JoinReturn` are the branches of one turn of the
loop; `PostExecute` is what follows a callback, from the acquisition to the next
test, with `finishedCallback`, `dispose` and the broadcast. A thread that waits
for the mutex is at `post` or `wake`; a thread asleep in the condition variable
is at `cond`, and a spurious wakeup is always possible. A callback may do whatever
the pool allows between its start and its return, so `Submit` is enabled for
every thread inside a callback, and for the main thread outside of one.

`runs` and `finished` are history variables: how often each callback was
entered and each `finishedCallback` run. A `count` of 0 given to
`executeParallel` changes nothing and is no action. Exceptions out of a callback
are caught by the pool and logged, so a return and a throw are one action.
`LogCollector` and TLS of user data are left out.

Only the main thread runs calls that are for the main thread only, and only while it
waits in a call of its own: it need not come again, and takes none in `terminate`.
`MainStaysAway` is the former, `WaitsForMain` a worker joined on such a call. The
liveness properties of the pool except these two cases by name, and `pool_liveness` has
all three queues, so that they occur.

`ImplementsParallelCalls` maps a call to the phase, count and sets of indices of
`ParallelCalls`: an index has begun when it was handed out, and has ended when no
thread is inside its callback any more (`BusyWith`), which is before the mutex is
taken again to account for it.

### DependencyGraph

`dep` is `m_dependencies` (dependents are derived from it), `rank` is
`m_globalDependencyRank`, `bindings` are the names a node's operators refer to;
`errors`, `marked`, `refresh`, `dirty`, `run` and `calls` are the state
`CompiledObject` and `Node` keep. `current` is history: the nodes whose data
their operators have computed from the present data of their dependencies. It is
what `m_dirty` and the marks try to tell. A node whose operators ran with calls bound
before a resize, or in which an exception was caught by the pool, is not `current`, nor
is what is computed from it; `faults` is history, too, and says which of the two
happened (`"stale"`, `"exception"`). A change of data or of the graph takes back both for
what is downstream (`Forgotten`).

A command of a client is one step, since it holds the context's mutex and its
traversals are not interrupted. The traversals are stated by what they reach
*with their early stops*: `Recompiled`, `Refreshed` and `OutOfDate` do not go on
from an object that is marked or dirty. Generations are abstracted to membership
of the marked sets: `PrepareForExecution` empties a set and increments its
generation together, so that "has the next generation" and "is in the set" are
the same (they are both set in `markForRecompile`). Ranks are maintained edge by
edge as in the code, and compared with the definition for the whole
graph (`OwnRank`): `Settled` works off a list of calls still to be made, of which
`Visited` makes the first and puts those it makes on the dependents in its place.
`Settled` visits dependents in a fixed order, where the code
follows the order of addresses; the invariant `RankExact` determines the result,
so nothing depends on the order.

`Evaluate` ends when `taskGroupStream.execute` begins, and from there the tasks
of a group interleave, one step when the operators of a node begin and one when
they end, throw, or end after a resize of their own node. Exceptions are of two kinds.
One in an operator that the caller runs (`MayThrow`) leaves `evaluateLocal`
before `m_dirty` is reset (`ThrowOperators`), and ends the evaluation unless the
group has several tasks. One in an operator run in several iterations (`MayThrowInPool`) is
caught by the pool, `executeParallel` returns, and the node becomes clean like any other
(`RunToEnd`). `Destroy` makes a node
as good as one not created yet, so creating a node is not an action of its own.
A binding refers to one dependency at most, and bindings that fail for another
reason (types) are left out.

### AsyncEvaluation

Extends `ThreadPool`: each call carries a `job` and each of its callbacks a
`step`, and the callbacks do what `Node::EvaluateAsyncCallback`,
`TaskGroup::ExecuteTask`, `Node::evaluateLocal` and
`ParallelCall::ExecuteParallel` do, instead of anything at all. `Evaluate` is
`Node::evaluate` in a command of the main thread: `command` says where it is, and from
the acquisition of the mutex on it takes the same steps as an evaluation in an idle task
(`InEvaluation`). `holder` and `depth` are the context's recursive mutex; a command needs
it free. Evaluations are numbered as they are asked for (`asked`), and the history
variable `evaluation` says which one a call is part of, whatever stack it is on.

The graph is fixed: one node on `Width` dependencies, some with an operator over
`SliceCount` slices (the ones that call the pool again, once for each batch). There are as
many cores as workers, as `getNumCores` decides both. `MaxEvaluations` bounds how often
the node is evaluated, `MaxPending` how many `evaluateAsync` are unfinished at a time.
`Event::fire` evaluates in the same way and is no action of its own.

### Batches

Pure operators for the arithmetic of `ParallelCall`: `BatchSize` and `BatchCount` are
computed when a call is bound (`addAdjustment`), `Batch` by each iteration
(`executeStub`). `Partition` is what they have to achieve. A container of size zero has
no batch, and calling the pool with a count of zero does nothing.

### ResourceLoading

`node[n]` holds the members of a `ResourceLoadNode` (`url`, `store` for
`keepMemoryCache` and `storeDataAsFile`, `resource`) and its private state: the
stream's URL and data, `m_keepMemoryCache`, `m_asFile`, `m_firstEvalAfterLoad`,
`m_inProgress`. `m_streamGeneration` is abstracted to `latest`, the request it was
given to: it is incremented by each evaluation that asks, so the answers that bear
it are those of that request. `request` is `m_pendingRequests`, `source` what a
provider still has to say (a `ReadFileJob`, a stream of the browser), `callbacks` the
answers scheduled to the main thread, which runs them in order
(`Clients/NPAPI/IOManager.cpp:23`). Data is a sequence of chunks, each known by the
URL it came from.

Commands, scheduled answers and the browser's calls are steps of the main thread;
the jobs of the pool interleave with them chunk by chunk. The evaluation of a load
node is split by what it finds (`EvaluateSettled`, `EvaluateKept`, `EvaluateLoad`,
`EvaluateEmpty`) and includes the end of `Node::evaluateLocal`, which makes it clean.
Any file may be missing, any job may fail at any chunk, the browser may refuse a
stream or break it. A node is created anew in the place of a destroyed one when no
request retains it; a slot of `Requests` is used again when nothing refers to it.

Left out: the throttling of intermediate progress, which changes no node; MIME types and
extensions; a read that returns less than was asked for, which the job takes for a full
one (`FileResourceProvider.cpp:59` tests for errors only); the files kept open in
`m_filesInUse` and a file that cannot be opened in `onFile`; clients that run scheduled
answers at once (Node.js, Python); a request the browser ends by `NPP_URLNotify` alone;
the manager's destruction.

### Events

`handlers`, `children` and `scopes` are the links the client makes, `events`,
`parents` and `users` the references back that the code keeps beside them, as sets
or multisets. `can`, `stream` and `tasks` are the run states: whether an object can
execute, the nodes an event evaluates and the tasks it collected. A task is a list
of bindings of one handler run in order, or a selector, and `uses` is what its names
were found to be. Scopes are functions from names, composed as
`collectEventTasksImpl` composes `BindingsScope` and `NamedScope`; `EventIsCurrent`
compares what was collected, whenever that was, with a definition after the
programming guide: the nearest handler on the way to have the name (`Nearest`), each
handler's operators before and after its children's (`Visited`). `ensureRunState` asks
objects in turn and stops at the first that cannot execute: `Answer` is what a handler
answers, `Asked` the handlers that get to answer, and keep what they answered.

Every command holds the context's mutex and is one step. A node stands for itself
and all it depends on, and can execute or cannot (`DependencyGraph` has what is
inside). The code deletes the run state of a marked object in the next
`PrepareForExecution`, before anything reads it: the module drops it with the mark.
A destroyed object is as good as one not created yet. `DestroyEventHandler` takes the
steps of `destroy` together, marking what each of them marks. Left out: operators
that throw, names bound to the handler as `self`, which are always found, replacing a
whole binding list (no command does), and a handler appended twice to one event,
which trips `FABRIC_VERIFY` (`EventHandler.cpp:140`).

### Operators

`source`, `entry`, `ast`, `code` and `function` are the members of an `Operator`;
`call` is the function of the `ParallelCall` that its node has bound and `able` says
that the node had no errors when it was compiled, so that `evaluateLocal` goes on to
bind. `of`, `stub` and `runs` are a `Function`'s code, name and machine code; `text`,
`count`, `engine` and `registered` a `Code`'s. `cache` is the manager's map from sources
to weak handles. Objects are addresses: when freed they may be allocated again, so a
function left registered, or a weak handle left valid, would come to stand for
something else.

A command holds the context's mutex, but the jobs of the pool do not. So a command is
cut where a job may come in between: the lookup (`FindCode` or `CreateCode`), the
handle that is made of what it found (`TakeCode`, or `TakeReleasedCode` when the job was
first), the new `Function` that registers itself, then asks for the engine, then keeps it
(`CreateFunction`, `ReadEngine`, `SetFunction`). A job gives its functions the new
machine code under both mutexes of the code and is one step there; its `release` is
three (the count, the weak container, the end). After code is retained that was
released for good, or an unbound call is made, nothing is described (`undefined`);
`TypeOK` and `RefsExact` hold to that point.

`Given` and `Named` bound what a client may set; `NoSource` is an empty source or
filename, `NoName` an empty entry point. Left out: jobs that fail (LLVM is taken to
succeed, the context to live on), `mainThreadOnly`, the extensions that a source
requires, one operator in several nodes, and the weak container made twice
(`Object.cpp:71`).

## Runs

| Run | Instance | What it shows |
|---|---|---|
| `pool_liveness` | main thread, 2 workers, 2 calls of up to 2 indices, all three queues, fairness | the pool implements `ParallelCalls`; calls return, asynchronous calls finish, `terminate` returns, unless work for the main thread waits for it |
| `pool_nested` | the same threads, normal and main-thread queues, 3 calls | accounting, lifetimes, wakeups, nested waiting, the barrier |
| `graph_edits` | 3 nodes, 2 names, one whose operators resize it or have an exception caught by the pool | exact ranks and order, and evaluations that miss nothing, after any sequence of edits, except below such operators |
| `graph_throws` | 3 nodes, 1 name, one binding, one node resized, any operators throw, those of one node in an iteration, too | errors, run states, cached calls and dirtiness survive failures; what is clean is current except below what the pool caught |
| `async_overlap` | main thread, 1 worker, 2 dependencies with 9 slices each, 2 evaluations, synchronous or not, fairness | each evaluation is ordered and the mutex held by the one thread that all of them are on, also where they overlap; each slice is run once; all end, unless a thread is buried |
| `resource_loading` | 1 node, 2 requests, a file and an http URL of 2 chunks, fairness | the resource is whole and current, the requests' bookkeeping exact, every request ends |
| `events` | 1 event, 2 handlers, up to 2 children each, 1 node, 1 name | references back, errors, what an event runs, what it evaluates first |
| `operators` | 2 operators, 3 sources (one has errors, one a plain function), 2 names, 2 codes, 3 functions | references, sharing, what nodes call and which machine code it has |
| `graph_stale`, `async_stuck`, `resource_empty`, `events_resize` | | violated: the findings below |

*Bounds.* Three threads are two workers that can compete, plus the main thread, which is
special; two calls of two indices let one thread be inside another call's callback while
both are incomplete, and three let a waiting thread be buried under a callback of a
third party. The proofs remove these bounds for the safety properties. They also have
what these runs do not list: exact queues and history, `finishedCallback` once and after
all, main-thread-only work on the main thread. Three nodes give chains, joins, forks and
two equal edges, with two names each; with one name each the graph is a forest of
chains, in which no group of an evaluation has two tasks. That is why
`DirtyReachesDependents` holds in `graph_throws` and not in `graph_stale`: an exception
out of a group of one task ends the evaluation, one out of a larger group does not. The
split of names and throws over two runs keeps each below two minutes. Nine slices on one
core are five batches, the last of them short. The main thread and one worker are enough
for all that two evaluations can do to each other: one may run while the other waits for
the mutex, the holder may enter the second on top of the first, and the other thread may
block in it in the middle of a task of the first. Two requests are one that is answered
and one that superseded it; two chunks have a first, that is not the end, and a last.
Two handlers are a parent and a child, shared, twice a child or reordered; one name is
enough for a handler's own name to hide a node's. Two operators share code or replace
each other's; two codes and three functions are enough to have one freed and its address
used again while another is in use, and a command that would need more waits. Nodes,
workers and addresses that are alike are interchangeable (symmetry), in runs without
liveness only.

*Deadlock* is checked in `resource_loading`, `events` and `events_resize`; the other
systems may stop: clients need not submit anything, and the numbers of calls and
of addresses are bounded.

*Fairness.* `ThreadPool!Fairness`: threads are scheduled (weak), a mutex that is
released over and over is granted in the end (strong, on the two acquisitions
outside of a call), and callbacks return. Nothing obliges a client to submit work
or to call `terminate`. The strong fairness is an assumption on the operating
system; without it a worker may be kept from the mutex for ever. In
`AsyncEvaluation` the same holds for the context's mutex, and nothing obliges the client
to evaluate. Neither makes a callback end that waits for a mutex that nobody will
release, or a main thread call the pool that has no reason to.
`ResourceLoading!Fairness`: the pool runs a job on, the browser goes on with a
stream, the main thread comes to run what is scheduled. A client need not evaluate.

## Findings

1. `graph_stale`: after an exception in a group of several tasks a dirty node has
   a clean dependent; setting the node's data does not reach the dependent any
   more (`Node.cpp:118`), against the programming guide.
2. `async_stuck`: a worker in the middle of a task of one evaluation may take a pending
   asynchronous one and block on the mutex, whose holder waits for that very task
   (`Node.cpp:290`). One pending evaluation is enough: the other is
   `Node::evaluate` in a command of the main thread. `FinishUnlessBuried` says that
   nothing else keeps an evaluation from finishing.
3. `resource_empty`: an http resource that ends without data gets no last answer; its
   node waits, and is retained, for ever (`HTTPResourceProvider.cpp:99`). The passing
   run takes every http stream to announce its true, non-zero length.
4. `events_resize`: events keep calls bound to nodes, and a node's refresh does not
   reach them (`Node.cpp:414`); after a resize an event runs with stale calls.

The holder of the mutex may take the pending evaluation, too, and enters, the mutex being
recursive. So `EvaluationOrdered` is about each evaluation by itself, and holds without
a condition on the client. Across evaluations there is no order: the main thread may run the
dependent for the second while a worker runs the operators of a dependency
for the first. They are apart only if no asynchronous evaluation is pending whenever a
node is evaluated, synchronously or not; `ContextHeld` says that overlapping ones are on one
thread.

Met while modelling, and not the subject of a run:

* A worker joined on a call that is for the main thread only waits until the main thread
  waits in the pool itself (`Impl.cpp:166`). In `terminate` it does not (`Impl.cpp:89`), and
  both wait for ever. `TerminateReturns`, `JoinReturns` and `AsyncFinishes` except it.
* An operator that resizes its node: dependents evaluated later in the same evaluation
  still use calls bound to the old size and addresses (`Node.cpp:324`), become clean, and
  everything upstream is clean, though they missed data. With a node in `MayResize`,
  `DependencyGraph!NoStaleCall` fails; `graph_throws` has none there. In `graph_edits`
  there is one, and `EvaluationMakesCurrent` excepts what is downstream of a stale run.
* An exception in an operator that runs in several iterations is caught by the pool in
  `executeParallel` (`ParallelCall.h:108`, `Impl.cpp:186`), and `Node.cpp:332` makes the
  node clean: neither the caller nor the graph knows that slices were left out.
  `CleanIsCurrent` and `EvaluationMakesCurrent` except what is downstream of it.
* `makeStrong` may find code whose job makes the last release, and `Code::Create`
  may hand out code whose job has ended before a handle is made: code is retained after
  its last release, which the comment at `Object.cpp:29` wants excluded
  (`TakeReleasedCode`). It takes a client that leaves the optimising to jobs
  (`Clients/NPAPI/Context.cpp:45`). Python (`ClientWrap.cpp:70`) and Node.js
  (`Client.cpp:225`) do not: for them `SynchronousTakesLive` proves that it never happens.
* `setEntryPoint` to a name that the source lacks keeps the AST of the operator found
  before, and makes a function of it (`Operator.cpp:301`; debug builds assert at 276).
* An exception, an empty source and an empty entry point leave the nodes unmarked
  (`Operator.cpp:189`, `237`, `302`): they go on with the old code, and when they bind anew
  after a resize they find no function and call nothing (`BindNothing`; debug builds
  assert at `Node.cpp:320`). `CallsCurrent` therefore speaks of operators that have
  their entry point.
* `insert` never replaces a dead entry (`CodeManager.cpp:37`), so that source is not shared
  again. A function created while the optimised code arrives may keep the first engine
  (`Function.cpp:25`).

## Proofs

`ThreadPoolProofs` proves, for every finite set of threads, every set of queues and
every bound on calls and counts, the safety properties of `ThreadPool`, from
`ConstantsAssumption` alone. All rest on `Invariance`: `Spec => []IInv`, with one lemma
for each action. `IInv` strengthens the properties with what makes them inductive:

* `MutexHeldOnce`, `ThreadShape`: what the stack of a thread looks like where it
  is in the code;
* `CallShape`, `FrameShape`: a frame belongs to a live call of its kind, and a
  task lives until it is complete;
* `Nesting`, `SingleFrames`: a thread waits only on top of a callback, and only
  one frame waits for a call;
* `JoinsAreYounger`: the call a thread waits for was made after every callback
  below it was handed out. This is the argument that nested waiting cannot
  deadlock: if all threads slept, take the youngest incomplete call one of them
  waits for; it is in no queue that thread may take from, so some thread is inside one of
  its callbacks, and that thread is waiting for a younger call;
* `Accounting` with `IsFiniteSet(InFlight(x))`: the cardinality argument that
  ties the counters to the stacks.

`NoDanglingTask`, `FinishedOnceAfterAll` and `NoJoinDeadlock` follow from `IInv`;
`JoinIsABarrier` is an action property that follows from it at each step. The
bounds `MaxCalls` and `MaxCount` are constants without an upper limit.

`ThreadPoolRefinement` proves `Spec => ImplementsParallelCalls`. A step of a thread
changes the abstract state by what one frame on top of one stack gains or loses, so the
proof has to know that no other frame, of this or of another thread, is for the same
index of the same call. `IInv` counts the frames of a task but does not tell them apart;
`IndexShape` does, and `RInv` is both. There is one lemma for each action that preserves
`IndexShape` and one that maps it: `ExecuteParallel` and its variants open a call,
`Take` begins an index, the return of a callback ends one, `JoinReturn` and
`PostExecute` close a call, and everything else stutters.

`AsyncEvaluationProofs` starts with three theorems. `BatchesPartition`: for any number of slices
and cores, each slice is in exactly one batch and no batch is empty. `AsyncUsesPool`:
`AsyncSpec => Spec`, so that every theorem about the pool holds of asynchronous
evaluations. `SlicesRunOnceHolds` brings them together: when the parallel execution of
an operator returns, it has been run exactly once on each slice. It follows from the
barrier and `EachIndexOnce` in the pool's invariant, `BatchesPartition`, and `JobShape`
(such a call has one index for each batch).

Its second part is about the order within an evaluation (`EvaluationOrderedHolds`), for
any number of threads, dependencies, slices and evaluations, synchronous or not, and
however many are pending. The invariant `OrderInv` adds to `RInv` and `JobShape`:

* `Numbered`: two evaluations never have the same number, so one is at one place, on the
  stack of one thread (`OnePlace`), or it is the main thread's command;
* `NodeCallsMade`: every live call for nodes was made by the evaluation it is part of,
  which waits in it, and whose `step` tells for which group (`EvaluatesAt`, `WaitsIn`).

An evaluation waits in one call at a time, so it has at most one live call for nodes
(`OneNodeCall`): operators of the dependent and of a dependency would need two, and
those of one node would need two callbacks with the same index of one call. What other
evaluations the threads take while they wait does not matter: their calls have other
numbers.

`ResourceLoadingProofs` proves for any finite sets of nodes and requests and any URLs
and sizes, from `ResourceConstants` and `HonestHttp` (http streams announce their true,
non-zero length: what finding 3 is about), that `Spec => []IInv`, with one lemma for
each action. Its `IInv` is `TypeOK`, `NothingDangles`, `RetainedByRequests` and
`HeardSound` with what makes them inductive, for each request (`RequestSound`,
`AnswersSound`, `SourceSound`). `HonestHttp` is more than the code guarantees
(`stream->end` is 0 for an unknown length, `HTTPResourceProvider.cpp:80`). Without it an
answer can find its request deleted and a node can wait for nothing, so `NothingDangles`
and `InProgressIsPending` are no results about the code: the modules have them as lemmas
about resources of known length. The argument: what is still to come, from a job, a
stream or the queue, ends with exactly one last answer, which is the last in the queue
and comes only when no job goes on, and a job has sent less than all. From it follow
that no answer finds its request deleted, that a node is retained exactly by its
requests (so no count is ever negative and no release comes twice), that a node waits
exactly for its latest request, and that nothing changes a destroyed node.

`ResourceLoadingContents` goes on from there, under the same assumptions, to what a node
shows: `ResourceWhole` and `CleanShowsUrl`. Its invariant `DInv` adds to `IInv`, for each
node that waits, that its stream holds the first `m` chunks of the URL of its request,
that every chunk it lacks is in the queue, once, before any answer that counts on it
(`InOrder`), or is still to be read (`Sending`); and for each other node that it holds
all or nothing (`Shows`). So the answer that says that all is done comes when all has
come, and only then is the stream published. There is one lemma for each action.

`DependencyGraphProofs` proves all of the runs `graph_edits` and `graph_throws`, for any
finite sets of nodes and names, any bindings, sizes and operators. It has four parts.

* *Traversals.* `Reach` is the smallest set that no edge leaves, so what is upstream is
  shown by giving a set with that property (`UpstreamFacts`, `DownstreamFacts`); a mark
  that stops early goes up all the same (`RecompiledFacts` and its like), since what it
  stops at was marked, and its dependents with it.
* *Ranks.* That the worklist ends, in whatever order it is worked off, and with exact
  ranks. Exact ranks make the graph acyclic, so there are heights that fall along the
  dependents (`FallingHeights`), and the calls that one call leads to are of lower nodes:
  `VisitsEnd` is proved by induction on the height, as a statement about the set of
  numbers for which it holds (`SetInduction`, a consequence of the numbers' own
  induction, without an operator as parameter). What every visit keeps is `Raising` or
  `Lowering`: a rank is never above (never below) what its dependencies call for, and
  where it is not right there is a visit to come. `DestroyedFacts` repeats the removal
  of an edge over the list that `destroy` goes through.
* *Graph.* `GraphInv` is `TypeOK`, `RankExact` and `RunStatesSound` with `MarkedUpward`
  (the dependents of a marked object are marked) and `ErrorsSound`. An edit of a
  node leaves what is not marked as it was, since nothing there depends on that node
  (`EditKeepsGraph`, `DestroyKeepsGraph`). `EnsuredFacts` shows that `ensureRunState`
  gives sound run states from any mixture of old ones, also when it stops early.
* *Evaluations.* `EvaluationInv`: an evaluation runs the stream of the present graph, one
  group at a time, nothing is marked meanwhile, and a stale call belongs to a node that
  is marked. `DataInv`: what is dirty goes up (`DirtyUpward`), what is clean is current or
  has something upstream in which the pool caught an exception (`CurrentOrSpoiled`), or,
  until the evaluation ends, which ran with stale calls (`CleanWhileEvaluating`), and what
  is dirty upstream of the node is running or still to come.

`NoCallIsStale` assumes `MayResize = {}`, and the four theorems about data assume
`ThrowsAlone`: no operator throws to the caller of `evaluateLocal`, or nodes have one
dependency at most, in which case every group has one task (`ChainRanks`) and such an
exception ends the evaluation. `ThrowsAlone` says nothing of exceptions in iterations and
of resizes during an evaluation; for those the theorems make the exception that
`CleanIsCurrent` and `EvaluationMakesCurrent` name, by `faults`. Without
`MayResize = {}`, dependents run with stale calls (below the findings); without
`ThrowsAlone`, `graph_stale` is a counterexample. The instances of the two runs satisfy
what is assumed for the properties they check.

`OperatorsProofs` proves all of the run `operators`, for any finite sets of operators and
functions and any sources, names and codes, from `OperatorConstants`. `IInv` is `TypeOK`
and `RefsExact` with:

* `CommandSound`, `TakeSound`, `UnderWaySound`: what a command in the middle of its steps
  holds, whatever the jobs did meanwhile;
* `JobsSound`, `CacheSound`: code on its way out has no holder, and a valid weak handle is
  to code that is not freed, of its source;
* `OneOwner`: a function belongs to one operator, so that dropping it there is enough;
* `SourceSound`, `FunctionSound`, `CallableSound`: an operator's code is of its source and
  its function of its code and entry point, and an operator that could have a function
  has one or is about to.

Counts are cardinalities, so `DropCounts` shows once what the end of any functions and any
`m_code` takes from them; four of the actions cite it. Without `FreedAtZero` and the
jobs' reference in `CountsExact` nothing keeps `text` and `of` from changing under a
command. `CallsCurrent` follows from `IInv`. `SynchronousTakesLive` adds that without
jobs no code is ever on its way out between a lookup and its handle.

`EventsProofs` proves all of the run `events`, for any finite sets of events, handlers
and names, any nodes and any length of the lists, from `EventConstants`. `EventsInv` is
`TypeOK` and the references back with:

* `Acyclic`: no handler is below itself, which the guard of `AppendChildEventHandler`
  keeps so. Then among any handlers there is one without children among them
  (`LowestHandler`, from the well-foundedness of finite subsets); this takes the place
  of induction over handlers.
* `ReachUp`: whatever refers to a marked handler is marked. So an event that no edit
  marked has nothing marked under it, and nothing there has changed (`UnmarkedSame`).
  `EditOf` says what all edits have in common, each has a lemma that it is one, and
  `EditKeepsInv` does the rest once; destroyed objects are the argument `gone`.
* `ErrorsCurrent`, `HandlerAnswered`, `EventAnswered`: an answer agrees with those of
  the children, and with the object's own errors and nodes. It says nothing of what is
  further below: that follows (`CanFollows` down from an event that can execute,
  `CannotFollows` at the lowest handler that cannot). `EnsuredFacts` shows that asking
  the children in turn, and stopping at the first that cannot, leaves answers that agree.
* `EventKept`: what an event keeps to run is what it would collect now.

What is collected is a function of handlers and scopes that refers to itself; that there
is one, and one only, is shown on `Acyclic` children, the lowest first
(`CollectsExists`, `LowestFirst`). `VisitedIsCollected` relates it to the definition
after the programming guide: the scope passed down along a path is what the path's
handlers give and are called, the nearest first (`WithinFurther`, `FoundFurther`).

Only model-checked: liveness under fairness (`JoinReturns`, `AsyncFinishes`,
`TerminateReturns`, `FinishUnlessBuried`, `RequestsFinish`), which the prover cannot do,
and `ContextHeld`. All other properties of the passing runs are theorems, those of
`ResourceLoading` under `HonestHttp`.

## Not modelled

The components with status `not_modelled` in `PROJECT.json`, each with its
reason. Of the modelled parts: the Windows emulation of the condition variable,
edits and exceptions while an asynchronous evaluation is queued, events fired meanwhile,
resizes of several nodes interleaved within one traversal, cycles among event
handlers (`appendChildEventHandler` does not test for them), and the JSON
form of commands and notifications.

## Plan

1. *Done*: `ThreadPool` with `ParallelCalls`, `DependencyGraph`, `AsyncEvaluation`,
   `ResourceLoading`, `Batches`, `Events`, `Operators`; the invariants of `ThreadPool`,
   `ResourceLoading`, `Operators`, `DependencyGraph` and `Events`, the refinement of
   `ParallelCalls`, `SlicesRunOnce` and the order within evaluations proved.
2. `AsyncEvaluation` with edits, exceptions and main-thread-only tasks: a run
   state deleted while its evaluation is queued, `PrepareForExecution` outside of
   the mutex, the main thread and a worker waiting for each other.
3. `Notifications` (brackets and their delivery); the manager's files and its
   destruction.
4. `Operators` with jobs that fail and with runs that hold an engine; the weak container
   made twice; `WindowsCond` refining the wait set; the caches of `MR`.
5. Proofs of what these extensions add, and of `ContextHeld`; a progress argument for nested waiting as a
   safety property of `AsyncEvaluation` (`NoJoinDeadlock` has it for the pool).
