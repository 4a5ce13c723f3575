--------------------------- MODULE DependencyGraph ---------------------------
(***************************************************************************)
(* The dependency graph of one DG::Context (src/Native/Core/DG): Node and   *)
(* what it inherits from Container and CompiledObject.  Commands edit the   *)
(* graph and the data; every edit defers its consequences by marking        *)
(* objects, and PrepareForExecution settles them before an evaluation.      *)
(* The context's mutex is held during a command, and an evaluation is one,  *)
(* so commands are atomic but for the tasks of an evaluation, which the     *)
(* thread pool runs in parallel, rank after rank.                           *)
(*                                                                          *)
(* Traversals of the graph are stated by what they reach, the early stops   *)
(* of the code included.  Generations are abstracted: an object's           *)
(* generation is the next global one exactly while it is in the marked set. *)
(***************************************************************************)
EXTENDS Integers, FiniteSets, Sequences, SequencesExt, FiniteSetsExt

CONSTANTS
  Nodes,      \* the nodes of the context
  Names,      \* the names of dependencies
  NoNode,     \* no dependency of that name; no evaluation
  Uses,       \* subset of Nodes \X Names: what bindings may refer to
  Sized,      \* the nodes the client resizes
  MayThrow,   \* the nodes with an operator that may throw, run by the caller
  MayThrowInPool, \* ... and those where the pool runs the operator and catches
              \* the exception: it has several iterations, or is for the main
              \* thread only and asked for by another
  MayResize   \* the nodes with an operator that may resize its own node

ASSUME GraphConstants ==
  /\ IsFiniteSet(Nodes)
  /\ IsFiniteSet(Names)
  /\ NoNode \notin Nodes
  /\ Uses \subseteq Nodes \X Names
  /\ Sized \subseteq Nodes
  /\ MayThrow \subseteq Nodes
  /\ MayThrowInPool \subseteq Nodes
  /\ MayResize \subseteq Nodes

VARIABLES
  dep,        \* [Nodes -> [Names -> Nodes \union {NoNode}]], m_dependencies
  rank,       \* [Nodes -> Nat], m_globalDependencyRank
  bindings,   \* [Nodes -> SUBSET Names], the names the binding list refers to
  errors,     \* the nodes with m_errors
  marked,     \* compiledObjectsMarkedForRecompile
  refresh,    \* compiledObjectsMarkedForRefresh
  dirty,      \* the nodes with m_dirty
  run,        \* [Nodes -> RunState], m_runState
  calls,      \* [Nodes -> CallState], m_evaluateParallelCallsPerOperator
  evaluating, \* the node evaluate was called on
  rest,       \* the tasks of its stream not begun yet
  executing,  \* the nodes whose operators are being run
  current,    \* history: the nodes whose data their operators have computed
              \* from the present data of their dependencies
  faults      \* history: [Nodes -> SUBSET Faults], what went wrong when the
              \* operators of a node last ran to their end, on its present input

graphVars == <<dep, rank, bindings, errors>>
evaluation == <<evaluating, rest, executing>>
vars == <<graphVars, marked, refresh, dirty, run, calls, evaluation, current, faults>>

\* "null", or whether the node can evaluate and, then, its taskGroupStream: the
\* evaluateLocal tasks with the ranks they were added at.
NoRunState == [state |-> "null", stream |-> {}]
RunState == [state : {"null", "can", "cannot"}, stream : SUBSET (Nat \X Nodes)]

\* none: to be bound by the next evaluateLocal.  stale: bound to the storage and
\* the size a node had before it was resized.
CallState == {"none", "bound", "stale"}

\* An exception in an iteration, or a run with stale calls: evaluateLocal takes
\* neither for a failure.
Faults == {"exception", "stale"}
-----------------------------------------------------------------------------
(***************************************************************************)
(* Traversals.                                                              *)
(***************************************************************************)
Dependencies(D, n) == {D[n][s] : s \in Names} \ {NoNode}
Dependents(D, n) == {m \in Nodes : n \in Dependencies(D, m)}

\* What can be reached from the nodes of S (included) by the edges next: the
\* smallest set that has S and that no edge leaves.
Closed(T, next) == \A m \in T : next[m] \subseteq T
Reach(S, next) ==
  {n \in Nodes : \A T \in SUBSET Nodes : S \subseteq T /\ Closed(T, next) => n \in T}

Upstream(D, S) == Reach(S, [n \in Nodes |-> Dependencies(D, n)])
Downstream(D, S) == Reach(S, [n \in Nodes |-> Dependents(D, n)])

\* canBeDependency: colour m and what it depends on; n must not be coloured.
CanBeDependency(D, n, m) == n \notin Upstream(D, {m})

\* Mutants: the dependents are not visited, by markForRecompile, by
\* markForRefresh, by setOutOfDate.
RecompiledUpstream(M, D, S) ==
  M \union Reach(S \ M, [n \in Nodes |-> Dependencies(D, n) \ M])
RefreshedAlone(M, D, n) == M \union {n}
OutOfDateAlone(X, D, S) == X \union S

\* markForRecompile on the nodes of S: dependencies and dependents are marked
\* with a node, none is visited from one that is marked already.
Recompiled(M, D, S) ==
  M \union Reach(S \ M,
    [n \in Nodes |-> (Dependencies(D, n) \union Dependents(D, n)) \ M])

\* markForRefresh on n goes to its dependents only.
Refreshed(M, D, n) ==
  M \union Reach({n} \ M, [m \in Nodes |-> Dependents(D, m) \ M])

\* setOutOfDate on the nodes of S: it stops at a node that is dirty already.
OutOfDate(X, D, S) ==
  X \union Reach(S \ X, [n \in Nodes |-> Dependents(D, n) \ X])
-----------------------------------------------------------------------------
(***************************************************************************)
(* Ranks, kept up to date edge by edge: recalculateGlobalDependencyRank     *)
(* takes the maximum over the dependencies again; maybeIncrease... only     *)
(* raises a rank above that of one dependency.  A visit is such a call, and *)
(* is followed by those it makes on the dependents.                         *)
(***************************************************************************)
OwnRank(D, r, n) == Max({0} \union {r[m] + 1 : m \in Dependencies(D, n)})

\* A mutant of Raised: a rank equal to that of the dependency is left alone.
RaisedLate(old, above) == IF above > old THEN above + 1 ELSE old

Raised(old, above) == IF above >= old THEN above + 1 ELSE old

Recalculate(n) == [node |-> n, recalculate |-> TRUE, above |-> 0]
MaybeIncrease(n, k) == [node |-> n, recalculate |-> FALSE, above |-> k]
Visits == [node : Nodes, recalculate : BOOLEAN, above : Nat]

\* The ranks, and the visits still to be made.
Pending == [rank : [Nodes -> Nat], work : Seq(Visits)]

\* The first of the visits is made: if it changes the rank, the dependents are
\* visited next, before the others.
Visited(D, s) ==
  LET v == Head(s.work)
      old == s.rank[v.node]
      new == IF v.recalculate THEN OwnRank(D, s.rank, v.node)
             ELSE Raised(old, v.above)
      onward(d) == IF new < old THEN Recalculate(d) ELSE MaybeIncrease(d, new)
      dependents == SetToSeq(Dependents(D, v.node))
      more == IF new = old THEN <<>>
              ELSE [i \in DOMAIN dependents |-> onward(dependents[i])]
  IN  [rank |-> [s.rank EXCEPT ![v.node] = new], work |-> more \o Tail(s.work)]

\* The ranks after a visit and all that follow from it.
Settled(D, ranks, visit) ==
  LET after[s \in Pending] == IF s.work = <<>> THEN s.rank ELSE after[Visited(D, s)]
  IN  after[[rank |-> ranks, work |-> <<visit>>]]

\* removeDependency's part in the edges and the ranks.
WithoutEdge(graph, edge) ==
  LET D == [graph.dep EXCEPT ![edge[1]][edge[2]] = NoNode]
  IN  [dep |-> D, rank |-> Settled(D, graph.rank, Recalculate(edge[1]))]

\* The edges are removed one after the other.
WithoutEdges(graph, edges) ==
  LET after[i \in 0 .. Len(edges)] ==
        IF i = 0 THEN graph ELSE WithoutEdge(after[i - 1], edges[i])
  IN  after[Len(edges)]
-----------------------------------------------------------------------------
(***************************************************************************)
(* Commands.  Each holds the context's mutex, so none runs while a node is  *)
(* evaluated.  The history forgets the nodes whose input a command changes. *)
(***************************************************************************)
Idle == evaluating = NoNode

Forgotten(S) ==
  /\ current' = current \ S
  /\ faults' = [m \in Nodes |-> {wrong \in faults[m] : m \notin S}]

\* markForRecompile() ends every edit of a node or of its binding list.
Edited(n) ==
  /\ marked' = Recompiled(marked, dep', {n})
  /\ Forgotten(Downstream(dep', {n}))
  /\ UNCHANGED <<errors, refresh, dirty, run, calls, evaluation>>

SetDependency(n, name, m) ==
  /\ Idle
  /\ CanBeDependency(dep, n, m)
  /\ dep' = [dep EXCEPT ![n][name] = m]
  /\ rank' = CASE dep[n][name] = m -> rank
               [] dep[n][name] = NoNode ->
                    Settled(dep', rank, MaybeIncrease(n, rank[m]))
               [] OTHER -> Settled(dep', rank, Recalculate(n))
  /\ Edited(n)
  /\ UNCHANGED bindings

RemoveDependency(n, name) ==
  /\ Idle
  /\ dep[n][name] # NoNode
  /\ LET graph == WithoutEdge([dep |-> dep, rank |-> rank], <<n, name>>)
     IN  dep' = graph.dep /\ rank' = graph.rank
  /\ Edited(n)
  /\ UNCHANGED bindings

\* BindingList::append and insert; remove and clear.  A binding refers to at
\* most one name here, and the list is known by the names its bindings use.
AppendBinding(n, name) ==
  /\ Idle
  /\ <<n, name>> \in Uses
  /\ bindings' = [bindings EXCEPT ![n] = @ \union {name}]
  /\ UNCHANGED <<dep, rank>>
  /\ Edited(n)

RemoveBinding(n, name) ==
  /\ Idle
  /\ name \in bindings[n]
  /\ bindings' = [bindings EXCEPT ![n] = @ \ {name}]
  /\ UNCHANGED <<dep, rank>>
  /\ Edited(n)

\* The binding list is cleared, the edges of n are removed, and those to n.  The
\* node is as good as one not created yet: nothing refers to it any more.
Destroy(n) ==
  /\ Idle
  /\ LET edges(m, S) == {<<m, name>> : name \in {s \in Names : dep[m][s] \in S}}
         own == SetToSeq(edges(n, Nodes))
         others == SetToSeq(UNION {edges(m, {n}) : m \in Nodes})
         graph == WithoutEdges([dep |-> dep, rank |-> rank], own \o others)
     IN  dep' = graph.dep /\ rank' = graph.rank
  /\ marked' = Recompiled(Recompiled(marked, dep, {n}), dep', Dependents(dep, n)) \ {n}
  /\ Forgotten(Downstream(dep, {n}))
  /\ bindings' = [bindings EXCEPT ![n] = {}]
  /\ errors' = errors \ {n}
  /\ refresh' = refresh \ {n}
  /\ dirty' = dirty \union {n}
  /\ run' = [run EXCEPT ![n] = NoRunState]
  /\ calls' = [calls EXCEPT ![n] = "none"]
  /\ UNCHANGED evaluation

SetData(n) ==
  /\ Idle
  /\ dirty' = OutOfDate(dirty, dep, {n})
  /\ Forgotten(Downstream(dep, {n}))
  /\ UNCHANGED <<graphVars, marked, refresh, run, calls, evaluation>>

\* Container::resize moves the storage of n: the calls bound to it are stale.
Resized(n, callsOfN) ==
  /\ refresh' = Refreshed(refresh, dep, n)
  /\ calls' = [m \in Nodes |->
       IF m = n THEN callsOfN
       ELSE IF calls[m] = "bound" /\ n \in Dependencies(dep, m) THEN "stale"
       ELSE calls[m]]

Resize(n) ==
  /\ Idle
  /\ n \in Sized
  /\ Resized(n, IF calls[n] = "none" THEN "none" ELSE "stale")
  /\ Forgotten(Downstream(dep, {n}))
  /\ UNCHANGED <<graphVars, marked, dirty, run, evaluation>>
-----------------------------------------------------------------------------
(***************************************************************************)
(* PrepareForExecution: Compile what is marked, then refresh.               *)
(***************************************************************************)
Missing(n) == {name \in bindings[n] : dep[n][name] = NoNode}

\* collectErrors, on the marked nodes.
CompiledErrors == {n \in marked : Missing(n) # {}} \union (errors \ marked)

\* A mutant of PreparedCalls: refreshRunState keeps the calls.
PreparedCallsKept == [n \in Nodes |-> IF n \in marked THEN "none" ELSE calls[n]]

\* invalidateRunState deletes the run state with its calls; refreshRunState
\* resets the calls.
PreparedRun == [n \in Nodes |-> IF n \in marked THEN NoRunState ELSE run[n]]
PreparedCalls ==
  [n \in Nodes |-> IF n \in marked \union refresh THEN "none" ELSE calls[n]]
PreparedDirty == OutOfDate(dirty, dep, marked \union refresh)

Prepared ==
  /\ errors' = CompiledErrors
  /\ dirty' = PreparedDirty
  /\ calls' = PreparedCalls
  /\ marked' = {}
  /\ refresh' = {}

\* At the end of a batch of commands.
PrepareForExecution ==
  /\ Idle
  /\ Prepared
  /\ run' = PreparedRun
  /\ UNCHANGED <<dep, rank, bindings, evaluation, current, faults>>

\* ensureRunState on n, in the run states R: the nodes it asks canExecute of
\* unless it stops early, and whether one of them cannot.
Asked(R, n) ==
  Reach({n}, [m \in Nodes |->
    IF R[m].state = "null" /\ m \notin CompiledErrors THEN Dependencies(dep, m) ELSE {}])

CanExecute(R, n) ==
  \A m \in Asked(R, n) :
    IF R[m].state = "null" THEN m \notin CompiledErrors ELSE R[m].state = "can"

\* A mutant of Stream: the groups are numbered from one.
StreamFromOne(n) == {<<rank[m] - 1, m>> : m \in Upstream(dep, {n})}

\* collectTasks: a task for each node upstream, at its rank.
Stream(n) == {<<rank[m], m>> : m \in Upstream(dep, {n})}

Ensured(R, S) ==
  [m \in Nodes |->
    IF m \notin S \/ R[m].state # "null" THEN R[m]
    ELSE IF CanExecute(R, m) THEN [state |-> "can", stream |-> Stream(m)]
    ELSE [state |-> "cannot", stream |-> {}]]

\* Node::evaluate up to taskGroupStream.execute.
Evaluate(n) ==
  /\ Idle
  /\ Prepared
  /\ CanExecute(PreparedRun, n)
  /\ run' = Ensured(PreparedRun, Asked(PreparedRun, n))
  /\ evaluating' = n
  /\ rest' = run'[n].stream
  /\ UNCHANGED <<dep, rank, bindings, executing, current, faults>>

\* "cannot execute because of errors".  The loops over dependencies break at the
\* first one that cannot execute: which of the others were asked depends on the
\* order of the map.
EvaluateRefused(n) ==
  /\ Idle
  /\ Prepared
  /\ LET R == PreparedRun
         new(m) == R[m].state = "null" /\ m \notin CompiledErrors
     IN  /\ ~CanExecute(R, n)
         /\ \E S \in SUBSET Asked(R, n) :
              /\ n \in S
              /\ S = Reach({n}, [m \in Nodes |->
                       IF new(m) THEN Dependencies(dep, m) \intersect S ELSE {}])
              /\ \A m \in S : new(m) =>
                   IF CanExecute(R, m)
                   THEN Dependencies(dep, m) \subseteq S
                   ELSE \E d \in Dependencies(dep, m) \intersect S : ~CanExecute(R, d)
              /\ run' = Ensured(R, S)
  /\ UNCHANGED <<dep, rank, bindings, evaluation, current, faults>>
-----------------------------------------------------------------------------
(***************************************************************************)
(* Evaluation.  TaskGroupStream::execute runs one TaskGroup after another,  *)
(* the tasks of one in parallel.                                            *)
(***************************************************************************)
Group(k) == {n \in Nodes : <<k, n>> \in run[evaluating].stream}

\* A mutant of Begins: a group is begun before the one before it has ended.
BeginsEarly(k, n) ==
  /\ evaluating # NoNode
  /\ <<k, n>> \in rest
  /\ \A task \in rest : k <= task[1]
  /\ rest' = rest \ {<<k, n>>}

\* The task of n is begun: its group is the first with tasks left, and nothing
\* of another group is being run.
Begins(k, n) ==
  /\ evaluating # NoNode
  /\ <<k, n>> \in rest
  /\ \A task \in rest : k <= task[1]
  /\ executing \subseteq Group(k)
  /\ rest' = rest \ {<<k, n>>}

\* evaluateLocal does nothing on a clean node ...
SkipClean(k, n) ==
  /\ Begins(k, n)
  /\ n \notin dirty
  /\ UNCHANGED <<graphVars, marked, refresh, dirty, run, calls, evaluating, executing,
                 current, faults>>

\* ... and otherwise binds the operators that are not bound, and runs them.
BeginOperators(k, n) ==
  /\ Begins(k, n)
  /\ n \in dirty
  /\ executing' = executing \union {n}
  /\ calls' = [calls EXCEPT ![n] = IF @ = "none" THEN "bound" ELSE @]
  /\ UNCHANGED <<graphVars, marked, refresh, dirty, run, evaluating, current, faults>>

\* The operators of n have been run.  What the pool caught of their exceptions is
\* in the log only: executeParallel returns, and the node is clean.
RunToEnd(n, caught) ==
  LET wrong == caught \union (IF calls[n] = "stale" THEN {"stale"} ELSE {})
      below == Downstream(dep, {n})
  IN  /\ n \in executing
      /\ caught # {} => n \in MayThrowInPool
      /\ executing' = executing \ {n}
      /\ dirty' = dirty \ {n}
      /\ current' = (current \ below) \union
           (IF wrong = {} /\ Dependencies(dep, n) \subseteq current THEN {n} ELSE {})
      /\ faults' = [m \in Nodes |->
           IF m = n THEN wrong ELSE {w \in faults[m] : m \notin below}]

EndOperators(n) ==
  /\ \E caught \in SUBSET {"exception"} : RunToEnd(n, caught)
  /\ UNCHANGED <<graphVars, marked, refresh, run, calls, evaluating, rest>>

\* An operator with an 'io' Container has resized its node: the calls of the node
\* itself are bound again the next time.
EndOperatorsResized(n) ==
  /\ n \in MayResize
  /\ \E caught \in SUBSET {"exception"} : RunToEnd(n, caught)
  /\ Resized(n, "none")
  /\ UNCHANGED <<graphVars, marked, run, evaluating, rest>>

\* An operator run by the caller throws: evaluateLocal ends there.  A group of one
\* task is run by the calling thread, too, and the exception ends the evaluation;
\* the pool catches it from any other.
ThrowOperators(n) ==
  /\ n \in executing
  /\ n \in MayThrow
  /\ executing' = executing \ {n}
  /\ Forgotten(Downstream(dep, {n}))
  /\ IF \E k \in {task[1] : task \in run[evaluating].stream} : Group(k) = {n}
     THEN evaluating' = NoNode /\ rest' = {}
     ELSE UNCHANGED <<evaluating, rest>>
  /\ UNCHANGED <<graphVars, marked, refresh, dirty, run, calls>>

EndEvaluate ==
  /\ evaluating # NoNode
  /\ rest = {}
  /\ executing = {}
  /\ evaluating' = NoNode
  /\ UNCHANGED <<graphVars, marked, refresh, dirty, run, calls, rest, executing,
                 current, faults>>
-----------------------------------------------------------------------------
Init ==
  /\ dep = [n \in Nodes |-> [name \in Names |-> NoNode]]
  /\ rank = [n \in Nodes |-> 0]
  /\ bindings = [n \in Nodes |-> {}]
  /\ errors = {}
  /\ marked = {}
  /\ refresh = {}
  /\ dirty = Nodes
  /\ run = [n \in Nodes |-> NoRunState]
  /\ calls = [n \in Nodes |-> "none"]
  /\ evaluating = NoNode
  /\ rest = {}
  /\ executing = {}
  /\ current = {}
  /\ faults = [n \in Nodes |-> {}]

Edit(n) ==
  \/ \E name \in Names, m \in Nodes : SetDependency(n, name, m)
  \/ \E name \in Names : RemoveDependency(n, name)
  \/ \E name \in Names : AppendBinding(n, name)
  \/ \E name \in Names : RemoveBinding(n, name)
  \/ Destroy(n)
  \/ SetData(n)
  \/ Resize(n)

Task(n) ==
  \/ \E k \in {task[1] : task \in rest} : SkipClean(k, n) \/ BeginOperators(k, n)
  \/ EndOperators(n)
  \/ EndOperatorsResized(n)
  \/ ThrowOperators(n)

Next ==
  \/ \E n \in Nodes : Edit(n) \/ Evaluate(n) \/ EvaluateRefused(n) \/ Task(n)
  \/ PrepareForExecution
  \/ EndEvaluate

Spec == Init /\ [][Next]_vars
-----------------------------------------------------------------------------
(***************************************************************************)
(* Properties.                                                              *)
(***************************************************************************)
\* Every variable has its type: a command or a task leaves a graph, run states and
\* calls that the next one can read.
TypeOK ==
  /\ dep \in [Nodes -> [Names -> Nodes \union {NoNode}]]
  /\ rank \in [Nodes -> Nat]
  /\ bindings \in [Nodes -> SUBSET Names]
  /\ errors \subseteq Nodes
  /\ marked \subseteq Nodes
  /\ refresh \subseteq Nodes
  /\ dirty \subseteq Nodes
  /\ run \in [Nodes -> RunState]
  /\ calls \in [Nodes -> CallState]
  /\ evaluating \in Nodes \union {NoNode}
  /\ rest \subseteq Nat \X Nodes
  /\ executing \subseteq Nodes
  /\ current \subseteq Nodes
  /\ faults \in [Nodes -> SUBSET Faults]

\* The ranks that are kept edge by edge are those the graph as a whole defines,
\* whatever the order of the edits: above every dependency, and no higher.
RankExact == \A n \in Nodes : rank[n] = OwnRank(dep, rank, n)

\* What a node that needs no recompiling knows about running itself is what the
\* present graph says: it can evaluate if and only if no binding upstream lacks
\* a dependency it names, its stream holds each node upstream once, at its
\* present rank, and the run states the tasks use exist.
RunStatesSound ==
  \A n \in Nodes \ marked :
    /\ run[n].state = "can" =>
         /\ \A m \in Upstream(dep, {n}) : Missing(m) = {} /\ run[m].state = "can"
         /\ run[n].stream = Stream(n)
    /\ run[n].state = "cannot" =>
         \E m \in Upstream(dep, {n}) : Missing(m) # {}

\* A node that is clean, and that no mark will make dirty, has data its
\* operators computed from the present data of its dependencies, so that it is
\* right that evaluating it does nothing; unless the pool caught an exception in
\* the last run of the node or of one it depends on, which evaluateLocal is not
\* told of.
CleanIsCurrent ==
  \A n \in Nodes \ (dirty \union marked \union refresh) :
    n \in current \/ \E m \in Upstream(dep, {n}) : "exception" \in faults[m]

\* While the operators of a node run, those of its dependencies have finished
\* and are not run again.
EvaluationOrder ==
  \A n \in executing : Dependencies(dep, n) \intersect (dirty \union executing) = {}

\* No operator runs with the size or the addresses its own node or a dependency
\* had before it was resized.
NoStaleCall == \A n \in executing : calls[n] # "stale"

\* A node is dirty when a dependency is, unless an edit of it is still to be
\* compiled: setOutOfDate may stop at a dirty node, since the change has been
\* passed on to all that depend on it.
DirtyReachesDependents ==
  \A n \in dirty : Downstream(dep, {n}) \subseteq dirty \union marked

\* An evaluation that runs to its end leaves the node, and every node it depends
\* on, clean, and computed from present data unless in the last run of it or of a
\* node upstream the pool caught an exception or calls were stale: nothing else
\* comes between an evaluation and its result.
EvaluationMakesCurrent ==
  [][rest = {} /\ EndEvaluate =>
       \A n \in Upstream(dep, {evaluating}) :
         /\ n \notin dirty
         /\ n \in current \/ \E m \in Upstream(dep, {n}) : faults[m] # {}]_vars
=============================================================================
