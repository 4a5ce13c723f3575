-------------------------------- MODULE Events --------------------------------
(***************************************************************************)
(* Events and event handlers (DG/Event, DG/EventHandler).  An event has a   *)
(* list of handlers, a handler a list of children, each with operators that *)
(* run before and after its children's.  The names that the operators'      *)
(* bindings refer to are looked up along the way from the event: a handler  *)
(* gives names to nodes, and to itself.  What an event runs is collected    *)
(* once, and kept until a mark for recompilation reaches it.                *)
(*                                                                          *)
(* Every command holds the context's mutex and is one step.  A node stands  *)
(* here for itself and all it depends on.  The run state of a marked object *)
(* is not read before PrepareForExecution deletes it: it is dropped with    *)
(* the mark.  A destroyed object is as good as one not created yet.         *)
(***************************************************************************)
EXTENDS Integers, FiniteSets, Sequences, SequencesExt, FiniteSetsExt

CONSTANTS
  AllEvents, Handlers, Nodes, Names,
  NoNode, NoName,
  MaxChildren, \* bound: the length of a list of children
  Uses,        \* subset of Handlers \X Phases \X Names: bindings there may be
  Selectors,   \* subset of Handlers \X Names: selectors there may be
  ScopeNames,  \* subset of Handlers \X Names: what a handler may call itself
  Sized        \* the nodes that are resized

Phases == {"pre", "post"}
Objects == AllEvents \union Handlers
Containers == Handlers \union Nodes

ASSUME EventConstants ==
  /\ IsFiniteSet(Objects)
  /\ IsFiniteSet(Names)
  /\ AllEvents \intersect Handlers = {}
  /\ Handlers \intersect Nodes = {}
  /\ NoNode \notin Containers
  /\ NoName \notin Names
  /\ Uses \subseteq Handlers \X Phases \X Names
  /\ Selectors \subseteq Handlers \X Names
  /\ ScopeNames \subseteq Handlers \X Names
  /\ Sized \subseteq Nodes

VARIABLES
  handlers,   \* [AllEvents -> Seq(Handlers)], m_eventHandlers of an event
  events,     \* [Handlers -> SUBSET AllEvents], m_events
  children,   \* [Handlers -> Seq(Handlers)], m_childEventHandlers
  parents,    \* [Handlers -> [Handlers -> Nat]], the multiset m_parentEventHandlers
  scopes,     \* [Handlers -> [Names -> Nodes \union {NoNode}]], m_bindings
  users,      \* [Nodes -> [Handlers -> Nat]], the multiset m_eventHandlers of a node
  scopeName,  \* [Handlers -> Names \union {NoName}], m_bindingName
  bindings,   \* [Handlers -> [Phases -> SUBSET Names]], the names the lists refer to
  selector,   \* [Handlers -> Names \union {NoName}], m_selectNodeBindingName, whose
              \* binding refers to that name
  selects,    \* the events with m_selectorType
  broken,     \* the nodes that cannot execute
  dirty,      \* the nodes that are out of date
  errors,     \* the objects with m_errors
  marked,     \* compiledObjectsMarkedForRecompile
  can,        \* [Objects -> {"null", "can", "cannot"}], m_runState and canExecute
  stream,     \* [AllEvents -> SUBSET Nodes], taskGroupStream
  tasks,      \* [AllEvents -> Seq(Task)], taskGroup
  stale       \* the events with a call bound to a container before it was resized

links == <<handlers, events, children, parents>>
given == <<scopes, users, scopeName, bindings, selector, selects>>
runs == <<can, stream, tasks, stale>>
vars == <<links, given, broken, dirty, errors, marked, runs>>

\* The bindings of a list, run in order, or a selector; uses says what the names
\* they refer to were found to be.
Task == [handler : Handlers, phase : Phases \union {"select"}, uses : SUBSET (Names \X Containers)]
-----------------------------------------------------------------------------
(***************************************************************************)
(* Marks.                                                                   *)
(***************************************************************************)
\* What can be reached from the objects of S (included) by the edges next: the
\* smallest set that has S and that no edge leaves.
Closed(T, next) == \A o \in T : next[o] \subseteq T
Reach(S, next) ==
  {o \in Objects : \A T \in SUBSET Objects : S \subseteq T /\ Closed(T, next) => o \in T}

\* A mutant of Marks: a handler does not mark its parents.
MarksDown(H, E, C, P) ==
  [o \in Objects |->
     IF o \in AllEvents THEN ToSet(H[o]) ELSE ToSet(C[o]) \union E[o]]

\* propagateMarkForRecompileImpl: an event marks its handlers, a handler its
\* children, its parents and its events.
Marks(H, E, C, P) ==
  [o \in Objects |->
     IF o \in AllEvents THEN ToSet(H[o])
     ELSE ToSet(C[o]) \union {h \in Handlers : P[o][h] > 0} \union E[o]]

\* markForRecompile on the objects of S: none is visited from a marked one.
Recompiled(M, next, S) ==
  M \union Reach(S \ M, [o \in Objects |-> next[o] \ M])

\* The end of an edit that marks the objects of S, and of the objects gone.
MarkedFrom(M, S, gone) ==
  LET next == Marks(handlers', events', children', parents')
      fresh(o) == o \in marked' \union gone
  IN  /\ marked' = Recompiled(M, next, S) \ gone
      /\ can' = [o \in Objects |-> IF fresh(o) THEN "null" ELSE can[o]]
      /\ stream' = [e \in AllEvents |-> IF fresh(e) THEN {} ELSE stream[e]]
      /\ tasks' = [e \in AllEvents |-> IF fresh(e) THEN <<>> ELSE tasks[e]]
      /\ stale' = stale \ (marked' \union gone)

Edited(o) == MarkedFrom(marked, {o}, {}) /\ UNCHANGED <<broken, dirty, errors>>
-----------------------------------------------------------------------------
(***************************************************************************)
(* Commands.                                                                *)
(***************************************************************************)
Below(C, h) == Reach({h}, [o \in Objects |-> IF o \in Handlers THEN ToSet(C[o]) ELSE {}])

\* Called for a handler the event has not, as addEvent's FABRIC_VERIFY demands.
AppendEventHandler(e, h) ==
  /\ ~Contains(handlers[e], h)
  /\ handlers' = [handlers EXCEPT ![e] = Append(@, h)]
  /\ events' = [events EXCEPT ![h] = @ \union {e}]
  /\ UNCHANGED <<children, parents, given>>
  /\ Edited(e)

SetSelectType(e) ==
  /\ selects' = selects \union {e}
  /\ UNCHANGED <<links, scopes, users, scopeName, bindings, selector>>
  /\ Edited(e)

\* Nothing in the code keeps a handler from becoming its own descendant; the
\* client does.
AppendChildEventHandler(p, h) ==
  /\ p \notin Below(children, h)
  /\ Len(children[p]) < MaxChildren
  /\ children' = [children EXCEPT ![p] = Append(@, h)]
  /\ parents' = [parents EXCEPT ![h][p] = @ + 1]
  /\ UNCHANGED <<handlers, events, given>>
  /\ Edited(p)

Times(seq, h) == Cardinality({i \in DOMAIN seq : seq[i] = h})
Without(seq, h) ==
  LET kept[i \in 0 .. Len(seq)] ==
        IF i = 0 THEN <<>>
        ELSE IF seq[i] = h THEN kept[i - 1] ELSE Append(kept[i - 1], seq[i])
  IN  kept[Len(seq)]

\* A mutant of ParentRemoved: one reference is removed for all.
ParentRemovedOnce(P, p, h) == [P EXCEPT ![h][p] = @ - 1]

\* removeParent, for each occurrence of h among the children of p.
ParentRemoved(P, p, h) == [P EXCEPT ![h][p] = @ - Times(children[p], h)]

RemoveChildEventHandler(p, h) ==
  /\ Contains(children[p], h)
  /\ children' = [children EXCEPT ![p] = Without(@, h)]
  /\ parents' = ParentRemoved(parents, p, h)
  /\ UNCHANGED <<handlers, events, given>>
  /\ Edited(p)

\* The users of nodes when handler h no longer names m.
Unused(U, m, h) == IF m = NoNode THEN U ELSE [U EXCEPT ![m][h] = @ - 1]

SetScope(h, name, m) ==
  /\ scopes[h][name] # m
  /\ scopes' = [scopes EXCEPT ![h][name] = m]
  /\ users' = [Unused(users, scopes[h][name], h) EXCEPT ![m][h] = @ + 1]
  /\ UNCHANGED <<links, scopeName, bindings, selector, selects>>
  /\ Edited(h)

RemoveScope(h, name) ==
  /\ scopes[h][name] # NoNode
  /\ scopes' = [scopes EXCEPT ![h][name] = NoNode]
  /\ users' = Unused(users, scopes[h][name], h)
  /\ UNCHANGED <<links, scopeName, bindings, selector, selects>>
  /\ Edited(h)

SetScopeName(h, name) ==
  /\ scopeName[h] # name
  /\ scopeName' = [scopeName EXCEPT ![h] = name]
  /\ UNCHANGED <<links, scopes, users, bindings, selector, selects>>
  /\ Edited(h)

SetSelector(h, name) ==
  /\ selector' = [selector EXCEPT ![h] = name]
  /\ UNCHANGED <<links, scopes, users, scopeName, bindings, selects>>
  /\ Edited(h)

\* append and remove on a list, which marks its owner.
AppendBinding(h, phase, name) ==
  /\ bindings' = [bindings EXCEPT ![h][phase] = @ \union {name}]
  /\ UNCHANGED <<links, scopes, users, scopeName, selector, selects>>
  /\ Edited(h)

RemoveBinding(h, phase, name) ==
  /\ name \in bindings[h][phase]
  /\ bindings' = [bindings EXCEPT ![h][phase] = @ \ {name}]
  /\ UNCHANGED <<links, scopes, users, scopeName, selector, selects>>
  /\ Edited(h)

NamedBy(h) == {scopes[h][name] : name \in Names} \ {NoNode}

\* An edit of m, or of what it depends on, after which m can execute or cannot.
EditNode(m) ==
  /\ \E B \in {broken \ {m}, broken \union {m}} : broken' = B
  /\ dirty' = dirty \union {m}
  /\ UNCHANGED <<links, given, errors>>
  /\ MarkedFrom(marked, {h \in Handlers : users[m][h] > 0}, {})

SetNodeData(m) ==
  /\ dirty' = dirty \union {m}
  /\ UNCHANGED <<links, given, broken, errors, marked, runs>>

\* The refresh of m makes it dirty, and goes to no handler.
ResizeNode(m) ==
  /\ m \in Sized
  /\ dirty' = dirty \union {m}
  /\ stale' = stale \union {e \in AllEvents :
       \E i \in DOMAIN tasks[e] : \E use \in tasks[e][i].uses : use[2] = m}
  /\ UNCHANGED <<links, given, broken, errors, marked, can, stream, tasks>>

\* removeScope on every handler that names m.
DestroyNode(m) ==
  /\ scopes' = [h \in Handlers |->
       [name \in Names |-> IF scopes[h][name] = m THEN NoNode ELSE scopes[h][name]]]
  /\ users' = [users EXCEPT ![m] = [h \in Handlers |-> 0]]
  /\ broken' = broken \ {m}
  /\ dirty' = dirty \union {m}
  /\ UNCHANGED <<links, scopeName, bindings, selector, selects, errors>>
  /\ MarkedFrom(marked, {h \in Handlers : users[m][h] > 0}, {})

\* clearEventHandlers.
DestroyEvent(e) ==
  /\ handlers' = [handlers EXCEPT ![e] = <<>>]
  /\ events' = [h \in Handlers |-> events[h] \ {e}]
  /\ selects' = selects \ {e}
  /\ errors' = errors \ {e}
  /\ UNCHANGED <<children, parents, scopes, users, scopeName, bindings, selector, broken, dirty>>
  /\ MarkedFrom(marked, {}, {e})

\* The children are removed one after the other, which marks h while it has its
\* other children, its parents and its events; then it is removed from each of
\* these, which marks them.
DestroyEventHandler(h) ==
  LET first == Head(children[h])
      then == Marks(handlers, events, [children EXCEPT ![h] = Without(@, first)],
                    ParentRemoved(parents, h, first))
      M == IF children[h] = <<>> THEN marked ELSE Recompiled(marked, then, {h})
      above == {p \in Handlers : parents[h][p] > 0} \union events[h]
  IN  /\ handlers' = [e \in AllEvents |-> Without(handlers[e], h)]
      /\ events' = [events EXCEPT ![h] = {}]
      /\ children' = [p \in Handlers |-> IF p = h THEN <<>> ELSE Without(children[p], h)]
      /\ parents' = [c \in Handlers |-> [p \in Handlers |->
           IF c = h \/ p = h THEN 0 ELSE parents[c][p]]]
      /\ scopes' = [scopes EXCEPT ![h] = [name \in Names |-> NoNode]]
      /\ users' = [m \in Nodes |-> [users[m] EXCEPT ![h] = 0]]
      /\ scopeName' = [scopeName EXCEPT ![h] = NoName]
      /\ bindings' = [bindings EXCEPT ![h] = [phase \in Phases |-> {}]]
      /\ selector' = [selector EXCEPT ![h] = NoName]
      /\ errors' = errors \ {h}
      /\ UNCHANGED <<selects, broken, dirty>>
      /\ MarkedFrom(M \ {h}, above, {h})
-----------------------------------------------------------------------------
(***************************************************************************)
(* What an event runs.                                                      *)
(***************************************************************************)
NoScope == [name \in Names |-> NoNode]

\* BindingsScope, and around it the NamedScope of a handler with a name.
Bound(h, parent) ==
  [name \in Names |-> IF scopes[h][name] # NoNode THEN scopes[h][name] ELSE parent[name]]

\* A mutant of ChildScope: the nodes of a handler come before its own name.
ChildScopeLast(h, parent) ==
  [name \in Names |-> IF Bound(h, parent)[name] = NoNode /\ name = scopeName[h] THEN h
                      ELSE Bound(h, parent)[name]]

ChildScope(h, parent) ==
  [name \in Names |-> IF name = scopeName[h] THEN h ELSE Bound(h, parent)[name]]

Tasks(h, phase, names, scope) ==
  IF names = {} THEN <<>>
  ELSE <<[handler |-> h, phase |-> phase, uses |-> {<<name, scope[name]>> : name \in names}]>>

SelectTasks(h, selecting, scope) ==
  Tasks(h, "select", IF selecting THEN {selector[h]} \ {NoName} ELSE {}, scope)

\* collectEventTasksImpl on the handlers hs.
Collected(hs, selecting) ==
  LET collect[h \in Handlers] ==
        [parent \in [Names -> Containers \union {NoNode}] |->
          Tasks(h, "pre", bindings[h]["pre"], Bound(h, parent))
          \o FlattenSeq([i \in DOMAIN children[h] |->
               collect[children[h][i]][ChildScope(h, parent)]])
          \o Tasks(h, "post", bindings[h]["post"], Bound(h, parent))
          \o SelectTasks(h, selecting, Bound(h, parent))]
  IN  FlattenSeq([i \in DOMAIN hs |-> collect[hs[i]][NoScope]])

HandlersUnder(e) == UNION {Below(children, h) : h \in ToSet(handlers[e])}

\* collectTasksImpl: the nodes named anywhere under the event.
NodesUnder(e) == UNION {NamedBy(h) : h \in HandlersUnder(e)}

\* collectErrors: a selector whose own handler does not name its node; a name
\* that is not found on the way from the event.
NotBound(h) == selector[h] # NoName /\ scopes[h][selector[h]] = NoNode

NotFound(e) ==
  LET all == Collected(handlers[e], TRUE)
  IN  \E i \in DOMAIN all : \E use \in all[i].uses : use[2] = NoNode

\* Mutants of CompiledErrors: only handlers are asked; the last errors are kept.
CompiledErrorsOfHandlers ==
  (errors \ marked) \union {h \in Handlers \intersect marked : NotBound(h)}
CompiledErrorsKept ==
  errors
  \union {h \in Handlers \intersect marked : NotBound(h)}
  \union {e \in AllEvents \intersect marked : NotFound(e)}

CompiledErrors ==
  (errors \ marked)
  \union {h \in Handlers \intersect marked : NotBound(h)}
  \union {e \in AllEvents \intersect marked : NotFound(e)}

Prepared == marked' = {} /\ errors' = CompiledErrors

\* ensureRunState of a handler by itself.
CanAlone(h) == h \notin CompiledErrors /\ NamedBy(h) \intersect broken = {}

\* canExecute of a handler: the answer it keeps, or that of ensureRunState.
Answer ==
  LET answer[h \in Handlers] ==
        IF can[h] # "null" THEN can[h]
        ELSE IF CanAlone(h) /\ \A i \in DOMAIN children[h] : answer[children[h][i]] = "can"
        THEN "can" ELSE "cannot"
  IN  answer

\* The handlers hs are asked in turn until one cannot execute.
AllCan(hs) == \A i \in DOMAIN hs : Answer[hs[i]] = "can"
Asks(hs) == {hs[i] : i \in {j \in DOMAIN hs : \A k \in 1 .. j - 1 : Answer[hs[k]] = "can"}}

\* The handlers that come to be asked by e.
Asked(e) ==
  Reach(Asks(handlers[e]), [o \in Objects |->
    IF o \in Handlers /\ can[o] = "null" /\ CanAlone(o) THEN Asks(children[o]) ELSE {}])

EnsuredEvent(e) ==
  IF can[e] # "null" THEN can
  ELSE IF e \in CompiledErrors THEN [can EXCEPT ![e] = "cannot"]
  ELSE [o \in Objects |->
          IF o = e THEN IF AllCan(handlers[e]) THEN "can" ELSE "cannot"
          ELSE IF o \in Asked(e) THEN Answer[o] ELSE can[o]]

PrepareForExecution == Prepared /\ UNCHANGED <<links, given, broken, dirty, runs>>

\* fire, and select on an event with a selector type, whose select tasks run too.
\* The operators of the nodes are taken to return.
Fire(e) ==
  /\ Prepared
  /\ can' = EnsuredEvent(e)
  /\ IF can'[e] = "can"
     THEN /\ stream' = IF can[e] = "can" THEN stream
                       ELSE [stream EXCEPT ![e] = NodesUnder(e)]
          /\ tasks' = IF can[e] = "can" THEN tasks
                      ELSE [tasks EXCEPT ![e] = Collected(handlers[e], e \in selects)]
          /\ dirty' = dirty \ stream'[e]
     ELSE UNCHANGED <<stream, tasks, dirty>>
  /\ UNCHANGED <<links, given, broken, stale>>
-----------------------------------------------------------------------------
Init ==
  /\ handlers = [e \in AllEvents |-> <<>>]
  /\ events = [h \in Handlers |-> {}]
  /\ children = [h \in Handlers |-> <<>>]
  /\ parents = [h \in Handlers |-> [p \in Handlers |-> 0]]
  /\ scopes = [h \in Handlers |-> NoScope]
  /\ users = [m \in Nodes |-> [h \in Handlers |-> 0]]
  /\ scopeName = [h \in Handlers |-> NoName]
  /\ bindings = [h \in Handlers |-> [phase \in Phases |-> {}]]
  /\ selector = [h \in Handlers |-> NoName]
  /\ selects = {}
  /\ broken = {}
  /\ dirty = Nodes
  /\ errors = {}
  /\ marked = {}
  /\ can = [o \in Objects |-> "null"]
  /\ stream = [e \in AllEvents |-> {}]
  /\ tasks = [e \in AllEvents |-> <<>>]
  /\ stale = {}

EventCommand(e) ==
  \/ \E h \in Handlers : AppendEventHandler(e, h)
  \/ SetSelectType(e)
  \/ DestroyEvent(e)
  \/ Fire(e)

HandlerCommand(h) ==
  \/ \E c \in Handlers : AppendChildEventHandler(h, c) \/ RemoveChildEventHandler(h, c)
  \/ \E name \in Names, m \in Nodes : SetScope(h, name, m)
  \/ \E name \in Names : RemoveScope(h, name)
  \/ \E name \in Names : <<h, name>> \in ScopeNames /\ SetScopeName(h, name)
  \/ SetScopeName(h, NoName)
  \/ \E name \in Names : <<h, name>> \in Selectors /\ SetSelector(h, name)
  \/ \E phase \in Phases, name \in Names :
       <<h, phase, name>> \in Uses /\ AppendBinding(h, phase, name)
  \/ \E phase \in Phases, name \in Names : RemoveBinding(h, phase, name)
  \/ DestroyEventHandler(h)

NodeCommand(m) == EditNode(m) \/ SetNodeData(m) \/ ResizeNode(m) \/ DestroyNode(m)

Next ==
  \/ \E e \in AllEvents : EventCommand(e)
  \/ \E h \in Handlers : HandlerCommand(h)
  \/ \E m \in Nodes : NodeCommand(m)
  \/ PrepareForExecution

Spec == Init /\ [][Next]_vars
-----------------------------------------------------------------------------
(***************************************************************************)
(* Properties.                                                              *)
(***************************************************************************)
\* Every variable has its type; no task is collected that refers to nothing.
TypeOK ==
  /\ handlers \in [AllEvents -> Seq(Handlers)]
  /\ events \in [Handlers -> SUBSET AllEvents]
  /\ children \in [Handlers -> Seq(Handlers)]
  /\ parents \in [Handlers -> [Handlers -> Nat]]
  /\ scopes \in [Handlers -> [Names -> Nodes \union {NoNode}]]
  /\ users \in [Nodes -> [Handlers -> Nat]]
  /\ scopeName \in [Handlers -> Names \union {NoName}]
  /\ bindings \in [Handlers -> [Phases -> SUBSET Names]]
  /\ selector \in [Handlers -> Names \union {NoName}]
  /\ selects \subseteq AllEvents
  /\ broken \subseteq Nodes
  /\ dirty \subseteq Nodes
  /\ errors \subseteq Objects
  /\ marked \subseteq Objects
  /\ can \in [Objects -> {"null", "can", "cannot"}]
  /\ stream \in [AllEvents -> SUBSET Nodes]
  /\ tasks \in [AllEvents -> Seq(Task)]
  /\ stale \subseteq AllEvents

\* What an object knows of those that refer to it is exact, with multiplicity,
\* after any sequence of edits and destructions: nothing refers to an object that
\* is gone, and no edit is kept from an object that refers to the edited one.
BackReferencesExact ==
  /\ \A h \in Handlers : events[h] = {e \in AllEvents : Contains(handlers[e], h)}
  /\ \A h, p \in Handlers : parents[h][p] = Times(children[p], h)
  /\ \A m \in Nodes, h \in Handlers :
       users[m][h] = Cardinality({name \in Names : scopes[h][name] = m})

\* The errors of an object that is not marked are those of the present graph, for
\* an event those of all the handlers and names on the way.
ErrorsCurrent ==
  /\ \A h \in Handlers \ marked : h \in errors <=> NotBound(h)
  /\ \A e \in AllEvents \ marked : e \in errors <=> NotFound(e)

\* The nearest handler on the way to have name, its own name before those it
\* gives; a handler's own name is for its descendants.
Nearest(path, name) ==
  LET own(i) == i < Len(path) /\ scopeName[path[i]] = name
      at == {i \in DOMAIN path : own(i) \/ scopes[path[i]][name] # NoNode}
  IN  IF at = {} THEN NoNode
      ELSE IF own(Max(at)) THEN path[Max(at)] ELSE scopes[path[Max(at)]][name]

\* The tasks of an event as the programming guide has them: each handler visited
\* by way of those above it, its operators before and after its children's.
Visited(e) ==
  LET found(path) == [name \in Names |-> Nearest(path, name)]
      visit[h \in Handlers] ==
        [above \in Seq(Handlers) |->
          LET path == Append(above, h)
          IN  Tasks(h, "pre", bindings[h]["pre"], found(path))
              \o FlattenSeq([i \in DOMAIN children[h] |-> visit[children[h][i]][path]])
              \o Tasks(h, "post", bindings[h]["post"], found(path))
              \o SelectTasks(h, e \in selects, found(path))]
  IN  FlattenSeq([i \in DOMAIN handlers[e] |-> visit[handlers[e][i]][<<>>]])

\* What an unmarked event has collected, maybe long ago, is what it is to run in
\* the present graph; it can execute only if all its names are found, its
\* selectors bound and its nodes fit to run, and cannot only if one is not.
EventIsCurrent ==
  \A e \in AllEvents \ marked :
    LET sound == /\ NodesUnder(e) \intersect broken = {}
                 /\ \A h \in HandlersUnder(e) : ~NotBound(h)
                 /\ ~NotFound(e)
    IN  /\ can[e] = "can" => sound /\ tasks[e] = Visited(e)
        /\ can[e] = "cannot" => ~sound

\* A node that a handler names is up to date before any event that runs the
\* handler runs it.
NodesEvaluatedFirst ==
  [][\A e \in AllEvents : can'[e] = "can" /\ Fire(e) => NodesUnder(e) \intersect dirty' = {}]_vars

\* No event runs a call with the size or the addresses a node had before it was
\* resized.
NoStaleCall == [][\A e \in AllEvents : can'[e] = "can" /\ Fire(e) => e \notin stale]_vars
=============================================================================
