------------------------ MODULE ResourceLoadingProofs ------------------------
(***************************************************************************)
(* Proofs about ResourceLoading, for any nodes, requests, URLs and sizes.   *)
(***************************************************************************)
EXTENDS ResourceLoading, FiniteSetTheorems, SequenceTheorems, TLAPS

\* What the browser says of a stream is right, and there is something to load: an
\* http stream of no chunks is never answered.
HonestHttp == \A u \in Http : Size[u] > 0 /\ Announced[u] = Size[u]

Queued(r) == {i \in DOMAIN callbacks : callbacks[i].request = r}

\* A request that is not pending has nothing left; a pending one has its URL.
RequestSound(r) ==
  IF request[r].pending THEN request[r].url \in Urls
  ELSE request[r] = Deleted /\ Queued(r) = {}

\* The answers of r that are still scheduled: the last one ends it, unless its
\* job goes on, and no other does.
AnswersSound(r) ==
  \A i \in Queued(r) :
    /\ source[r].kind # "stream"
    /\ callbacks[i].kind = "progress" => callbacks[i].at <= Announced[request[r].url]
    /\ Ends(r, callbacks[i]) <=>
         source[r].kind = "none" /\ \A j \in Queued(r) : j <= i

SourceSound(r) ==
  LET s == source[r]
  IN  /\ s.kind = "none" => s = NoSource /\ (request[r].pending => Queued(r) # {})
      /\ s.kind = "job" =>
           /\ request[r].pending /\ s.url = request[r].url /\ ~s.finished
           /\ s.url \in Urls \ Http /\ s.sent < Size[s.url]
      /\ s.kind = "stream" =>
           /\ s.url \in Http /\ s.sent <= Size[s.url]
           /\ request[r].pending <=> ~s.finished
           /\ request[r].pending => s.url = request[r].url
           /\ s.finished => s.sent = Size[s.url]
           /\ s.sent = Size[s.url] => s.finished \/ s.asFile

Sound(r) == RequestSound(r) /\ AnswersSound(r) /\ SourceSound(r)

\* A node that a request would still change is there, and waits for it.
HeardSound ==
  \A n \in Nodes :
    LET nd == node[n]
    IN  /\ nd.latest # NoRequest /\ request[nd.latest].client = n =>
             nd.exists /\ nd.streamUrl # NoUrl /\ nd.inProgress
        /\ nd.exists /\ nd.streamUrl # NoUrl /\ nd.inProgress =>
             nd.latest # NoRequest /\ request[nd.latest].client = n

IInv ==
  /\ TypeOK
  /\ \A r \in Requests : Sound(r)
  /\ HeardSound
  /\ RetainedByRequests
-----------------------------------------------------------------------------
(***************************************************************************)
(* What an answer does to a node.                                           *)
(***************************************************************************)
\* The members of a node that no answer changes.
SameRequest(new, old) ==
  /\ new.exists = old.exists /\ new.url = old.url /\ new.store = old.store
  /\ new.streamUrl = old.streamUrl /\ new.keep = old.keep /\ new.asFile = old.asFile
  /\ new.latest = old.latest

\* setResourceData leaves a node that is waiting still waiting.
LEMMA SetResourceDataFacts ==
  ASSUME NEW nd \in NodeState
  PROVE  /\ SetResourceData(nd) \in NodeState
         /\ SameRequest(SetResourceData(nd), nd)
         /\ SetResourceData(nd).inProgress = nd.inProgress
<1>1. CASE nd.stream = nd.resource
  BY <1>1 DEF SetResourceData, SameRequest, NodeState
<1>2. CASE nd.stream # nd.resource
  <2> DEFINE d == IF nd.keep THEN nd.stream.data ELSE <<>>
  <2>1. nd.stream \in Resource /\ d \in Seq(Urls \union {NoUrl})
    BY DEF NodeState, Resource
  <2>2. [nd.stream EXCEPT !.data = d] \in Resource
    BY <2>1 DEF Resource
  <2>3. SetResourceData(nd) =
          [nd EXCEPT !.firstEval = TRUE, !.resource = nd.stream, !.dirty = TRUE,
                     !.stream = [nd.stream EXCEPT !.data = d]]
    BY <1>2 DEF SetResourceData, NodeState
  <2> HIDE DEF d
  <2> QED
    BY <2>1, <2>2, <2>3 DEF SameRequest, NodeState
<1> QED
  BY <1>1, <1>2

\* Data sets one chunk of the stream's data.
LEMMA FilledType ==
  ASSUME NEW data \in Seq(Urls \union {NoUrl}), NEW k \in Nat, NEW u \in Urls
  PROVE  Filled(data, k, u) \in Seq(Urls \union {NoUrl})
<1> DEFINE n == IF k < Len(data) THEN Len(data) ELSE k + 1
           value(i) == IF i = k + 1 THEN u ELSE IF i <= Len(data) THEN data[i] ELSE NoUrl
<1>1. n \in Nat
  OBVIOUS
<1>2. \A i \in 1..n : value(i) \in Urls \union {NoUrl}
  OBVIOUS
<1>3. Filled(data, k, u) = [i \in 1..n |-> value(i)]
  BY DEF Filled
<1> HIDE DEF n, value
<1> QED
  BY <1>1, <1>2, <1>3

LEMMA OnDataFacts ==
  ASSUME NEW nd \in NodeState, NEW k \in Nat, NEW u \in Urls
  PROVE  /\ OnData(nd, k, u) \in NodeState
         /\ SameRequest(OnData(nd, k, u), nd)
         /\ OnData(nd, k, u).inProgress = nd.inProgress
<1> DEFINE d == Filled(nd.stream.data, k, u)
<1>1. nd.stream \in Resource /\ nd.stream.data \in Seq(Urls \union {NoUrl})
  BY DEF NodeState, Resource
<1>2. d \in Seq(Urls \union {NoUrl})
  BY <1>1, FilledType
<1>3. [nd.stream EXCEPT !.data = d] \in Resource
  BY <1>1, <1>2 DEF Resource
<1>4. OnData(nd, k, u) = [nd EXCEPT !.stream = [nd.stream EXCEPT !.data = d]]
  BY <1>1 DEF OnData, NodeState
<1> HIDE DEF d
<1> QED
  BY <1>3, <1>4 DEF SameRequest, NodeState

LEMMA OnFileFacts ==
  ASSUME NEW nd \in NodeState, NEW u \in Urls
  PROVE  /\ OnFile(nd, u) \in NodeState
         /\ SameRequest(OnFile(nd, u), nd)
         /\ OnFile(nd, u).inProgress = nd.inProgress
<1>1. nd.stream \in Resource
  BY DEF NodeState
<1>2. [nd.stream EXCEPT !.file = u] \in Resource
  BY <1>1 DEF Resource
<1>3. OnFile(nd, u) = [nd EXCEPT !.stream = [nd.stream EXCEPT !.file = u]]
  BY <1>1 DEF OnFile, NodeState
<1> QED
  BY <1>2, <1>3 DEF SameRequest, NodeState

LEMMA OnFailureFacts ==
  ASSUME NEW nd \in NodeState
  PROVE  /\ OnFailure(nd) \in NodeState
         /\ SameRequest(OnFailure(nd), nd)
         /\ ~OnFailure(nd).inProgress
<1> DEFINE c == [nd EXCEPT !.stream = NoResource, !.inProgress = FALSE]
<1>1. NoResource \in Resource
  BY DEF NoResource, Resource
<1>2. c \in NodeState /\ SameRequest(c, nd) /\ c.inProgress = FALSE
  BY <1>1 DEF NodeState, SameRequest
<1>3. OnFailure(nd) = SetResourceData(c)
  BY DEF OnFailure
<1> HIDE DEF c
<1> QED
  BY <1>2, <1>3, SetResourceDataFacts DEF SameRequest

\* Progress ends the wait exactly when all is done.
LEMMA OnProgressFacts ==
  ASSUME NEW nd \in NodeState, NEW done \in Nat, NEW total \in Nat
  PROVE  /\ OnProgress(nd, done, total) \in NodeState
         /\ SameRequest(OnProgress(nd, done, total), nd)
         /\ OnProgress(nd, done, total).inProgress <=> done < total /\ nd.inProgress
<1> DEFINE d == IF total < Len(nd.stream.data) THEN SubSeq(nd.stream.data, 1, total)
                                               ELSE nd.stream.data
           cut == [nd EXCEPT !.stream = [nd.stream EXCEPT !.data = d]]
           ended == [cut EXCEPT !.inProgress = FALSE]
<1>1. nd.stream \in Resource /\ nd.stream.data \in Seq(Urls \union {NoUrl})
  BY DEF NodeState, Resource
<1>2. d \in Seq(Urls \union {NoUrl})
  BY <1>1
<1>3. [nd.stream EXCEPT !.data = d] \in Resource
  BY <1>1, <1>2 DEF Resource
<1>4. OnProgress(nd, done, total) = IF done < total THEN cut ELSE SetResourceData(ended)
  BY <1>1 DEF OnProgress, NodeState
<1> HIDE DEF d
<1>5. /\ cut \in NodeState /\ SameRequest(cut, nd) /\ cut.inProgress = nd.inProgress
      /\ ended \in NodeState /\ SameRequest(ended, nd) /\ ended.inProgress = FALSE
  BY <1>3 DEF SameRequest, NodeState
<1> HIDE DEF cut, ended
<1>6. nd.inProgress \in BOOLEAN
  BY DEF NodeState
<1> QED
  BY <1>4, <1>5, <1>6, SetResourceDataFacts DEF SameRequest

\* The answer that ends a request ends the wait of the node, and no other does.
LEMMA OnAnswerFacts ==
  ASSUME ResourceConstants,
         NEW nd \in NodeState, NEW a \in Answer, NEW u \in Urls,
         a.kind = "progress" => a.at <= Announced[u]
  PROVE  /\ OnAnswer(nd, a, u) \in NodeState
         /\ SameRequest(OnAnswer(nd, a, u), nd)
         /\ OnAnswer(nd, a, u).inProgress <=>
              /\ ~(a.kind = "failure" \/ (a.kind = "progress" /\ a.at = Announced[u]))
              /\ nd.inProgress
<1>1. /\ a.at \in Nat /\ Announced[u] \in Nat
      /\ a.kind \in {"data", "progress", "file", "failure"}
  BY DEF Answer, ResourceConstants
<1>2. CASE a.kind = "data"
  BY <1>1, <1>2, OnDataFacts DEF OnAnswer
<1>3. CASE a.kind = "file"
  BY <1>1, <1>3, OnFileFacts DEF OnAnswer
<1>4. CASE a.kind = "failure"
  <2>1. OnAnswer(nd, a, u) = OnFailure(nd)
    BY <1>4 DEF OnAnswer
  <2> QED
    BY <1>4, <2>1, OnFailureFacts, Zenon
<1>5. CASE a.kind = "progress"
  <2>1. OnAnswer(nd, a, u) = OnProgress(nd, a.at, Announced[u])
    BY <1>5 DEF OnAnswer
  <2>2. a.at < Announced[u] <=> a.at # Announced[u]
    BY <1>1, <1>5
  <2>3. /\ OnProgress(nd, a.at, Announced[u]) \in NodeState
        /\ SameRequest(OnProgress(nd, a.at, Announced[u]), nd)
        /\ OnProgress(nd, a.at, Announced[u]).inProgress <=> a.at < Announced[u] /\ nd.inProgress
    BY <1>1, OnProgressFacts
  <2> QED
    BY <1>5, <2>1, <2>2, <2>3, Zenon
<1> QED
  BY <1>1, <1>2, <1>3, <1>4, <1>5
-----------------------------------------------------------------------------
(***************************************************************************)
(* The queue.                                                               *)
(***************************************************************************)
LEMMA QueuedFacts ==
  ASSUME TypeOK, NEW r \in Requests, NEW i \in Queued(r)
  PROVE  /\ i \in 1..Len(callbacks) /\ Len(callbacks) \in Nat
         /\ callbacks[i] \in Answer /\ callbacks[i].request = r
         /\ callbacks[i].at \in Nat
         /\ callbacks[i].kind \in {"data", "progress", "file", "failure"}
<1>1. callbacks \in Seq(Answer)
  BY DEF TypeOK
<1>2. i \in DOMAIN callbacks /\ callbacks[i].request = r
  BY DEF Queued
<1>3. /\ i \in 1..Len(callbacks) /\ Len(callbacks) \in Nat
      /\ callbacks[i] \in Answer
  BY <1>1, <1>2
<1> QED
  BY <1>2, <1>3 DEF Answer

\* The answers more, of request r, are scheduled.
LEMMA Enqueued ==
  ASSUME TypeOK, NEW r \in Requests, NEW more \in Seq(Answer),
         \A i \in DOMAIN more : more[i].request = r,
         callbacks' = callbacks \o more
  PROVE  /\ callbacks' \in Seq(Answer)
         /\ Len(callbacks) \in Nat /\ Len(more) \in Nat
         /\ \A i \in 1..Len(callbacks) : callbacks'[i] = callbacks[i]
         /\ \A i \in 1..Len(more) : callbacks'[Len(callbacks) + i] = more[i]
         /\ \A q \in Requests \ {r} : Queued(q)' = Queued(q)
         /\ Queued(r)' = Queued(r) \union (Len(callbacks) + 1)..(Len(callbacks) + Len(more))
         /\ Queued(r) \subseteq 1..Len(callbacks)
<1>1. callbacks \in Seq(Answer)
  BY DEF TypeOK
<1>2. /\ callbacks' \in Seq(Answer)
      /\ Len(callbacks) \in Nat /\ Len(more) \in Nat
      /\ DOMAIN callbacks = 1..Len(callbacks) /\ DOMAIN more = 1..Len(more)
      /\ DOMAIN callbacks' = 1..(Len(callbacks) + Len(more))
      /\ \A i \in 1..Len(callbacks) : callbacks'[i] = callbacks[i]
      /\ \A i \in 1..Len(more) : callbacks'[Len(callbacks) + i] = more[i]
  BY <1>1
<1>3. \A i \in (Len(callbacks) + 1)..(Len(callbacks) + Len(more)) : callbacks'[i].request = r
  <2> SUFFICES ASSUME NEW i \in (Len(callbacks) + 1)..(Len(callbacks) + Len(more))
               PROVE  callbacks'[i].request = r
    OBVIOUS
  <2>1. PICK j \in 1..Len(more) : i = Len(callbacks) + j
    <3>1. i - Len(callbacks) \in 1..Len(more) /\ i = Len(callbacks) + (i - Len(callbacks))
      BY <1>2
    <3> QED
      BY <3>1
  <2> QED
    BY <1>2, <2>1
<1>4. \A i \in DOMAIN callbacks' :
        i \in 1..Len(callbacks) \/ i \in (Len(callbacks) + 1)..(Len(callbacks) + Len(more))
  BY <1>2
<1>5. ASSUME NEW q \in Requests \ {r}
      PROVE  Queued(q)' = Queued(q)
  <2>1. \A i \in Queued(q)' : i \in Queued(q)
    BY <1>2, <1>3, <1>4, <1>5 DEF Queued
  <2>2. \A i \in Queued(q) : i \in Queued(q)'
    BY <1>2 DEF Queued
  <2> QED
    BY <2>1, <2>2
<1>6. Queued(r)' = Queued(r) \union (Len(callbacks) + 1)..(Len(callbacks) + Len(more))
  <2>1. \A i \in Queued(r)' :
          i \in Queued(r) \union (Len(callbacks) + 1)..(Len(callbacks) + Len(more))
    BY <1>2, <1>4 DEF Queued
  <2>2. \A i \in Queued(r) \union (Len(callbacks) + 1)..(Len(callbacks) + Len(more)) :
          i \in Queued(r)'
    BY <1>2, <1>3 DEF Queued
  <2> QED
    BY <2>1, <2>2
<1>7. Queued(r) \subseteq 1..Len(callbacks)
  BY <1>2 DEF Queued
<1> QED
  BY <1>2, <1>5, <1>6, <1>7

\* The first answer is taken.
LEMMA Dequeued ==
  ASSUME TypeOK, callbacks # <<>>, callbacks' = Tail(callbacks)
  PROVE  /\ callbacks' \in Seq(Answer)
         /\ 1 \in Queued(Head(callbacks).request)
         /\ Head(callbacks) = callbacks[1] /\ Head(callbacks) \in Answer
         /\ \A r \in Requests : \A i \in Queued(r)' :
              /\ i \in Nat /\ i + 1 \in Queued(r)
              /\ callbacks'[i] = callbacks[i + 1]
         /\ \A r \in Requests : \A i \in Queued(r) :
              i # 1 => i \in Nat /\ i - 1 \in Queued(r)'
<1>1. callbacks \in Seq(Answer)
  BY DEF TypeOK
<1>2. /\ callbacks' \in Seq(Answer)
      /\ Len(callbacks) \in Nat \ {0}
      /\ DOMAIN callbacks = 1..Len(callbacks)
      /\ DOMAIN callbacks' = 1..(Len(callbacks) - 1)
      /\ \A i \in 1..(Len(callbacks) - 1) : callbacks'[i] = callbacks[i + 1]
      /\ Head(callbacks) = callbacks[1] /\ Head(callbacks) \in Answer
  BY <1>1
<1>3. 1 \in Queued(Head(callbacks).request)
  BY <1>2 DEF Queued
<1>4. ASSUME NEW r \in Requests, NEW i \in Queued(r)'
      PROVE  i \in Nat /\ i + 1 \in Queued(r) /\ callbacks'[i] = callbacks[i + 1]
  BY <1>2, <1>4 DEF Queued
<1>5. ASSUME NEW r \in Requests, NEW i \in Queued(r), i # 1
      PROVE  i \in Nat /\ i - 1 \in Queued(r)'
  <2>1. i \in 1..Len(callbacks) /\ callbacks[i].request = r
    BY <1>2 DEF Queued
  <2>2. i \in Nat /\ i - 1 \in 1..(Len(callbacks) - 1) /\ (i - 1) + 1 = i
    BY <1>2, <1>5, <2>1
  <2>3. callbacks'[i - 1] = callbacks[i]
    BY <1>2, <2>2
  <2> QED
    BY <1>2, <2>1, <2>2, <2>3 DEF Queued
<1> QED
  BY <1>2, <1>3, <1>4, <1>5
-----------------------------------------------------------------------------
(***************************************************************************)
(* What a step leaves of a request and of the nodes.                        *)
(***************************************************************************)
LEMMA TypeFacts ==
  ASSUME TypeOK
  PROVE  /\ \A n \in Nodes : node[n] \in NodeState /\ retained[n] \in Nat
         /\ \A r \in Requests : request[r] \in RequestInfo /\ source[r] \in Source
         /\ DOMAIN node = Nodes /\ DOMAIN retained = Nodes
         /\ DOMAIN request = Requests /\ DOMAIN source = Requests
         /\ callbacks \in Seq(Answer)
BY DEF TypeOK

\* A request that keeps its source and its answers stays sound; it may lose its
\* client.
LEMMA SoundKept ==
  ASSUME NEW r \in Requests, Sound(r),
         /\ request'[r].pending = request[r].pending
         /\ request'[r].url = request[r].url
         /\ ~request[r].pending => request'[r] = request[r]
         /\ source'[r] = source[r]
         /\ Queued(r)' = Queued(r)
         /\ \A i \in Queued(r) : callbacks'[i] = callbacks[i]
  PROVE  Sound(r)'
<1>1. RequestSound(r)'
  BY DEF Sound, RequestSound
<1>2. AnswersSound(r)'
  <2> SUFFICES ASSUME NEW i \in Queued(r)
               PROVE  /\ source[r].kind # "stream"
                      /\ callbacks[i].kind = "progress" =>
                           callbacks[i].at <= Announced[request[r].url]
                      /\ Ends(r, callbacks[i])' <=>
                           source[r].kind = "none" /\ \A j \in Queued(r) : j <= i
    BY Zenon DEF AnswersSound
  <2>1. Ends(r, callbacks[i])' <=> Ends(r, callbacks[i])
    BY DEF Ends
  <2> QED
    BY <2>1 DEF Sound, AnswersSound
<1>3. SourceSound(r)'
  BY DEF Sound, SourceSound
<1> QED
  BY <1>1, <1>2, <1>3 DEF Sound

LEMMA AllSoundKept ==
  ASSUME \A r \in Requests : Sound(r),
         UNCHANGED <<request, source, callbacks>>
  PROVE  \A r \in Requests : Sound(r)'
BY SoundKept DEF Queued

LEMMA RequestsOfFinite ==
  ASSUME ResourceConstants, NEW n
  PROVE  /\ IsFiniteSet(RequestsOf(n)) /\ Cardinality(RequestsOf(n)) \in Nat
<1>1. IsFiniteSet(Requests) /\ RequestsOf(n) \subseteq Requests
  BY DEF ResourceConstants, RequestsOf
<1>2. IsFiniteSet(RequestsOf(n))
  BY <1>1, FS_Subset
<1> QED
  BY <1>2, FS_CardinalityType

\* A new request of node n retains it.
LEMMA RetainedByOneMore ==
  ASSUME ResourceConstants, TypeOK, RetainedByRequests,
         NEW n \in Nodes, NEW r \in Requests, NEW u,
         request[r] = Deleted,
         request' = [request EXCEPT ![r] = [pending |-> TRUE, client |-> n, url |-> u]],
         retained' = [retained EXCEPT ![n] = @ + 1]
  PROVE  RetainedByRequests' /\ retained' \in [Nodes -> Nat]
<1> SUFFICES ASSUME NEW m \in Nodes
             PROVE  retained'[m] = Cardinality(RequestsOf(m)') /\ retained'[m] \in Nat
  BY TypeFacts DEF RetainedByRequests, RequestsOf, TypeOK
<1>0. /\ NoNode \notin Nodes /\ retained[m] \in Nat
      /\ retained[m] = Cardinality(RequestsOf(m))
      /\ DOMAIN request = Requests /\ DOMAIN retained = Nodes
  BY TypeFacts DEF ResourceConstants, RetainedByRequests
<1>1. r \notin RequestsOf(m)
  BY <1>0 DEF RequestsOf, Deleted
<1>2. CASE m = n
  <2>1. RequestsOf(m)' = RequestsOf(m) \union {r}
    BY <1>0, <1>2 DEF RequestsOf
  <2>2. Cardinality(RequestsOf(m) \union {r}) = Cardinality(RequestsOf(m)) + 1
    BY <1>1, RequestsOfFinite, FS_AddElement
  <2> QED
    BY <1>0, <1>2, <2>1, <2>2
<1>3. CASE m # n
  <2>1. RequestsOf(m)' = RequestsOf(m)
    BY <1>0, <1>1, <1>3 DEF RequestsOf
  <2> QED
    BY <1>0, <1>3, <2>1
<1> QED
  BY <1>2, <1>3

\* The end of a request releases its client.
LEMMA ReleasedByCompleted ==
  ASSUME ResourceConstants, TypeOK, RetainedByRequests, NEW r \in Requests, Completed(r)
  PROVE  RetainedByRequests' /\ retained' \in [Nodes -> Nat]
<1> SUFFICES ASSUME NEW m \in Nodes
             PROVE  retained'[m] = Cardinality(RequestsOf(m)') /\ retained'[m] \in Nat
  BY DEF RetainedByRequests, RequestsOf, Completed
<1>0. /\ NoNode \notin Nodes /\ retained[m] \in Nat
      /\ retained[m] = Cardinality(RequestsOf(m))
      /\ DOMAIN request = Requests
      /\ request' = [request EXCEPT ![r] = Deleted]
      /\ retained'[m] = IF m = request[r].client THEN retained[m] - 1 ELSE retained[m]
  BY TypeFacts DEF ResourceConstants, RetainedByRequests, Completed
<1>1. RequestsOf(m)' = RequestsOf(m) \ {r}
  BY <1>0 DEF RequestsOf, Deleted
<1>2. CASE m = request[r].client
  <2>1. r \in RequestsOf(m)
    BY <1>2 DEF RequestsOf
  <2>2. Cardinality(RequestsOf(m) \ {r}) = Cardinality(RequestsOf(m)) - 1
    BY <2>1, RequestsOfFinite, FS_RemoveElement
  <2>3. Cardinality(RequestsOf(m) \ {r}) \in Nat
    BY RequestsOfFinite, FS_RemoveElement, FS_CardinalityType
  <2> QED
    BY <1>0, <1>1, <1>2, <2>2, <2>3
<1>3. CASE m # request[r].client
  <2>1. r \notin RequestsOf(m)
    BY <1>3 DEF RequestsOf
  <2>2. RequestsOf(m) \ {r} = RequestsOf(m)
    BY <2>1
  <2> QED
    BY <1>0, <1>1, <1>3, <2>2
<1> QED
  BY <1>2, <1>3

\* An answer of request r is given to its client, if that still hears it, and the
\* request is completed if it is the last.
LEMMA AnswerGiven ==
  ASSUME ResourceConstants, TypeOK, HeardSound, RetainedByRequests,
         NEW r \in Requests, NEW new, NEW ended \in BOOLEAN,
         node' = IF Heard(r) THEN [node EXCEPT ![request[r].client] = new] ELSE node,
         Heard(r) => /\ new \in NodeState
                     /\ SameRequest(new, node[request[r].client])
                     /\ new.inProgress <=> ~ended /\ node[request[r].client].inProgress,
         IF ended THEN Completed(r) ELSE UNCHANGED <<request, retained>>
  PROVE  /\ node' \in [Nodes -> NodeState] /\ request' \in [Requests -> RequestInfo]
         /\ retained' \in [Nodes -> Nat]
         /\ HeardSound' /\ RetainedByRequests'
<1>1. node' \in [Nodes -> NodeState]
  BY DEF TypeOK
<1>2. request' \in [Requests -> RequestInfo]
  <2>1. Deleted \in RequestInfo
    BY DEF RequestInfo, Deleted
  <2> QED
    BY <2>1 DEF TypeOK, Completed
<1>3. retained' \in [Nodes -> Nat] /\ RetainedByRequests'
  <2>1. CASE ended
    BY <2>1, ReleasedByCompleted
  <2>2. CASE ~ended
    BY <2>2 DEF TypeOK, RetainedByRequests, RequestsOf
  <2> QED
    BY <2>1, <2>2
<1>4. HeardSound'
  <2> SUFFICES ASSUME NEW n \in Nodes
               PROVE  /\ node'[n].latest # NoRequest /\ request'[node'[n].latest].client = n =>
                           node'[n].exists /\ node'[n].streamUrl # NoUrl /\ node'[n].inProgress
                      /\ node'[n].exists /\ node'[n].streamUrl # NoUrl /\ node'[n].inProgress =>
                           node'[n].latest # NoRequest /\ request'[node'[n].latest].client = n
    BY Zenon DEF HeardSound
  <2> DEFINE l == node[n].latest
  <2>0. /\ DOMAIN node = Nodes /\ DOMAIN request = Requests /\ node[n] \in NodeState
        /\ l \in Requests \union {NoRequest} /\ NoRequest \notin Requests
        /\ NoNode \notin Nodes
    BY TypeFacts DEF NodeState, ResourceConstants
  <2>1. /\ l # NoRequest /\ request[l].client = n =>
             node[n].exists /\ node[n].streamUrl # NoUrl /\ node[n].inProgress
        /\ node[n].exists /\ node[n].streamUrl # NoUrl /\ node[n].inProgress =>
             l # NoRequest /\ request[l].client = n
    BY DEF HeardSound
  <2>2. CASE Heard(r) /\ n = request[r].client
    <3>1. l = r
      BY <2>2 DEF Heard
    <3>2. node'[n] = new
      BY <2>0, <2>2
    <3>3. SameRequest(new, node[n]) /\ (new.inProgress <=> ~ended /\ node[n].inProgress)
      BY <2>2
    <3>4. ended => request'[r].client # n
      BY <2>0 DEF Completed, Deleted
    <3>5. ~ended => request' = request
      OBVIOUS
    <3> QED
      BY <2>0, <2>1, <2>2, <3>1, <3>2, <3>3, <3>4, <3>5 DEF SameRequest
  <2>3. CASE ~(Heard(r) /\ n = request[r].client)
    <3>1. node'[n] = node[n]
      BY <2>0, <2>3
    <3>2. l = r => request[l].client # n
      BY <2>0, <2>3 DEF Heard
    <3>3. l \in Requests => (request'[l].client = n <=> request[l].client = n)
      BY <2>0, <3>2 DEF Completed, Deleted
    <3> QED
      BY <2>0, <2>1, <3>1, <3>3
  <2> QED
    BY <2>2, <2>3
<1> QED
  BY <1>1, <1>2, <1>3, <1>4
-----------------------------------------------------------------------------
(***************************************************************************)
(* IInv is inductive: one lemma for each action.                            *)
(***************************************************************************)
LEMMA InitInvariant ==
  ASSUME ResourceConstants, Init
  PROVE  IInv
<1>1. NoResource \in Resource
  BY DEF NoResource, Resource
<1>2. NewNode \in NodeState
  BY <1>1 DEF NewNode, NodeState
<1>3. Deleted \in RequestInfo /\ NoSource \in Source
  BY DEF Deleted, RequestInfo, NoSource, Source
<1>4. TypeOK
  BY <1>2, <1>3 DEF Init, TypeOK
<1>5. \A r \in Requests : Queued(r) = {}
  BY DEF Init, Queued
<1>6. \A r \in Requests : Sound(r)
  BY <1>5 DEF Init, Sound, RequestSound, AnswersSound, SourceSound, Deleted, NoSource
<1>7. HeardSound
  BY DEF Init, HeardSound, NewNode
<1>8. RetainedByRequests
  <2>1. \A n \in Nodes : RequestsOf(n) = {}
    BY DEF Init, RequestsOf, Deleted, ResourceConstants
  <2> QED
    BY <2>1, FS_EmptySet DEF Init, RetainedByRequests
<1> QED
  BY <1>4, <1>6, <1>7, <1>8 DEF IInv

\* A command that leaves the requests alone: the node n keeps what says that it
\* waits, or does not wait.
LEMMA OnlyNode ==
  ASSUME ResourceConstants, IInv, NEW n \in Nodes, NEW new \in NodeState,
         node' = [node EXCEPT ![n] = new],
         UNCHANGED requests,
         \/ /\ new.exists = node[n].exists /\ new.streamUrl = node[n].streamUrl
            /\ new.inProgress = node[n].inProgress /\ new.latest = node[n].latest
         \/ /\ new.latest = NoRequest
            /\ new.streamUrl = NoUrl \/ ~new.inProgress
  PROVE  IInv'
<1>0. /\ TypeOK /\ HeardSound /\ RetainedByRequests /\ DOMAIN node = Nodes
      /\ UNCHANGED <<request, retained, source, callbacks>>
  BY TypeFacts DEF IInv, requests
<1>1. TypeOK'
  BY <1>0 DEF TypeOK
<1>2. \A r \in Requests : Sound(r)'
  BY <1>0, AllSoundKept DEF IInv
<1>3. HeardSound'
  BY <1>0 DEF HeardSound
<1>4. RetainedByRequests'
  BY <1>0 DEF RetainedByRequests, RequestsOf
<1> QED
  BY <1>1, <1>2, <1>3, <1>4 DEF IInv

LEMMA CreateInvariant ==
  ASSUME ResourceConstants, IInv, NEW n \in Nodes, Create(n)
  PROVE  IInv'
<1>1. NoResource \in Resource
  BY DEF NoResource, Resource
<1>2. NewNode \in NodeState /\ NewNode.latest = NoRequest /\ NewNode.streamUrl = NoUrl
  BY <1>1 DEF NewNode, NodeState
<1> QED
  BY <1>2, OnlyNode DEF Create

LEMMA SetUrlInvariant ==
  ASSUME ResourceConstants, IInv, NEW n \in Nodes, NEW u \in Urls \union {NoUrl}, SetUrl(n, u)
  PROVE  IInv'
<1> DEFINE new == [node[n] EXCEPT !.url = u, !.dirty = TRUE]
<1>1. node[n] \in NodeState
  BY TypeFacts DEF IInv
<1>2. /\ new \in NodeState
      /\ new.exists = node[n].exists /\ new.streamUrl = node[n].streamUrl
      /\ new.inProgress = node[n].inProgress /\ new.latest = node[n].latest
  BY <1>1 DEF NodeState
<1>3. node' = [node EXCEPT ![n] = new] /\ UNCHANGED requests
  BY DEF SetUrl
<1> HIDE DEF new
<1> QED
  BY <1>2, <1>3, OnlyNode

LEMMA SetStoreInvariant ==
  ASSUME ResourceConstants, IInv, NEW n \in Nodes, NEW s \in Stores, SetStore(n, s)
  PROVE  IInv'
<1> DEFINE new == [node[n] EXCEPT !.store = s, !.dirty = TRUE]
<1>1. node[n] \in NodeState
  BY TypeFacts DEF IInv
<1>2. /\ new \in NodeState
      /\ new.exists = node[n].exists /\ new.streamUrl = node[n].streamUrl
      /\ new.inProgress = node[n].inProgress /\ new.latest = node[n].latest
  BY <1>1 DEF NodeState, ResourceConstants
<1>3. node' = [node EXCEPT ![n] = new] /\ UNCHANGED requests
  BY DEF SetStore
<1> HIDE DEF new
<1> QED
  BY <1>2, <1>3, OnlyNode

LEMMA EvaluateSettledInvariant ==
  ASSUME ResourceConstants, IInv, NEW n \in Nodes, EvaluateSettled(n)
  PROVE  IInv'
<1> DEFINE new == [node[n] EXCEPT !.firstEval = FALSE, !.dirty = FALSE]
<1>1. node[n] \in NodeState
  BY TypeFacts DEF IInv
<1>2. /\ new \in NodeState
      /\ new.exists = node[n].exists /\ new.streamUrl = node[n].streamUrl
      /\ new.inProgress = node[n].inProgress /\ new.latest = node[n].latest
  BY <1>1 DEF NodeState
<1>3. node' = [node EXCEPT ![n] = new] /\ UNCHANGED requests
  BY DEF EvaluateSettled
<1> HIDE DEF new
<1> QED
  BY <1>2, <1>3, OnlyNode

LEMMA EvaluateKeptInvariant ==
  ASSUME ResourceConstants, IInv, NEW n \in Nodes, EvaluateKept(n)
  PROVE  IInv'
<1> DEFINE told == SetResourceData(node[n])
           new == [told EXCEPT !.dirty = FALSE]
<1>1. node[n] \in NodeState
  BY TypeFacts DEF IInv
<1>2. told \in NodeState /\ SameRequest(told, node[n]) /\ told.inProgress = node[n].inProgress
  BY <1>1, SetResourceDataFacts
<1>3. node' = [node EXCEPT ![n] = new] /\ UNCHANGED requests
  BY DEF EvaluateKept
<1> HIDE DEF told
<1>4. /\ new \in NodeState
      /\ new.exists = node[n].exists /\ new.streamUrl = node[n].streamUrl
      /\ new.inProgress = node[n].inProgress /\ new.latest = node[n].latest
  BY <1>2 DEF NodeState, SameRequest
<1> HIDE DEF new
<1> QED
  BY <1>3, <1>4, OnlyNode

\* The node that starts over is of its URL, and waits if it did before.
LEMMA EmptiedFacts ==
  ASSUME NEW nd \in NodeState, NEW r \in Requests \union {NoRequest}
  PROVE  /\ Emptied(nd, r) \in NodeState
         /\ Emptied(nd, r).exists = nd.exists /\ Emptied(nd, r).streamUrl = nd.url
         /\ Emptied(nd, r).latest = r /\ Emptied(nd, r).inProgress = nd.inProgress
<1> DEFINE c == [nd EXCEPT !.streamUrl = nd.url, !.stream = NoResource, !.keep = FALSE]
           cleared == SetResourceData(c)
<1>1. NoResource \in Resource
  BY DEF NoResource, Resource
<1>2. /\ c \in NodeState /\ c.streamUrl = nd.url /\ c.exists = nd.exists
      /\ c.inProgress = nd.inProgress
  BY <1>1 DEF NodeState
<1>3. Emptied(nd, r) =
        [cleared EXCEPT !.latest = r, !.dirty = FALSE,
                        !.keep = nd.store.keep, !.asFile = nd.store.asFile]
  BY DEF Emptied
<1> HIDE DEF c
<1>4. cleared \in NodeState /\ SameRequest(cleared, c) /\ cleared.inProgress = c.inProgress
  BY <1>2, SetResourceDataFacts
<1> HIDE DEF cleared
<1>5. nd.store.keep \in BOOLEAN /\ nd.store.asFile \in BOOLEAN
  BY DEF NodeState
<1> QED
  BY <1>2, <1>3, <1>4, <1>5 DEF NodeState, SameRequest

LEMMA EvaluateEmptyInvariant ==
  ASSUME ResourceConstants, IInv, NEW n \in Nodes, EvaluateEmpty(n)
  PROVE  IInv'
<1>1. node[n] \in NodeState
  BY TypeFacts DEF IInv
<1>2. /\ node' = [node EXCEPT ![n] = Emptied(node[n], NoRequest)] /\ UNCHANGED requests
      /\ node[n].url = NoUrl
  BY DEF EvaluateEmpty
<1>3. /\ Emptied(node[n], NoRequest) \in NodeState
      /\ Emptied(node[n], NoRequest).streamUrl = NoUrl
      /\ Emptied(node[n], NoRequest).latest = NoRequest
  BY <1>1, <1>2, EmptiedFacts
<1> QED
  BY <1>2, <1>3, OnlyNode

\* The requests of a destroyed node have no client any more.
LEMMA DestroyInvariant ==
  ASSUME ResourceConstants, IInv, NEW n \in Nodes, Destroy(n)
  PROVE  IInv'
<1> DEFINE new == [node[n] EXCEPT !.exists = FALSE]
<1>0. /\ TypeOK /\ HeardSound /\ RetainedByRequests
      /\ DOMAIN node = Nodes /\ DOMAIN retained = Nodes /\ node[n] \in NodeState
      /\ NoNode \notin Nodes /\ NoRequest \notin Requests
      /\ node' = [node EXCEPT ![n] = new] /\ UNCHANGED <<source, callbacks>>
  BY TypeFacts DEF IInv, Destroy, ResourceConstants
<1>1. new \in NodeState /\ ~new.exists /\ new.latest = node[n].latest
  BY <1>0 DEF NodeState
<1>2. \A m \in Nodes : node'[m] = IF m = n THEN new ELSE node[m]
  BY <1>0
<1> HIDE DEF new
<1>3. CASE node[n].inProgress
  <2>1. /\ request' = Cancelled(n)
        /\ retained' = [retained EXCEPT ![n] = @ - Cardinality(RequestsOf(n))]
    BY <1>3 DEF Destroy
  <2>2. \A r \in Requests :
          /\ request[r] \in RequestInfo
          /\ request'[r] = IF request[r].client = n THEN [request[r] EXCEPT !.client = NoNode]
                                                    ELSE request[r]
    BY <1>0, <2>1, TypeFacts DEF Cancelled
  <2>3. \A r \in Requests :
          /\ request'[r] \in RequestInfo
          /\ request'[r].pending = request[r].pending /\ request'[r].url = request[r].url
          /\ request'[r].client # n
          /\ \A m \in Nodes : m # n => (request'[r].client = m <=> request[r].client = m)
    BY <1>0, <2>2 DEF RequestInfo
  <2>4. \A r \in Requests : ~request[r].pending => request'[r] = request[r]
    BY <1>0, <2>2 DEF IInv, Sound, RequestSound, Deleted
  <2>5. \A r \in Requests : Sound(r)'
    BY <1>0, <2>3, <2>4, SoundKept DEF IInv, Queued
  <2>6. RequestsOf(n)' = {} /\ \A m \in Nodes : m # n => RequestsOf(m)' = RequestsOf(m)
    BY <2>3 DEF RequestsOf
  <2>7. retained'[n] = 0 /\ \A m \in Nodes : m # n => retained'[m] = retained[m]
    BY <1>0, <2>1, RequestsOfFinite DEF RetainedByRequests
  <2>8. RetainedByRequests'
    BY <1>0, <2>6, <2>7, FS_EmptySet DEF RetainedByRequests
  <2>9. retained' \in [Nodes -> Nat]
    <3>1. \A m \in Nodes : retained'[m] \in Nat
      BY <1>0, <2>7, TypeFacts
    <3>2. retained' = [m \in Nodes |-> retained'[m]]
      BY <1>0, <2>1 DEF TypeOK
    <3> QED
      BY <3>1, <3>2
  <2>10. TypeOK'
    BY <1>0, <1>1, <2>1, <2>3, <2>9 DEF TypeOK, Cancelled
  <2>11. HeardSound'
    <3> SUFFICES ASSUME NEW m \in Nodes
                 PROVE  /\ node'[m].latest # NoRequest /\ request'[node'[m].latest].client = m =>
                             node'[m].exists /\ node'[m].streamUrl # NoUrl /\ node'[m].inProgress
                        /\ node'[m].exists /\ node'[m].streamUrl # NoUrl /\ node'[m].inProgress =>
                             node'[m].latest # NoRequest /\ request'[node'[m].latest].client = m
      BY Zenon DEF HeardSound
    <3>1. node[m].latest \in Requests \union {NoRequest}
      BY <1>0, TypeFacts DEF NodeState
    <3>2. CASE m = n
      BY <1>1, <1>2, <2>3, <3>1, <3>2
    <3>3. CASE m # n
      BY <1>0, <1>2, <2>3, <3>1, <3>3 DEF HeardSound
    <3> QED
      BY <3>2, <3>3
  <2> QED
    BY <2>5, <2>8, <2>10, <2>11 DEF IInv
<1>4. CASE ~node[n].inProgress
  <2>1. UNCHANGED <<request, retained>>
    BY <1>4 DEF Destroy
  <2>2. TypeOK'
    BY <1>0, <1>1, <2>1 DEF TypeOK
  <2>3. \A r \in Requests : Sound(r)'
    BY <1>0, <2>1, AllSoundKept DEF IInv
  <2>4. HeardSound'
    BY <1>0, <1>1, <1>2, <1>4, <2>1 DEF HeardSound
  <2>5. RetainedByRequests'
    BY <1>0, <2>1 DEF RetainedByRequests, RequestsOf
  <2> QED
    BY <2>2, <2>3, <2>4, <2>5 DEF IInv
<1> QED
  BY <1>3, <1>4

\* A new request has an answer scheduled at once, or a job or a stream.
LEMMA RequestedSound ==
  ASSUME ResourceConstants, HonestHttp, IInv,
         NEW n \in Nodes, NEW r \in Requests, NEW u \in Urls, NEW asFile \in BOOLEAN,
         Free(r), Requested(n, r, u, asFile)
  PROVE  /\ \A q \in Requests : Sound(q)'
         /\ request' \in [Requests -> RequestInfo] /\ source' \in [Requests -> Source]
         /\ callbacks' \in Seq(Answer)
         /\ request[r] = Deleted
         /\ request' = [request EXCEPT ![r] = [pending |-> TRUE, client |-> n, url |-> u]]
         /\ retained' = [retained EXCEPT ![n] = @ + 1]
<1>0. /\ TypeOK /\ request[r] = Deleted /\ Queued(r) = {} /\ source[r] = NoSource
      /\ DOMAIN request = Requests /\ DOMAIN source = Requests
      /\ callbacks \in Seq(Answer)
  BY TypeFacts DEF IInv, Free, Sound, RequestSound
<1>1. PICK found \in BOOLEAN :
        LET now == IF found /\ u \in Http THEN <<>>
                   ELSE ScheduledAtOnce(r, u, asFile, found)
            kind == IF u \in Http THEN "stream" ELSE "job"
        IN  /\ request' = [request EXCEPT ![r] =
                             [pending |-> TRUE, client |-> n, url |-> u]]
            /\ retained' = [retained EXCEPT ![n] = @ + 1]
            /\ callbacks' = callbacks \o now
            /\ source' = IF now # <<>> THEN source
                         ELSE [source EXCEPT ![r] =
                                 [kind |-> kind, url |-> u, asFile |-> asFile,
                                  sent |-> 0, finished |-> FALSE]]
  BY DEF Requested
<1> DEFINE now == IF found /\ u \in Http THEN <<>>
                  ELSE ScheduledAtOnce(r, u, asFile, found)
           begun == [kind |-> IF u \in Http THEN "stream" ELSE "job", url |-> u,
                     asFile |-> asFile, sent |-> 0, finished |-> FALSE]
<1>2. /\ request' = [request EXCEPT ![r] = [pending |-> TRUE, client |-> n, url |-> u]]
      /\ retained' = [retained EXCEPT ![n] = @ + 1]
      /\ callbacks' = callbacks \o now
      /\ source' = IF now # <<>> THEN source ELSE [source EXCEPT ![r] = begun]
  BY <1>1, Zenon
<1>3. /\ Size[u] \in Nat /\ Announced[u] \in Nat /\ Announced[u] = Size[u]
      /\ u \in Http => Size[u] > 0
  BY DEF ResourceConstants, HonestHttp
<1>4. begun \in Source /\ [pending |-> TRUE, client |-> n, url |-> u] \in RequestInfo
  BY DEF Source, RequestInfo
<1>5. /\ request' \in [Requests -> RequestInfo] /\ source' \in [Requests -> Source]
      /\ request'[r].pending /\ request'[r].url = u
  BY <1>0, <1>2, <1>4 DEF TypeOK
\* What is scheduled ends with the only answer that ends the request.
<1>6. /\ now \in Seq(Answer)
      /\ \A i \in DOMAIN now : now[i].request = r
      /\ now = <<>> => Size[u] > 0
      /\ \A i \in DOMAIN now :
           /\ now[i].kind = "progress" => now[i].at <= Size[u]
           /\ now[i].kind = "failure" \/ (now[i].kind = "progress" /\ now[i].at = Size[u])
                <=> i = Len(now)
  <2>1. CASE found /\ u \in Http
    BY <1>3, <2>1
  <2>2. CASE ~found
    <3>1. now = <<Failure(r)>>
      BY <2>2 DEF ScheduledAtOnce
    <3> HIDE DEF now
    <3> QED
      BY <3>1 DEF Failure, Answer
  <2>3. CASE found /\ u \notin Http /\ asFile
    <3>1. now = <<File(r), Progress(r, Size[u])>>
      BY <2>3 DEF ScheduledAtOnce
    <3> HIDE DEF now
    <3>2. File(r) \in Answer /\ Progress(r, Size[u]) \in Answer
      BY <1>3 DEF File, Progress, Answer
    <3>3. /\ Len(now) = 2 /\ DOMAIN now = 1..2
          /\ now[1] = File(r) /\ now[2] = Progress(r, Size[u])
      BY <3>1
    <3> QED
      BY <1>3, <3>1, <3>2, <3>3 DEF File, Progress
  <2>4. CASE found /\ u \notin Http /\ ~asFile /\ Size[u] = 0
    <3>1. now = <<Progress(r, 0)>>
      BY <2>4 DEF ScheduledAtOnce
    <3> HIDE DEF now
    <3> QED
      BY <3>1, <2>4 DEF Progress, Answer
  <2>5. CASE found /\ u \notin Http /\ ~asFile /\ Size[u] # 0
    <3>1. now = <<>>
      BY <2>5 DEF ScheduledAtOnce
    <3> HIDE DEF now
    <3> QED
      BY <1>3, <3>1, <2>5
  <2> QED
    BY <2>1, <2>2, <2>3, <2>4, <2>5
<1> HIDE DEF now
<1>7. /\ callbacks' \in Seq(Answer)
      /\ Len(callbacks) \in Nat /\ Len(now) \in Nat
      /\ \A i \in 1..Len(callbacks) : callbacks'[i] = callbacks[i]
      /\ \A i \in 1..Len(now) : callbacks'[Len(callbacks) + i] = now[i]
      /\ \A q \in Requests \ {r} : Queued(q)' = Queued(q)
      /\ Queued(r)' = (Len(callbacks) + 1)..(Len(callbacks) + Len(now))
  <2>1. callbacks' = callbacks \o now
    BY <1>2
  <2>2. Queued(r)' = Queued(r) \union (Len(callbacks) + 1)..(Len(callbacks) + Len(now))
    BY <1>0, <1>6, <2>1, Enqueued
  <2> QED
    BY <1>0, <1>6, <2>1, <2>2, Enqueued
<1>8. ASSUME NEW q \in Requests \ {r}
      PROVE  Sound(q)'
  <2>1. \A i \in Queued(q) : callbacks'[i] = callbacks[i]
    BY <1>0, <1>7, QueuedFacts
  <2>2. source'[q] = source[q] /\ request'[q] = request[q]
    BY <1>0, <1>2
  <2> QED
    BY <1>7, <2>1, <2>2, SoundKept DEF IInv
<1>9. Sound(r)'
  <2>1. RequestSound(r)'
    BY <1>5 DEF RequestSound
  <2>2. CASE now # <<>>
    <3>1. source'[r] = NoSource /\ Len(now) > 0
      BY <1>0, <1>2, <1>6, <2>2
    <3>2. ASSUME NEW i \in Queued(r)'
          PROVE  /\ callbacks'[i].kind = "progress" => callbacks'[i].at <= Announced[u]
                 /\ Ends(r, callbacks[i])' <=> \A j \in Queued(r)' : j <= i
      <4>1. i - Len(callbacks) \in 1..Len(now) /\ i = Len(callbacks) + (i - Len(callbacks))
        BY <1>7
      <4>2. callbacks'[i] = now[i - Len(callbacks)]
        BY <1>7, <4>1
      <4>3. Ends(r, callbacks[i])' <=> i - Len(callbacks) = Len(now)
        BY <1>3, <1>5, <1>6, <4>1, <4>2 DEF Ends
      <4>4. i - Len(callbacks) = Len(now) <=> \A j \in Queued(r)' : j <= i
        <5>1. Len(callbacks) + Len(now) \in Queued(r)'
          BY <1>7, <3>1
        <5>2. \A j \in Queued(r)' : j \in Int /\ j <= Len(callbacks) + Len(now)
          BY <1>7
        <5>3. i \in Queued(r)' /\ Len(callbacks) \in Int /\ Len(now) \in Int
          BY <1>7, <3>2
        <5>4. i <= Len(callbacks) + Len(now) /\ i \in Int
          BY <5>2, <5>3
        <5>5. ASSUME i - Len(callbacks) = Len(now)
              PROVE  \A j \in Queued(r)' : j <= i
          <6>1. i = Len(callbacks) + Len(now)
            BY <5>3, <5>4, <5>5
          <6> QED
            BY <5>2, <6>1
        <5>6. ASSUME \A j \in Queued(r)' : j <= i
              PROVE  i - Len(callbacks) = Len(now)
          BY <5>1, <5>3, <5>4, <5>6
        <5> QED
          BY <5>5, <5>6
      <4>5. callbacks'[i].kind = "progress" => callbacks'[i].at <= Announced[u]
        BY <1>3, <1>6, <4>1, <4>2
      <4> QED
        BY <4>3, <4>4, <4>5
    <3>3. AnswersSound(r)'
      BY <1>5, <3>1, <3>2 DEF AnswersSound, NoSource
    <3>4. SourceSound(r)'
      <4>1. Len(callbacks) + 1 \in Queued(r)'
        BY <1>7, <3>1
      <4> QED
        BY <3>1, <4>1 DEF SourceSound, NoSource
    <3> QED
      BY <2>1, <3>3, <3>4 DEF Sound
  <2>3. CASE now = <<>>
    <3>1. source'[r] = begun /\ Size[u] > 0
      BY <1>0, <1>2, <1>6, <2>3
    <3>2. Queued(r)' = {}
      BY <1>7, <2>3
    <3>3. AnswersSound(r)'
      BY <3>2 DEF AnswersSound
    <3>4. SourceSound(r)'
      BY <1>3, <1>5, <3>1 DEF SourceSound
    <3> QED
      BY <2>1, <3>3, <3>4 DEF Sound
  <2> QED
    BY <2>2, <2>3
<1> QED
  BY <1>0, <1>2, <1>5, <1>7, <1>8, <1>9

LEMMA EvaluateLoadInvariant ==
  ASSUME ResourceConstants, HonestHttp, IInv,
         NEW n \in Nodes, NEW r \in Requests, EvaluateLoad(n, r)
  PROVE  IInv'
<1> DEFINE e == Emptied(node[n], r)
           new == [e EXCEPT !.inProgress = TRUE]
<1>0. /\ TypeOK /\ HeardSound /\ RetainedByRequests /\ DOMAIN node = Nodes
      /\ node[n] \in NodeState /\ NoNode \notin Nodes /\ NoRequest \notin Requests
      /\ \A m \in Nodes : node[m] \in NodeState
  BY TypeFacts DEF IInv, ResourceConstants
<1>1. /\ node[n].exists /\ node[n].url # NoUrl /\ Free(r)
      /\ node' = [node EXCEPT ![n] = new]
      /\ Requested(n, r, node[n].url, node[n].store.asFile)
  BY DEF EvaluateLoad, MustLoad
<1>2. node[n].url \in Urls /\ node[n].store.asFile \in BOOLEAN
  BY <1>0, <1>1 DEF NodeState
<1>3. e \in NodeState /\ e.exists /\ e.streamUrl # NoUrl /\ e.latest = r
  BY <1>0, <1>1, EmptiedFacts
<1> HIDE DEF e
<1>4. new \in NodeState /\ new.exists /\ new.streamUrl # NoUrl /\ new.latest = r /\ new.inProgress
  BY <1>3 DEF NodeState
<1> HIDE DEF new
<1>5. /\ \A q \in Requests : Sound(q)'
      /\ request' \in [Requests -> RequestInfo] /\ source' \in [Requests -> Source]
      /\ callbacks' \in Seq(Answer)
      /\ request[r] = Deleted
      /\ request' = [request EXCEPT ![r] =
                       [pending |-> TRUE, client |-> n, url |-> node[n].url]]
      /\ retained' = [retained EXCEPT ![n] = @ + 1]
  BY <1>1, <1>2, RequestedSound
<1>6. RetainedByRequests' /\ retained' \in [Nodes -> Nat]
  BY <1>0, <1>5, RetainedByOneMore
<1>7. TypeOK'
  BY <1>0, <1>1, <1>4, <1>5, <1>6 DEF TypeOK
<1>8. HeardSound'
  <2> SUFFICES ASSUME NEW m \in Nodes
               PROVE  /\ node'[m].latest # NoRequest /\ request'[node'[m].latest].client = m =>
                           node'[m].exists /\ node'[m].streamUrl # NoUrl /\ node'[m].inProgress
                      /\ node'[m].exists /\ node'[m].streamUrl # NoUrl /\ node'[m].inProgress =>
                           node'[m].latest # NoRequest /\ request'[node'[m].latest].client = m
    BY Zenon DEF HeardSound
  <2>1. DOMAIN request = Requests /\ node[m].latest \in Requests \union {NoRequest}
    BY <1>0, TypeFacts DEF NodeState
  <2>2. CASE m = n
    BY <1>0, <1>1, <1>4, <1>5, <2>1, <2>2
  <2>3. CASE m # n
    <3>1. node'[m] = node[m]
      BY <1>0, <1>1, <2>3
    <3>2. \A q \in Requests : request'[q].client = m <=> request[q].client = m
      BY <1>0, <1>5, <2>1, <2>3 DEF Deleted
    <3> QED
      BY <1>0, <2>1, <3>1, <3>2 DEF HeardSound
  <2> QED
    BY <2>2, <2>3
<1> QED
  BY <1>5, <1>6, <1>7, <1>8 DEF IInv

\* The answers more are the next of request r, and the last of them ends it if no
\* job goes on.
MoreAnswers(r, more, s) ==
  /\ more # <<>>
  /\ \A i \in DOMAIN more :
       /\ more[i].request = r
       /\ more[i].kind = "progress" => more[i].at <= Announced[request[r].url]
       /\ Ends(r, more[i]) <=> s.kind = "none" /\ i = Len(more)

\* The job ends, or has sent another number of chunks but not all.
JobLeft(r, s) ==
  \/ s = NoSource
  \/ \E k \in Nat : s = [source[r] EXCEPT !.sent = k] /\ k < Size[source[r].url]

\* A job schedules more answers, and the one that ends its request only when it
\* ends.
LEMMA JobSchedules ==
  ASSUME ResourceConstants, IInv, NEW r \in Requests,
         NEW more \in Seq(Answer), NEW s \in Source,
         source[r].kind = "job",
         MoreAnswers(r, more, s),
         JobLeft(r, s),
         callbacks' = callbacks \o more,
         source' = [source EXCEPT ![r] = s],
         UNCHANGED <<node, request, retained>>
  PROVE  IInv'
<1>0. /\ TypeOK /\ HeardSound /\ RetainedByRequests /\ Sound(r)
      /\ DOMAIN source = Requests /\ callbacks \in Seq(Answer) /\ source[r] \in Source
      /\ \A q \in Requests : Sound(q)
  BY TypeFacts DEF IInv
<1>1. /\ callbacks' \in Seq(Answer)
      /\ Len(callbacks) \in Nat /\ Len(more) \in Nat
      /\ \A i \in 1..Len(callbacks) : callbacks'[i] = callbacks[i]
      /\ \A i \in 1..Len(more) : callbacks'[Len(callbacks) + i] = more[i]
      /\ \A q \in Requests \ {r} : Queued(q)' = Queued(q)
      /\ Queued(r)' = Queued(r) \union (Len(callbacks) + 1)..(Len(callbacks) + Len(more))
      /\ Queued(r) \subseteq 1..Len(callbacks)
  <2>1. \A i \in DOMAIN more : more[i].request = r
    BY DEF MoreAnswers
  <2> QED
    BY <1>0, <2>1, Enqueued
<1>2. Len(more) > 0 /\ DOMAIN more = 1..Len(more)
  BY <1>1 DEF MoreAnswers
<1>3. ASSUME NEW q \in Requests \ {r}
      PROVE  Sound(q)'
  <2>1. \A i \in Queued(q) : callbacks'[i] = callbacks[i]
    BY <1>0, <1>1, QueuedFacts
  <2>2. source'[q] = source[q]
    BY <1>0
  <2> QED
    BY <1>0, <1>1, <2>1, <2>2, SoundKept
<1>4. Sound(r)'
  <2>0. source'[r] = s
    BY <1>0
  <2>1. /\ request[r].pending /\ source[r].url = request[r].url /\ ~source[r].finished
        /\ source[r].url \in Urls \ Http
    BY <1>0 DEF Sound, SourceSound
  <2>2. RequestSound(r)'
    BY <1>0, <2>1 DEF Sound, RequestSound
  <2>3. s.kind \in {"none", "job"}
    BY <1>0 DEF JobLeft, NoSource, Source
  <2>4. Len(callbacks) + Len(more) \in Queued(r)'
    BY <1>1, <1>2
  <2>5. \A j \in Queued(r)' : j \in Int /\ j <= Len(callbacks) + Len(more)
    <3>1. \A j \in Queued(r) : j \in Int /\ j <= Len(callbacks)
      BY <1>1
    <3> QED
      BY <1>1, <3>1
  <2>6. ASSUME NEW i \in Queued(r)'
        PROVE  /\ callbacks'[i].kind = "progress" =>
                    callbacks'[i].at <= Announced[request[r].url]
               /\ Ends(r, callbacks[i])' <=>
                    s.kind = "none" /\ i = Len(callbacks) + Len(more)
    <3>1. CASE i \in Queued(r)
      <4>1. callbacks'[i] = callbacks[i] /\ i \in 1..Len(callbacks)
        BY <1>1, <3>1
      <4>2. i # Len(callbacks) + Len(more)
        BY <1>1, <1>2, <4>1
      <4>3. /\ callbacks[i].kind = "progress" => callbacks[i].at <= Announced[request[r].url]
            /\ ~Ends(r, callbacks[i])
        BY <1>0, <3>1 DEF Sound, AnswersSound
      <4>4. Ends(r, callbacks[i])' <=> Ends(r, callbacks[i])
        BY <4>1 DEF Ends
      <4> QED
        BY <4>1, <4>2, <4>3, <4>4
    <3>2. CASE i \in (Len(callbacks) + 1)..(Len(callbacks) + Len(more))
      <4> DEFINE k == i - Len(callbacks)
      <4>1. k \in 1..Len(more) /\ i = Len(callbacks) + k
        BY <1>1, <3>2
      <4>2. callbacks'[i] = more[k]
        <5> HIDE DEF k
        <5>1. callbacks'[Len(callbacks) + k] = more[k]
          BY <1>1, <4>1
        <5> QED
          BY <4>1, <5>1
      <4>3. k = Len(more) <=> i = Len(callbacks) + Len(more)
        <5>1. Len(callbacks) \in Int /\ Len(more) \in Int /\ i \in Int
          BY <1>1, <4>1
        <5> QED
          BY <5>1
      <4>4. Ends(r, callbacks[i])' <=> Ends(r, more[k])
        BY <4>2 DEF Ends
      <4> HIDE DEF k
      <4>5. /\ more[k].kind = "progress" => more[k].at <= Announced[request[r].url]
            /\ Ends(r, more[k]) <=> s.kind = "none" /\ k = Len(more)
        BY <1>2, <4>1 DEF MoreAnswers
      <4> QED
        BY <4>2, <4>3, <4>4, <4>5
    <3> QED
      BY <1>1, <2>6, <3>1, <3>2
  <2>7. AnswersSound(r)'
    <3> SUFFICES ASSUME NEW i \in Queued(r)'
                 PROVE  /\ s.kind # "stream"
                        /\ callbacks'[i].kind = "progress" =>
                             callbacks'[i].at <= Announced[request[r].url]
                        /\ Ends(r, callbacks[i])' <=>
                             s.kind = "none" /\ \A j \in Queued(r)' : j <= i
      BY <2>0, Zenon DEF AnswersSound
    <3>1. i = Len(callbacks) + Len(more) <=> \A j \in Queued(r)' : j <= i
      <4>1. ASSUME \A j \in Queued(r)' : j <= i
            PROVE  i = Len(callbacks) + Len(more)
        <5> DEFINE e == Len(callbacks) + Len(more)
        <5>1. e \in Int
          BY <1>1
        <5>2. i \in Int /\ i <= e /\ e <= i
          BY <2>4, <2>5, <4>1
        <5> HIDE DEF e
        <5>3. i = e
          BY <5>1, <5>2
        <5> QED
          BY <5>3 DEF e
      <4> QED
        BY <2>5, <4>1
    <3> QED
      BY <2>3, <2>6, <3>1
  <2>8. SourceSound(r)'
    <3>1. CASE s = NoSource
      BY <2>0, <2>4, <3>1 DEF SourceSound, NoSource
    <3>2. CASE s # NoSource
      <4>1. PICK k \in Nat : s = [source[r] EXCEPT !.sent = k] /\ k < Size[source[r].url]
        BY <3>2 DEF JobLeft
      <4>2. /\ s.kind = "job" /\ s.url = source[r].url /\ s.finished = source[r].finished
            /\ s.sent = k
        BY <1>0, <4>1 DEF Source
      <4> QED
        BY <2>0, <2>1, <4>1, <4>2 DEF SourceSound
    <3> QED
      BY <3>1, <3>2
  <2> QED
    BY <2>2, <2>7, <2>8 DEF Sound
<1>5. TypeOK'
  BY <1>0, <1>1 DEF TypeOK
<1>6. HeardSound' /\ RetainedByRequests'
  BY <1>0 DEF HeardSound, RetainedByRequests, RequestsOf
<1> QED
  BY <1>3, <1>4, <1>5, <1>6 DEF IInv

LEMMA JobReadInvariant ==
  ASSUME ResourceConstants, IInv, NEW r \in Requests, JobRead(r)
  PROVE  IInv'
<1> DEFINE k == source[r].sent
           u == source[r].url
           s == IF k + 1 = Size[u] THEN NoSource ELSE [source[r] EXCEPT !.sent = k + 1]
           more == <<Data(r, k), Progress(r, k + 1)>>
<1>0. /\ source[r].kind = "job" /\ source[r] \in Source
      /\ u = request[r].url /\ u \in Urls \ Http /\ k < Size[u] /\ k \in Nat
  BY TypeFacts DEF IInv, Sound, SourceSound, JobRead, Source
<1>1. Size[u] \in Nat /\ Announced[u] = Size[u]
  BY <1>0 DEF ResourceConstants
<1>2. /\ callbacks' = callbacks \o more /\ source' = [source EXCEPT ![r] = s]
      /\ UNCHANGED <<node, request, retained>>
  BY DEF JobRead
<1>3. JobLeft(r, s)
  <2>1. CASE k + 1 = Size[u]
    BY <2>1 DEF JobLeft
  <2>2. CASE k + 1 # Size[u]
    <3>1. k + 1 \in Nat /\ k + 1 < Size[u]
      BY <1>0, <1>1, <2>2
    <3>2. s = [source[r] EXCEPT !.sent = k + 1]
      BY <2>2
    <3> QED
      BY <3>1, <3>2 DEF JobLeft
  <2> QED
    BY <2>1, <2>2
<1>4. s \in Source /\ (s.kind = "none" <=> k + 1 = Size[u])
  BY <1>0 DEF NoSource, Source
<1>5. /\ Data(r, k) \in Answer /\ Progress(r, k + 1) \in Answer
      /\ Data(r, k).request = r /\ Data(r, k).kind = "data"
      /\ Progress(r, k + 1).request = r /\ Progress(r, k + 1).kind = "progress"
      /\ Progress(r, k + 1).at = k + 1
  BY <1>0 DEF Data, Progress, Answer
<1>6. /\ more \in Seq(Answer) /\ more # <<>> /\ Len(more) = 2 /\ DOMAIN more = 1..2
      /\ more[1] = Data(r, k) /\ more[2] = Progress(r, k + 1)
  BY <1>5
<1> HIDE DEF s, more
<1>7. ASSUME NEW i \in DOMAIN more
      PROVE  /\ more[i].request = r
             /\ more[i].kind = "progress" => more[i].at <= Announced[request[r].url]
             /\ Ends(r, more[i]) <=> s.kind = "none" /\ i = Len(more)
  <2>1. CASE i = 1
    BY <1>5, <1>6, <2>1 DEF Ends
  <2>2. CASE i = 2
    BY <1>0, <1>1, <1>4, <1>5, <1>6, <2>2 DEF Ends
  <2> QED
    BY <1>6, <2>1, <2>2
<1>8. MoreAnswers(r, more, s)
  BY <1>6, <1>7 DEF MoreAnswers
<1> QED
  BY <1>0, <1>2, <1>3, <1>4, <1>6, <1>8, JobSchedules

LEMMA JobFailsInvariant ==
  ASSUME ResourceConstants, IInv, NEW r \in Requests, JobFails(r)
  PROVE  IInv'
<1> DEFINE more == <<Failure(r)>>
<1>1. /\ more \in Seq(Answer) /\ more # <<>> /\ Len(more) = 1 /\ DOMAIN more = {1}
      /\ more[1].request = r /\ more[1].kind = "failure"
  BY DEF Failure, Answer
<1>2. callbacks \in Seq(Answer) /\ Failure(r) \in Answer
  BY TypeFacts DEF IInv, Failure, Answer
<1>3. callbacks' = callbacks \o more
  BY <1>2 DEF JobFails
<1>4. NoSource \in Source /\ NoSource.kind = "none"
  BY DEF NoSource, Source
<1>5. /\ source[r].kind = "job" /\ source' = [source EXCEPT ![r] = NoSource]
      /\ UNCHANGED <<node, request, retained>>
  BY DEF JobFails
<1> HIDE DEF more
<1>6. MoreAnswers(r, more, NoSource) /\ JobLeft(r, NoSource)
  BY <1>1, <1>4 DEF MoreAnswers, JobLeft, Ends
<1> QED
  BY <1>1, <1>3, <1>4, <1>5, <1>6, JobSchedules

\* The first of the answers is given: if it ends its request there is no other.
LEMMA RunCallbackInvariant ==
  ASSUME ResourceConstants, IInv, RunCallback
  PROVE  IInv'
<1>a. Head(callbacks) \in Answer /\ Head(callbacks).request \in Requests
  <2>1. callbacks # <<>> /\ callbacks \in Seq(Answer)
    BY TypeFacts DEF IInv, RunCallback
  <2>2. Head(callbacks) \in Answer
    BY <2>1
  <2> QED
    BY <2>2 DEF Answer
<1>b. PICK a \in Answer : a = Head(callbacks)
  BY <1>a
<1>c. PICK r \in Requests : r = a.request
  BY <1>a, <1>b
<1> DEFINE u == request[r].url
<1>0. /\ TypeOK /\ HeardSound /\ RetainedByRequests /\ UNCHANGED source
      /\ callbacks # <<>> /\ callbacks' = Tail(callbacks)
      /\ node' = Told(r, a)
      /\ IF Ends(r, a) THEN Completed(r) ELSE UNCHANGED <<request, retained>>
      /\ DOMAIN node = Nodes /\ DOMAIN request = Requests
      /\ NoNode \notin Nodes /\ NoRequest \notin Requests
  BY <1>b, <1>c, TypeFacts DEF IInv, RunCallback, ResourceConstants
<1>1. /\ callbacks' \in Seq(Answer)
      /\ 1 \in Queued(r) /\ a = callbacks[1] /\ a \in Answer
      /\ \A q \in Requests : \A i \in Queued(q)' :
           /\ i \in Nat /\ i + 1 \in Queued(q)
           /\ callbacks'[i] = callbacks[i + 1]
      /\ \A q \in Requests : \A i \in Queued(q) :
           i # 1 => i \in Nat /\ i - 1 \in Queued(q)'
  BY <1>0, <1>b, <1>c, Dequeued
<1>3. /\ request[r].pending /\ u \in Urls /\ request[r] \in RequestInfo
      /\ source[r].kind # "stream"
      /\ a.kind = "progress" => a.at <= Announced[u]
      /\ Ends(r, a) <=> source[r].kind = "none" /\ \A j \in Queued(r) : j <= 1
  BY <1>0, <1>1, TypeFacts DEF IInv, Sound, RequestSound, AnswersSound
<1> DEFINE new == OnAnswer(node[request[r].client], a, u)
<1>4. node' = IF Heard(r) THEN [node EXCEPT ![request[r].client] = new] ELSE node
  BY <1>0 DEF Told
<1>5. Heard(r) => /\ new \in NodeState
                  /\ SameRequest(new, node[request[r].client])
                  /\ new.inProgress <=> ~Ends(r, a) /\ node[request[r].client].inProgress
  <2> SUFFICES ASSUME Heard(r)
               PROVE  /\ new \in NodeState
                      /\ SameRequest(new, node[request[r].client])
                      /\ new.inProgress <=>
                           ~Ends(r, a) /\ node[request[r].client].inProgress
    OBVIOUS
  <2>1. request[r].client \in Nodes
    BY <1>3 DEF Heard, RequestInfo
  <2>2. node[request[r].client] \in NodeState
    BY <1>0, <2>1, TypeFacts
  <2>3. Ends(r, a) <=> a.kind = "failure" \/ (a.kind = "progress" /\ a.at = Announced[u])
    BY DEF Ends
  <2>4. /\ new \in NodeState /\ SameRequest(new, node[request[r].client])
        /\ new.inProgress <=>
             /\ ~(a.kind = "failure" \/ (a.kind = "progress" /\ a.at = Announced[u]))
             /\ node[request[r].client].inProgress
    BY <1>1, <1>3, <2>2, OnAnswerFacts
  <2> QED
    BY <2>3, <2>4, Zenon
<1> HIDE DEF new
<1>6. /\ node' \in [Nodes -> NodeState] /\ request' \in [Requests -> RequestInfo]
      /\ retained' \in [Nodes -> Nat]
      /\ HeardSound' /\ RetainedByRequests'
  <2>1. Ends(r, a) \in BOOLEAN
    BY DEF Ends
  <2> QED
    BY <1>0, <1>4, <1>5, <2>1, AnswerGiven
<1>7. TypeOK'
  BY <1>0, <1>1, <1>6 DEF TypeOK
\* The other answers move up, and are those of the requests they were.
<1>8. ASSUME NEW q \in Requests, q # r
      PROVE  Sound(q)'
  <2>1. Sound(q) /\ request'[q] = request[q] /\ source'[q] = source[q]
    BY <1>0, <1>8 DEF IInv, Completed
  <2>2. 1 \notin Queued(q)
    BY <1>1, <1>8, <1>c DEF Queued
  <2>3. Queued(q)' = {} <=> Queued(q) = {}
    BY <1>1, <2>2
  <2>4. RequestSound(q)'
    BY <2>1, <2>3 DEF Sound, RequestSound
  <2>5. AnswersSound(q)'
    <3> SUFFICES ASSUME NEW i \in Queued(q)'
                 PROVE  /\ source[q].kind # "stream"
                        /\ callbacks'[i].kind = "progress" =>
                             callbacks'[i].at <= Announced[request[q].url]
                        /\ Ends(q, callbacks[i])' <=>
                             source[q].kind = "none" /\ \A j \in Queued(q)' : j <= i
      BY <2>1, Zenon DEF AnswersSound
    <3>1. i \in Nat /\ i + 1 \in Queued(q) /\ callbacks'[i] = callbacks[i + 1]
      BY <1>1
    <3>2. Ends(q, callbacks[i])' <=> Ends(q, callbacks[i + 1])
      BY <2>1, <3>1 DEF Ends
    <3>3. (\A j \in Queued(q)' : j <= i) <=> (\A j \in Queued(q) : j <= i + 1)
      <4>1. ASSUME \A j \in Queued(q)' : j <= i, NEW j \in Queued(q)
            PROVE  j <= i + 1
        <5>1. j \in Nat /\ j - 1 \in Queued(q)'
          BY <1>1, <2>2
        <5>2. j - 1 <= i
          BY <4>1, <5>1
        <5> QED
          BY <3>1, <5>1, <5>2
      <4>2. ASSUME \A j \in Queued(q) : j <= i + 1, NEW j \in Queued(q)'
            PROVE  j <= i
        <5>1. j \in Nat /\ j + 1 <= i + 1
          BY <1>1, <4>2
        <5> QED
          BY <3>1, <5>1
      <4> QED
        BY <4>1, <4>2
    <3>4. /\ source[q].kind # "stream"
          /\ callbacks[i + 1].kind = "progress" =>
               callbacks[i + 1].at <= Announced[request[q].url]
          /\ Ends(q, callbacks[i + 1]) <=>
               source[q].kind = "none" /\ \A j \in Queued(q) : j <= i + 1
      BY <2>1, <3>1 DEF Sound, AnswersSound
    <3> QED
      BY <3>1, <3>2, <3>3, <3>4
  <2>6. SourceSound(q)'
    BY <2>1, <2>3 DEF Sound, SourceSound
  <2> QED
    BY <2>4, <2>5, <2>6 DEF Sound
<1>9. Sound(r)'
  <2>1. Sound(r) /\ source'[r] = source[r]
    BY <1>0 DEF IInv
  <2>2. CASE Ends(r, a)
    <3>1. request'[r] = Deleted /\ source[r].kind = "none"
      BY <1>0, <1>3, <2>2 DEF Completed
    <3>2. Queued(r)' = {}
      <4> SUFFICES ASSUME NEW i \in Queued(r)'
                   PROVE  FALSE
        OBVIOUS
      <4>1. i \in Nat /\ i + 1 \in Queued(r)
        BY <1>1
      <4>2. i + 1 <= 1
        BY <1>3, <2>2, <4>1
      <4>3. i \in 1..Len(callbacks')
        BY <1>1 DEF Queued
      <4> QED
        BY <4>1, <4>2, <4>3
    <3> QED
      BY <2>1, <3>1, <3>2 DEF Sound, RequestSound, AnswersSound, SourceSound, Deleted
  <2>3. CASE ~Ends(r, a)
    <3>1. request'[r] = request[r]
      BY <1>0, <2>3
    <3>2. RequestSound(r)'
      BY <1>3, <3>1 DEF RequestSound
    <3>3. AnswersSound(r)'
      <4> SUFFICES ASSUME NEW i \in Queued(r)'
                   PROVE  /\ source[r].kind # "stream"
                          /\ callbacks'[i].kind = "progress" =>
                               callbacks'[i].at <= Announced[request[r].url]
                          /\ Ends(r, callbacks[i])' <=>
                               source[r].kind = "none" /\ \A j \in Queued(r)' : j <= i
        BY <2>1, <3>1, Zenon DEF AnswersSound
      <4>1. i \in Nat /\ i + 1 \in Queued(r) /\ callbacks'[i] = callbacks[i + 1]
        BY <1>1
      <4>2. Ends(r, callbacks[i])' <=> Ends(r, callbacks[i + 1])
        BY <3>1, <4>1 DEF Ends
      <4>3. (\A j \in Queued(r)' : j <= i) <=> (\A j \in Queued(r) : j <= i + 1)
        <5>1. ASSUME \A j \in Queued(r)' : j <= i, NEW j \in Queued(r)
              PROVE  j <= i + 1
          <6>1. CASE j = 1
            BY <4>1, <6>1
          <6>2. CASE j # 1
            <7>1. j \in Nat /\ j - 1 \in Queued(r)'
              BY <1>1, <6>2
            <7>2. j - 1 <= i
              BY <5>1, <7>1
            <7> QED
              BY <4>1, <7>1, <7>2
          <6> QED
            BY <6>1, <6>2
        <5>2. ASSUME \A j \in Queued(r) : j <= i + 1, NEW j \in Queued(r)'
              PROVE  j <= i
          <6>1. j \in Nat /\ j + 1 <= i + 1
            BY <1>1, <5>2
          <6> QED
            BY <4>1, <6>1
        <5> QED
          BY <5>1, <5>2
      <4>4. /\ source[r].kind # "stream"
            /\ callbacks[i + 1].kind = "progress" =>
                 callbacks[i + 1].at <= Announced[request[r].url]
            /\ Ends(r, callbacks[i + 1]) <=>
                 source[r].kind = "none" /\ \A j \in Queued(r) : j <= i + 1
        BY <2>1, <4>1 DEF Sound, AnswersSound
      <4> QED
        BY <4>1, <4>2, <4>3, <4>4
    <3>4. source[r].kind = "none" => Queued(r)' # {}
      <4> SUFFICES ASSUME source[r].kind = "none"
                   PROVE  Queued(r)' # {}
        OBVIOUS
      <4>1. PICK j \in Queued(r) : ~(j <= 1)
        BY <1>3, <2>3
      <4>2. j # 1
        BY <4>1
      <4> QED
        BY <1>1, <4>2
    <3>5. SourceSound(r)'
      BY <2>1, <3>1, <3>4 DEF Sound, SourceSound
    <3> QED
      BY <3>2, <3>3, <3>5 DEF Sound
  <2> QED
    BY <2>2, <2>3
<1> QED
  BY <1>6, <1>7, <1>8, <1>9 DEF IInv

\* A stream's answers are given as they come.
LEMMA StreamGives ==
  ASSUME ResourceConstants, IInv, NEW r \in Requests, NEW new, NEW ended \in BOOLEAN,
         NEW s \in Source,
         source[r].kind = "stream", ended => ~source[r].finished,
         node' = IF Heard(r) THEN [node EXCEPT ![request[r].client] = new] ELSE node,
         Heard(r) => /\ new \in NodeState
                     /\ SameRequest(new, node[request[r].client])
                     /\ new.inProgress <=> ~ended /\ node[request[r].client].inProgress,
         IF ended THEN Completed(r) ELSE UNCHANGED <<request, retained>>,
         source' = [source EXCEPT ![r] = s],
         UNCHANGED callbacks,
         \/ s = NoSource /\ (source[r].finished \/ ended)
         \/ /\ s.kind = "stream" /\ s.url = source[r].url
            /\ s.sent <= Size[s.url]
            /\ s.finished <=> source[r].finished \/ ended
            /\ s.finished => s.sent = Size[s.url]
            /\ s.sent = Size[s.url] => s.finished \/ s.asFile
  PROVE  IInv'
<1>0. /\ TypeOK /\ HeardSound /\ RetainedByRequests /\ Sound(r)
      /\ DOMAIN source = Requests /\ DOMAIN request = Requests /\ callbacks \in Seq(Answer)
      /\ \A q \in Requests : Sound(q)
  BY TypeFacts DEF IInv
<1>1. /\ node' \in [Nodes -> NodeState] /\ request' \in [Requests -> RequestInfo]
      /\ retained' \in [Nodes -> Nat]
      /\ HeardSound' /\ RetainedByRequests'
  BY <1>0, AnswerGiven
<1>2. TypeOK'
  BY <1>0, <1>1 DEF TypeOK
<1>3. ASSUME NEW q \in Requests, q # r
      PROVE  Sound(q)'
  <2>1. request'[q] = request[q] /\ source'[q] = source[q]
    BY <1>0, <1>3 DEF Completed
  <2>2. Queued(q)' = Queued(q)
    BY DEF Queued
  <2> QED
    BY <1>0, <2>1, <2>2, SoundKept
<1>4. Sound(r)'
  <2>1. source'[r] = s
    BY <1>0
  <2>2. Queued(r) = {} /\ Queued(r)' = {}
    <3>1. Queued(r) = {}
      BY <1>0 DEF Sound, AnswersSound
    <3> QED
      BY <3>1 DEF Queued
  <2>3. IF ended THEN request'[r] = Deleted ELSE request'[r] = request[r]
    BY <1>0 DEF Completed
  <2>4. /\ source[r].url \in Http /\ (request[r].pending <=> ~source[r].finished)
        /\ request[r].pending => source[r].url = request[r].url
    BY <1>0 DEF Sound, SourceSound
  <2>5. ~Deleted.pending
    BY DEF Deleted
  <2>6. RequestSound(r)'
    <3>1. RequestSound(r)
      BY <1>0 DEF Sound
    <3>2. CASE ended
      BY <2>2, <2>3, <2>5, <3>2 DEF RequestSound
    <3>3. CASE ~ended
      BY <2>2, <2>3, <3>1, <3>3 DEF RequestSound
    <3> QED
      BY <3>2, <3>3
  <2>7. AnswersSound(r)'
    BY <2>2 DEF AnswersSound
  <2>8. SourceSound(r)'
    <3>1. CASE s = NoSource /\ (source[r].finished \/ ended)
      <4>1. ~request'[r].pending
        BY <2>3, <2>4, <2>5, <3>1
      <4> QED
        BY <2>1, <3>1, <4>1 DEF SourceSound, NoSource
    <3>2. CASE /\ s.kind = "stream" /\ s.url = source[r].url
               /\ s.sent <= Size[s.url]
               /\ s.finished <=> source[r].finished \/ ended
               /\ s.finished => s.sent = Size[s.url]
               /\ s.sent = Size[s.url] => s.finished \/ s.asFile
      <4>1. request'[r].pending <=> ~s.finished
        BY <2>3, <2>4, <2>5, <3>2
      <4>2. request'[r].pending => s.url = request'[r].url
        BY <2>3, <2>4, <2>5, <3>2
      <4> QED
        BY <2>1, <2>4, <3>2, <4>1, <4>2 DEF SourceSound
    <3> QED
      BY <3>1, <3>2
  <2> QED
    BY <2>6, <2>7, <2>8 DEF Sound
<1> QED
  BY <1>1, <1>2, <1>3, <1>4 DEF IInv

\* What is known of a stream and of the client that hears it.
LEMMA StreamFacts ==
  ASSUME ResourceConstants, HonestHttp, IInv, NEW r \in Requests,
         source[r].kind = "stream"
  PROVE  /\ source[r] \in Source /\ source[r].sent \in Nat
         /\ source[r].url \in Urls
         /\ Size[source[r].url] \in Nat /\ Announced[source[r].url] = Size[source[r].url]
         /\ source[r].sent <= Size[source[r].url]
         /\ source[r].finished => source[r].sent = Size[source[r].url]
         /\ request[r].pending <=> ~source[r].finished
         /\ request[r].pending => request[r].url = source[r].url
         /\ Heard(r) => node[request[r].client] \in NodeState
<1>1. source[r] \in Source /\ request[r] \in RequestInfo
  BY TypeFacts DEF IInv
<1>2. source[r].url \in Http /\ SourceSound(r)
  BY DEF IInv, Sound, SourceSound
<1>3. Heard(r) => node[request[r].client] \in NodeState
  BY <1>1, TypeFacts DEF IInv, Heard, RequestInfo
<1> QED
  BY <1>1, <1>2, <1>3 DEF ResourceConstants, HonestHttp, Source, SourceSound

LEMMA StreamWriteInvariant ==
  ASSUME ResourceConstants, HonestHttp, IInv, NEW r \in Requests, StreamWrite(r)
  PROVE  IInv'
<1>0. /\ source[r].kind = "stream" /\ source[r].sent < Size[source[r].url]
      /\ UNCHANGED callbacks
  BY DEF StreamWrite
<1>1. PICK u \in Urls : u = source[r].url
  BY <1>0, StreamFacts
<1>2. PICK k \in Nat : k = source[r].sent
  BY <1>0, StreamFacts
<1> DEFINE c == node[request[r].client]
           tells == ~source[r].asFile \/ k + 1 # Announced[u]
           ended == tells /\ k + 1 = Announced[u]
           data == IF source[r].asFile THEN c ELSE OnData(c, k, u)
           new == IF tells THEN OnProgress(data, k + 1, Announced[u]) ELSE data
           s == [source[r] EXCEPT !.sent = k + 1, !.finished = ended]
<1>3. /\ source[r] \in Source /\ Size[u] \in Nat /\ Announced[u] = Size[u] /\ k < Size[u]
      /\ ~source[r].finished
  BY <1>0, <1>1, <1>2, StreamFacts
<1>4. /\ node' = IF Heard(r) THEN [node EXCEPT ![request[r].client] = new] ELSE node
      /\ IF ended THEN Completed(r) ELSE UNCHANGED <<request, retained>>
  BY <1>1, <1>2, <1>3 DEF StreamWrite
<1>5. source' = [source EXCEPT ![r] = s]
  BY <1>1, <1>2, <1>3 DEF StreamWrite, Source
<1>6. Heard(r) => /\ new \in NodeState /\ SameRequest(new, c)
                  /\ new.inProgress <=> ~ended /\ c.inProgress
  <2> SUFFICES ASSUME Heard(r)
               PROVE  /\ new \in NodeState /\ SameRequest(new, c)
                      /\ new.inProgress <=> ~ended /\ c.inProgress
    OBVIOUS
  <2>1. c \in NodeState
    BY <1>0, StreamFacts
  <2>2. data \in NodeState /\ SameRequest(data, c) /\ data.inProgress = c.inProgress
    BY <2>1, OnDataFacts DEF SameRequest
  <2> HIDE DEF c, data
  <2>3. CASE tells
    <3>1. /\ OnProgress(data, k + 1, Announced[u]) \in NodeState
          /\ SameRequest(OnProgress(data, k + 1, Announced[u]), data)
          /\ OnProgress(data, k + 1, Announced[u]).inProgress <=>
               k + 1 < Announced[u] /\ data.inProgress
      <4>1. k + 1 \in Nat /\ Announced[u] \in Nat
        BY <1>3
      <4> QED
        BY <2>2, <4>1, OnProgressFacts
    <3>2. k + 1 < Announced[u] <=> ~ended
      BY <1>3, <2>3
    <3>3. new = OnProgress(data, k + 1, Announced[u])
      BY <2>3
    <3> QED
      BY <2>2, <3>1, <3>2, <3>3 DEF SameRequest
  <2>4. CASE ~tells
    BY <2>2, <2>4
  <2> QED
    BY <2>3, <2>4
<1> HIDE DEF new
<1>7. /\ s \in Source /\ s.kind = "stream" /\ s.url = source[r].url
      /\ s.sent = k + 1 /\ (s.finished <=> ended) /\ s.asFile = source[r].asFile
  <2>1. ended \in BOOLEAN /\ k + 1 \in Nat
    OBVIOUS
  <2> HIDE DEF ended
  <2> QED
    BY <1>0, <1>3, <2>1 DEF Source
<1>8. /\ s.sent <= Size[s.url]
      /\ s.finished => s.sent = Size[s.url]
      /\ s.sent = Size[s.url] => s.finished \/ s.asFile
  BY <1>1, <1>3, <1>7
<1>9. ended \in BOOLEAN
  OBVIOUS
<1> HIDE DEF s, ended, c
<1> QED
  BY <1>0, <1>3, <1>4, <1>5, <1>6, <1>7, <1>8, <1>9, StreamGives DEF c

LEMMA StreamAsFileInvariant ==
  ASSUME ResourceConstants, HonestHttp, IInv, NEW r \in Requests, StreamAsFile(r)
  PROVE  IInv'
<1>0. /\ source[r].kind = "stream" /\ source[r].sent = Size[source[r].url]
      /\ ~source[r].finished /\ UNCHANGED callbacks /\ Completed(r)
      /\ source' = [source EXCEPT ![r].finished = TRUE]
  BY DEF StreamAsFile
<1>1. PICK u \in Urls : u = source[r].url
  BY <1>0, StreamFacts
<1> DEFINE c == node[request[r].client]
           new == OnProgress(OnFile(c, u), Announced[u], Announced[u])
           s == [source[r] EXCEPT !.finished = TRUE]
<1>2. node' = IF Heard(r) THEN [node EXCEPT ![request[r].client] = new] ELSE node
  BY <1>1 DEF StreamAsFile
<1>3. /\ source[r] \in Source /\ Announced[u] \in Nat /\ Announced[u] = Size[u]
      /\ source[r].sent = Size[u]
  BY <1>0, <1>1, StreamFacts
<1>4. Heard(r) => /\ new \in NodeState /\ SameRequest(new, c)
                  /\ new.inProgress <=> ~TRUE /\ c.inProgress
  <2> SUFFICES ASSUME Heard(r)
               PROVE  new \in NodeState /\ SameRequest(new, c) /\ ~new.inProgress
    OBVIOUS
  <2>1. c \in NodeState
    BY <1>0, StreamFacts
  <2> DEFINE f == OnFile(c, u)
  <2>2. f \in NodeState /\ SameRequest(f, c)
    BY <2>1, OnFileFacts
  <2> HIDE DEF f
  <2>3. /\ OnProgress(f, Announced[u], Announced[u]) \in NodeState
        /\ SameRequest(OnProgress(f, Announced[u], Announced[u]), f)
        /\ OnProgress(f, Announced[u], Announced[u]).inProgress <=>
             Announced[u] < Announced[u] /\ f.inProgress
    BY <1>3, <2>2, OnProgressFacts
  <2>4. ~(Announced[u] < Announced[u])
    BY <1>3
  <2>5. new = OnProgress(f, Announced[u], Announced[u])
    BY DEF f
  <2> QED
    BY <2>2, <2>3, <2>4, <2>5 DEF SameRequest
<1>5. source' = [source EXCEPT ![r] = s]
  BY <1>0, <1>3 DEF Source
<1>6. /\ s \in Source /\ s.kind = "stream" /\ s.url = source[r].url
      /\ s.sent = Size[u] /\ s.finished
  BY <1>0, <1>3 DEF Source
<1>7. /\ s.sent <= Size[s.url]
      /\ s.finished => s.sent = Size[s.url]
      /\ s.sent = Size[s.url] => s.finished \/ s.asFile
      /\ s.finished <=> source[r].finished \/ TRUE
  BY <1>1, <1>3, <1>6
<1> HIDE DEF new, s
<1> QED
  BY <1>0, <1>2, <1>4, <1>5, <1>6, <1>7, StreamGives

LEMMA StreamEnds ==
  ASSUME ResourceConstants, HonestHttp, IInv, NEW r \in Requests,
         source[r].kind = "stream", source[r].finished,
         source' = [source EXCEPT ![r] = NoSource],
         UNCHANGED <<node, request, retained, callbacks>>
  PROVE  IInv'
<1>1. node' = IF Heard(r) THEN [node EXCEPT ![request[r].client] = node[request[r].client]]
                          ELSE node
  <2>1. node = [n \in Nodes |-> node[n]]
    BY DEF IInv, TypeOK
  <2> QED
    BY <2>1
<1>2. Heard(r) => node[request[r].client] \in NodeState
  BY StreamFacts
<1>3. Heard(r) => SameRequest(node[request[r].client], node[request[r].client])
  BY DEF SameRequest
<1>4. NoSource \in Source
  BY DEF NoSource, Source
<1> DEFINE new == node[request[r].client]
<1>5. Heard(r) => /\ new \in NodeState /\ SameRequest(new, node[request[r].client])
                  /\ new.inProgress <=> ~FALSE /\ node[request[r].client].inProgress
  BY <1>2, <1>3 DEF NodeState
<1>6. node' = IF Heard(r) THEN [node EXCEPT ![request[r].client] = new] ELSE node
  BY <1>1
<1> HIDE DEF new
<1> QED
  BY <1>4, <1>5, <1>6, StreamGives

LEMMA StreamDoneInvariant ==
  ASSUME ResourceConstants, HonestHttp, IInv, NEW r \in Requests, StreamDone(r)
  PROVE  IInv'
<1>1. source[r].kind = "stream" /\ source[r].sent = Size[source[r].url]
  BY DEF StreamDone
<1>2. source[r].finished
  BY <1>1 DEF StreamDone, IInv, Sound, SourceSound
<1> QED
  BY <1>1, <1>2, StreamEnds DEF StreamDone

LEMMA StreamBreaksInvariant ==
  ASSUME ResourceConstants, HonestHttp, IInv, NEW r \in Requests, StreamBreaks(r)
  PROVE  IInv'
<1>0. /\ source[r].kind = "stream" /\ source' = [source EXCEPT ![r] = NoSource]
      /\ UNCHANGED callbacks
  BY DEF StreamBreaks
<1>1. CASE source[r].finished
  BY <1>0, <1>1, StreamEnds DEF StreamBreaks
<1>2. CASE ~source[r].finished
  <2> DEFINE new == OnAnswer(node[request[r].client], Failure(r), request[r].url)
  <2>1. /\ node' = IF Heard(r) THEN [node EXCEPT ![request[r].client] = new] ELSE node
        /\ Completed(r)
    BY <1>2 DEF StreamBreaks, Told
  <2>2. Heard(r) => /\ new \in NodeState
                    /\ SameRequest(new, node[request[r].client])
                    /\ new.inProgress <=> ~TRUE /\ node[request[r].client].inProgress
    <3>1. new = OnFailure(node[request[r].client])
      BY DEF OnAnswer, Failure
    <3>2. Heard(r) => node[request[r].client] \in NodeState
      BY <1>0, StreamFacts
    <3> QED
      BY <3>1, <3>2, OnFailureFacts
  <2>3. NoSource \in Source
    BY DEF NoSource, Source
  <2> HIDE DEF new
  <2> QED
    BY <1>0, <1>2, <2>1, <2>2, <2>3, StreamGives
<1> QED
  BY <1>1, <1>2
-----------------------------------------------------------------------------
LEMMA NextInvariant ==
  ASSUME ResourceConstants, HonestHttp, IInv, [Next]_vars
  PROVE  IInv'
<1>1. ASSUME NEW n \in Nodes, Command(n)
      PROVE  IInv'
  <2>1. CASE Create(n)
    BY <2>1, CreateInvariant
  <2>2. CASE Destroy(n)
    BY <2>2, DestroyInvariant
  <2>3. CASE \E u \in Urls \union {NoUrl} : SetUrl(n, u)
    BY <2>3, SetUrlInvariant
  <2>4. CASE \E s \in Stores : SetStore(n, s)
    BY <2>4, SetStoreInvariant
  <2>5. CASE EvaluateSettled(n)
    BY <2>5, EvaluateSettledInvariant
  <2>6. CASE EvaluateKept(n)
    BY <2>6, EvaluateKeptInvariant
  <2>7. CASE \E r \in Requests : EvaluateLoad(n, r)
    BY <2>7, EvaluateLoadInvariant
  <2>8. CASE EvaluateEmpty(n)
    BY <2>8, EvaluateEmptyInvariant
  <2> QED
    BY <1>1, <2>1, <2>2, <2>3, <2>4, <2>5, <2>6, <2>7, <2>8 DEF Command
<1>2. ASSUME NEW r \in Requests, Job(r)
      PROVE  IInv'
  BY <1>2, JobReadInvariant, JobFailsInvariant DEF Job
<1>3. ASSUME NEW r \in Requests, Stream(r)
      PROVE  IInv'
  BY <1>3, StreamWriteInvariant, StreamAsFileInvariant, StreamDoneInvariant,
     StreamBreaksInvariant DEF Stream
<1>4. CASE RunCallback
  BY <1>4, RunCallbackInvariant
<1>5. CASE UNCHANGED vars
  <2>1. UNCHANGED <<node, request, retained, source, callbacks>>
    BY <1>5 DEF vars
  <2>2. TypeOK' /\ HeardSound' /\ RetainedByRequests'
    BY <2>1 DEF IInv, TypeOK, HeardSound, RetainedByRequests, RequestsOf
  <2> QED
    BY <2>1, <2>2, AllSoundKept DEF IInv
<1> QED
  BY <1>1, <1>2, <1>3, <1>4, <1>5 DEF Next

\* The inductive invariant, from which the others follow.
THEOREM Invariance ==
  ASSUME HonestHttp
  PROVE  Spec => []IInv
<1>1. Init => IInv
  BY ResourceConstants, InitInvariant
<1>2. IInv /\ [Next]_vars => IInv'
  BY ResourceConstants, NextInvariant
<1> QED
  BY <1>1, <1>2, PTL DEF Spec

THEOREM TypeCorrect ==
  ASSUME HonestHttp
  PROVE  Spec => []TypeOK
<1>1. IInv => TypeOK
  BY DEF IInv
<1> QED
  BY <1>1, Invariance, PTL

\* A request is pending exactly while something is still to be said about it.  This
\* and WaitsForItsRequest are about resources of a known length only: the stream of
\* an unknown one breaks them, and nothing in the code keeps it away.
LEMMA NoAnswerDangles ==
  ASSUME HonestHttp
  PROVE  Spec => []NothingDangles
<1>1. IInv => NothingDangles
  <2> SUFFICES ASSUME IInv, NEW r \in Requests
               PROVE  request[r].pending <=>
                        \/ \E i \in DOMAIN callbacks : callbacks[i].request = r
                        \/ source[r].kind # "none" /\ ~source[r].finished
    BY DEF NothingDangles
  <2>1. Sound(r) /\ source[r] \in Source /\ request[r] \in RequestInfo
    BY TypeFacts DEF IInv
  <2>2. (\E i \in DOMAIN callbacks : callbacks[i].request = r) <=> Queued(r) # {}
    BY DEF Queued
  <2>3. ~request[r].pending => Queued(r) = {}
    BY <2>1 DEF Sound, RequestSound
  <2>4. source[r].kind \in {"none", "job", "stream"}
    BY <2>1 DEF Source
  <2>5. CASE source[r].kind = "none"
    BY <2>1, <2>2, <2>3, <2>5 DEF Sound, SourceSound
  <2>6. CASE source[r].kind = "job"
    BY <2>1, <2>6 DEF Sound, SourceSound
  <2>7. CASE source[r].kind = "stream"
    <3>1. Queued(r) = {}
      BY <2>1, <2>7 DEF Sound, AnswersSound
    <3> QED
      BY <2>1, <2>2, <2>7, <3>1 DEF Sound, SourceSound
  <2> QED
    BY <2>4, <2>5, <2>6, <2>7
<1> QED
  BY <1>1, Invariance, PTL

\* Each node is retained once for each of its pending requests: the count never
\* goes below zero, and a node without requests is not kept.
THEOREM RetainedExactly ==
  ASSUME HonestHttp
  PROVE  Spec => []RetainedByRequests
<1>1. IInv => RetainedByRequests
  BY DEF IInv
<1> QED
  BY <1>1, Invariance, PTL

\* A node waits exactly while its latest request is pending, of a known length.
LEMMA WaitsForItsRequest ==
  ASSUME HonestHttp
  PROVE  Spec => []InProgressIsPending
<1>1. IInv => InProgressIsPending
  <2> SUFFICES ASSUME IInv, NEW n \in Nodes, node[n].exists, node[n].streamUrl # NoUrl
               PROVE  node[n].inProgress <=>
                        /\ node[n].latest # NoRequest
                        /\ request[node[n].latest].client = n
    BY DEF InProgressIsPending
  <2>1. node[n].inProgress \in BOOLEAN
    BY TypeFacts DEF IInv, NodeState
  <2> QED
    BY <2>1 DEF IInv, HeardSound
<1> QED
  BY <1>1, Invariance, PTL

\* Only a node that is there hears an answer.
LEMMA HeardExists ==
  ASSUME ResourceConstants, IInv, NEW r \in Requests, Heard(r)
  PROVE  /\ request[r].client \in Nodes
         /\ node[request[r].client].exists
<1>1. request[r].client \in Nodes
  BY TypeFacts DEF IInv, Heard, RequestInfo
<1>2. NoRequest \notin Requests /\ node[request[r].client].latest = r
  BY DEF ResourceConstants, Heard
<1> QED
  BY <1>1, <1>2 DEF IInv, HeardSound

\* Another node than the one an action names does not change.
LEMMA AnswerLeaves ==
  ASSUME ResourceConstants, IInv, NEW r \in Requests, NEW new, NEW n \in Nodes,
         ~node[n].exists,
         node' = IF Heard(r) THEN [node EXCEPT ![request[r].client] = new] ELSE node
  PROVE  node'[n] = node[n]
<1>1. DOMAIN node = Nodes
  BY TypeFacts DEF IInv
<1>2. Heard(r) => request[r].client # n
  BY HeardExists
<1> QED
  BY <1>1, <1>2

\* No answer, whenever it comes, changes a node that has been destroyed.
THEOREM DestroyedUntouched ==
  ASSUME HonestHttp
  PROVE  Spec => DestroyedIsLeftAlone
<1>1. ASSUME IInv, [Next]_vars
      PROVE  [\A n \in Nodes : ~node[n].exists => node'[n] = node[n] \/ node'[n] = NewNode]_vars
  <2> SUFFICES ASSUME NEW n \in Nodes, ~node[n].exists, Next
               PROVE  node'[n] = node[n] \/ node'[n] = NewNode
    BY <1>1 DEF vars
  <2>0. IInv /\ ResourceConstants /\ DOMAIN node = Nodes
    BY <1>1, ResourceConstants, TypeFacts DEF IInv
  <2>1. ASSUME NEW m \in Nodes, Command(m)
        PROVE  node'[n] = node[n] \/ node'[n] = NewNode
    <3>1. CASE Create(m)
      BY <2>0, <3>1 DEF Create
    <3>2. CASE ~Create(m)
      <4>1. \E new : node[m].exists /\ node' = [node EXCEPT ![m] = new]
        BY <2>1, <3>2, Zenon
           DEF Command, Destroy, SetUrl, SetStore, EvaluateSettled, EvaluateKept,
               EvaluateLoad, EvaluateEmpty, MustLoad
      <4> QED
        BY <2>0, <4>1
    <3> QED
      BY <3>1, <3>2
  <2>2. ASSUME NEW r \in Requests, Job(r)
        PROVE  node'[n] = node[n]
    BY <2>2 DEF Job, JobRead, JobFails
  <2>3. ASSUME NEW r \in Requests, Stream(r)
        PROVE  node'[n] = node[n]
    <3>1. \E new : node' = IF Heard(r) THEN [node EXCEPT ![request[r].client] = new] ELSE node
      <4>1. CASE node' = node
        <5>1. node' = IF Heard(r)
                      THEN [node EXCEPT ![request[r].client] = node[request[r].client]]
                      ELSE node
          <6>1. node = [m \in Nodes |-> node[m]]
            BY <2>0 DEF IInv, TypeOK
          <6> QED
            BY <4>1, <6>1
        <5> QED
          BY <5>1
      <4>2. CASE StreamWrite(r)
        BY <4>2, Zenon DEF StreamWrite
      <4>3. CASE StreamAsFile(r)
        BY <4>3, Zenon DEF StreamAsFile
      <4>4. CASE StreamBreaks(r) /\ node' # node
        BY <4>4, Zenon DEF StreamBreaks, Told
      <4> QED
        BY <2>3, <4>1, <4>2, <4>3, <4>4 DEF Stream, StreamDone
    <3> QED
      BY <2>0, <3>1, AnswerLeaves
  <2>4. CASE RunCallback
    <3>1. callbacks \in Seq(Answer) /\ callbacks # <<>>
      BY <2>0, <2>4, TypeFacts DEF IInv, RunCallback
    <3>2. Head(callbacks) \in Answer
      BY <3>1
    <3>3. PICK r \in Requests : r = Head(callbacks).request
      BY <3>2 DEF Answer
    <3>4. node' = IF Heard(r)
                  THEN [node EXCEPT ![request[r].client] =
                          OnAnswer(@, Head(callbacks), request[r].url)]
                  ELSE node
      BY <2>4, <3>3 DEF RunCallback, Told
    <3> QED
      BY <2>0, <3>4, AnswerLeaves
  <2> QED
    BY <2>1, <2>2, <2>3, <2>4 DEF Next
<1>2. IInv /\ [Next]_vars =>
        [\A n \in Nodes : ~node[n].exists => node'[n] = node[n] \/ node'[n] = NewNode]_vars
  BY <1>1
<1> QED
  BY <1>2, Invariance, PTL DEF Spec, DestroyedIsLeftAlone
=============================================================================
