----------------------- MODULE ResourceLoadingContents -----------------------
(***************************************************************************)
(* Proofs about what a resource load node shows, for any nodes, requests,   *)
(* URLs and sizes: all of the resource of its URL or nothing.               *)
(***************************************************************************)
EXTENDS ResourceLoadingProofs

\* The first m chunks of a URL.
Chunks(u, m) == [i \in 1..m |-> u]

\* All of the data of v, its file, or neither.
Shows(res, v) ==
  /\ res.data = <<>> \/ (v \in Urls /\ res.data = Content(v))
  /\ res.file \in {NoUrl, v}
  /\ res.file # NoUrl => res.data = <<>>

\* The data answers of request r in q have one place each, no chunk that the node
\* has is sent to it again, and none comes, nor progress beyond it, before those
\* it still lacks: m is the number of chunks it has.
InOrder(q, r, m, u) ==
  /\ \A i \in DOMAIN q : q[i].request = r =>
       /\ q[i].kind # "file"
       /\ q[i].kind = "data" => m <= q[i].at /\ q[i].at < Size[u]
       /\ q[i].kind \in {"data", "progress"} =>
            \A k \in m..(q[i].at - 1) : \E j \in DOMAIN q : j < i /\ q[j] = Data(r, k)
  /\ \A i, j \in DOMAIN q : q[i] = q[j] /\ q[i].request = r /\ q[i].kind = "data" => i = j

\* What the provider has sent has come to the node or is on its way.
Sending(q, s, r, m) ==
  /\ s.kind = "job" =>
       /\ m <= s.sent
       /\ \A k \in m..(s.sent - 1) : \E j \in DOMAIN q : q[j] = Data(r, k)
       /\ \A j \in DOMAIN q : q[j].request = r /\ q[j].kind = "data" => q[j].at < s.sent
  /\ s.kind = "stream" => ~s.asFile /\ m = s.sent

\* The node nd receives the answers of its request r for u.
Receives(nd, u, q, s, r) ==
  /\ nd.resource = NoResource
  /\ nd.streamUrl = u
  /\ IF nd.asFile
     THEN /\ nd.stream.data = <<>> /\ nd.stream.file \in {NoUrl, u}
          /\ s.kind # "job" /\ (s.kind = "stream" => s.asFile)
          /\ \A i \in DOMAIN q : q[i].request = r => q[i].kind # "data"
     ELSE /\ nd.stream.file = NoUrl
          /\ \E m \in 0..Size[u] :
               /\ nd.stream.data = Chunks(u, m)
               /\ InOrder(q, r, m, u)
               /\ Sending(q, s, r, m)

Waits(n) == node[n].latest # NoRequest /\ request[node[n].latest].client = n

\* What a node holds is of its stream's URL, and a clean one has that URL.
Holds(nd, waits) ==
  /\ Shows(nd.resource, nd.streamUrl)
  /\ nd.exists /\ ~nd.dirty => nd.url = nd.streamUrl
  /\ nd.exists /\ ~waits => Shows(nd.stream, nd.streamUrl)

Faithful(n) ==
  /\ Holds(node[n], Waits(n))
  /\ Waits(n) => Receives(node[n], request[node[n].latest].url, callbacks,
                          source[node[n].latest], node[n].latest)

DInv == IInv /\ \A n \in Nodes : Faithful(n)
-----------------------------------------------------------------------------
(***************************************************************************)
(* The data of a stream, chunk by chunk.                                    *)
(***************************************************************************)
LEMMA ChunksFacts ==
  ASSUME NEW u \in Urls, NEW m \in Nat
  PROVE  /\ Chunks(u, m) \in Seq(Urls \union {NoUrl})
         /\ Len(Chunks(u, m)) = m
         /\ \A i \in 1..m : Chunks(u, m)[i] = u
         /\ m = 0 => Chunks(u, m) = <<>>
BY DEF Chunks

LEMMA ContentFacts ==
  ASSUME ResourceConstants, NEW u \in Urls
  PROVE  Size[u] \in Nat /\ Content(u) = Chunks(u, Size[u])
BY DEF Content, Chunks, ResourceConstants

\* The next chunk makes the first m chunks the first m + 1.
LEMMA FilledNext ==
  ASSUME NEW u \in Urls, NEW m \in Nat
  PROVE  Filled(Chunks(u, m), m, u) = Chunks(u, m + 1)
<1>1. Len(Chunks(u, m)) = m /\ \A i \in 1..m : Chunks(u, m)[i] = u
  BY ChunksFacts
<1> DEFINE value(i) == IF i = m + 1 THEN u
                       ELSE IF i <= Len(Chunks(u, m)) THEN Chunks(u, m)[i] ELSE NoUrl
<1>2. Filled(Chunks(u, m), m, u) = [i \in 1..(m + 1) |-> value(i)]
  BY <1>1 DEF Filled
<1>3. \A i \in 1..(m + 1) : value(i) = u
  BY <1>1
<1> HIDE DEF value
<1> QED
  BY <1>2, <1>3 DEF Chunks

LEMMA ShowsNothing ==
  ASSUME NEW v
  PROVE  Shows(NoResource, v)
BY DEF Shows, NoResource

\* What setResourceData publishes is what the stream holds.
LEMMA SetResourceDataShows ==
  ASSUME NEW nd \in NodeState, NEW v, Shows(nd.resource, v), Shows(nd.stream, v)
  PROVE  /\ Shows(SetResourceData(nd).resource, v)
         /\ Shows(SetResourceData(nd).stream, v)
         /\ ~SetResourceData(nd).dirty => ~nd.dirty
<1>1. CASE nd.stream = nd.resource
  BY <1>1 DEF SetResourceData, NodeState
<1>2. CASE nd.stream # nd.resource
  <2> DEFINE d == IF nd.keep THEN nd.stream.data ELSE <<>>
             left == [nd.stream EXCEPT !.data = d]
  <2>1. nd.stream \in Resource
    BY DEF NodeState
  <2>2. left.data = d /\ left.file = nd.stream.file
    BY <2>1 DEF Resource
  <2>3. Shows(left, v)
    BY <2>2 DEF Shows
  <2>4. SetResourceData(nd) =
          [nd EXCEPT !.firstEval = TRUE, !.resource = nd.stream, !.dirty = TRUE,
                     !.stream = left]
    BY <1>2 DEF SetResourceData, NodeState
  <2> HIDE DEF left
  <2>5. /\ SetResourceData(nd).resource = nd.stream /\ SetResourceData(nd).stream = left
        /\ SetResourceData(nd).dirty = TRUE
    BY <2>4 DEF NodeState
  <2> QED
    BY <2>3, <2>5
<1> QED
  BY <1>1, <1>2

\* A node that starts over shows nothing.
LEMMA EmptiedShows ==
  ASSUME NEW nd \in NodeState, NEW r \in Requests \union {NoRequest}
  PROVE  /\ Emptied(nd, r).resource = NoResource /\ Emptied(nd, r).stream = NoResource
         /\ Emptied(nd, r).url = nd.url /\ Emptied(nd, r).streamUrl = nd.url
         /\ Emptied(nd, r).asFile = nd.store.asFile
<1> DEFINE c == [nd EXCEPT !.streamUrl = nd.url, !.stream = NoResource, !.keep = FALSE]
           cleared == SetResourceData(c)
<1>1. NoResource \in Resource
  BY DEF NoResource, Resource
<1>2. /\ c \in NodeState /\ c.streamUrl = nd.url /\ c.url = nd.url
      /\ c.stream = NoResource /\ c.keep = FALSE
  BY <1>1 DEF NodeState
<1>3. Emptied(nd, r) =
        [cleared EXCEPT !.latest = r, !.dirty = FALSE,
                        !.keep = nd.store.keep, !.asFile = nd.store.asFile]
  BY DEF Emptied
<1> HIDE DEF c
<1>4. cleared \in NodeState /\ SameRequest(cleared, c)
  BY <1>2, SetResourceDataFacts
<1>5. cleared.resource = NoResource /\ cleared.stream = NoResource
  <2>1. CASE c.stream = c.resource
    BY <1>2, <2>1 DEF SetResourceData, NodeState
  <2>2. CASE c.stream # c.resource
    <3>1. [NoResource EXCEPT !.data = <<>>] = NoResource
      BY DEF NoResource
    <3>2. cleared = [c EXCEPT !.firstEval = TRUE, !.resource = NoResource, !.dirty = TRUE,
                              !.stream = [NoResource EXCEPT !.data = <<>>]]
      BY <1>2, <2>2 DEF SetResourceData, NodeState
    <3> QED
      BY <1>2, <3>1, <3>2 DEF NodeState
  <2> QED
    BY <2>1, <2>2
<1> HIDE DEF cleared
<1> QED
  BY <1>2, <1>3, <1>4, <1>5 DEF NodeState, SameRequest

\* Progress cuts the data to what is announced: no more than that has come.
LEMMA NothingToCut ==
  ASSUME NEW nd \in NodeState, NEW total \in Nat, Len(nd.stream.data) <= total
  PROVE  [nd EXCEPT !.stream.data =
            IF total < Len(@) THEN SubSeq(@, 1, total) ELSE @] = nd
<1>1. nd.stream \in Resource /\ nd.stream.data \in Seq(Urls \union {NoUrl})
  BY DEF NodeState, Resource
<1>2. ~(total < Len(nd.stream.data))
  BY <1>1
<1>3. [nd.stream EXCEPT !.data = nd.stream.data] = nd.stream
  BY <1>1 DEF Resource
<1>4. [nd EXCEPT !.stream.data = IF total < Len(@) THEN SubSeq(@, 1, total) ELSE @]
        = [nd EXCEPT !.stream = [nd.stream EXCEPT !.data = nd.stream.data]]
  BY <1>1, <1>2 DEF NodeState
<1>5. [nd EXCEPT !.stream = nd.stream] = nd
  BY DEF NodeState
<1> QED
  BY <1>3, <1>4, <1>5

LEMMA OnProgressPart ==
  ASSUME NEW nd \in NodeState, NEW done \in Nat, NEW total \in Nat,
         Len(nd.stream.data) <= total, done < total
  PROVE  OnProgress(nd, done, total) = nd
BY NothingToCut DEF OnProgress

\* When all has come, the node shows it, and does not wait.
LEMMA OnProgressAll ==
  ASSUME ResourceConstants, NEW nd \in NodeState, NEW u \in Urls,
         Shows(nd.resource, u), Shows(nd.stream, u),
         nd.streamUrl = u, nd.exists /\ ~nd.dirty => nd.url = u
  PROVE  Holds(OnProgress(nd, Size[u], Size[u]), FALSE)
<1>1. Size[u] \in Nat /\ Content(u) = Chunks(u, Size[u])
  BY ContentFacts
<1>2. Len(nd.stream.data) <= Size[u]
  <2>1. CASE nd.stream.data = <<>>
    BY <1>1, <2>1
  <2>2. CASE nd.stream.data = Content(u)
    BY <1>1, <2>2, ChunksFacts
  <2> QED
    BY <2>1, <2>2 DEF Shows
<1> DEFINE c == [nd EXCEPT !.inProgress = FALSE]
<1>3. OnProgress(nd, Size[u], Size[u]) = SetResourceData(c)
  <2>1. PICK t \in Nat : t = Size[u]
    BY <1>1
  <2> DEFINE cut == [nd EXCEPT !.stream.data =
                       IF t < Len(@) THEN SubSeq(@, 1, t) ELSE @]
  <2>2. cut = nd
    BY <1>2, <2>1, NothingToCut
  <2>3. OnProgress(nd, t, t) =
          IF t < t THEN cut ELSE SetResourceData([cut EXCEPT !.inProgress = FALSE])
    BY Zenon DEF OnProgress
  <2>4. ~(t < t)
    OBVIOUS
  <2> HIDE DEF cut
  <2> QED
    BY <2>1, <2>2, <2>3, <2>4, Zenon
<1>4. /\ c \in NodeState /\ c.resource = nd.resource /\ c.stream = nd.stream
      /\ c.streamUrl = u /\ c.exists = nd.exists /\ c.url = nd.url /\ c.dirty = nd.dirty
  BY DEF NodeState
<1> HIDE DEF c
<1>5. /\ Shows(SetResourceData(c).resource, u) /\ Shows(SetResourceData(c).stream, u)
      /\ ~SetResourceData(c).dirty => ~c.dirty
  BY <1>4, SetResourceDataShows
<1>6. SameRequest(SetResourceData(c), c)
  BY <1>4, SetResourceDataFacts
<1> QED
  BY <1>3, <1>4, <1>5, <1>6 DEF Holds, SameRequest

\* When it fails, the node shows nothing of it.
LEMMA OnFailureShows ==
  ASSUME NEW nd \in NodeState, NEW u, Shows(nd.resource, u),
         nd.streamUrl = u, nd.exists /\ ~nd.dirty => nd.url = u
  PROVE  Holds(OnFailure(nd), FALSE)
<1> DEFINE c == [nd EXCEPT !.stream = NoResource, !.inProgress = FALSE]
<1>1. NoResource \in Resource
  BY DEF NoResource, Resource
<1>2. /\ c \in NodeState /\ c.resource = nd.resource /\ c.stream = NoResource
      /\ c.streamUrl = u /\ c.exists = nd.exists /\ c.url = nd.url /\ c.dirty = nd.dirty
  BY <1>1 DEF NodeState
<1>3. OnFailure(nd) = SetResourceData(c)
  BY DEF OnFailure
<1> HIDE DEF c
<1>4. Shows(c.resource, u) /\ Shows(c.stream, u)
  BY <1>2, ShowsNothing
<1>5. /\ Shows(SetResourceData(c).resource, u) /\ Shows(SetResourceData(c).stream, u)
      /\ ~SetResourceData(c).dirty => ~c.dirty
  BY <1>2, <1>4, SetResourceDataShows
<1>6. SameRequest(SetResourceData(c), c)
  BY <1>2, SetResourceDataFacts
<1> QED
  BY <1>2, <1>3, <1>5, <1>6 DEF Holds, SameRequest
-----------------------------------------------------------------------------
(***************************************************************************)
(* The answers on their way.                                                *)
(***************************************************************************)
LEMMA TailFacts ==
  ASSUME NEW q \in Seq(Answer), q # <<>>
  PROVE  /\ Tail(q) \in Seq(Answer) /\ Head(q) \in Answer /\ Head(q) = q[1]
         /\ DOMAIN q \subseteq Nat /\ 1 \in DOMAIN q
         /\ \A i \in DOMAIN Tail(q) : i \in Nat /\ i + 1 \in DOMAIN q /\ Tail(q)[i] = q[i + 1]
         /\ \A i \in DOMAIN q : i # 1 =>
              i \in Nat /\ i - 1 \in DOMAIN Tail(q) /\ Tail(q)[i - 1] = q[i]
<1>1. /\ Len(q) \in Nat \ {0} /\ DOMAIN q = 1..Len(q)
      /\ DOMAIN Tail(q) = 1..(Len(q) - 1)
      /\ \A i \in 1..(Len(q) - 1) : Tail(q)[i] = q[i + 1]
      /\ Tail(q) \in Seq(Answer) /\ Head(q) \in Answer /\ Head(q) = q[1]
  OBVIOUS
<1>2. ASSUME NEW i \in DOMAIN q, i # 1
      PROVE  i \in Nat /\ i - 1 \in DOMAIN Tail(q) /\ Tail(q)[i - 1] = q[i]
  <2>1. i \in Nat /\ i - 1 \in 1..(Len(q) - 1) /\ (i - 1) + 1 = i
    BY <1>1, <1>2
  <2> QED
    BY <1>1, <2>1
<1> QED
  BY <1>1, <1>2

LEMMA AppendedFacts ==
  ASSUME NEW q \in Seq(Answer), NEW t \in Seq(Answer)
  PROVE  /\ q \o t \in Seq(Answer) /\ Len(q) \in Nat /\ Len(t) \in Nat
         /\ DOMAIN q = 1..Len(q) /\ DOMAIN t = 1..Len(t)
         /\ \A i \in DOMAIN q : i \in DOMAIN (q \o t) /\ (q \o t)[i] = q[i]
         /\ \A i \in DOMAIN t : Len(q) + i \in DOMAIN (q \o t) /\ (q \o t)[Len(q) + i] = t[i]
         /\ \A i \in DOMAIN (q \o t) :
              i \in DOMAIN q \/ \E j \in DOMAIN t : i = Len(q) + j
<1>1. /\ q \o t \in Seq(Answer) /\ Len(q) \in Nat /\ Len(t) \in Nat
      /\ DOMAIN q = 1..Len(q) /\ DOMAIN t = 1..Len(t)
      /\ DOMAIN (q \o t) = 1..(Len(q) + Len(t))
      /\ \A i \in 1..Len(q) : (q \o t)[i] = q[i]
      /\ \A i \in 1..Len(t) : (q \o t)[Len(q) + i] = t[i]
  OBVIOUS
<1>2. ASSUME NEW i \in DOMAIN (q \o t), i \notin DOMAIN q
      PROVE  \E j \in DOMAIN t : i = Len(q) + j
  <2>1. i - Len(q) \in 1..Len(t) /\ i = Len(q) + (i - Len(q))
    BY <1>1, <1>2
  <2> QED
    BY <1>1, <2>1
<1>3. \A i \in 1..Len(t) : Len(q) + i \in 1..(Len(q) + Len(t))
  BY <1>1
<1>4. \A i \in 1..Len(q) : i \in 1..(Len(q) + Len(t))
  BY <1>1
<1> HIDE DEF Answer
<1> QED
  BY <1>1, <1>2, <1>3, <1>4

LEMMA DataFacts ==
  ASSUME NEW r \in Requests, NEW k \in Nat
  PROVE  /\ Data(r, k) \in Answer /\ Progress(r, k) \in Answer
         /\ File(r) \in Answer /\ Failure(r) \in Answer
         /\ Data(r, k).request = r /\ Data(r, k).kind = "data" /\ Data(r, k).at = k
         /\ Progress(r, k).request = r /\ Progress(r, k).kind = "progress"
         /\ Progress(r, k).at = k
         /\ File(r).request = r /\ File(r).kind = "file"
         /\ Failure(r).request = r /\ Failure(r).kind = "failure"
         /\ \A a \in Answer : a.kind = "data" /\ a.request = r /\ a.at = k => a = Data(r, k)
BY DEF Data, Progress, File, Failure, Answer

\* The first answer is taken, and is not data of r ...
LEMMA InOrderTail ==
  ASSUME NEW q \in Seq(Answer), q # <<>>, NEW r \in Requests, NEW m \in Nat, NEW u \in Urls,
         InOrder(q, r, m, u), ~(Head(q).request = r /\ Head(q).kind = "data")
  PROVE  InOrder(Tail(q), r, m, u)
<1> DEFINE p == Tail(q)
<1>1. /\ Head(q) = q[1]
      /\ \A i \in DOMAIN p : i \in Nat /\ i + 1 \in DOMAIN q /\ p[i] = q[i + 1]
      /\ \A i \in DOMAIN q : i # 1 => i \in Nat /\ i - 1 \in DOMAIN p /\ p[i - 1] = q[i]
  BY TailFacts
<1> HIDE DEF p
<1>2. ASSUME NEW i \in DOMAIN p, p[i].request = r
      PROVE  /\ p[i].kind # "file"
             /\ p[i].kind = "data" => m <= p[i].at /\ p[i].at < Size[u]
             /\ p[i].kind \in {"data", "progress"} =>
                  \A k \in m..(p[i].at - 1) : \E j \in DOMAIN p : j < i /\ p[j] = Data(r, k)
  <2>1. i \in Nat /\ i + 1 \in DOMAIN q /\ p[i] = q[i + 1]
    BY <1>1
  <2>2. ASSUME p[i].kind \in {"data", "progress"}, NEW k \in m..(p[i].at - 1)
        PROVE  \E j \in DOMAIN p : j < i /\ p[j] = Data(r, k)
    <3>1. PICK j \in DOMAIN q : j < i + 1 /\ q[j] = Data(r, k)
      BY <1>2, <2>1, <2>2 DEF InOrder
    <3>2. j # 1
      BY <1>1, <3>1 DEF Data
    <3>3. j \in Nat /\ j - 1 \in DOMAIN p /\ p[j - 1] = q[j]
      BY <1>1, <3>2
    <3>4. j - 1 < i
      BY <2>1, <3>1, <3>3
    <3> QED
      BY <3>1, <3>3, <3>4
  <2>3. /\ p[i].kind # "file"
        /\ p[i].kind = "data" => m <= p[i].at /\ p[i].at < Size[u]
    BY <1>2, <2>1 DEF InOrder
  <2> QED
    BY <2>2, <2>3
<1>3. ASSUME NEW i \in DOMAIN p, NEW j \in DOMAIN p,
             p[i] = p[j], p[i].request = r, p[i].kind = "data"
      PROVE  i = j
  <2>1. i \in Nat /\ i + 1 \in DOMAIN q /\ p[i] = q[i + 1]
    BY <1>1
  <2>2. j \in Nat /\ j + 1 \in DOMAIN q /\ p[j] = q[j + 1]
    BY <1>1
  <2>3. i + 1 = j + 1
    BY <1>3, <2>1, <2>2 DEF InOrder
  <2> QED
    BY <2>1, <2>2, <2>3
<1> QED
  BY <1>2, <1>3 DEF InOrder, p

\* ... or is the chunk that the node lacks first.
LEMMA InOrderTaken ==
  ASSUME NEW q \in Seq(Answer), q # <<>>, NEW r \in Requests, NEW m \in Nat, NEW u \in Urls,
         InOrder(q, r, m, u), Head(q).request = r, Head(q).kind = "data"
  PROVE  /\ Head(q).at = m /\ m < Size[u]
         /\ InOrder(Tail(q), r, m + 1, u)
<1> DEFINE p == Tail(q)
<1>1. /\ Head(q) = q[1] /\ Head(q) \in Answer /\ 1 \in DOMAIN q /\ DOMAIN q \subseteq Nat
      /\ p \in Seq(Answer)
      /\ \A i \in DOMAIN p : i \in Nat /\ i + 1 \in DOMAIN q /\ p[i] = q[i + 1]
      /\ \A i \in DOMAIN q : i # 1 => i \in Nat /\ i - 1 \in DOMAIN p /\ p[i - 1] = q[i]
  BY TailFacts
<1>2. DOMAIN p = 1..Len(p)
  BY <1>1
<1> HIDE DEF p
<1>3. m <= Head(q).at /\ Head(q).at < Size[u] /\ Head(q).at \in Nat
  BY <1>1 DEF InOrder, Answer
<1>4. Head(q).at = m
  <2> SUFFICES ASSUME m < Head(q).at
               PROVE  FALSE
    BY <1>3
  <2>1. m \in m..(Head(q).at - 1)
    BY <1>3
  <2>2. PICK j \in DOMAIN q : j < 1 /\ q[j] = Data(r, m)
    BY <1>1, <2>1 DEF InOrder
  <2>3. j \in 1..Len(q)
    BY <2>2
  <2> QED
    BY <2>2, <2>3
<1>5. Head(q) = Data(r, m)
  BY <1>1, <1>4, DataFacts
<1>6. ASSUME NEW i \in DOMAIN p, p[i].request = r
      PROVE  /\ p[i].kind # "file"
             /\ p[i].kind = "data" => m + 1 <= p[i].at /\ p[i].at < Size[u]
             /\ p[i].kind \in {"data", "progress"} =>
                  \A k \in (m + 1)..(p[i].at - 1) :
                    \E j \in DOMAIN p : j < i /\ p[j] = Data(r, k)
  <2>1. i \in Nat /\ i + 1 \in DOMAIN q /\ p[i] = q[i + 1] /\ i # 0
    BY <1>1, <1>2
  <2>2. p[i] \in Answer /\ p[i].at \in Nat
    <3>1. p[i] \in Answer
      BY <1>1, <1>2
    <3> QED
      BY <3>1 DEF Answer
  <2>3. ASSUME p[i].kind \in {"data", "progress"}, NEW k \in (m + 1)..(p[i].at - 1)
        PROVE  \E j \in DOMAIN p : j < i /\ p[j] = Data(r, k)
    <3>0. k \in m..(p[i].at - 1) /\ k # m /\ k \in Nat
      BY <2>2, <2>3
    <3>1. PICK j \in DOMAIN q : j < i + 1 /\ q[j] = Data(r, k)
      BY <1>6, <2>1, <2>3, <3>0 DEF InOrder
    <3>2. j # 1
      BY <1>1, <1>4, <3>0, <3>1, DataFacts
    <3>3. j \in Nat /\ j - 1 \in DOMAIN p /\ p[j - 1] = q[j]
      BY <1>1, <3>2
    <3>4. j - 1 < i
      BY <2>1, <3>1, <3>3
    <3> QED
      BY <3>1, <3>3, <3>4
  <2>4. p[i].kind # "file"
    BY <1>6, <2>1 DEF InOrder
  <2>5. ASSUME p[i].kind = "data"
        PROVE  m + 1 <= p[i].at /\ p[i].at < Size[u]
    <3>1. m <= p[i].at /\ p[i].at < Size[u]
      BY <1>6, <2>1, <2>5 DEF InOrder
    <3>2. p[i].at # m
      <4> SUFFICES ASSUME p[i].at = m
                   PROVE  FALSE
        OBVIOUS
      <4>1. q[i + 1] = q[1]
        BY <1>1, <1>5, <1>6, <2>1, <2>2, <2>5, DataFacts
      <4>2. i + 1 = 1
        BY <1>1, <1>6, <2>1, <2>5, <4>1 DEF InOrder
      <4> QED
        BY <2>1, <4>2
    <3> QED
      BY <2>2, <3>1, <3>2
  <2> QED
    BY <2>3, <2>4, <2>5
<1>7. ASSUME NEW i \in DOMAIN p, NEW j \in DOMAIN p,
             p[i] = p[j], p[i].request = r, p[i].kind = "data"
      PROVE  i = j
  <2>1. i \in Nat /\ i + 1 \in DOMAIN q /\ p[i] = q[i + 1]
    BY <1>1
  <2>2. j \in Nat /\ j + 1 \in DOMAIN q /\ p[j] = q[j + 1]
    BY <1>1
  <2>3. i + 1 = j + 1
    BY <1>7, <2>1, <2>2 DEF InOrder
  <2> QED
    BY <2>1, <2>2, <2>3
<1>8. InOrder(p, r, m + 1, u)
  BY <1>6, <1>7 DEF InOrder
<1> QED
  BY <1>3, <1>4, <1>8 DEF p

\* The same of what a source sends.
LEMMA SendingTail ==
  ASSUME NEW q \in Seq(Answer), q # <<>>, NEW r \in Requests, NEW m \in Nat, NEW s,
         Sending(q, s, r, m), ~(Head(q).request = r /\ Head(q).kind = "data")
  PROVE  Sending(Tail(q), s, r, m)
<1> DEFINE p == Tail(q)
<1>1. /\ Head(q) = q[1]
      /\ \A i \in DOMAIN p : i + 1 \in DOMAIN q /\ p[i] = q[i + 1]
      /\ \A i \in DOMAIN q : i # 1 => i - 1 \in DOMAIN p /\ p[i - 1] = q[i]
  BY TailFacts
<1> HIDE DEF p
<1>2. ASSUME s.kind = "job", NEW k \in m..(s.sent - 1)
      PROVE  \E j \in DOMAIN p : p[j] = Data(r, k)
  <2>1. PICK j \in DOMAIN q : q[j] = Data(r, k)
    BY <1>2 DEF Sending
  <2>2. j # 1
    BY <1>1, <2>1 DEF Data
  <2> QED
    BY <1>1, <2>1, <2>2
<1>3. ASSUME s.kind = "job", NEW j \in DOMAIN p, p[j].request = r, p[j].kind = "data"
      PROVE  p[j].at < s.sent
  BY <1>1, <1>3 DEF Sending
<1>4. Sending(p, s, r, m)
  BY <1>2, <1>3 DEF Sending
<1> QED
  BY <1>4 DEF p

LEMMA SendingTaken ==
  ASSUME NEW q \in Seq(Answer), q # <<>>, NEW r \in Requests, NEW m \in Nat, NEW s \in Source,
         Sending(q, s, r, m), Head(q) = Data(r, m), s.kind # "stream"
  PROVE  Sending(Tail(q), s, r, m + 1)
<1> DEFINE p == Tail(q)
<1>1. /\ Head(q) = q[1] /\ 1 \in DOMAIN q
      /\ \A i \in DOMAIN p : i + 1 \in DOMAIN q /\ p[i] = q[i + 1]
      /\ \A i \in DOMAIN q : i # 1 => i - 1 \in DOMAIN p /\ p[i - 1] = q[i]
  BY TailFacts
<1> HIDE DEF p
<1>2. s.sent \in Nat
  BY DEF Source
<1>3. ASSUME s.kind = "job", NEW k \in (m + 1)..(s.sent - 1)
      PROVE  \E j \in DOMAIN p : p[j] = Data(r, k)
  <2>0. k \in m..(s.sent - 1) /\ k # m /\ k \in Nat
    BY <1>2, <1>3
  <2>1. PICK j \in DOMAIN q : q[j] = Data(r, k)
    BY <1>3, <2>0 DEF Sending
  <2>2. j # 1
    BY <1>1, <2>0, <2>1, DataFacts
  <2> QED
    BY <1>1, <2>1, <2>2
<1>4. ASSUME s.kind = "job", NEW j \in DOMAIN p, p[j].request = r, p[j].kind = "data"
      PROVE  p[j].at < s.sent
  BY <1>1, <1>4 DEF Sending
<1>5. s.kind = "job" => m + 1 <= s.sent
  <2>1. Data(r, m).request = r /\ Data(r, m).kind = "data" /\ Data(r, m).at = m
    BY DataFacts
  <2>2. s.kind = "job" => m < s.sent
    BY <1>1, <2>1 DEF Sending
  <2> QED
    BY <1>2, <2>2
<1>6. Sending(p, s, r, m + 1)
  BY <1>3, <1>4, <1>5 DEF Sending
<1> QED
  BY <1>6 DEF p

\* Answers come behind those of r.
LEMMA InOrderAppended ==
  ASSUME NEW q \in Seq(Answer), NEW t \in Seq(Answer), NEW r \in Requests, NEW m \in Nat,
         NEW u \in Urls, InOrder(q, r, m, u),
         \A i \in DOMAIN t : t[i].request = r =>
           /\ t[i].kind # "file"
           /\ t[i].kind = "data" => /\ m <= t[i].at /\ t[i].at < Size[u]
                                    /\ \A j \in DOMAIN q : q[j] # t[i]
           /\ t[i].kind \in {"data", "progress"} => \A k \in m..(t[i].at - 1) :
                \/ \E j \in DOMAIN q : q[j] = Data(r, k)
                \/ \E j \in DOMAIN t : j < i /\ t[j] = Data(r, k),
         \A i, j \in DOMAIN t : t[i] = t[j] /\ t[i].request = r /\ t[i].kind = "data" => i = j
  PROVE  InOrder(q \o t, r, m, u)
<1> DEFINE p == q \o t
<1>0. PICK n \in Nat : n = Len(q)
  BY AppendedFacts
<1>1. /\ DOMAIN q = 1..n /\ DOMAIN t = 1..Len(t) /\ Len(t) \in Nat
      /\ \A i \in DOMAIN q : i \in DOMAIN p /\ p[i] = q[i]
      /\ \A i \in DOMAIN t : n + i \in DOMAIN p /\ p[n + i] = t[i]
      /\ \A i \in DOMAIN p : i \in DOMAIN q \/ \E j \in DOMAIN t : i = n + j
  <2>1. /\ DOMAIN q = 1..Len(q) /\ DOMAIN t = 1..Len(t) /\ Len(t) \in Nat
        /\ \A i \in DOMAIN q : i \in DOMAIN p /\ p[i] = q[i]
        /\ \A i \in DOMAIN t : Len(q) + i \in DOMAIN p /\ p[Len(q) + i] = t[i]
        /\ \A i \in DOMAIN p : i \in DOMAIN q \/ \E j \in DOMAIN t : i = Len(q) + j
    BY AppendedFacts
  <2> HIDE DEF p
  <2> QED
    BY <1>0, <2>1
<1> HIDE DEF p
<1>2. ASSUME NEW i \in DOMAIN p, p[i].request = r
      PROVE  /\ p[i].kind # "file"
             /\ p[i].kind = "data" => m <= p[i].at /\ p[i].at < Size[u]
             /\ p[i].kind \in {"data", "progress"} =>
                  \A k \in m..(p[i].at - 1) : \E j \in DOMAIN p : j < i /\ p[j] = Data(r, k)
  <2>1. CASE i \in DOMAIN q
    <3>1. p[i] = q[i]
      BY <1>1, <2>1
    <3>2. ASSUME p[i].kind \in {"data", "progress"}, NEW k \in m..(p[i].at - 1)
          PROVE  \E j \in DOMAIN p : j < i /\ p[j] = Data(r, k)
      <4>1. PICK j \in DOMAIN q : j < i /\ q[j] = Data(r, k)
        BY <1>2, <2>1, <3>1, <3>2 DEF InOrder
      <4> QED
        BY <1>1, <4>1
    <3>3. /\ p[i].kind # "file"
          /\ p[i].kind = "data" => m <= p[i].at /\ p[i].at < Size[u]
      BY <1>2, <2>1, <3>1 DEF InOrder
    <3> QED
      BY <3>2, <3>3
  <2>2. CASE i \notin DOMAIN q
    <3>1. PICK l \in DOMAIN t : i = n + l
      BY <1>1, <2>2
    <3>2. p[i] = t[l] /\ l \in Nat /\ l > 0
      BY <1>1, <3>1
    <3>3. ASSUME p[i].kind \in {"data", "progress"}, NEW k \in m..(p[i].at - 1)
          PROVE  \E j \in DOMAIN p : j < i /\ p[j] = Data(r, k)
      <4>1. CASE \E j \in DOMAIN q : q[j] = Data(r, k)
        <5>1. PICK j \in DOMAIN q : q[j] = Data(r, k)
          BY <4>1
        <5>2. j < i
          BY <1>1, <3>1, <3>2
        <5> QED
          BY <1>1, <5>1, <5>2
      <4>2. CASE \E j \in DOMAIN t : j < l /\ t[j] = Data(r, k)
        <5>1. PICK j \in DOMAIN t : j < l /\ t[j] = Data(r, k)
          BY <4>2
        <5>2. n + j < i
          BY <1>1, <3>1, <3>2, <5>1
        <5> QED
          BY <1>1, <5>1, <5>2
      <4> QED
        BY <1>2, <3>2, <3>3, <4>1, <4>2
    <3>4. /\ p[i].kind # "file"
          /\ p[i].kind = "data" => m <= p[i].at /\ p[i].at < Size[u]
      BY <1>2, <3>2
    <3> QED
      BY <3>3, <3>4
  <2> QED
    BY <2>1, <2>2
<1>3. ASSUME NEW i \in DOMAIN p, NEW j \in DOMAIN p,
             p[i] = p[j], p[i].request = r, p[i].kind = "data"
      PROVE  i = j
  <2>1. ASSUME NEW v \in DOMAIN p, v \notin DOMAIN q
        PROVE  \E l \in DOMAIN t : v = n + l /\ p[v] = t[l]
    BY <1>1, <2>1
  <2>2. CASE i \in DOMAIN q /\ j \in DOMAIN q
    BY <1>1, <1>3, <2>2 DEF InOrder
  <2>3. CASE i \in DOMAIN q /\ j \notin DOMAIN q
    BY <1>1, <1>3, <2>1, <2>3
  <2>4. CASE i \notin DOMAIN q /\ j \in DOMAIN q
    BY <1>1, <1>3, <2>1, <2>4
  <2>5. CASE i \notin DOMAIN q /\ j \notin DOMAIN q
    <3>1. PICK k \in DOMAIN t : i = n + k /\ p[i] = t[k]
      BY <2>1, <2>5
    <3>2. PICK l \in DOMAIN t : j = n + l /\ p[j] = t[l]
      BY <2>1, <2>5
    <3> QED
      BY <1>3, <3>1, <3>2
  <2> QED
    BY <2>2, <2>3, <2>4, <2>5
<1> QED
  BY <1>2, <1>3 DEF InOrder, p

LEMMA SendingAppended ==
  ASSUME NEW q \in Seq(Answer), NEW t \in Seq(Answer), NEW r \in Requests, NEW m \in Nat,
         NEW s, Sending(q, s, r, m),
         \A i \in DOMAIN t : t[i].request # r
  PROVE  Sending(q \o t, s, r, m)
<1> DEFINE p == q \o t
<1>1. /\ \A i \in DOMAIN q : i \in DOMAIN p /\ p[i] = q[i]
      /\ \A i \in DOMAIN t : p[Len(q) + i] = t[i]
      /\ \A i \in DOMAIN p : i \in DOMAIN q \/ \E j \in DOMAIN t : i = Len(q) + j
  BY AppendedFacts
<1> HIDE DEF p
<1>2. ASSUME NEW i \in DOMAIN p, p[i].request = r
      PROVE  i \in DOMAIN q /\ q[i] = p[i]
  BY <1>1, <1>2
<1>3. Sending(p, s, r, m)
  BY <1>1, <1>2 DEF Sending
<1> QED
  BY <1>3 DEF p

\* What a step that is not about request r does to the queue.
QueueKept(q, p, r) ==
  \/ p = q
  \/ q # <<>> /\ p = Tail(q) /\ Head(q).request # r
  \/ \E t \in Seq(Answer) : p = q \o t /\ \A i \in DOMAIN t : t[i].request # r

LEMMA ReceivesKept ==
  ASSUME ResourceConstants, NEW nd, NEW u \in Urls, NEW q \in Seq(Answer), NEW p, NEW s, NEW r \in Requests,
         Receives(nd, u, q, s, r), QueueKept(q, p, r)
  PROVE  Receives(nd, u, p, s, r)
<1>1. CASE p = q
  BY <1>1
<1>2. CASE q # <<>> /\ p = Tail(q) /\ Head(q).request # r
  <2>1. \A i \in DOMAIN p : i + 1 \in DOMAIN q /\ p[i] = q[i + 1]
    BY <1>2, TailFacts
  <2>2. nd.asFile => \A i \in DOMAIN p : p[i].request = r => p[i].kind # "data"
    BY <2>1 DEF Receives
  <2>3. ASSUME NEW m \in 0..Size[u], InOrder(q, r, m, u), Sending(q, s, r, m)
        PROVE  InOrder(p, r, m, u) /\ Sending(p, s, r, m)
    <3>1. m \in Nat
      BY ContentFacts
    <3> QED
      BY <1>2, <2>3, <3>1, InOrderTail, SendingTail
  <2> QED
    BY <2>2, <2>3 DEF Receives
<1>3. CASE \E t \in Seq(Answer) : p = q \o t /\ \A i \in DOMAIN t : t[i].request # r
  <2>0. PICK t \in Seq(Answer) : p = q \o t /\ \A i \in DOMAIN t : t[i].request # r
    BY <1>3
  <2>1. /\ \A i \in DOMAIN q : p[i] = q[i]
        /\ \A i \in DOMAIN t : p[Len(q) + i] = t[i]
        /\ \A i \in DOMAIN p : i \in DOMAIN q \/ \E j \in DOMAIN t : i = Len(q) + j
    BY <2>0, AppendedFacts
  <2>2. nd.asFile => \A i \in DOMAIN p : p[i].request = r => p[i].kind # "data"
    BY <2>0, <2>1 DEF Receives
  <2>3. ASSUME NEW m \in 0..Size[u], InOrder(q, r, m, u), Sending(q, s, r, m)
        PROVE  InOrder(p, r, m, u) /\ Sending(p, s, r, m)
    <3>1. m \in Nat
      BY ContentFacts
    <3> QED
      BY <2>0, <2>3, <3>1, InOrderAppended, SendingAppended
  <2> QED
    BY <2>2, <2>3 DEF Receives
<1> QED
  BY <1>1, <1>2, <1>3 DEF QueueKept

\* A job schedules the next chunk, with the progress made.
LEMMA JobReadReceives ==
  ASSUME ResourceConstants, NEW nd, NEW u \in Urls, NEW q \in Seq(Answer),
         NEW r \in Requests, NEW s \in Source, NEW s2, NEW k \in Nat,
         s.kind = "job", k = s.sent, k < Size[u],
         s2.kind = "none" \/ (s2.kind = "job" /\ s2.sent = k + 1),
         Receives(nd, u, q, s, r)
  PROVE  Receives(nd, u, q \o <<Data(r, k), Progress(r, k + 1)>>, s2, r)
<1> DEFINE p == q \o <<Data(r, k), Progress(r, k + 1)>>
<1>1. ~nd.asFile
  BY DEF Receives
<1>2. PICK m \in 0..Size[u] :
        nd.stream.data = Chunks(u, m) /\ InOrder(q, r, m, u) /\ Sending(q, s, r, m)
  BY <1>1 DEF Receives
<1>3. m \in Nat /\ m <= k
  BY <1>2, ContentFacts DEF Sending
<1>4. PICK t \in Seq(Answer) : t = <<Data(r, k), Progress(r, k + 1)>>
  <2>1. Data(r, k) \in Answer /\ Progress(r, k + 1) \in Answer
    BY DataFacts
  <2>2. \A a, b \in Answer : <<a, b>> \in Seq(Answer)
    OBVIOUS
  <2> QED
    BY <2>1, <2>2
<1>5. /\ DOMAIN t = {1, 2} /\ t[1] = Data(r, k) /\ t[2] = Progress(r, k + 1)
  BY <1>4
<1>6. /\ t[1].request = r /\ t[1].kind = "data" /\ t[1].at = k
      /\ t[2].request = r /\ t[2].kind = "progress" /\ t[2].at = k + 1
  <2>1. k + 1 \in Nat
    OBVIOUS
  <2> QED
    BY <1>5, <2>1, DataFacts
<1>7. \A j \in DOMAIN q : q[j] # t[1]
  <2> SUFFICES ASSUME NEW j \in DOMAIN q, q[j] = t[1]
               PROVE  FALSE
    OBVIOUS
  <2>1. q[j].at < s.sent
    BY <1>2, <1>6 DEF Sending
  <2> QED
    BY <1>6, <2>1
<1>8. \A l \in m..(k - 1) : \E j \in DOMAIN q : q[j] = Data(r, l)
  BY <1>2 DEF Sending
<1>9. InOrder(q \o t, r, m, u)
  <2>1. \A l \in m..(t[1].at - 1) : \E j \in DOMAIN q : q[j] = Data(r, l)
    BY <1>6, <1>8
  <2>2. ASSUME NEW l \in m..(t[2].at - 1)
        PROVE  \/ \E j \in DOMAIN q : q[j] = Data(r, l)
               \/ \E j \in DOMAIN t : j < 2 /\ t[j] = Data(r, l)
    <3>1. l \in m..(k - 1) \/ l = k
      BY <1>3, <1>6, <2>2
    <3> QED
      BY <1>5, <1>8, <3>1
  <2>3. \A i \in DOMAIN t : t[i].request = r =>
          /\ t[i].kind # "file"
          /\ t[i].kind = "data" => /\ m <= t[i].at /\ t[i].at < Size[u]
                                   /\ \A j \in DOMAIN q : q[j] # t[i]
          /\ t[i].kind \in {"data", "progress"} => \A l \in m..(t[i].at - 1) :
               \/ \E j \in DOMAIN q : q[j] = Data(r, l)
               \/ \E j \in DOMAIN t : j < i /\ t[j] = Data(r, l)
    BY <1>3, <1>5, <1>6, <1>7, <2>1, <2>2
  <2>4. \A i, j \in DOMAIN t :
          t[i] = t[j] /\ t[i].request = r /\ t[i].kind = "data" => i = j
    BY <1>5, <1>6
  <2> QED
    BY <1>2, <1>3, <2>3, <2>4, InOrderAppended
<1>10. Sending(q \o t, s2, r, m)
  <2>1. CASE s2.kind = "none"
    BY <2>1 DEF Sending
  <2>2. CASE s2.kind = "job" /\ s2.sent = k + 1
    <3> DEFINE w == q \o t
    <3>1. /\ \A i \in DOMAIN q : i \in DOMAIN w /\ w[i] = q[i]
          /\ \A i \in DOMAIN t : Len(q) + i \in DOMAIN w /\ w[Len(q) + i] = t[i]
          /\ \A i \in DOMAIN w : i \in DOMAIN q \/ \E j \in DOMAIN t : i = Len(q) + j
      BY AppendedFacts
    <3> HIDE DEF w
    <3>2. ASSUME NEW l \in m..k
          PROVE  \E j \in DOMAIN w : w[j] = Data(r, l)
      <4>1. l \in m..(k - 1) \/ l = k
        BY <1>3, <3>2
      <4>2. CASE l \in m..(k - 1)
        BY <1>8, <3>1, <4>2
      <4>3. CASE l = k
        BY <1>5, <3>1, <4>3
      <4> QED
        BY <4>1, <4>2, <4>3
    <3>3. ASSUME NEW j \in DOMAIN w, w[j].request = r, w[j].kind = "data"
          PROVE  w[j].at < k + 1
      <4>1. CASE j \in DOMAIN q
        <5>1. q[j].at < k
          BY <1>2, <3>1, <3>3, <4>1 DEF Sending
        <5>2. q[j].at \in Nat
          <6>1. q[j] \in Answer
            BY <4>1
          <6> QED
            BY <6>1 DEF Answer
        <5> QED
          BY <3>1, <4>1, <5>1, <5>2
      <4>2. CASE j \notin DOMAIN q
        <5>1. PICK i \in DOMAIN t : j = Len(q) + i
          BY <3>1, <4>2
        <5>2. w[j] = t[i]
          BY <3>1, <5>1
        <5>3. w[j].at = k
          BY <1>5, <1>6, <3>3, <5>2
        <5> QED
          BY <5>3
      <4> QED
        BY <4>1, <4>2
    <3>4. (k + 1) - 1 = k /\ m <= k + 1
      BY <1>3
    <3>5. Sending(w, s2, r, m)
      BY <2>2, <3>2, <3>3, <3>4 DEF Sending
    <3> QED
      BY <3>5 DEF w
  <2> QED
    BY <2>1, <2>2
<1> QED
  BY <1>1, <1>2, <1>4, <1>9, <1>10 DEF Receives

\* A job that fails schedules that, and nothing after it.
LEMMA JobFailsReceives ==
  ASSUME ResourceConstants, NEW nd, NEW u \in Urls, NEW q \in Seq(Answer),
         NEW r \in Requests, NEW s, s.kind = "job",
         Receives(nd, u, q, s, r)
  PROVE  Receives(nd, u, Append(q, Failure(r)), NoSource, r)
<1>1. ~nd.asFile
  BY DEF Receives
<1>2. PICK m \in 0..Size[u] :
        nd.stream.data = Chunks(u, m) /\ InOrder(q, r, m, u)
  BY <1>1 DEF Receives
<1>3. m \in Nat
  BY <1>2, ContentFacts
<1>4. Failure(r) \in Answer /\ Failure(r).request = r /\ Failure(r).kind = "failure"
  BY DataFacts
<1>5. PICK t \in Seq(Answer) : t = <<Failure(r)>>
  <2>1. \A a \in Answer : <<a>> \in Seq(Answer)
    OBVIOUS
  <2> QED
    BY <1>4, <2>1
<1>6. DOMAIN t = {1} /\ t[1].kind = "failure"
  BY <1>4, <1>5
<1>7. InOrder(q \o t, r, m, u)
  BY <1>2, <1>3, <1>6, InOrderAppended
<1>8. Append(q, Failure(r)) = q \o t
  <2>1. \A a \in Answer : Append(q, a) = q \o <<a>>
    OBVIOUS
  <2> QED
    BY <1>4, <1>5, <2>1
<1>9. Sending(q \o t, NoSource, r, m)
  BY DEF Sending, NoSource
<1> QED
  BY <1>1, <1>2, <1>7, <1>8, <1>9 DEF Receives
-----------------------------------------------------------------------------
(***************************************************************************)
(* What a step leaves of the nodes.                                         *)
(***************************************************************************)
LEMMA WaitsFacts ==
  ASSUME ResourceConstants, IInv, NEW n \in Nodes
  PROVE  /\ node[n] \in NodeState
         /\ node[n].latest \in Requests \union {NoRequest}
         /\ Waits(n) => /\ node[n].latest \in Requests
                        /\ request[node[n].latest].url \in Urls
                        /\ request[node[n].latest].client = n
                        /\ node[n].exists /\ node[n].inProgress
<1>1. node[n] \in NodeState /\ node[n].latest \in Requests \union {NoRequest}
  BY TypeFacts DEF IInv, NodeState
<1>2. ASSUME Waits(n)
      PROVE  /\ node[n].latest \in Requests
             /\ request[node[n].latest].url \in Urls
             /\ node[n].exists /\ node[n].inProgress
  <2>1. PICK l \in Requests : l = node[n].latest
    BY <1>1, <1>2 DEF Waits
  <2>2. request[l].client = n /\ n # NoNode
    BY <1>2, <2>1 DEF Waits, ResourceConstants
  <2>3. request[l].url \in Urls
    BY <2>2 DEF IInv, Sound, RequestSound, Deleted
  <2>4. node[n].exists /\ node[n].inProgress
    BY <1>2 DEF IInv, HeardSound, Waits
  <2> QED
    BY <2>1, <2>3, <2>4
<1> QED
  BY <1>1, <1>2 DEF Waits

\* A node that does not change, and whose request goes on as it did.
LEMMA StillFaithful ==
  ASSUME ResourceConstants, IInv, NEW n \in Nodes, Faithful(n), node'[n] = node[n],
         \A l \in Requests : l = node[n].latest =>
           (request'[l].client = n <=> request[l].client = n),
         \A l \in Requests : l = node[n].latest /\ request[l].client = n =>
           /\ request'[l].url = request[l].url
           /\ source'[l] = source[l]
           /\ QueueKept(callbacks, callbacks', l)
  PROVE  Faithful(n)'
<1>1. Waits(n)' <=> Waits(n)
  BY WaitsFacts DEF Waits
<1>2. Holds(node[n], Waits(n))' <=> Holds(node[n], Waits(n))
  BY <1>1, Zenon DEF Holds
<1>3. ASSUME Waits(n)
      PROVE  Receives(node'[n], request'[node'[n].latest].url, callbacks',
                      source'[node'[n].latest], node'[n].latest)
  <2>1. PICK l \in Requests : l = node[n].latest
    BY <1>3, WaitsFacts
  <2>2. request[l].client = n /\ request[l].url \in Urls
    BY <1>3, <2>1, WaitsFacts
  <2>3. PICK q \in Seq(Answer) : q = callbacks
    BY TypeFacts DEF IInv
  <2>4. Receives(node[n], request[l].url, q, source[l], l)
    BY <1>3, <2>1, <2>3 DEF Faithful
  <2>5. QueueKept(q, callbacks', l)
    BY <2>1, <2>2, <2>3
  <2>6. Receives(node[n], request[l].url, callbacks', source[l], l)
    BY <2>2, <2>4, <2>5, ReceivesKept
  <2> QED
    BY <2>1, <2>2, <2>6
<1> QED
  BY <1>1, <1>2, <1>3 DEF Faithful

\* A command changes one node, and no request.
LEMMA OnlyNodeFaithful ==
  ASSUME ResourceConstants, IInv, \A m \in Nodes : Faithful(m),
         NEW n \in Nodes, NEW new,
         node' = [node EXCEPT ![n] = new],
         UNCHANGED requests,
         \/ /\ new.latest = NoRequest
            /\ Holds(new, FALSE)
         \/ /\ new.latest = node[n].latest
            /\ Holds(new, Waits(n))
            /\ new.resource = node[n].resource /\ new.stream = node[n].stream
            /\ new.streamUrl = node[n].streamUrl /\ new.asFile = node[n].asFile
         \/ /\ new.latest = node[n].latest
            /\ ~Waits(n)
            /\ Holds(new, FALSE)
  PROVE  \A m \in Nodes : Faithful(m)'
<1>0. DOMAIN node = Nodes /\ UNCHANGED <<request, source, callbacks>>
  BY TypeFacts DEF IInv, requests
<1>1. ASSUME NEW m \in Nodes, m # n
      PROVE  Faithful(m)'
  <2>1. node'[m] = node[m]
    BY <1>0, <1>1
  <2>2. \A l \in Requests : QueueKept(callbacks, callbacks', l)
    BY <1>0 DEF QueueKept
  <2> QED
    BY <1>0, <2>1, <2>2, StillFaithful
<1>2. Faithful(n)'
  <2>0. node'[n] = new
    BY <1>0
  <2>1. CASE new.latest = NoRequest /\ Holds(new, FALSE)
    <3>1. ~Waits(n)'
      BY <2>0, <2>1 DEF Waits
    <3>2. Holds(node'[n], Waits(n)')
      BY <2>0, <2>1, <3>1 DEF Holds
    <3> QED
      BY <3>1, <3>2 DEF Faithful, Holds
  <2>2. CASE new.latest = node[n].latest
    <3>1. Waits(n)' <=> Waits(n)
      BY <1>0, <2>0, <2>2 DEF Waits
    <3>2. Holds(node'[n], Waits(n)')
      <4>1. CASE Waits(n)
        BY <2>0, <2>1, <3>1, <4>1, WaitsFacts DEF Holds, Waits, ResourceConstants
      <4>2. CASE ~Waits(n)
        BY <2>0, <2>1, <3>1, <4>2 DEF Holds
      <4> QED
        BY <4>1, <4>2
    <3>3. CASE Waits(n)
      <4>1. /\ new.resource = node[n].resource /\ new.stream = node[n].stream
            /\ new.streamUrl = node[n].streamUrl /\ new.asFile = node[n].asFile
        BY <2>2, <3>3, WaitsFacts DEF ResourceConstants
      <4>2. Receives(node[n], request[node[n].latest].url, callbacks,
                     source[node[n].latest], node[n].latest)
        BY <3>3 DEF Faithful
      <4>3. Receives(new, request[new.latest].url, callbacks, source[new.latest], new.latest)
        BY <2>2, <4>1, <4>2 DEF Receives
      <4> QED
        BY <1>0, <2>0, <3>2, <4>3 DEF Faithful
    <3>4. CASE ~Waits(n)
      BY <3>1, <3>2, <3>4 DEF Faithful
    <3> QED
      BY <3>3, <3>4
  <2> QED
    BY <2>1, <2>2
<1> QED
  BY <1>1, <1>2

\* An answer of request r changes no node but the one that waits for it.
LEMMA AnswerFaithful ==
  ASSUME ResourceConstants, IInv, \A m \in Nodes : Faithful(m),
         NEW r \in Requests, NEW new, NEW ended \in BOOLEAN,
         node' = IF Heard(r) THEN [node EXCEPT ![request[r].client] = new] ELSE node,
         IF ended THEN Completed(r) ELSE UNCHANGED <<request, retained>>,
         \A q \in Requests \ {r} : /\ source'[q] = source[q]
                                   /\ QueueKept(callbacks, callbacks', q),
         Heard(r) => /\ new.latest = r
                     /\ ended => Holds(new, FALSE)
                     /\ ~ended => /\ Holds(new, TRUE)
                                  /\ Receives(new, request[r].url, callbacks', source'[r], r)
  PROVE  \A m \in Nodes : Faithful(m)'
<1> SUFFICES ASSUME NEW m \in Nodes
             PROVE  Faithful(m)'
  OBVIOUS
<1>0. /\ DOMAIN node = Nodes /\ DOMAIN request = Requests
      /\ NoNode \notin Nodes /\ NoRequest \notin Requests
  BY TypeFacts DEF IInv, ResourceConstants
<1>1. ended => request'[r].client = NoNode /\ \A q \in Requests : q # r => request'[q] = request[q]
  BY <1>0 DEF Completed, Deleted
<1>2. ~ended => request' = request
  OBVIOUS
<1>3. CASE Heard(r) /\ request[r].client = m
  <2>1. node'[m] = new /\ new.latest = r
    BY <1>0, <1>3
  <2>2. CASE ended
    <3>1. ~Waits(m)'
      BY <1>0, <1>1, <2>1, <2>2 DEF Waits
    <3>2. Holds(node'[m], Waits(m)')
      BY <1>3, <2>1, <2>2, <3>1 DEF Holds
    <3> QED
      BY <3>1, <3>2 DEF Faithful, Holds
  <2>3. CASE ~ended
    <3>1. Waits(m)'
      BY <1>0, <1>2, <1>3, <2>1, <2>3 DEF Waits
    <3>2. Holds(node'[m], Waits(m)')
      BY <1>3, <2>1, <2>3, <3>1 DEF Holds
    <3>3. Receives(new, request'[r].url, callbacks', source'[r], r)
      BY <1>2, <1>3, <2>3
    <3> QED
      BY <2>1, <3>2, <3>3 DEF Faithful
  <2> QED
    BY <2>2, <2>3
<1>4. CASE ~(Heard(r) /\ request[r].client = m)
  <2>1. node'[m] = node[m]
    BY <1>0, <1>4
  <2>2. node[m].latest = r => request[r].client # m
    BY <1>0, <1>4 DEF Heard
  <2>3. \A l \in Requests : l = node[m].latest =>
          (request'[l].client = m <=> request[l].client = m)
    BY <1>0, <1>1, <1>2, <2>2
  <2>4. \A l \in Requests : l = node[m].latest /\ request[l].client = m =>
          /\ request'[l].url = request[l].url
          /\ source'[l] = source[l]
          /\ QueueKept(callbacks, callbacks', l)
    BY <1>1, <1>2, <2>2
  <2> QED
    BY <2>1, <2>3, <2>4, StillFaithful
<1> QED
  BY <1>3, <1>4
-----------------------------------------------------------------------------
(***************************************************************************)
(* Nodes stay faithful: one lemma for each action.                          *)
(***************************************************************************)
LEMMA InitFaithful ==
  ASSUME ResourceConstants, Init
  PROVE  \A n \in Nodes : Faithful(n)
<1> SUFFICES ASSUME NEW n \in Nodes
             PROVE  Faithful(n)
  OBVIOUS
<1>1. node[n] = NewNode
  BY DEF Init
<1>2. ~Waits(n)
  BY <1>1 DEF Waits, NewNode
<1>3. Holds(NewNode, FALSE)
  BY ShowsNothing DEF Holds, NewNode
<1> QED
  BY <1>1, <1>2, <1>3 DEF Faithful, Holds

LEMMA CreateFaithful ==
  ASSUME ResourceConstants, DInv, NEW n \in Nodes, Create(n)
  PROVE  \A m \in Nodes : Faithful(m)'
<1>1. NewNode.latest = NoRequest
  BY DEF NewNode
<1>2. Holds(NewNode, FALSE)
  BY ShowsNothing DEF Holds, NewNode
<1>3. node' = [node EXCEPT ![n] = NewNode] /\ UNCHANGED requests
  BY DEF Create
<1> QED
  BY <1>1, <1>2, <1>3, OnlyNodeFaithful DEF DInv

LEMMA SetUrlFaithful ==
  ASSUME ResourceConstants, DInv, NEW n \in Nodes, NEW u \in Urls \union {NoUrl},
         SetUrl(n, u)
  PROVE  \A m \in Nodes : Faithful(m)'
<1> DEFINE new == [node[n] EXCEPT !.url = u, !.dirty = TRUE]
<1>1. node[n] \in NodeState
  BY WaitsFacts DEF DInv
<1>2. /\ new.dirty = TRUE /\ new.exists = node[n].exists /\ new.latest = node[n].latest
      /\ new.resource = node[n].resource /\ new.stream = node[n].stream
      /\ new.streamUrl = node[n].streamUrl /\ new.asFile = node[n].asFile
  BY <1>1 DEF NodeState
<1>3. node' = [node EXCEPT ![n] = new] /\ UNCHANGED requests
  BY DEF SetUrl
<1> HIDE DEF new
<1>4. Holds(new, Waits(n))
  BY <1>2 DEF DInv, Faithful, Holds
<1> QED
  BY <1>2, <1>3, <1>4, OnlyNodeFaithful DEF DInv

LEMMA SetStoreFaithful ==
  ASSUME ResourceConstants, DInv, NEW n \in Nodes, NEW s \in Stores, SetStore(n, s)
  PROVE  \A m \in Nodes : Faithful(m)'
<1> DEFINE new == [node[n] EXCEPT !.store = s, !.dirty = TRUE]
<1>1. node[n] \in NodeState
  BY WaitsFacts DEF DInv
<1>2. /\ new.dirty = TRUE /\ new.exists = node[n].exists /\ new.latest = node[n].latest
      /\ new.resource = node[n].resource /\ new.stream = node[n].stream
      /\ new.streamUrl = node[n].streamUrl /\ new.asFile = node[n].asFile
  BY <1>1 DEF NodeState
<1>3. node' = [node EXCEPT ![n] = new] /\ UNCHANGED requests
  BY DEF SetStore
<1> HIDE DEF new
<1>4. Holds(new, Waits(n))
  BY <1>2 DEF DInv, Faithful, Holds
<1> QED
  BY <1>2, <1>3, <1>4, OnlyNodeFaithful DEF DInv

LEMMA EvaluateSettledFaithful ==
  ASSUME ResourceConstants, DInv, NEW n \in Nodes, EvaluateSettled(n)
  PROVE  \A m \in Nodes : Faithful(m)'
<1> DEFINE new == [node[n] EXCEPT !.firstEval = FALSE, !.dirty = FALSE]
<1>1. node[n] \in NodeState
  BY WaitsFacts DEF DInv
<1>2. /\ new.url = node[n].url /\ new.exists = node[n].exists /\ new.latest = node[n].latest
      /\ new.resource = node[n].resource /\ new.stream = node[n].stream
      /\ new.streamUrl = node[n].streamUrl /\ new.asFile = node[n].asFile
  BY <1>1 DEF NodeState
<1>3. node' = [node EXCEPT ![n] = new] /\ UNCHANGED requests /\ SameUrl(n)
  BY DEF EvaluateSettled
<1> HIDE DEF new
<1>4. Holds(new, Waits(n))
  BY <1>2, <1>3 DEF DInv, Faithful, Holds, SameUrl
<1> QED
  BY <1>2, <1>3, <1>4, OnlyNodeFaithful DEF DInv

LEMMA EvaluateKeptFaithful ==
  ASSUME ResourceConstants, DInv, NEW n \in Nodes, EvaluateKept(n)
  PROVE  \A m \in Nodes : Faithful(m)'
<1> DEFINE told == SetResourceData(node[n])
           new == [told EXCEPT !.dirty = FALSE]
           v == node[n].streamUrl
<1>1. node[n] \in NodeState /\ ~Waits(n)
  BY WaitsFacts DEF DInv, EvaluateKept
<1>2. /\ node' = [node EXCEPT ![n] = new] /\ UNCHANGED requests
      /\ node[n].url = v /\ node[n].exists
  BY DEF EvaluateKept, SameUrl
<1>3. Shows(node[n].resource, v) /\ Shows(node[n].stream, v)
  BY <1>1, <1>2 DEF DInv, Faithful, Holds
<1>4. /\ told \in NodeState /\ SameRequest(told, node[n])
      /\ Shows(told.resource, v) /\ Shows(told.stream, v)
  BY <1>1, <1>3, SetResourceDataFacts, SetResourceDataShows
<1> HIDE DEF told
<1>5. /\ new.url = told.url /\ new.latest = told.latest /\ new.streamUrl = told.streamUrl
      /\ new.resource = told.resource /\ new.stream = told.stream
  BY <1>4 DEF NodeState
<1> HIDE DEF new
<1>6. Holds(new, FALSE) /\ new.latest = node[n].latest
  BY <1>2, <1>4, <1>5 DEF Holds, SameRequest
<1> HIDE DEF v
<1> QED
  BY <1>1, <1>2, <1>6, OnlyNodeFaithful DEF DInv

LEMMA EvaluateEmptyFaithful ==
  ASSUME ResourceConstants, DInv, NEW n \in Nodes, EvaluateEmpty(n)
  PROVE  \A m \in Nodes : Faithful(m)'
<1>1. node[n] \in NodeState
  BY WaitsFacts DEF DInv
<1>2. PICK new : new = Emptied(node[n], NoRequest)
  OBVIOUS
<1>3. /\ new.latest = NoRequest /\ new.resource = NoResource /\ new.stream = NoResource
      /\ new.url = new.streamUrl
  BY <1>1, <1>2, EmptiedFacts, EmptiedShows
<1>4. Holds(new, FALSE)
  BY <1>3, ShowsNothing DEF Holds
<1>5. node' = [node EXCEPT ![n] = new] /\ UNCHANGED requests
  BY <1>2 DEF EvaluateEmpty
<1> QED
  BY <1>3, <1>4, <1>5, OnlyNodeFaithful DEF DInv

LEMMA DestroyFaithful ==
  ASSUME ResourceConstants, DInv, NEW n \in Nodes, Destroy(n)
  PROVE  \A m \in Nodes : Faithful(m)'
<1> SUFFICES ASSUME NEW m \in Nodes
             PROVE  Faithful(m)'
  OBVIOUS
<1> DEFINE new == [node[n] EXCEPT !.exists = FALSE]
<1>0. /\ DOMAIN node = Nodes /\ node[n] \in NodeState /\ NoNode \notin Nodes
      /\ \A r \in Requests : request[r] \in RequestInfo
      /\ node' = [node EXCEPT ![n] = new] /\ UNCHANGED <<source, callbacks>>
  BY TypeFacts DEF DInv, IInv, Destroy, ResourceConstants
<1>1. /\ new.exists = FALSE /\ new.latest = node[n].latest
      /\ new.resource = node[n].resource /\ new.streamUrl = node[n].streamUrl
  BY <1>0 DEF NodeState
<1> HIDE DEF new
<1>2. \A r \in Requests :
        IF node[n].inProgress
        THEN request'[r] = IF request[r].client = n THEN [request[r] EXCEPT !.client = NoNode]
                                                    ELSE request[r]
        ELSE request'[r] = request[r]
  BY DEF Destroy, Cancelled
<1>3. \A r \in Requests :
        /\ request'[r].url = request[r].url
        /\ request'[r].client = IF node[n].inProgress /\ request[r].client = n
                                THEN NoNode ELSE request[r].client
  BY <1>0, <1>2 DEF RequestInfo
<1>4. CASE m = n
  <2>1. node'[n] = new
    BY <1>0
  <2>2. ~Waits(n)'
    <3>1. CASE node[n].inProgress
      BY <1>0, <1>1, <1>3, <2>1, <3>1, WaitsFacts DEF DInv, Waits
    <3>2. CASE ~node[n].inProgress
      <4>1. ~Waits(n)
        BY <3>2, WaitsFacts DEF DInv
      <4> QED
        BY <1>1, <1>3, <2>1, <3>2, <4>1, WaitsFacts DEF DInv, Waits
    <3> QED
      BY <3>1, <3>2
  <2>3. Holds(new, FALSE)
    BY <1>1 DEF DInv, Faithful, Holds
  <2> QED
    BY <1>4, <2>1, <2>2, <2>3 DEF Faithful, Holds
<1>5. CASE m # n
  <2>1. node'[m] = node[m]
    BY <1>0, <1>5
  <2>2. \A l \in Requests :
          /\ request'[l].url = request[l].url /\ source'[l] = source[l]
          /\ request'[l].client = m <=> request[l].client = m
          /\ QueueKept(callbacks, callbacks', l)
    BY <1>0, <1>3, <1>5 DEF QueueKept
  <2> QED
    BY <2>1, <2>2, StillFaithful DEF DInv
<1> QED
  BY <1>4, <1>5

\* What get leaves for a new request: a source, or answers at once.
GotAtOnce(r, t, s, u, asFile) ==
  \/ /\ t = <<>> /\ s.kind \in {"job", "stream"} /\ (s.kind = "job" => ~asFile)
     /\ s.asFile = asFile /\ s.sent = 0
  \/ s.kind = "none" /\ t = <<Failure(r)>>
  \/ s.kind = "none" /\ asFile /\ t = <<File(r), Progress(r, Size[u])>>
  \/ s.kind = "none" /\ ~asFile /\ t = <<Progress(r, 0)>>

LEMMA RequestedLeaves ==
  ASSUME TypeOK, NEW n \in Nodes, NEW r \in Requests, NEW u \in Urls, NEW asFile \in BOOLEAN,
         Free(r), Requested(n, r, u, asFile)
  PROVE  /\ request' = [request EXCEPT ![r] = [pending |-> TRUE, client |-> n, url |-> u]]
         /\ \A q \in Requests \ {r} : source'[q] = source[q]
         /\ \E t : callbacks' = callbacks \o t /\ GotAtOnce(r, t, source'[r], u, asFile)
<1>1. PICK found \in BOOLEAN :
        LET now == IF found /\ u \in Http THEN <<>>
                   ELSE ScheduledAtOnce(r, u, asFile, found)
            kind == IF u \in Http THEN "stream" ELSE "job"
        IN  /\ request' = [request EXCEPT ![r] = [pending |-> TRUE, client |-> n, url |-> u]]
            /\ callbacks' = callbacks \o now
            /\ source' = IF now # <<>> THEN source
                         ELSE [source EXCEPT ![r] =
                                 [kind |-> kind, url |-> u, asFile |-> asFile,
                                  sent |-> 0, finished |-> FALSE]]
  BY DEF Requested
<1> DEFINE now == IF found /\ u \in Http THEN <<>> ELSE ScheduledAtOnce(r, u, asFile, found)
           kind == IF u \in Http THEN "stream" ELSE "job"
           new == [kind |-> kind, url |-> u, asFile |-> asFile, sent |-> 0, finished |-> FALSE]
<1>2. /\ callbacks' = callbacks \o now
      /\ source' = IF now # <<>> THEN source ELSE [source EXCEPT ![r] = new]
  BY <1>1
<1>3. \/ now = <<>> /\ (kind = "job" => ~asFile)
      \/ now = <<Failure(r)>>
      \/ asFile /\ now = <<File(r), Progress(r, Size[u])>>
      \/ ~asFile /\ now = <<Progress(r, 0)>>
  BY DEF ScheduledAtOnce
<1>4. new.kind = kind /\ new.asFile = asFile /\ new.sent = 0 /\ kind \in {"job", "stream"}
  OBVIOUS
<1> HIDE DEF now, kind, new
<1>5. source[r].kind = "none" /\ DOMAIN source = Requests
  BY TypeFacts DEF Free, NoSource
<1>6. now # <<>> => source'[r].kind = "none"
  BY <1>2, <1>5
<1>7. now = <<>> => source'[r] = new
  BY <1>2, <1>5
<1>8. GotAtOnce(r, now, source'[r], u, asFile)
  <2>1. CASE now = <<>> /\ (kind = "job" => ~asFile)
    BY <1>4, <1>7, <2>1 DEF GotAtOnce
  <2>2. CASE now = <<Failure(r)>>
    BY <1>6, <2>2 DEF GotAtOnce
  <2>3. CASE asFile /\ now = <<File(r), Progress(r, Size[u])>>
    BY <1>6, <2>3 DEF GotAtOnce
  <2>4. CASE ~asFile /\ now = <<Progress(r, 0)>>
    BY <1>6, <2>4 DEF GotAtOnce
  <2> QED
    BY <1>3, <2>1, <2>2, <2>3, <2>4
<1>9. \A q \in Requests \ {r} : source'[q] = source[q]
  BY <1>2, <1>5
<1> QED
  BY <1>1, <1>2, <1>8, <1>9

Starts(nd, u, asFile) ==
  /\ nd.resource = NoResource /\ nd.stream = NoResource /\ nd.streamUrl = u
  /\ nd.asFile = asFile

\* The node that asks has nothing, and all of it is on its way.
LEMMA FirstReceives ==
  ASSUME ResourceConstants, NEW nd, NEW u \in Urls, NEW q \in Seq(Answer), NEW t, NEW s,
         NEW r \in Requests, NEW asFile \in BOOLEAN,
         GotAtOnce(r, t, s, u, asFile),
         \A i \in DOMAIN q : q[i].request # r,
         Starts(nd, u, asFile)
  PROVE  /\ t \in Seq(Answer) /\ \A i \in DOMAIN t : t[i].request = r
         /\ Receives(nd, u, q \o t, s, r)
<1>0. Size[u] \in Nat
  BY ContentFacts
<1>1. /\ t \in Seq(Answer)
      /\ \A i \in DOMAIN t :
           /\ t[i].request = r /\ t[i].kind # "data"
           /\ ~asFile => t[i].kind # "file" /\ (t[i].kind = "progress" => t[i].at = 0)
  <2>0. \A a, b \in Answer : /\ <<>> \in Seq(Answer) /\ <<a>> \in Seq(Answer)
                             /\ <<a, b>> \in Seq(Answer)
    OBVIOUS
  <2>1. CASE t = <<>>
    BY <2>0, <2>1, DataFacts
  <2>2. CASE t = <<Failure(r)>>
    BY <2>0, <2>2, DataFacts
  <2>3. CASE asFile /\ t = <<File(r), Progress(r, Size[u])>>
    BY <1>0, <2>0, <2>3, DataFacts
  <2>4. CASE ~asFile /\ t = <<Progress(r, 0)>>
    BY <2>0, <2>4, DataFacts
  <2> QED
    BY <2>1, <2>2, <2>3, <2>4 DEF GotAtOnce
<1>2. s.kind \in {"none", "job", "stream"} /\ (s.kind # "none" => t = <<>> /\ s.asFile = asFile /\ s.sent = 0)
      /\ (s.kind = "job" => ~asFile)
  BY DEF GotAtOnce
<1>3. /\ nd.stream.data = <<>> /\ nd.stream.file = NoUrl
      /\ nd.resource = NoResource /\ nd.streamUrl = u /\ nd.asFile = asFile
  BY DEF NoResource, Starts
<1> DEFINE p == q \o t
<1>4. /\ \A i \in DOMAIN q : i \in DOMAIN p /\ p[i] = q[i]
      /\ \A i \in DOMAIN t : Len(q) + i \in DOMAIN p /\ p[Len(q) + i] = t[i]
      /\ \A i \in DOMAIN p : i \in DOMAIN q \/ \E j \in DOMAIN t : i = Len(q) + j
  BY <1>1, AppendedFacts
<1> HIDE DEF p
<1>5. CASE asFile
  <2>1. \A i \in DOMAIN p : p[i].request = r => p[i].kind # "data"
    BY <1>1, <1>4
  <2>2. Receives(nd, u, p, s, r)
    BY <1>2, <1>3, <1>5, <2>1 DEF Receives
  <2> QED
    BY <1>1, <2>2 DEF p
<1>6. CASE ~asFile
  <2>1. InOrder(q, r, 0, u)
    BY DEF InOrder
  <2>2. InOrder(q \o t, r, 0, u)
    <3>1. 0 \in Nat
      OBVIOUS
    <3>2. ASSUME NEW i \in DOMAIN t, t[i].kind \in {"data", "progress"}, NEW k \in 0..(t[i].at - 1)
          PROVE  FALSE
      BY <1>1, <1>6, <3>2
    <3> QED
      BY <1>1, <1>6, <2>1, <3>1, <3>2, InOrderAppended
  <2>3. Sending(p, s, r, 0)
    <3>1. s.kind # "none" => \A i \in DOMAIN p : p[i].request # r
      BY <1>2, <1>4
    <3>2. 0..(0 - 1) = {}
      OBVIOUS
    <3> QED
      BY <1>2, <1>6, <3>1, <3>2 DEF Sending
  <2>4. <<>> = Chunks(u, 0) /\ 0 \in 0..Size[u]
    BY <1>0, ChunksFacts
  <2> QED
    BY <1>1, <1>3, <1>6, <2>2, <2>3, <2>4 DEF Receives, p
<1> QED
  BY <1>5, <1>6

LEMMA EvaluateLoadFaithful ==
  ASSUME ResourceConstants, DInv, NEW n \in Nodes, NEW r \in Requests, EvaluateLoad(n, r)
  PROVE  \A m \in Nodes : Faithful(m)'
<1> SUFFICES ASSUME NEW m \in Nodes
             PROVE  Faithful(m)'
  OBVIOUS
<1>0. /\ DOMAIN node = Nodes /\ DOMAIN request = Requests /\ node[n] \in NodeState
      /\ NoNode \notin Nodes /\ NoRequest \notin Requests
      /\ TypeOK /\ IInv
  BY TypeFacts DEF DInv, IInv, ResourceConstants
<1>1. /\ node[n].url # NoUrl /\ Free(r) /\ node[n].exists
      /\ node' = [node EXCEPT ![n] = [Emptied(node[n], r) EXCEPT !.inProgress = TRUE]]
      /\ Requested(n, r, node[n].url, node[n].store.asFile)
  BY DEF EvaluateLoad, MustLoad
<1>2. PICK u \in Urls : u = node[n].url
  BY <1>0, <1>1 DEF NodeState
<1>3. PICK asFile \in BOOLEAN : asFile = node[n].store.asFile
  BY <1>0 DEF NodeState
<1>4. PICK new : new = [Emptied(node[n], r) EXCEPT !.inProgress = TRUE]
  OBVIOUS
<1>5. /\ new.resource = NoResource /\ new.stream = NoResource
      /\ new.url = u /\ new.streamUrl = u /\ new.asFile = asFile /\ new.latest = r
  <2>1. PICK e \in NodeState : e = Emptied(node[n], r)
    BY <1>0, EmptiedFacts
  <2>2. /\ e.resource = NoResource /\ e.stream = NoResource
        /\ e.url = u /\ e.streamUrl = u /\ e.asFile = asFile /\ e.latest = r
    BY <1>0, <1>2, <1>3, <2>1, EmptiedFacts, EmptiedShows
  <2> QED
    BY <1>4, <2>1, <2>2 DEF NodeState
<1>6. /\ request' = [request EXCEPT ![r] = [pending |-> TRUE, client |-> n, url |-> u]]
      /\ \A q \in Requests \ {r} : source'[q] = source[q]
      /\ \E t : callbacks' = callbacks \o t /\ GotAtOnce(r, t, source'[r], u, asFile)
  <2>1. Requested(n, r, u, asFile) /\ Free(r)
    BY <1>1, <1>2, <1>3
  <2> QED
    BY <1>0, <2>1, RequestedLeaves
<1>7. PICK t : callbacks' = callbacks \o t /\ GotAtOnce(r, t, source'[r], u, asFile)
  BY <1>6
<1>8. request[r] = Deleted /\ \A i \in DOMAIN callbacks : callbacks[i].request # r
  <2>1. RequestSound(r) /\ ~request[r].pending
    BY <1>0, <1>1 DEF IInv, Sound, Free
  <2> QED
    BY <2>1 DEF RequestSound, Queued
<1>9. PICK q \in Seq(Answer) : q = callbacks
  BY <1>0, TypeFacts
<1>10. /\ t \in Seq(Answer) /\ \A i \in DOMAIN t : t[i].request = r
       /\ Receives(new, u, q \o t, source'[r], r)
  <2>1. \A i \in DOMAIN q : q[i].request # r
    BY <1>8, <1>9
  <2>2. PICK s : s = source'[r]
    OBVIOUS
  <2>3. GotAtOnce(r, t, s, u, asFile)
    BY <1>7, <2>2
  <2>4. Starts(new, u, asFile)
    BY <1>5 DEF Starts
  <2>5. /\ t \in Seq(Answer) /\ \A i \in DOMAIN t : t[i].request = r
        /\ Receives(new, u, q \o t, s, r)
    BY <2>1, <2>3, <2>4, FirstReceives
  <2> QED
    BY <2>2, <2>5
<1>11. CASE m = n
  <2>1. node'[m] = new
    BY <1>0, <1>1, <1>4, <1>11
  <2>2. request'[r].client = m /\ request'[r].url = u
    BY <1>0, <1>6, <1>11
  <2>3. Waits(m)'
    BY <1>0, <1>5, <2>1, <2>2 DEF Waits
  <2>4. Holds(new, TRUE)
    BY <1>5, ShowsNothing DEF Holds
  <2>5. Receives(node'[m], request'[node'[m].latest].url, callbacks',
                 source'[node'[m].latest], node'[m].latest)
    BY <1>5, <1>7, <1>9, <1>10, <2>1, <2>2
  <2> QED
    BY <2>1, <2>3, <2>4, <2>5 DEF Faithful, Holds
<1>12. CASE m # n
  <2>1. node'[m] = node[m]
    BY <1>0, <1>1, <1>12
  <2>2. request[r].client # m
    BY <1>0, <1>8 DEF Deleted
  <2>3. \A l \in Requests : request'[l].client = m <=> request[l].client = m
    BY <1>0, <1>6, <1>12, <2>2
  <2>4. ASSUME NEW l \in Requests, request[l].client = m
        PROVE  /\ request'[l].url = request[l].url /\ source'[l] = source[l]
               /\ QueueKept(callbacks, callbacks', l)
    <3>1. l # r
      BY <2>2, <2>4
    <3>2. \A i \in DOMAIN t : t[i].request # l
      BY <1>10, <3>1
    <3>3. QueueKept(callbacks, callbacks', l)
      BY <1>7, <1>10, <3>2, Zenon DEF QueueKept
    <3> QED
      BY <1>0, <1>6, <3>1, <3>3
  <2> QED
    BY <1>0, <2>1, <2>3, <2>4, StillFaithful DEF DInv
<1> QED
  BY <1>11, <1>12

\* The client that hears an answer, and what it receives.
LEMMA HearingFaithful ==
  ASSUME ResourceConstants, DInv, NEW r \in Requests, Heard(r)
  PROVE  LET c == request[r].client
             u == request[r].url
         IN  /\ c \in Nodes /\ u \in Urls
             /\ node[c] \in NodeState /\ node[c].latest = r
             /\ Holds(node[c], TRUE)
             /\ Receives(node[c], u, callbacks, source[r], r)
<1>1. PICK c : c = request[r].client
  OBVIOUS
<1>2. c \in Nodes /\ node[c].latest = r
  BY <1>1, TypeFacts DEF DInv, IInv, Heard, RequestInfo
<1>3. Waits(c)
  BY <1>1, <1>2 DEF Waits, ResourceConstants
<1>4. node[c] \in NodeState /\ request[r].url \in Urls
  BY <1>2, <1>3, WaitsFacts DEF DInv
<1>5. Faithful(c)
  BY <1>2 DEF DInv
<1>6. Holds(node[c], TRUE)
  BY <1>3, <1>5 DEF Faithful, Holds
<1>7. Receives(node[c], request[r].url, callbacks, source[r], r)
  BY <1>2, <1>3, <1>5 DEF Faithful
<1> QED
  BY <1>1, <1>2, <1>4, <1>6, <1>7

\* A job changes no node: it schedules answers behind the others.
LEMMA JobFaithful ==
  ASSUME ResourceConstants, DInv, NEW r \in Requests, NEW t \in Seq(Answer), NEW s,
         UNCHANGED <<node, request, retained>>,
         callbacks' = callbacks \o t, \A i \in DOMAIN t : t[i].request = r,
         source' = [source EXCEPT ![r] = s],
         Heard(r) => Receives(node[request[r].client], request[r].url, callbacks \o t, s, r)
  PROVE  \A m \in Nodes : Faithful(m)'
<1>0. DOMAIN source = Requests /\ IInv /\ DOMAIN node = Nodes
      /\ node = [n \in Nodes |-> node[n]]
  BY TypeFacts DEF DInv, IInv, TypeOK
<1>1. PICK new : new = node[request[r].client]
  OBVIOUS
<1>2. node' = IF Heard(r) THEN [node EXCEPT ![request[r].client] = new] ELSE node
  BY <1>0, <1>1
<1>3. ASSUME NEW q \in Requests \ {r}
      PROVE  source'[q] = source[q] /\ QueueKept(callbacks, callbacks', q)
  <2>1. \A i \in DOMAIN t : t[i].request # q
    BY <1>3
  <2>2. QueueKept(callbacks, callbacks', q)
    BY <2>1, Zenon DEF QueueKept
  <2> QED
    BY <1>0, <1>3, <2>2
<1>4. Heard(r) => /\ new.latest = r
                  /\ Holds(new, TRUE)
                  /\ Receives(new, request[r].url, callbacks', source'[r], r)
  BY <1>0, <1>1, HearingFaithful
<1>5. FALSE \in BOOLEAN /\ UNCHANGED <<request, retained>>
  OBVIOUS
<1> QED
  BY <1>0, <1>2, <1>3, <1>4, <1>5, AnswerFaithful DEF DInv

LEMMA JobReadFaithful ==
  ASSUME ResourceConstants, DInv, NEW r \in Requests, JobRead(r)
  PROVE  \A m \in Nodes : Faithful(m)'
<1>0. /\ source[r].kind = "job" /\ source[r] \in Source /\ callbacks \in Seq(Answer)
      /\ Sound(r)
  BY TypeFacts DEF DInv, IInv, JobRead
<1>1. PICK k \in Nat : k = source[r].sent
  BY <1>0 DEF Source
<1>2. PICK t : t = <<Data(r, k), Progress(r, k + 1)>>
  OBVIOUS
<1>3. t \in Seq(Answer) /\ \A i \in DOMAIN t : t[i].request = r
  <2>1. \A a, b \in Answer : <<a, b>> \in Seq(Answer)
    OBVIOUS
  <2>2. k + 1 \in Nat
    OBVIOUS
  <2> QED
    BY <1>2, <2>1, <2>2, DataFacts
<1>4. PICK s : s = IF k + 1 = Size[source[r].url] THEN NoSource
                   ELSE [source[r] EXCEPT !.sent = k + 1]
  OBVIOUS
<1>5. /\ UNCHANGED <<node, request, retained>>
      /\ callbacks' = callbacks \o t
      /\ source' = [source EXCEPT ![r] = s]
  BY <1>1, <1>2, <1>4 DEF JobRead
<1>6. s.kind = "none" \/ (s.kind = "job" /\ s.sent = k + 1)
  BY <1>0, <1>4 DEF Source, NoSource
<1>7. ASSUME Heard(r)
      PROVE  Receives(node[request[r].client], request[r].url, callbacks \o t, s, r)
  <2>1. k < Size[request[r].url]
    BY <1>0, <1>1 DEF Sound, SourceSound
  <2>2. request[r].url \in Urls
        /\ Receives(node[request[r].client], request[r].url, callbacks, source[r], r)
    BY <1>7, HearingFaithful
  <2>3. PICK nd : nd = node[request[r].client]
    OBVIOUS
  <2>4. PICK u \in Urls : u = request[r].url
    BY <2>2
  <2>5. PICK q \in Seq(Answer) : q = callbacks
    BY <1>0
  <2>6. PICK s1 \in Source : s1 = source[r]
    BY <1>0
  <2>7. Receives(nd, u, q \o t, s, r)
    BY <1>0, <1>1, <1>2, <1>6, <2>1, <2>2, <2>3, <2>4, <2>5, <2>6, JobReadReceives
  <2> QED
    BY <2>3, <2>4, <2>5, <2>7
<1> QED
  BY <1>3, <1>5, <1>7, JobFaithful

LEMMA JobFailsFaithful ==
  ASSUME ResourceConstants, DInv, NEW r \in Requests, JobFails(r)
  PROVE  \A m \in Nodes : Faithful(m)'
<1>0. source[r].kind = "job" /\ callbacks \in Seq(Answer)
  BY TypeFacts DEF DInv, IInv, JobFails
<1>1. PICK q \in Seq(Answer) : q = callbacks
  BY <1>0
<1>2. PICK t : t = <<Failure(r)>>
  OBVIOUS
<1>3. /\ t \in Seq(Answer) /\ \A i \in DOMAIN t : t[i].request = r
      /\ q \o t = Append(q, Failure(r))
  <2>1. \A a \in Answer : <<a>> \in Seq(Answer) /\ q \o <<a>> = Append(q, a)
    OBVIOUS
  <2> QED
    BY <1>2, <2>1, DataFacts
<1>4. /\ UNCHANGED <<node, request, retained>>
      /\ callbacks' = callbacks \o t
      /\ source' = [source EXCEPT ![r] = NoSource]
  BY <1>1, <1>3 DEF JobFails
<1>5. ASSUME Heard(r)
      PROVE  Receives(node[request[r].client], request[r].url, callbacks \o t, NoSource, r)
  <2>1. request[r].url \in Urls
        /\ Receives(node[request[r].client], request[r].url, q, source[r], r)
    BY <1>1, <1>5, HearingFaithful
  <2>2. Receives(node[request[r].client], request[r].url, Append(q, Failure(r)), NoSource, r)
    BY <1>0, <2>1, JobFailsReceives
  <2> QED
    BY <1>1, <1>3, <2>2
<1> QED
  BY <1>3, <1>4, <1>5, JobFaithful

\* What has come for the stream is no more than there is.
LEMMA ReceivedLength ==
  ASSUME ResourceConstants, NEW nd, NEW u \in Urls, NEW q, NEW s, NEW r,
         Receives(nd, u, q, s, r)
  PROVE  Len(nd.stream.data) <= Size[u]
<1>0. Size[u] \in Nat
  BY ContentFacts
<1>1. CASE nd.asFile
  <2>1. nd.stream.data = <<>>
    BY <1>1 DEF Receives
  <2> QED
    BY <1>0, <2>1
<1>2. CASE ~nd.asFile
  <2>1. PICK m \in 0..Size[u] : nd.stream.data = Chunks(u, m)
    BY <1>2 DEF Receives
  <2>2. m \in Nat /\ m <= Size[u]
    BY <1>0
  <2>3. Len(Chunks(u, m)) = m
    BY <2>2, ChunksFacts
  <2> QED
    BY <2>1, <2>2, <2>3
<1> QED
  BY <1>1, <1>2

\* The answer that says that all is done comes when all has come.
LEMMA AllReceived ==
  ASSUME ResourceConstants, NEW nd \in NodeState, NEW u \in Urls, NEW q \in Seq(Answer),
         q # <<>>, NEW s, NEW r \in Requests, Receives(nd, u, q, s, r),
         Head(q).request = r, Head(q).kind = "progress", Head(q).at = Size[u]
  PROVE  Shows(nd.stream, u)
<1>0. Size[u] \in Nat /\ Content(u) = Chunks(u, Size[u])
  BY ContentFacts
<1>1. CASE nd.asFile
  BY <1>1 DEF Receives, Shows
<1>2. CASE ~nd.asFile
  <2>1. PICK m \in 0..Size[u] : nd.stream.data = Chunks(u, m) /\ InOrder(q, r, m, u)
    BY <1>2 DEF Receives
  <2>2. Head(q) = q[1] /\ 1 \in DOMAIN q /\ DOMAIN q = 1..Len(q)
    BY TailFacts
  <2>3. m = Size[u]
    <3> SUFFICES ASSUME m # Size[u]
                 PROVE  FALSE
      OBVIOUS
    <3>1. m \in m..(Size[u] - 1)
      BY <1>0
    <3>2. PICK j \in DOMAIN q : j < 1 /\ q[j] = Data(r, m)
      BY <2>1, <2>2, <3>1 DEF InOrder
    <3> QED
      BY <2>2, <3>2
  <2>4. nd.stream.file = NoUrl
    BY <1>2 DEF Receives
  <2> QED
    BY <1>0, <2>1, <2>3, <2>4 DEF Shows
<1> QED
  BY <1>1, <1>2

LEMMA ReceivesTail ==
  ASSUME ResourceConstants, NEW nd, NEW u \in Urls, NEW q \in Seq(Answer), q # <<>>,
         NEW s, NEW r \in Requests, Receives(nd, u, q, s, r),
         ~(Head(q).request = r /\ Head(q).kind = "data")
  PROVE  Receives(nd, u, Tail(q), s, r)
<1>1. \A i \in DOMAIN Tail(q) : i + 1 \in DOMAIN q /\ Tail(q)[i] = q[i + 1]
  BY TailFacts
<1>2. nd.asFile => \A i \in DOMAIN Tail(q) : Tail(q)[i].request = r => Tail(q)[i].kind # "data"
  BY <1>1 DEF Receives
<1>3. ASSUME NEW m \in 0..Size[u], InOrder(q, r, m, u), Sending(q, s, r, m)
      PROVE  InOrder(Tail(q), r, m, u) /\ Sending(Tail(q), s, r, m)
  <2>1. m \in Nat
    BY ContentFacts
  <2> QED
    BY <1>3, <2>1, InOrderTail, SendingTail
<1> QED
  BY <1>2, <1>3 DEF Receives

\* One more chunk for a node that has the first m.
LEMMA ChunkAdded ==
  ASSUME NEW nd \in NodeState, NEW u \in Urls, NEW m \in Nat,
         nd.stream.data = Chunks(u, m)
  PROVE  LET new == OnData(nd, m, u)
         IN  /\ new \in NodeState /\ new.stream.data = Chunks(u, m + 1)
             /\ new.stream.file = nd.stream.file /\ new.resource = nd.resource
             /\ new.dirty = nd.dirty /\ SameRequest(new, nd)
<1>1. nd.stream \in Resource
  BY DEF NodeState
<1>2. Filled(nd.stream.data, m, u) = Chunks(u, m + 1)
  BY FilledNext
<1>3. OnData(nd, m, u) = [nd EXCEPT !.stream = [nd.stream EXCEPT !.data = Chunks(u, m + 1)]]
  BY <1>2 DEF OnData, NodeState
<1>4. /\ [nd.stream EXCEPT !.data = Chunks(u, m + 1)].data = Chunks(u, m + 1)
      /\ [nd.stream EXCEPT !.data = Chunks(u, m + 1)].file = nd.stream.file
  BY <1>1 DEF Resource
<1>5. /\ OnData(nd, m, u).stream.data = Chunks(u, m + 1)
      /\ OnData(nd, m, u).stream.file = nd.stream.file
      /\ OnData(nd, m, u).resource = nd.resource /\ OnData(nd, m, u).dirty = nd.dirty
  BY <1>3, <1>4 DEF NodeState
<1> QED
  BY <1>5, OnDataFacts

LEMMA FileAdded ==
  ASSUME NEW nd \in NodeState, NEW u \in Urls
  PROVE  LET new == OnFile(nd, u)
         IN  /\ new \in NodeState /\ new.stream.data = nd.stream.data
             /\ new.stream.file = u /\ new.resource = nd.resource
             /\ new.dirty = nd.dirty /\ SameRequest(new, nd)
<1>1. nd.stream \in Resource
  BY DEF NodeState
<1>2. OnFile(nd, u) = [nd EXCEPT !.stream = [nd.stream EXCEPT !.file = u]]
  BY DEF OnFile, NodeState
<1>3. /\ [nd.stream EXCEPT !.file = u].data = nd.stream.data
      /\ [nd.stream EXCEPT !.file = u].file = u
  BY <1>1 DEF Resource
<1>4. /\ OnFile(nd, u).stream.data = nd.stream.data /\ OnFile(nd, u).stream.file = u
      /\ OnFile(nd, u).resource = nd.resource /\ OnFile(nd, u).dirty = nd.dirty
  BY <1>2, <1>3 DEF NodeState
<1> QED
  BY <1>4, OnFileFacts

\* The first answer is of r, and goes to a node that waits for it.
Takes(nd, u, q, s, r) ==
  /\ nd \in NodeState /\ Holds(nd, TRUE) /\ Receives(nd, u, q, s, r)
  /\ s \in Source /\ s.kind # "stream"
  /\ q # <<>> /\ Head(q).request = r
  /\ Head(q).kind = "progress" => Head(q).at <= Size[u]
  /\ Announced[u] = Size[u]

\* It is the last ...
LastAnswer(a, u) == a.kind = "failure" \/ (a.kind = "progress" /\ a.at = Size[u])

\* ... and what the node makes of it.
LEMMA TakenFaithful ==
  ASSUME ResourceConstants, NEW nd, NEW u \in Urls, NEW q \in Seq(Answer), NEW s,
         NEW r \in Requests, Takes(nd, u, q, s, r)
  PROVE  IF LastAnswer(Head(q), u)
         THEN Holds(OnAnswer(nd, Head(q), u), FALSE)
         ELSE /\ Holds(OnAnswer(nd, Head(q), u), TRUE)
              /\ Receives(OnAnswer(nd, Head(q), u), u, Tail(q), s, r)
<1> USE DEF Takes
<1>a. PICK a : a = Head(q)
  OBVIOUS
<1>0. /\ a \in Answer /\ a.at \in Nat /\ Size[u] \in Nat /\ Head(q) = q[1] /\ 1 \in DOMAIN q
      /\ a.kind \in {"data", "progress", "file", "failure"}
  <2>1. a \in Answer /\ Head(q) = q[1] /\ 1 \in DOMAIN q
    BY <1>a, TailFacts
  <2> QED
    BY <2>1, ContentFacts DEF Answer
<1>1. /\ nd.streamUrl = u /\ nd.resource = NoResource /\ Shows(nd.resource, u)
      /\ nd.exists /\ ~nd.dirty => nd.url = u
  BY DEF Receives, Holds
<1>2. CASE a.kind = "failure"
  <2>1. OnAnswer(nd, a, u) = OnFailure(nd)
    BY <1>2 DEF OnAnswer
  <2> QED
    BY <1>1, <1>2, <2>1, OnFailureShows, <1>a DEF LastAnswer
<1>3. CASE a.kind = "progress" /\ a.at = Size[u]
  <2>1. OnAnswer(nd, a, u) = OnProgress(nd, Size[u], Size[u])
    BY <1>3 DEF OnAnswer
  <2>2. Shows(nd.stream, u)
    BY <1>3, <1>a, AllReceived
  <2> QED
    BY <1>1, <1>3, <2>1, <2>2, OnProgressAll, <1>a DEF LastAnswer
<1>4. CASE a.kind = "progress" /\ a.at # Size[u]
  <2>1. OnAnswer(nd, a, u) = OnProgress(nd, a.at, Size[u])
    BY <1>4 DEF OnAnswer
  <2>2. Len(nd.stream.data) <= Size[u]
    BY ReceivedLength
  <2>3. a.at < Size[u]
    BY <1>0, <1>4, <1>a
  <2>4. OnAnswer(nd, a, u) = nd
    BY <1>0, <2>1, <2>2, <2>3, OnProgressPart
  <2>5. Receives(nd, u, Tail(q), s, r)
    BY <1>4, <1>a, ReceivesTail
  <2> QED
    BY <1>4, <2>4, <2>5, <1>a DEF LastAnswer
<1>5. CASE a.kind = "file"
  <2>1. nd.asFile
    <3> SUFFICES ASSUME ~nd.asFile
                 PROVE  FALSE
      OBVIOUS
    <3>1. PICK m \in 0..Size[u] : InOrder(q, r, m, u)
      BY DEF Receives
    <3> QED
      BY <1>0, <1>5, <1>a, <3>1 DEF InOrder
  <2>2. PICK new : new = OnAnswer(nd, a, u)
    OBVIOUS
  <2>3. /\ new.stream.data = nd.stream.data
        /\ new.stream.file = u /\ new.resource = nd.resource
        /\ new.dirty = nd.dirty /\ SameRequest(new, nd)
    BY <1>5, <2>2, FileAdded DEF OnAnswer
  <2>4. Receives(nd, u, Tail(q), s, r)
    BY <1>5, <1>a, ReceivesTail
  <2>5. Receives(new, u, Tail(q), s, r)
    BY <2>1, <2>3, <2>4 DEF Receives, SameRequest
  <2>6. Holds(new, TRUE)
    BY <2>3 DEF Holds, SameRequest
  <2> QED
    BY <1>5, <2>2, <2>5, <2>6, <1>a DEF LastAnswer
<1>6. CASE a.kind = "data"
  <2>1. ~nd.asFile
    BY <1>0, <1>6, <1>a DEF Receives
  <2>2. PICK m \in 0..Size[u] :
          nd.stream.data = Chunks(u, m) /\ InOrder(q, r, m, u) /\ Sending(q, s, r, m)
    BY <2>1 DEF Receives
  <2>3. m \in Nat
    BY <1>0
  <2>4. a.at = m /\ m < Size[u] /\ InOrder(Tail(q), r, m + 1, u)
    BY <1>6, <1>a, <2>2, <2>3, InOrderTaken
  <2>5. a = Data(r, m)
    BY <1>0, <1>6, <2>3, <2>4, <1>a, DataFacts
  <2>6. Sending(Tail(q), s, r, m + 1)
    BY <1>a, <2>2, <2>3, <2>5, SendingTaken
  <2>7. PICK new : new = OnAnswer(nd, a, u)
    OBVIOUS
  <2>8. new = OnData(nd, m, u)
    BY <1>6, <2>4, <2>7 DEF OnAnswer
  <2>9. /\ new.stream.data = Chunks(u, m + 1)
        /\ new.stream.file = nd.stream.file /\ new.resource = nd.resource
        /\ new.dirty = nd.dirty /\ SameRequest(new, nd)
    BY <2>2, <2>3, <2>8, ChunkAdded
  <2>10. m + 1 \in 0..Size[u] /\ nd.stream.file = NoUrl
    BY <1>0, <2>1, <2>3, <2>4 DEF Receives
  <2>11. Receives(new, u, Tail(q), s, r)
    BY <1>1, <2>1, <2>4, <2>6, <2>9, <2>10 DEF Receives, SameRequest
  <2>12. Holds(new, TRUE)
    BY <2>9 DEF Holds, SameRequest
  <2> QED
    BY <1>6, <2>7, <2>11, <2>12, <1>a DEF LastAnswer
<1> QED
  BY <1>0, <1>2, <1>3, <1>4, <1>5, <1>6, <1>a DEF LastAnswer

LEMMA RunCallbackFaithful ==
  ASSUME ResourceConstants, HonestHttp, DInv, RunCallback
  PROVE  \A m \in Nodes : Faithful(m)'
<1>0. /\ IInv /\ TypeOK /\ callbacks \in Seq(Answer) /\ callbacks # <<>>
      /\ callbacks' = Tail(callbacks) /\ UNCHANGED source
  BY TypeFacts DEF DInv, IInv, RunCallback
<1>1. PICK q \in Seq(Answer) : q = callbacks
  BY <1>0
<1>2. Head(q) \in Answer /\ Head(q) = q[1] /\ 1 \in DOMAIN q
  BY <1>0, <1>1, TailFacts
<1>3. PICK a \in Answer : a = Head(q)
  BY <1>2
<1>4. PICK r \in Requests : r = a.request
  BY DEF Answer
<1>5. /\ node' = Told(r, a)
      /\ IF Ends(r, a) THEN Completed(r) ELSE UNCHANGED <<request, retained>>
  BY <1>1, <1>3, <1>4 DEF RunCallback
<1>6. /\ source[r].kind # "stream" /\ source[r] \in Source
      /\ request[r].url \in Urls
      /\ a.kind = "progress" => a.at <= Announced[request[r].url]
  <2>1. 1 \in Queued(r) /\ callbacks[1] = a
    BY <1>1, <1>2, <1>3, <1>4 DEF Queued
  <2>2. AnswersSound(r) /\ RequestSound(r)
    BY <1>0 DEF IInv, Sound
  <2> QED
    BY <1>0, <2>1, <2>2, TypeFacts DEF AnswersSound, RequestSound
<1>7. PICK u \in Urls : u = request[r].url
  BY <1>6
<1>8. Announced[u] = Size[u]
  BY DEF HonestHttp, ResourceConstants
<1>9. PICK new : new = OnAnswer(node[request[r].client], a, u)
  OBVIOUS
<1>10. node' = IF Heard(r) THEN [node EXCEPT ![request[r].client] = new] ELSE node
  BY <1>5, <1>7, <1>9 DEF Told
<1>11. \A p \in Requests \ {r} : /\ source'[p] = source[p]
                                 /\ QueueKept(callbacks, callbacks', p)
  BY <1>0, <1>1, <1>3, <1>4 DEF QueueKept
<1>12. ASSUME Heard(r)
       PROVE  /\ new.latest = r
              /\ Ends(r, a) => Holds(new, FALSE)
              /\ ~Ends(r, a) => /\ Holds(new, TRUE)
                                /\ Receives(new, request[r].url, callbacks', source'[r], r)
  <2>1. PICK nd : nd = node[request[r].client]
    OBVIOUS
  <2>2. /\ nd \in NodeState /\ nd.latest = r /\ Holds(nd, TRUE)
        /\ Receives(nd, u, q, source[r], r)
    BY <1>1, <1>7, <1>12, <2>1, HearingFaithful
  <2>3. PICK s \in Source : s = source[r]
    BY <1>6
  <2>4. a.kind = "progress" => a.at <= Size[u]
    BY <1>6, <1>7, <1>8
  <2>5. Takes(nd, u, q, s, r)
    BY <1>0, <1>1, <1>3, <1>4, <1>6, <1>8, <2>2, <2>3, <2>4 DEF Takes
  <2>6. /\ LastAnswer(a, u) => Holds(new, FALSE)
        /\ ~LastAnswer(a, u) => Holds(new, TRUE) /\ Receives(new, u, Tail(q), s, r)
    BY <1>3, <1>9, <2>1, <2>5, TakenFaithful
  <2>7. new.latest = r
    <3>1. SameRequest(OnAnswer(nd, a, u), nd)
      BY <1>8, <2>2, <2>4, OnAnswerFacts
    <3> QED
      BY <1>9, <2>1, <2>2, <3>1 DEF SameRequest
  <2>8. Ends(r, a) <=> LastAnswer(a, u)
    BY <1>7, <1>8 DEF Ends, LastAnswer
  <2> QED
    BY <1>0, <1>1, <1>7, <2>3, <2>6, <2>7, <2>8
<1>13. Ends(r, a) \in BOOLEAN
  BY DEF Ends
<1> QED
  BY <1>0, <1>5, <1>10, <1>11, <1>12, <1>13, AnswerFaithful DEF DInv

\* The stream s, which the node nd waits for, is given the next chunk ...
Writes(nd, u, q, s, r) ==
  /\ nd \in NodeState /\ Holds(nd, TRUE) /\ Receives(nd, u, q, s, r)
  /\ s \in Source /\ s.kind = "stream" /\ s.sent < Size[u]
  /\ \A i \in DOMAIN q : q[i].request # r

\* ... which it gives to the node, unless a file is wanted, and says so, unless the
\* file is to come.
Tells(s, u) == ~s.asFile \/ s.sent + 1 # Size[u]
WithChunk(nd, u, s) == IF s.asFile THEN nd ELSE OnData(nd, s.sent, u)
Written(nd, u, s) ==
  IF Tells(s, u) THEN OnProgress(WithChunk(nd, u, s), s.sent + 1, Size[u])
                 ELSE WithChunk(nd, u, s)

LEMMA ChunkWritten ==
  ASSUME ResourceConstants, NEW nd, NEW u \in Urls, NEW q \in Seq(Answer), NEW s,
         NEW s2, s2.kind = "stream", s2.asFile = s.asFile, s2.sent = s.sent + 1,
         NEW r \in Requests, Writes(nd, u, q, s, r)
  PROVE  IF Tells(s, u) /\ s.sent + 1 = Size[u]
         THEN Holds(Written(nd, u, s), FALSE)
         ELSE Holds(Written(nd, u, s), TRUE) /\ Receives(Written(nd, u, s), u, q, s2, r)
<1> USE DEF Writes
<1>0. /\ nd.streamUrl = u /\ nd.resource = NoResource /\ Shows(nd.resource, u)
      /\ nd.exists /\ ~nd.dirty => nd.url = u
      /\ s.sent \in Nat /\ s.sent + 1 \in Nat /\ Size[u] \in Nat
  BY ContentFacts DEF Receives, Holds, Source
<1>1. CASE s.asFile
  <2>1. WithChunk(nd, u, s) = nd /\ (Tells(s, u) => s.sent + 1 < Size[u])
    BY <1>0, <1>1 DEF WithChunk, Tells
  <2>2. Len(nd.stream.data) <= Size[u]
    BY ReceivedLength
  <2>3. Written(nd, u, s) = nd
    BY <1>0, <2>1, <2>2, OnProgressPart DEF Written
  <2>4. nd.asFile
    <3> SUFFICES ASSUME ~nd.asFile
                 PROVE  FALSE
      OBVIOUS
    <3>1. PICK m \in 0..Size[u] : Sending(q, s, r, m)
      BY DEF Receives
    <3> QED
      BY <1>1, <3>1 DEF Sending
  <2>5. Holds(nd, TRUE) /\ Receives(nd, u, q, s2, r)
    BY <1>1, <2>4 DEF Receives
  <2>6. ~(Tells(s, u) /\ s.sent + 1 = Size[u])
    BY <1>0, <2>1
  <2> QED
    BY <2>3, <2>5, <2>6
<1>2. CASE ~s.asFile
  <2>0. PICK data : data = OnData(nd, s.sent, u)
    OBVIOUS
  <2>1. Tells(s, u) /\ Written(nd, u, s) = OnProgress(data, s.sent + 1, Size[u])
    BY <1>2, <2>0 DEF Tells, Written, WithChunk
  <2>2. ~nd.asFile
    BY <1>2 DEF Receives
  <2>3. PICK m \in 0..Size[u] : nd.stream.data = Chunks(u, m) /\ Sending(q, s, r, m)
    BY <2>2 DEF Receives
  <2>4. m = s.sent
    BY <2>3 DEF Sending
  <2>5. /\ data \in NodeState /\ data.stream.data = Chunks(u, s.sent + 1)
        /\ data.stream.file = nd.stream.file /\ data.resource = nd.resource
        /\ data.dirty = nd.dirty /\ SameRequest(data, nd)
    BY <1>0, <2>0, <2>3, <2>4, ChunkAdded
  <2>6. nd.stream.file = NoUrl
    BY <2>2 DEF Receives
  <2>7. CASE s.sent + 1 = Size[u]
    <3>1. Content(u) = Chunks(u, Size[u])
      BY ContentFacts
    <3>2. Shows(data.stream, u)
      BY <2>5, <2>6, <2>7, <3>1 DEF Shows
    <3>3. /\ Shows(data.resource, u) /\ data.streamUrl = u
          /\ data.exists /\ ~data.dirty => data.url = u
      BY <1>0, <2>5 DEF SameRequest
    <3>4. Written(nd, u, s) = OnProgress(data, Size[u], Size[u])
      BY <2>1, <2>7
    <3> QED
      BY <2>1, <2>5, <2>7, <3>2, <3>3, <3>4, OnProgressAll
  <2>8. CASE s.sent + 1 # Size[u]
    <3>1. s.sent + 1 < Size[u] /\ s.sent + 1 \in 0..Size[u]
      BY <1>0, <2>8
    <3>2. Len(data.stream.data) <= Size[u]
      BY <1>0, <2>5, <3>1, ChunksFacts
    <3>3. Written(nd, u, s) = data
      BY <1>0, <2>1, <2>5, <3>1, <3>2, OnProgressPart
    <3>4. Holds(data, TRUE)
      BY <2>5 DEF Holds, SameRequest
    <3>5. InOrder(q, r, s.sent + 1, u)
      BY DEF InOrder
    <3>6. Sending(q, s2, r, s.sent + 1)
      BY <1>2 DEF Sending
    <3>7. Receives(data, u, q, s2, r)
      <4>1. /\ data.resource = NoResource /\ data.streamUrl = u /\ ~data.asFile
            /\ data.stream.file = NoUrl
        BY <1>0, <2>2, <2>5, <2>6 DEF SameRequest
      <4> QED
        BY <2>5, <3>1, <3>5, <3>6, <4>1 DEF Receives
    <3> QED
      BY <2>8, <3>3, <3>4, <3>7
  <2> QED
    BY <2>7, <2>8
<1> QED
  BY <1>1, <1>2

\* A stream's answers are given, not scheduled.
LEMMA StreamUnscheduled ==
  ASSUME ResourceConstants, IInv, NEW r \in Requests, source[r].kind = "stream"
  PROVE  \A i \in DOMAIN callbacks : callbacks[i].request # r
<1>1. Queued(r) = {}
  BY DEF IInv, Sound, AnswersSound
<1> QED
  BY <1>1 DEF Queued

LEMMA StreamWriteFaithful ==
  ASSUME ResourceConstants, HonestHttp, DInv, NEW r \in Requests, StreamWrite(r)
  PROVE  \A m \in Nodes : Faithful(m)'
<1>0. /\ source[r].kind = "stream" /\ source[r].sent < Size[source[r].url]
      /\ UNCHANGED callbacks /\ IInv /\ callbacks \in Seq(Answer)
  BY TypeFacts DEF StreamWrite, DInv, IInv
<1>1. PICK u \in Urls : u = source[r].url
  BY <1>0, StreamFacts
<1>2. PICK s \in Source : s = source[r]
  BY <1>0, StreamFacts
<1>3. /\ s.kind = "stream" /\ s.sent \in Nat /\ s.sent < Size[u] /\ Size[u] \in Nat
      /\ Announced[u] = Size[u] /\ ~s.finished /\ request[r].url = u
  BY <1>0, <1>1, <1>2, StreamFacts
<1>4. PICK ended \in BOOLEAN : ended <=> Tells(s, u) /\ s.sent + 1 = Size[u]
  OBVIOUS
<1>5. PICK nd : nd = node[request[r].client]
  OBVIOUS
<1>6. PICK new : new = Written(nd, u, s)
  OBVIOUS
<1>7. /\ node' = IF Heard(r) THEN [node EXCEPT ![request[r].client] = new] ELSE node
      /\ IF ended THEN Completed(r) ELSE UNCHANGED <<request, retained>>
  BY <1>1, <1>2, <1>3, <1>4, <1>5, <1>6 DEF StreamWrite, Written, WithChunk, Tells
<1>8. PICK s2 : s2 = [s EXCEPT !.sent = s.sent + 1, !.finished = ended]
  OBVIOUS
<1>9. source' = [source EXCEPT ![r] = s2]
  BY <1>1, <1>2, <1>3, <1>4, <1>8 DEF StreamWrite, Source, Tells
<1>10. s2.kind = "stream" /\ s2.asFile = s.asFile /\ s2.sent = s.sent + 1
  BY <1>3, <1>8 DEF Source
<1>11. PICK q \in Seq(Answer) : q = callbacks
  BY <1>0
<1>12. \A p \in Requests \ {r} : /\ source'[p] = source[p]
                                 /\ QueueKept(callbacks, callbacks', p)
  BY <1>0, <1>9 DEF QueueKept
<1>13. source'[r] = s2
  BY <1>9, TypeFacts DEF DInv, IInv
<1>14. ASSUME Heard(r)
       PROVE  /\ new.latest = r
              /\ ended => Holds(new, FALSE)
              /\ ~ended => Holds(new, TRUE) /\ Receives(new, u, q, s2, r)
  <2>1. /\ nd \in NodeState /\ nd.latest = r /\ Holds(nd, TRUE)
        /\ Receives(nd, u, q, s, r)
    BY <1>2, <1>3, <1>5, <1>11, <1>14, HearingFaithful
  <2>2. \A i \in DOMAIN q : q[i].request # r
    BY <1>0, <1>11, StreamUnscheduled
  <2>3. Writes(nd, u, q, s, r)
    BY <1>3, <2>1, <2>2 DEF Writes
  <2>4. /\ ended => Holds(new, FALSE)
        /\ ~ended => Holds(new, TRUE) /\ Receives(new, u, q, s2, r)
    BY <1>4, <1>6, <1>10, <2>3, ChunkWritten
  <2>5. new.latest = r
    <3>1. PICK data : data = WithChunk(nd, u, s)
      OBVIOUS
    <3>2. data \in NodeState /\ data.latest = r
      BY <1>3, <2>1, <3>1, OnDataFacts DEF WithChunk, SameRequest
    <3>3. s.sent + 1 \in Nat /\ Size[u] \in Nat
      BY <1>3
    <3>4. SameRequest(OnProgress(data, s.sent + 1, Size[u]), data)
      BY <3>2, <3>3, OnProgressFacts
    <3> QED
      BY <1>6, <3>1, <3>2, <3>4 DEF Written, SameRequest
  <2> QED
    BY <2>4, <2>5
<1>15. Heard(r) => /\ new.latest = r
                   /\ ended => Holds(new, FALSE)
                   /\ ~ended => /\ Holds(new, TRUE)
                                /\ Receives(new, request[r].url, callbacks', source'[r], r)
  BY <1>0, <1>3, <1>11, <1>13, <1>14
<1> QED
  BY <1>0, <1>7, <1>12, <1>15, AnswerFaithful DEF DInv

LEMMA StreamAsFileFaithful ==
  ASSUME ResourceConstants, HonestHttp, DInv, NEW r \in Requests, StreamAsFile(r)
  PROVE  \A m \in Nodes : Faithful(m)'
<1>0. /\ source[r].kind = "stream" /\ source[r].asFile /\ ~source[r].finished
      /\ UNCHANGED callbacks /\ Completed(r) /\ IInv /\ callbacks \in Seq(Answer)
      /\ source' = [source EXCEPT ![r].finished = TRUE]
  BY TypeFacts DEF StreamAsFile, DInv, IInv
<1>1. PICK u \in Urls : u = source[r].url
  BY <1>0, StreamFacts
<1>2. Announced[u] = Size[u] /\ request[r].url = u
  BY <1>0, <1>1, StreamFacts
<1>3. PICK nd : nd = node[request[r].client]
  OBVIOUS
<1>4. PICK f : f = OnFile(nd, u)
  OBVIOUS
<1>5. PICK new : new = OnProgress(f, Size[u], Size[u])
  OBVIOUS
<1>6. node' = IF Heard(r) THEN [node EXCEPT ![request[r].client] = new] ELSE node
  BY <1>1, <1>2, <1>3, <1>4, <1>5 DEF StreamAsFile
<1>7. \A p \in Requests \ {r} : /\ source'[p] = source[p]
                                /\ QueueKept(callbacks, callbacks', p)
  BY <1>0 DEF QueueKept
<1>8. ASSUME Heard(r)
      PROVE  new.latest = r /\ Holds(new, FALSE)
  <2>1. /\ nd \in NodeState /\ nd.latest = r /\ Holds(nd, TRUE)
        /\ Receives(nd, u, callbacks, source[r], r)
    BY <1>2, <1>3, <1>8, HearingFaithful
  <2>2. nd.asFile
    <3> SUFFICES ASSUME ~nd.asFile
                 PROVE  FALSE
      OBVIOUS
    <3>1. PICK m \in 0..Size[u] : Sending(callbacks, source[r], r, m)
      BY <2>1 DEF Receives
    <3> QED
      BY <1>0, <3>1 DEF Sending
  <2>3. /\ f \in NodeState /\ f.stream.data = nd.stream.data /\ f.stream.file = u
        /\ f.resource = nd.resource /\ f.dirty = nd.dirty /\ SameRequest(f, nd)
    BY <1>4, <2>1, FileAdded
  <2>4. /\ Shows(f.resource, u) /\ f.streamUrl = u
        /\ f.exists /\ ~f.dirty => f.url = u
    BY <2>1, <2>3 DEF Receives, Holds, SameRequest
  <2>5. Shows(f.stream, u)
    BY <2>1, <2>2, <2>3 DEF Receives, Shows
  <2>6. Holds(new, FALSE)
    BY <1>5, <2>3, <2>4, <2>5, OnProgressAll
  <2>7. Size[u] \in Nat
    BY ContentFacts
  <2>8. SameRequest(OnProgress(f, Size[u], Size[u]), f)
    BY <2>3, <2>7, OnProgressFacts
  <2> QED
    BY <1>5, <2>1, <2>3, <2>6, <2>8 DEF SameRequest
<1>9. PICK ended \in BOOLEAN : ended = TRUE
  OBVIOUS
<1>10. /\ IF ended THEN Completed(r) ELSE UNCHANGED <<request, retained>>
       /\ Heard(r) => /\ new.latest = r
                      /\ ended => Holds(new, FALSE)
                      /\ ~ended => /\ Holds(new, TRUE)
                                   /\ Receives(new, request[r].url, callbacks', source'[r], r)
  BY <1>0, <1>8, <1>9
<1> QED
  BY <1>0, <1>6, <1>7, <1>10, AnswerFaithful DEF DInv

\* A stream that is done with its request ends: no node waits for it.
LEMMA StreamEndsFaithful ==
  ASSUME ResourceConstants, HonestHttp, DInv, NEW r \in Requests,
         source[r].kind = "stream", source[r].finished,
         source' = [source EXCEPT ![r] = NoSource],
         UNCHANGED <<node, request, retained, callbacks>>
  PROVE  \A m \in Nodes : Faithful(m)'
<1> SUFFICES ASSUME NEW m \in Nodes
             PROVE  Faithful(m)'
  OBVIOUS
<1>1. IInv /\ Faithful(m) /\ DOMAIN source = Requests
  BY TypeFacts DEF DInv, IInv
<1>2. request[r].client = NoNode
  <2>1. RequestSound(r)
    BY <1>1 DEF IInv, Sound
  <2>2. ~request[r].pending
    BY <1>1, StreamFacts
  <2> QED
    BY <2>1, <2>2 DEF RequestSound, Deleted
<1>3. request[r].client # m
  BY <1>2 DEF ResourceConstants
<1>4. \A l \in Requests : request[l].client = m => source'[l] = source[l]
  BY <1>1, <1>3
<1>5. \A l \in Requests : QueueKept(callbacks, callbacks', l)
  BY DEF QueueKept
<1> QED
  BY <1>1, <1>4, <1>5, StillFaithful

LEMMA StreamDoneFaithful ==
  ASSUME ResourceConstants, HonestHttp, DInv, NEW r \in Requests, StreamDone(r)
  PROVE  \A m \in Nodes : Faithful(m)'
<1>1. source[r].kind = "stream" /\ source[r].sent = Size[source[r].url]
  BY DEF StreamDone
<1>2. source[r].finished
  BY <1>1 DEF StreamDone, DInv, IInv, Sound, SourceSound
<1> QED
  BY <1>1, <1>2, StreamEndsFaithful DEF StreamDone

LEMMA StreamBreaksFaithful ==
  ASSUME ResourceConstants, HonestHttp, DInv, NEW r \in Requests, StreamBreaks(r)
  PROVE  \A m \in Nodes : Faithful(m)'
<1>0. /\ source[r].kind = "stream" /\ source' = [source EXCEPT ![r] = NoSource]
      /\ UNCHANGED callbacks /\ IInv
  BY DEF StreamBreaks, DInv
<1>1. CASE source[r].finished
  BY <1>0, <1>1, StreamEndsFaithful DEF StreamBreaks
<1>2. CASE ~source[r].finished
  <2>1. PICK nd : nd = node[request[r].client]
    OBVIOUS
  <2>2. PICK new : new = OnFailure(nd)
    OBVIOUS
  <2>3. /\ node' = IF Heard(r) THEN [node EXCEPT ![request[r].client] = new] ELSE node
        /\ Completed(r)
    BY <1>2, <2>1, <2>2 DEF StreamBreaks, Told, OnAnswer, Failure
  <2>4. \A p \in Requests \ {r} : /\ source'[p] = source[p]
                                  /\ QueueKept(callbacks, callbacks', p)
    BY <1>0 DEF QueueKept
  <2>5. ASSUME Heard(r)
        PROVE  new.latest = r /\ Holds(new, FALSE)
    <3>1. PICK u \in Urls : u = request[r].url
      BY <2>5, HearingFaithful
    <3>2. /\ nd \in NodeState /\ nd.latest = r /\ Holds(nd, TRUE)
          /\ Receives(nd, u, callbacks, source[r], r)
      BY <2>1, <2>5, <3>1, HearingFaithful
    <3>3. /\ nd.streamUrl = u /\ Shows(nd.resource, u)
          /\ nd.exists /\ ~nd.dirty => nd.url = u
      BY <3>2 DEF Receives, Holds
    <3>4. Holds(new, FALSE)
      BY <2>2, <3>2, <3>3, OnFailureShows
    <3>5. SameRequest(OnFailure(nd), nd)
      BY <3>2, OnFailureFacts
    <3> QED
      BY <2>2, <3>2, <3>4, <3>5 DEF SameRequest
  <2>6. PICK ended \in BOOLEAN : ended = TRUE
    OBVIOUS
  <2>7. /\ IF ended THEN Completed(r) ELSE UNCHANGED <<request, retained>>
        /\ Heard(r) => /\ new.latest = r
                       /\ ended => Holds(new, FALSE)
                       /\ ~ended => /\ Holds(new, TRUE)
                                    /\ Receives(new, request[r].url, callbacks', source'[r], r)
    BY <2>3, <2>5, <2>6
  <2> QED
    BY <1>0, <2>3, <2>4, <2>7, AnswerFaithful DEF DInv
<1> QED
  BY <1>1, <1>2
-----------------------------------------------------------------------------
LEMMA NextFaithful ==
  ASSUME ResourceConstants, HonestHttp, DInv, [Next]_vars
  PROVE  \A m \in Nodes : Faithful(m)'
<1>1. ASSUME NEW n \in Nodes, Command(n)
      PROVE  \A m \in Nodes : Faithful(m)'
  <2>1. CASE Create(n)
    BY <2>1, CreateFaithful
  <2>2. CASE Destroy(n)
    BY <2>2, DestroyFaithful
  <2>3. CASE \E u \in Urls \union {NoUrl} : SetUrl(n, u)
    BY <2>3, SetUrlFaithful
  <2>4. CASE \E s \in Stores : SetStore(n, s)
    BY <2>4, SetStoreFaithful
  <2>5. CASE EvaluateSettled(n)
    BY <2>5, EvaluateSettledFaithful
  <2>6. CASE EvaluateKept(n)
    BY <2>6, EvaluateKeptFaithful
  <2>7. CASE \E r \in Requests : EvaluateLoad(n, r)
    BY <2>7, EvaluateLoadFaithful
  <2>8. CASE EvaluateEmpty(n)
    BY <2>8, EvaluateEmptyFaithful
  <2> QED
    BY <1>1, <2>1, <2>2, <2>3, <2>4, <2>5, <2>6, <2>7, <2>8 DEF Command
<1>2. ASSUME NEW r \in Requests, Job(r)
      PROVE  \A m \in Nodes : Faithful(m)'
  BY <1>2, JobReadFaithful, JobFailsFaithful DEF Job
<1>3. ASSUME NEW r \in Requests, Stream(r)
      PROVE  \A m \in Nodes : Faithful(m)'
  BY <1>3, StreamWriteFaithful, StreamAsFileFaithful, StreamDoneFaithful,
     StreamBreaksFaithful DEF Stream
<1>4. CASE RunCallback
  BY <1>4, RunCallbackFaithful
<1>5. CASE UNCHANGED vars
  <2>1. UNCHANGED <<node, request, retained, source, callbacks>>
    BY <1>5 DEF vars
  <2>2. \A l \in Requests : QueueKept(callbacks, callbacks', l)
    BY <2>1 DEF QueueKept
  <2> QED
    BY <2>1, <2>2, StillFaithful DEF DInv
<1> QED
  BY <1>1, <1>2, <1>3, <1>4, <1>5 DEF Next

\* What every node holds, and what it will hold of the answers on their way, is of
\* the URL it asked for, in any order in which commands, jobs, the browser and the
\* main thread's callbacks come.
THEOREM ContentsInvariance ==
  ASSUME HonestHttp
  PROVE  Spec => []DInv
<1>1. Init => DInv
  BY ResourceConstants, InitInvariant, InitFaithful DEF DInv
<1>2. DInv /\ [Next]_vars => DInv'
  <2> SUFFICES ASSUME DInv, [Next]_vars
               PROVE  DInv'
    OBVIOUS
  <2>1. IInv'
    BY ResourceConstants, NextInvariant DEF DInv
  <2>2. \A m \in Nodes : Faithful(m)'
    BY ResourceConstants, NextFaithful
  <2> QED
    BY <2>1, <2>2 DEF DInv
<1> QED
  BY <1>1, <1>2, PTL DEF Spec

\* The resource member of a node is never seen half filled, nor filled from two
\* URLs, however the chunks of old and new requests interleave: FabricResource's
\* data is all of a URL's, or none, or in a file.
THEOREM ResourceWholeHolds ==
  ASSUME HonestHttp
  PROVE  Spec => []ResourceWhole
<1>1. DInv => ResourceWhole
  BY DEF DInv, Faithful, Holds, Shows, ResourceWhole
<1> QED
  BY <1>1, ContentsInvariance, PTL

\* A clean node shows the URL that it is set to, or nothing: an answer of a request
\* that a new URL, or the node's destruction, has overtaken is never shown.
THEOREM CleanShowsUrlHolds ==
  ASSUME HonestHttp
  PROVE  Spec => []CleanShowsUrl
<1>1. DInv => CleanShowsUrl
  BY ResourceConstants DEF DInv, Faithful, Holds, Shows, CleanShowsUrl
<1> QED
  BY <1>1, ContentsInvariance, PTL
=============================================================================
