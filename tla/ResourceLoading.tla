--------------------------- MODULE ResourceLoading ---------------------------
(***************************************************************************)
(* Resource load nodes (DG/ResourceLoadNode), the manager that keeps their  *)
(* requests (IO/ResourceManager) and the providers that answer them:        *)
(* FileResourceProvider, whose jobs run on the thread pool and whose        *)
(* answers are scheduled to the main thread, and HTTPResourceProvider,      *)
(* which the browser calls on the main thread.  The client's commands, the  *)
(* scheduled callbacks and the browser's calls are steps of that thread and *)
(* exclude each other; the jobs run beside it.                              *)
(*                                                                          *)
(* A resource is a number of chunks; the data of a URL is known by the URL, *)
(* chunk by chunk.  m_streamGeneration is abstracted to the request it was  *)
(* given to, the only one whose answers bear it.  A request is a            *)
(* PendingRequestInfo, and stands for another once it has been deleted.     *)
(***************************************************************************)
EXTENDS Integers, FiniteSets, Sequences

CONSTANTS
  Nodes,      \* the resource load nodes
  Requests,   \* as many as are pending at once
  Urls,       \* what may be loaded
  Http,       \* subset of Urls: the provider is HTTPResourceProvider
  Size,       \* [Urls -> Nat], in chunks
  Announced,  \* [Urls -> Nat], what the provider takes for the size
  Stores,     \* what keepMemoryCache and storeDataAsFile may be set to
  NoUrl, NoNode, NoRequest

ASSUME ResourceConstants ==
  /\ IsFiniteSet(Nodes) /\ IsFiniteSet(Requests)
  /\ Http \subseteq Urls
  /\ Size \in [Urls -> Nat]
  /\ Announced \in [Urls -> Nat]
  /\ \A u \in Urls \ Http : Announced[u] = Size[u]
  /\ Stores \subseteq [keep : BOOLEAN, asFile : BOOLEAN]
  /\ NoUrl \notin Urls /\ NoNode \notin Nodes /\ NoRequest \notin Requests

VARIABLES
  node,      \* [Nodes -> NodeState]
  request,   \* [Requests -> RequestInfo], m_pendingRequests
  retained,  \* [Nodes -> Int], how often requests retain a node
  source,    \* [Requests -> Source], FileStream or HTTPStream
  callbacks  \* the answers scheduled to the main thread, in order

vars == <<node, request, retained, source, callbacks>>

\* The bytes from chunk i on are those of data[i]; NoUrl for bytes never set.
\* file is dataExternalLocation.
Resource == [data : Seq(Urls \union {NoUrl}), file : Urls \union {NoUrl}]
NoResource == [data |-> <<>>, file |-> NoUrl]

NodeState ==
  [exists : BOOLEAN,
   url : Urls \union {NoUrl},           \* the members of the node ...
   store : [keep : BOOLEAN, asFile : BOOLEAN],
   resource : Resource,
   streamUrl : Urls \union {NoUrl},     \* m_fabricResourceStreamData
   stream : Resource,
   keep : BOOLEAN,                      \* m_keepMemoryCache
   asFile : BOOLEAN,                    \* m_asFile
   firstEval : BOOLEAN,                 \* m_firstEvalAfterLoad
   inProgress : BOOLEAN,                \* m_inProgress
   latest : Requests \union {NoRequest},
   dirty : BOOLEAN]

RequestInfo ==
  [pending : BOOLEAN, client : Nodes \union {NoNode}, url : Urls \union {NoUrl}]
Deleted == [pending |-> FALSE, client |-> NoNode, url |-> NoUrl]

Source ==
  [kind : {"none", "job", "stream"}, url : Urls \union {NoUrl}, asFile : BOOLEAN,
   sent : Nat, finished : BOOLEAN]
NoSource ==
  [kind |-> "none", url |-> NoUrl, asFile |-> FALSE, sent |-> 0, finished |-> FALSE]

Answer == [kind : {"data", "progress", "file", "failure"}, request : Requests, at : Nat]
Data(r, k) == [kind |-> "data", request |-> r, at |-> k]
Progress(r, k) == [kind |-> "progress", request |-> r, at |-> k]
File(r) == [kind |-> "file", request |-> r, at |-> 0]
Failure(r) == [kind |-> "failure", request |-> r, at |-> 0]
-----------------------------------------------------------------------------
(***************************************************************************)
(* What a node makes of an answer of its latest request.                    *)
(***************************************************************************)
Filled(data, k, u) ==
  [i \in 1..(IF k < Len(data) THEN Len(data) ELSE k + 1) |->
     IF i = k + 1 THEN u ELSE IF i <= Len(data) THEN data[i] ELSE NoUrl]

\* setResourceData: the member, and with it the node, changes only if the data or
\* the location does, and the stream's data is dropped only then.
SetResourceData(nd) ==
  IF nd.stream = nd.resource
  THEN [nd EXCEPT !.firstEval = TRUE]
  ELSE [nd EXCEPT !.firstEval = TRUE, !.resource = nd.stream, !.dirty = TRUE,
                  !.stream.data = IF nd.keep THEN @ ELSE <<>>]

\* A mutant of OnFailure: what was received is kept.
OnFailureKept(nd) == SetResourceData([nd EXCEPT !.inProgress = FALSE])

OnData(nd, k, u) == [nd EXCEPT !.stream.data = Filled(@, k, u)]

OnFile(nd, u) == [nd EXCEPT !.stream.file = u]

OnFailure(nd) ==
  SetResourceData([nd EXCEPT !.stream = NoResource, !.inProgress = FALSE])

OnProgress(nd, done, total) ==
  LET cut == [nd EXCEPT !.stream.data =
                IF total < Len(@) THEN SubSeq(@, 1, total) ELSE @]
  IN  IF done < total THEN cut
      ELSE SetResourceData([cut EXCEPT !.inProgress = FALSE])

OnAnswer(nd, a, u) ==
  CASE a.kind = "data" -> OnData(nd, a.at, u)
    [] a.kind = "file" -> OnFile(nd, u)
    [] a.kind = "failure" -> OnFailure(nd)
    [] a.kind = "progress" -> OnProgress(nd, a.at, Announced[u])
-----------------------------------------------------------------------------
(***************************************************************************)
(* ResourceManager: a request is pending from get to the answer that ends   *)
(* it, and retains its client unless the client cancels it.                 *)
(***************************************************************************)
\* A mutant of Heard: an answer of any request of the node is taken.
HeardByClient(r) == request[r].client # NoNode

\* The request has its client still, and is the client's latest.
Heard(r) ==
  /\ request[r].client # NoNode
  /\ node[request[r].client].latest = r

\* An answer is given to the client, by onData, onFile, onProgress or onFailure.
Told(r, a) ==
  IF Heard(r)
  THEN [node EXCEPT ![request[r].client] = OnAnswer(@, a, request[r].url)]
  ELSE node

\* A mutant of Ends: a failure does not end a request.
EndsWhenDone(r, a) ==
  a.kind = "progress" /\ a.at = Announced[request[r].url]

\* It is the last if it says that the request failed or that all is done.
Ends(r, a) ==
  \/ a.kind = "failure"
  \/ a.kind = "progress" /\ a.at = Announced[request[r].url]

\* A mutant of Completed: the client is not released.
CompletedRetained(r) ==
  request' = [request EXCEPT ![r] = Deleted] /\ UNCHANGED retained

\* onCompletedRequest.
Completed(r) ==
  /\ request' = [request EXCEPT ![r] = Deleted]
  /\ retained' = [n \in Nodes |->
       IF n = request[r].client THEN retained[n] - 1 ELSE retained[n]]

\* A mutant of Cancelled: the client of a cancelled request is not cleared.
CancelledKept(n) == request

\* cancelRequests: the requests go on without their client.
Cancelled(n) ==
  [r \in Requests |->
     IF request[r].client = n THEN [request[r] EXCEPT !.client = NoNode]
                              ELSE request[r]]

RequestsOf(n) == {r \in Requests : request[r].client = n}

Free(r) ==
  /\ ~request[r].pending
  /\ source[r] = NoSource

\* What FileResourceProvider::get schedules at once; a failure to find the file is
\* an exception that ResourceManager::get turns into an answer.
ScheduledAtOnce(r, u, asFile, found) ==
  IF ~found THEN <<Failure(r)>>
  ELSE IF asFile THEN <<File(r), Progress(r, Size[u])>>
  ELSE IF Size[u] = 0 THEN <<Progress(r, 0)>>
  ELSE <<>>

\* ResourceManager::get, with the provider's: r is the new request.  The browser
\* may refuse a stream (NPN_GetURLNotify), and a file may not be found.
Requested(n, r, u, asFile) ==
  \E found \in BOOLEAN :
    LET now == IF found /\ u \in Http THEN <<>>
               ELSE ScheduledAtOnce(r, u, asFile, found)
        kind == IF u \in Http THEN "stream" ELSE "job"
    IN  /\ request' = [request EXCEPT ![r] =
                         [pending |-> TRUE, client |-> n, url |-> u]]
        /\ retained' = [retained EXCEPT ![n] = @ + 1]
        /\ callbacks' = callbacks \o now
        /\ source' = IF now # <<>> THEN source
                     ELSE [source EXCEPT ![r] =
                             [kind |-> kind, url |-> u, asFile |-> asFile,
                              sent |-> 0, finished |-> FALSE]]
-----------------------------------------------------------------------------
(***************************************************************************)
(* The client's commands.                                                   *)
(***************************************************************************)
requests == <<request, retained, source, callbacks>>

NewNode ==
  [exists |-> TRUE, url |-> NoUrl, store |-> [keep |-> FALSE, asFile |-> FALSE],
   resource |-> NoResource, streamUrl |-> NoUrl, stream |-> NoResource,
   keep |-> FALSE, asFile |-> FALSE, firstEval |-> FALSE, inProgress |-> FALSE,
   latest |-> NoRequest, dirty |-> TRUE]

\* A node is created anew in the place of one that is no longer in memory.
Create(n) ==
  /\ ~node[n].exists
  /\ retained[n] = 0
  /\ node' = [node EXCEPT ![n] = NewNode]
  /\ UNCHANGED requests

Destroy(n) ==
  /\ node[n].exists
  /\ node' = [node EXCEPT ![n].exists = FALSE]
  /\ IF node[n].inProgress
     THEN /\ request' = Cancelled(n)
          /\ retained' = [retained EXCEPT ![n] = @ - Cardinality(RequestsOf(n))]
     ELSE UNCHANGED <<request, retained>>
  /\ UNCHANGED <<source, callbacks>>

SetUrl(n, u) ==
  /\ node[n].exists
  /\ node' = [node EXCEPT ![n].url = u, ![n].dirty = TRUE]
  /\ UNCHANGED requests

SetStore(n, s) ==
  /\ node[n].exists
  /\ node' = [node EXCEPT ![n].store = s, ![n].dirty = TRUE]
  /\ UNCHANGED requests

\* evaluateResource on a dirty node, with the end of evaluateLocal, which cleans
\* it.  The answer is on its way, or is there since the last evaluation ...
SameUrl(n) == node[n].streamUrl = node[n].url

EvaluateSettled(n) ==
  /\ node[n].exists /\ node[n].dirty
  /\ SameUrl(n)
  /\ node[n].inProgress \/ node[n].firstEval
  /\ node' = [node EXCEPT ![n].firstEval = FALSE, ![n].dirty = FALSE]
  /\ UNCHANGED requests

\* ... or was kept ...
EvaluateKept(n) ==
  /\ node[n].exists /\ node[n].dirty
  /\ SameUrl(n)
  /\ ~node[n].inProgress /\ ~node[n].firstEval
  /\ node[n].keep \/ node[n].asFile
  /\ node' = [node EXCEPT ![n] = [SetResourceData(@) EXCEPT !.dirty = FALSE]]
  /\ UNCHANGED requests

\* ... or is asked for: the resource is emptied, the generation is the next.
MustLoad(n) ==
  /\ node[n].exists /\ node[n].dirty
  /\ SameUrl(n) =>
       /\ ~node[n].inProgress /\ ~node[n].firstEval
       /\ ~node[n].keep /\ ~node[n].asFile

\* A mutant of Emptied: the resource of the last URL stays until the answer.
EmptiedLater(nd, r) ==
  [nd EXCEPT !.streamUrl = nd.url, !.stream = NoResource, !.firstEval = TRUE,
             !.latest = r, !.keep = nd.store.keep, !.asFile = nd.store.asFile,
             !.dirty = FALSE]

Emptied(nd, r) ==
  LET cleared == SetResourceData([nd EXCEPT
                   !.streamUrl = nd.url, !.stream = NoResource, !.keep = FALSE])
  IN  [cleared EXCEPT !.latest = r, !.dirty = FALSE,
                      !.keep = nd.store.keep, !.asFile = nd.store.asFile]

EvaluateLoad(n, r) ==
  /\ MustLoad(n)
  /\ node[n].url # NoUrl
  /\ Free(r)
  /\ node' = [node EXCEPT ![n] = [Emptied(@, r) EXCEPT !.inProgress = TRUE]]
  /\ Requested(n, r, node[n].url, node[n].store.asFile)

EvaluateEmpty(n) ==
  /\ MustLoad(n)
  /\ node[n].url = NoUrl
  /\ node' = [node EXCEPT ![n] = Emptied(@, NoRequest)]
  /\ UNCHANGED requests
-----------------------------------------------------------------------------
(***************************************************************************)
(* The answers.                                                             *)
(***************************************************************************)
\* A mutant of JobFails: the job goes on after a failure.
JobFailsOn(r) ==
  /\ source[r].kind = "job"
  /\ source[r].sent > 0
  /\ callbacks' = Append(callbacks, Failure(r))
  /\ source' = [source EXCEPT ![r].sent = 0]
  /\ UNCHANGED <<node, request, retained>>

\* ReadFileJob: a chunk is read, and scheduled with the progress made.
JobRead(r) ==
  /\ source[r].kind = "job"
  /\ LET k == source[r].sent
     IN  /\ callbacks' = callbacks \o <<Data(r, k), Progress(r, k + 1)>>
         /\ source' = [source EXCEPT ![r] =
              IF k + 1 = Size[source[r].url] THEN NoSource ELSE [@ EXCEPT !.sent = k + 1]]
  /\ UNCHANGED <<node, request, retained>>

\* The file cannot be opened, or read.
JobFails(r) ==
  /\ source[r].kind = "job"
  /\ callbacks' = Append(callbacks, Failure(r))
  /\ source' = [source EXCEPT ![r] = NoSource]
  /\ UNCHANGED <<node, request, retained>>

\* The main thread runs the first of the scheduled answers.
RunCallback ==
  /\ callbacks # <<>>
  /\ LET a == Head(callbacks)
     IN  /\ node' = Told(a.request, a)
         /\ IF Ends(a.request, a) THEN Completed(a.request)
                                  ELSE UNCHANGED <<request, retained>>
  /\ callbacks' = Tail(callbacks)
  /\ UNCHANGED source

\* nppWrite.  A stream to be stored as a file says that it is all done later.
StreamWrite(r) ==
  /\ source[r].kind = "stream"
  /\ source[r].sent < Size[source[r].url]
  /\ LET u == source[r].url
         k == source[r].sent
         tells == /\ ~source[r].asFile \/ k + 1 # Announced[u]
                  /\ ~source[r].finished
         withData(nd) == IF source[r].asFile THEN nd ELSE OnData(nd, k, u)
         withBoth(nd) == IF tells THEN OnProgress(withData(nd), k + 1, Announced[u])
                                  ELSE withData(nd)
     IN  /\ node' = IF Heard(r)
                    THEN [node EXCEPT ![request[r].client] = withBoth(@)]
                    ELSE node
         /\ IF tells /\ k + 1 = Announced[u] THEN Completed(r)
                                             ELSE UNCHANGED <<request, retained>>
         /\ source' = [source EXCEPT
              ![r].sent = k + 1,
              ![r].finished = IF tells THEN k + 1 = Announced[u] ELSE @]
  /\ UNCHANGED callbacks

\* nppStreamAsFile.
StreamAsFile(r) ==
  /\ source[r].kind = "stream"
  /\ source[r].asFile
  /\ source[r].sent = Size[source[r].url]
  /\ ~source[r].finished
  /\ LET total == Announced[source[r].url]
     IN  node' = IF Heard(r)
                 THEN [node EXCEPT ![request[r].client] =
                         OnProgress(OnFile(@, source[r].url), total, total)]
                 ELSE node
  /\ Completed(r)
  /\ source' = [source EXCEPT ![r].finished = TRUE]
  /\ UNCHANGED callbacks

\* nppDestroyStream, NPRES_DONE ...
StreamDone(r) ==
  /\ source[r].kind = "stream"
  /\ source[r].sent = Size[source[r].url]
  /\ source[r].asFile => source[r].finished
  /\ source' = [source EXCEPT ![r] = NoSource]
  /\ UNCHANGED <<node, request, retained, callbacks>>

\* ... NPRES_NETWORK_ERR or NPRES_USER_BREAK.
StreamBreaks(r) ==
  /\ source[r].kind = "stream"
  /\ source' = [source EXCEPT ![r] = NoSource]
  /\ IF source[r].finished
     THEN UNCHANGED <<node, request, retained>>
     ELSE /\ node' = Told(r, Failure(r))
          /\ Completed(r)
  /\ UNCHANGED callbacks
-----------------------------------------------------------------------------
Init ==
  /\ node = [n \in Nodes |-> NewNode]
  /\ request = [r \in Requests |-> Deleted]
  /\ retained = [n \in Nodes |-> 0]
  /\ source = [r \in Requests |-> NoSource]
  /\ callbacks = <<>>

Command(n) ==
  \/ Create(n)
  \/ Destroy(n)
  \/ \E u \in Urls \union {NoUrl} : SetUrl(n, u)
  \/ \E s \in Stores : SetStore(n, s)
  \/ EvaluateSettled(n)
  \/ EvaluateKept(n)
  \/ \E r \in Requests : EvaluateLoad(n, r)
  \/ EvaluateEmpty(n)

Job(r) == JobRead(r) \/ JobFails(r)
Stream(r) == StreamWrite(r) \/ StreamAsFile(r) \/ StreamDone(r) \/ StreamBreaks(r)

Next ==
  \/ \E n \in Nodes : Command(n)
  \/ \E r \in Requests : Job(r) \/ Stream(r)
  \/ RunCallback

Spec == Init /\ [][Next]_vars

\* The pool runs its jobs, the browser goes on with a stream, the main thread
\* comes to run what is scheduled.
Fairness ==
  /\ \A r \in Requests : WF_vars(Job(r)) /\ WF_vars(Stream(r))
  /\ WF_vars(RunCallback)

FairSpec == Spec /\ Fairness
-----------------------------------------------------------------------------
(***************************************************************************)
(* Properties.                                                              *)
(***************************************************************************)
TypeOK ==
  /\ node \in [Nodes -> NodeState]
  /\ request \in [Requests -> RequestInfo]
  /\ retained \in [Nodes -> Nat]
  /\ source \in [Requests -> Source]
  /\ callbacks \in Seq(Answer)

Content(u) == [i \in 1..Size[u] |-> u]

\* The resource member is never seen half filled, nor filled from two URLs: it
\* is empty, or a file of a URL, or all of its data.
ResourceWhole ==
  \A n \in Nodes :
    /\ \/ node[n].resource.data = <<>>
       \/ \E u \in Urls : node[n].resource.data = Content(u)
    /\ node[n].resource.file # NoUrl => node[n].resource.data = <<>>

\* A clean node shows the URL that its member names, or nothing: an answer of
\* an earlier request never wins over a later one.
CleanShowsUrl ==
  \A n \in Nodes : node[n].exists /\ ~node[n].dirty =>
    /\ node[n].resource.data # <<>> =>
         /\ node[n].url # NoUrl
         /\ node[n].resource.data = Content(node[n].url)
    /\ node[n].resource.file \in {NoUrl, node[n].url}

\* A node with a URL believes a load to be in progress exactly while its latest
\* request is pending: it can neither wait for an answer that does not come nor
\* ask again for one that does.
InProgressIsPending ==
  \A n \in Nodes :
    node[n].exists /\ node[n].streamUrl # NoUrl =>
      (node[n].inProgress <=>
         /\ node[n].latest # NoRequest
         /\ request[node[n].latest].client = n)

\* What is still to be said about a request finds it: no scheduled answer, job or
\* unfinished stream outlives its PendingRequestInfo, and none is without the
\* other.
NothingDangles ==
  \A r \in Requests :
    request[r].pending <=>
      \/ \E i \in DOMAIN callbacks : callbacks[i].request = r
      \/ source[r].kind # "none" /\ ~source[r].finished

\* A node is retained once for each pending request that has it as a client.
RetainedByRequests == \A n \in Nodes : retained[n] = Cardinality(RequestsOf(n))

\* A destroyed node is not changed by an answer.
DestroyedIsLeftAlone ==
  [][\A n \in Nodes : ~node[n].exists => node'[n] = node[n] \/ node'[n] = NewNode]_vars

\* Every request comes to its last answer.
RequestsFinish == \A r \in Requests : request[r].pending ~> ~request[r].pending
=============================================================================
