---------------------------- MODULE ControlPlane ----------------------------
(***************************************************************************)
(* The control plane of one node instance: the executor that manages it    *)
(* (src/executor.cpp), the scaler inside the node's process                *)
(* (src/scaler.cpp), and the two gRPC services between them                *)
(* (src/services).  Calls are synchronous: the calling thread waits, a     *)
(* thread of the peer's server runs the handler.  The steps of a handler   *)
(* are steps of the call, so a call is a record per calling thread.        *)
(*                                                                         *)
(* Handlers run at once, on threads of the node's server, and nothing      *)
(* locks a consumer: the steps of two repartitions of one edge, and of a   *)
(* statistics query, mix.  (What a consumer does with its subscriptions    *)
(* is the subject of IceflowConsumer.)                                     *)
(***************************************************************************)
EXTENDS Integers

CONSTANTS Edges,         \* edge names that the executor uses
          Upstream,      \* the edges that the node has a consumer for
          Callers,       \* threads of the executor's application
          CallbackThread,\* the thread of the executor's server
          Modulus,       \* number of values of a uint32_t
          Requests,      \* the partition bounds that are asked for
          Limits         \* bounds: how often each of Choices happens, one of these

Choices == {"repartition", "query", "report", "crash", "stop", "release"}
Bounds  == [lower : 0..(Modulus - 1), upper : 0..(Modulus - 1)]
Threads == Callers \cup {CallbackThread}

ASSUME ControlPlaneAssumption ==
  /\ Upstream \subseteq Edges
  /\ CallbackThread \notin Callers
  /\ Modulus \in Nat \ {0}
  /\ Requests \subseteq Bounds
  /\ Limits \subseteq [Choices -> Nat]

VARIABLES
  executor,               \* the IceflowExecutor object, see ExecutorStates
  m_nodeInstanceService,  \* the executor has a stub of the node's service
  server,                 \* the executor's server listens
  service,                \* the object that the server passes reports to exists
  handling,               \* a thread of the executor's server handles a report
  node,                   \* the node's process, see NodeStates
  reporting,              \* a thread of the node waits in reportCongestion
  call,                   \* [t]: the call that thread t waits for
  subscribed,             \* [e]: the node's subscriptions, see Subscription
  m_subscriptionHandles,  \* [e]: the handles that the consumer remembers
  handleCount,            \* handles that the node's SVSPubSub has given out
  acknowledged,           \* [e]: bounds of the last successful response (history)
  disturbed,              \* edges of which something else may have cancelled
                          \* subscriptions since a repartition began (history)
  overlapped,             \* edges of which the node's process has run two
                          \* repartitions at once (history)
  delivered,              \* reports passed to the executor's callback (history)
  budget                  \* how often each of Choices may still happen

executorVars == <<executor, m_nodeInstanceService, server, service, handling, delivered>>
consumers    == <<subscribed, m_subscriptionHandles, handleCount>>
history      == <<acknowledged, disturbed, overlapped>>
nodeVars     == <<node, reporting, consumers, history>>
vars         == <<executorVars, nodeVars, call, budget>>

\* "released": only the handler of a report still holds a reference to it;
\* "destroying": inside its destructor.
ExecutorStates == {"running", "released", "destroying", "gone", "crashed"}

\* "up": the scaler's server listens; "stopping": inside ~IceflowScaler.
NodeStates == {"down", "up", "stopping"}

NoBounds == [lower |-> 0, upper |-> 0]

\* A call that the node has taken is at "handled" before its handler begins; a
\* repartition is then "unsubscribing" and "subscribing", a query "copying".
\* toDrop: the handles that are still to be unsubscribed; toVisit: the edges
\* whose consumers a query has still to copy.
Calls == [pc : {"idle", "connecting", "handled", "unsubscribing", "subscribing", "copying"},
          kind : {"repartition", "query"},
          edge : Edges, bounds : Bounds, done : 0..Modulus,
          toDrop : SUBSET Nat, toVisit : SUBSET Edges]

NoCall == [pc |-> "idle", kind |-> "query", edge |-> CHOOSE e \in Edges : TRUE,
           bounds |-> NoBounds, done |-> 0, toDrop |-> {}, toVisit |-> {}]

Subscription == [id : Nat, partition : 0..(Modulus - 1)]

TypeOK ==
  /\ executor \in ExecutorStates
  /\ m_nodeInstanceService \in BOOLEAN
  /\ server \in BOOLEAN
  /\ service \in BOOLEAN
  /\ handling \in BOOLEAN
  /\ node \in NodeStates
  /\ reporting \in BOOLEAN
  /\ call \in [Threads -> Calls]
  /\ subscribed \in [Edges -> SUBSET Subscription]
  /\ m_subscriptionHandles \in [Edges -> SUBSET Nat]
  /\ handleCount \in Nat
  /\ acknowledged \in [Edges -> Bounds]
  /\ disturbed \in SUBSET Edges
  /\ overlapped \in SUBSET Edges
  /\ delivered \in Nat
  /\ budget \in [Choices -> Nat]

Init ==
  /\ executor = "running"
  /\ m_nodeInstanceService = FALSE
  /\ server = FALSE
  /\ service = FALSE
  /\ handling = FALSE
  /\ node = "down"
  /\ reporting = FALSE
  /\ call = [t \in Threads |-> NoCall]
  /\ subscribed = [e \in Edges |-> {}]
  /\ m_subscriptionHandles = [e \in Edges |-> {}]
  /\ handleCount = 0
  /\ acknowledged = [e \in Edges |-> NoBounds]
  /\ disturbed = {}
  /\ overlapped = {}
  /\ delivered = 0
  /\ budget \in Limits

Spend(c) == budget[c] > 0 /\ budget' = [budget EXCEPT ![c] = @ - 1]

Goto(t, pc) == call' = [call EXCEPT ![t].pc = pc]
Return(t) == call' = [call EXCEPT ![t] = NoCall]

\* A repartition of edge e is under way in thread t, in any thread, and in
\* another one than t.
Repartitions(t, e) == call[t].pc \in {"unsubscribing", "subscribing"} /\ call[t].edge = e
Busy(e) == \E t \in Threads : Repartitions(t, e)
Racing(t) == \E u \in Threads \ {t} : Repartitions(u, call[t].edge)

----------------------------------------------------------------------------
(* The executor. *)

\* The server listens; the service is a local variable of runGrpcServer.
runGrpcServer ==
  /\ executor = "running"
  /\ ~server
  /\ server' = TRUE
  /\ service' = TRUE
  /\ UNCHANGED <<executor, m_nodeInstanceService, handling, delivered, nodeVars, call, budget>>

\* The local variable is destroyed.
runGrpcServerReturns ==
  /\ service
  /\ service' = FALSE
  /\ UNCHANGED <<executor, m_nodeInstanceService, server, handling, delivered, nodeVars, call, budget>>

runGrpcClient ==
  /\ executor = "running"
  /\ m_nodeInstanceService' = TRUE
  /\ UNCHANGED <<executor, server, service, handling, delivered, nodeVars, call, budget>>

\* Thread t is free to call: one of the application, or the server's thread
\* while it is inside m_congestionReportCallback.
CanCall(t) ==
  /\ call[t].pc = "idle"
  /\ IF t = CallbackThread
     THEN handling /\ executor \in {"running", "released"}
     ELSE executor = "running"

\* Without a stub, repartition() warns and returns.
repartition(t) ==
  /\ CanCall(t)
  /\ m_nodeInstanceService
  /\ Spend("repartition")
  /\ \E e \in Edges, b \in Requests :
       call' = [call EXCEPT ![t] = [pc |-> "connecting", kind |-> "repartition",
                                    edge |-> e, bounds |-> b, done |-> 0,
                                    toDrop |-> {}, toVisit |-> {}]]
  /\ UNCHANGED <<executorVars, nodeVars>>

\* queryEdgeStats does not look whether there is a stub (see Crash).
queryEdgeStats(t) ==
  /\ CanCall(t)
  /\ m_nodeInstanceService
  /\ Spend("query")
  /\ call' = [call EXCEPT ![t].pc = "connecting", ![t].kind = "query"]
  /\ UNCHANGED <<executorVars, nodeVars>>

\* The executor's process dies, its calls that nobody has taken yet with it.
\* A handler that the node has begun goes on.
Crash ==
  /\ executor' = "crashed"
  /\ server' = FALSE
  /\ service' = FALSE
  /\ handling' = FALSE
  /\ reporting' = FALSE
  /\ call' = [t \in Threads |-> IF call[t].pc = "connecting"
                                THEN NoCall ELSE call[t]]
  /\ UNCHANGED <<m_nodeInstanceService, delivered, node, consumers, history>>

\* queryEdgeStats without a stub dereferences a null pointer.
queryWithoutStub(t) ==
  /\ CanCall(t)
  /\ ~m_nodeInstanceService
  /\ Spend("query")
  /\ Crash

\* The application drops its reference to the executor, which is destroyed at
\* once unless the handler of a report holds it too.  (No thread of it is
\* inside one of the executor's functions.)
releaseExecutor ==
  /\ executor = "running"
  /\ ~service
  /\ \A t \in Callers : call[t].pc = "idle"
  /\ Spend("release")
  /\ executor' = IF handling THEN "released" ELSE "destroying"
  /\ UNCHANGED <<m_nodeInstanceService, server, service, handling, delivered, nodeVars, call>>

\* The destructor's m_server->Shutdown() returns when no handler runs.
ServerShutdown ==
  /\ executor = "destroying"
  /\ ~handling
  /\ executor' = "gone"
  /\ server' = FALSE
  /\ UNCHANGED <<m_nodeInstanceService, service, handling, delivered, nodeVars, call, budget>>

\* set_wait_for_ready: the call waits until the node's server is there.
Connected(t) ==
  /\ call[t].pc = "connecting"
  /\ node = "up"
  /\ Goto(t, "handled")
  /\ UNCHANGED <<executorVars, nodeVars, budget>>

----------------------------------------------------------------------------
(* NodeInstanceService, on a thread of the node's server. *)

\* Mutant: the upper bound belongs to the range.
PartitionCount_inclusive(b) == (b.upper - b.lower + 1) % Modulus

\* std::vector(upper - lower) filled by std::iota from lower, in uint32_t.
PartitionCount(b) == (b.upper - b.lower) % Modulus
PartitionAt(b, i) == (b.lower + i) % Modulus

\* Mutant: the exception is caught and nothing is answered.
ErrorAnswered_not(c) == c

\* The error status ends the call.
ErrorAnswered(c) == NoCall

\* The node has no consumer for the edge and repartitionConsumer throws, or
\* the bounds are swapped and there is no memory for the vector; the caller
\* gets an error.
RepartitionFails(t) ==
  /\ call[t].pc = "handled"
  /\ call[t].kind = "repartition"
  /\ \/ call[t].edge \notin Upstream
     \/ call[t].bounds.lower > call[t].bounds.upper
  /\ call' = [call EXCEPT ![t] = ErrorAnswered(@)]
  /\ UNCHANGED <<executorVars, nodeVars, budget>>

\* Mutant: the handler waits for the node's event loop, which a thread in
\* reportCongestion holds up and which has ended when the node stops.
HandlerRuns_onEventLoop == ~reporting /\ node = "up"

\* A handler runs on a thread of the server and waits for nobody.
HandlerRuns == TRUE

\* repartition begins with the loop over m_subscriptionHandles, whose end is
\* fixed now.
Repartition(t) ==
  LET e == call[t].edge IN
  /\ call[t].pc = "handled"
  /\ call[t].kind = "repartition"
  /\ e \in Upstream
  /\ HandlerRuns
  /\ call' = [call EXCEPT ![t].pc = "unsubscribing",
                          ![t].toDrop = m_subscriptionHandles[e]]
  /\ IF Busy(e)
     THEN disturbed' = disturbed \cup {e} /\ overlapped' = overlapped \cup {e}
     ELSE disturbed' = disturbed \ {e} /\ UNCHANGED overlapped
  /\ UNCHANGED <<executorVars, node, reporting, consumers, acknowledged, budget>>

\* The loop, in a consumer or in the destructor of its copy, unsubscribes the
\* next handle.  A repartition that races with another may read what that one
\* has put into the vector meanwhile.
UnsubscribeNext(t) ==
  LET e == call[t].edge IN
  /\ call[t].pc \in {"unsubscribing", "copying"}
  /\ \E h \in call[t].toDrop :
       /\ \A k \in call[t].toDrop : h <= k
       /\ call' = [call EXCEPT ![t].toDrop = @ \ {h}]
       /\ \E read \in {h} \cup (IF call[t].pc = "unsubscribing" /\ Racing(t)
                                THEN m_subscriptionHandles[e] ELSE {}) :
            subscribed' = [subscribed EXCEPT ![e] = {s \in @ : s.id # read}]
  /\ UNCHANGED <<executorVars, node, reporting, m_subscriptionHandles, handleCount,
                 history, budget>>

\* m_subscriptionHandles.clear()
ClearHandles(t) ==
  /\ call[t].pc = "unsubscribing"
  /\ call[t].toDrop = {}
  /\ m_subscriptionHandles' = [m_subscriptionHandles EXCEPT ![call[t].edge] = {}]
  /\ Goto(t, "subscribing")
  /\ UNCHANGED <<executorVars, node, reporting, subscribed, handleCount, history, budget>>

\* Mutant: the loop does not end with the vector.
MorePartitions_always(c) == TRUE

MorePartitions(c) == c.done < PartitionCount(c.bounds)

\* subscribe and push_back; of two handles that are pushed at once, one may be
\* lost.
SubscribeNext(t) ==
  LET e == call[t].edge
      h == handleCount + 1
      new == [id |-> h, partition |-> PartitionAt(call[t].bounds, call[t].done)]
  IN
  /\ call[t].pc = "subscribing"
  /\ MorePartitions(call[t])
  /\ subscribed' = [subscribed EXCEPT ![e] = @ \cup {new}]
  /\ handleCount' = h
  /\ \/ m_subscriptionHandles' = [m_subscriptionHandles EXCEPT ![e] = @ \cup {h}]
     \/ Racing(t) /\ UNCHANGED m_subscriptionHandles
  /\ call' = [call EXCEPT ![t].done = @ + 1]
  /\ UNCHANGED <<executorVars, node, reporting, history, budget>>

\* The success response: the bounds of the request.
RepartitionSucceeds(t) ==
  /\ call[t].pc = "subscribing"
  /\ call[t].done = PartitionCount(call[t].bounds)
  /\ acknowledged' = [acknowledged EXCEPT ![call[t].edge] = call[t].bounds]
  /\ Return(t)
  /\ UNCHANGED <<executorVars, node, reporting, consumers, disturbed, overlapped, budget>>

\* getConsumerStats goes through the consumers.
QueryStats(t) ==
  /\ call[t].pc = "handled"
  /\ call[t].kind = "query"
  /\ call' = [call EXCEPT ![t].pc = "copying", ![t].toDrop = {}, ![t].toVisit = Upstream]
  /\ UNCHANGED <<executorVars, nodeVars, budget>>

\* It copies the next one; the copy's destructor will unsubscribe the handles.
CopyConsumer(t) ==
  /\ call[t].pc = "copying"
  /\ call[t].toDrop = {}
  /\ \E e \in call[t].toVisit :
       /\ call' = [call EXCEPT ![t].edge = e, ![t].toDrop = m_subscriptionHandles[e],
                               ![t].toVisit = @ \ {e}]
       /\ disturbed' = disturbed \cup {e}
  /\ UNCHANGED <<executorVars, node, reporting, consumers, acknowledged, overlapped, budget>>

\* The statistics are answered.
QueryReturns(t) ==
  /\ call[t].pc = "copying"
  /\ call[t].toDrop = {}
  /\ call[t].toVisit = {}
  /\ Return(t)
  /\ UNCHANGED <<executorVars, nodeVars, budget>>

----------------------------------------------------------------------------
(* The node: IceflowScaler, and the executor's NodeExecutorService. *)

\* The scaler is constructed and listens.
StartNode ==
  /\ node = "down"
  /\ node' = "up"
  /\ UNCHANGED <<executorVars, reporting, consumers, history, call, budget>>

\* The node's process is over, and its subscriptions with it; the last response
\* of each edge is out of date.
NodeGone ==
  /\ node' = "down"
  /\ reporting' = FALSE
  /\ subscribed' = [e \in Edges |-> {}]
  /\ m_subscriptionHandles' = [e \in Edges |-> {}]
  /\ handleCount' = 0
  /\ disturbed' = Edges
  /\ overlapped' = {}
  /\ UNCHANGED <<executorVars, acknowledged>>

\* A thread of the node's server is inside the handler of t's call.
InHandler(t) == call[t].pc \notin {"idle", "connecting"}

\* The node dies: calls under way fail.
StopNode ==
  /\ node # "down"
  /\ Spend("crash")
  /\ NodeGone
  /\ call' = [t \in Threads |-> IF InHandler(t) THEN NoCall ELSE call[t]]

\* The application's run() is over and ~IceflowScaler begins: no new call is
\* taken.  No thread of the node is inside reportCongestion.
ScalerDestructor ==
  /\ node = "up"
  /\ ~reporting
  /\ Spend("stop")
  /\ node' = "stopping"
  /\ UNCHANGED <<executorVars, reporting, consumers, history, call>>

\* Its m_server->Shutdown() returns when no handler runs; the process ends.
ScalerShutdown ==
  /\ node = "stopping"
  /\ \A t \in Threads : ~InHandler(t)
  /\ NodeGone
  /\ UNCHANGED <<call, budget>>

\* At most one report at a time; without a server it fails at once (it does not
\* wait for the executor to be ready).
CanReport == node = "up" /\ ~reporting /\ server /\ ~handling

\* The service finds that its executor is gone, and answers with an error.
reportRefused ==
  /\ CanReport
  /\ executor = "destroying"
  /\ Spend("report")
  /\ UNCHANGED <<executorVars, nodeVars, call>>

\* The executor's server takes the report and calls the callback: always while
\* the service exists, by luck when it is gone.
reportCongestion ==
  /\ CanReport
  /\ executor = "running"
  /\ Spend("report")
  /\ reporting' = TRUE
  /\ handling' = TRUE
  /\ delivered' = delivered + 1
  /\ UNCHANGED <<executor, m_nodeInstanceService, server, service, node, consumers, history,
                 call>>

\* The service is gone, and the server's use of it ends the process.
reportToDestroyedService ==
  /\ CanReport
  /\ ~service
  /\ Spend("report")
  /\ Crash

\* The callback has returned.  The handler drops its reference to the executor;
\* if it is the last one, the destructor runs inside the handler.
LastReferenceDropped ==
  /\ handling
  /\ executor = "released"
  /\ call[CallbackThread].pc = "idle"
  /\ executor' = "destroying"
  /\ UNCHANGED <<m_nodeInstanceService, server, service, handling, delivered, nodeVars, call, budget>>

\* The callback has returned, and the node gets its answer.
ReportCongestionReturns ==
  /\ handling
  /\ executor = "running"
  /\ call[CallbackThread].pc = "idle"
  /\ handling' = FALSE
  /\ reporting' = FALSE
  /\ UNCHANGED <<executor, m_nodeInstanceService, server, service, delivered, node, consumers,
                 history, call, budget>>

----------------------------------------------------------------------------
CallStep(t) ==
  \/ Connected(t)
  \/ RepartitionFails(t)
  \/ Repartition(t)
  \/ UnsubscribeNext(t)
  \/ ClearHandles(t)
  \/ SubscribeNext(t)
  \/ RepartitionSucceeds(t)
  \/ QueryStats(t)
  \/ CopyConsumer(t)
  \/ QueryReturns(t)

Next ==
  \/ runGrpcServer
  \/ runGrpcServerReturns
  \/ runGrpcClient
  \/ \E t \in Threads : \/ repartition(t)
                        \/ queryEdgeStats(t)
                        \/ queryWithoutStub(t)
                        \/ CallStep(t)
  \/ releaseExecutor
  \/ ServerShutdown
  \/ StartNode
  \/ StopNode
  \/ ScalerDestructor
  \/ ScalerShutdown
  \/ reportRefused
  \/ reportCongestion
  \/ reportToDestroyedService
  \/ LastReferenceDropped
  \/ ReportCongestionReturns

Spec == Init /\ [][Next]_vars

\* A thread that is inside a handler, and a call whose peer is there, go on.
\* Nobody has to start, to call or to report.
FairSpec ==
  /\ Spec
  /\ \A t \in Threads : WF_vars(CallStep(t))
  /\ WF_vars(LastReferenceDropped)
  /\ WF_vars(ReportCongestionReturns)
  /\ WF_vars(ServerShutdown)
  /\ WF_vars(ScalerShutdown)

----------------------------------------------------------------------------
(* Properties. *)

Partitions(e) == {s.partition : s \in subscribed[e]}

\* The partitions from the lower bound up to, but without, the upper bound.
RangeOf(b) == {p \in 0..(Modulus - 1) : b.lower <= p /\ p < b.upper}

\* "current/updated lower and upper partition bounds" (node-instance.proto) of
\* the last response, for bounds in order and while no repartition of the edge
\* is under way.  The node is subscribed to all of the range unless something
\* could cancel a subscription since the last repartition began: a statistics
\* query that copied the consumer, a second repartition at the same time, or the
\* end of the process; the next repartition mends all three.  And it is
\* subscribed to nothing else, unless two repartitions of the edge have ever
\* overlapped in the process: they may forget a handle, and no later
\* repartition mends that.
BoundsAreCurrent ==
  \A e \in Edges :
    ~Busy(e) /\ acknowledged[e].lower <= acknowledged[e].upper =>
      /\ e \notin disturbed => RangeOf(acknowledged[e]) \subseteq Partitions(e)
      /\ e \notin overlapped => Partitions(e) \subseteq RangeOf(acknowledged[e])

\* What node-instance.proto promises of the response, without exception.
BoundsAreAlwaysCurrent ==
  \A e \in Edges : ~Busy(e) => Partitions(e) = RangeOf(acknowledged[e])

\* A thread of the node that reports a congestion gets an answer, although the
\* executor's callback may repartition the reporting node first and waits for
\* that: the cycle of synchronous calls does not deadlock, as long as the
\* application keeps the executor.
ReportsReturn == reporting ~> (~reporting \/ executor # "running")

\* A node that is stopped comes to an end, whatever calls it is handling then:
\* ~IceflowScaler (scaler.cpp) waits for handlers that wait for nobody.
StopCompletes == node = "stopping" ~> node = "down"

\* Every call returns if the node stays up in the end: only the wait for a node
\* that is not there (executor.cpp, set_wait_for_ready without a deadline) has
\* no end, not one for a peer that crashed or stopped in the middle of a call.
CallsReturn ==
  <>[](node = "up") =>
    \A t \in Threads : call[t].pc # "idle" ~> call[t].pc = "idle"

\* Whatever the application does meanwhile, a report is answered: for an
\* executor that is gone with "NodeExecutorService has already been shut down"
\* (node-executor-service.cpp).
ReportsAlwaysReturn == reporting ~> ~reporting

\* A report that the executor's server accepts is passed to the executor's
\* callback.
ReportsAreDelivered ==
  [][budget'["report"] < budget["report"] => delivered' = delivered + 1]_vars

============================================================================
