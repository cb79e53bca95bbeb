------------------------------ MODULE IceFlow ------------------------------
(***************************************************************************)
(* A running IceFlow application: every node instance (src/iceflow.cpp)    *)
(* owns one producer per downstream edge, one consumer per upstream edge   *)
(* and one SVSPubSub endpoint.  Three kinds of threads act on a node: the  *)
(* application's (pushData), the Face's event loop (everything the pub/sub *)
(* library calls back) and those of the gRPC server, which repartition     *)
(* consumers and ask for statistics at the same time.                      *)
(***************************************************************************)
EXTENDS IceflowProducer, IceflowConsumer

CONSTANTS MaxPushes,   \* bound: application threads push up to this number
          MaxOutputs   \* bound: items a callback pushes for one input

ASSUME BoundAssumption == MaxPushes \in Nat /\ MaxOutputs \in Nat

VARIABLE productionStats  \* [n][e]: the statistics reported last

vars == <<svsVars, producerVars, consumerVars, now, productionStats>>

TypeOK ==
  /\ SvsTypeOK
  /\ ProducerTypeOK
  /\ ConsumerTypeOK
  /\ now \in Nat
  /\ productionStats \in [Nodes -> [Edges -> Stats]]

\* The nodes have been constructed.
Init ==
  /\ SvsInit
  /\ ProducerInit
  /\ ConsumerInit
  /\ now = Uptime
  /\ productionStats = PerEdge([units |-> 0, idle |-> 0])

----------------------------------------------------------------------------
(* The application's threads.  A call that names an edge the node does not *)
(* have throws and changes nothing.                                        *)

PushData(n) ==
  /\ seqNo[n] < MaxPushes
  /\ \E item \in DataItems(n) : pushData(n, item)
  /\ UNCHANGED <<consumerVars, now, productionStats>>

\* registerConsumerCallback, and registerProsumerCallback, which wraps the
\* application's callback so that it can push data itself.
RegisterCallback(n, e) ==
  /\ setConsumerCallback(n, e)
  /\ UNCHANGED <<svsVars, producerVars, now, productionStats>>

RepartitionProducer(n, e) ==
  /\ Spend("setPartitions")
  /\ \E k \in 1..MaxPartitions[e] : setTopicPartitions(n, e, k)
  /\ UNCHANGED <<published, seqNo, dataStore, subscriptions,
                 subscriptionCount, mapped, fetching>>
  /\ UNCHANGED <<consumerVars, now, productionStats>>

----------------------------------------------------------------------------
(* The event loop of node n, which does one thing after the other. *)

Sync(n) ==
  /\ handler[n] = Waiting
  /\ \E pub \in published : SyncUpdate(n, pub)
  /\ UNCHANGED <<producerVars, consumerVars, now, productionStats>>

Timeout(n) ==
  /\ handler[n] = Waiting
  /\ \E f \in fetching[n] : FetchTimeout(n, f)
  /\ UNCHANGED <<producerVars, consumerVars, now, productionStats>>

\* What one call of the application's callback may push.
Outputs(n) == UNION {[1..k -> DataItems(n)] : k \in 0..MaxOutputs}

ConsumeData(n) ==
  /\ \E f \in fetching[n] : \E out \in Outputs(n) : subscribeCallBack(n, f, out)
  /\ UNCHANGED <<producerVars, now, productionStats>>

\* The rest of subscribeCallBack.
FinishData(n) ==
  /\ saveTimestamp(n) \/ acknowledge(n)
  /\ UNCHANGED <<producerVars, now, productionStats>>

HandleAck(n) ==
  /\ handler[n] = Waiting
  /\ \E f \in fetching[n] : onBackchannel(n, f)
  /\ UNCHANGED <<consumerVars, now, productionStats>>

----------------------------------------------------------------------------
(* Threads of the gRPC server of node n. *)

RepartitionConsumer(n, e) ==
  /\ \E partitions \in Assignments[n] : repartition(n, e, partitions)
  /\ UNCHANGED <<producerVars, now, productionStats>>

ControlStep(n, e) ==
  /\ \/ unsubscribeNext(n, e)
     \/ clearHandles(n, e)
     \/ subscribeToTopicPartition(n, e)
     \/ repartitionReturns(n, e)
  /\ UNCHANGED <<producerVars, now, productionStats>>

\* QueryStats begins with getConsumerStats.
getConsumerStats(n) ==
  /\ query[n] = NoQuery
  /\ Spend("query")
  /\ query' = [query EXCEPT ![n].pc = "visit", ![n].edges = Upstream[n],
                            ![n].before = Stamped(n)]
  /\ UNCHANGED <<published, seqNo, dataStore, subscriptions,
                 subscriptionCount, mapped, fetching>>
  /\ UNCHANGED <<m_subscriptionHandles, m_consumerCallback, m_consumptionTimestamps,
                 m_idleSince, handler, control, consumptionStats, requested, consumed>>
  /\ UNCHANGED <<producerVars, now, productionStats>>

QueryStep(n) ==
  /\ \/ \E e \in Edges : copyConsumer(n, e) \/ getConsumptionStats(n, e)
     \/ destroyNext(n)
     \/ copyDestroyed(n)
  /\ UNCHANGED <<producerVars, now, productionStats>>

\* The loop over the consumers is over; the producers are copied in turn, and
\* a producer's destructor does nothing.
getProducerStats(n) ==
  /\ query[n].pc = "visit"
  /\ query[n].edges = {}
  /\ productionStats' = [productionStats EXCEPT ![n] =
       [e \in Edges |-> IF e \in Downstream[n] THEN getProductionStats(n, e)
                        ELSE @[e]]]
  /\ query' = [query EXCEPT ![n] = NoQuery]
  /\ UNCHANGED svsVars
  /\ UNCHANGED <<m_subscriptionHandles, m_consumerCallback, m_consumptionTimestamps,
                 m_idleSince, handler, control, consumptionStats, requested, consumed>>
  /\ UNCHANGED <<producerVars, now>>

----------------------------------------------------------------------------
Clock ==
  /\ Spend("tick")
  /\ Tick
  /\ UNCHANGED <<published, seqNo, dataStore, subscriptions, subscriptionCount, mapped,
                 fetching>>
  /\ UNCHANGED <<producerVars, consumerVars, productionStats>>

Next ==
  \/ Clock
  \/ \E n \in Nodes :
       \/ PushData(n)
       \/ \E e \in Edges : RegisterCallback(n, e)
       \/ \E e \in Edges : RepartitionProducer(n, e)
       \/ \E e \in Edges : RepartitionConsumer(n, e)
       \/ \E e \in Edges : ControlStep(n, e)
       \/ Sync(n)
       \/ Timeout(n)
       \/ ConsumeData(n)
       \/ FinishData(n)
       \/ HandleAck(n)
       \/ getConsumerStats(n)
       \/ QueryStep(n)
       \/ getProducerStats(n)

Spec == Init /\ [][Next]_vars

\* run() keeps calling processEvents, so whatever is ready on the Face is
\* eventually handled; the sync protocol repeats its notifications; and a
\* thread in the middle of a handler or a call goes on.  Nobody has to push
\* data, to register a callback or to ask for anything.
Fairness ==
  \A n \in Nodes : /\ WF_vars(Sync(n))
                   /\ WF_vars(ConsumeData(n))
                   /\ WF_vars(FinishData(n))
                   /\ WF_vars(HandleAck(n))
                   /\ \A e \in Edges : WF_vars(ControlStep(n, e))
                   /\ WF_vars(QueryStep(n))
                   /\ WF_vars(getProducerStats(n))

FairSpec == Spec /\ Fairness

----------------------------------------------------------------------------
(* Properties. *)

ConsumedBy(n, pub) == \E c \in consumed[n] : c.pub = pub

SubscribedPartitions(n, e) ==
  {s.chan : s \in {t \in subscriptions[n] :
                     t.edge = e /\ t.chan # BackChannel}}

\* Each edge is produced by a single node instance.
SingleProducer ==
  \A e \in Edges : \A n1, n2 \in Nodes :
    e \in Downstream[n1] /\ e \in Downstream[n2] => n1 = n2

\* A publication leaves its producer's data store only after the callback of
\* some consumer has taken it: an acknowledgement (consumer.cpp, the publish
\* on the backchannel) never erases (producer.cpp, dataStore->erase) data
\* that nobody has consumed.
ErasedOnlyIfConsumed ==
  \A pub \in published :
    pub.seq \notin dataStore[pub.from] =>
      \E n \in Nodes : ConsumedBy(n, pub)

\* Edge e as the tasks at its ends see it.
DataOn(e) == {pub \in published : pub.edge = e /\ pub.chan # BackChannel}

Delivery(e) == INSTANCE EdgeDelivery WITH
  Consumers <- Nodes,
  sent      <- DataOn(e),
  taken     <- [n \in Nodes |-> {c \in consumed[n] : c.pub.edge = e}],
  released  <- {pub \in DataOn(e) : pub.seq \notin dataStore[pub.from]}

\* Every edge is an EdgeDelivery: behind the partitions, the subscriptions
\* that move while fetches are under way (consumer.cpp) and the store that
\* acknowledgements empty (producer.cpp), each step is one of its steps.
EdgesDeliver ==
  /\ \A e \in Edges : Delivery(e)!Init
  /\ [][\A e \in Edges : Delivery(e)!Step]_vars

\* However often a consumer is repartitioned or queried while data is in
\* flight, its callback sees each publication at most once: a consumer never
\* holds two subscriptions to one partition when a publication is mapped.
AtMostOncePerConsumer ==
  \A n \in Nodes : \A c, d \in consumed[n] : c.pub = d.pub => c = d

\* No publication is consumed by two consumers; for assignments that give no
\* partition to two of them.
ConsumedByOne ==
  \A pub \in published : \A n1, n2 \in Nodes :
    ConsumedBy(n1, pub) /\ ConsumedBy(n2, pub) => n1 = n2

\* While nobody repartitions it, a consumer is subscribed to exactly the
\* partitions it was last asked to take over (RepartitionRequest of
\* node-instance.proto), in particular after its statistics were queried.
SubscriptionsFollowRepartition ==
  \A n \in Nodes : \A e \in Edges :
    control[n][e] = Idle => SubscribedPartitions(n, e) = requested[n][e]

\* A repartition that returns has taken back every earlier subscription,
\* whatever a query's copies unsubscribe beside it; and it has made all the
\* requested ones, unless a query copied the consumer (iceflow.cpp, the loop
\* variable of getConsumerStats) after it had cleared the handles: copies from
\* before that do it no harm, even if they are destroyed only now.
RepartitionEstablishes ==
  [][\A n \in Nodes : \A e \in Edges :
       control[n][e].pc = "subscribe" /\ control'[n][e] = Idle =>
         /\ SubscribedPartitions(n, e)' \subseteq requested'[n][e]
         /\ ~control[n][e].copied => requested'[n][e] \subseteq SubscribedPartitions(n, e)']_vars

\* The stronger statement, which a query beside the repartition breaks.
RepartitionAlwaysEstablishes ==
  [][\A n \in Nodes : \A e \in Edges :
       control[n][e].pc = "subscribe" /\ control'[n][e] = Idle =>
         SubscribedPartitions(n, e)' = requested'[n][e]]_vars

\* Nothing new is mapped for a partition that is not asked for now: while the
\* consumer is not being repartitioned, a fetch that starts (consumer.cpp, the
\* subscribe of subscribeToTopicPartition) is for a requested partition.  A
\* fetch from before a repartition may still be delivered.
MappedOnlyIfRequested ==
  [][\A n \in Nodes : \A f \in fetching'[n] \ fetching[n] :
       f.pub.chan # BackChannel /\ control[n][f.pub.edge] = Idle =>
         f.pub.chan \in requested[n][f.pub.edge]]_vars

\* All partitions of edge e are served: by consumers with a callback that
\* nobody repartitions.
Served(e) ==
  \A p \in 0..(MaxPartitions[e] - 1) : \E n \in Nodes :
    /\ m_consumerCallback[n][e]
    /\ control[n][e] = Idle
    /\ p \in SubscribedPartitions(n, e)

\* Data pushed on an edge whose partitions are all served is eventually
\* consumed and, through the backchannel, released from its producer's store.
\* (For runs in which the network does not fail, no callback throws and the
\* assignment does not change once every partition is served.)
PushedIsEventuallyReleased ==
  \A n \in Nodes : \A s \in 1..MaxPushes :
    (\E pub \in published :
        /\ pub.from = n /\ pub.seq = s
        /\ pub.chan # BackChannel
        /\ Served(pub.edge)
        /\ \A m \in Nodes : pub \notin mapped[m])
      ~> s \notin dataStore[n]

\* Every message goes to one of the partitions the producer was last
\* configured with (setTopicPartitions).
PublishedOnTopicPartitions ==
  [][\A pub \in published' \ published :
       pub.chan # BackChannel =>
         pub.chan \in m_topicPartitions[pub.from][pub.edge]]_vars

\* The report on edge e is made in this step.
Reports(n, e) == query[n].pc = "report" /\ e \in query[n].edge /\ query'[n].edge = {}

\* The consumption statistics count what is at most MaxAge old, and no more.
ConsumptionStatsAreRecent ==
  [][\A n \in Nodes : \A e \in Edges : Reports(n, e) =>
       consumptionStats'[n][e].units =
         Cardinality({i \in 1..Len(query[n].timestamps) :
                        now - query[n].timestamps[i] <= MaxAge})]_vars

\* A report misses nothing that was time-stamped (consumer.cpp, saveTimestamp)
\* before the query began and that is at most MaxAge old when the report is
\* made, however the event loop interleaves with the copy, with the reading of
\* the clock and with the clean-up.  (What the event loop time-stamps only after
\* the copy is missed.)
RecentConsumptionIsCounted ==
  [][\A n \in Nodes : \A e \in Edges : Reports(n, e) =>
       consumptionStats'[n][e].units >=
         Cardinality({c \in query[n].before :
                        c.pub.edge = e /\ now - c.at <= MaxAge})]_vars

\* The production statistics of a node that has just published data on an
\* edge are not zero.
ProductionIsCounted ==
  [][\A n \in Nodes : \A e \in Downstream[n] :
       /\ query[n].pc = "visit" /\ query'[n] = NoQuery
       /\ now - Uptime <= MaxAge
       /\ \E pub \in published :
            pub.from = n /\ pub.edge = e /\ pub.chan # BackChannel
       => productionStats'[n][e].units > 0]_vars

============================================================================
