--------------------------- MODULE IceFlowProofs ---------------------------
(***************************************************************************)
(* Theorems about IceFlow for every application graph, every number of     *)
(* node instances and partitions, and every bound.                         *)
(***************************************************************************)
EXTENDS IceFlow, SequenceTheorems, FiniteSetTheorems, TLAPS

----------------------------------------------------------------------------
(* Facts about the operators the model is built from. *)

\* The clean-up of the timestamps returns a suffix of a sequence of clock
\* readings, so it returns a sequence of clock readings.
LEMMA CleanUpType ==
  ASSUME NEW timestamps \in Seq(Nat), NEW reference
  PROVE  /\ cleanUpTimestamps(timestamps, reference) \in Seq(Nat)
         /\ Len(cleanUpTimestamps(timestamps, reference)) \in Nat
<1> DEFINE popped == {i \in 1..Len(timestamps) :
                        \A j \in 1..i : timestamps[j] - reference > MaxAge}
<1>1. Len(timestamps) \in Nat
  BY LenProperties
<1>2. IsFiniteSet(1..Len(timestamps))
  BY <1>1, FS_Interval
<1>3. popped \subseteq 1..Len(timestamps)
  OBVIOUS
<1> HIDE DEF popped
<1>4. Cardinality(popped) \in Nat
  BY <1>2, <1>3, FS_Subset, FS_CardinalityType
<1>5. \A i \in (Cardinality(popped) + 1)..Len(timestamps) : timestamps[i] \in Nat
  BY <1>1, <1>4, ElementOfSeq
<1>6. SubSeq(timestamps, Cardinality(popped) + 1, Len(timestamps)) \in Seq(Nat)
  BY <1>1, <1>4, <1>5, SubSeqProperties
<1> QED
  BY <1>6, LenProperties DEF cleanUpTimestamps, popped

\* The messages pushData may publish are well formed and belong to an edge of
\* the node.
LEMMA DataItemsType ==
  ASSUME NEW n \in Nodes, NEW item \in DataItems(n)
  PROVE  /\ item \in Item
         /\ item.chan # BackChannel
         /\ item.edge \in Downstream[n]
  BY GraphAssumption, PartitionAssumption
     DEF DataItems, getNextPartitionNumber, Item, Channels

\* A callback pushes a sequence of such messages.
LEMMA OutputsType ==
  ASSUME NEW n \in Nodes, NEW out \in Outputs(n)
  PROVE  /\ out \in Seq(DataItems(n))
         /\ out \in Seq(Item)
<1>1. PICK k \in 0..MaxOutputs : out \in [1..k -> DataItems(n)]
  BY DEF Outputs
<1>2. out \in Seq(DataItems(n))
  BY <1>1, BoundAssumption
<1>3. DataItems(n) \subseteq Item
  BY DataItemsType
<1> QED
  BY <1>2, <1>3, SeqMonotonic

\* An acknowledgement is a well-formed backchannel message.
LEMMA AckType ==
  ASSUME NEW pub \in Publication
  PROVE  AckOf(pub) \in Item
  BY DEF AckOf, Publication, Item, Channels

\* Publishing keeps the publications, the sequence numbers and the data
\* stores well formed.
LEMMA PublishType ==
  ASSUME SvsTypeOK, NEW n \in Nodes, NEW items \in Seq(Item),
         Publish(n, items)
  PROVE  /\ published' \in SUBSET Publication
         /\ seqNo' \in [Nodes -> Nat]
         /\ dataStore' \in [Nodes -> SUBSET Nat]
<1>1. \A i \in 1..Len(items) : /\ seqNo[n] + i \in Nat \ {0}
                               /\ NewPublication(n, items, i) \in Publication
  <2> SUFFICES ASSUME NEW i \in 1..Len(items)
               PROVE  /\ seqNo[n] + i \in Nat \ {0}
                      /\ NewPublication(n, items, i) \in Publication
    OBVIOUS
  <2>1. seqNo[n] + i \in Nat \ {0}
    BY DEF SvsTypeOK
  <2>2. items[i] \in Item
    BY ElementOfSeq
  <2> QED
    BY <2>1, <2>2 DEF NewPublication, Publication, Item
<1> QED
  BY <1>1 DEF SvsTypeOK, Publish

----------------------------------------------------------------------------
(* Type correctness. *)

\* m_idleSince, and a query's copy of it, is a past reading of the clock:
\* without it, the idle time that getConsumptionStats reports could be negative.
IdleSinceInPast ==
  \A n \in Nodes : /\ \A e \in Edges : m_idleSince[n][e] <= now
                   /\ query[n].idleSince <= now

TypeInv == TypeOK /\ IdleSinceInPast

\* The constructors establish the type invariant.
LEMMA InitType == Init => TypeInv
<1> SUFFICES ASSUME Init PROVE TypeInv
  OBVIOUS
<1>1. SvsTypeOK
  <2>1. budget \in [Choices -> Nat]
    BY GraphAssumption DEF Init, SvsInit
  <2> QED
  BY <2>1, GraphAssumption
     DEF Init, SvsInit, SvsTypeOK, BackchannelSubscriptions, Subscription,
         Channels
<1>2. ProducerTypeOK
  BY GraphAssumption, PartitionAssumption DEF Init, ProducerInit, ProducerTypeOK
<1>3. ConsumerTypeOK
  <2>1. /\ Waiting \in HandlerState
        /\ Idle \in ControlState
        /\ NoQuery \in QueryState
        /\ [units |-> 0, idle |-> 0] \in Stats
    BY DEF Waiting, HandlerState, Idle, ControlState, NoQuery, QueryState, Stats
  <2> QED
    BY <2>1, TimeAssumption DEF Init, ConsumerInit, ConsumerTypeOK, PerEdge
<1>4. /\ now \in Nat
      /\ productionStats \in [Nodes -> [Edges -> Stats]]
      /\ IdleSinceInPast
  BY TimeAssumption
     DEF Init, ConsumerInit, PerEdge, Stats, NoQuery, IdleSinceInPast
<1> QED
  BY <1>1, <1>2, <1>3, <1>4 DEF TypeInv, TypeOK

\* Counting a choice of the environment.
LEMMA SpendType ==
  ASSUME SvsTypeOK, NEW c \in Choices, Spend(c)
  PROVE  budget' \in [Choices -> Nat]
  BY DEF SvsTypeOK, Spend

\* Steps of the application's threads.
LEMMA ApplicationType ==
  ASSUME TypeInv, NEW n \in Nodes, NEW e,
         \/ PushData(n)
         \/ e \in Edges /\ RegisterCallback(n, e)
         \/ e \in Edges /\ RepartitionProducer(n, e)
  PROVE  TypeInv'
<1> USE DEF TypeInv, TypeOK
<1>1. CASE PushData(n)
  <2>1. PICK item \in DataItems(n) : pushData(n, item)
    BY <1>1 DEF PushData
  <2>2. <<item>> \in Seq(Item)
    BY DataItemsType
  <2>3. SvsTypeOK'
    BY <2>1, <2>2, PublishType DEF pushData, SvsTypeOK
  <2>4. ProducerTypeOK'
    BY <2>1 DEF pushData, producerVars, ProducerTypeOK
  <2>5. ConsumerTypeOK' /\ IdleSinceInPast'
    BY <1>1 DEF PushData, consumerVars, ConsumerTypeOK, IdleSinceInPast
  <2> QED
    BY <1>1, <2>3, <2>4, <2>5 DEF PushData
<1>2. CASE e \in Edges /\ RegisterCallback(n, e)
  <2> e \in Edges
    BY <1>2
  <2>1. SvsTypeOK' /\ ProducerTypeOK'
    BY <1>2 DEF RegisterCallback, svsVars, producerVars, SvsTypeOK,
                ProducerTypeOK
  <2>2. ConsumerTypeOK' /\ IdleSinceInPast'
    BY <1>2 DEF RegisterCallback, setConsumerCallback, ConsumerTypeOK,
                IdleSinceInPast
  <2> QED
    BY <1>2, <2>1, <2>2 DEF RegisterCallback
<1>3. CASE e \in Edges /\ RepartitionProducer(n, e)
  <2> e \in Edges
    BY <1>3
  <2>1. SvsTypeOK'
    BY <1>3, SpendType DEF RepartitionProducer, SvsTypeOK, Choices
  <2>2. ProducerTypeOK'
    <3>1. PICK k \in 1..MaxPartitions[e] : setTopicPartitions(n, e, k)
      BY <1>3 DEF RepartitionProducer
    <3>2. 0..(k - 1) \in SUBSET Nat
      BY PartitionAssumption
    <3> QED
      BY <3>1, <3>2 DEF setTopicPartitions, ProducerTypeOK
  <2>3. ConsumerTypeOK' /\ IdleSinceInPast'
    BY <1>3 DEF RepartitionProducer, consumerVars, ConsumerTypeOK,
                IdleSinceInPast
  <2> QED
    BY <1>3, <2>1, <2>2, <2>3 DEF RepartitionProducer
<1> QED
  BY <1>1, <1>2, <1>3

\* Steps of the event loop: a notification, a fetch that fails, a callback.
LEMMA EventLoopType ==
  ASSUME TypeInv, NEW n \in Nodes,
         \/ Sync(n) \/ Timeout(n)
         \/ ConsumeData(n) \/ FinishData(n) \/ HandleAck(n)
  PROVE  TypeInv'
<1> USE DEF TypeInv, TypeOK
<1>1. CASE Sync(n)
  <2>1. PICK pub \in published : SyncUpdate(n, pub)
    BY <1>1 DEF Sync
  <2>2. /\ pub \in Publication
        /\ \A s \in Matching(n, pub) : [pub |-> pub, id |-> s.id] \in Fetch
    BY DEF SvsTypeOK, Matching, Subscription, Fetch
  <2>3. SvsTypeOK'
    BY <2>1, <2>2 DEF SyncUpdate, SvsTypeOK
  <2> QED
    BY <1>1, <2>3 DEF Sync, producerVars, consumerVars, ProducerTypeOK,
                      ConsumerTypeOK, IdleSinceInPast
<1>2. CASE Timeout(n)
  <2>1. PICK f \in fetching[n] : FetchTimeout(n, f)
    BY <1>2 DEF Timeout
  <2>2. budget' \in [Choices -> Nat]
    BY <2>1, SpendType DEF FetchTimeout, Choices, SvsTypeOK
  <2>3. SvsTypeOK'
    BY <2>1, <2>2 DEF FetchTimeout, SvsTypeOK
  <2> QED
    BY <1>2, <2>3 DEF Timeout, producerVars, consumerVars, ProducerTypeOK,
                      ConsumerTypeOK, IdleSinceInPast
<1>3. CASE ConsumeData(n)
  <2>1. PICK f \in fetching[n], out \in Outputs(n) : subscribeCallBack(n, f, out)
    BY <1>3 DEF ConsumeData
  <2>2. f \in Fetch /\ f.pub \in Publication /\ f.pub.edge \in Edges
    BY DEF SvsTypeOK, Fetch, Publication
  <2>3. out \in Seq(Item)
    BY OutputsType
  <2>4. ProducerTypeOK'
    BY <1>3 DEF ConsumeData, producerVars, ProducerTypeOK
  <2>5. fetching' \in [Nodes -> SUBSET Fetch]
    <3>1. fetching' = [fetching EXCEPT ![n] = @ \ {f}]
      BY <2>1, Zenon
         DEF subscribeCallBack, DataIgnored, DataConsumed, DataRefused, DataArrives, Fetched
    <3> QED
      BY <3>1 DEF SvsTypeOK
  <2>6. CASE DataIgnored(n, f)
    <3>1. SvsTypeOK'
      BY <2>5, <2>6 DEF DataIgnored, SvsTypeOK
    <3>2. ConsumerTypeOK' /\ IdleSinceInPast'
      BY <1>3, <2>6 DEF ConsumeData, DataIgnored, consumerVars,
                        ConsumerTypeOK, IdleSinceInPast
    <3> QED
      BY <1>3, <2>4, <3>1, <3>2 DEF ConsumeData
  <2>7. CASE DataConsumed(n, f, out)
    <3>1. SvsTypeOK'
      BY <2>3, <2>5, <2>7, PublishType DEF DataConsumed, SvsTypeOK
    <3>2. consumed' \in [Nodes -> SUBSET Consumption]
      BY <2>2, <2>7 DEF DataConsumed, ConsumerTypeOK, Consumption, Fetch
    <3>3. handler' \in [Nodes -> HandlerState]
      BY <2>2, <2>7 DEF DataConsumed, ConsumerTypeOK, HandlerState
    <3>4. IdleSinceInPast'
      BY <1>3, <2>7 DEF ConsumeData, DataConsumed, IdleSinceInPast
    <3>5. ConsumerTypeOK'
      BY <2>7, <3>2, <3>3, <3>4 DEF DataConsumed, ConsumerTypeOK
    <3> QED
      BY <1>3, <2>4, <3>1, <3>4, <3>5 DEF ConsumeData
  <2>8. CASE DataRefused(n, f, out)
    <3>1. SvsTypeOK'
      BY <2>3, <2>5, <2>8, PublishType, SpendType
         DEF DataRefused, PublishedOnThrow, SvsTypeOK, Choices
    <3>2. ConsumerTypeOK' /\ IdleSinceInPast'
      BY <1>3, <2>8 DEF ConsumeData, DataRefused, PublishedOnThrow, consumerVars,
                        ConsumerTypeOK, IdleSinceInPast
    <3> QED
      BY <1>3, <2>4, <3>1, <3>2 DEF ConsumeData
  <2> QED
    BY <2>1, <2>6, <2>7, <2>8 DEF subscribeCallBack
<1>5. CASE FinishData(n)
  <2>1. /\ handler[n] \in HandlerState
        /\ handler \in [Nodes -> HandlerState]
    BY DEF ConsumerTypeOK
  <2>2. ProducerTypeOK'
    BY <1>5 DEF FinishData, producerVars, ProducerTypeOK
  <2>3. CASE saveTimestamp(n)
    <3> DEFINE pub == handler[n].pub
    <3>1. pub \in Publication /\ pub.edge \in Edges
      BY <2>1, <2>3 DEF saveTimestamp, HandlerState, Publication
    <3>2. [handler[n] EXCEPT !.pc = "acknowledge"] \in HandlerState
      BY <2>1, <2>3 DEF saveTimestamp, HandlerState
    <3>3. handler' \in [Nodes -> HandlerState]
      BY <2>1, <2>3, <3>2 DEF saveTimestamp
    <3>4. cleanUpTimestamps(
            Append(m_consumptionTimestamps[n][pub.edge], now), now) \in Seq(Nat)
      <4>1. m_consumptionTimestamps[n][pub.edge] \in Seq(Nat)
        BY <3>1 DEF ConsumerTypeOK
      <4>2. Append(m_consumptionTimestamps[n][pub.edge], now) \in Seq(Nat)
        BY <4>1, AppendProperties
      <4> QED
        BY <4>2, CleanUpType
    <3>5. m_consumptionTimestamps' \in [Nodes -> [Edges -> Seq(Nat)]]
      BY <2>3, <3>1, <3>4 DEF saveTimestamp, ConsumerTypeOK
    <3>6. m_idleSince' \in [Nodes -> [Edges -> Nat]] /\ IdleSinceInPast'
      BY <1>5, <2>3, <3>1 DEF FinishData, saveTimestamp, ConsumerTypeOK, IdleSinceInPast
    <3>7. ConsumerTypeOK'
      BY <2>3, <3>3, <3>5, <3>6 DEF saveTimestamp, ConsumerTypeOK
    <3>8. SvsTypeOK'
      BY <2>3 DEF saveTimestamp, svsVars, SvsTypeOK
    <3> QED
      BY <1>5, <2>2, <3>6, <3>7, <3>8 DEF FinishData
  <2>4. CASE acknowledge(n)
    <3>1. handler[n].pub \in Publication
      BY <2>1, <2>4 DEF acknowledge, HandlerState
    <3>2. <<AckOf(handler[n].pub)>> \in Seq(Item)
      BY <3>1, AckType
    <3>3. SvsTypeOK'
      BY <2>4, <3>2, PublishType DEF acknowledge, SvsTypeOK
    <3>4. Waiting \in HandlerState
      BY DEF Waiting, HandlerState
    <3>5. ConsumerTypeOK' /\ IdleSinceInPast'
      BY <1>5, <2>4, <3>4 DEF FinishData, acknowledge, ConsumerTypeOK, IdleSinceInPast
    <3> QED
      BY <1>5, <2>2, <3>3, <3>5 DEF FinishData
  <2> QED
    BY <1>5, <2>3, <2>4 DEF FinishData
<1>4. CASE HandleAck(n)
  <2>1. PICK f \in fetching[n] : onBackchannel(n, f)
    BY <1>4 DEF HandleAck
  <2>2. SvsTypeOK'
    BY <2>1 DEF onBackchannel, Fetched, Erase, SvsTypeOK
  <2>3. ProducerTypeOK'
    BY <2>1 DEF onBackchannel, producerVars, ProducerTypeOK
  <2> QED
    BY <1>4, <2>2, <2>3 DEF HandleAck, consumerVars, ConsumerTypeOK,
                            IdleSinceInPast
<1> QED
  BY <1>1, <1>2, <1>3, <1>4, <1>5

\* Steps of the control thread: repartitioning.
LEMMA RepartitionType ==
  ASSUME TypeInv, NEW n \in Nodes, NEW e \in Edges,
         RepartitionConsumer(n, e) \/ ControlStep(n, e)
  PROVE  TypeInv'
<1> USE DEF TypeInv, TypeOK
<1>1. control[n][e] \in ControlState
  BY DEF ConsumerTypeOK
<1>2. CASE RepartitionConsumer(n, e)
  <2>1. PICK partitions \in Assignments[n] : repartition(n, e, partitions)
    BY <1>2 DEF RepartitionConsumer
  <2>2. partitions \in Seq(Nat)
    BY AssignmentAssumption
  <2>3. SvsTypeOK'
    BY <2>1, SpendType DEF repartition, unsubscribeFromAllPartitions, SvsTypeOK, Choices
  <2>4. {partitions[i] : i \in 1..Len(partitions)} \in SUBSET Nat
    BY <2>2, ElementOfSeq
  <2>5. requested' \in [Nodes -> [Edges -> SUBSET Nat]]
    BY <2>1, <2>4 DEF repartition, unsubscribeFromAllPartitions, ConsumerTypeOK
  <2>6. control' \in [Nodes -> [Edges -> ControlState]]
    <3> DEFINE c == [pc |-> "unsubscribe", handles |-> m_subscriptionHandles[n][e],
                     partitions |-> partitions, copied |-> FALSE]
    <3>1. c \in ControlState
      BY <2>2 DEF ControlState, ConsumerTypeOK
    <3>2. control' = [control EXCEPT ![n][e] = c]
      BY <2>1 DEF repartition, unsubscribeFromAllPartitions
    <3> HIDE DEF c
    <3> QED
      BY <3>1, <3>2 DEF ConsumerTypeOK
  <2>7. ConsumerTypeOK'
    BY <2>1, <2>5, <2>6 DEF repartition, unsubscribeFromAllPartitions, ConsumerTypeOK
  <2>8. ProducerTypeOK' /\ IdleSinceInPast'
    BY <1>2, <2>1 DEF RepartitionConsumer, repartition, unsubscribeFromAllPartitions, producerVars,
                      ProducerTypeOK, IdleSinceInPast
  <2> QED
    BY <1>2, <2>3, <2>7, <2>8 DEF RepartitionConsumer
<1>3. ASSUME UNCHANGED <<producerVars, now, productionStats>>,
             UNCHANGED <<m_idleSince, query>>, SvsTypeOK', ConsumerTypeOK'
      PROVE  TypeInv'
  BY <1>3 DEF producerVars, ProducerTypeOK, IdleSinceInPast
<1>4. CASE unsubscribeNext(n, e) /\ UNCHANGED <<producerVars, now, productionStats>>
  <2>1. SvsTypeOK'
    BY <1>4 DEF unsubscribeNext, Unsubscribe, SvsTypeOK
  <2>2. [control[n][e] EXCEPT !.handles = Tail(@)] \in ControlState
    BY <1>1, <1>4, HeadTailProperties DEF unsubscribeNext, ControlState
  <2>3. ConsumerTypeOK'
    BY <1>4, <2>2 DEF unsubscribeNext, ConsumerTypeOK
  <2> QED
    BY <1>3, <1>4, <2>1, <2>3 DEF unsubscribeNext
<1>5. CASE /\ clearHandles(n, e)
           /\ UNCHANGED <<producerVars, now, productionStats>>
  <2>1. SvsTypeOK'
    BY <1>5 DEF clearHandles, svsVars, SvsTypeOK
  <2>2. [control[n][e] EXCEPT !.pc = "subscribe"] \in ControlState
    BY <1>1 DEF ControlState
  <2>3. ConsumerTypeOK'
    BY <1>5, <2>2 DEF clearHandles, ConsumerTypeOK
  <2> QED
    BY <1>3, <1>5, <2>1, <2>3 DEF clearHandles
<1>6. CASE /\ subscribeToTopicPartition(n, e)
           /\ UNCHANGED <<producerVars, now, productionStats>>
  <2>1. /\ Head(control[n][e].partitions) \in Nat
        /\ Tail(control[n][e].partitions) \in Seq(Nat)
    BY <1>1, <1>6, HeadTailProperties
       DEF subscribeToTopicPartition, NextPartition, RecordHandle, ControlState
  <2>2. SvsTypeOK'
    BY <1>6, <2>1 DEF subscribeToTopicPartition, NextPartition, RecordHandle, Subscribe, NextHandle,
                      SvsTypeOK, Subscription, Channels
  <2>3. [control[n][e] EXCEPT !.partitions = Tail(@)] \in ControlState
    BY <1>1, <2>1 DEF ControlState
  <2>4. Append(m_subscriptionHandles[n][e], NextHandle(n)) \in Seq(Nat)
    BY AppendProperties DEF NextHandle, SvsTypeOK, ConsumerTypeOK
  <2>5. ConsumerTypeOK'
    BY <1>6, <2>3, <2>4 DEF subscribeToTopicPartition, NextPartition, RecordHandle, ConsumerTypeOK
  <2> QED
    BY <1>3, <1>6, <2>2, <2>5 DEF subscribeToTopicPartition, NextPartition, RecordHandle
<1>7. CASE repartitionReturns(n, e) /\ UNCHANGED <<producerVars, now, productionStats>>
  <2>1. Idle \in ControlState
    BY DEF Idle, ControlState
  <2>2. SvsTypeOK' /\ ConsumerTypeOK'
    BY <1>7, <2>1 DEF repartitionReturns, svsVars, SvsTypeOK, ConsumerTypeOK
  <2> QED
    BY <1>3, <1>7, <2>2 DEF repartitionReturns
<1> QED
  BY <1>2, <1>4, <1>5, <1>6, <1>7 DEF ControlStep

\* Steps of the threads that ask for statistics.
LEMMA StatsType ==
  ASSUME TypeInv, NEW n \in Nodes,
         getConsumerStats(n) \/ QueryStep(n) \/ getProducerStats(n)
  PROVE  TypeInv'
<1> USE DEF TypeInv, TypeOK
<1>1. query[n] \in QueryState /\ query \in [Nodes -> QueryState]
  BY DEF ConsumerTypeOK
<1>2. CASE getConsumerStats(n)
  <2> DEFINE q == [query[n] EXCEPT !.pc = "visit", !.edges = Upstream[n], !.before = Stamped(n)]
  <2>1. SvsTypeOK'
    BY <1>2, SpendType DEF getConsumerStats, SvsTypeOK, Choices
  <2>2. Stamped(n) \in SUBSET Consumption
    BY DEF Stamped, ConsumerTypeOK
  <2>3. q \in QueryState /\ q.idleSince = query[n].idleSince
    BY <1>1, <2>2, GraphAssumption DEF QueryState
  <2>4. query' = [query EXCEPT ![n] = q]
    BY <1>1, <1>2 DEF getConsumerStats
  <2> HIDE DEF q
  <2>5. ConsumerTypeOK'
    <3>1. query' \in [Nodes -> QueryState]
      BY <1>1, <2>3, <2>4
    <3> QED
      BY <1>2, <3>1 DEF getConsumerStats, ConsumerTypeOK
  <2>6. ProducerTypeOK' /\ IdleSinceInPast'
    BY <1>1, <1>2, <2>3, <2>4 DEF getConsumerStats, producerVars, ProducerTypeOK, IdleSinceInPast
  <2> QED
    BY <1>2, <2>1, <2>5, <2>6 DEF getConsumerStats
<1>3. CASE getProducerStats(n)
  <2>1. NoQuery \in QueryState /\ NoQuery.idleSince = 0
    BY DEF NoQuery, QueryState
  <2>2. SvsTypeOK' /\ ConsumerTypeOK'
    BY <1>3, <2>1 DEF getProducerStats, svsVars, SvsTypeOK, ConsumerTypeOK
  <2>3. \A d \in Edges : getProductionStats(n, d) \in Stats
    BY CleanUpType DEF getProductionStats, ProducerTypeOK, Stats,
                       determineIdleTime, ProducerIdleSince
  <2>4. productionStats' \in [Nodes -> [Edges -> Stats]]
    BY <1>3, <2>3 DEF getProducerStats
  <2>5. ProducerTypeOK' /\ IdleSinceInPast'
    BY <1>1, <1>3, <2>1 DEF getProducerStats, producerVars, ProducerTypeOK, IdleSinceInPast
  <2> QED
    BY <1>3, <2>2, <2>4, <2>5 DEF getProducerStats
<1>4. ASSUME UNCHANGED <<producerVars, now, productionStats>>, UNCHANGED m_idleSince,
             SvsTypeOK', ConsumerTypeOK',
             NEW q \in QueryState, q.idleSince <= now, query' = [query EXCEPT ![n] = q]
      PROVE  TypeInv'
  BY <1>1, <1>4 DEF producerVars, ProducerTypeOK, IdleSinceInPast
<1>5. ASSUME NEW e \in Edges, copyConsumer(n, e), UNCHANGED <<producerVars, now, productionStats>>
      PROVE  TypeInv'
  <2> DEFINE q == [query[n] EXCEPT !.pc = "report", !.edges = @ \ {e}, !.edge = {e},
                     !.handles = m_subscriptionHandles[n][e],
                     !.timestamps = m_consumptionTimestamps[n][e],
                     !.idleSince = m_idleSince[n][e]]
  <2>1. q \in QueryState /\ q.idleSince <= now
    <3>1. /\ m_subscriptionHandles[n][e] \in Seq(Nat)
          /\ m_consumptionTimestamps[n][e] \in Seq(Nat)
          /\ m_idleSince[n][e] \in Nat
          /\ m_idleSince[n][e] <= now
      BY DEF ConsumerTypeOK, IdleSinceInPast
    <3> QED
      BY <1>1, <3>1 DEF QueryState
  <2>2. query' = [query EXCEPT ![n] = q]
    BY <1>1, <1>5 DEF copyConsumer, unsubscribeFromAllPartitions
  <2> HIDE DEF q
  <2>3. query' \in [Nodes -> QueryState]
    BY <1>1, <2>1, <2>2
  <2>4. control' \in [Nodes -> [Edges -> ControlState]]
    <3>0. control[n][e] \in ControlState
      BY DEF ConsumerTypeOK
    <3>1. ASSUME NEW b \in BOOLEAN
          PROVE  [control[n][e] EXCEPT !.copied = b] \in ControlState
      BY <3>0 DEF ControlState
    <3>2. PICK b \in BOOLEAN : b = (control[n][e].pc = "subscribe")
      OBVIOUS
    <3>3. control' = [control EXCEPT ![n][e].copied = b]
      BY <1>5, <3>2, Zenon DEF copyConsumer
    <3> DEFINE c == [control[n][e] EXCEPT !.copied = b]
    <3>4. c \in ControlState
      BY <3>1
    <3>5. control' = [control EXCEPT ![n][e] = c]
      BY <3>3 DEF ConsumerTypeOK
    <3> HIDE DEF c
    <3> QED
      BY <3>4, <3>5 DEF ConsumerTypeOK
  <2>5. SvsTypeOK' /\ ConsumerTypeOK'
    BY <1>5, <2>3, <2>4 DEF copyConsumer, svsVars, SvsTypeOK, ConsumerTypeOK
  <2> QED
    BY <1>4, <1>5, <2>1, <2>2, <2>5 DEF copyConsumer
<1>6. ASSUME NEW e \in Edges, getConsumptionStats(n, e),
             UNCHANGED <<producerVars, now, productionStats>>
      PROVE  TypeInv'
  <2> DEFINE q == [query[n] EXCEPT !.pc = "destroy", !.edge = {}, !.timestamps = <<>>,
                                   !.idleSince = 0]
             stats == [units |-> Len(cleanUpTimestamps(query[n].timestamps, now)),
                       idle  |-> determineIdleTime(now, query[n].idleSince)]
  <2>1. q \in QueryState /\ q.idleSince <= now
    <3>1. <<>> \in Seq(Nat) /\ 0 \in Nat /\ 0 <= now
      OBVIOUS
    <3> QED
      BY <1>1, <3>1 DEF QueryState
  <2>2. query' = [query EXCEPT ![n] = q]
    BY <1>1, <1>6 DEF getConsumptionStats
  <2>3. stats \in Stats
    <3>1. query[n].timestamps \in Seq(Nat)
      BY <1>1 DEF QueryState
    <3>2. Len(cleanUpTimestamps(query[n].timestamps, now)) \in Nat
      BY <3>1, CleanUpType
    <3>3. determineIdleTime(now, query[n].idleSince) \in Nat
      BY <1>1 DEF determineIdleTime, QueryState, IdleSinceInPast
    <3> QED
      BY <3>2, <3>3 DEF Stats
  <2>4. consumptionStats' = [consumptionStats EXCEPT ![n][e] = stats]
    BY <1>6 DEF getConsumptionStats
  <2> HIDE DEF stats, q
  <2>5. /\ consumptionStats' \in [Nodes -> [Edges -> Stats]]
        /\ query' \in [Nodes -> QueryState]
    BY <1>1, <2>1, <2>2, <2>3, <2>4 DEF ConsumerTypeOK
  <2>6. SvsTypeOK' /\ ConsumerTypeOK'
    BY <1>6, <2>5 DEF getConsumptionStats, svsVars, SvsTypeOK, ConsumerTypeOK
  <2> QED
    BY <1>4, <1>6, <2>1, <2>2, <2>6 DEF getConsumptionStats
<1>7. ASSUME destroyNext(n), UNCHANGED <<producerVars, now, productionStats>>
      PROVE  TypeInv'
  <2> DEFINE q == [query[n] EXCEPT !.handles = Tail(@)]
  <2>1. q \in QueryState /\ q.idleSince <= now
    BY <1>1, <1>7, HeadTailProperties DEF destroyNext, QueryState, IdleSinceInPast
  <2>2. query' = [query EXCEPT ![n] = q]
    BY <1>1, <1>7 DEF destroyNext
  <2> HIDE DEF q
  <2>3. query' \in [Nodes -> QueryState]
    BY <1>1, <2>1, <2>2
  <2>4. ConsumerTypeOK'
    BY <1>7, <2>3 DEF destroyNext, ConsumerTypeOK
  <2>5. SvsTypeOK'
    BY <1>7 DEF destroyNext, Unsubscribe, SvsTypeOK
  <2> QED
    BY <1>4, <1>7, <2>1, <2>2, <2>4, <2>5 DEF destroyNext
<1>8. ASSUME copyDestroyed(n), UNCHANGED <<producerVars, now, productionStats>>
      PROVE  TypeInv'
  <2> DEFINE q == [query[n] EXCEPT !.pc = "visit"]
  <2>1. q \in QueryState /\ q.idleSince <= now
    BY <1>1 DEF QueryState, IdleSinceInPast
  <2>2. query' = [query EXCEPT ![n] = q]
    BY <1>1, <1>8 DEF copyDestroyed
  <2> HIDE DEF q
  <2>3. SvsTypeOK' /\ ConsumerTypeOK'
    BY <1>8, <2>1, <2>2 DEF copyDestroyed, svsVars, SvsTypeOK, ConsumerTypeOK
  <2> QED
    BY <1>4, <1>8, <2>1, <2>2, <2>3 DEF copyDestroyed
<1> QED
  BY <1>2, <1>3, <1>5, <1>6, <1>7, <1>8 DEF QueryStep

\* Every step of every thread, and the passing of time, preserve it.
LEMMA NextType == TypeInv /\ [Next]_vars => TypeInv'
<1> SUFFICES ASSUME TypeInv, [Next]_vars PROVE TypeInv'
  OBVIOUS
<1>1. CASE UNCHANGED vars
  BY <1>1 DEF TypeInv, TypeOK, SvsTypeOK, ProducerTypeOK, ConsumerTypeOK,
              IdleSinceInPast, vars, svsVars, producerVars, consumerVars
<1>2. CASE Clock
  <2>1. budget' \in [Choices -> Nat]
    BY <1>2, SpendType DEF Clock, Choices, TypeInv, TypeOK
  <2> QED
    BY <1>2, <2>1 DEF Clock, Tick, TypeInv, TypeOK, SvsTypeOK, ProducerTypeOK,
                      ConsumerTypeOK, QueryState, IdleSinceInPast, producerVars, consumerVars
<1> QED
  BY <1>1, <1>2, ApplicationType, EventLoopType, RepartitionType, StatsType DEF Next

\* Every variable of the model keeps its type: in particular, no statistics
\* ever report a negative idle time, and handles, sequence numbers and queued
\* partitions stay natural numbers however the threads interleave.
THEOREM TypeCorrect == Spec => []TypeOK
<1>1. Init => TypeInv
  BY InitType
<1>2. TypeInv /\ [Next]_vars => TypeInv'
  BY NextType
<1>3. TypeInv => TypeOK
  BY DEF TypeInv
<1> QED
  BY <1>1, <1>2, <1>3, PTL DEF Spec

----------------------------------------------------------------------------
(* Acknowledgements erase only what was consumed.  The invariant follows    *)
(* the way of an acknowledgement backwards: a backchannel message that is   *)
(* being fetched was published by a consumer, which had then consumed a     *)
(* publication with the acknowledged number on the same edge; on an edge    *)
(* with a single producer that is the publication which is erased.          *)

\* Sequence numbers identify the publications of a node.
Numbered ==
  /\ \A p \in published : p.seq <= seqNo[p.from]
  /\ \A p, q \in published : p.from = q.from /\ p.seq = q.seq => p = q

\* Data is published on the publisher's own downstream edges.
DataOnOwnEdges ==
  \A p \in published : p.chan # BackChannel => p.edge \in Downstream[p.from]

\* An acknowledgement comes from a node that has consumed, on that edge, a
\* publication with the number it carries.
AckHasWitness ==
  \A p \in published : p.chan = BackChannel =>
    \E q \in published : /\ q.chan # BackChannel
                         /\ q.edge = p.edge
                         /\ q.seq = p.ack
                         /\ ConsumedBy(p.from, q)

\* Only the producers of an edge listen to its backchannel.
BackchannelOnOwnEdges ==
  \A n \in Nodes : \A s \in subscriptions[n] :
    s.chan = BackChannel => s.edge \in Downstream[n]

\* What is fetched has been published, and a backchannel message is fetched
\* by a producer of its edge only.
FetchesArePublished ==
  \A n \in Nodes : \A f \in fetching[n] :
    /\ f.pub \in published
    /\ f.pub.chan = BackChannel => f.pub.edge \in Downstream[n]

\* What the event loop is about to time-stamp and to acknowledge is data that
\* its node has consumed.
HandledIsConsumed ==
  \A n \in Nodes : handler[n] # Waiting =>
    /\ handler[n].pub \in published
    /\ handler[n].pub.chan # BackChannel
    /\ ConsumedBy(n, handler[n].pub)

AckInv == /\ TypeInv
          /\ Numbered
          /\ DataOnOwnEdges
          /\ AckHasWitness
          /\ HandledIsConsumed
          /\ BackchannelOnOwnEdges
          /\ FetchesArePublished

\* Nothing is published or subscribed to when the nodes have been built, apart
\* from the producers' own backchannels.
LEMMA InitAck == Init => AckInv
<1> SUFFICES ASSUME Init PROVE AckInv
  OBVIOUS
<1>1. TypeInv
  BY InitType
<1>2. BackchannelOnOwnEdges
  BY DEF Init, SvsInit, BackchannelSubscriptions, BackchannelOnOwnEdges
<1> QED
  BY <1>1, <1>2
     DEF Init, SvsInit, ConsumerInit, AckInv, Numbered, DataOnOwnEdges,
         AckHasWitness, HandledIsConsumed, FetchesArePublished

\* New subscriptions are to partitions, and new fetches are of publications
\* whose edge the node may listen to.
SubscribesToPartitions ==
  \A m \in Nodes : \A s \in subscriptions'[m] :
    s \in subscriptions[m] \/ s.chan # BackChannel

FetchesPublications ==
  \A m \in Nodes : \A f \in fetching'[m] :
    \/ f \in fetching[m]
    \/ /\ f.pub \in published
       /\ f.pub.chan = BackChannel => f.pub.edge \in Downstream[m]

\* The event loop begins to handle only what it has consumed in that step.
HandlesConsumed ==
  \A m \in Nodes : handler'[m] # Waiting =>
    \/ handler[m] # Waiting /\ handler'[m].pub = handler[m].pub
    \/ /\ handler'[m].pub \in published
       /\ handler'[m].pub.chan # BackChannel
       /\ \E c \in consumed'[m] : c.pub = handler'[m].pub

\* A step after which the event loop still handles what it has consumed keeps
\* the part of the invariant about that.
LEMMA Handling ==
  ASSUME AckInv, published \subseteq published', HandlesConsumed,
         \A m \in Nodes : consumed[m] \subseteq consumed'[m]
  PROVE  HandledIsConsumed'
  BY DEF AckInv, HandledIsConsumed, HandlesConsumed, ConsumedBy

\* Such a step keeps the part of the invariant about subscriptions and fetches.
LEMMA SubscriptionsAndFetches ==
  ASSUME AckInv, published \subseteq published', SubscribesToPartitions,
         FetchesPublications
  PROVE  BackchannelOnOwnEdges' /\ FetchesArePublished'
<1>1. BackchannelOnOwnEdges'
  BY DEF AckInv, BackchannelOnOwnEdges, SubscribesToPartitions
<1>2. FetchesArePublished'
  BY DEF AckInv, FetchesArePublished, FetchesPublications
<1> QED
  BY <1>1, <1>2

\* A step that publishes and consumes nothing keeps the invariant.
LEMMA QuietStep ==
  ASSUME AckInv, TypeInv',
         UNCHANGED <<published, seqNo, consumed>>,
         SubscribesToPartitions, FetchesPublications, HandlesConsumed
  PROVE  AckInv'
<1>1. BackchannelOnOwnEdges' /\ FetchesArePublished' /\ HandledIsConsumed'
  BY SubscriptionsAndFetches, Handling
<1>2. Numbered' /\ DataOnOwnEdges'
  BY DEF AckInv, Numbered, DataOnOwnEdges
<1>3. AckHasWitness'
  BY DEF AckInv, AckHasWitness, ConsumedBy
<1> QED
  BY <1>1, <1>2, <1>3 DEF AckInv

\* Publishing data on one's own edges, and acknowledgements of what one has
\* consumed, keeps the invariant.
LEMMA PublishingStep ==
  ASSUME AckInv, TypeInv', NEW n \in Nodes, NEW items \in Seq(Item),
         Publish(n, items),
         \A m \in Nodes : consumed[m] \subseteq consumed'[m],
         \A i \in 1..Len(items) :
           IF items[i].chan = BackChannel
           THEN \E q \in published : /\ q.chan # BackChannel
                                     /\ q.edge = items[i].edge
                                     /\ q.seq = items[i].ack
                                     /\ \E c \in consumed'[n] : c.pub = q
           ELSE items[i].edge \in Downstream[n],
         SubscribesToPartitions, FetchesPublications, HandlesConsumed
  PROVE  AckInv'
<1> DEFINE New(i) == NewPublication(n, items, i)
<1>1. Len(items) \in Nat /\ seqNo[n] \in Nat
  BY LenProperties DEF AckInv, TypeInv, TypeOK, SvsTypeOK
<1>2. ASSUME NEW p \in published'
      PROVE  p \in published \/ \E i \in 1..Len(items) : p = New(i)
  BY DEF Publish
<1>3. published \subseteq published'
  BY DEF Publish
<1>4. \A i \in 1..Len(items) : /\ New(i).from = n
                               /\ New(i).seq = seqNo[n] + i
                               /\ New(i).edge = items[i].edge
                               /\ New(i).chan = items[i].chan
                               /\ New(i).ack = items[i].ack
  BY DEF NewPublication
<1>5. seqNo' = [seqNo EXCEPT ![n] = @ + Len(items)]
  BY DEF Publish
<1>6. \A p \in published : p.from \in Nodes /\ p.seq \in Nat
  BY DEF AckInv, TypeInv, TypeOK, SvsTypeOK, Publication
<1> HIDE DEF New
<1>7. Numbered'
  <2>1. \A p \in published' : p.seq <= seqNo'[p.from]
    <3> SUFFICES ASSUME NEW p \in published' PROVE p.seq <= seqNo'[p.from]
      OBVIOUS
    <3>1. seqNo \in [Nodes -> Nat]
      BY DEF AckInv, TypeInv, TypeOK, SvsTypeOK
    <3>2. CASE p \in published
      <4>1. p.seq <= seqNo[p.from]
        BY <3>2 DEF AckInv, Numbered
      <4>2. seqNo[p.from] <= seqNo'[p.from]
        BY <1>1, <1>5, <1>6, <3>1, <3>2
      <4> QED
        BY <1>1, <1>5, <1>6, <3>1, <3>2, <4>1, <4>2
    <3>3. ASSUME NEW i \in 1..Len(items), p = New(i)
          PROVE  p.seq <= seqNo'[p.from]
      <4>1. p.from = n /\ p.seq = seqNo[n] + i
        BY <1>4, <3>3
      <4>2. seqNo'[n] = seqNo[n] + Len(items)
        BY <1>5, <3>1
      <4> QED
        BY <1>1, <4>1, <4>2
    <3> QED
      BY <1>2, <3>2, <3>3
  <2>2. ASSUME NEW p \in published', NEW q \in published',
               p.from = q.from, p.seq = q.seq
        PROVE  p = q
    <3>1. CASE p \in published /\ q \in published
      BY <2>2, <3>1 DEF AckInv, Numbered
    <3>2. ASSUME NEW i \in 1..Len(items), NEW r \in published, r.from = n
          PROVE  New(i).seq # r.seq
      BY <1>1, <1>4, <1>6, <3>2 DEF AckInv, Numbered
    <3>3. ASSUME NEW i \in 1..Len(items), NEW j \in 1..Len(items),
                 New(i).seq = New(j).seq
          PROVE  i = j
      BY <1>1, <1>4, <3>3
    <3> QED
      BY <1>2, <1>4, <2>2, <3>1, <3>2, <3>3
  <2> QED
    BY <2>1, <2>2 DEF Numbered
<1>8. DataOnOwnEdges'
  BY <1>2, <1>4 DEF AckInv, DataOnOwnEdges
<1>9. AckHasWitness'
  <2> SUFFICES ASSUME NEW p \in published', p.chan = BackChannel
               PROVE  \E q \in published : /\ q.chan # BackChannel
                                           /\ q.edge = p.edge
                                           /\ q.seq = p.ack
                                           /\ \E c \in consumed'[p.from] : c.pub = q
    BY <1>3 DEF AckHasWitness, ConsumedBy
  <2>1. CASE p \in published
    BY <1>6, <2>1 DEF AckInv, AckHasWitness, ConsumedBy
  <2>2. ASSUME NEW i \in 1..Len(items), p = New(i)
        PROVE  \E q \in published : /\ q.chan # BackChannel
                                    /\ q.edge = p.edge
                                    /\ q.seq = p.ack
                                    /\ \E c \in consumed'[p.from] : c.pub = q
    BY <1>4, <2>2
  <2> QED
    BY <1>2, <2>1, <2>2
<1>10. BackchannelOnOwnEdges' /\ FetchesArePublished' /\ HandledIsConsumed'
  BY <1>3, SubscriptionsAndFetches, Handling
<1> QED
  BY <1>7, <1>8, <1>9, <1>10 DEF AckInv

\* A consumer's callback: what it pushes is on its own edges, and what it has
\* taken is handled.
LEMMA ConsumeAck ==
  ASSUME AckInv, TypeInv', NEW n \in Nodes, ConsumeData(n)
  PROVE  AckInv'
<1>1. PICK f \in fetching[n], out \in Outputs(n) : subscribeCallBack(n, f, out)
  BY DEF ConsumeData
<1>2. /\ TypeOK
      /\ f.pub \in published
      /\ consumed \in [Nodes -> SUBSET Consumption]
      /\ handler \in [Nodes -> HandlerState]
  BY DEF AckInv, FetchesArePublished, TypeInv, TypeOK, ConsumerTypeOK
<1>3. out \in Seq(DataItems(n)) /\ out \in Seq(Item)
  BY OutputsType
<1>4. \A i \in 1..Len(out) : /\ out[i].chan # BackChannel
                             /\ out[i].edge \in Downstream[n]
  BY <1>3, ElementOfSeq, DataItemsType
<1>5. FetchesPublications
  <2>1. fetching' = [fetching EXCEPT ![n] = @ \ {f}]
    BY <1>1, Zenon
       DEF subscribeCallBack, DataIgnored, DataConsumed, DataRefused, DataArrives, Fetched
  <2> QED
    BY <1>2, <2>1 DEF FetchesPublications, TypeOK, SvsTypeOK
<1>6. SubscribesToPartitions
  BY <1>1 DEF subscribeCallBack, DataIgnored, DataConsumed, DataRefused,
              SubscribesToPartitions
<1>7. CASE DataIgnored(n, f)
  BY <1>5, <1>6, <1>7, QuietStep DEF DataIgnored, consumerVars, HandlesConsumed
<1>8. CASE DataConsumed(n, f, out)
  <2>1. Publish(n, out)
    BY <1>8 DEF DataConsumed
  <2>2. \A m \in Nodes : consumed[m] \subseteq consumed'[m]
    BY <1>2, <1>8 DEF DataConsumed
  <2>3. \E c \in consumed'[n] : c.pub = f.pub
    <3>1. [pub |-> f.pub, id |-> f.id, at |-> now] \in consumed'[n]
      BY <1>2, <1>8 DEF DataConsumed
    <3> QED
      BY <3>1
  <2>4. HandlesConsumed
    <3>1. /\ handler' = [handler EXCEPT ![n] = [pc |-> "save", pub |-> f.pub]]
          /\ f.pub.chan # BackChannel
      BY <1>8 DEF DataConsumed, DataArrives
    <3> QED
      BY <1>2, <2>3, <3>1 DEF HandlesConsumed
  <2> QED
    BY <1>3, <1>4, <1>5, <1>6, <2>1, <2>2, <2>4, PublishingStep
<1>9. CASE DataRefused(n, f, out)
  <2>1. Publish(n, out) /\ UNCHANGED <<consumed, handler>>
    BY <1>9 DEF DataRefused, PublishedOnThrow, consumerVars
  <2>2. HandlesConsumed
    BY <2>1 DEF HandlesConsumed
  <2> QED
    BY <1>3, <1>4, <1>5, <1>6, <2>1, <2>2, PublishingStep
<1> QED
  BY <1>1, <1>7, <1>8, <1>9 DEF subscribeCallBack

\* What has been consumed and time-stamped is acknowledged.
LEMMA FinishAck ==
  ASSUME AckInv, TypeInv', NEW n \in Nodes, FinishData(n)
  PROVE  AckInv'
<1>1. /\ handler \in [Nodes -> HandlerState]
      /\ published \subseteq Publication
  BY DEF AckInv, TypeInv, TypeOK, SvsTypeOK, ConsumerTypeOK
<1>2. SubscribesToPartitions /\ FetchesPublications
  BY DEF FinishData, saveTimestamp, acknowledge, svsVars, SubscribesToPartitions,
         FetchesPublications
<1>3. CASE saveTimestamp(n)
  <2>1. HandlesConsumed
    BY <1>1, <1>3 DEF saveTimestamp, HandlesConsumed, Waiting
  <2> QED
    BY <1>2, <1>3, <2>1, QuietStep DEF saveTimestamp, svsVars
<1>4. CASE acknowledge(n)
  <2> DEFINE pub == handler[n].pub
             items == <<AckOf(pub)>>
  <2>1. /\ pub \in published
        /\ pub.chan # BackChannel
        /\ ConsumedBy(n, pub)
    BY <1>4 DEF acknowledge, Waiting, AckInv, HandledIsConsumed
  <2>2. AckOf(pub) \in Item
    BY <1>1, <2>1, AckType
  <2>3. /\ items \in Seq(Item) /\ Len(items) = 1
        /\ items[1] = [edge |-> pub.edge, chan |-> BackChannel, ack |-> pub.seq]
    BY <2>2 DEF AckOf
  <2>4. Publish(n, items) /\ UNCHANGED consumed
    BY <1>4 DEF acknowledge
  <2>5. HandlesConsumed
    BY <1>1, <1>4 DEF acknowledge, HandlesConsumed
  <2>6. \E c \in consumed'[n] : c.pub = pub
    BY <2>1, <2>4 DEF ConsumedBy
  <2> HIDE DEF items, pub
  <2>7. \A i \in 1..Len(items) : i = 1
    BY <2>3
  <2>8. /\ items[1].chan = BackChannel
        /\ items[1].edge = pub.edge
        /\ items[1].ack = pub.seq
    BY <2>3
  <2> QED
    BY <1>2, <2>1, <2>3, <2>4, <2>5, <2>6, <2>7, <2>8, PublishingStep
<1> QED
  BY <1>3, <1>4 DEF FinishData

\* A producer's backchannel callback only empties the store.
LEMMA EraseAck ==
  ASSUME AckInv, TypeInv', NEW n \in Nodes, HandleAck(n)
  PROVE  AckInv'
<1>1. PICK f \in fetching[n] : onBackchannel(n, f)
  BY DEF HandleAck
<1>2. /\ UNCHANGED <<published, seqNo, subscriptions, consumed, handler>>
      /\ fetching' = [fetching EXCEPT ![n] = @ \ {f}]
  BY <1>1 DEF HandleAck, onBackchannel, Fetched, consumerVars
<1>3. SubscribesToPartitions /\ FetchesPublications /\ HandlesConsumed
  BY <1>2 DEF SubscribesToPartitions, FetchesPublications, HandlesConsumed, AckInv,
              TypeInv, TypeOK, SvsTypeOK
<1> QED
  BY <1>2, <1>3, QuietStep

\* A query drops subscriptions, and publishes and consumes nothing.
LEMMA QuerySteps ==
  ASSUME SvsTypeOK, NEW n \in Nodes,
         getConsumerStats(n) \/ QueryStep(n) \/ getProducerStats(n)
  PROVE  /\ UNCHANGED <<published, seqNo, dataStore, mapped, fetching, consumed, handler>>
         /\ \A m \in Nodes : subscriptions'[m] \subseteq subscriptions[m]
<1>1. CASE getConsumerStats(n)
  BY <1>1 DEF getConsumerStats
<1>2. CASE getProducerStats(n)
  BY <1>2 DEF getProducerStats, svsVars
<1>3. CASE destroyNext(n)
  BY <1>3 DEF destroyNext, Unsubscribe, SvsTypeOK
<1>4. ASSUME NEW e, copyConsumer(n, e) \/ getConsumptionStats(n, e) \/ copyDestroyed(n)
      PROVE  UNCHANGED <<svsVars, consumed, handler>>
  BY <1>4 DEF copyConsumer, getConsumptionStats, copyDestroyed
<1> QED
  BY <1>1, <1>2, <1>3, <1>4 DEF QueryStep, svsVars

\* The steps of a repartition publish and consume nothing.
LEMMA ControlSteps ==
  ASSUME NEW n \in Nodes, NEW e \in Edges, RepartitionConsumer(n, e) \/ ControlStep(n, e)
  PROVE  UNCHANGED <<published, seqNo, dataStore, mapped, fetching, consumed, handler>>
<1>1. CASE RepartitionConsumer(n, e)
  BY <1>1 DEF RepartitionConsumer, repartition
<1>2. CASE unsubscribeNext(n, e) \/ subscribeToTopicPartition(n, e)
  BY <1>2 DEF unsubscribeNext, subscribeToTopicPartition
<1>3. CASE clearHandles(n, e) \/ repartitionReturns(n, e)
  BY <1>3 DEF clearHandles, repartitionReturns, svsVars
<1> QED
  BY <1>1, <1>2, <1>3 DEF ControlStep

\* The gRPC threads neither publish nor erase; they subscribe to partitions
\* only.
LEMMA ControlAck ==
  ASSUME AckInv, TypeInv', NEW n \in Nodes,
         \/ \E e \in Edges : RepartitionConsumer(n, e) \/ ControlStep(n, e)
         \/ getConsumerStats(n) \/ QueryStep(n) \/ getProducerStats(n)
  PROVE  AckInv'
<1>1. SvsTypeOK /\ control \in [Nodes -> [Edges -> ControlState]]
  BY DEF AckInv, TypeInv, TypeOK, ConsumerTypeOK
<1>2. UNCHANGED <<published, seqNo, dataStore, fetching, consumed, handler>>
  BY <1>1, QuerySteps, ControlSteps
<1>3. SubscribesToPartitions
  <2>1. CASE getConsumerStats(n) \/ QueryStep(n) \/ getProducerStats(n)
    BY <1>1, <2>1, QuerySteps DEF SubscribesToPartitions
  <2>2. ASSUME NEW e \in Edges, unsubscribeNext(n, e)
        PROVE  SubscribesToPartitions
    BY <1>1, <2>2 DEF unsubscribeNext, Unsubscribe, SubscribesToPartitions, SvsTypeOK
  <2>3. ASSUME NEW e \in Edges, subscribeToTopicPartition(n, e)
        PROVE  SubscribesToPartitions
    <3>1. NextPartition(n, e) \in Nat
      BY <1>1, <2>3, HeadTailProperties
         DEF subscribeToTopicPartition, NextPartition, ControlState
    <3>2. NextPartition(n, e) # BackChannel
      BY <3>1, GraphAssumption
    <3> QED
      BY <1>1, <2>3, <3>2 DEF subscribeToTopicPartition, Subscribe,
                              SubscribesToPartitions, SvsTypeOK
  <2>4. ASSUME NEW e \in Edges,
               RepartitionConsumer(n, e) \/ clearHandles(n, e) \/ repartitionReturns(n, e)
        PROVE  SubscribesToPartitions
    BY <2>4 DEF RepartitionConsumer, repartition, clearHandles, repartitionReturns,
                svsVars, SubscribesToPartitions
  <2> QED
    BY <2>1, <2>2, <2>3, <2>4 DEF ControlStep
<1>4. FetchesPublications /\ HandlesConsumed
  BY <1>2 DEF FetchesPublications, HandlesConsumed
<1> QED
  BY <1>2, <1>3, <1>4, QuietStep

\* A fetch concerns a publication that a subscription of the node matches.
LEMMA SyncAck ==
  ASSUME AckInv, TypeInv', NEW n \in Nodes, Sync(n) \/ Timeout(n)
  PROVE  AckInv'
<1>1. fetching \in [Nodes -> SUBSET Fetch]
  BY DEF AckInv, TypeInv, TypeOK, SvsTypeOK
<1>2. CASE Sync(n)
  <2>1. PICK pub \in published : SyncUpdate(n, pub)
    BY <1>2 DEF Sync
  <2>2. \A s \in Matching(n, pub) :
          pub.chan = BackChannel => pub.edge \in Downstream[n]
    BY DEF Matching, AckInv, BackchannelOnOwnEdges
  <2>3. FetchesPublications
    BY <1>1, <2>1, <2>2 DEF SyncUpdate, FetchesPublications
  <2> QED
    BY <1>2, <2>1, <2>3, QuietStep
       DEF Sync, SyncUpdate, SubscribesToPartitions, HandlesConsumed, consumerVars
<1>3. CASE Timeout(n)
  <2>1. PICK f \in fetching[n] : FetchTimeout(n, f)
    BY <1>3 DEF Timeout
  <2>2. FetchesPublications
    BY <1>1, <2>1 DEF FetchTimeout, FetchesPublications
  <2> QED
    BY <1>3, <2>1, <2>2, QuietStep
       DEF Timeout, FetchTimeout, SubscribesToPartitions, HandlesConsumed, consumerVars
<1> QED
  BY <1>2, <1>3

\* Steps of the application's threads.
LEMMA ApplicationAck ==
  ASSUME AckInv, TypeInv', NEW n \in Nodes,
         \/ PushData(n)
         \/ \E e \in Edges : RegisterCallback(n, e) \/ RepartitionProducer(n, e)
  PROVE  AckInv'
<1>1. CASE PushData(n)
  <2>1. PICK item \in DataItems(n) : pushData(n, item)
    BY <1>1 DEF PushData
  <2>2. item \in Item /\ item.chan # BackChannel /\ item.edge \in Downstream[n]
    BY DataItemsType
  <2> DEFINE items == <<item>>
  <2>3. items \in Seq(Item) /\ Len(items) = 1 /\ items[1] = item
    BY <2>2
  <2>4. Publish(n, items)
    BY <2>1 DEF pushData
  <2> HIDE DEF items
  <2>5. /\ SubscribesToPartitions
        /\ FetchesPublications
        /\ HandlesConsumed
        /\ UNCHANGED consumed
    BY <1>1, <2>1 DEF PushData, pushData, consumerVars, SubscribesToPartitions,
                      FetchesPublications, HandlesConsumed
  <2>6. \A i \in 1..Len(items) : /\ items[i].chan # BackChannel
                                 /\ items[i].edge \in Downstream[n]
    BY <2>2, <2>3
  <2> QED
    BY <2>3, <2>4, <2>5, <2>6, PublishingStep
<1>2. CASE \E e \in Edges : RegisterCallback(n, e) \/ RepartitionProducer(n, e)
  BY <1>2, QuietStep
     DEF RegisterCallback, setConsumerCallback, RepartitionProducer, svsVars,
         consumerVars, SubscribesToPartitions, FetchesPublications, HandlesConsumed
<1> QED
  BY <1>1, <1>2

\* Every step preserves the invariant.
LEMMA NextAck == AckInv /\ [Next]_vars => AckInv'
<1> SUFFICES ASSUME AckInv, [Next]_vars PROVE AckInv'
  OBVIOUS
<1>1. TypeInv'
  BY NextType DEF AckInv
<1>2. CASE UNCHANGED vars \/ Clock
  BY <1>1, <1>2, QuietStep
     DEF Clock, vars, svsVars, consumerVars, SubscribesToPartitions,
         FetchesPublications, HandlesConsumed
<1> QED
  BY <1>1, <1>2, ApplicationAck, SyncAck, ConsumeAck, FinishAck, EraseAck, ControlAck
     DEF Next

\* Publications, stores and what was consumed change in four actions only.
LEMMA OtherSteps ==
  ASSUME TypeInv, [Next]_vars,
         \A n \in Nodes : ~PushData(n) /\ ~ConsumeData(n) /\ ~FinishData(n) /\ ~HandleAck(n)
  PROVE  UNCHANGED <<published, seqNo, dataStore, consumed>>
<1>1. CASE UNCHANGED vars \/ Clock
  BY <1>1 DEF vars, svsVars, consumerVars, Clock
<1>2. ASSUME NEW n \in Nodes, NEW e \in Edges,
             RegisterCallback(n, e) \/ RepartitionProducer(n, e)
      PROVE  UNCHANGED <<published, seqNo, dataStore, consumed>>
  BY <1>2 DEF RegisterCallback, setConsumerCallback, RepartitionProducer, svsVars,
              consumerVars
<1>3. ASSUME NEW n \in Nodes, Sync(n) \/ Timeout(n)
      PROVE  UNCHANGED <<published, seqNo, dataStore, consumed>>
  BY <1>3 DEF Sync, SyncUpdate, Timeout, FetchTimeout, consumerVars
<1> QED
  BY <1>1, <1>2, <1>3, QuerySteps, ControlSteps DEF Next, TypeInv, TypeOK

\* Only the backchannel callback takes a number out of a data store, and the
\* number it takes out has been consumed on the edge of the callback.
LEMMA ErasedNumber ==
  ASSUME AckInv, [Next]_vars, NEW m \in Nodes, NEW seq \in dataStore[m],
         seq \notin dataStore'[m]
  PROVE  /\ UNCHANGED <<published, consumed>>
         /\ dataStore' = [dataStore EXCEPT ![m] = @ \ {seq}]
         /\ \E q \in published : \E k \in Nodes :
              /\ q.chan # BackChannel
              /\ q.edge \in Downstream[m]
              /\ q.seq = seq
              /\ ConsumedBy(k, q)
<1>1. dataStore \in [Nodes -> SUBSET Nat]
  BY DEF AckInv, TypeInv, TypeOK, SvsTypeOK
<1>2. ASSUME NEW n \in Nodes, NEW items, Publish(n, items)
      PROVE  FALSE
  BY <1>1, <1>2 DEF Publish
<1>3. ASSUME NEW n \in Nodes, NEW f \in fetching[n], onBackchannel(n, f)
      PROVE  n = m /\ seq = f.pub.ack
  BY <1>1, <1>3 DEF onBackchannel, Erase
<1>4. PICK f \in fetching[m] : /\ onBackchannel(m, f)
                               /\ f.pub.ack = seq
                               /\ UNCHANGED consumed
  <2>1. dataStore' # dataStore
    OBVIOUS
  <2>2. ASSUME NEW n \in Nodes, PushData(n) \/ ConsumeData(n) \/ FinishData(n) PROVE FALSE
    BY <1>2, <2>1, <2>2
       DEF PushData, pushData, ConsumeData, subscribeCallBack, DataIgnored,
           DataConsumed, DataRefused, FinishData, saveTimestamp, acknowledge, svsVars
  <2>3. PICK n \in Nodes : HandleAck(n)
    BY <2>1, <2>2, OtherSteps DEF AckInv
  <2> QED
    BY <1>3, <2>3 DEF HandleAck, consumerVars
<1>5. /\ f.pub \in published
      /\ f.pub.chan = BackChannel
      /\ f.pub.edge \in Downstream[m]
      /\ f.pub.from \in Nodes
  BY <1>4 DEF onBackchannel, AckInv, FetchesArePublished, TypeInv, TypeOK,
              SvsTypeOK, Publication
<1>6. UNCHANGED published /\ dataStore' = [dataStore EXCEPT ![m] = @ \ {seq}]
  BY <1>4 DEF onBackchannel, Erase
<1> QED
  BY <1>4, <1>5, <1>6 DEF AckInv, AckHasWitness

\* What has been consumed stays consumed.
LEMMA ConsumedGrows ==
  ASSUME TypeInv, [Next]_vars, NEW n \in Nodes
  PROVE  consumed[n] \subseteq consumed'[n]
<1>1. consumed \in [Nodes -> SUBSET Consumption]
  BY DEF TypeInv, TypeOK, ConsumerTypeOK
<1>2. ASSUME NEW k \in Nodes, NEW f, NEW out, DataConsumed(k, f, out)
      PROVE  consumed[n] \subseteq consumed'[n]
  BY <1>1, <1>2 DEF DataConsumed
<1> QED
  BY <1>2, OtherSteps
     DEF consumerVars, PushData, ConsumeData, subscribeCallBack, DataIgnored,
         DataRefused, FinishData, saveTimestamp, acknowledge, HandleAck

\* A step of a node's own publishes with Publish, or not at all.
LEMMA PublishOrNot ==
  ASSUME NEW n \in Nodes, PushData(n) \/ ConsumeData(n) \/ FinishData(n)
  PROVE  \/ \E items : Publish(n, items)
         \/ UNCHANGED <<published, seqNo, dataStore>>
<1>1. CASE PushData(n)
  BY <1>1 DEF PushData, pushData
<1>2. CASE ConsumeData(n)
  BY <1>2 DEF ConsumeData, subscribeCallBack, DataIgnored, DataConsumed, DataRefused
<1>3. CASE FinishData(n)
  BY <1>3 DEF FinishData, saveTimestamp, acknowledge, svsVars
<1> QED
  BY <1>1, <1>2, <1>3

\* So does every step.
LEMMA PublishSteps ==
  ASSUME TypeInv, [Next]_vars, published' # published
  PROVE  \E n \in Nodes : \E items : Publish(n, items)
  BY OtherSteps, PublishOrNot DEF HandleAck, onBackchannel

\* A publication that appears in a step is in its publisher's store after it.
LEMMA PublishedIsStored ==
  ASSUME TypeInv, [Next]_vars, NEW p \in published', p \notin published
  PROVE  p.seq \in dataStore'[p.from]
<1>1. dataStore \in [Nodes -> SUBSET Nat]
  BY DEF TypeInv, TypeOK, SvsTypeOK
<1>2. ASSUME NEW n \in Nodes, NEW items, Publish(n, items)
      PROVE  p.seq \in dataStore'[p.from]
  <2>1. PICK i \in 1..Len(items) : p = NewPublication(n, items, i)
    BY <1>2 DEF Publish
  <2>2. p.from = n /\ p.seq = seqNo[n] + i
    BY <2>1 DEF NewPublication
  <2> QED
    BY <1>1, <1>2, <2>2 DEF Publish
<1> QED
  BY <1>2, PublishSteps

\* Publications are never withdrawn.
LEMMA PublishedGrows ==
  ASSUME TypeInv, [Next]_vars
  PROVE  published \subseteq published'
  BY PublishSteps DEF Publish

\* A number that has left a data store never comes back: the numbers that are
\* published later are larger.
LEMMA ErasedForGood ==
  ASSUME AckInv, [Next]_vars, NEW p \in published,
         p.seq \notin dataStore[p.from]
  PROVE  p.seq \notin dataStore'[p.from]
<1>1. /\ p.from \in Nodes /\ p.seq \in Nat
      /\ dataStore \in [Nodes -> SUBSET Nat]
      /\ seqNo \in [Nodes -> Nat]
      /\ p.seq <= seqNo[p.from]
  BY DEF AckInv, Numbered, TypeInv, TypeOK, SvsTypeOK, Publication
<1>2. ASSUME NEW n \in Nodes, NEW items, Publish(n, items)
      PROVE  p.seq \notin dataStore'[p.from]
  BY <1>1, <1>2 DEF Publish
<1>3. ASSUME NEW n \in Nodes, HandleAck(n)
      PROVE  p.seq \notin dataStore'[p.from]
  BY <1>1, <1>3 DEF HandleAck, onBackchannel, Erase
<1> QED
  BY <1>2, <1>3, OtherSteps, PublishOrNot DEF AckInv

\* With a single producer per edge, the publication that an acknowledgement
\* erases is the one whose consumption was acknowledged.
LEMMA NextErased ==
  ASSUME SingleProducer, AckInv, ErasedOnlyIfConsumed, [Next]_vars
  PROVE  ErasedOnlyIfConsumed'
<1> SUFFICES ASSUME NEW p \in published', p.seq \notin dataStore'[p.from]
             PROVE  \E k \in Nodes : \E c \in consumed'[k] : c.pub = p
  BY DEF ErasedOnlyIfConsumed, ConsumedBy
<1>1. TypeInv /\ p \in published
  BY PublishedIsStored DEF AckInv
<1>2. p.from \in Nodes /\ p.seq \in Nat /\ published \subseteq Publication
  BY <1>1 DEF TypeInv, TypeOK, SvsTypeOK, Publication
<1>3. PICK k \in Nodes : ConsumedBy(k, p)
  <2>1. CASE p.seq \notin dataStore[p.from]
    BY <1>1, <2>1 DEF ErasedOnlyIfConsumed
  <2>2. CASE p.seq \in dataStore[p.from]
    <3>1. PICK q \in published, k \in Nodes :
            /\ q.chan # BackChannel
            /\ q.edge \in Downstream[p.from]
            /\ q.seq = p.seq
            /\ ConsumedBy(k, q)
      BY <1>2, <2>2, ErasedNumber
    <3>2. q.from = p.from
      BY <1>2, <3>1 DEF AckInv, DataOnOwnEdges, SingleProducer, Publication
    <3> QED
      BY <1>1, <3>1, <3>2 DEF AckInv, Numbered
  <2> QED
    BY <2>1, <2>2
<1> QED
  BY <1>1, <1>3, ConsumedGrows DEF ConsumedBy

\* On edges with a single producer, a publication leaves its producer's data
\* store only after some consumer's callback has taken it (the erase in
\* setupBackchannel's callback, producer.cpp), for every graph, partitioning,
\* repartitioning, failing callback and failing fetch.
THEOREM AcknowledgedIsConsumed ==
  ASSUME SingleProducer
  PROVE  Spec => []ErasedOnlyIfConsumed
<1> DEFINE Inv == AckInv /\ ErasedOnlyIfConsumed
<1>1. Init => Inv
  BY InitAck DEF Init, SvsInit, ErasedOnlyIfConsumed
<1>2. Inv /\ [Next]_vars => Inv'
  BY NextAck, NextErased
<1>3. Inv => ErasedOnlyIfConsumed
  OBVIOUS
<1> QED
  BY <1>1, <1>2, <1>3, PTL DEF Spec
============================================================================
