-------------------------- MODULE IceflowProducer --------------------------
(***************************************************************************)
(* IceflowProducer (src/producer.cpp): one producer per downstream edge of *)
(* a node.  It publishes data on a random partition of its edge and drops  *)
(* from the node's data store what consumers acknowledge on the edge's     *)
(* backchannel.                                                            *)
(***************************************************************************)
EXTENDS SVSPubSub, Timestamps

CONSTANTS MaxPartitions  \* MaxPartitions[e]: maxPartitions of edge e

ASSUME PartitionAssumption == MaxPartitions \in [Edges -> Nat \ {0}]

VARIABLES m_topicPartitions,      \* [n][e]: the partitions set last
          m_productionTimestamps  \* [n][e]: when data was produced

producerVars == <<m_topicPartitions, m_productionTimestamps>>

ProducerTypeOK ==
  /\ m_topicPartitions \in [Nodes -> [Edges -> SUBSET Nat]]
  /\ m_productionTimestamps \in [Nodes -> [Edges -> Seq(Nat)]]

\* The constructor calls setTopicPartitions(maxPartitions) and
\* setupBackchannel(); an edge the node does not produce for has no producer.
ProducerInit ==
  /\ m_topicPartitions =
       [n \in Nodes |-> [e \in Edges |->
          IF e \in Downstream[n] THEN 0..(MaxPartitions[e] - 1) ELSE {}]]
  /\ m_productionTimestamps = [n \in Nodes |-> [e \in Edges |-> <<>>]]

\* Mutant: partitions numbered from 1.
getNextPartitionNumber_fromOne(e) == 1..MaxPartitions[e]

\* m_randomNumberGenerator() % m_numberOfPartitions.  m_numberOfPartitions is
\* assigned in the constructor only.
getNextPartitionNumber(e) == 0..(MaxPartitions[e] - 1)

\* What pushData may hand to publish() for node n.
DataItems(n) ==
  UNION {{[edge |-> e, chan |-> p, ack |-> 0] : p \in getNextPartitionNumber(e)}
           : e \in Downstream[n]}

\* pushData on an application thread.  No timestamp is saved.
pushData(n, item) ==
  /\ item \in DataItems(n)
  /\ Publish(n, <<item>>)
  /\ UNCHANGED <<subscriptions, subscriptionCount, mapped, fetching, budget>>
  /\ UNCHANGED producerVars

\* setTopicPartitions(k).  k = 0 throws before anything changes.
setTopicPartitions(n, e, k) ==
  /\ e \in Downstream[n]
  /\ k # 0
  /\ m_topicPartitions' = [m_topicPartitions EXCEPT ![n][e] = 0..(k - 1)]
  /\ UNCHANGED m_productionTimestamps

\* The lambda setupBackchannel() subscribes: the message is the decimal text
\* of a sequence number, and the publication of this node with that number
\* is erased from this node's store, whoever published what was acknowledged.
onBackchannel(n, f) ==
  /\ Fetched(n, f)
  /\ f.pub.chan = BackChannel
  /\ Erase(n, f.pub.ack)
  /\ UNCHANGED <<published, seqNo, subscriptions, subscriptionCount, mapped,
                 budget>>
  /\ UNCHANGED producerVars

\* The producer's m_idleSince is never assigned: it is the clock's epoch.
ProducerIdleSince == 0

\* getProductionStats() on the copy of the producer that getProducerStats()
\* makes: the clean-up leaves the original's timestamps alone.
getProductionStats(n, e) ==
  [units |-> Len(cleanUpTimestamps(m_productionTimestamps[n][e], now)),
   idle  |-> determineIdleTime(now, ProducerIdleSince)]

============================================================================
