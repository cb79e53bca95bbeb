-------------------------- MODULE IceflowConsumer --------------------------
(***************************************************************************)
(* IceflowConsumer (src/consumer.cpp): one consumer per upstream edge of a *)
(* node.  Three threads act on it, and nothing locks it: the Face's event  *)
(* loop runs its callback; repartition runs on a thread of the gRPC server *)
(* (or on the application's before run()); and the statistics are taken    *)
(* from a copy, on another thread of that server.  The steps of the three  *)
(* interleave, one library call per step.                                  *)
(*                                                                         *)
(* One consumer is repartitioned by one thread at a time here; overlapping *)
(* repartitions are the subject of ControlPlane.                           *)
(***************************************************************************)
EXTENDS SVSPubSub, Timestamps

CONSTANTS Assignments  \* Assignments[n]: partition vectors n may be given

ASSUME AssignmentAssumption == Assignments \in [Nodes -> SUBSET Seq(Nat)]

VARIABLES m_subscriptionHandles,    \* [n][e]: handles, oldest first
          m_consumerCallback,       \* [n][e]: is a callback registered?
          m_consumptionTimestamps,  \* [n][e]: when data was consumed
          m_idleSince,              \* [n][e]
          handler,                  \* handler[n]: the event loop of n
          control,                  \* [n][e]: the thread that repartitions
          query,                    \* query[n]: the thread that asks for statistics
          consumptionStats,         \* [n][e]: the statistics reported last
          requested,                \* [n][e]: partitions asked for last
          consumed                  \* consumed[n]: what n's callbacks took

consumerVars == <<m_subscriptionHandles, m_consumerCallback,
                  m_consumptionTimestamps, m_idleSince, handler, control,
                  query, consumptionStats, requested, consumed>>

\* After the callback, the event loop saves a timestamp and acknowledges.
HandlerState == [pc : {"idle"}] \cup
                [pc : {"save", "acknowledge"}, pub : Publication]
Waiting == [pc |-> "idle"]

\* A repartition: the step it is at, the handles still to drop, the partitions
\* still to subscribe to, and whether a query has copied the consumer since
\* the handles were cleared (history).
ControlState == [pc : {"idle", "unsubscribe", "subscribe"},
                 handles : Seq(Nat),
                 partitions : Seq(Nat),
                 copied : BOOLEAN]
Idle == [pc |-> "idle", handles |-> <<>>, partitions |-> <<>>, copied |-> FALSE]

Consumption == [pub : Publication, id : Nat, at : Nat]

\* A query: the step it is at, the edges still to visit, the edge that it is at
\* and the copy of that edge's consumer, and what had been consumed and
\* time-stamped when it began (history).
QueryState == [pc : {"idle", "visit", "report", "destroy"},
               edges : SUBSET Edges,
               edge : SUBSET Edges,
               handles : Seq(Nat),
               timestamps : Seq(Nat),
               idleSince : Nat,
               before : SUBSET Consumption]
NoQuery == [pc |-> "idle", edges |-> {}, edge |-> {}, handles |-> <<>>,
            timestamps |-> <<>>, idleSince |-> 0, before |-> {}]

\* Idle times are never negative.
Stats == [units : Nat, idle : Nat]

ConsumerTypeOK ==
  /\ m_subscriptionHandles \in [Nodes -> [Edges -> Seq(Nat)]]
  /\ m_consumerCallback \in [Nodes -> [Edges -> BOOLEAN]]
  /\ m_consumptionTimestamps \in [Nodes -> [Edges -> Seq(Nat)]]
  /\ m_idleSince \in [Nodes -> [Edges -> Nat]]
  /\ handler \in [Nodes -> HandlerState]
  /\ control \in [Nodes -> [Edges -> ControlState]]
  /\ query \in [Nodes -> QueryState]
  /\ consumptionStats \in [Nodes -> [Edges -> Stats]]
  /\ requested \in [Nodes -> [Edges -> SUBSET Nat]]
  /\ consumed \in [Nodes -> SUBSET Consumption]

PerEdge(v) == [n \in Nodes |-> [e \in Edges |-> v]]

ConsumerInit ==
  /\ m_subscriptionHandles = PerEdge(<<>>)
  /\ m_consumerCallback = PerEdge(FALSE)
  /\ m_consumptionTimestamps = PerEdge(<<>>)
  /\ m_idleSince = PerEdge(Uptime)
  /\ handler = [n \in Nodes |-> Waiting]
  /\ control = PerEdge(Idle)
  /\ query = [n \in Nodes |-> NoQuery]
  /\ consumptionStats = PerEdge([units |-> 0, idle |-> 0])
  /\ requested = PerEdge({})
  /\ consumed = [n \in Nodes |-> {}]

----------------------------------------------------------------------------
(* The event loop: subscribeCallBack. *)

setConsumerCallback(n, e) ==
  /\ e \in Upstream[n]
  /\ m_consumerCallback' = [m_consumerCallback EXCEPT ![n][e] = TRUE]
  /\ UNCHANGED <<m_subscriptionHandles, m_consumptionTimestamps, m_idleSince, handler,
                 control, query, consumptionStats, requested, consumed>>

\* Mutant: the acknowledgement is one ahead.
AckOf_next(pub) == [edge |-> pub.edge, chan |-> BackChannel, ack |-> pub.seq + 1]

\* The message published on the backchannel: the sequence number only.
AckOf(pub) == [edge |-> pub.edge, chan |-> BackChannel, ack |-> pub.seq]

\* Data of a partition arrives.
DataArrives(n, f) ==
  /\ handler[n] = Waiting
  /\ Fetched(n, f)
  /\ f.pub.chan # BackChannel

\* No callback is registered: the data is dropped.
DataIgnored(n, f) ==
  /\ DataArrives(n, f)
  /\ ~m_consumerCallback[n][f.pub.edge]
  /\ UNCHANGED <<published, seqNo, dataStore, subscriptions,
                 subscriptionCount, mapped, budget>>
  /\ UNCHANGED consumerVars

\* The callback pushes the items out and returns.
DataConsumed(n, f, out) ==
  /\ DataArrives(n, f)
  /\ m_consumerCallback[n][f.pub.edge]
  /\ consumed' = [consumed EXCEPT
       ![n] = @ \cup {[pub |-> f.pub, id |-> f.id, at |-> now]}]
  /\ Publish(n, out)
  /\ handler' = [handler EXCEPT ![n] = [pc |-> "save", pub |-> f.pub]]
  /\ UNCHANGED <<subscriptions, subscriptionCount, mapped, budget>>
  /\ UNCHANGED <<m_subscriptionHandles, m_consumerCallback, m_consumptionTimestamps,
                 m_idleSince, control, query, consumptionStats, requested>>

\* Mutant: the acknowledgement is sent although the callback threw.
PublishedOnThrow_acks(pub, out) == Append(out, AckOf(pub))

PublishedOnThrow(pub, out) == out

\* The callback pushes the items out and throws; the exception reaches the
\* event loop, and neither the timestamp nor the acknowledgement happens.
DataRefused(n, f, out) ==
  /\ Spend("throw")
  /\ DataArrives(n, f)
  /\ m_consumerCallback[n][f.pub.edge]
  /\ Publish(n, PublishedOnThrow(f.pub, out))
  /\ UNCHANGED <<subscriptions, subscriptionCount, mapped>>
  /\ UNCHANGED consumerVars

subscribeCallBack(n, f, out) ==
  \/ out = <<>> /\ DataIgnored(n, f)
  \/ DataConsumed(n, f, out)
  \/ DataRefused(n, f, out)

\* The callback has returned.
saveTimestamp(n) ==
  /\ handler[n].pc = "save"
  /\ LET e == handler[n].pub.edge IN
       /\ m_consumptionTimestamps' = [m_consumptionTimestamps EXCEPT
            ![n][e] = cleanUpTimestamps(Append(@, now), now)]
       /\ m_idleSince' = [m_idleSince EXCEPT ![n][e] = now]
  /\ handler' = [handler EXCEPT ![n].pc = "acknowledge"]
  /\ UNCHANGED svsVars
  /\ UNCHANGED <<m_subscriptionHandles, m_consumerCallback, control, query,
                 consumptionStats, requested, consumed>>

\* The sequence number is published on the backchannel.
acknowledge(n) ==
  /\ handler[n].pc = "acknowledge"
  /\ Publish(n, <<AckOf(handler[n].pub)>>)
  /\ handler' = [handler EXCEPT ![n] = Waiting]
  /\ UNCHANGED <<subscriptions, subscriptionCount, mapped, fetching, budget>>
  /\ UNCHANGED <<m_subscriptionHandles, m_consumerCallback, m_consumptionTimestamps,
                 m_idleSince, control, query, consumptionStats, requested, consumed>>

\* What n has consumed and time-stamped.
Stamped(n) ==
  {c \in consumed[n] : ~(handler[n].pc = "save" /\ c.pub = handler[n].pub)}

----------------------------------------------------------------------------
(* A thread of the gRPC server: repartition(partitions). *)

\* Mutant: the subscriptions are left as they are.
unsubscribeFromAllPartitions_none(n, e) == <<>>

\* The handles that unsubscribeFromAllPartitions() goes through.
unsubscribeFromAllPartitions(n, e) == m_subscriptionHandles[n][e]

repartition(n, e, partitions) ==
  /\ control[n][e] = Idle
  /\ e \in Upstream[n]
  /\ Spend("repartition")
  /\ control' = [control EXCEPT
       ![n][e] = [pc |-> "unsubscribe", handles |-> unsubscribeFromAllPartitions(n, e),
                  partitions |-> partitions, copied |-> FALSE]]
  /\ requested' = [requested EXCEPT
       ![n][e] = {partitions[i] : i \in 1..Len(partitions)}]
  /\ UNCHANGED <<published, seqNo, dataStore, subscriptions,
                 subscriptionCount, mapped, fetching>>
  /\ UNCHANGED <<m_subscriptionHandles, m_consumerCallback, m_consumptionTimestamps,
                 m_idleSince, handler, query, consumptionStats, consumed>>

\* One iteration of unsubscribeFromAllPartitions.
unsubscribeNext(n, e) ==
  /\ control[n][e].pc = "unsubscribe"
  /\ control[n][e].handles # <<>>
  /\ Unsubscribe(n, Head(control[n][e].handles))
  /\ control' = [control EXCEPT ![n][e].handles = Tail(@)]
  /\ UNCHANGED <<published, seqNo, dataStore, subscriptionCount, mapped,
                 fetching, budget>>
  /\ UNCHANGED <<m_subscriptionHandles, m_consumerCallback, m_consumptionTimestamps,
                 m_idleSince, handler, query, consumptionStats, requested, consumed>>

\* m_subscriptionHandles.clear()
clearHandles(n, e) ==
  /\ control[n][e].pc = "unsubscribe"
  /\ control[n][e].handles = <<>>
  /\ m_subscriptionHandles' = [m_subscriptionHandles EXCEPT ![n][e] = <<>>]
  /\ control' = [control EXCEPT ![n][e].pc = "subscribe"]
  /\ UNCHANGED svsVars
  /\ UNCHANGED <<m_consumerCallback, m_consumptionTimestamps, m_idleSince, handler,
                 query, consumptionStats, requested, consumed>>

\* Mutant: every partition is taken to be the first.
NextPartition_zero(n, e) == 0

NextPartition(n, e) == Head(control[n][e].partitions)

\* Mutant: the new handle is forgotten.
RecordHandle_not(handles, handle) == handles

\* m_subscriptionHandles.push_back(handle)
RecordHandle(handles, handle) == Append(handles, handle)

\* One iteration of repartition's loop.
subscribeToTopicPartition(n, e) ==
  /\ control[n][e].pc = "subscribe"
  /\ control[n][e].partitions # <<>>
  /\ Subscribe(n, e, NextPartition(n, e))
  /\ m_subscriptionHandles' = [m_subscriptionHandles EXCEPT
       ![n][e] = RecordHandle(@, NextHandle(n))]
  /\ control' = [control EXCEPT ![n][e].partitions = Tail(@)]
  /\ UNCHANGED <<published, seqNo, dataStore, mapped, fetching, budget>>
  /\ UNCHANGED <<m_consumerCallback, m_consumptionTimestamps, m_idleSince, handler,
                 query, consumptionStats, requested, consumed>>

repartitionReturns(n, e) ==
  /\ control[n][e].pc = "subscribe"
  /\ control[n][e].partitions = <<>>
  /\ control' = [control EXCEPT ![n][e] = Idle]
  /\ UNCHANGED svsVars
  /\ UNCHANGED <<m_subscriptionHandles, m_consumerCallback, m_consumptionTimestamps,
                 m_idleSince, handler, query, consumptionStats, requested, consumed>>

----------------------------------------------------------------------------
(* Another one: IceFlow::getConsumerStats, whose loop variable is a copy of *)
(* each consumer.  The copy's destructor ends the iteration.                *)

\* The copy of e's consumer that an iteration begins with.  (Its parts are
\* copied one after the other; the handles and the timestamps are written by
\* different threads and read by different steps, so their order shows nowhere.)
copyConsumer(n, e) ==
  /\ query[n].pc = "visit"
  /\ e \in query[n].edges
  /\ query' = [query EXCEPT
       ![n].pc = "report", ![n].edges = @ \ {e}, ![n].edge = {e},
       ![n].handles = unsubscribeFromAllPartitions(n, e),
       ![n].timestamps = m_consumptionTimestamps[n][e],
       ![n].idleSince = m_idleSince[n][e]]
  /\ control' = [control EXCEPT ![n][e].copied = (control[n][e].pc = "subscribe")]
  /\ UNCHANGED svsVars
  /\ UNCHANGED <<m_subscriptionHandles, m_consumerCallback, m_consumptionTimestamps,
                 m_idleSince, handler, consumptionStats, requested, consumed>>

\* getConsumptionStats() on the copy.
getConsumptionStats(n, e) ==
  /\ query[n].pc = "report"
  /\ e \in query[n].edge
  /\ consumptionStats' = [consumptionStats EXCEPT ![n][e] =
       [units |-> Len(cleanUpTimestamps(query[n].timestamps, now)),
        idle  |-> determineIdleTime(now, query[n].idleSince)]]
  /\ query' = [query EXCEPT ![n].pc = "destroy", ![n].edge = {},
                            ![n].timestamps = <<>>, ![n].idleSince = 0]
  /\ UNCHANGED svsVars
  /\ UNCHANGED <<m_subscriptionHandles, m_consumerCallback, m_consumptionTimestamps,
                 m_idleSince, handler, control, requested, consumed>>

\* ~IceflowConsumer() of the copy unsubscribes its handles.
destroyNext(n) ==
  /\ query[n].pc = "destroy"
  /\ query[n].handles # <<>>
  /\ Unsubscribe(n, Head(query[n].handles))
  /\ query' = [query EXCEPT ![n].handles = Tail(@)]
  /\ UNCHANGED <<published, seqNo, dataStore, subscriptionCount, mapped,
                 fetching, budget>>
  /\ UNCHANGED <<m_subscriptionHandles, m_consumerCallback, m_consumptionTimestamps,
                 m_idleSince, handler, control, consumptionStats, requested, consumed>>

\* The destructor is over: the next iteration.
copyDestroyed(n) ==
  /\ query[n].pc = "destroy"
  /\ query[n].handles = <<>>
  /\ query' = [query EXCEPT ![n].pc = "visit"]
  /\ UNCHANGED svsVars
  /\ UNCHANGED <<m_subscriptionHandles, m_consumerCallback, m_consumptionTimestamps,
                 m_idleSince, handler, control, consumptionStats, requested, consumed>>

============================================================================
