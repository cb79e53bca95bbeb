----------------------- MODULE IceFlowDeliveryProofs -----------------------
(***************************************************************************)
(* Theorems about IceFlow for every application graph and every bound:     *)
(* what a repartition establishes, what is mapped and delivered while      *)
(* subscriptions move, and that every edge implements EdgeDelivery.        *)
(***************************************************************************)
EXTENDS IceFlowProofs

----------------------------------------------------------------------------
(* Sequences as sets: the loops of repartition and of                      *)
(* unsubscribeFromAllPartitions take the head and keep the tail.           *)

Members(s) == {s[i] : i \in 1..Len(s)}

Distinct(s) == \A i, j \in 1..Len(s) : s[i] = s[j] => i = j

\* A sequence that is not empty holds its head and what its tail holds.
LEMMA MembersHeadTail ==
  ASSUME NEW S, NEW s \in Seq(S), s # <<>>
  PROVE  /\ Members(s) = {Head(s)} \cup Members(Tail(s))
         /\ Distinct(s) => Distinct(Tail(s)) /\ Head(s) \notin Members(Tail(s))
<1>1. /\ Len(s) \in Nat \ {0}
      /\ Tail(s) \in Seq(S)
      /\ Head(s) = s[1]
      /\ Len(Tail(s)) = Len(s) - 1
      /\ \A i \in 1..Len(Tail(s)) : Tail(s)[i] = s[i + 1]
  BY HeadTailProperties, LenProperties, EmptySeq
<1>2. Members(s) \subseteq {Head(s)} \cup Members(Tail(s))
  <2> SUFFICES ASSUME NEW i \in 1..Len(s), i # 1
               PROVE  s[i] \in Members(Tail(s))
    BY <1>1 DEF Members
  <2>1. i - 1 \in 1..Len(Tail(s)) /\ Tail(s)[i - 1] = s[i]
    BY <1>1
  <2> QED
    BY <2>1 DEF Members
<1>3. {Head(s)} \cup Members(Tail(s)) \subseteq Members(s)
  BY <1>1 DEF Members
<1>4. ASSUME Distinct(s)
      PROVE  Distinct(Tail(s)) /\ Head(s) \notin Members(Tail(s))
  BY <1>1, <1>4 DEF Distinct, Members
<1> QED
  BY <1>2, <1>3, <1>4

\* Appending adds one member.
LEMMA MembersAppend ==
  ASSUME NEW S, NEW s \in Seq(S), NEW x \in S
  PROVE  Members(Append(s, x)) = Members(s) \cup {x}
<1>1. /\ Len(s) \in Nat
      /\ Len(Append(s, x)) = Len(s) + 1
      /\ \A i \in 1..Len(s) : Append(s, x)[i] = s[i]
      /\ Append(s, x)[Len(s) + 1] = x
  BY AppendProperties, LenProperties
<1> QED
  BY <1>1 DEF Members

\* The empty sequence has no members.
LEMMA MembersEmpty == Members(<<>>) = {} /\ Distinct(<<>>)
  BY DEF Members, Distinct

----------------------------------------------------------------------------
(* What a repartition establishes.  The thread that repartitions a consumer *)
(* drops the handles it read at the start and then subscribes, while others *)
(* do the same on other edges and a query drops the handles of its copies;  *)
(* the invariant says what the subscriptions of a node are at each step.    *)

\* Subscriptions of node n to partitions of edge e.
DataSubscriptions(n, e) ==
  {s \in subscriptions[n] : s.edge = e /\ s.chan # BackChannel}

\* The consumer of an edge keeps the handle of every subscription it has.
HandlesKept(n) ==
  \A e \in Edges : \A s \in DataSubscriptions(n, e) :
    s.id \in Members(m_subscriptionHandles[n][e])

\* A handle that is kept, by a consumer or by a copy, was given out.
HandlesGivenOut(n) ==
  /\ \A e \in Edges : \A h \in Members(m_subscriptionHandles[n][e]) :
       h <= subscriptionCount[n]
  /\ \A h \in Members(query[n].handles) : h <= subscriptionCount[n]

\* Handles of different edges differ.
HandlesApart(n) ==
  \A d, e \in Edges : d # e =>
    Members(m_subscriptionHandles[n][d]) \cap Members(m_subscriptionHandles[n][e]) = {}

\* The handles being dropped are those of the edge that is repartitioned.
DropsOwnHandles(n) ==
  \A e \in Edges : Members(control[n][e].handles) \subseteq Members(m_subscriptionHandles[n][e])

\* They cover every subscription that is left.
HandlesToDrop(n) ==
  \A e \in Edges : control[n][e].pc = "unsubscribe" =>
    \A s \in DataSubscriptions(n, e) : s.id \in Members(control[n][e].handles)

\* A copy from before the handles were cleared has none of the new ones.
CopyIsOld(n) ==
  \A e \in Edges : control[n][e].pc = "subscribe" /\ ~control[n][e].copied =>
    Members(query[n].handles) \cap Members(m_subscriptionHandles[n][e]) = {}

\* What is subscribed to and what is still to be subscribed to is what was
\* asked for, or less if a query's copy has the new handles.
RequestInProgress(n) ==
  \A e \in Edges :
    /\ control[n][e].pc = "unsubscribe" =>
         Members(control[n][e].partitions) = requested[n][e]
    /\ control[n][e].pc = "subscribe" =>
         /\ Members(control[n][e].partitions) \subseteq requested[n][e]
         /\ ~control[n][e].copied =>
              requested[n][e] \subseteq
                SubscribedPartitions(n, e) \cup Members(control[n][e].partitions)

\* Outside of a repartition's first loop, no consumer is subscribed to
\* a partition that it was not asked to take over.
OnlyRequested(n) ==
  \A e \in Edges : control[n][e].pc # "unsubscribe" =>
    SubscribedPartitions(n, e) \subseteq requested[n][e]

NodeSub(n) == /\ HandlesKept(n)
              /\ HandlesGivenOut(n)
              /\ HandlesApart(n)
              /\ DropsOwnHandles(n)
              /\ HandlesToDrop(n)
              /\ CopyIsOld(n)
              /\ RequestInProgress(n)
              /\ OnlyRequested(n)

SubInv == TypeInv /\ \A n \in Nodes : NodeSub(n)

\* The partitions subscribed to, by way of the subscriptions.
LEMMA SubscribedIff ==
  ASSUME NEW n, NEW e, NEW p
  PROVE  p \in SubscribedPartitions(n, e) <=>
           \E s \in DataSubscriptions(n, e) : s.chan = p
  BY DEF SubscribedPartitions, DataSubscriptions

\* The types of what the invariant is about.
LEMMA SubTypes ==
  ASSUME TypeInv, NEW n \in Nodes
  PROVE  /\ subscriptions \in [Nodes -> SUBSET Subscription]
         /\ subscriptionCount \in [Nodes -> Nat]
         /\ m_subscriptionHandles \in [Nodes -> [Edges -> Seq(Nat)]]
         /\ control \in [Nodes -> [Edges -> ControlState]]
         /\ query \in [Nodes -> QueryState]
         /\ requested \in [Nodes -> [Edges -> SUBSET Nat]]
         /\ \A e \in Edges : /\ Members(m_subscriptionHandles[n][e]) \subseteq Nat
                             /\ control[n][e].handles \in Seq(Nat)
                             /\ control[n][e].partitions \in Seq(Nat)
         /\ query[n].handles \in Seq(Nat)
         /\ Members(query[n].handles) \subseteq Nat
<1>1. /\ subscriptions \in [Nodes -> SUBSET Subscription]
      /\ subscriptionCount \in [Nodes -> Nat]
      /\ m_subscriptionHandles \in [Nodes -> [Edges -> Seq(Nat)]]
      /\ control \in [Nodes -> [Edges -> ControlState]]
      /\ query \in [Nodes -> QueryState]
      /\ requested \in [Nodes -> [Edges -> SUBSET Nat]]
  BY DEF TypeInv, TypeOK, SvsTypeOK, ConsumerTypeOK
<1>2. ASSUME NEW s \in Seq(Nat) PROVE Members(s) \subseteq Nat
  BY ElementOfSeq DEF Members
<1>3. query[n].handles \in Seq(Nat)
  BY <1>1 DEF QueryState
<1>4. ASSUME NEW e \in Edges
      PROVE  /\ m_subscriptionHandles[n][e] \in Seq(Nat)
             /\ control[n][e].handles \in Seq(Nat)
             /\ control[n][e].partitions \in Seq(Nat)
  BY <1>1 DEF ControlState
<1> QED
  BY <1>1, <1>2, <1>3, <1>4

\* What the threads of a node and of other nodes do to its control state.
SubUnchanged(m) ==
  /\ subscriptions'[m] = subscriptions[m]
  /\ subscriptionCount'[m] = subscriptionCount[m]
  /\ m_subscriptionHandles'[m] = m_subscriptionHandles[m]
  /\ control'[m] = control[m]
  /\ requested'[m] = requested[m]
  /\ query'[m] = query[m]

\* The invariant of a node depends on nothing else.
LEMMA SubLocal ==
  ASSUME NEW m \in Nodes, NodeSub(m), SubUnchanged(m)
  PROVE  NodeSub(m)'
  BY DEF NodeSub, HandlesKept, HandlesGivenOut, HandlesApart, DropsOwnHandles,
         HandlesToDrop, CopyIsOld, RequestInProgress, OnlyRequested,
         SubscribedPartitions, DataSubscriptions, SubUnchanged

\* The steps of the threads that repartition consumers of node n, and of the
\* thread that asks for its statistics.
ControlOf(n) == \E e \in Edges : RepartitionConsumer(n, e) \/ ControlStep(n, e)

QueryOf(n) == getConsumerStats(n) \/ QueryStep(n) \/ getProducerStats(n)

\* Only these threads change a node's subscriptions and handles.
LEMMA OtherControl ==
  ASSUME TypeInv, [Next]_vars, NEW m \in Nodes, ~ControlOf(m), ~QueryOf(m)
  PROVE  SubUnchanged(m)
<1>1. CASE UNCHANGED vars \/ Clock
  BY <1>1 DEF vars, svsVars, consumerVars, Clock, SubUnchanged
<1>2. ASSUME NEW n \in Nodes, NEW e \in Edges,
             RegisterCallback(n, e) \/ RepartitionProducer(n, e)
      PROVE  SubUnchanged(m)
  BY <1>2 DEF RegisterCallback, setConsumerCallback, RepartitionProducer,
              svsVars, consumerVars, SubUnchanged
<1>3. ASSUME NEW n \in Nodes, Sync(n) \/ Timeout(n) \/ PushData(n) \/ HandleAck(n)
      PROVE  SubUnchanged(m)
  BY <1>3 DEF Sync, SyncUpdate, Timeout, FetchTimeout, PushData, pushData,
              HandleAck, onBackchannel, consumerVars, SubUnchanged
<1>4. ASSUME NEW n \in Nodes, ConsumeData(n) \/ FinishData(n)
      PROVE  SubUnchanged(m)
  BY <1>4 DEF ConsumeData, subscribeCallBack, DataIgnored, DataConsumed,
              DataRefused, FinishData, saveTimestamp, acknowledge, svsVars,
              consumerVars, SubUnchanged
<1>5. ASSUME NEW n \in Nodes, ControlOf(n)
      PROVE  SubUnchanged(m)
  <2> n # m
    BY <1>5
  <2> USE SubTypes DEF SubUnchanged
  <2>1. PICK e \in Edges : RepartitionConsumer(n, e) \/ ControlStep(n, e)
    BY <1>5 DEF ControlOf
  <2>2. CASE RepartitionConsumer(n, e)
    BY <2>2 DEF RepartitionConsumer, repartition
  <2>3. CASE unsubscribeNext(n, e)
    BY <2>3 DEF unsubscribeNext, Unsubscribe
  <2>4. CASE subscribeToTopicPartition(n, e)
    BY <2>4 DEF subscribeToTopicPartition, Subscribe
  <2>5. CASE clearHandles(n, e) \/ repartitionReturns(n, e)
    BY <2>5 DEF clearHandles, repartitionReturns, svsVars
  <2> QED
    BY <2>1, <2>2, <2>3, <2>4, <2>5 DEF ControlStep
<1>6. ASSUME NEW n \in Nodes, QueryOf(n)
      PROVE  SubUnchanged(m)
  <2> n # m
    BY <1>6
  <2> USE SubTypes DEF SubUnchanged
  <2>1. CASE getConsumerStats(n) \/ getProducerStats(n)
    BY <2>1 DEF getConsumerStats, getProducerStats, svsVars
  <2>2. CASE destroyNext(n)
    BY <2>2 DEF destroyNext, Unsubscribe
  <2>3. ASSUME NEW e, copyConsumer(n, e) \/ getConsumptionStats(n, e) \/ copyDestroyed(n)
        PROVE  SubUnchanged(m)
    BY <2>3 DEF copyConsumer, getConsumptionStats, copyDestroyed, svsVars
  <2> QED
    BY <1>6, <2>1, <2>2, <2>3 DEF QueryOf, QueryStep
<1> QED
  BY <1>1, <1>2, <1>3, <1>4, <1>5, <1>6 DEF Next, ControlOf, QueryOf

\* A handle is dropped: subscriptions only disappear, and only those of edges
\* that have the handle.
LEMMA Dropped ==
  ASSUME NEW n \in Nodes, NEW h, NodeSub(n),
         subscriptions'[n] = {s \in subscriptions[n] : s.id # h},
         NEW e \in Edges
  PROVE  /\ DataSubscriptions(n, e)' = {s \in DataSubscriptions(n, e) : s.id # h}
         /\ SubscribedPartitions(n, e)' \subseteq SubscribedPartitions(n, e)
         /\ h \notin Members(m_subscriptionHandles[n][e]) =>
              SubscribedPartitions(n, e)' = SubscribedPartitions(n, e)
<1>1. /\ DataSubscriptions(n, e)' = {s \in DataSubscriptions(n, e) : s.id # h}
      /\ SubscribedPartitions(n, e)' \subseteq SubscribedPartitions(n, e)
  BY DEF DataSubscriptions, SubscribedPartitions
<1>2. ASSUME h \notin Members(m_subscriptionHandles[n][e])
      PROVE  SubscribedPartitions(n, e) \subseteq SubscribedPartitions(n, e)'
  <2>1. \A s \in DataSubscriptions(n, e) : s.id # h
    BY <1>2 DEF NodeSub, HandlesKept
  <2> QED
    BY <2>1 DEF DataSubscriptions, SubscribedPartitions
<1> QED
  BY <1>1, <1>2

\* repartition starts: the handles to drop are those of the edge.
LEMMA RepartitionSub ==
  ASSUME SubInv, NEW n \in Nodes, NEW e \in Edges, RepartitionConsumer(n, e)
  PROVE  NodeSub(n)'
<1>1. PICK partitions \in Assignments[n] : repartition(n, e, partitions)
  BY DEF RepartitionConsumer
<1>2. TypeInv /\ NodeSub(n)
  BY DEF SubInv
<1>3. /\ UNCHANGED <<subscriptions, subscriptionCount, m_subscriptionHandles, query>>
      /\ control'[n][e].pc = "unsubscribe"
      /\ control'[n][e].handles = m_subscriptionHandles[n][e]
      /\ control'[n][e].partitions = partitions
      /\ requested'[n][e] = Members(partitions)
      /\ \A d \in Edges \ {e} : /\ requested'[n][d] = requested[n][d]
                                /\ control'[n][d] = control[n][d]
  BY <1>1, <1>2, SubTypes DEF repartition, unsubscribeFromAllPartitions, Members
<1>4. \A d \in Edges : /\ SubscribedPartitions(n, d)' = SubscribedPartitions(n, d)
                       /\ DataSubscriptions(n, d)' = DataSubscriptions(n, d)
  BY <1>3 DEF SubscribedPartitions, DataSubscriptions
<1>5. HandlesKept(n)' /\ HandlesGivenOut(n)' /\ HandlesApart(n)'
  BY <1>2, <1>3, <1>4 DEF NodeSub, HandlesKept, HandlesGivenOut, HandlesApart
<1>6. DropsOwnHandles(n)' /\ HandlesToDrop(n)' /\ CopyIsOld(n)'
  BY <1>2, <1>3, <1>4
     DEF NodeSub, HandlesKept, DropsOwnHandles, HandlesToDrop, CopyIsOld
<1>7. RequestInProgress(n)' /\ OnlyRequested(n)'
  BY <1>2, <1>3, <1>4 DEF NodeSub, RequestInProgress, OnlyRequested
<1> QED
  BY <1>5, <1>6, <1>7 DEF NodeSub

\* One handle is dropped, which no other edge has.
LEMMA UnsubscribeSub ==
  ASSUME SubInv, NEW n \in Nodes, NEW e \in Edges, unsubscribeNext(n, e)
  PROVE  NodeSub(n)'
<1> DEFINE h == Head(control[n][e].handles)
<1>1. TypeInv /\ NodeSub(n)
  BY DEF SubInv
<1>2. /\ subscriptions'[n] = {s \in subscriptions[n] : s.id # h}
      /\ UNCHANGED <<subscriptionCount, m_subscriptionHandles, query, requested>>
      /\ control[n][e].pc = "unsubscribe"
      /\ control'[n][e].pc = "unsubscribe"
      /\ control'[n][e].partitions = control[n][e].partitions
      /\ control'[n][e].handles = Tail(control[n][e].handles)
      /\ \A d \in Edges \ {e} : control'[n][d] = control[n][d]
  BY <1>1, SubTypes DEF unsubscribeNext, Unsubscribe, ControlState
<1>3. Members(control[n][e].handles) =
        {h} \cup Members(Tail(control[n][e].handles))
  BY <1>1, SubTypes, MembersHeadTail DEF unsubscribeNext
<1> HIDE DEF h
<1>4. \A d \in Edges \ {e} : h \notin Members(m_subscriptionHandles[n][d])
  BY <1>1, <1>3 DEF NodeSub, DropsOwnHandles, HandlesApart
<1>5. \A d \in Edges :
        /\ DataSubscriptions(n, d)' = {s \in DataSubscriptions(n, d) : s.id # h}
        /\ SubscribedPartitions(n, d)' \subseteq SubscribedPartitions(n, d)
        /\ d # e => SubscribedPartitions(n, d)' = SubscribedPartitions(n, d)
  BY <1>1, <1>2, <1>4, Dropped
<1>6. HandlesKept(n)' /\ HandlesGivenOut(n)' /\ HandlesApart(n)'
  BY <1>1, <1>2, <1>5 DEF NodeSub, HandlesKept, HandlesGivenOut, HandlesApart
<1>7. DropsOwnHandles(n)' /\ HandlesToDrop(n)'
  BY <1>1, <1>2, <1>3, <1>5 DEF NodeSub, DropsOwnHandles, HandlesToDrop
<1>8. CopyIsOld(n)' /\ RequestInProgress(n)' /\ OnlyRequested(n)'
  BY <1>1, <1>2, <1>5 DEF NodeSub, CopyIsOld, RequestInProgress, OnlyRequested
<1> QED
  BY <1>6, <1>7, <1>8 DEF NodeSub

\* The handles are cleared: no subscription of the edge is left.
LEMMA ClearSub ==
  ASSUME SubInv, NEW n \in Nodes, NEW e \in Edges, clearHandles(n, e)
  PROVE  NodeSub(n)'
<1>1. TypeInv /\ NodeSub(n)
  BY DEF SubInv
<1>2. /\ UNCHANGED <<subscriptions, subscriptionCount, query, requested>>
      /\ m_subscriptionHandles'[n][e] = <<>>
      /\ control[n][e].pc = "unsubscribe"
      /\ control[n][e].handles = <<>>
      /\ control'[n][e].pc = "subscribe"
      /\ control'[n][e].handles = <<>>
      /\ control'[n][e].partitions = control[n][e].partitions
      /\ \A d \in Edges \ {e} :
           /\ m_subscriptionHandles'[n][d] = m_subscriptionHandles[n][d]
           /\ control'[n][d] = control[n][d]
  BY <1>1, SubTypes DEF clearHandles, svsVars, ControlState
<1>3. ASSUME NEW d
      PROVE  /\ DataSubscriptions(n, d)' = DataSubscriptions(n, d)
             /\ SubscribedPartitions(n, d)' = SubscribedPartitions(n, d)
  BY <1>2 DEF DataSubscriptions, SubscribedPartitions
<1>4. DataSubscriptions(n, e) = {}
  BY <1>1, <1>2, MembersEmpty DEF NodeSub, HandlesToDrop
<1>5. SubscribedPartitions(n, e) = {}
  BY <1>4, SubscribedIff
<1>6. Members(m_subscriptionHandles'[n][e]) = {} /\ Members(control'[n][e].handles) = {}
  BY <1>2, MembersEmpty
<1>7. HandlesKept(n)' /\ HandlesApart(n)'
  <2>1. HandlesKept(n)'
    BY <1>1, <1>2, <1>3, <1>4 DEF NodeSub, HandlesKept
  <2>2. \A d \in Edges : Members(m_subscriptionHandles'[n][d]) \subseteq
                           Members(m_subscriptionHandles[n][d])
    BY <1>2, <1>6
  <2>3. HandlesApart(n)
    BY <1>1 DEF NodeSub
  <2>4. HandlesApart(n)'
    BY <2>2, <2>3, Zenon DEF HandlesApart
  <2> QED
    BY <2>1, <2>4
<1>8. HandlesGivenOut(n)' /\ CopyIsOld(n)'
  BY <1>1, <1>2, <1>6 DEF NodeSub, HandlesGivenOut, CopyIsOld
<1>9. DropsOwnHandles(n)' /\ HandlesToDrop(n)'
  BY <1>1, <1>2, <1>3, <1>6 DEF NodeSub, DropsOwnHandles, HandlesToDrop
<1>10. RequestInProgress(n)' /\ OnlyRequested(n)'
  BY <1>1, <1>2, <1>3, <1>5 DEF NodeSub, RequestInProgress, OnlyRequested
<1> QED
  BY <1>7, <1>8, <1>9, <1>10 DEF NodeSub

\* One subscription is made and its handle, larger than all others, is kept.
LEMMA SubscribeSub ==
  ASSUME SubInv, NEW n \in Nodes, NEW e \in Edges, subscribeToTopicPartition(n, e)
  PROVE  NodeSub(n)'
<1> DEFINE p == Head(control[n][e].partitions)
           new == [id |-> NextHandle(n), edge |-> e, chan |-> p]
<1>1. TypeInv /\ NodeSub(n)
  BY DEF SubInv
<1>2. /\ subscriptions'[n] = subscriptions[n] \cup {new}
      /\ subscriptionCount'[n] = NextHandle(n)
      /\ m_subscriptionHandles'[n][e] =
           Append(m_subscriptionHandles[n][e], NextHandle(n))
      /\ UNCHANGED <<query, requested>>
      /\ control[n][e].pc = "subscribe"
      /\ control'[n][e].pc = "subscribe"
      /\ control'[n][e].copied = control[n][e].copied
      /\ control'[n][e].handles = control[n][e].handles
      /\ control'[n][e].partitions = Tail(control[n][e].partitions)
      /\ \A d \in Edges \ {e} :
           /\ m_subscriptionHandles'[n][d] = m_subscriptionHandles[n][d]
           /\ control'[n][d] = control[n][d]
  BY <1>1, SubTypes DEF subscribeToTopicPartition, Subscribe, NextPartition,
                        RecordHandle, ControlState
<1>3. /\ Members(control[n][e].partitions) =
           {p} \cup Members(Tail(control[n][e].partitions))
      /\ p \in Nat
  BY <1>1, SubTypes, MembersHeadTail, HeadTailProperties DEF subscribeToTopicPartition
<1>4. p # BackChannel
  BY <1>3, GraphAssumption
<1>5. Members(m_subscriptionHandles'[n][e]) =
        Members(m_subscriptionHandles[n][e]) \cup {NextHandle(n)}
  <2>1. m_subscriptionHandles[n][e] \in Seq(Nat) /\ NextHandle(n) \in Nat
    BY <1>1, SubTypes DEF NextHandle
  <2>2. Members(Append(m_subscriptionHandles[n][e], NextHandle(n))) =
          Members(m_subscriptionHandles[n][e]) \cup {NextHandle(n)}
    BY <2>1, MembersAppend
  <2> QED
    BY <1>2, <2>2
<1>6. new.id = NextHandle(n) /\ new.edge = e /\ new.chan = p
  OBVIOUS
<1> HIDE DEF new, p
<1>7. /\ DataSubscriptions(n, e)' = DataSubscriptions(n, e) \cup {new}
      /\ SubscribedPartitions(n, e)' = SubscribedPartitions(n, e) \cup {p}
      /\ \A d \in Edges \ {e} :
           /\ DataSubscriptions(n, d)' = DataSubscriptions(n, d)
           /\ SubscribedPartitions(n, d)' = SubscribedPartitions(n, d)
  BY <1>2, <1>4, <1>6 DEF DataSubscriptions, SubscribedPartitions
<1>8. /\ \A h \in Nat : h <= subscriptionCount[n] => h # NextHandle(n) /\ h <= NextHandle(n)
      /\ NextHandle(n) <= NextHandle(n)
  BY <1>1, SubTypes DEF NextHandle
<1>9. /\ \A d \in Edges : \A h \in Members(m_subscriptionHandles[n][d]) :
           h # NextHandle(n) /\ h <= NextHandle(n)
      /\ \A h \in Members(query[n].handles) : h # NextHandle(n) /\ h <= NextHandle(n)
  BY <1>1, <1>8, SubTypes DEF NodeSub, HandlesGivenOut
<1>10. HandlesKept(n)'
  <2> SUFFICES ASSUME NEW d \in Edges, NEW s \in DataSubscriptions(n, d)'
               PROVE  s.id \in Members(m_subscriptionHandles'[n][d])
    BY DEF HandlesKept
  <2>1. CASE d = e
    BY <1>1, <1>5, <1>6, <1>7, <2>1 DEF NodeSub, HandlesKept
  <2>2. CASE d # e
    BY <1>1, <1>2, <1>7, <2>2 DEF NodeSub, HandlesKept
  <2> QED
    BY <2>1, <2>2
<1>11. HandlesGivenOut(n)'
  <2>1. \A d \in Edges : \A h \in Members(m_subscriptionHandles'[n][d]) : h <= NextHandle(n)
    BY <1>2, <1>5, <1>8, <1>9
  <2> QED
    BY <1>2, <1>9, <2>1 DEF HandlesGivenOut
<1>12. HandlesApart(n)'
  <2> SUFFICES ASSUME NEW c \in Edges, NEW d \in Edges, c # d,
                      NEW h \in Members(m_subscriptionHandles'[n][c]),
                      h \in Members(m_subscriptionHandles'[n][d])
               PROVE  FALSE
    BY DEF HandlesApart
  <2> USE <1>1 DEF NodeSub, HandlesApart
  <2>1. CASE c = e
    BY <1>2, <1>5, <1>9, <2>1
  <2>2. CASE d = e
    BY <1>2, <1>5, <1>9, <2>2
  <2>3. CASE c # e /\ d # e
    BY <1>2, <2>3
  <2> QED
    BY <2>1, <2>2, <2>3
<1>13. DropsOwnHandles(n)' /\ HandlesToDrop(n)'
  BY <1>1, <1>2, <1>5, <1>7 DEF NodeSub, DropsOwnHandles, HandlesToDrop
<1>14. CopyIsOld(n)'
  BY <1>1, <1>2, <1>5, <1>9 DEF NodeSub, CopyIsOld
<1>15. RequestInProgress(n)' /\ OnlyRequested(n)'
  BY <1>1, <1>2, <1>3, <1>7 DEF NodeSub, RequestInProgress, OnlyRequested
<1> QED
  BY <1>10, <1>11, <1>12, <1>13, <1>14, <1>15 DEF NodeSub

\* repartition returns.
LEMMA ReturnSub ==
  ASSUME SubInv, NEW n \in Nodes, NEW e \in Edges, repartitionReturns(n, e)
  PROVE  NodeSub(n)'
<1>1. TypeInv /\ NodeSub(n)
  BY DEF SubInv
<1>2. /\ UNCHANGED <<subscriptions, subscriptionCount, m_subscriptionHandles, query, requested>>
      /\ control[n][e].pc = "subscribe"
      /\ control'[n][e].pc = "idle"
      /\ control'[n][e].handles = <<>>
      /\ \A d \in Edges \ {e} : control'[n][d] = control[n][d]
  BY <1>1, SubTypes DEF repartitionReturns, svsVars, Idle
<1>3. \A d \in Edges : /\ SubscribedPartitions(n, d)' = SubscribedPartitions(n, d)
                       /\ DataSubscriptions(n, d)' = DataSubscriptions(n, d)
  BY <1>2 DEF SubscribedPartitions, DataSubscriptions
<1>4. HandlesKept(n)' /\ HandlesGivenOut(n)' /\ HandlesApart(n)'
  BY <1>1, <1>2, <1>3 DEF NodeSub, HandlesKept, HandlesGivenOut, HandlesApart
<1>5. DropsOwnHandles(n)' /\ HandlesToDrop(n)' /\ CopyIsOld(n)'
  BY <1>1, <1>2, <1>3, MembersEmpty
     DEF NodeSub, DropsOwnHandles, HandlesToDrop, CopyIsOld
<1>6. RequestInProgress(n)' /\ OnlyRequested(n)'
  BY <1>1, <1>2, <1>3 DEF NodeSub, RequestInProgress, OnlyRequested
<1> QED
  BY <1>4, <1>5, <1>6 DEF NodeSub

\* A query copies the consumer of e: its handles are those of no other edge,
\* and if they are new ones, the repartition is marked.
LEMMA CopySub ==
  ASSUME SubInv, NEW n \in Nodes, NEW e \in Edges, copyConsumer(n, e)
  PROVE  NodeSub(n)'
<1>1. TypeInv /\ NodeSub(n)
  BY DEF SubInv
<1>2. /\ UNCHANGED <<subscriptions, subscriptionCount, m_subscriptionHandles, requested>>
      /\ query'[n].handles = m_subscriptionHandles[n][e]
      /\ control'[n][e].pc = control[n][e].pc
      /\ control'[n][e].handles = control[n][e].handles
      /\ control'[n][e].partitions = control[n][e].partitions
      /\ control[n][e].pc = "subscribe" => control'[n][e].copied
      /\ \A d \in Edges \ {e} : control'[n][d] = control[n][d]
  <2>1. PICK b \in BOOLEAN : b = (control[n][e].pc = "subscribe")
    OBVIOUS
  <2>2. control' = [control EXCEPT ![n][e].copied = b]
    BY <2>1, Zenon DEF copyConsumer
  <2>3. control \in [Nodes -> [Edges -> ControlState]] /\ control[n][e] \in ControlState
    BY <1>1, SubTypes
  <2>4. /\ control'[n][e].pc = control[n][e].pc
        /\ control'[n][e].handles = control[n][e].handles
        /\ control'[n][e].partitions = control[n][e].partitions
        /\ control'[n][e].copied = b
        /\ \A d \in Edges \ {e} : control'[n][d] = control[n][d]
    BY <2>2, <2>3 DEF ControlState
  <2>5. query'[n].handles = m_subscriptionHandles[n][e]
    BY <1>1, SubTypes DEF copyConsumer, unsubscribeFromAllPartitions, QueryState
  <2>6. control[n][e].pc = "subscribe" => b
    BY <2>1
  <2> QED
    BY <2>4, <2>5, <2>6 DEF copyConsumer, svsVars
<1>3. \A d \in Edges : /\ SubscribedPartitions(n, d)' = SubscribedPartitions(n, d)
                       /\ DataSubscriptions(n, d)' = DataSubscriptions(n, d)
  BY <1>2 DEF SubscribedPartitions, DataSubscriptions
<1>4. HandlesKept(n)' /\ HandlesGivenOut(n)' /\ HandlesApart(n)'
  BY <1>1, <1>2, <1>3 DEF NodeSub, HandlesKept, HandlesGivenOut, HandlesApart
<1>5. DropsOwnHandles(n)' /\ HandlesToDrop(n)'
  BY <1>1, <1>2, <1>3 DEF NodeSub, DropsOwnHandles, HandlesToDrop
<1>6. CopyIsOld(n)'
  BY <1>1, <1>2 DEF NodeSub, CopyIsOld, HandlesApart
<1>7. RequestInProgress(n)' /\ OnlyRequested(n)'
  BY <1>1, <1>2, <1>3 DEF NodeSub, RequestInProgress, OnlyRequested
<1> QED
  BY <1>4, <1>5, <1>6, <1>7 DEF NodeSub

\* The destructor of a copy drops a handle: a consumer that has new handles
\* does not have this one, unless it is marked.
LEMMA DestroySub ==
  ASSUME SubInv, NEW n \in Nodes, destroyNext(n)
  PROVE  NodeSub(n)'
<1> DEFINE h == Head(query[n].handles)
<1>1. TypeInv /\ NodeSub(n)
  BY DEF SubInv
<1>2. /\ subscriptions'[n] = {s \in subscriptions[n] : s.id # h}
      /\ UNCHANGED <<subscriptionCount, m_subscriptionHandles, control, requested>>
      /\ query'[n].handles = Tail(query[n].handles)
  BY <1>1, SubTypes DEF destroyNext, Unsubscribe, QueryState
<1>3. Members(query[n].handles) = {h} \cup Members(Tail(query[n].handles))
  BY <1>1, SubTypes, MembersHeadTail DEF destroyNext
<1> HIDE DEF h
<1>4. \A d \in Edges :
        /\ DataSubscriptions(n, d)' = {s \in DataSubscriptions(n, d) : s.id # h}
        /\ SubscribedPartitions(n, d)' \subseteq SubscribedPartitions(n, d)
        /\ h \notin Members(m_subscriptionHandles[n][d]) =>
             SubscribedPartitions(n, d)' = SubscribedPartitions(n, d)
  BY <1>1, <1>2, Dropped
<1>5. HandlesKept(n)' /\ HandlesGivenOut(n)' /\ HandlesApart(n)'
  BY <1>1, <1>2, <1>3, <1>4 DEF NodeSub, HandlesKept, HandlesGivenOut, HandlesApart
<1>6. DropsOwnHandles(n)' /\ HandlesToDrop(n)' /\ CopyIsOld(n)'
  BY <1>1, <1>2, <1>3, <1>4 DEF NodeSub, DropsOwnHandles, HandlesToDrop, CopyIsOld
<1>7. RequestInProgress(n)'
  <2>1. \A d \in Edges : control[n][d].pc = "subscribe" /\ ~control[n][d].copied =>
          SubscribedPartitions(n, d)' = SubscribedPartitions(n, d)
    BY <1>1, <1>3, <1>4 DEF NodeSub, CopyIsOld
  <2> QED
    BY <1>1, <1>2, <1>4, <2>1 DEF NodeSub, RequestInProgress
<1>8. OnlyRequested(n)'
  BY <1>1, <1>2, <1>4 DEF NodeSub, OnlyRequested
<1> QED
  BY <1>5, <1>6, <1>7, <1>8 DEF NodeSub

\* The other steps of a query.
LEMMA StatsSub ==
  ASSUME SubInv, NEW n \in Nodes,
         \/ getConsumerStats(n) \/ getProducerStats(n) \/ copyDestroyed(n)
         \/ \E e \in Edges : getConsumptionStats(n, e)
  PROVE  NodeSub(n)'
<1>1. TypeInv /\ NodeSub(n)
  BY DEF SubInv
<1>2. UNCHANGED <<subscriptions, subscriptionCount, m_subscriptionHandles, control, requested>>
  BY DEF getConsumerStats, getProducerStats, copyDestroyed, getConsumptionStats, svsVars
<1>3. query'[n].handles \in {query[n].handles, <<>>}
  BY <1>1, SubTypes DEF getConsumerStats, getProducerStats, copyDestroyed,
                        getConsumptionStats, NoQuery, QueryState
<1>4. Members(query'[n].handles) \subseteq Members(query[n].handles)
  BY <1>3, MembersEmpty
<1> QED
  BY <1>1, <1>2, <1>4
     DEF NodeSub, HandlesKept, HandlesGivenOut, HandlesApart, DropsOwnHandles,
         HandlesToDrop, CopyIsOld, RequestInProgress, OnlyRequested,
         SubscribedPartitions, DataSubscriptions

\* Every step preserves the invariant.
LEMMA NextSub == SubInv /\ [Next]_vars => SubInv'
<1> SUFFICES ASSUME SubInv, [Next]_vars PROVE SubInv'
  OBVIOUS
<1>1. TypeInv'
  BY NextType DEF SubInv
<1>2. ASSUME NEW m \in Nodes PROVE NodeSub(m)'
  <2>1. CASE ControlOf(m)
    BY <2>1, RepartitionSub, UnsubscribeSub, ClearSub, SubscribeSub, ReturnSub
       DEF ControlOf, ControlStep
  <2>2. CASE QueryOf(m)
    BY <2>2, CopySub, DestroySub, StatsSub DEF QueryOf, QueryStep
  <2>3. CASE ~ControlOf(m) /\ ~QueryOf(m)
    BY <2>3, OtherControl, SubLocal DEF SubInv
  <2> QED
    BY <2>1, <2>2, <2>3
<1> QED
  BY <1>1, <1>2 DEF SubInv

\* The constructors make no subscription to a partition.
LEMMA InitSub == Init => SubInv
<1> SUFFICES ASSUME Init PROVE SubInv
  OBVIOUS
<1>1. ASSUME NEW n \in Nodes, NEW e
      PROVE  DataSubscriptions(n, e) = {} /\ SubscribedPartitions(n, e) = {}
  BY <1>1 DEF Init, SvsInit, BackchannelSubscriptions, DataSubscriptions,
              SubscribedPartitions
<1>2. ASSUME NEW n \in Nodes
      PROVE  /\ query[n].handles = <<>>
             /\ \A e \in Edges : /\ control[n][e].pc = "idle"
                                 /\ control[n][e].handles = <<>>
                                 /\ m_subscriptionHandles[n][e] = <<>>
  BY DEF Init, ConsumerInit, PerEdge, NoQuery, Idle
<1> QED
  BY <1>1, <1>2, InitType, MembersEmpty
     DEF SubInv, NodeSub, HandlesKept, HandlesGivenOut, HandlesApart, DropsOwnHandles,
         HandlesToDrop, CopyIsOld, RequestInProgress, OnlyRequested

\* A control state becomes Idle when repartition() returns, or was Idle.
LEMMA ReturnStep ==
  ASSUME TypeInv, [Next]_vars, NEW n \in Nodes, NEW e \in Edges,
         control[n][e].pc # "idle", control'[n][e].pc = "idle"
  PROVE  repartitionReturns(n, e)
<1>1. control \in [Nodes -> [Edges -> ControlState]]
  BY SubTypes
<1>2. ControlOf(n) \/ QueryOf(n)
  BY OtherControl DEF SubUnchanged
<1>3. CASE QueryOf(n)
  <2>1. ASSUME NEW d \in Edges, copyConsumer(n, d)
        PROVE  control'[n][e].pc = control[n][e].pc
    BY <1>1, <2>1 DEF copyConsumer, ControlState
  <2> QED
    BY <1>3, <2>1 DEF QueryOf, QueryStep, getConsumerStats, getProducerStats,
                      getConsumptionStats, destroyNext, copyDestroyed
<1>4. CASE ControlOf(n)
  <2>1. PICK d \in Edges : RepartitionConsumer(n, d) \/ ControlStep(n, d)
    BY <1>4 DEF ControlOf
  <2>2. d = e
    BY <1>1, <2>1 DEF RepartitionConsumer, repartition, ControlStep, unsubscribeNext,
                      clearHandles, subscribeToTopicPartition, repartitionReturns
  <2>3. CASE RepartitionConsumer(n, e)
    BY <2>3 DEF RepartitionConsumer, repartition, Idle
  <2>4. CASE unsubscribeNext(n, e) \/ clearHandles(n, e) \/ subscribeToTopicPartition(n, e)
    <3>1. control[n][e] \in ControlState
      BY <1>1
    <3>2. CASE unsubscribeNext(n, e)
      BY <1>1, <3>1, <3>2 DEF unsubscribeNext, ControlState
    <3>3. CASE clearHandles(n, e)
      BY <1>1, <3>1, <3>3 DEF clearHandles, ControlState
    <3>4. CASE subscribeToTopicPartition(n, e)
      BY <1>1, <3>1, <3>4 DEF subscribeToTopicPartition, ControlState
    <3> QED
      BY <2>4, <3>2, <3>3, <3>4
  <2> QED
    BY <2>1, <2>2, <2>3, <2>4 DEF ControlStep
<1> QED
  BY <1>2, <1>3, <1>4

\* When repartition() returns, the consumer has no subscription left that it
\* was not asked for, whatever repartitions of other edges and whatever
\* destructors of copies run beside it; and it has all that it was asked for,
\* unless a query copied it after it had cleared its handles (consumer.cpp,
\* repartition and ~IceflowConsumer; iceflow.cpp, getConsumerStats).
THEOREM RepartitionIsEstablished == Spec => RepartitionEstablishes
<1>1. ASSUME SubInv, [Next]_vars, NEW n \in Nodes, NEW e \in Edges,
             control[n][e].pc = "subscribe", control'[n][e] = Idle
      PROVE  /\ SubscribedPartitions(n, e)' \subseteq requested'[n][e]
             /\ ~control[n][e].copied => requested'[n][e] \subseteq SubscribedPartitions(n, e)'
  <2>1. TypeInv /\ NodeSub(n)
    BY <1>1 DEF SubInv
  <2>2. repartitionReturns(n, e)
    BY <1>1, <2>1, ReturnStep DEF Idle
  <2>3. /\ control[n][e].partitions = <<>>
        /\ UNCHANGED <<subscriptions, requested>>
    BY <2>2 DEF repartitionReturns, svsVars
  <2>4. SubscribedPartitions(n, e)' = SubscribedPartitions(n, e)
    BY <2>3 DEF SubscribedPartitions
  <2> QED
    BY <1>1, <2>1, <2>3, <2>4, MembersEmpty DEF NodeSub, RequestInProgress, OnlyRequested
<1>2. SubInv /\ [Next]_vars =>
        [\A n \in Nodes : \A e \in Edges :
           control[n][e].pc = "subscribe" /\ control'[n][e] = Idle =>
             /\ SubscribedPartitions(n, e)' \subseteq requested'[n][e]
             /\ ~control[n][e].copied =>
                  requested'[n][e] \subseteq SubscribedPartitions(n, e)']_vars
  BY <1>1
<1> QED
  BY <1>2, InitSub, NextSub, PTL DEF Spec, RepartitionEstablishes

----------------------------------------------------------------------------
(* What is fetched. *)

\* Fetches and mappings change on the event loop only, and a fetch is started
\* by a notification only.
LEMMA FetchFrame ==
  ASSUME TypeInv, [Next]_vars, NEW n \in Nodes, ~Sync(n)
  PROVE  fetching'[n] \subseteq fetching[n] /\ mapped'[n] = mapped[n]
<1> USE DEF TypeInv, TypeOK, SvsTypeOK
<1>1. CASE UNCHANGED vars \/ Clock
  BY <1>1 DEF vars, svsVars, Clock
<1>2. ASSUME NEW m \in Nodes, NEW e \in Edges,
             RegisterCallback(m, e) \/ RepartitionProducer(m, e)
      PROVE  UNCHANGED <<fetching, mapped>>
  BY <1>2 DEF RegisterCallback, RepartitionProducer, svsVars
<1>3. ASSUME NEW m \in Nodes,
             \/ getConsumerStats(m) \/ QueryStep(m) \/ getProducerStats(m)
             \/ \E e \in Edges : RepartitionConsumer(m, e) \/ ControlStep(m, e)
      PROVE  UNCHANGED <<fetching, mapped>>
  BY <1>3, QuerySteps, ControlSteps
<1>4. ASSUME NEW m \in Nodes, PushData(m) \/ FinishData(m)
      PROVE  UNCHANGED <<fetching, mapped>>
  BY <1>4 DEF PushData, pushData, FinishData, saveTimestamp, acknowledge, svsVars
<1>5. ASSUME NEW m \in Nodes, Timeout(m) \/ HandleAck(m)
      PROVE  fetching'[n] \subseteq fetching[n] /\ mapped'[n] = mapped[n]
  BY <1>5 DEF Timeout, FetchTimeout, HandleAck, onBackchannel, Fetched
<1>6. ASSUME NEW m \in Nodes, ConsumeData(m)
      PROVE  fetching'[n] \subseteq fetching[n] /\ mapped'[n] = mapped[n]
  <2>1. PICK f \in fetching[m], out \in Outputs(m) : subscribeCallBack(m, f, out)
    BY <1>6 DEF ConsumeData
  <2>2. Fetched(m, f) /\ UNCHANGED mapped
    BY <2>1 DEF subscribeCallBack, DataArrives, DataIgnored, DataConsumed, DataRefused
  <2> QED
    BY <2>2 DEF Fetched
<1>7. ASSUME NEW m \in Nodes, Sync(m)
      PROVE  fetching'[n] \subseteq fetching[n] /\ mapped'[n] = mapped[n]
  BY <1>7 DEF Sync, SyncUpdate
<1> QED
  BY <1>1, <1>2, <1>3, <1>4, <1>5, <1>6, <1>7 DEF Next

\* A fetch that starts is of a publication that has just been mapped, for a
\* subscription that the node has now.
LEMMA FetchStarts ==
  ASSUME TypeInv, [Next]_vars, NEW n \in Nodes,
         NEW f \in fetching'[n], f \notin fetching[n]
  PROVE  /\ f.pub \in published
         /\ f.pub \notin mapped[n]
         /\ f.pub \in mapped'[n]
         /\ f.pub.from # n
         /\ Concerns(n, f.pub)
         /\ \E s \in subscriptions[n] : /\ s.edge = f.pub.edge
                                        /\ s.chan = f.pub.chan
                                        /\ f = [pub |-> f.pub, id |-> s.id]
<1>1. PICK pub \in published : SyncUpdate(n, pub)
  BY FetchFrame DEF Sync
<1>2. PICK s \in Matching(n, pub) : f = [pub |-> pub, id |-> s.id]
  BY <1>1 DEF SyncUpdate, TypeInv, TypeOK, SvsTypeOK
<1>3. f.pub = pub /\ f = [pub |-> f.pub, id |-> s.id]
  BY <1>2
<1>4. /\ pub \notin mapped[n]
      /\ pub \in mapped'[n]
      /\ pub.from # n
      /\ Concerns(n, pub)
  BY <1>1 DEF SyncUpdate, TypeInv, TypeOK, SvsTypeOK
<1>5. s \in subscriptions[n] /\ s.edge = pub.edge /\ s.chan = pub.chan
  BY DEF Matching
<1> QED
  BY <1>3, <1>4, <1>5

\* While its consumer is not being repartitioned, a fetch starts for a
\* requested partition only (consumer.cpp, subscribeToTopicPartition), for any history
\* of repartitions and queries.
THEOREM FetchesAreRequested == Spec => MappedOnlyIfRequested
<1>1. ASSUME SubInv, [Next]_vars, NEW n \in Nodes,
             NEW f \in fetching'[n] \ fetching[n],
             f.pub.chan # BackChannel, control[n][f.pub.edge] = Idle
      PROVE  f.pub.chan \in requested[n][f.pub.edge]
  <2>1. TypeInv /\ OnlyRequested(n)
    BY <1>1 DEF SubInv, NodeSub
  <2>2. f.pub \in published
    BY <1>1, <2>1, FetchStarts
  <2>3. PICK s \in subscriptions[n] : /\ s.edge = f.pub.edge
                                      /\ s.chan = f.pub.chan
    BY <1>1, <2>1, FetchStarts
  <2>4. f.pub.edge \in Edges
    BY <2>1, <2>2 DEF TypeInv, TypeOK, SvsTypeOK, Publication
  <2>5. f.pub.chan \in SubscribedPartitions(n, f.pub.edge)
    BY <1>1, <2>3 DEF SubscribedPartitions
  <2> QED
    BY <1>1, <2>1, <2>4, <2>5 DEF OnlyRequested, Idle
<1>2. SubInv /\ [Next]_vars =>
        [\A n \in Nodes : \A f \in fetching'[n] \ fetching[n] :
           f.pub.chan # BackChannel /\ control[n][f.pub.edge] = Idle =>
             f.pub.chan \in requested[n][f.pub.edge]]_vars
  BY <1>1
<1> QED
  BY <1>2, InitSub, NextSub, PTL DEF Spec, MappedOnlyIfRequested

----------------------------------------------------------------------------
(* At most one delivery: for assignments that name no partition twice, a   *)
(* consumer has one subscription to a partition at any time, so one fetch  *)
(* per publication.                                                        *)

\* No partition is named twice in an assignment.
DistinctAssignments ==
  \A n \in Nodes : \A partitions \in Assignments[n] : Distinct(partitions)

\* The partitions still to subscribe to are new and are different.
PartitionsToCome(n) ==
  \A e \in Edges :
    /\ Distinct(control[n][e].partitions)
    /\ control[n][e].pc = "subscribe" =>
         \A s \in DataSubscriptions(n, e) :
           s.chan \notin Members(control[n][e].partitions)

\* A consumer has at most one subscription to a partition.
OneSubscription(n) ==
  \A e \in Edges : \A s, t \in DataSubscriptions(n, e) :
    s.chan = t.chan => s = t

NodeOne(n) == PartitionsToCome(n) /\ OneSubscription(n)

\* Data is fetched once, by a node that was told of it.
FetchedOnce(n) ==
  \A f \in fetching[n] :
    /\ f.pub \in mapped[n]
    /\ f.pub.chan # BackChannel =>
         \A g \in fetching[n] : f.pub = g.pub => f = g

\* What was consumed was mapped, and is not fetched any more.
ConsumedWasFetched(n) ==
  \A c \in consumed[n] :
    /\ c.pub \in mapped[n]
    /\ c.pub.chan # BackChannel
    /\ \A f \in fetching[n] : f.pub # c.pub

OnceInv == /\ SubInv
           /\ \A n \in Nodes : /\ NodeOne(n)
                               /\ FetchedOnce(n)
                               /\ ConsumedWasFetched(n)
           /\ AtMostOncePerConsumer

\* A query keeps a consumer's subscriptions apart.
LEMMA QueryOne ==
  ASSUME SubInv, NEW n \in Nodes, NodeOne(n), QueryOf(n)
  PROVE  NodeOne(n)'
<1>1. /\ control \in [Nodes -> [Edges -> ControlState]]
      /\ subscriptions'[n] \subseteq subscriptions[n]
  BY SubTypes, QuerySteps DEF SubInv, TypeInv, TypeOK, QueryOf
<1>2. ASSUME NEW e \in Edges
      PROVE  /\ control'[n][e].pc = control[n][e].pc
             /\ control'[n][e].partitions = control[n][e].partitions
  <2>1. ASSUME NEW d \in Edges, copyConsumer(n, d)
        PROVE  /\ control'[n][e].pc = control[n][e].pc
               /\ control'[n][e].partitions = control[n][e].partitions
    BY <1>1, <2>1 DEF copyConsumer, ControlState
  <2> QED
    BY <2>1 DEF QueryOf, QueryStep, getConsumerStats, getProducerStats,
                getConsumptionStats, destroyNext, copyDestroyed
<1>3. \A e \in Edges : DataSubscriptions(n, e)' \subseteq DataSubscriptions(n, e)
  BY <1>1 DEF DataSubscriptions
<1> QED
  BY <1>2, <1>3 DEF NodeOne, PartitionsToCome, OneSubscription

\* So does a repartition.
LEMMA ControlOne ==
  ASSUME DistinctAssignments, SubInv, NEW n \in Nodes, NodeOne(n), ControlOf(n)
  PROVE  NodeOne(n)'
<1>1. /\ control \in [Nodes -> [Edges -> ControlState]]
      /\ subscriptions \in [Nodes -> SUBSET Subscription]
      /\ TypeInv /\ NodeSub(n)
  BY SubTypes DEF SubInv
<1>2. PICK e \in Edges : RepartitionConsumer(n, e) \/ ControlStep(n, e)
  BY DEF ControlOf
<1>3. control[n][e] \in ControlState
  BY <1>1
<1>4. \A d \in Edges \ {e} : control'[n][d] = control[n][d]
  BY <1>1, <1>2 DEF RepartitionConsumer, repartition, ControlStep, unsubscribeNext,
                    clearHandles, subscribeToTopicPartition, repartitionReturns
<1>5. ASSUME subscriptions'[n] \subseteq subscriptions[n],
             Distinct(control'[n][e].partitions),
             control'[n][e].pc = "subscribe" => DataSubscriptions(n, e) = {}
      PROVE  NodeOne(n)'
  <2>1. \A d \in Edges : DataSubscriptions(n, d)' \subseteq DataSubscriptions(n, d)
    BY <1>5 DEF DataSubscriptions
  <2>2. OneSubscription(n)'
    BY <2>1 DEF NodeOne, OneSubscription
  <2>3. PartitionsToCome(n)'
    BY <1>4, <1>5, <2>1 DEF NodeOne, PartitionsToCome
  <2> QED
    BY <2>2, <2>3 DEF NodeOne
<1>6. CASE RepartitionConsumer(n, e)
  <2>1. PICK partitions \in Assignments[n] : repartition(n, e, partitions)
    BY <1>6 DEF RepartitionConsumer
  <2>2. /\ control'[n][e].partitions = partitions
        /\ control'[n][e].pc = "unsubscribe"
        /\ subscriptions' = subscriptions
    BY <1>1, <2>1 DEF repartition
  <2> QED
    BY <1>5, <2>2 DEF DistinctAssignments
<1>7. CASE unsubscribeNext(n, e)
  <2>1. /\ subscriptions'[n] \subseteq subscriptions[n]
        /\ control'[n][e].partitions = control[n][e].partitions
        /\ control'[n][e].pc = "unsubscribe"
    BY <1>1, <1>3, <1>7 DEF unsubscribeNext, Unsubscribe, ControlState
  <2> QED
    BY <1>5, <2>1 DEF NodeOne, PartitionsToCome
<1>8. CASE clearHandles(n, e)
  <2>1. /\ subscriptions' = subscriptions
        /\ control[n][e].handles = <<>>
        /\ control[n][e].pc = "unsubscribe"
        /\ control'[n][e].partitions = control[n][e].partitions
    BY <1>1, <1>3, <1>8 DEF clearHandles, svsVars, ControlState
  <2>2. DataSubscriptions(n, e) = {}
    BY <1>1, <2>1, MembersEmpty DEF NodeSub, HandlesToDrop
  <2> QED
    BY <1>5, <2>1, <2>2 DEF NodeOne, PartitionsToCome
<1>9. CASE subscribeToTopicPartition(n, e)
  <2> DEFINE p == Head(control[n][e].partitions)
             new == [id |-> NextHandle(n), edge |-> e, chan |-> p]
  <2>1. /\ subscriptions'[n] = subscriptions[n] \cup {new}
        /\ control[n][e].pc = "subscribe"
        /\ control'[n][e].partitions = Tail(control[n][e].partitions)
    BY <1>1, <1>3, <1>9 DEF subscribeToTopicPartition, Subscribe, NextPartition,
                            ControlState
  <2>2. /\ Members(control[n][e].partitions) =
             {p} \cup Members(Tail(control[n][e].partitions))
        /\ Distinct(Tail(control[n][e].partitions))
        /\ p \notin Members(Tail(control[n][e].partitions))
    BY <1>1, <1>9, SubTypes, MembersHeadTail
       DEF subscribeToTopicPartition, NodeOne, PartitionsToCome
  <2>3. new.edge = e /\ new.chan = p
    OBVIOUS
  <2> HIDE DEF new, p
  <2>4. \A s \in DataSubscriptions(n, e) : s.chan # p
    BY <2>1, <2>2 DEF NodeOne, PartitionsToCome
  <2>5. /\ DataSubscriptions(n, e)' \subseteq DataSubscriptions(n, e) \cup {new}
        /\ \A d \in Edges \ {e} : DataSubscriptions(n, d)' = DataSubscriptions(n, d)
    BY <2>1, <2>3 DEF DataSubscriptions
  <2>6. PartitionsToCome(n)'
    BY <1>4, <2>1, <2>2, <2>3, <2>5 DEF NodeOne, PartitionsToCome
  <2>7. OneSubscription(n)'
    <3> SUFFICES ASSUME NEW d \in Edges, NEW s \in DataSubscriptions(n, d)',
                        NEW t \in DataSubscriptions(n, d)', s.chan = t.chan
                 PROVE  s = t
      BY DEF OneSubscription
    <3>1. CASE d # e
      BY <2>5, <3>1 DEF NodeOne, OneSubscription
    <3>2. CASE d = e
      BY <2>3, <2>4, <2>5, <3>2 DEF NodeOne, OneSubscription
    <3> QED
      BY <3>1, <3>2
  <2> QED
    BY <2>6, <2>7 DEF NodeOne
<1>10. CASE repartitionReturns(n, e)
  <2>1. /\ subscriptions' = subscriptions
        /\ control'[n][e].partitions = <<>>
        /\ control'[n][e].pc = "idle"
    BY <1>1, <1>10 DEF repartitionReturns, svsVars, Idle
  <2> QED
    BY <1>5, <2>1, MembersEmpty
<1> QED
  BY <1>2, <1>6, <1>7, <1>8, <1>9, <1>10 DEF ControlStep

\* Elsewhere the subscriptions of a node stay as they are.
LEMMA OneLocal ==
  ASSUME NEW m \in Nodes, NodeOne(m), SubUnchanged(m)
  PROVE  NodeOne(m)'
  BY DEF NodeOne, PartitionsToCome, OneSubscription, DataSubscriptions,
         SubUnchanged

\* One subscription to a partition makes one fetch of a publication.
LEMMA NextFetchedOnce ==
  ASSUME OnceInv, TypeInv, [Next]_vars, NEW n \in Nodes
  PROVE  FetchedOnce(n)'
<1>1. FetchedOnce(n) /\ OneSubscription(n)
  BY DEF OnceInv, NodeOne
<1>2. ASSUME NEW f \in fetching'[n]
      PROVE  f.pub \in mapped'[n]
  <2>1. mapped[n] \subseteq mapped'[n]
    <3>1. CASE Sync(n)
      BY <3>1 DEF Sync, SyncUpdate, TypeInv, TypeOK, SvsTypeOK
    <3> QED
      BY <3>1, FetchFrame
  <2>2. CASE f \in fetching[n]
    BY <1>1, <2>1, <2>2 DEF FetchedOnce
  <2> QED
    BY <2>2, FetchStarts
<1>3. ASSUME NEW f \in fetching'[n], NEW g \in fetching'[n],
             f.pub.chan # BackChannel, f.pub = g.pub
      PROVE  f = g
  <2>1. CASE f \in fetching[n] /\ g \in fetching[n]
    BY <1>1, <1>3, <2>1 DEF FetchedOnce
  <2>2. ASSUME NEW x \in fetching'[n], x \notin fetching[n],
               NEW y \in fetching[n]
        PROVE  x.pub # y.pub
    BY <1>1, <2>2, FetchStarts DEF FetchedOnce
  <2>3. CASE f \notin fetching[n] /\ g \notin fetching[n]
    <3>1. PICK s \in subscriptions[n] : /\ s.edge = f.pub.edge
                                        /\ s.chan = f.pub.chan
                                        /\ f = [pub |-> f.pub, id |-> s.id]
      BY <2>3, FetchStarts
    <3>2. PICK t \in subscriptions[n] : /\ t.edge = g.pub.edge
                                        /\ t.chan = g.pub.chan
                                        /\ g = [pub |-> g.pub, id |-> t.id]
      BY <2>3, FetchStarts
    <3>3. f.pub.edge \in Edges
      BY <2>3, FetchStarts DEF TypeInv, TypeOK, SvsTypeOK, Publication
    <3>4. s = t
      BY <1>1, <1>3, <3>1, <3>2, <3>3 DEF OneSubscription, DataSubscriptions
    <3> QED
      BY <1>3, <3>1, <3>2, <3>4
  <2> QED
    BY <1>3, <2>1, <2>2, <2>3
<1> QED
  BY <1>2, <1>3 DEF FetchedOnce

\* What a callback newly takes was being fetched, and is not any more.
LEMMA NewConsumption ==
  ASSUME TypeInv, [Next]_vars, NEW n \in Nodes,
         NEW c \in consumed'[n], c \notin consumed[n]
  PROVE  \E f \in fetching[n] :
           /\ f.pub.chan # BackChannel
           /\ f.pub.seq \in dataStore[f.pub.from]
           /\ fetching'[n] = fetching[n] \ {f}
           /\ mapped'[n] = mapped[n]
           /\ c = [pub |-> f.pub, id |-> f.id, at |-> now]
           /\ consumed' = [consumed EXCEPT ![n] = @ \cup {c}]
           /\ \E out \in Outputs(n) : Publish(n, out)
<1> USE DEF TypeInv, TypeOK, SvsTypeOK, ConsumerTypeOK
<1>1. consumed' # consumed
  OBVIOUS
<1>2. PICK m \in Nodes : ConsumeData(m)
  <2>1. ASSUME NEW m \in Nodes, PushData(m) \/ FinishData(m) \/ HandleAck(m)
        PROVE  UNCHANGED consumed
    BY <2>1 DEF PushData, FinishData, saveTimestamp, acknowledge, HandleAck, consumerVars
  <2> QED
    BY <1>1, <2>1, OtherSteps
<1>3. PICK f \in fetching[m], out \in Outputs(m) : DataConsumed(m, f, out)
  BY <1>1, <1>2 DEF ConsumeData, subscribeCallBack, DataIgnored, DataRefused,
                    consumerVars
<1>4. m = n /\ c = [pub |-> f.pub, id |-> f.id, at |-> now]
  BY <1>3 DEF DataConsumed
<1> QED
  BY <1>3, <1>4 DEF DataConsumed, DataArrives, Fetched

\* A publication is not fetched again after it has been consumed.
LEMMA NextConsumed ==
  ASSUME OnceInv, TypeInv, [Next]_vars, NEW n \in Nodes
  PROVE  /\ ConsumedWasFetched(n)'
         /\ \A c, d \in consumed'[n] : c.pub = d.pub => c = d
<1>1. FetchedOnce(n) /\ ConsumedWasFetched(n) /\ AtMostOncePerConsumer
  BY DEF OnceInv
<1>2. CASE consumed'[n] \subseteq consumed[n]
  <2>1. mapped[n] \subseteq mapped'[n]
    <3>1. CASE Sync(n)
      BY <3>1 DEF Sync, SyncUpdate, TypeInv, TypeOK, SvsTypeOK
    <3> QED
      BY <3>1, FetchFrame
  <2>2. ASSUME NEW c \in consumed'[n], NEW f \in fetching'[n]
        PROVE  f.pub # c.pub
    <3>1. CASE f \in fetching[n]
      BY <1>1, <1>2, <2>2, <3>1 DEF ConsumedWasFetched
    <3>2. CASE f \notin fetching[n]
      BY <1>1, <1>2, <2>2, <3>2, FetchStarts DEF ConsumedWasFetched
    <3> QED
      BY <3>1, <3>2
  <2> QED
    BY <1>1, <1>2, <2>1, <2>2 DEF ConsumedWasFetched, AtMostOncePerConsumer
<1>3. CASE ~(consumed'[n] \subseteq consumed[n])
  <2>1. PICK c \in consumed'[n] : c \notin consumed[n]
    BY <1>3
  <2>2. PICK f \in fetching[n] :
          /\ f.pub.chan # BackChannel
          /\ fetching'[n] = fetching[n] \ {f}
          /\ mapped'[n] = mapped[n]
          /\ c = [pub |-> f.pub, id |-> f.id, at |-> now]
          /\ consumed' = [consumed EXCEPT ![n] = @ \cup {c}]
    BY <2>1, NewConsumption
  <2>3. consumed'[n] = consumed[n] \cup {c} /\ c.pub = f.pub
    BY <2>2 DEF TypeInv, TypeOK, ConsumerTypeOK
  <2>4. \A d \in consumed[n] : d.pub # f.pub
    BY <1>1 DEF ConsumedWasFetched
  <2>5. \A g \in fetching'[n] : g.pub # f.pub
    BY <1>1, <2>2 DEF FetchedOnce
  <2>6. ConsumedWasFetched(n)'
    BY <1>1, <2>2, <2>3, <2>5 DEF ConsumedWasFetched, FetchedOnce
  <2>7. \A b, d \in consumed'[n] : b.pub = d.pub => b = d
    BY <1>1, <2>3, <2>4 DEF AtMostOncePerConsumer
  <2> QED
    BY <2>6, <2>7
<1> QED
  BY <1>2, <1>3

\* Every step preserves the invariant.
LEMMA NextOnce ==
  ASSUME DistinctAssignments, OnceInv, [Next]_vars
  PROVE  OnceInv'
<1>1. SubInv /\ SubInv' /\ TypeInv
  BY NextSub DEF OnceInv, SubInv
<1>2. ASSUME NEW n \in Nodes PROVE NodeOne(n)'
  <2>1. NodeOne(n)
    BY DEF OnceInv
  <2> QED
    BY <1>1, <2>1, ControlOne, QueryOne, OtherControl, OneLocal
<1>3. AtMostOncePerConsumer'
  BY <1>1, NextConsumed DEF AtMostOncePerConsumer
<1> QED
  BY <1>1, <1>2, <1>3, NextFetchedOnce, NextConsumed DEF OnceInv

\* Nothing is fetched or consumed when the nodes have been built.
LEMMA InitOnce == Init => OnceInv
<1> SUFFICES ASSUME Init PROVE OnceInv
  OBVIOUS
<1>1. ASSUME NEW n \in Nodes PROVE NodeOne(n)
  BY MembersEmpty
     DEF Init, SvsInit, ConsumerInit, PerEdge, BackchannelSubscriptions, NodeOne,
         PartitionsToCome, OneSubscription, DataSubscriptions, Idle
<1> QED
  BY <1>1, InitSub
     DEF Init, SvsInit, ConsumerInit, OnceInv, FetchedOnce, ConsumedWasFetched,
         AtMostOncePerConsumer

\* The callback of a consumer sees a publication at most once, however often
\* the consumer is repartitioned or queried while data is in flight
\* (consumer.cpp, repartition and subscribeCallBack), if no assignment names
\* a partition twice.
THEOREM ConsumedAtMostOnce ==
  ASSUME DistinctAssignments
  PROVE  Spec => []AtMostOncePerConsumer
<1>1. Init => OnceInv
  BY InitOnce
<1>2. OnceInv /\ [Next]_vars => OnceInv'
  BY NextOnce
<1>3. OnceInv => AtMostOncePerConsumer
  BY DEF OnceInv
<1> QED
  BY <1>1, <1>2, <1>3, PTL DEF Spec

----------------------------------------------------------------------------
(* Every edge is an EdgeDelivery. *)

\* No node consumes an edge it produces for.
NoSelfEdge == \A n \in Nodes : Upstream[n] \cap Downstream[n] = {}

\* Node instances that produce for the same edge, the replicas of a task,
\* produce for no other.
SharedEdgesAreSole ==
  \A e \in Edges : \A n1, n2 \in Nodes :
    e \in Downstream[n1] /\ e \in Downstream[n2] =>
      n1 = n2 \/ Downstream[n1] = {e}

\* Data is fetched from upstream edges.
FetchesUpstream ==
  \A n \in Nodes : \A f \in fetching[n] :
    f.pub.chan # BackChannel => f.pub.edge \in Upstream[n]

DeliveryInv == AckInv /\ OnceInv /\ FetchesUpstream

\* Every step preserves the invariant.
LEMMA NextDelivery ==
  ASSUME DistinctAssignments, DeliveryInv, [Next]_vars
  PROVE  DeliveryInv'
<1>1. AckInv' /\ OnceInv'
  BY NextAck, NextOnce DEF DeliveryInv
<1>2. FetchesUpstream'
  <2> SUFFICES ASSUME NEW n \in Nodes, NEW f \in fetching'[n],
                      f.pub.chan # BackChannel
               PROVE  f.pub.edge \in Upstream[n]
    BY DEF FetchesUpstream
  <2>1. TypeInv
    BY DEF DeliveryInv, AckInv
  <2>2. CASE f \in fetching[n]
    BY <2>2 DEF DeliveryInv, FetchesUpstream
  <2>3. CASE f \notin fetching[n]
    BY <2>1, <2>3, FetchStarts DEF Concerns
  <2> QED
    BY <2>2, <2>3
<1> QED
  BY <1>1, <1>2 DEF DeliveryInv

TakenOn(e)    == [n \in Nodes |-> {c \in consumed[n] : c.pub.edge = e}]
ReleasedOn(e) == {pub \in DataOn(e) : pub.seq \notin dataStore[pub.from]}

\* What an edge has released stays released, and what is new is kept.
LEMMA ReleasedGrows ==
  ASSUME DeliveryInv, [Next]_vars, NEW e \in Edges
  PROVE  /\ DataOn(e) \subseteq DataOn(e)'
         /\ ReleasedOn(e) \subseteq ReleasedOn(e)'
         /\ ReleasedOn(e)' \subseteq DataOn(e)
<1>1. AckInv /\ TypeInv
  BY DEF DeliveryInv, AckInv
<1>2. DataOn(e) \subseteq DataOn(e)'
  BY <1>1, PublishedGrows DEF DataOn
<1>3. ReleasedOn(e) \subseteq ReleasedOn(e)'
  BY <1>1, <1>2, ErasedForGood DEF ReleasedOn, DataOn
<1>4. ReleasedOn(e)' \subseteq DataOn(e)
  BY <1>1, PublishedIsStored DEF ReleasedOn, DataOn
<1> QED
  BY <1>2, <1>3, <1>4

\* A message is released by a step that does nothing else to the edge, after
\* a consumer of the edge was given its number.
LEMMA ReleaseStep ==
  ASSUME SharedEdgesAreSole, DeliveryInv, [Next]_vars, NEW e \in Edges,
         NEW m \in ReleasedOn(e)', m \notin ReleasedOn(e)
  PROVE  Delivery(e)!Step
<1>1. /\ AckInv
      /\ dataStore \in [Nodes -> SUBSET Nat]
      /\ published \subseteq Publication
      /\ consumed \in [Nodes -> SUBSET Consumption]
  BY DEF DeliveryInv, AckInv, TypeInv, TypeOK, SvsTypeOK, ConsumerTypeOK
<1>2. m \in DataOn(e) /\ m.from \in Nodes /\ m.edge = e /\ m.chan # BackChannel
  BY <1>1, ReleasedGrows DEF DataOn, Publication
<1>3. m.seq \in dataStore[m.from] /\ m.seq \notin dataStore'[m.from]
  BY <1>2 DEF ReleasedOn
<1>4. /\ UNCHANGED <<published, consumed>>
      /\ dataStore' = [dataStore EXCEPT ![m.from] = @ \ {m.seq}]
      /\ \E q \in published : \E k \in Nodes :
           /\ q.chan # BackChannel
           /\ q.edge \in Downstream[m.from]
           /\ q.seq = m.seq
           /\ ConsumedBy(k, q)
  BY <1>1, <1>2, <1>3, ErasedNumber
<1>5. PICK q \in published, k \in Nodes :
        /\ q.chan # BackChannel
        /\ q.edge \in Downstream[m.from]
        /\ q.seq = m.seq
        /\ ConsumedBy(k, q)
  BY <1>4
<1>6. q.edge = e
  <2>1. CASE q.from = m.from
    BY <1>1, <1>2, <1>5, <2>1 DEF AckInv, Numbered, DataOn
  <2>2. CASE q.from # m.from
    <3>1. q.from \in Nodes /\ q.edge \in Edges /\ q.edge \in Downstream[q.from]
      BY <1>1, <1>5 DEF AckInv, DataOnOwnEdges, Publication
    <3>2. e \in Downstream[m.from]
      BY <1>1, <1>2 DEF AckInv, DataOnOwnEdges, DataOn
    <3> QED
      BY <1>2, <1>5, <2>2, <3>1, <3>2 DEF SharedEdgesAreSole
  <2> QED
    BY <2>1, <2>2
<1>7. \E t \in TakenOn(e)[k] : t.pub.seq = m.seq
  BY <1>5, <1>6 DEF ConsumedBy, TakenOn
<1>8. DataOn(e)' = DataOn(e) /\ TakenOn(e)' = TakenOn(e)
  BY <1>4 DEF DataOn, TakenOn
<1>9. ReleasedOn(e)' = ReleasedOn(e) \cup {m}
  <2>1. ASSUME NEW p \in ReleasedOn(e)', p \notin ReleasedOn(e)
        PROVE  p = m
    <3>1. p \in published /\ p.from = m.from /\ p.seq = m.seq
      BY <1>1, <1>4, <1>8, <2>1 DEF ReleasedOn, DataOn, Publication
    <3> QED
      BY <1>1, <1>2, <3>1 DEF AckInv, Numbered, DataOn
  <2> QED
    BY <2>1, ReleasedGrows
<1>10. Delivery(e)!Release(m)
  BY <1>2, <1>7, <1>8, <1>9
     DEF Delivery!Release, Delivery!NumberTaken, TakenOn, ReleasedOn
<1> QED
  BY <1>2, <1>10 DEF Delivery!Step, Delivery!Next

\* A message is taken by a step that sends nothing on the same edge.
LEMMA TakeStep ==
  ASSUME NoSelfEdge, DeliveryInv, [Next]_vars, NEW e \in Edges,
         ReleasedOn(e)' = ReleasedOn(e),
         NEW n \in Nodes, NEW c \in consumed'[n], c \notin consumed[n],
         c.pub.edge = e
  PROVE  Delivery(e)!Step
<1>1. /\ TypeInv /\ AckInv /\ OnceInv /\ FetchesUpstream
      /\ consumed \in [Nodes -> SUBSET Consumption]
  BY DEF DeliveryInv, AckInv, TypeInv, TypeOK, ConsumerTypeOK
<1>2. PICK f \in fetching[n] :
        /\ f.pub.chan # BackChannel
        /\ f.pub.seq \in dataStore[f.pub.from]
        /\ c = [pub |-> f.pub, id |-> f.id, at |-> now]
        /\ consumed' = [consumed EXCEPT ![n] = @ \cup {c}]
        /\ \E out \in Outputs(n) : Publish(n, out)
  BY <1>1, NewConsumption
<1>3. c.pub = f.pub /\ f.pub \in published /\ e \in Upstream[n]
  BY <1>1, <1>2 DEF AckInv, FetchesArePublished, FetchesUpstream
<1>4. c.pub \in DataOn(e) \ ReleasedOn(e)
  BY <1>2, <1>3 DEF DataOn, ReleasedOn
<1>5. \A t \in TakenOn(e)[n] : t.pub # c.pub
  BY <1>1, <1>3 DEF TakenOn, OnceInv, ConsumedWasFetched
<1>6. DataOn(e)' = DataOn(e)
  <2>1. PICK out \in Outputs(n) : Publish(n, out)
    BY <1>2
  <2>2. out \in Seq(DataItems(n))
    BY OutputsType
  <2>3. ASSUME NEW i \in 1..Len(out)
        PROVE  out[i].edge # e
    BY <1>3, <2>2, ElementOfSeq, DataItemsType DEF NoSelfEdge
  <2>4. ASSUME NEW p \in DataOn(e)', p \notin DataOn(e) PROVE FALSE
    <3>1. p \in published' /\ p \notin published /\ p.edge = e /\ p.chan # BackChannel
      BY <2>4 DEF DataOn
    <3>2. PICK i \in 1..Len(out) : p = NewPublication(n, out, i)
      BY <2>1, <3>1 DEF Publish
    <3> QED
      BY <2>3, <3>1, <3>2 DEF NewPublication
  <2> QED
    BY <2>4, ReleasedGrows
<1>7. TakenOn(e)' = [TakenOn(e) EXCEPT ![n] = @ \cup {c}]
  BY <1>1, <1>2 DEF TakenOn
<1>8. Delivery(e)!Take(n, c)
  BY <1>4, <1>5, <1>6, <1>7
     DEF Delivery!Take, TakenOn, ReleasedOn
<1>9. c \in TakenOn(e)'[n] \ TakenOn(e)[n]
  BY DEF TakenOn
<1> QED
  BY <1>8, <1>9 DEF Delivery!Step, Delivery!Next, TakenOn

\* Every other step sends messages on the edge, or does nothing to it.
LEMMA PutStep ==
  ASSUME DeliveryInv, [Next]_vars, NEW e \in Edges,
         ReleasedOn(e)' = ReleasedOn(e),
         \A n \in Nodes : \A c \in consumed'[n] :
           c.pub.edge = e => c \in consumed[n]
  PROVE  Delivery(e)!Step
<1>1. TypeInv
  BY DEF DeliveryInv, AckInv
<1>2. TakenOn(e)' = TakenOn(e)
  BY <1>1, ConsumedGrows DEF TakenOn
<1>3. DataOn(e)' = DataOn(e) \cup (DataOn(e)' \ DataOn(e))
  BY ReleasedGrows
<1>4. Delivery(e)!Put(DataOn(e)' \ DataOn(e))
  BY <1>2, <1>3 DEF Delivery!Put, TakenOn, ReleasedOn
<1> QED
  BY <1>4 DEF Delivery!Step, Delivery!Next

\* Each step of the system is a step of the abstract edge.
LEMMA StepDelivers ==
  ASSUME NoSelfEdge, SharedEdgesAreSole, DeliveryInv, [Next]_vars,
         NEW e \in Edges
  PROVE  Delivery(e)!Step
<1>1. CASE ReleasedOn(e)' = ReleasedOn(e)
  BY <1>1, TakeStep, PutStep
<1>2. CASE ReleasedOn(e)' # ReleasedOn(e)
  BY <1>2, ReleasedGrows, ReleaseStep
<1> QED
  BY <1>1, <1>2

\* Behind the partitions, the moving subscriptions, the fetches and the
\* backchannel (consumer.cpp, producer.cpp), every edge of every application
\* without self-edges implements EdgeDelivery: a message is given to
\* a consumer at most once and while its producer keeps it, and is dropped
\* only after its number was taken.
THEOREM EveryEdgeDelivers ==
  ASSUME DistinctAssignments, NoSelfEdge, SharedEdgesAreSole
  PROVE  Spec => EdgesDeliver
<1>1. Init => DeliveryInv
  BY InitAck, InitOnce DEF DeliveryInv, Init, SvsInit, FetchesUpstream
<1>2. DeliveryInv /\ [Next]_vars => DeliveryInv'
  BY NextDelivery
<1>3. Init => \A e \in Edges : Delivery(e)!Init
  BY DEF Init, SvsInit, ConsumerInit, Delivery!Init, DataOn
<1>4. DeliveryInv /\ [Next]_vars => [\A e \in Edges : Delivery(e)!Step]_vars
  BY StepDelivers
<1> QED
  BY <1>1, <1>2, <1>3, <1>4, PTL DEF Spec, EdgesDeliver

----------------------------------------------------------------------------
(* Deliveries to one consumer only: whatever a consumer is subscribed to,  *)
(* fetches or has consumed lies in partitions that it may be given.        *)

AssignedTo(n) == UNION {Members(a) : a \in Assignments[n]}

\* No partition is ever given to two node instances.
DisjointAssignments ==
  \A n1, n2 \in Nodes : AssignedTo(n1) \cap AssignedTo(n2) # {} => n1 = n2

WithinAssignment(n) ==
  /\ \A e \in Edges : Members(control[n][e].partitions) \subseteq AssignedTo(n)
  /\ \A s \in subscriptions[n] : s.chan \in AssignedTo(n) \cup {BackChannel}
  /\ \A f \in fetching[n] : f.pub.chan \in AssignedTo(n) \cup {BackChannel}
  /\ \A c \in consumed[n] : c.pub.chan \in AssignedTo(n)

WithinInv == TypeInv /\ \A n \in Nodes : WithinAssignment(n)

\* A repartition takes partitions from an assignment and subscribes to those.
LEMMA ControlWithin ==
  ASSUME TypeInv, NEW n \in Nodes, NEW e \in Edges,
         RepartitionConsumer(n, e) \/ ControlStep(n, e)
  PROVE  /\ Members(control'[n][e].partitions) \subseteq
              Members(control[n][e].partitions) \cup AssignedTo(n)
         /\ \A d \in Edges \ {e} : control'[n][d] = control[n][d]
         /\ \A s \in subscriptions'[n] :
              s \in subscriptions[n] \/ s.chan \in Members(control[n][e].partitions)
<1>1. /\ control \in [Nodes -> [Edges -> ControlState]]
      /\ subscriptions \in [Nodes -> SUBSET Subscription]
  BY SubTypes
<1>2. control[n][e] \in ControlState
  BY <1>1
<1>3. \A d \in Edges \ {e} : control'[n][d] = control[n][d]
  BY <1>1 DEF RepartitionConsumer, repartition, ControlStep, unsubscribeNext,
              clearHandles, subscribeToTopicPartition, repartitionReturns
<1>4. CASE RepartitionConsumer(n, e)
  <2>1. PICK partitions \in Assignments[n] : repartition(n, e, partitions)
    BY <1>4 DEF RepartitionConsumer
  <2>2. control'[n][e].partitions = partitions /\ subscriptions' = subscriptions
    BY <1>1, <2>1 DEF repartition
  <2> QED
    BY <1>3, <2>2 DEF AssignedTo
<1>5. CASE unsubscribeNext(n, e)
  <2>1. /\ subscriptions'[n] \subseteq subscriptions[n]
        /\ control'[n][e].partitions = control[n][e].partitions
    BY <1>1, <1>2, <1>5 DEF unsubscribeNext, Unsubscribe, ControlState
  <2> QED
    BY <1>3, <2>1
<1>6. CASE subscribeToTopicPartition(n, e)
  <2>1. Members(control[n][e].partitions) =
          {Head(control[n][e].partitions)} \cup Members(Tail(control[n][e].partitions))
    BY <1>6, SubTypes, MembersHeadTail DEF subscribeToTopicPartition
  <2>2. /\ control'[n][e].partitions = Tail(control[n][e].partitions)
        /\ \A s \in subscriptions'[n] :
             s \in subscriptions[n] \/ s.chan = Head(control[n][e].partitions)
    BY <1>1, <1>2, <1>6 DEF subscribeToTopicPartition, Subscribe, NextPartition,
                            ControlState
  <2> QED
    BY <1>3, <2>1, <2>2
<1>7. CASE clearHandles(n, e)
  <2>1. /\ subscriptions' = subscriptions
        /\ control'[n][e].partitions = control[n][e].partitions
    BY <1>1, <1>2, <1>7 DEF clearHandles, svsVars, ControlState
  <2> QED
    BY <1>3, <2>1
<1>8. CASE repartitionReturns(n, e)
  <2>1. subscriptions' = subscriptions /\ control'[n][e].partitions = <<>>
    BY <1>1, <1>8 DEF repartitionReturns, svsVars, Idle
  <2> QED
    BY <1>3, <2>1, MembersEmpty
<1> QED
  BY <1>4, <1>5, <1>6, <1>7, <1>8 DEF ControlStep

\* A query takes nothing from an assignment.
LEMMA QueryWithin ==
  ASSUME TypeInv, NEW n \in Nodes, QueryOf(n)
  PROVE  /\ \A e \in Edges : control'[n][e].partitions = control[n][e].partitions
         /\ subscriptions'[n] \subseteq subscriptions[n]
<1>1. /\ control \in [Nodes -> [Edges -> ControlState]]
      /\ subscriptions'[n] \subseteq subscriptions[n]
  BY SubTypes, QuerySteps DEF TypeInv, TypeOK, QueryOf
<1>2. ASSUME NEW e \in Edges, NEW d \in Edges, copyConsumer(n, d)
      PROVE  control'[n][e].partitions = control[n][e].partitions
  BY <1>1, <1>2 DEF copyConsumer, ControlState
<1>3. CASE \E d \in Edges : copyConsumer(n, d)
  BY <1>1, <1>2, <1>3
<1>4. CASE ~\E d \in Edges : copyConsumer(n, d)
  BY <1>1, <1>4 DEF QueryOf, QueryStep, getConsumerStats, getProducerStats,
                    getConsumptionStats, destroyNext, copyDestroyed
<1> QED
  BY <1>3, <1>4

\* Every step preserves the invariant.
LEMMA NextWithin ==
  ASSUME WithinInv, [Next]_vars
  PROVE  WithinInv'
<1>1. TypeInv /\ TypeInv'
  BY NextType DEF WithinInv
<1>2. ASSUME NEW n \in Nodes PROVE WithinAssignment(n)'
  <2>1. WithinAssignment(n)
    BY DEF WithinInv
  <2>2. /\ \A e \in Edges : Members(control'[n][e].partitions) \subseteq AssignedTo(n)
        /\ \A s \in subscriptions'[n] : s.chan \in AssignedTo(n) \cup {BackChannel}
    <3>1. CASE ControlOf(n)
      <4>1. PICK e \in Edges : RepartitionConsumer(n, e) \/ ControlStep(n, e)
        BY <3>1 DEF ControlOf
      <4>2. /\ Members(control'[n][e].partitions) \subseteq
                 Members(control[n][e].partitions) \cup AssignedTo(n)
            /\ \A d \in Edges \ {e} : control'[n][d] = control[n][d]
            /\ \A s \in subscriptions'[n] :
                 s \in subscriptions[n] \/ s.chan \in Members(control[n][e].partitions)
        BY <1>1, <4>1, ControlWithin
      <4> QED
        BY <2>1, <4>2 DEF WithinAssignment
    <3>2. CASE QueryOf(n)
      BY <1>1, <2>1, <3>2, QueryWithin DEF WithinAssignment
    <3>3. CASE ~ControlOf(n) /\ ~QueryOf(n)
      BY <1>1, <2>1, <3>3, OtherControl DEF WithinAssignment, SubUnchanged
    <3> QED
      BY <3>1, <3>2, <3>3
  <2>3. ASSUME NEW f \in fetching'[n]
        PROVE  f.pub.chan \in AssignedTo(n) \cup {BackChannel}
    <3>1. CASE f \in fetching[n]
      BY <2>1, <3>1 DEF WithinAssignment
    <3>2. CASE f \notin fetching[n]
      <4>1. \E s \in subscriptions[n] : s.chan = f.pub.chan
        BY <1>1, <3>2, FetchStarts
      <4> QED
        BY <2>1, <4>1 DEF WithinAssignment
    <3> QED
      BY <3>1, <3>2
  <2>4. ASSUME NEW c \in consumed'[n]
        PROVE  c.pub.chan \in AssignedTo(n)
    <3>1. CASE c \in consumed[n]
      BY <2>1, <3>1 DEF WithinAssignment
    <3>2. CASE c \notin consumed[n]
      <4>1. PICK f \in fetching[n] : /\ f.pub.chan # BackChannel
                                     /\ c = [pub |-> f.pub, id |-> f.id, at |-> now]
        BY <1>1, <3>2, NewConsumption
      <4>2. c.pub = f.pub
        BY <4>1
      <4>3. f.pub.chan \in AssignedTo(n) \cup {BackChannel}
        BY <2>1 DEF WithinAssignment
      <4> QED
        BY <4>1, <4>2, <4>3
    <3> QED
      BY <3>1, <3>2
  <2>5. \A e \in Edges : Members(control[n][e].partitions)' = Members(control'[n][e].partitions)
    OBVIOUS
  <2> QED
    BY <2>2, <2>3, <2>4, <2>5 DEF WithinAssignment, AssignedTo
<1> QED
  BY <1>1, <1>2 DEF WithinInv

\* If partitions never move between node instances, no publication is
\* consumed by two of them: a consumer's callback runs for its own partitions
\* only (consumer.cpp, subscribeToTopicPartition).
THEOREM OneConsumer ==
  ASSUME DisjointAssignments
  PROVE  Spec => []ConsumedByOne
<1>1. Init => WithinInv
  <2> SUFFICES ASSUME Init PROVE WithinInv
    OBVIOUS
  <2>1. ASSUME NEW n \in Nodes PROVE WithinAssignment(n)
    BY MembersEmpty
       DEF Init, SvsInit, ConsumerInit, PerEdge, BackchannelSubscriptions, Idle,
           WithinAssignment
  <2> QED
    BY <2>1, InitType DEF WithinInv
<1>2. WithinInv /\ [Next]_vars => WithinInv'
  BY NextWithin
<1>3. WithinInv => ConsumedByOne
  BY DEF WithinInv, WithinAssignment, ConsumedByOne, ConsumedBy,
         DisjointAssignments
<1> QED
  BY <1>1, <1>2, <1>3, PTL DEF Spec

----------------------------------------------------------------------------
(* The statistics: the clean-up keeps what is not in the future, so that   *)
(* the deque has the timestamp of everything that was consumed, except for *)
(* what the event loop is about to time-stamp.                             *)

\* Readings of the past are never popped: "timePassed" is not positive.
LEMMA CleanUpKeepsPast ==
  ASSUME NEW timestamps \in Seq(Nat), NEW reference \in Nat,
         \A i \in 1..Len(timestamps) : timestamps[i] <= reference
  PROVE  cleanUpTimestamps(timestamps, reference) = timestamps
<1> DEFINE popped == {i \in 1..Len(timestamps) :
                        \A j \in 1..i : timestamps[j] - reference > MaxAge}
<1>1. Len(timestamps) \in Nat
  BY LenProperties
<1>2. ASSUME NEW i \in popped PROVE FALSE
  <2>1. i \in 1..Len(timestamps) /\ timestamps[i] - reference > MaxAge
    BY <1>1
  <2>2. timestamps[i] \in Nat /\ timestamps[i] <= reference
    BY <2>1, ElementOfSeq
  <2>3. \A t \in Nat : t <= reference => ~(t - reference > MaxAge)
    BY TimeAssumption
  <2> QED
    BY <2>1, <2>2, <2>3
<1>3. popped = {}
  BY <1>2
<1> HIDE DEF popped
<1>4. Cardinality(popped) + 1 = 1
  BY <1>3, FS_EmptySet
<1>5. SubSeq(timestamps, 1, Len(timestamps)) = timestamps
  BY <1>1, SubSeqProperties, SeqEqual
<1>6. cleanUpTimestamps(timestamps, reference) =
        SubSeq(timestamps, Cardinality(popped) + 1, Len(timestamps))
  BY DEF cleanUpTimestamps, popped
<1> QED
  BY <1>4, <1>5, <1>6

ConsumedOn(n, e) == {c \in consumed[n] : c.pub.edge = e}

\* Data of edge e that was consumed and that the event loop has not yet
\* time-stamped.
Pending(n, e) == IF handler[n].pc = "save" /\ handler[n].pub.edge = e THEN 1 ELSE 0

\* Every other consumption has a timestamp, which is a past reading of the
\* clock.
ConsumptionsAreTimed(n, e) ==
  /\ \A i \in 1..Len(m_consumptionTimestamps[n][e]) :
       m_consumptionTimestamps[n][e][i] <= now
  /\ IsFiniteSet(ConsumedOn(n, e))
  /\ Cardinality(ConsumedOn(n, e)) <= Len(m_consumptionTimestamps[n][e]) + Pending(n, e)

\* What had been time-stamped on edge e when the query of n began.
BeforeOn(n, e) == {c \in query[n].before : c.pub.edge = e}

\* The consumer of every edge, and the copy of it that a query has made, has
\* as many timestamps.
BeforeIsTimed(n, e) ==
  /\ IsFiniteSet(BeforeOn(n, e))
  /\ Cardinality(BeforeOn(n, e)) <= Len(m_consumptionTimestamps[n][e])
  /\ e \in query[n].edge => Cardinality(BeforeOn(n, e)) <= Len(query[n].timestamps)

\* A query is at one edge at a time, and its copy is from the past.
QueryInPast(n) ==
  /\ \A d, e \in query[n].edge : d = e
  /\ \A i \in 1..Len(query[n].timestamps) : query[n].timestamps[i] <= now

TimedInv ==
  /\ AckInv
  /\ \A n \in Nodes : /\ QueryInPast(n)
                      /\ \A e \in Edges : ConsumptionsAreTimed(n, e) /\ BeforeIsTimed(n, e)

\* The types of what the invariant is about.
LEMMA TimedTypes ==
  ASSUME TypeInv, NEW n \in Nodes, NEW e \in Edges
  PROVE  /\ consumed \in [Nodes -> SUBSET Consumption]
         /\ m_consumptionTimestamps \in [Nodes -> [Edges -> Seq(Nat)]]
         /\ handler \in [Nodes -> HandlerState]
         /\ query \in [Nodes -> QueryState]
         /\ now \in Nat
         /\ m_consumptionTimestamps[n][e] \in Seq(Nat)
         /\ Len(m_consumptionTimestamps[n][e]) \in Nat
         /\ \A i \in 1..Len(m_consumptionTimestamps[n][e]) :
              m_consumptionTimestamps[n][e][i] \in Nat
         /\ query[n].timestamps \in Seq(Nat)
         /\ Len(query[n].timestamps) \in Nat
         /\ \A i \in 1..Len(query[n].timestamps) : query[n].timestamps[i] \in Nat
         /\ query[n].edge \subseteq Edges
<1>1. /\ consumed \in [Nodes -> SUBSET Consumption]
      /\ m_consumptionTimestamps \in [Nodes -> [Edges -> Seq(Nat)]]
      /\ handler \in [Nodes -> HandlerState]
      /\ query \in [Nodes -> QueryState]
      /\ now \in Nat
  BY DEF TypeInv, TypeOK, ConsumerTypeOK
<1>2. /\ m_consumptionTimestamps[n][e] \in Seq(Nat)
      /\ query[n].timestamps \in Seq(Nat)
      /\ query[n].edge \subseteq Edges
  BY <1>1 DEF QueryState
<1> QED
  BY <1>1, <1>2, LenProperties, ElementOfSeq

\* The timestamps and what they are timestamps of change in the three steps of
\* the event loop's handler only.
LEMMA TimestampSteps ==
  ASSUME TypeInv, [Next]_vars
  PROVE  \/ UNCHANGED <<consumed, m_consumptionTimestamps, handler>> /\ now' >= now
         \/ /\ now' = now
            /\ \E n \in Nodes :
                 \/ \E f \in fetching[n] : \E out \in Outputs(n) : DataConsumed(n, f, out)
                 \/ saveTimestamp(n)
                 \/ acknowledge(n)
<1> DEFINE Same == UNCHANGED <<consumed, m_consumptionTimestamps, handler, now>>
<1>1. CASE UNCHANGED vars \/ Clock
  BY <1>1 DEF vars, consumerVars, Clock, Tick, TypeInv, TypeOK
<1>2. ASSUME NEW n \in Nodes, NEW e \in Edges,
             \/ RegisterCallback(n, e) \/ RepartitionProducer(n, e)
             \/ RepartitionConsumer(n, e) \/ ControlStep(n, e)
      PROVE  Same
  <2>1. CASE RegisterCallback(n, e) \/ RepartitionProducer(n, e) \/ RepartitionConsumer(n, e)
    BY <2>1 DEF RegisterCallback, setConsumerCallback, RepartitionProducer,
                RepartitionConsumer, repartition, consumerVars
  <2>2. CASE ControlStep(n, e)
    BY <2>2 DEF ControlStep, unsubscribeNext, clearHandles, subscribeToTopicPartition,
                repartitionReturns
  <2> QED
    BY <1>2, <2>1, <2>2
<1>3. ASSUME NEW n \in Nodes, Sync(n) \/ Timeout(n) \/ PushData(n) \/ HandleAck(n)
      PROVE  Same
  BY <1>3 DEF Sync, Timeout, PushData, HandleAck, consumerVars
<1>4. ASSUME NEW n \in Nodes, QueryOf(n)
      PROVE  Same
  <2>1. CASE getConsumerStats(n) \/ getProducerStats(n)
    BY <2>1 DEF getConsumerStats, getProducerStats
  <2>2. CASE QueryStep(n)
    <3>1. ASSUME NEW e, copyConsumer(n, e) \/ getConsumptionStats(n, e)
          PROVE  UNCHANGED <<consumed, m_consumptionTimestamps, handler>>
      BY <3>1 DEF copyConsumer, getConsumptionStats
    <3> QED
      BY <2>2, <3>1 DEF QueryStep, destroyNext, copyDestroyed
  <2> QED
    BY <1>4, <2>1, <2>2 DEF QueryOf
<1>5. ASSUME NEW n \in Nodes, ConsumeData(n)
      PROVE  \/ Same
             \/ /\ now' = now
                /\ \E f \in fetching[n] : \E out \in Outputs(n) : DataConsumed(n, f, out)
  BY <1>5 DEF ConsumeData, subscribeCallBack, DataIgnored, DataRefused, consumerVars
<1>6. ASSUME NEW n \in Nodes, FinishData(n)
      PROVE  now' = now /\ (saveTimestamp(n) \/ acknowledge(n))
  BY <1>6 DEF FinishData
<1>7. UNCHANGED now => now' >= now
  BY DEF TypeInv, TypeOK
<1> QED
  BY <1>1, <1>2, <1>3, <1>4, <1>5, <1>6, <1>7 DEF Next, QueryOf

\* Every step keeps the timestamps of an edge complete, and drops none.
LEMMA NextConsumptions ==
  ASSUME TimedInv, [Next]_vars, NEW m \in Nodes, NEW e \in Edges
  PROVE  /\ ConsumptionsAreTimed(m, e)'
         /\ Len(m_consumptionTimestamps'[m][e]) >= Len(m_consumptionTimestamps[m][e])
<1> DEFINE timestamps == m_consumptionTimestamps[m][e]
<1>1. TypeInv /\ TypeInv' /\ ConsumptionsAreTimed(m, e)
  BY NextType DEF TimedInv, AckInv
<1>2. /\ timestamps \in Seq(Nat)
      /\ Len(timestamps) \in Nat
      /\ \A i \in 1..Len(timestamps) : timestamps[i] \in Nat
      /\ now \in Nat /\ now' \in Nat
      /\ consumed \in [Nodes -> SUBSET Consumption]
      /\ m_consumptionTimestamps \in [Nodes -> [Edges -> Seq(Nat)]]
      /\ handler \in [Nodes -> HandlerState]
  BY <1>1, TimedTypes DEF TypeInv, TypeOK
<1>3. /\ \A i \in 1..Len(timestamps) : timestamps[i] <= now
      /\ IsFiniteSet(ConsumedOn(m, e))
      /\ Cardinality(ConsumedOn(m, e)) \in Nat
      /\ Cardinality(ConsumedOn(m, e)) <= Len(timestamps) + Pending(m, e)
      /\ Pending(m, e) \in {0, 1} /\ Pending(m, e)' \in {0, 1}
  BY <1>1, FS_CardinalityType DEF ConsumptionsAreTimed, Pending
<1>4. ASSUME m_consumptionTimestamps'[m][e] = timestamps,
             ConsumedOn(m, e)' = ConsumedOn(m, e),
             Pending(m, e)' = Pending(m, e),
             now' >= now
      PROVE  /\ ConsumptionsAreTimed(m, e)'
             /\ Len(m_consumptionTimestamps'[m][e]) >= Len(timestamps)
  <2>1. \A i \in 1..Len(timestamps) : timestamps[i] <= now'
    BY <1>2, <1>3, <1>4
  <2> QED
    BY <1>2, <1>3, <1>4, <2>1 DEF ConsumptionsAreTimed
<1>5. CASE UNCHANGED <<consumed, m_consumptionTimestamps, handler>> /\ now' >= now
  BY <1>4, <1>5 DEF ConsumedOn, Pending
<1>6. ASSUME NEW n \in Nodes, NEW f \in fetching[n], NEW out,
             DataConsumed(n, f, out), now' = now
      PROVE  /\ ConsumptionsAreTimed(m, e)'
             /\ Len(m_consumptionTimestamps'[m][e]) >= Len(timestamps)
  <2> DEFINE c == [pub |-> f.pub, id |-> f.id, at |-> now]
  <2>1. /\ m_consumptionTimestamps' = m_consumptionTimestamps
        /\ handler[n].pc = "idle"
        /\ handler'[n].pc = "save" /\ handler'[n].pub = f.pub
        /\ \A l \in Nodes \ {n} : handler'[l] = handler[l] /\ consumed'[l] = consumed[l]
        /\ consumed'[n] = consumed[n] \cup {c}
        /\ c.pub = f.pub
    BY <1>2, <1>6 DEF DataConsumed, DataArrives, Waiting
  <2> HIDE DEF c
  <2>2. CASE n = m /\ f.pub.edge = e
    <3>1. /\ ConsumedOn(m, e)' = ConsumedOn(m, e) \cup {c}
          /\ Pending(m, e) = 0 /\ Pending(m, e)' = 1
      BY <2>1, <2>2 DEF ConsumedOn, Pending
    <3>2. /\ IsFiniteSet(ConsumedOn(m, e) \cup {c})
          /\ Cardinality(ConsumedOn(m, e) \cup {c}) =
               IF c \in ConsumedOn(m, e) THEN Cardinality(ConsumedOn(m, e))
               ELSE Cardinality(ConsumedOn(m, e)) + 1
      BY <1>3, FS_AddElement
    <3>3. Cardinality(ConsumedOn(m, e) \cup {c}) <= Len(timestamps) + 1
      BY <1>2, <1>3, <3>1, <3>2
    <3> QED
      BY <1>2, <1>3, <1>6, <2>1, <3>1, <3>2, <3>3 DEF ConsumptionsAreTimed
  <2>3. CASE ~(n = m /\ f.pub.edge = e)
    <3>1. ConsumedOn(m, e)' = ConsumedOn(m, e) /\ Pending(m, e)' = Pending(m, e)
      <4>1. CASE n # m
        BY <2>1, <4>1 DEF ConsumedOn, Pending
      <4>2. CASE n = m /\ f.pub.edge # e
        BY <2>1, <4>2 DEF ConsumedOn, Pending
      <4> QED
        BY <2>3, <4>1, <4>2
    <3> QED
      BY <1>2, <1>4, <1>6, <2>1, <3>1
  <2> QED
    BY <2>2, <2>3
<1>7. ASSUME NEW n \in Nodes, saveTimestamp(n), now' = now
      PROVE  /\ ConsumptionsAreTimed(m, e)'
             /\ Len(m_consumptionTimestamps'[m][e]) >= Len(timestamps)
  <2> DEFINE d == handler[n].pub.edge
  <2>1. /\ ConsumedOn(m, e)' = ConsumedOn(m, e)
        /\ handler[n].pc = "save"
        /\ \A l \in Nodes \ {n} : handler'[l] = handler[l]
    BY <1>2, <1>7 DEF saveTimestamp, ConsumedOn
  <2>2. handler'[n].pc = "acknowledge"
    <3>1. handler[n] \in HandlerState
      BY <1>2
    <3> QED
      BY <1>2, <1>7, <3>1 DEF saveTimestamp, HandlerState
  <2>3. CASE n = m /\ d = e
    <3> DEFINE longer == Append(timestamps, now)
    <3>1. /\ longer \in Seq(Nat)
          /\ Len(longer) = Len(timestamps) + 1
          /\ \A i \in 1..Len(timestamps) : longer[i] = timestamps[i]
          /\ longer[Len(timestamps) + 1] = now
      BY <1>2, AppendProperties
    <3>2. m_consumptionTimestamps'[m][e] = cleanUpTimestamps(longer, now)
      BY <1>2, <1>7, <2>3 DEF saveTimestamp
    <3> HIDE DEF longer
    <3>3. \A i \in 1..Len(longer) : longer[i] <= now
      <4>1. \A i \in 1..Len(timestamps) : longer[i] <= now
        BY <1>3, <3>1
      <4>2. longer[Len(timestamps) + 1] <= now
        BY <1>2, <3>1
      <4>3. \A i \in 1..Len(longer) :
              i \in 1..Len(timestamps) \/ i = Len(timestamps) + 1
        BY <1>2, <3>1
      <4> QED
        BY <4>1, <4>2, <4>3
    <3>4. m_consumptionTimestamps'[m][e] = longer
      BY <1>2, <3>1, <3>2, <3>3, CleanUpKeepsPast
    <3>5. Pending(m, e) = 1 /\ Pending(m, e)' = 0
      BY <2>1, <2>2, <2>3 DEF Pending
    <3>6. /\ Cardinality(ConsumedOn(m, e)) <= Len(longer) + 0
          /\ Len(longer) >= Len(timestamps)
      BY <1>2, <1>3, <3>1, <3>5
    <3> QED
      BY <1>3, <1>7, <2>1, <3>3, <3>4, <3>5, <3>6 DEF ConsumptionsAreTimed
  <2>4. CASE ~(n = m /\ d = e)
    <3>1. m_consumptionTimestamps'[m][e] = timestamps
      BY <1>2, <1>7, <2>4 DEF saveTimestamp
    <3>2. Pending(m, e)' = Pending(m, e)
      <4>1. CASE n # m
        BY <2>1, <4>1 DEF Pending
      <4>2. CASE n = m /\ d # e
        BY <2>1, <2>2, <4>2 DEF Pending
      <4> QED
        BY <2>4, <4>1, <4>2
    <3> QED
      BY <1>2, <1>4, <1>7, <2>1, <3>1, <3>2
  <2> QED
    BY <2>3, <2>4
<1>8. ASSUME NEW n \in Nodes, acknowledge(n), now' = now
      PROVE  /\ ConsumptionsAreTimed(m, e)'
             /\ Len(m_consumptionTimestamps'[m][e]) >= Len(timestamps)
  <2>1. /\ ConsumedOn(m, e)' = ConsumedOn(m, e)
        /\ m_consumptionTimestamps' = m_consumptionTimestamps
        /\ handler[n].pc = "acknowledge"
        /\ handler'[n].pc = "idle"
        /\ \A l \in Nodes \ {n} : handler'[l] = handler[l]
    BY <1>2, <1>8 DEF acknowledge, ConsumedOn, Waiting
  <2>2. Pending(m, e)' = Pending(m, e)
    BY <2>1 DEF Pending
  <2> QED
    BY <1>2, <1>4, <1>8, <2>1, <2>2
<1> QED
  BY <1>1, <1>5, <1>6, <1>7, <1>8, TimestampSteps

\* What a query finds time-stamped when it begins has its timestamps.
LEMMA StampedHasTimestamps ==
  ASSUME TimedInv, NEW n \in Nodes, NEW e \in Edges
  PROVE  /\ IsFiniteSet({c \in Stamped(n) : c.pub.edge = e})
         /\ Cardinality({c \in Stamped(n) : c.pub.edge = e}) <=
              Len(m_consumptionTimestamps[n][e])
<1> DEFINE stamped == {c \in Stamped(n) : c.pub.edge = e}
<1>1. TypeInv /\ ConsumptionsAreTimed(n, e) /\ HandledIsConsumed
  BY DEF TimedInv, AckInv
<1>2. /\ IsFiniteSet(ConsumedOn(n, e))
      /\ Cardinality(ConsumedOn(n, e)) \in Nat
      /\ Cardinality(ConsumedOn(n, e)) <= Len(m_consumptionTimestamps[n][e]) + Pending(n, e)
      /\ Len(m_consumptionTimestamps[n][e]) \in Nat
  BY <1>1, TimedTypes, FS_CardinalityType DEF ConsumptionsAreTimed
<1>3. stamped \subseteq ConsumedOn(n, e)
  BY DEF Stamped, ConsumedOn
<1>4. CASE Pending(n, e) = 0
  <2> HIDE DEF stamped
  <2>1. /\ IsFiniteSet(stamped)
        /\ Cardinality(stamped) <= Cardinality(ConsumedOn(n, e))
        /\ Cardinality(stamped) \in Nat
    BY <1>2, <1>3, FS_Subset, FS_CardinalityType
  <2>2. Cardinality(stamped) <= Len(m_consumptionTimestamps[n][e])
    BY <1>2, <1>4, <2>1
  <2> QED
    BY <2>1, <2>2 DEF stamped
<1>5. CASE Pending(n, e) # 0
  <2>1. handler[n].pc = "save" /\ handler[n].pub.edge = e /\ Pending(n, e) = 1
    BY <1>5 DEF Pending
  <2>2. PICK c \in consumed[n] : c.pub = handler[n].pub
    BY <1>1, <2>1 DEF HandledIsConsumed, Waiting, ConsumedBy
  <2>3. c \in ConsumedOn(n, e) /\ c \notin stamped
    BY <2>1, <2>2 DEF ConsumedOn, Stamped
  <2> HIDE DEF stamped
  <2>4. stamped \subseteq ConsumedOn(n, e) \ {c}
    BY <1>3, <2>3
  <2>5. /\ IsFiniteSet(ConsumedOn(n, e) \ {c})
        /\ Cardinality(ConsumedOn(n, e) \ {c}) = Cardinality(ConsumedOn(n, e)) - 1
    BY <1>2, <2>3, FS_RemoveElement
  <2>6. /\ IsFiniteSet(stamped)
        /\ Cardinality(stamped) <= Cardinality(ConsumedOn(n, e) \ {c})
        /\ Cardinality(stamped) \in Nat
    BY <2>4, <2>5, FS_Subset, FS_CardinalityType
  <2>7. Cardinality(stamped) <= Len(m_consumptionTimestamps[n][e])
    BY <1>2, <2>1, <2>5, <2>6
  <2> QED
    BY <2>6, <2>7 DEF stamped
<1> QED
  BY <1>4, <1>5

\* Every step of a query, and of the event loop beside it, keeps the part of
\* the invariant about queries.
LEMMA NextBefore ==
  ASSUME TimedInv, [Next]_vars, NEW m \in Nodes
  PROVE  QueryInPast(m)' /\ \A e \in Edges : BeforeIsTimed(m, e)'
<1>1. TypeInv /\ TypeInv' /\ QueryInPast(m)
  BY NextType DEF TimedInv, AckInv
<1>2. /\ query \in [Nodes -> QueryState] /\ query[m] \in QueryState
      /\ now \in Nat /\ now' \in Nat
      /\ m_consumptionTimestamps \in [Nodes -> [Edges -> Seq(Nat)]]
  BY <1>1 DEF TypeInv, TypeOK, ConsumerTypeOK
<1>3. now' >= now
  BY <1>1, <1>2, TimestampSteps
<1>4. \A e \in Edges :
        /\ IsFiniteSet(BeforeOn(m, e))
        /\ Cardinality(BeforeOn(m, e)) \in Nat
        /\ Cardinality(BeforeOn(m, e)) <= Len(m_consumptionTimestamps[m][e])
        /\ e \in query[m].edge => Cardinality(BeforeOn(m, e)) <= Len(query[m].timestamps)
        /\ Len(m_consumptionTimestamps[m][e]) \in Nat
        /\ Len(m_consumptionTimestamps'[m][e]) \in Nat
        /\ Len(m_consumptionTimestamps'[m][e]) >= Len(m_consumptionTimestamps[m][e])
  <2> SUFFICES ASSUME NEW e \in Edges
               PROVE  /\ BeforeIsTimed(m, e)
                      /\ Cardinality(BeforeOn(m, e)) \in Nat
                      /\ Len(m_consumptionTimestamps[m][e]) \in Nat
                      /\ Len(m_consumptionTimestamps'[m][e]) \in Nat
                      /\ Len(m_consumptionTimestamps'[m][e]) >= Len(m_consumptionTimestamps[m][e])
    BY DEF BeforeIsTimed
  <2>1. BeforeIsTimed(m, e)
    BY DEF TimedInv
  <2>2. Cardinality(BeforeOn(m, e)) \in Nat
    BY <2>1, FS_CardinalityType DEF BeforeIsTimed
  <2>3. m_consumptionTimestamps'[m][e] \in Seq(Nat)
    BY <1>1 DEF TypeInv, TypeOK, ConsumerTypeOK
  <2> QED
    BY <1>1, <2>1, <2>2, <2>3, TimedTypes, NextConsumptions, LenProperties
<1>5. ASSUME query'[m].before = query[m].before,
             \/ /\ query'[m].edge = query[m].edge
                /\ query'[m].timestamps = query[m].timestamps
             \/ query'[m].edge = {} /\ query'[m].timestamps = <<>>
      PROVE  QueryInPast(m)' /\ \A e \in Edges : BeforeIsTimed(m, e)'
  <2>1. \A e \in Edges : BeforeOn(m, e)' = BeforeOn(m, e)
    BY <1>5 DEF BeforeOn
  <2>2. \A e \in Edges : Cardinality(BeforeOn(m, e)) <= Len(m_consumptionTimestamps'[m][e])
    BY <1>4
  <2>3. \A e \in Edges : BeforeIsTimed(m, e)'
    BY <1>4, <1>5, <2>1, <2>2 DEF BeforeIsTimed
  <2>4. \A i \in 1..Len(query[m].timestamps) : query[m].timestamps[i] <= now'
    <3>1. query[m].timestamps \in Seq(Nat)
      BY <1>2 DEF QueryState
    <3>2. \A i \in 1..Len(query[m].timestamps) : query[m].timestamps[i] \in Nat
      BY <3>1, ElementOfSeq
    <3> QED
      BY <1>1, <1>2, <1>3, <3>2 DEF QueryInPast
  <2>5. QueryInPast(m)'
    <3>1. CASE query'[m].edge = query[m].edge /\ query'[m].timestamps = query[m].timestamps
      BY <1>1, <2>4, <3>1 DEF QueryInPast
    <3>2. CASE query'[m].edge = {} /\ query'[m].timestamps = <<>>
      BY <3>2 DEF QueryInPast
    <3> QED
      BY <1>5, <3>1, <3>2
  <2> QED
    BY <2>3, <2>5
<1>6. CASE getConsumerStats(m)
  <2>1. /\ query'[m].before = Stamped(m)
        /\ query'[m].edge = {} /\ query'[m].timestamps = <<>>
        /\ m_consumptionTimestamps' = m_consumptionTimestamps
    BY <1>2, <1>6 DEF getConsumerStats, NoQuery
  <2>2. \A e \in Edges : BeforeOn(m, e)' = {c \in Stamped(m) : c.pub.edge = e}
    BY <2>1 DEF BeforeOn
  <2>3. \A e \in Edges : BeforeIsTimed(m, e)'
    BY <2>1, <2>2, StampedHasTimestamps DEF BeforeIsTimed
  <2> QED
    BY <2>1, <2>3 DEF QueryInPast
<1>7. ASSUME NEW d \in Edges, copyConsumer(m, d)
      PROVE  QueryInPast(m)' /\ \A e \in Edges : BeforeIsTimed(m, e)'
  <2>1. /\ query'[m].before = query[m].before
        /\ query'[m].edge = {d}
        /\ query'[m].timestamps = m_consumptionTimestamps[m][d]
        /\ m_consumptionTimestamps' = m_consumptionTimestamps
    BY <1>2, <1>7 DEF copyConsumer, QueryState
  <2>2. \A e \in Edges : BeforeOn(m, e)' = BeforeOn(m, e)
    BY <2>1 DEF BeforeOn
  <2>3. \A e \in Edges : BeforeIsTimed(m, e)'
    BY <1>4, <2>1, <2>2 DEF BeforeIsTimed
  <2>4. ConsumptionsAreTimed(m, d)
    BY <1>7 DEF TimedInv
  <2>5. \A i \in 1..Len(m_consumptionTimestamps[m][d]) :
          m_consumptionTimestamps[m][d][i] <= now'
    BY <1>1, <1>2, <1>3, <2>4, TimedTypes DEF ConsumptionsAreTimed
  <2> QED
    BY <2>1, <2>3, <2>5 DEF QueryInPast
<1>8. ASSUME NEW d \in Edges, getConsumptionStats(m, d)
      PROVE  /\ query'[m].before = query[m].before
             /\ query'[m].edge = {} /\ query'[m].timestamps = <<>>
  BY <1>2, <1>8 DEF getConsumptionStats, QueryState
<1>9. CASE destroyNext(m)
  <2>1. /\ query'[m].before = query[m].before
        /\ query'[m].edge = query[m].edge
        /\ query'[m].timestamps = query[m].timestamps
    BY <1>2, <1>9 DEF destroyNext, QueryState
  <2> QED
    BY <1>5, <2>1
<1>10. CASE copyDestroyed(m)
  <2>1. /\ query'[m].before = query[m].before
        /\ query'[m].edge = query[m].edge
        /\ query'[m].timestamps = query[m].timestamps
    BY <1>2, <1>10 DEF copyDestroyed, QueryState
  <2> QED
    BY <1>5, <2>1
<1>11. CASE getProducerStats(m)
  <2>1. /\ query'[m].before = {}
        /\ query'[m].edge = {} /\ query'[m].timestamps = <<>>
    BY <1>2, <1>11 DEF getProducerStats, NoQuery
  <2>2. \A e \in Edges : BeforeOn(m, e)' = {}
    BY <2>1 DEF BeforeOn
  <2>3. \A e \in Edges : IsFiniteSet(BeforeOn(m, e))' /\ Cardinality(BeforeOn(m, e))' = 0
    BY <2>2, FS_EmptySet
  <2>4. \A e \in Edges : BeforeIsTimed(m, e)'
    BY <1>4, <2>1, <2>3 DEF BeforeIsTimed
  <2> QED
    BY <2>1, <2>4 DEF QueryInPast
<1>12. CASE ~QueryOf(m)
  <2>1. ControlOf(m) => query' = query
    BY DEF ControlOf, RepartitionConsumer, repartition, ControlStep, unsubscribeNext,
           clearHandles, subscribeToTopicPartition, repartitionReturns
  <2> QED
    BY <1>1, <1>5, <1>12, <2>1, OtherControl DEF SubUnchanged
<1> QED
  BY <1>5, <1>6, <1>7, <1>8, <1>9, <1>10, <1>11, <1>12 DEF QueryOf, QueryStep

\* Every step preserves the invariant.
LEMMA NextTimed == TimedInv /\ [Next]_vars => TimedInv'
  BY NextAck, NextConsumptions, NextBefore DEF TimedInv

\* Nothing is consumed when the nodes have been built.
LEMMA InitTimed == Init => TimedInv
<1> SUFFICES ASSUME Init PROVE TimedInv
  OBVIOUS
<1>1. ASSUME NEW n \in Nodes, NEW e \in Edges
      PROVE  ConsumptionsAreTimed(n, e) /\ BeforeIsTimed(n, e)
  <2>1. /\ ConsumedOn(n, e) = {} /\ m_consumptionTimestamps[n][e] = <<>>
        /\ BeforeOn(n, e) = {}
        /\ query[n].edge = {}
        /\ Pending(n, e) = 0
    BY DEF Init, ConsumerInit, PerEdge, ConsumedOn, BeforeOn, NoQuery, Waiting, Pending
  <2> QED
    BY <2>1, FS_EmptySet DEF ConsumptionsAreTimed, BeforeIsTimed
<1>2. ASSUME NEW n \in Nodes PROVE QueryInPast(n)
  BY DEF Init, ConsumerInit, NoQuery, QueryInPast
<1> QED
  BY <1>1, <1>2, InitAck DEF TimedInv

\* Only getConsumptionStats takes a query away from its edge.
LEMMA ReportStep ==
  ASSUME TypeInv, [Next]_vars, NEW n \in Nodes, NEW e \in Edges,
         \A d \in query[n].edge : d = e, Reports(n, e)
  PROVE  getConsumptionStats(n, e)
<1>1. query \in [Nodes -> QueryState] /\ query[n] \in QueryState
  BY DEF TypeInv, TypeOK, ConsumerTypeOK
<1>2. query'[n] # query[n] /\ query[n].pc = "report"
  BY DEF Reports
<1>3. ControlOf(n) => query' = query
  BY DEF ControlOf, RepartitionConsumer, repartition, ControlStep, unsubscribeNext,
         clearHandles, subscribeToTopicPartition, repartitionReturns
<1>4. QueryOf(n)
  BY <1>2, <1>3, OtherControl DEF SubUnchanged
<1>5. PICK d \in Edges : getConsumptionStats(n, d)
  BY <1>2, <1>4 DEF QueryOf, QueryStep, getConsumerStats, getProducerStats, copyConsumer,
                    destroyNext, copyDestroyed, NoQuery
<1>6. d = e
  BY <1>5 DEF getConsumptionStats
<1> QED
  BY <1>5, <1>6

\* A report of the consumption statistics (consumer.cpp, getConsumptionStats)
\* never misses what the event loop had time-stamped when the query began and
\* what is at most MaxAge old: whatever the event loop consumes and time-stamps
\* between the beginning of the query, the copy and the reading of the clock,
\* the clean-up keeps every timestamp of the past.
THEOREM ReportsAreComplete == Spec => RecentConsumptionIsCounted
<1>1. ASSUME TimedInv, [Next]_vars, NEW n \in Nodes, NEW e \in Edges, Reports(n, e)
      PROVE  consumptionStats'[n][e].units >=
               Cardinality({c \in query[n].before :
                              c.pub.edge = e /\ now - c.at <= MaxAge})
  <2> DEFINE timestamps == query[n].timestamps
             recent == {c \in query[n].before :
                          c.pub.edge = e /\ now - c.at <= MaxAge}
  <2>1. TypeInv
    BY <1>1 DEF TimedInv, AckInv
  <2>2. /\ timestamps \in Seq(Nat)
        /\ Len(timestamps) \in Nat
        /\ now \in Nat
        /\ consumptionStats \in [Nodes -> [Edges -> Stats]]
    BY <2>1, TimedTypes DEF TypeInv, TypeOK, ConsumerTypeOK
  <2>3. QueryInPast(n) /\ BeforeIsTimed(n, e) /\ e \in query[n].edge
    BY <1>1 DEF TimedInv, Reports
  <2>4. getConsumptionStats(n, e)
    BY <1>1, <2>1, <2>3, ReportStep DEF QueryInPast
  <2>5. cleanUpTimestamps(timestamps, now) = timestamps
    BY <2>2, <2>3, CleanUpKeepsPast DEF QueryInPast
  <2>6. consumptionStats'[n][e].units = Len(cleanUpTimestamps(timestamps, now))
    BY <2>2, <2>4 DEF getConsumptionStats
  <2>7. recent \subseteq BeforeOn(n, e)
    BY DEF BeforeOn
  <2> HIDE DEF recent
  <2>8. /\ IsFiniteSet(recent) /\ Cardinality(recent) <= Cardinality(BeforeOn(n, e))
        /\ Cardinality(recent) \in Nat
        /\ Cardinality(BeforeOn(n, e)) \in Nat
        /\ Cardinality(BeforeOn(n, e)) <= Len(timestamps)
    BY <2>3, <2>7, FS_Subset, FS_CardinalityType DEF BeforeIsTimed
  <2>9. consumptionStats'[n][e].units >= Cardinality(recent)
    BY <2>2, <2>5, <2>6, <2>8
  <2> QED
    BY <2>9 DEF recent
<1>2. TimedInv /\ [Next]_vars =>
        [\A n \in Nodes : \A e \in Edges : Reports(n, e) =>
           consumptionStats'[n][e].units >=
             Cardinality({c \in query[n].before :
                            c.pub.edge = e /\ now - c.at <= MaxAge})]_vars
  BY <1>1
<1> QED
  BY <1>2, NextTimed, InitTimed, PTL DEF Spec, RecentConsumptionIsCounted

----------------------------------------------------------------------------
(* Subscriptions while nobody asks for statistics.  With a query, the      *)
(* destructor of the copied consumer drops subscriptions                   *)
(* (IceFlow_statsUnsubscribe); without one, they follow the requests.      *)

NoQueries == \A l \in Limits : l["query"] = 0

\* No copy is about, and an edge that nobody repartitions has what was asked for.
NodeFollows(n) ==
  /\ query[n] = NoQuery
  /\ \A e \in Edges : /\ ~control[n][e].copied
                      /\ control[n][e].pc = "idle" =>
                           requested[n][e] \subseteq SubscribedPartitions(n, e)

FollowInv == SubInv /\ budget["query"] = 0 /\ \A n \in Nodes : NodeFollows(n)

\* Where no query is left to be made, none is made.
LEMMA NoMoreQueries ==
  ASSUME TypeInv, [Next]_vars, budget["query"] = 0
  PROVE  /\ budget'["query"] = 0
         /\ \A n \in Nodes : ~getConsumerStats(n)
<1>1. budget \in [Choices -> Nat]
  BY DEF TypeInv, TypeOK, SvsTypeOK
<1>2. ASSUME NEW c \in Choices, Spend(c)
      PROVE  c # "query" /\ budget'["query"] = 0
  BY <1>1, <1>2 DEF Spend, Choices
<1>3. {"repartition", "setPartitions", "query", "throw", "timeout", "tick"} \subseteq Choices
  BY DEF Choices
<1>4. \A n \in Nodes : ~getConsumerStats(n)
  BY <1>2, <1>3 DEF getConsumerStats
<1>5. CASE UNCHANGED vars \/ Clock
  <2>1. CASE UNCHANGED vars
    BY <1>4, <2>1 DEF vars, svsVars
  <2>2. CASE Clock
    BY <1>2, <1>4, <1>3, <2>2 DEF Clock
  <2> QED
    BY <1>5, <2>1, <2>2
<1>6. ASSUME NEW n \in Nodes, NEW e \in Edges,
             \/ RegisterCallback(n, e) \/ RepartitionProducer(n, e)
             \/ RepartitionConsumer(n, e) \/ ControlStep(n, e)
      PROVE  budget'["query"] = 0
  <2>1. CASE RegisterCallback(n, e) \/ RepartitionProducer(n, e) \/ RepartitionConsumer(n, e)
    BY <1>2, <1>3, <2>1 DEF RegisterCallback, RepartitionProducer, RepartitionConsumer,
                            repartition, svsVars
  <2>2. CASE ControlStep(n, e)
    BY <2>2 DEF ControlStep, unsubscribeNext, clearHandles, subscribeToTopicPartition,
                repartitionReturns, svsVars
  <2> QED
    BY <1>6, <2>1, <2>2
<1>7. ASSUME NEW n \in Nodes, Sync(n) \/ Timeout(n) \/ PushData(n) \/ HandleAck(n)
      PROVE  budget'["query"] = 0
  <2>1. CASE Sync(n) \/ PushData(n)
    BY <2>1 DEF Sync, SyncUpdate, PushData, pushData
  <2>2. CASE Timeout(n)
    BY <1>2, <1>3, <2>2 DEF Timeout, FetchTimeout
  <2>3. CASE HandleAck(n)
    BY <2>3 DEF HandleAck, onBackchannel
  <2> QED
    BY <1>7, <2>1, <2>2, <2>3
<1>8. ASSUME NEW n \in Nodes, ConsumeData(n) \/ FinishData(n)
      PROVE  budget'["query"] = 0
  BY <1>2, <1>3, <1>8 DEF ConsumeData, subscribeCallBack, DataIgnored, DataConsumed,
                          DataRefused, FinishData, saveTimestamp, acknowledge, svsVars
<1>9. ASSUME NEW n \in Nodes, QueryStep(n) \/ getProducerStats(n)
      PROVE  budget'["query"] = 0
  <2>1. ASSUME NEW e, copyConsumer(n, e) \/ getConsumptionStats(n, e)
        PROVE  budget' = budget
    BY <2>1 DEF copyConsumer, getConsumptionStats, svsVars
  <2> QED
    BY <1>9, <2>1 DEF QueryStep, getProducerStats, destroyNext, copyDestroyed, svsVars
<1> QED
  BY <1>4, <1>5, <1>6, <1>7, <1>8, <1>9 DEF Next

\* A repartition of one edge leaves the others alone, and returns with what it
\* was asked for.
LEMMA ControlFollows ==
  ASSUME FollowInv, NEW n \in Nodes, ControlOf(n)
  PROVE  NodeFollows(n)'
<1>1. /\ TypeInv /\ NodeSub(n) /\ NodeFollows(n)
      /\ control \in [Nodes -> [Edges -> ControlState]]
      /\ subscriptions \in [Nodes -> SUBSET Subscription]
      /\ requested \in [Nodes -> [Edges -> SUBSET Nat]]
  BY SubTypes DEF FollowInv, SubInv
<1>2. PICK e \in Edges : RepartitionConsumer(n, e) \/ ControlStep(n, e)
  BY DEF ControlOf
<1>3. control[n][e] \in ControlState
  BY <1>1
<1>4. /\ query' = query
      /\ \A d \in Edges \ {e} : /\ control'[n][d] = control[n][d]
                                /\ requested'[n][d] = requested[n][d]
  BY <1>1, <1>2 DEF RepartitionConsumer, repartition, ControlStep, unsubscribeNext,
                    clearHandles, subscribeToTopicPartition, repartitionReturns
<1>5. ASSUME ~control'[n][e].copied,
             control'[n][e].pc = "idle" =>
               requested'[n][e] \subseteq SubscribedPartitions(n, e)',
             \A d \in Edges \ {e} :
               SubscribedPartitions(n, d) \subseteq SubscribedPartitions(n, d)'
      PROVE  NodeFollows(n)'
  BY <1>1, <1>4, <1>5 DEF NodeFollows
<1>6. CASE RepartitionConsumer(n, e)
  <2>1. /\ ~control'[n][e].copied
        /\ control'[n][e].pc = "unsubscribe"
        /\ subscriptions' = subscriptions
    BY <1>1, <1>6 DEF RepartitionConsumer, repartition
  <2> QED
    BY <1>5, <2>1 DEF SubscribedPartitions
<1>7. CASE unsubscribeNext(n, e)
  <2> DEFINE h == Head(control[n][e].handles)
  <2>1. /\ subscriptions'[n] = {s \in subscriptions[n] : s.id # h}
        /\ control'[n][e].pc = "unsubscribe"
        /\ control'[n][e].copied = control[n][e].copied
    BY <1>1, <1>3, <1>7 DEF unsubscribeNext, Unsubscribe, ControlState
  <2>2. Members(control[n][e].handles) = {h} \cup Members(Tail(control[n][e].handles))
    BY <1>1, <1>7, SubTypes, MembersHeadTail DEF unsubscribeNext
  <2> HIDE DEF h
  <2>3. \A d \in Edges \ {e} : h \notin Members(m_subscriptionHandles[n][d])
    <3>1. h \in Members(m_subscriptionHandles[n][e])
      BY <1>1, <2>2 DEF NodeSub, DropsOwnHandles
    <3> QED
      BY <1>1, <3>1 DEF NodeSub, HandlesApart
  <2>4. \A d \in Edges \ {e} :
          SubscribedPartitions(n, d) \subseteq SubscribedPartitions(n, d)'
    BY <1>1, <2>1, <2>3, Dropped
  <2> QED
    BY <1>1, <1>5, <2>1, <2>4 DEF NodeFollows
<1>8. CASE clearHandles(n, e)
  <2>1. /\ subscriptions' = subscriptions
        /\ control'[n][e].pc = "subscribe"
        /\ control'[n][e].copied = control[n][e].copied
    BY <1>1, <1>3, <1>8 DEF clearHandles, svsVars, ControlState
  <2> QED
    BY <1>1, <1>5, <2>1 DEF NodeFollows, SubscribedPartitions
<1>9. CASE subscribeToTopicPartition(n, e)
  <2>1. /\ subscriptions[n] \subseteq subscriptions'[n]
        /\ control'[n][e].pc = "subscribe"
        /\ control'[n][e].copied = control[n][e].copied
    BY <1>1, <1>3, <1>9 DEF subscribeToTopicPartition, Subscribe, ControlState
  <2> QED
    BY <1>1, <1>5, <2>1 DEF NodeFollows, SubscribedPartitions
<1>10. CASE repartitionReturns(n, e)
  <2>1. /\ UNCHANGED <<subscriptions, requested>>
        /\ control[n][e].pc = "subscribe"
        /\ control[n][e].partitions = <<>>
        /\ ~control'[n][e].copied
    BY <1>1, <1>10 DEF repartitionReturns, svsVars, Idle
  <2>2. requested[n][e] \subseteq SubscribedPartitions(n, e)
    BY <1>1, <2>1, MembersEmpty DEF NodeFollows, NodeSub, RequestInProgress
  <2> QED
    BY <1>5, <2>1, <2>2 DEF SubscribedPartitions
<1> QED
  BY <1>2, <1>6, <1>7, <1>8, <1>9, <1>10 DEF ControlStep

\* Every step preserves the invariant.
LEMMA NextFollows ==
  ASSUME FollowInv, [Next]_vars
  PROVE  FollowInv'
<1>1. SubInv /\ SubInv' /\ TypeInv
  BY NextSub DEF FollowInv, SubInv
<1>2. budget'["query"] = 0 /\ \A n \in Nodes : ~getConsumerStats(n)
  BY <1>1, NoMoreQueries DEF FollowInv
<1>3. ASSUME NEW n \in Nodes PROVE NodeFollows(n)'
  <2>1. NodeFollows(n)
    BY DEF FollowInv
  <2>2. CASE ControlOf(n)
    BY <2>2, ControlFollows
  <2>3. ~QueryOf(n)
    <3>1. query[n].pc = "idle"
      BY <2>1 DEF NodeFollows, NoQuery
    <3> QED
      BY <1>2, <3>1 DEF QueryOf, QueryStep, getProducerStats, copyConsumer,
                        getConsumptionStats, destroyNext, copyDestroyed
  <2>4. CASE ~ControlOf(n)
    <3>1. SubUnchanged(n)
      BY <1>1, <2>3, <2>4, OtherControl
    <3> QED
      BY <2>1, <3>1 DEF NodeFollows, SubscribedPartitions, SubUnchanged
  <2> QED
    BY <2>2, <2>4
<1> QED
  BY <1>1, <1>2, <1>3 DEF FollowInv

\* As long as no statistics are asked for, a consumer that nobody repartitions
\* is subscribed to exactly the partitions it was last asked to take over
\* (consumer.cpp, repartition): partitions are neither lost nor left behind,
\* on any of its edges, which may be repartitioned at the same time.  With one
\* query this is false.
THEOREM SubscriptionsFollow ==
  ASSUME NoQueries
  PROVE  Spec => []SubscriptionsFollowRepartition
<1>1. Init => FollowInv
  <2> SUFFICES ASSUME Init PROVE FollowInv
    OBVIOUS
  <2>1. budget["query"] = 0
    BY DEF Init, SvsInit, NoQueries
  <2>2. ASSUME NEW n \in Nodes PROVE NodeFollows(n)
    BY DEF Init, ConsumerInit, PerEdge, Idle, NodeFollows
  <2> QED
    BY <2>1, <2>2, InitSub DEF FollowInv
<1>2. FollowInv /\ [Next]_vars => FollowInv'
  BY NextFollows
<1>3. FollowInv => SubscriptionsFollowRepartition
  <2> SUFFICES ASSUME FollowInv, NEW n \in Nodes, NEW e \in Edges, control[n][e] = Idle
               PROVE  SubscribedPartitions(n, e) = requested[n][e]
    BY DEF SubscriptionsFollowRepartition
  <2>1. control[n][e].pc = "idle"
    BY DEF Idle
  <2> QED
    BY <2>1 DEF FollowInv, NodeFollows, SubInv, NodeSub, OnlyRequested
<1> QED
  BY <1>1, <1>2, <1>3, PTL DEF Spec
============================================================================
