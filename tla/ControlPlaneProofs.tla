------------------------- MODULE ControlPlaneProofs -------------------------
(* Theorems about ControlPlane, for any edges, bounds and limits. *)
EXTENDS ControlPlane, TLAPS

----------------------------------------------------------------------------
(* The partition range of a request. *)

\* What k iterations of the loop subscribe to, and all of them.
FirstPartitions(b, k) == {PartitionAt(b, i) : i \in 0..(k - 1)}
Granted(b) == FirstPartitions(b, PartitionCount(b))

\* A number below the modulus is its own remainder.
LEMMA RemainderOfSmall ==
  ASSUME NEW m \in Nat \ {0}, NEW a \in 0..(m - 1)
  PROVE  a % m = a
BY SMT

\* For bounds in order, the vector of NodeInstanceService::Repartition has
\* upper - lower elements.
LEMMA CountOfOrdered ==
  ASSUME NEW b \in Bounds, b.lower <= b.upper
  PROVE  PartitionCount(b) = b.upper - b.lower
<1>1. b.upper - b.lower \in 0..(Modulus - 1)
  BY ControlPlaneAssumption DEF Bounds
<1>2. QED
  BY <1>1, RemainderOfSmall, ControlPlaneAssumption DEF PartitionCount

\* They are the partitions from the lower bound up to the upper bound.
LEMMA RangeOfOrdered ==
  ASSUME NEW b \in Bounds, b.lower <= b.upper
  PROVE  Granted(b) = RangeOf(b)
<1>1. \A i \in 0..(b.upper - b.lower - 1) : PartitionAt(b, i) = b.lower + i
  <2> TAKE i \in 0..(b.upper - b.lower - 1)
  <2>1. b.lower + i \in 0..(Modulus - 1)
    BY ControlPlaneAssumption DEF Bounds
  <2>2. QED
    BY <2>1, RemainderOfSmall, ControlPlaneAssumption DEF PartitionAt
<1>2. FirstPartitions(b, PartitionCount(b)) =
        {b.lower + i : i \in 0..(b.upper - b.lower - 1)}
  BY <1>1, CountOfOrdered DEF FirstPartitions, Granted
<1>3. ASSUME NEW p \in RangeOf(b)
      PROVE  p \in {b.lower + i : i \in 0..(b.upper - b.lower - 1)}
  <2>1. p - b.lower \in 0..(b.upper - b.lower - 1) /\ p = b.lower + (p - b.lower)
    BY ControlPlaneAssumption DEF RangeOf, Bounds
  <2>2. QED
    BY <2>1
<1>4. ASSUME NEW i \in 0..(b.upper - b.lower - 1) PROVE b.lower + i \in RangeOf(b)
  BY ControlPlaneAssumption DEF RangeOf, Bounds
<1>5. QED
  BY <1>2, <1>3, <1>4 DEF Granted

\* One more iteration of the loop adds one partition.
LEMMA OneMorePartition ==
  ASSUME NEW b, NEW k \in Nat
  PROVE  FirstPartitions(b, k + 1) = FirstPartitions(b, k) \cup {PartitionAt(b, k)}
<1>1. \A i : i \in 0..(k + 1 - 1) <=> i \in 0..(k - 1) \/ i = k
  OBVIOUS
<1>2. \A p : p \in FirstPartitions(b, k + 1) <=>
              \E i \in 0..(k + 1 - 1) : p = PartitionAt(b, i)
  BY DEF FirstPartitions
<1>3. \A p : p \in FirstPartitions(b, k) <=>
              \E i \in 0..(k - 1) : p = PartitionAt(b, i)
  BY DEF FirstPartitions
<1>4. QED
  BY <1>1, <1>2, <1>3

----------------------------------------------------------------------------
(* Type correctness, for bounds in any order. *)

\* A remainder is below the modulus, for a negative number too.
LEMMA RemainderIsSmall ==
  ASSUME NEW m \in Nat \ {0}, NEW a \in Int
  PROVE  a % m \in 0..(m - 1)
BY SMT

\* In uint32_t, the vector has fewer elements than there are numbers, and its
\* elements are numbers.
LEMMA PartitionsTyped ==
  ASSUME NEW b \in Bounds, NEW i \in Nat
  PROVE  /\ PartitionCount(b) \in 0..(Modulus - 1)
         /\ PartitionAt(b, i) \in 0..(Modulus - 1)
<1>1. b.upper - b.lower \in Int /\ b.lower + i \in Int
  BY ControlPlaneAssumption DEF Bounds
<1>2. QED
  BY <1>1, RemainderIsSmall, ControlPlaneAssumption DEF PartitionCount, PartitionAt

\* The part of the type that is about the node's consumers.
ConsumersTyped ==
  /\ subscribed \in [Edges -> SUBSET Subscription]
  /\ m_subscriptionHandles \in [Edges -> SUBSET Nat]
  /\ handleCount \in Nat
  /\ acknowledged \in [Edges -> Bounds]
  /\ disturbed \in SUBSET Edges
  /\ overlapped \in SUBSET Edges

\* A thread without a call.
LEMMA NoCallTyped ==
  ASSUME Edges # {} PROVE NoCall \in Calls /\ NoBounds \in Bounds
<1>1. NoBounds \in Bounds
  BY ControlPlaneAssumption DEF NoBounds, Bounds
<1>2. (CHOOSE e \in Edges : TRUE) \in Edges
  OBVIOUS
<1>3. QED
  BY <1>1, <1>2, ControlPlaneAssumption DEF NoCall, Calls

\* The steps that change no call.
LEMMA TypeOKNoCall ==
  ASSUME TypeOK, UNCHANGED <<call, consumers, history>>,
         \/ runGrpcServer \/ runGrpcServerReturns \/ runGrpcClient
         \/ ServerShutdown \/ StartNode \/ LastReferenceDropped
         \/ ReportCongestionReturns \/ releaseExecutor \/ reportRefused
         \/ reportCongestion \/ ScalerDestructor
  PROVE  TypeOK'
<1>1. /\ call' \in [Threads -> Calls]
      /\ ConsumersTyped'
  BY DEF TypeOK, ConsumersTyped, consumers, history
<1>2. budget' \in [Choices -> Nat] /\ delivered' \in Nat
  BY DEF runGrpcServer, runGrpcServerReturns, runGrpcClient, ServerShutdown,
         StartNode, LastReferenceDropped, ReportCongestionReturns,
         releaseExecutor, reportRefused, reportCongestion, ScalerDestructor,
         TypeOK, Spend, Choices, executorVars
<1>3. /\ executor' \in ExecutorStates
      /\ node' \in NodeStates
      /\ m_nodeInstanceService' \in BOOLEAN
      /\ server' \in BOOLEAN
      /\ service' \in BOOLEAN
      /\ handling' \in BOOLEAN
      /\ reporting' \in BOOLEAN
  BY DEF runGrpcServer, runGrpcServerReturns, runGrpcClient, ServerShutdown,
         StartNode, LastReferenceDropped, ReportCongestionReturns,
         releaseExecutor, reportRefused, reportCongestion, ScalerDestructor,
         TypeOK, executorVars, nodeVars, ExecutorStates, NodeStates
<1>4. QED
  BY <1>1, <1>2, <1>3 DEF TypeOK, ConsumersTyped

\* The threads of S get no answer any more, the other calls go on.
LEMMA CallsReset ==
  ASSUME NEW S, Edges # {}, call \in [Threads -> Calls],
         call' = [t \in Threads |-> IF t \in S THEN NoCall ELSE call[t]]
  PROVE  /\ call' \in [Threads -> Calls]
         /\ \A t \in Threads : call'[t] = IF t \in S THEN NoCall ELSE call[t]
<1>1. \A t \in Threads : (IF t \in S THEN NoCall ELSE call[t]) \in Calls
  <2> TAKE t \in Threads
  <2>1. call[t] \in Calls /\ NoCall \in Calls
    BY NoCallTyped
  <2>2. QED
    BY <2>1, Zenon
<1>2. QED
  BY <1>1, Zenon

\* The threads whose calls a crash of the executor ends, and one of the node.
Connecting == {t \in Threads : call[t].pc = "connecting"}
Handled == {t \in Threads : InHandler(t)}

LEMMA CrashedCalls ==
  Crash => call' = [t \in Threads |-> IF t \in Connecting THEN NoCall ELSE call[t]]
BY Zenon DEF Crash, Connecting

LEMMA StoppedCalls ==
  StopNode => call' = [t \in Threads |-> IF t \in Handled THEN NoCall ELSE call[t]]
BY Zenon DEF StopNode, Handled

\* The end of the executor's process, and of the node's.
LEMMA TypeOKCrash ==
  ASSUME TypeOK, Edges # {},
         \/ reportToDestroyedService
         \/ \E t \in Threads : queryWithoutStub(t)
         \/ StopNode
         \/ ScalerShutdown
  PROVE  TypeOK'
<1>1. budget' \in [Choices -> Nat]
  BY DEF reportToDestroyedService, queryWithoutStub, StopNode, ScalerShutdown,
         Spend, Choices, TypeOK
<1>2. CASE Crash
  <2>1. call' \in [Threads -> Calls]
    BY <1>2, CrashedCalls, CallsReset DEF TypeOK
  <2>2. QED
    BY <1>1, <1>2, <2>1 DEF Crash, TypeOK, ExecutorStates, consumers, history
<1>3. CASE NodeGone /\ call' \in [Threads -> Calls]
  BY <1>1, <1>3, NoCallTyped DEF NodeGone, TypeOK, NodeStates, executorVars
<1>4. StopNode \/ ScalerShutdown => call' \in [Threads -> Calls]
  BY StoppedCalls, CallsReset DEF ScalerShutdown, TypeOK
<1>5. QED
  BY <1>2, <1>3, <1>4
     DEF reportToDestroyedService, queryWithoutStub, StopNode, ScalerShutdown

\* The fields of a call.
LEMMA CallFields ==
  ASSUME call \in [Threads -> Calls], NEW t \in Threads
  PROVE  /\ call[t] \in Calls
         /\ call[t].edge \in Edges /\ call[t].bounds \in Bounds
         /\ call[t].kind \in {"repartition", "query"} /\ call[t].done \in 0..Modulus
         /\ call[t].toDrop \in SUBSET Nat /\ call[t].toVisit \in SUBSET Edges
BY DEF Calls

\* A step of thread t changes its own call only.
OwnCall(t) ==
  /\ call' \in [Threads -> Calls]
  /\ \A u \in Threads : u # t => call'[u] = call[u]

\* The thread's call is replaced by another one.
LEMMA CallReplaced ==
  ASSUME call \in [Threads -> Calls], NEW t \in Threads, NEW c \in Calls,
         call' = [call EXCEPT ![t] = c]
  PROVE  OwnCall(t) /\ call'[t] = c
BY DEF OwnCall

\* The executor calls.
LEMMA CallBegins ==
  ASSUME call \in [Threads -> Calls], NEW t \in Threads,
         repartition(t) \/ queryEdgeStats(t)
  PROVE  /\ OwnCall(t)
         /\ call[t].pc = "idle" /\ call'[t].pc = "connecting"
         /\ call'[t].kind = "repartition" => call'[t].done = 0
<1> USE ControlPlaneAssumption, CallFields
<1>1. CASE repartition(t)
  <2>1. PICK e \in Edges, b \in Requests :
          call' = [call EXCEPT ![t] = [pc |-> "connecting", kind |-> "repartition",
                                       edge |-> e, bounds |-> b, done |-> 0,
                                       toDrop |-> {}, toVisit |-> {}]]
    BY <1>1 DEF repartition
  <2>2. call[t].pc = "idle"
    BY <1>1 DEF repartition, CanCall
  <2>3. QED
    BY <2>1, <2>2 DEF OwnCall, Calls
<1>2. CASE queryEdgeStats(t)
  <2>1. /\ call[t].pc = "idle"
        /\ call' = [call EXCEPT ![t].pc = "connecting", ![t].kind = "query"]
    BY <1>2 DEF queryEdgeStats, CanCall
  <2>2. [call[t] EXCEPT !.pc = "connecting", !.kind = "query"] \in Calls
    BY DEF Calls
  <2>3. call' = [call EXCEPT ![t] = [call[t] EXCEPT !.pc = "connecting", !.kind = "query"]]
    BY <2>1
  <2>4. QED
    BY <2>1, <2>2, <2>3, CallReplaced DEF Calls
<1>3. QED
  BY <1>1, <1>2

\* The node takes a call.
LEMMA CallConnects ==
  ASSUME call \in [Threads -> Calls], NEW t \in Threads, Connected(t)
  PROVE  /\ OwnCall(t)
         /\ call[t].pc = "connecting" /\ call'[t].pc = "handled"
         /\ call'[t].kind = call[t].kind /\ call'[t].done = call[t].done
<1>1. call[t].pc = "connecting" /\ call' = [call EXCEPT ![t].pc = "handled"]
  BY DEF Connected, Goto
<1>2. QED
  BY <1>1, CallFields DEF OwnCall, Calls

\* A handler answers.
LEMMA CallAnswered ==
  ASSUME Edges # {}, call \in [Threads -> Calls], NEW t \in Threads,
         RepartitionFails(t) \/ RepartitionSucceeds(t) \/ QueryReturns(t)
  PROVE  OwnCall(t) /\ call'[t] = NoCall
<1>1. call' = [call EXCEPT ![t] = NoCall]
  BY DEF RepartitionFails, RepartitionSucceeds, QueryReturns, Return, ErrorAnswered
<1>2. QED
  BY <1>1, NoCallTyped DEF OwnCall

\* The loop of a repartition, or of a query, goes on.
LEMMA CallGoesOn ==
  ASSUME call \in [Threads -> Calls], NEW t \in Threads,
         m_subscriptionHandles \in [Edges -> SUBSET Nat]
  PROVE  /\ Repartition(t) =>
              /\ OwnCall(t)
              /\ call'[t] = [call[t] EXCEPT !.pc = "unsubscribing",
                                            !.toDrop = m_subscriptionHandles[call[t].edge]]
         /\ ClearHandles(t) =>
              OwnCall(t) /\ call'[t] = [call[t] EXCEPT !.pc = "subscribing"]
         /\ QueryStats(t) =>
              /\ OwnCall(t)
              /\ call'[t] = [call[t] EXCEPT !.pc = "copying", !.toDrop = {}, !.toVisit = Upstream]
<1> USE ControlPlaneAssumption, CallFields
<1>1. ASSUME Repartition(t)
      PROVE  /\ OwnCall(t)
             /\ call'[t] = [call[t] EXCEPT !.pc = "unsubscribing",
                                           !.toDrop = m_subscriptionHandles[call[t].edge]]
  <2>1. call' = [call EXCEPT ![t].pc = "unsubscribing",
                             ![t].toDrop = m_subscriptionHandles[call[t].edge]]
    BY <1>1 DEF Repartition
  <2> DEFINE c == [call[t] EXCEPT !.pc = "unsubscribing",
                                  !.toDrop = m_subscriptionHandles[call[t].edge]]
  <2>2. c \in Calls
    BY DEF Calls
  <2>3. call' = [call EXCEPT ![t] = c]
    BY <2>1
  <2>4. QED
    BY <2>2, <2>3, CallReplaced
<1>2. ASSUME ClearHandles(t)
      PROVE  OwnCall(t) /\ call'[t] = [call[t] EXCEPT !.pc = "subscribing"]
  <2>1. call' = [call EXCEPT ![t].pc = "subscribing"]
    BY <1>2 DEF ClearHandles, Goto
  <2>2. QED
    BY <2>1 DEF OwnCall, Calls
<1>3. ASSUME QueryStats(t)
      PROVE  /\ OwnCall(t)
             /\ call'[t] = [call[t] EXCEPT !.pc = "copying", !.toDrop = {},
                                           !.toVisit = Upstream]
  <2>1. call' = [call EXCEPT ![t].pc = "copying", ![t].toDrop = {}, ![t].toVisit = Upstream]
    BY <1>3 DEF QueryStats
  <2> DEFINE c == [call[t] EXCEPT !.pc = "copying", !.toDrop = {}, !.toVisit = Upstream]
  <2>2. c \in Calls
    BY DEF Calls
  <2>3. call' = [call EXCEPT ![t] = c]
    BY <2>1
  <2>4. QED
    BY <2>2, <2>3, CallReplaced
<1>4. QED
  BY <1>1, <1>2, <1>3

\* One handle is unsubscribed.
LEMMA CallUnsubscribes ==
  ASSUME call \in [Threads -> Calls], NEW t \in Threads, UnsubscribeNext(t)
  PROVE  \E h \in call[t].toDrop :
           /\ OwnCall(t)
           /\ call'[t] = [call[t] EXCEPT !.toDrop = @ \ {h}]
           /\ \E read \in {h} \cup (IF call[t].pc = "unsubscribing" /\ Racing(t)
                                    THEN m_subscriptionHandles[call[t].edge] ELSE {}) :
                subscribed' = [subscribed EXCEPT ![call[t].edge] = {s \in @ : s.id # read}]
<1>1. PICK h \in call[t].toDrop :
        /\ call' = [call EXCEPT ![t].toDrop = @ \ {h}]
        /\ \E read \in {h} \cup (IF call[t].pc = "unsubscribing" /\ Racing(t)
                                 THEN m_subscriptionHandles[call[t].edge] ELSE {}) :
             subscribed' = [subscribed EXCEPT ![call[t].edge] = {s \in @ : s.id # read}]
  BY DEF UnsubscribeNext
<1>2. OwnCall(t) /\ call'[t] = [call[t] EXCEPT !.toDrop = @ \ {h}]
  BY <1>1, CallFields DEF OwnCall, Calls
<1>3. QED
  BY <1>1, <1>2

\* One partition is subscribed to.
LEMMA CallSubscribes ==
  ASSUME call \in [Threads -> Calls], NEW t \in Threads, SubscribeNext(t)
  PROVE  /\ OwnCall(t) /\ call[t].done < PartitionCount(call[t].bounds)
         /\ call'[t] = [call[t] EXCEPT !.done = @ + 1]
<1>1. /\ call' = [call EXCEPT ![t].done = @ + 1]
      /\ call[t].done < PartitionCount(call[t].bounds)
  BY DEF SubscribeNext, MorePartitions
<1>2. PartitionCount(call[t].bounds) \in 0..(Modulus - 1) /\ Modulus \in Nat
  BY CallFields, PartitionsTyped, ControlPlaneAssumption
<1>3. call[t].done + 1 \in 0..Modulus
  BY <1>1, <1>2, CallFields
<1>4. QED
  BY <1>1, <1>3, CallFields DEF OwnCall, Calls

\* A query copies the consumer of one more edge.
LEMMA CallCopies ==
  ASSUME call \in [Threads -> Calls], NEW t \in Threads, CopyConsumer(t),
         m_subscriptionHandles \in [Edges -> SUBSET Nat]
  PROVE  \E e \in Edges :
           /\ OwnCall(t)
           /\ call'[t] = [call[t] EXCEPT !.edge = e, !.toDrop = m_subscriptionHandles[e],
                                         !.toVisit = @ \ {e}]
           /\ disturbed' = disturbed \cup {e}
<1>1. PICK e \in call[t].toVisit :
        /\ call' = [call EXCEPT ![t].edge = e, ![t].toDrop = m_subscriptionHandles[e],
                                ![t].toVisit = @ \ {e}]
        /\ disturbed' = disturbed \cup {e}
  BY DEF CopyConsumer
<1>2. e \in Edges
  BY CallFields
<1>3. /\ OwnCall(t)
      /\ call'[t] = [call[t] EXCEPT !.edge = e, !.toDrop = m_subscriptionHandles[e],
                                    !.toVisit = @ \ {e}]
  BY <1>1, <1>2, CallFields DEF OwnCall, Calls
<1>4. QED
  BY <1>1, <1>2, <1>3

\* What a step of a call does to the node's consumers.
LEMMA CallStepTyped ==
  ASSUME Edges # {}, TypeOK, NEW t \in Threads, CallStep(t)
  PROVE  call' \in [Threads -> Calls] /\ ConsumersTyped'
<1> USE ControlPlaneAssumption
<1> DEFINE e == call[t].edge
<1>1. /\ call \in [Threads -> Calls]
      /\ m_subscriptionHandles \in [Edges -> SUBSET Nat]
      /\ ConsumersTyped
  BY DEF TypeOK, ConsumersTyped
<1>2. e \in Edges /\ call[t].bounds \in Bounds /\ call[t].done \in 0..Modulus
  BY <1>1, CallFields
<1>3. CASE Connected(t) \/ RepartitionFails(t) \/ QueryStats(t) \/ QueryReturns(t)
  <2>1. UNCHANGED <<consumers, history>>
    BY <1>3 DEF Connected, RepartitionFails, QueryStats, QueryReturns, nodeVars
  <2>2. call' \in [Threads -> Calls]
    BY <1>1, <1>3, CallConnects, CallAnswered, CallGoesOn DEF OwnCall
  <2>3. QED
    BY <1>1, <2>1, <2>2 DEF ConsumersTyped, consumers, history
<1>4. CASE Repartition(t)
  <2>1. call' \in [Threads -> Calls]
    BY <1>1, <1>4, CallGoesOn DEF OwnCall
  <2>2. disturbed' \in SUBSET Edges /\ overlapped' \in SUBSET Edges
    BY <1>1, <1>2, <1>4 DEF Repartition, ConsumersTyped
  <2>3. UNCHANGED <<consumers, acknowledged>>
    BY <1>4 DEF Repartition
  <2>4. QED
    BY <1>1, <2>1, <2>2, <2>3 DEF ConsumersTyped, consumers
<1>5. CASE UnsubscribeNext(t)
  <2>1. UNCHANGED <<m_subscriptionHandles, handleCount, history>>
    BY <1>5 DEF UnsubscribeNext
  <2>2. PICK h \in call[t].toDrop :
          \E read \in {h} \cup (IF call[t].pc = "unsubscribing" /\ Racing(t)
                               THEN m_subscriptionHandles[e] ELSE {}) :
             subscribed' = [subscribed EXCEPT ![e] = {s \in @ : s.id # read}]
    BY <1>1, <1>5, CallUnsubscribes
  <2> PICK read \in {h} \cup (IF call[t].pc = "unsubscribing" /\ Racing(t)
                            THEN m_subscriptionHandles[e] ELSE {}) :
             subscribed' = [subscribed EXCEPT ![e] = {s \in @ : s.id # read}]
    BY <2>2
  <2>3. call' \in [Threads -> Calls]
    BY <1>1, <1>5, CallUnsubscribes DEF OwnCall
  <2>4. subscribed' \in [Edges -> SUBSET Subscription]
    <3>1. {s \in subscribed[e] : s.id # read} \in SUBSET Subscription
      BY <1>1, <1>2 DEF ConsumersTyped
    <3>2. QED
      BY <1>1, <1>2, <2>2, <3>1 DEF ConsumersTyped
  <2>5. QED
    BY <1>1, <2>1, <2>3, <2>4 DEF ConsumersTyped, history
<1>6. CASE ClearHandles(t)
  <2>1. call' \in [Threads -> Calls]
    BY <1>1, <1>6, CallGoesOn DEF OwnCall
  <2>2. /\ UNCHANGED <<subscribed, handleCount, history>>
        /\ m_subscriptionHandles' = [m_subscriptionHandles EXCEPT ![e] = {}]
    BY <1>6 DEF ClearHandles
  <2>3. QED
    BY <1>1, <2>1, <2>2 DEF ConsumersTyped, history
<1>7. CASE SubscribeNext(t)
  <2> DEFINE h == handleCount + 1
             new == [id |-> h, partition |-> PartitionAt(call[t].bounds, call[t].done)]
  <2>1. call' \in [Threads -> Calls]
    BY <1>1, <1>7, CallSubscribes DEF OwnCall
  <2>2. new \in Subscription /\ h \in Nat
    BY <1>1, <1>2, PartitionsTyped DEF Subscription, ConsumersTyped
  <2>3. /\ subscribed' = [subscribed EXCEPT ![e] = @ \cup {new}]
        /\ handleCount' = h
        /\ \/ m_subscriptionHandles' = [m_subscriptionHandles EXCEPT ![e] = @ \cup {h}]
           \/ UNCHANGED m_subscriptionHandles
        /\ UNCHANGED history
    BY <1>7 DEF SubscribeNext
  <2> HIDE DEF new
  <2>4. subscribed' \in [Edges -> SUBSET Subscription]
    BY <1>1, <1>2, <2>2, <2>3 DEF ConsumersTyped
  <2>5. m_subscriptionHandles' \in [Edges -> SUBSET Nat]
    BY <1>1, <1>2, <2>2, <2>3
  <2>6. QED
    BY <1>1, <2>1, <2>2, <2>3, <2>4, <2>5 DEF ConsumersTyped, history
<1>8. CASE RepartitionSucceeds(t)
  <2>1. call' \in [Threads -> Calls]
    BY <1>1, <1>8, CallAnswered DEF OwnCall
  <2>2. /\ UNCHANGED <<consumers, disturbed, overlapped>>
        /\ acknowledged' = [acknowledged EXCEPT ![e] = call[t].bounds]
    BY <1>8 DEF RepartitionSucceeds
  <2>3. QED
    BY <1>1, <1>2, <2>1, <2>2 DEF ConsumersTyped, consumers
<1>9. CASE CopyConsumer(t)
  <2>1. call' \in [Threads -> Calls] /\ disturbed' \in SUBSET Edges
    BY <1>1, <1>9, CallCopies DEF OwnCall, ConsumersTyped
  <2>2. UNCHANGED <<consumers, acknowledged, overlapped>>
    BY <1>9 DEF CopyConsumer
  <2>3. QED
    BY <1>1, <2>1, <2>2 DEF ConsumersTyped, consumers
<1>10. QED
  BY <1>3, <1>4, <1>5, <1>6, <1>7, <1>8, <1>9 DEF CallStep

\* The steps of calls change nothing of the executor.
LEMMA TypeOKCall ==
  ASSUME Edges # {}, TypeOK, NEW t \in Threads,
         repartition(t) \/ queryEdgeStats(t) \/ CallStep(t)
  PROVE  TypeOK'
<1>1. UNCHANGED <<executorVars, node, reporting>>
  BY DEF repartition, queryEdgeStats, CallStep, Connected, RepartitionFails, Repartition,
         UnsubscribeNext, ClearHandles, SubscribeNext, RepartitionSucceeds, QueryStats,
         CopyConsumer, QueryReturns, nodeVars
<1>2. budget' \in [Choices -> Nat]
  <2>1. CallStep(t) => UNCHANGED budget
    BY DEF CallStep, Connected, RepartitionFails, Repartition, UnsubscribeNext, ClearHandles,
           SubscribeNext, RepartitionSucceeds, QueryStats, CopyConsumer, QueryReturns
  <2>2. repartition(t) => Spend("repartition")
    BY DEF repartition
  <2>3. queryEdgeStats(t) => Spend("query")
    BY DEF queryEdgeStats
  <2>4. \A c \in Choices : Spend(c) => budget' \in [Choices -> Nat]
    BY DEF Spend, TypeOK
  <2>5. QED
    BY <2>1, <2>2, <2>3, <2>4 DEF Choices, TypeOK
<1>3. CASE CallStep(t)
  BY <1>1, <1>2, <1>3, CallStepTyped DEF TypeOK, ConsumersTyped, executorVars
<1>4. CASE repartition(t) \/ queryEdgeStats(t)
  <2>1. UNCHANGED nodeVars
    BY <1>4 DEF repartition, queryEdgeStats
  <2>2. call' \in [Threads -> Calls]
    BY <1>4, CallBegins DEF TypeOK, OwnCall
  <2>3. QED
    BY <1>1, <1>2, <2>1, <2>2 DEF TypeOK, nodeVars, consumers, history, executorVars
<1>5. QED
  BY <1>3, <1>4

\* Every variable keeps its type, for requests with bounds in any order: the
\* loop of a repartition (node-instance-service.cpp) subscribes to numbers of
\* a uint32_t only, although its subtraction may wrap around.
THEOREM TypeCorrect ==
  ASSUME Edges # {}
  PROVE  Spec => []TypeOK
<1>1. Init => TypeOK
  <2> SUFFICES ASSUME Init PROVE TypeOK
    OBVIOUS
  <2>1. executor \in ExecutorStates /\ node \in NodeStates
    BY DEF Init, ExecutorStates, NodeStates
  <2>2. call \in [Threads -> Calls] /\ acknowledged \in [Edges -> Bounds]
    BY NoCallTyped DEF Init
  <2>3. /\ subscribed \in [Edges -> SUBSET Subscription]
        /\ m_subscriptionHandles \in [Edges -> SUBSET Nat]
        /\ disturbed \in SUBSET Edges /\ overlapped \in SUBSET Edges
        /\ handleCount \in Nat /\ delivered \in Nat
    BY DEF Init
  <2>4. budget \in [Choices -> Nat]
    BY ControlPlaneAssumption DEF Init
  <2>5. /\ m_nodeInstanceService \in BOOLEAN /\ server \in BOOLEAN
        /\ service \in BOOLEAN /\ handling \in BOOLEAN /\ reporting \in BOOLEAN
    BY DEF Init
  <2>6. QED
    BY <2>1, <2>2, <2>3, <2>4, <2>5 DEF TypeOK
<1>2. TypeOK /\ [Next]_vars => TypeOK'
  <2> SUFFICES ASSUME TypeOK, [Next]_vars PROVE TypeOK'
    OBVIOUS
  <2>1. CASE UNCHANGED vars
    BY <2>1 DEF TypeOK, vars, executorVars, nodeVars, consumers, history
  <2>2. CASE \/ runGrpcServer \/ runGrpcServerReturns \/ runGrpcClient
             \/ ServerShutdown \/ StartNode \/ LastReferenceDropped
             \/ ReportCongestionReturns \/ releaseExecutor \/ reportRefused
             \/ reportCongestion \/ ScalerDestructor
    <3>1. UNCHANGED <<call, consumers, history>>
      BY <2>2 DEF runGrpcServer, runGrpcServerReturns, runGrpcClient,
         ServerShutdown, StartNode, LastReferenceDropped,
         ReportCongestionReturns, releaseExecutor, reportRefused,
         reportCongestion, ScalerDestructor, nodeVars
    <3>2. QED
      BY <2>2, <3>1, TypeOKNoCall
  <2>3. QED
    BY <2>1, <2>2, TypeOKCrash, TypeOKCall DEF Next
<1>3. QED
  BY <1>1, <1>2, PTL DEF Spec

----------------------------------------------------------------------------
(* The inductive invariant. *)

Copies(t, e) == call[t].pc = "copying" /\ call[t].edge = e
Unsubscribes(t, e) == call[t].pc = "unsubscribing" /\ call[t].edge = e
Subscribes(t, e) == call[t].pc = "subscribing" /\ call[t].edge = e

\* Of subscriptions S and remembered handles H: each partition of P has a
\* subscription that is remembered, and there are no other ones.
Serves(S, H, P) == \A p \in P : \E s \in S : s.partition = p /\ s.id \in H
ServesOnly(S, H, P) == \A s \in S : s.partition \in P /\ s.id \in H

\* What the loop has covered.
FirstDone(c) == FirstPartitions(c.bounds, c.done)

\* A repartition has subscribed to nothing until its loop begins, and then to as
\* many partitions as it has counted.
ProperCall(c) ==
  /\ c.pc \in {"connecting", "handled"} /\ c.kind = "repartition" => c.done = 0
  /\ c.pc = "unsubscribing" => c.done = 0
  /\ c.pc = "subscribing" => c.done <= PartitionCount(c.bounds)
ProperCalls == \A t \in Threads : ProperCall(call[t])

\* Repartitions of one edge that overlap leave a mark.
AloneOn(e) ==
  \A t, u \in Threads :
    Repartitions(t, e) /\ Repartitions(u, e) /\ t # u =>
      e \in disturbed /\ e \in overlapped

\* A handle that is remembered has been given out.
IssuedOn(e) ==
  /\ \A h \in m_subscriptionHandles[e] : h <= handleCount
  /\ \A t \in Threads : Copies(t, e) => \A h \in call[t].toDrop : h <= handleCount

\* Undisturbed, the node serves all that it has come to, and the copies that a
\* query has made know none of the handles.
LowerOn(e) ==
  e \notin disturbed =>
    /\ \A t \in Threads : Subscribes(t, e) =>
         Serves(subscribed[e], m_subscriptionHandles[e], FirstDone(call[t]))
    /\ ~Busy(e) => Serves(subscribed[e], m_subscriptionHandles[e], Granted(acknowledged[e]))
    /\ (\A t \in Threads : ~Unsubscribes(t, e)) =>
         \A t \in Threads : Copies(t, e) => call[t].toDrop \cap m_subscriptionHandles[e] = {}

\* Without an overlap, it serves nothing else.
UpperOn(e) ==
  e \notin overlapped =>
    /\ \A t \in Threads : Unsubscribes(t, e) =>
         \A s \in subscribed[e] : s.id \in call[t].toDrop
    /\ \A t \in Threads : Subscribes(t, e) =>
         ServesOnly(subscribed[e], m_subscriptionHandles[e], FirstDone(call[t]))
    /\ ~Busy(e) => ServesOnly(subscribed[e], m_subscriptionHandles[e], Granted(acknowledged[e]))

EdgeInv(e) == AloneOn(e) /\ IssuedOn(e) /\ LowerOn(e) /\ UpperOn(e)

NodeTyped == call \in [Threads -> Calls] /\ ConsumersTyped

RangeInv == NodeTyped /\ ProperCalls /\ \A e \in Edges : EdgeInv(e)

\* What the invariant says of the last response of each edge.
LEMMA RangeInvImplies == RangeInv => BoundsAreCurrent
<1> SUFFICES ASSUME RangeInv, NEW e \in Edges, ~Busy(e),
                    acknowledged[e].lower <= acknowledged[e].upper
             PROVE  /\ e \notin disturbed => RangeOf(acknowledged[e]) \subseteq Partitions(e)
                    /\ e \notin overlapped => Partitions(e) \subseteq RangeOf(acknowledged[e])
  BY DEF BoundsAreCurrent
<1>1. Granted(acknowledged[e]) = RangeOf(acknowledged[e])
  BY RangeOfOrdered DEF RangeInv, NodeTyped, ConsumersTyped
<1>2. LowerOn(e) /\ UpperOn(e)
  BY DEF RangeInv, EdgeInv
<1>3. QED
  BY <1>1, <1>2 DEF LowerOn, UpperOn, Serves, ServesOnly, Partitions

\* The executor and the node start without calls and subscriptions.
LEMMA RangeInvInit ==
  ASSUME Edges # {} PROVE Init => RangeInv
<1> SUFFICES ASSUME Init PROVE RangeInv
  OBVIOUS
<1>1. NodeTyped
  BY NoCallTyped DEF Init, NodeTyped, ConsumersTyped
<1>2. \A t \in Threads : call[t].pc = "idle"
  BY DEF Init, NoCall
<1>3. Granted(NoBounds) = {}
  <2>1. RangeOf(NoBounds) = {} /\ NoBounds.lower <= NoBounds.upper
    BY DEF RangeOf, NoBounds
  <2>2. QED
    BY <2>1, NoCallTyped, RangeOfOrdered
<1>4. ASSUME NEW e \in Edges PROVE EdgeInv(e)
  <2>1. subscribed[e] = {} /\ m_subscriptionHandles[e] = {} /\ acknowledged[e] = NoBounds
    BY DEF Init
  <2>2. AloneOn(e) /\ IssuedOn(e)
    BY <1>2, <2>1 DEF AloneOn, IssuedOn, Repartitions, Copies
  <2>3. LowerOn(e)
    BY <1>2, <1>3, <2>1 DEF LowerOn, Serves, Subscribes, Copies
  <2>4. UpperOn(e)
    BY <1>2, <2>1 DEF UpperOn, ServesOnly, Unsubscribes, Subscribes
  <2>5. QED
    BY <2>2, <2>3, <2>4 DEF EdgeInv
<1>5. QED
  BY <1>1, <1>2, <1>4 DEF RangeInv, ProperCalls, ProperCall

\* An edge that a step leaves alone: no repartition of it begins, ends or goes
\* on, and a query copies nothing of it.
LEMMA EdgeInvFrame ==
  ASSUME NEW e \in Edges, EdgeInv(e), NodeTyped, handleCount' \in Nat,
         handleCount <= handleCount',
         subscribed'[e] = subscribed[e],
         m_subscriptionHandles'[e] = m_subscriptionHandles[e],
         acknowledged'[e] = acknowledged[e],
         e \in disturbed => e \in disturbed',
         e \in overlapped => e \in overlapped',
         \A u \in Threads : Repartitions(u, e) \/ Repartitions(u, e)' => call'[u] = call[u],
         \A u \in Threads : Copies(u, e)' => call'[u] = call[u] \/ call'[u].toDrop = {}
  PROVE  EdgeInv(e)'
<1>1. \A u \in Threads : (Repartitions(u, e)' <=> Repartitions(u, e))
  BY DEF Repartitions
<1>2. \A u \in Threads : /\ Unsubscribes(u, e)' <=> Unsubscribes(u, e)
                         /\ Subscribes(u, e)' <=> Subscribes(u, e)
                         /\ Unsubscribes(u, e) \/ Subscribes(u, e) => call'[u] = call[u]
  BY DEF Repartitions, Unsubscribes, Subscribes
<1>3. Busy(e)' <=> Busy(e)
  BY <1>1 DEF Busy
<1>4. AloneOn(e)'
  BY <1>1 DEF EdgeInv, AloneOn
<1>5. IssuedOn(e)'
  <2>1. \A h \in m_subscriptionHandles'[e] : h <= handleCount'
    <3> TAKE h \in m_subscriptionHandles'[e]
    <3>1. h \in Nat /\ h <= handleCount /\ handleCount \in Nat
      BY DEF EdgeInv, IssuedOn, NodeTyped, ConsumersTyped
    <3>2. QED
      BY <3>1
  <2>2. ASSUME NEW u \in Threads, Copies(u, e)', NEW h \in call'[u].toDrop
        PROVE  h <= handleCount'
    <3>1. call'[u] = call[u]
      BY <2>2
    <3>2. Copies(u, e) /\ h \in call[u].toDrop
      BY <2>2, <3>1 DEF Copies
    <3>3. h \in Nat /\ h <= handleCount /\ handleCount \in Nat
      BY <3>2, CallFields DEF EdgeInv, IssuedOn, NodeTyped, ConsumersTyped
    <3>4. QED
      BY <3>3
  <2>3. QED
    BY <2>1, <2>2 DEF IssuedOn
<1>6. LowerOn(e)'
  <2>1. LowerOn(e)
    BY DEF EdgeInv
  <2>2. ASSUME e \notin disturbed', \A u \in Threads : ~Unsubscribes(u, e)',
               NEW u \in Threads, Copies(u, e)'
        PROVE  call'[u].toDrop \cap m_subscriptionHandles'[e] = {}
    BY <1>2, <2>1, <2>2 DEF LowerOn, Copies
  <2>3. QED
    BY <1>2, <1>3, <2>1, <2>2 DEF LowerOn
<1>7. UpperOn(e)'
  <2>1. UpperOn(e)
    BY DEF EdgeInv
  <2>2. QED
    BY <1>2, <1>3, <2>1 DEF UpperOn
<1>8. QED
  BY <1>4, <1>5, <1>6, <1>7 DEF EdgeInv

\* What the lemmas below use of the invariant.
LEMMA RangeInvParts ==
  ASSUME RangeInv
  PROVE  /\ NodeTyped /\ ConsumersTyped /\ call \in [Threads -> Calls]
         /\ m_subscriptionHandles \in [Edges -> SUBSET Nat]
         /\ handleCount \in Nat
         /\ \A t \in Threads : ProperCall(call[t])
         /\ \A e \in Edges : EdgeInv(e)
BY DEF RangeInv, NodeTyped, ConsumersTyped, ProperCalls

\* One handle is unsubscribed.
LEMMA RangeInvUnsubscribe ==
  ASSUME Edges # {}, TypeOK, RangeInv, NEW t \in Threads, UnsubscribeNext(t)
  PROVE  RangeInv'
<1> USE RangeInvParts
<1>0. PICK e \in Edges : call[t].edge = e
  BY CallFields
<1>1. PICK h \in call[t].toDrop :
        /\ OwnCall(t)
        /\ call'[t] = [call[t] EXCEPT !.toDrop = @ \ {h}]
        /\ \E read \in {h} \cup (IF call[t].pc = "unsubscribing" /\ Racing(t)
                                 THEN m_subscriptionHandles[e] ELSE {}) :
             subscribed' = [subscribed EXCEPT ![e] = {s \in @ : s.id # read}]
  BY <1>0, CallUnsubscribes
<1>2. PICK read \in {h} \cup (IF call[t].pc = "unsubscribing" /\ Racing(t)
                            THEN m_subscriptionHandles[e] ELSE {}) :
        subscribed' = [subscribed EXCEPT ![e] = {s \in @ : s.id # read}]
  BY <1>1
<1>3. /\ call[t] \in Calls /\ e \in Edges /\ call[t].pc \in {"unsubscribing", "copying"}
      /\ UNCHANGED <<m_subscriptionHandles, handleCount, history>>
  BY <1>0, CallFields DEF UnsubscribeNext
<1>4. /\ call'[t].pc = call[t].pc /\ call'[t].edge = e /\ call'[t].kind = call[t].kind
      /\ call'[t].done = call[t].done /\ call'[t].bounds = call[t].bounds
      /\ call'[t].toDrop = call[t].toDrop \ {h}
  BY <1>0, <1>1, <1>3 DEF Calls
<1>5. /\ \A u \in Threads : u # t => call'[u] = call[u]
      /\ call' \in [Threads -> Calls]
  BY <1>1 DEF OwnCall
<1>6. /\ subscribed'[e] = {s \in subscribed[e] : s.id # read}
      /\ \A d \in Edges : d # e => subscribed'[d] = subscribed[d]
  BY <1>2, <1>3 DEF ConsumersTyped
<1>7. NodeTyped'
  BY CallStepTyped DEF CallStep, NodeTyped
<1>8. ProperCalls'
  BY <1>4, <1>5 DEF ProperCalls, ProperCall
<1>9. ASSUME NEW d \in Edges, d # e PROVE EdgeInv(d)'
  <2>1. UNCHANGED <<handleCount, disturbed, overlapped, acknowledged>>
    BY <1>3 DEF history
  <2>2. \A u \in Threads : Repartitions(u, d) \/ Repartitions(u, d)' \/ Copies(u, d)' =>
          call'[u] = call[u]
    BY <1>0, <1>4, <1>5, <1>9 DEF Repartitions, Copies
  <2>3. QED
    BY <1>3, <1>6, <1>9, <2>1, <2>2, EdgeInvFrame
<1>10. /\ \A u \in Threads : /\ Repartitions(u, e)' <=> Repartitions(u, e)
                             /\ Copies(u, e)' <=> Copies(u, e)
                             /\ Unsubscribes(u, e)' <=> Unsubscribes(u, e)
                             /\ Subscribes(u, e)' <=> Subscribes(u, e)
                             /\ Subscribes(u, e) => call'[u] = call[u]
       /\ Busy(e)' <=> Busy(e)
       /\ e \in disturbed' <=> e \in disturbed
       /\ e \in overlapped' <=> e \in overlapped
       /\ acknowledged'[e] = acknowledged[e]
  BY <1>0, <1>3, <1>4, <1>5 DEF Repartitions, Copies, Unsubscribes, Subscribes, Busy, history
<1>11. AloneOn(e)'
  BY <1>3, <1>10 DEF EdgeInv, AloneOn
<1>12. IssuedOn(e)'
  BY <1>3, <1>4, <1>5, <1>10 DEF EdgeInv, IssuedOn
<1>13. AloneOn(e) /\ LowerOn(e) /\ UpperOn(e)
  BY <1>3 DEF EdgeInv
<1>14. CASE call[t].pc = "unsubscribing" /\ Racing(t)
  <2>1. e \in disturbed /\ e \in overlapped
    BY <1>0, <1>13, <1>14 DEF Racing, Repartitions, AloneOn
  <2>2. LowerOn(e)' /\ UpperOn(e)'
    BY <1>10, <2>1 DEF LowerOn, UpperOn
  <2>3. QED
    BY <1>7, <1>8, <1>9, <1>11, <1>12, <2>2 DEF EdgeInv, RangeInv
<1>15. CASE ~(call[t].pc = "unsubscribing" /\ Racing(t))
  <2>1. subscribed'[e] = {s \in subscribed[e] : s.id # h}
    BY <1>2, <1>6, <1>15
  <2>2. LowerOn(e)'
    <3> SUFFICES ASSUME e \notin disturbed PROVE LowerOn(e)'
      BY <1>10 DEF LowerOn
    <3>1. CASE \E u \in Threads : Unsubscribes(u, e)
      <4>1. \A u \in Threads : ~Subscribes(u, e)
        BY <1>13, <3>1 DEF AloneOn, Repartitions, Unsubscribes, Subscribes
      <4>2. Busy(e)
        BY <3>1 DEF Busy, Repartitions, Unsubscribes
      <4>3. QED
        BY <1>10, <3>1, <4>1, <4>2 DEF LowerOn
    <3>2. CASE \A u \in Threads : ~Unsubscribes(u, e)
      <4>1. Copies(t, e)
        BY <1>0, <1>3, <3>2 DEF Copies, Unsubscribes
      <4>2. h \notin m_subscriptionHandles[e]
        BY <1>13, <3>2, <4>1 DEF LowerOn
      <4>3. \A P : Serves(subscribed[e], m_subscriptionHandles[e], P) =>
                   Serves(subscribed'[e], m_subscriptionHandles'[e], P)
        BY <1>3, <2>1, <4>2 DEF Serves
      <4>4. \A u \in Threads : Copies(u, e) =>
              call'[u].toDrop \cap m_subscriptionHandles'[e] = {}
        BY <1>3, <1>4, <1>5, <1>13, <3>2 DEF LowerOn
      <4>5. QED
        BY <1>10, <1>13, <4>3, <4>4 DEF LowerOn
    <3>3. QED
      BY <3>1, <3>2
  <2>3. UpperOn(e)'
    <3> SUFFICES ASSUME e \notin overlapped PROVE UpperOn(e)'
      BY <1>10 DEF UpperOn
    <3>1. \A P : ServesOnly(subscribed[e], m_subscriptionHandles[e], P) =>
                 ServesOnly(subscribed'[e], m_subscriptionHandles'[e], P)
      BY <1>3, <2>1 DEF ServesOnly
    <3>2. ASSUME NEW u \in Threads, Unsubscribes(u, e), NEW s \in subscribed'[e]
          PROVE  s.id \in call'[u].toDrop
      <4>1. s \in subscribed[e] /\ s.id # h /\ s.id \in call[u].toDrop
        BY <1>13, <2>1, <3>2 DEF UpperOn
      <4>2. QED
        BY <1>4, <1>5, <4>1
    <3>3. QED
      BY <1>10, <1>13, <3>1, <3>2 DEF UpperOn
  <2>4. QED
    BY <1>7, <1>8, <1>9, <1>11, <1>12, <2>2, <2>3 DEF EdgeInv, RangeInv
<1>16. QED
  BY <1>14, <1>15

\* The vector is cleared, and the loop over the partitions begins.
LEMMA RangeInvClear ==
  ASSUME Edges # {}, TypeOK, RangeInv, NEW t \in Threads, ClearHandles(t)
  PROVE  RangeInv'
<1> USE RangeInvParts
<1>0. PICK e \in Edges : call[t].edge = e
  BY CallFields
<1>1. /\ OwnCall(t)
      /\ call'[t] = [call[t] EXCEPT !.pc = "subscribing"]
  BY CallGoesOn
<1>2. /\ call[t] \in Calls /\ call[t].pc = "unsubscribing" /\ call[t].toDrop = {}
      /\ m_subscriptionHandles' = [m_subscriptionHandles EXCEPT ![e] = {}]
      /\ UNCHANGED <<subscribed, handleCount, disturbed, overlapped, acknowledged>>
  BY <1>0, CallFields DEF ClearHandles, history
<1>3. /\ call'[t].pc = "subscribing" /\ call'[t].edge = e
      /\ call'[t].done = 0 /\ call[t].done = 0 /\ call'[t].bounds = call[t].bounds
      /\ call[t].bounds \in Bounds
  BY <1>0, <1>1, <1>2, CallFields DEF Calls, ProperCall
<1>4. /\ \A u \in Threads : u # t => call'[u] = call[u]
      /\ call' \in [Threads -> Calls]
  BY <1>1 DEF OwnCall
<1>5. /\ m_subscriptionHandles'[e] = {}
      /\ \A d \in Edges : d # e => m_subscriptionHandles'[d] = m_subscriptionHandles[d]
  BY <1>2
<1>6. NodeTyped'
  BY CallStepTyped DEF CallStep, NodeTyped
<1>7. ProperCalls'
  <2>1. 0 <= PartitionCount(call[t].bounds)
    BY <1>3, PartitionsTyped, ControlPlaneAssumption
  <2>2. QED
    BY <1>3, <1>4, <2>1 DEF ProperCalls, ProperCall
<1>8. ASSUME NEW d \in Edges, d # e PROVE EdgeInv(d)'
  <2>1. \A u \in Threads : Repartitions(u, d) \/ Repartitions(u, d)' \/ Copies(u, d)' =>
          call'[u] = call[u]
    BY <1>0, <1>3, <1>4, <1>8 DEF Repartitions, Copies
  <2>2. QED
    BY <1>2, <1>5, <1>8, <2>1, EdgeInvFrame
<1>9. \A u \in Threads : /\ Repartitions(u, e)' <=> Repartitions(u, e)
                         /\ Copies(u, e)' => Copies(u, e) /\ call'[u] = call[u]
  BY <1>0, <1>2, <1>3, <1>4 DEF Repartitions, Copies
<1>10. AloneOn(e) /\ IssuedOn(e) /\ LowerOn(e) /\ UpperOn(e)
  BY DEF EdgeInv
<1>11. AloneOn(e)'
  BY <1>2, <1>9, <1>10 DEF AloneOn
<1>12. IssuedOn(e)'
  BY <1>2, <1>5, <1>9, <1>10 DEF IssuedOn
<1>13. Repartitions(t, e) /\ Repartitions(t, e)' /\ Busy(e)'
  BY <1>0, <1>2, <1>3 DEF Repartitions, Busy
<1>14. FirstDone(call'[t]) = {}
  BY <1>3 DEF FirstDone, FirstPartitions
<1>15. LowerOn(e)'
  <2> SUFFICES ASSUME e \notin disturbed PROVE LowerOn(e)'
    BY <1>2 DEF LowerOn
  <2>1. \A u \in Threads : Subscribes(u, e)' => u = t
    BY <1>4, <1>10, <1>13 DEF AloneOn, Subscribes, Repartitions
  <2>2. QED
    BY <1>5, <1>13, <1>14, <2>1 DEF LowerOn, Serves
<1>16. UpperOn(e)'
  <2> SUFFICES ASSUME e \notin overlapped PROVE UpperOn(e)'
    BY <1>2 DEF UpperOn
  <2>1. \A u \in Threads : Subscribes(u, e)' \/ Unsubscribes(u, e)' => u = t
    BY <1>4, <1>10, <1>13 DEF AloneOn, Subscribes, Unsubscribes, Repartitions
  <2>2. ~Unsubscribes(t, e)'
    BY <1>3 DEF Unsubscribes
  <2>3. subscribed'[e] = {}
    <3>1. Unsubscribes(t, e)
      BY <1>0, <1>2 DEF Unsubscribes
    <3>2. QED
      BY <1>2, <1>10, <3>1 DEF UpperOn
  <2>4. QED
    BY <1>13, <2>1, <2>2, <2>3 DEF UpperOn, ServesOnly
<1>17. QED
  BY <1>6, <1>7, <1>8, <1>11, <1>12, <1>15, <1>16 DEF EdgeInv, RangeInv

\* One partition is subscribed to.
LEMMA RangeInvSubscribe ==
  ASSUME Edges # {}, TypeOK, RangeInv, NEW t \in Threads, SubscribeNext(t)
  PROVE  RangeInv'
<1> USE RangeInvParts
<1>0. PICK e \in Edges, h \in Nat, p \in 0..(Modulus - 1) :
        /\ call[t].edge = e /\ h = handleCount + 1
        /\ p = PartitionAt(call[t].bounds, call[t].done)
  BY CallFields, PartitionsTyped, ControlPlaneAssumption
<1> DEFINE new == [id |-> h, partition |-> p]
<1>1. /\ OwnCall(t) /\ call[t].done < PartitionCount(call[t].bounds)
      /\ call'[t] = [call[t] EXCEPT !.done = @ + 1]
  BY CallSubscribes
<1>2. /\ call[t] \in Calls /\ call[t].pc = "subscribing"
      /\ subscribed' = [subscribed EXCEPT ![e] = @ \cup {new}]
      /\ handleCount' = h
      /\ \/ m_subscriptionHandles' = [m_subscriptionHandles EXCEPT ![e] = @ \cup {h}]
         \/ Racing(t) /\ UNCHANGED m_subscriptionHandles
      /\ UNCHANGED <<disturbed, overlapped, acknowledged>>
  BY <1>0, CallFields DEF SubscribeNext, history
<1> HIDE DEF new
<1>3. /\ call'[t].pc = "subscribing" /\ call'[t].edge = e
      /\ call'[t].done = call[t].done + 1 /\ call'[t].bounds = call[t].bounds
      /\ call[t].bounds \in Bounds /\ call[t].done \in Nat
  BY <1>0, <1>1, <1>2, CallFields DEF Calls
<1>4. /\ \A u \in Threads : u # t => call'[u] = call[u]
      /\ call' \in [Threads -> Calls]
  BY <1>1 DEF OwnCall
<1>5. /\ subscribed'[e] = subscribed[e] \cup {new}
      /\ \/ m_subscriptionHandles'[e] = m_subscriptionHandles[e] \cup {h}
         \/ Racing(t) /\ m_subscriptionHandles'[e] = m_subscriptionHandles[e]
      /\ \A d \in Edges : d # e => /\ subscribed'[d] = subscribed[d]
                                   /\ m_subscriptionHandles'[d] = m_subscriptionHandles[d]
      /\ new.id = h /\ new.partition = p
  <2>1. new.id = h /\ new.partition = p
    BY DEF new
  <2>2. /\ subscribed'[e] = subscribed[e] \cup {new}
        /\ \A d \in Edges : d # e => subscribed'[d] = subscribed[d]
    BY <1>2 DEF ConsumersTyped
  <2>3. /\ \/ m_subscriptionHandles'[e] = m_subscriptionHandles[e] \cup {h}
           \/ Racing(t) /\ m_subscriptionHandles'[e] = m_subscriptionHandles[e]
        /\ \A d \in Edges : d # e => m_subscriptionHandles'[d] = m_subscriptionHandles[d]
    <3>1. CASE m_subscriptionHandles' = [m_subscriptionHandles EXCEPT ![e] = @ \cup {h}]
      BY <3>1
    <3>2. CASE Racing(t) /\ UNCHANGED m_subscriptionHandles
      BY <3>2
    <3>3. QED
      BY <1>2, <3>1, <3>2
  <2>4. QED
    BY <2>1, <2>2, <2>3
<1>6. NodeTyped'
  BY CallStepTyped DEF CallStep, NodeTyped
<1>7. ProperCalls'
  <2>1. call[t].done + 1 <= PartitionCount(call[t].bounds)
    <3>1. PartitionCount(call[t].bounds) \in Int
      BY <1>3, PartitionsTyped, ControlPlaneAssumption
    <3>2. QED
      BY <1>1, <1>3, <3>1
  <2>2. QED
    BY <1>3, <1>4, <2>1 DEF ProperCalls, ProperCall
<1>8. handleCount <= handleCount' /\ handleCount' \in Nat
  BY <1>0, <1>2
<1>9. ASSUME NEW d \in Edges, d # e PROVE EdgeInv(d)'
  <2>1. \A u \in Threads : Repartitions(u, d) \/ Repartitions(u, d)' \/ Copies(u, d)' =>
          call'[u] = call[u]
    BY <1>0, <1>3, <1>4, <1>9 DEF Repartitions, Copies
  <2>2. QED
    BY <1>2, <1>5, <1>8, <1>9, <2>1, EdgeInvFrame
<1>10. \A u \in Threads : /\ Repartitions(u, e)' <=> Repartitions(u, e)
                          /\ Unsubscribes(u, e)' <=> Unsubscribes(u, e)
                          /\ Copies(u, e)' => Copies(u, e) /\ call'[u] = call[u]
  BY <1>0, <1>2, <1>3, <1>4 DEF Repartitions, Copies, Unsubscribes
<1>11. AloneOn(e) /\ IssuedOn(e) /\ LowerOn(e) /\ UpperOn(e)
  BY DEF EdgeInv
<1>12. AloneOn(e)'
  BY <1>2, <1>10, <1>11 DEF AloneOn
<1>13. IssuedOn(e)'
  <2>1. \A k \in m_subscriptionHandles'[e] : k <= handleCount'
    <3> TAKE k \in m_subscriptionHandles'[e]
    <3>1. k = h \/ k \in m_subscriptionHandles[e]
      BY <1>5
    <3>2. k = h \/ (k \in Nat /\ k <= handleCount)
      BY <1>11, <3>1 DEF IssuedOn
    <3>3. QED
      BY <1>0, <1>2, <3>2
  <2>2. ASSUME NEW u \in Threads, Copies(u, e)', NEW k \in call'[u].toDrop
        PROVE  k <= handleCount'
    <3>1. Copies(u, e) /\ k \in call[u].toDrop
      BY <1>10, <2>2
    <3>2. k \in Nat /\ k <= handleCount
      BY <1>11, <3>1, CallFields DEF IssuedOn
    <3>3. QED
      BY <1>8, <3>2
  <2>3. QED
    BY <2>1, <2>2 DEF IssuedOn
<1>14. Repartitions(t, e) /\ Repartitions(t, e)' /\ Busy(e)' /\ Subscribes(t, e)
  BY <1>0, <1>2, <1>3 DEF Repartitions, Busy, Subscribes
<1>15. CASE Racing(t)
  <2>1. e \in disturbed /\ e \in overlapped
    BY <1>0, <1>11, <1>14, <1>15 DEF Racing, AloneOn
  <2>2. LowerOn(e)' /\ UpperOn(e)'
    BY <1>2, <2>1 DEF LowerOn, UpperOn
  <2>3. QED
    BY <1>6, <1>7, <1>9, <1>12, <1>13, <2>2 DEF EdgeInv, RangeInv
<1>16. CASE ~Racing(t)
  <2>1. \A u \in Threads : Repartitions(u, e)' => u = t
    BY <1>0, <1>10, <1>16 DEF Racing
  <2>2. m_subscriptionHandles'[e] = m_subscriptionHandles[e] \cup {h}
    BY <1>5, <1>16
  <2>3. FirstDone(call'[t]) = FirstDone(call[t]) \cup {p}
    BY <1>0, <1>3, OneMorePartition DEF FirstDone
  <2>4. \A u \in Threads : (Subscribes(u, e)' => u = t) /\ ~Unsubscribes(u, e)'
    BY <1>3, <2>1 DEF Subscribes, Unsubscribes, Repartitions
  <2>5. LowerOn(e)'
    <3> SUFFICES ASSUME e \notin disturbed PROVE LowerOn(e)'
      BY <1>2 DEF LowerOn
    <3>1. Serves(subscribed[e], m_subscriptionHandles[e], FirstDone(call[t]))
      BY <1>11, <1>14 DEF LowerOn
    <3>2. Serves(subscribed'[e], m_subscriptionHandles'[e], FirstDone(call'[t]))
      BY <1>5, <2>2, <2>3, <3>1 DEF Serves
    <3>3. ASSUME NEW u \in Threads, Copies(u, e)'
          PROVE  call'[u].toDrop \cap m_subscriptionHandles'[e] = {}
      <4>1. Copies(u, e) /\ call'[u] = call[u]
        BY <1>10, <3>3
      <4>2. call[u].toDrop \cap m_subscriptionHandles[e] = {}
        BY <1>10, <1>11, <2>4, <4>1 DEF LowerOn
      <4>3. h \notin call[u].toDrop
        BY <1>0, <1>11, <4>1, CallFields DEF IssuedOn
      <4>4. QED
        BY <2>2, <4>1, <4>2, <4>3
    <3>4. QED
      BY <1>14, <2>4, <3>2, <3>3 DEF LowerOn
  <2>6. UpperOn(e)'
    <3> SUFFICES ASSUME e \notin overlapped PROVE UpperOn(e)'
      BY <1>2 DEF UpperOn
    <3>1. ServesOnly(subscribed[e], m_subscriptionHandles[e], FirstDone(call[t]))
      BY <1>11, <1>14 DEF UpperOn
    <3>2. ServesOnly(subscribed'[e], m_subscriptionHandles'[e], FirstDone(call'[t]))
      BY <1>5, <2>2, <2>3, <3>1 DEF ServesOnly
    <3>3. QED
      BY <1>14, <2>4, <3>2 DEF UpperOn
  <2>7. QED
    BY <1>6, <1>7, <1>9, <1>12, <1>13, <2>5, <2>6 DEF EdgeInv, RangeInv
<1>17. QED
  BY <1>15, <1>16

\* The success response: the loop is over, and it has covered the range.
LEMMA RangeInvSucceeds ==
  ASSUME Edges # {}, TypeOK, RangeInv, NEW t \in Threads, RepartitionSucceeds(t)
  PROVE  RangeInv'
<1> USE RangeInvParts
<1>0. PICK e \in Edges, b \in Bounds : call[t].edge = e /\ call[t].bounds = b
  BY CallFields
<1>1. OwnCall(t) /\ call'[t] = NoCall
  BY CallAnswered
<1>2. /\ call[t].pc = "subscribing" /\ call[t].done = PartitionCount(b)
      /\ acknowledged' = [acknowledged EXCEPT ![e] = b]
      /\ UNCHANGED <<consumers, disturbed, overlapped>>
  BY <1>0 DEF RepartitionSucceeds
<1>3. /\ call'[t].pc = "idle"
      /\ \A u \in Threads : u # t => call'[u] = call[u]
  BY <1>1 DEF OwnCall, NoCall
<1>4. /\ acknowledged'[e] = b
      /\ \A d \in Edges : d # e => acknowledged'[d] = acknowledged[d]
  BY <1>2 DEF ConsumersTyped
<1>5. /\ subscribed' = subscribed /\ m_subscriptionHandles' = m_subscriptionHandles
      /\ handleCount' = handleCount
  BY <1>2 DEF consumers
<1>6. NodeTyped'
  BY CallStepTyped DEF CallStep, NodeTyped
<1>7. ProperCalls'
  BY <1>3 DEF ProperCalls, ProperCall
<1>8. ASSUME NEW d \in Edges, d # e PROVE EdgeInv(d)'
  <2>1. \A u \in Threads : Repartitions(u, d) \/ Repartitions(u, d)' \/ Copies(u, d)' =>
          call'[u] = call[u]
    BY <1>0, <1>3, <1>8 DEF Repartitions, Copies
  <2>2. QED
    BY <1>2, <1>4, <1>5, <1>8, <2>1, EdgeInvFrame
<1>9. \A u \in Threads :
        /\ Repartitions(u, e)' => Repartitions(u, e) /\ u # t /\ call'[u] = call[u]
        /\ Subscribes(u, e)' => Subscribes(u, e) /\ u # t
        /\ Unsubscribes(u, e)' => Unsubscribes(u, e) /\ u # t
        /\ Unsubscribes(u, e) => Unsubscribes(u, e)'
        /\ Copies(u, e)' => Copies(u, e) /\ call'[u] = call[u]
  BY <1>2, <1>3 DEF Repartitions, Subscribes, Unsubscribes, Copies
<1>10. AloneOn(e) /\ IssuedOn(e) /\ LowerOn(e) /\ UpperOn(e)
  BY DEF EdgeInv
<1>11. AloneOn(e)' /\ IssuedOn(e)'
  BY <1>2, <1>5, <1>9, <1>10 DEF AloneOn, IssuedOn
<1>12. Repartitions(t, e) /\ Subscribes(t, e)
  BY <1>0, <1>2 DEF Repartitions, Subscribes
<1>13. FirstDone(call[t]) = Granted(b)
  BY <1>0, <1>2 DEF FirstDone, Granted
<1>14. \A u \in Threads : Subscribes(u, e) => Repartitions(u, e)
  BY DEF Subscribes, Repartitions
<1>15. \A u \in Threads : Unsubscribes(u, e) => Repartitions(u, e)
  BY DEF Unsubscribes, Repartitions
<1>16. LowerOn(e)'
  <2> SUFFICES ASSUME e \notin disturbed PROVE LowerOn(e)'
    BY <1>2 DEF LowerOn
  <2>1. \A u \in Threads : ~Subscribes(u, e)' /\ ~Unsubscribes(u, e)
    BY <1>2, <1>9, <1>10, <1>12, <1>14, <1>15 DEF AloneOn, Subscribes, Unsubscribes
  <2>2. Serves(subscribed'[e], m_subscriptionHandles'[e], Granted(acknowledged'[e]))
    BY <1>4, <1>5, <1>10, <1>12, <1>13 DEF LowerOn
  <2>3. \A u \in Threads : Copies(u, e)' =>
          call'[u].toDrop \cap m_subscriptionHandles'[e] = {}
    BY <1>5, <1>9, <1>10, <2>1 DEF LowerOn
  <2>4. QED
    BY <2>1, <2>2, <2>3 DEF LowerOn
<1>17. UpperOn(e)'
  <2> SUFFICES ASSUME e \notin overlapped PROVE UpperOn(e)'
    BY <1>2 DEF UpperOn
  <2>1. \A u \in Threads : ~Subscribes(u, e)' /\ ~Unsubscribes(u, e)'
    BY <1>2, <1>9, <1>10, <1>12, <1>14, <1>15 DEF AloneOn
  <2>2. ServesOnly(subscribed'[e], m_subscriptionHandles'[e], Granted(acknowledged'[e]))
    BY <1>4, <1>5, <1>10, <1>12, <1>13 DEF UpperOn
  <2>3. QED
    BY <2>1, <2>2 DEF UpperOn
<1>18. QED
  BY <1>6, <1>7, <1>8, <1>11, <1>16, <1>17 DEF EdgeInv, RangeInv

\* A repartition begins: alone, and then the edge is undisturbed again, or
\* beside another one of the edge.
LEMMA RangeInvRepartition ==
  ASSUME Edges # {}, TypeOK, RangeInv, NEW t \in Threads, Repartition(t)
  PROVE  RangeInv'
<1> USE RangeInvParts
<1>0. PICK e \in Edges : call[t].edge = e
  BY CallFields
<1>1. /\ OwnCall(t)
      /\ call'[t] = [call[t] EXCEPT !.pc = "unsubscribing",
                                    !.toDrop = m_subscriptionHandles[e]]
  BY <1>0, CallGoesOn
<1>2. /\ call[t] \in Calls /\ call[t].pc = "handled" /\ call[t].kind = "repartition"
      /\ UNCHANGED <<consumers, acknowledged>>
      /\ IF Busy(e)
         THEN disturbed' = disturbed \cup {e} /\ overlapped' = overlapped \cup {e}
         ELSE disturbed' = disturbed \ {e} /\ UNCHANGED overlapped
  BY <1>0, CallFields DEF Repartition
<1>3. /\ call'[t].pc = "unsubscribing" /\ call'[t].edge = e /\ call'[t].done = 0
      /\ call'[t].toDrop = m_subscriptionHandles[e]
  BY <1>0, <1>1, <1>2 DEF Calls, ProperCall
<1>4. \A u \in Threads : u # t => call'[u] = call[u]
  BY <1>1 DEF OwnCall
<1>5. /\ subscribed' = subscribed /\ m_subscriptionHandles' = m_subscriptionHandles
      /\ handleCount' = handleCount
  BY <1>2 DEF consumers
<1>6. NodeTyped'
  BY CallStepTyped DEF CallStep, NodeTyped
<1>7. ProperCalls'
  BY <1>3, <1>4 DEF ProperCalls, ProperCall
<1>8. ASSUME NEW d \in Edges, d # e PROVE EdgeInv(d)'
  <2>1. \A u \in Threads : Repartitions(u, d) \/ Repartitions(u, d)' \/ Copies(u, d)' =>
          call'[u] = call[u]
    BY <1>0, <1>3, <1>4, <1>8 DEF Repartitions, Copies
  <2>2. /\ d \in disturbed => d \in disturbed'
        /\ d \in overlapped => d \in overlapped'
    BY <1>2, <1>8
  <2>3. QED
    BY <1>2, <1>5, <1>8, <2>1, <2>2, EdgeInvFrame
<1>9. AloneOn(e) /\ IssuedOn(e) /\ LowerOn(e) /\ UpperOn(e)
  BY DEF EdgeInv
<1>10. IssuedOn(e)'
  <2>1. \A u \in Threads : Copies(u, e)' => Copies(u, e) /\ call'[u] = call[u]
    BY <1>3, <1>4 DEF Copies
  <2>2. QED
    BY <1>5, <1>9, <2>1 DEF IssuedOn
<1>11. CASE Busy(e)
  <2>1. e \in disturbed' /\ e \in overlapped'
    BY <1>2, <1>11
  <2>2. AloneOn(e)' /\ LowerOn(e)' /\ UpperOn(e)'
    BY <2>1 DEF AloneOn, LowerOn, UpperOn
  <2>3. QED
    BY <1>6, <1>7, <1>8, <1>10, <2>2 DEF EdgeInv, RangeInv
<1>12. CASE ~Busy(e)
  <2>1. \A u \in Threads : Repartitions(u, e)' => u = t
    BY <1>4, <1>12 DEF Busy, Repartitions
  <2>2. Repartitions(t, e)' /\ Busy(e)' /\ Unsubscribes(t, e)'
    BY <1>3 DEF Repartitions, Busy, Unsubscribes
  <2>3. \A u \in Threads : ~Subscribes(u, e)' /\ (Unsubscribes(u, e)' => u = t)
    BY <1>3, <2>1 DEF Subscribes, Unsubscribes, Repartitions
  <2>4. AloneOn(e)'
    BY <2>1 DEF AloneOn
  <2>5. LowerOn(e)'
    BY <2>2, <2>3 DEF LowerOn
  <2>6. UpperOn(e)'
    <3> SUFFICES ASSUME e \notin overlapped PROVE UpperOn(e)'
      BY <1>2, <1>12 DEF UpperOn
    <3>1. ServesOnly(subscribed[e], m_subscriptionHandles[e], Granted(acknowledged[e]))
      BY <1>9, <1>12 DEF UpperOn
    <3>2. \A s \in subscribed'[e] : s.id \in call'[t].toDrop
      BY <1>3, <1>5, <3>1 DEF ServesOnly
    <3>3. QED
      BY <2>2, <2>3, <3>2 DEF UpperOn
  <2>7. QED
    BY <1>6, <1>7, <1>8, <1>10, <2>4, <2>5, <2>6 DEF EdgeInv, RangeInv
<1>13. QED
  BY <1>11, <1>12

\* A query copies a consumer, and that disturbs the edge.
LEMMA RangeInvCopy ==
  ASSUME Edges # {}, TypeOK, RangeInv, NEW t \in Threads, CopyConsumer(t)
  PROVE  RangeInv'
<1> USE RangeInvParts
<1>1. PICK e \in Edges :
        /\ OwnCall(t)
        /\ call'[t] = [call[t] EXCEPT !.edge = e, !.toDrop = m_subscriptionHandles[e],
                                      !.toVisit = @ \ {e}]
        /\ disturbed' = disturbed \cup {e}
  BY CallCopies
<1>2. /\ call[t] \in Calls /\ call[t].pc = "copying"
      /\ UNCHANGED <<consumers, acknowledged, overlapped>>
  BY CallFields DEF CopyConsumer
<1>3. /\ call'[t].pc = "copying" /\ call'[t].edge = e
      /\ call'[t].toDrop = m_subscriptionHandles[e]
  BY <1>1, <1>2 DEF Calls
<1>4. \A u \in Threads : u # t => call'[u] = call[u]
  BY <1>1 DEF OwnCall
<1>5. /\ subscribed' = subscribed /\ m_subscriptionHandles' = m_subscriptionHandles
      /\ handleCount' = handleCount
  BY <1>2 DEF consumers
<1>6. NodeTyped'
  BY CallStepTyped DEF CallStep, NodeTyped
<1>7. ProperCalls'
  BY <1>3, <1>4 DEF ProperCalls, ProperCall
<1>8. \A u \in Threads, d \in Edges :
        Repartitions(u, d) \/ Repartitions(u, d)' => call'[u] = call[u]
  BY <1>2, <1>3, <1>4 DEF Repartitions
<1>9. ASSUME NEW d \in Edges, d # e PROVE EdgeInv(d)'
  <2>1. \A u \in Threads : Copies(u, d)' => call'[u] = call[u]
    BY <1>3, <1>4, <1>9 DEF Copies
  <2>2. d \in disturbed => d \in disturbed'
    BY <1>1
  <2>3. QED
    BY <1>2, <1>5, <1>8, <1>9, <2>1, <2>2, EdgeInvFrame
<1>10. AloneOn(e) /\ IssuedOn(e) /\ UpperOn(e)
  BY DEF EdgeInv
<1>11. e \in disturbed' /\ e \in disturbed \cup {e}
  BY <1>1
<1>12. \A u \in Threads : /\ Repartitions(u, e)' <=> Repartitions(u, e)
                          /\ Unsubscribes(u, e)' => Unsubscribes(u, e) /\ call'[u] = call[u]
                          /\ Subscribes(u, e)' => Subscribes(u, e) /\ call'[u] = call[u]
  BY <1>2, <1>3, <1>4 DEF Repartitions, Unsubscribes, Subscribes
<1>13. AloneOn(e)'
  BY <1>2, <1>10, <1>11, <1>12 DEF AloneOn
<1>14. IssuedOn(e)'
  <2>1. \A u \in Threads : Copies(u, e)' =>
          \/ u = t
          \/ Copies(u, e) /\ call'[u] = call[u]
    BY <1>4 DEF Copies
  <2>2. QED
    BY <1>3, <1>5, <1>10, <2>1 DEF IssuedOn
<1>15. LowerOn(e)'
  BY <1>11 DEF LowerOn
<1>16. UpperOn(e)'
  <2>1. Busy(e)' <=> Busy(e)
    BY <1>12 DEF Busy
  <2>2. QED
    BY <1>2, <1>5, <1>10, <1>12, <2>1 DEF UpperOn
<1>17. QED
  BY <1>6, <1>7, <1>9, <1>13, <1>14, <1>15, <1>16 DEF EdgeInv, RangeInv

\* A step that changes no consumer, and one call at most: a thread that handles
\* no repartition.
LEMMA RangeInvCalls ==
  ASSUME RangeInv, UNCHANGED <<consumers, history>>, call' \in [Threads -> Calls],
         \A u \in Threads :
           \/ call'[u] = call[u]
           \/ /\ call[u].pc \notin {"unsubscribing", "subscribing"}
              /\ call'[u].pc \notin {"unsubscribing", "subscribing"}
              /\ call'[u].pc = "copying" => call'[u].toDrop = {}
              /\ ProperCall(call'[u])
  PROVE  RangeInv'
<1> USE RangeInvParts
<1>1. NodeTyped'
  BY DEF NodeTyped, ConsumersTyped, consumers, history
<1>2. ProperCalls'
  BY DEF ProperCalls
<1>3. ASSUME NEW e \in Edges PROVE EdgeInv(e)'
  <2>1. /\ subscribed' = subscribed /\ m_subscriptionHandles' = m_subscriptionHandles
        /\ handleCount' = handleCount /\ acknowledged' = acknowledged
        /\ disturbed' = disturbed /\ overlapped' = overlapped
    BY DEF consumers, history
  <2>2. \A u \in Threads : Repartitions(u, e) \/ Repartitions(u, e)' => call'[u] = call[u]
    BY DEF Repartitions
  <2>3. \A u \in Threads : Copies(u, e)' => call'[u] = call[u] \/ call'[u].toDrop = {}
    BY DEF Copies
  <2>4. QED
    BY <2>1, <2>2, <2>3, EdgeInvFrame
<1>4. QED
  BY <1>1, <1>2, <1>3 DEF RangeInv

\* The end of the node's process takes the consumers away, and no call goes on.
LEMMA RangeInvNodeGone ==
  ASSUME RangeInv, NodeGone, call' \in [Threads -> Calls],
         \A u \in Threads : call'[u].pc \in {"idle", "connecting"} /\ ProperCall(call'[u])
  PROVE  RangeInv'
<1> USE RangeInvParts
<1>1. /\ subscribed' = [e \in Edges |-> {}]
      /\ m_subscriptionHandles' = [e \in Edges |-> {}]
      /\ handleCount' = 0 /\ disturbed' = Edges /\ overlapped' = {}
      /\ acknowledged' = acknowledged
  BY DEF NodeGone
<1>2. NodeTyped'
  BY <1>1 DEF NodeTyped, ConsumersTyped
<1>3. ProperCalls'
  BY DEF ProperCalls
<1>4. ASSUME NEW e \in Edges PROVE EdgeInv(e)'
  <2>1. subscribed'[e] = {} /\ m_subscriptionHandles'[e] = {} /\ e \in disturbed'
    BY <1>1
  <2>2. \A u \in Threads : /\ ~Repartitions(u, e)' /\ ~Copies(u, e)'
                           /\ ~Unsubscribes(u, e)' /\ ~Subscribes(u, e)'
    BY DEF Repartitions, Copies, Unsubscribes, Subscribes
  <2>3. AloneOn(e)' /\ IssuedOn(e)' /\ LowerOn(e)' /\ UpperOn(e)'
    BY <2>1, <2>2 DEF AloneOn, IssuedOn, LowerOn, UpperOn, ServesOnly
  <2>4. QED
    BY <2>3 DEF EdgeInv
<1>5. QED
  BY <1>2, <1>3, <1>4 DEF RangeInv

----------------------------------------------------------------------------
\* Every step of the executor and the node keeps the invariant.
LEMMA RangeInvStep ==
  ASSUME Edges # {}
  PROVE  TypeOK /\ RangeInv /\ [Next]_vars => RangeInv'
<1> SUFFICES ASSUME TypeOK, RangeInv, [Next]_vars PROVE RangeInv'
  OBVIOUS
<1> USE RangeInvParts
<1>0. ProperCall(NoCall) /\ NoCall \in Calls /\ NoCall.pc = "idle"
  BY NoCallTyped DEF ProperCall, NoCall
<1>1. CASE runGrpcServer \/ runGrpcServerReturns \/ runGrpcClient \/ ServerShutdown
           \/ StartNode \/ LastReferenceDropped \/ ReportCongestionReturns
           \/ releaseExecutor \/ reportRefused \/ reportCongestion
           \/ ScalerDestructor \/ UNCHANGED vars
  <2>1. UNCHANGED <<call, consumers, history>>
    BY <1>1 DEF runGrpcServer, runGrpcServerReturns, runGrpcClient,
       ServerShutdown, StartNode, LastReferenceDropped, ReportCongestionReturns,
       releaseExecutor, reportRefused, reportCongestion, ScalerDestructor, nodeVars, vars
  <2>2. QED
    BY <2>1, RangeInvCalls
<1>2. CASE reportToDestroyedService \/ \E t \in Threads : queryWithoutStub(t)
  <2>1. Crash
    BY <1>2 DEF reportToDestroyedService, queryWithoutStub
  <2>2. /\ call' \in [Threads -> Calls]
        /\ \A u \in Threads : call'[u] = IF u \in Connecting THEN NoCall ELSE call[u]
    BY <2>1, CrashedCalls, CallsReset
  <2>3. \A u \in Threads : \/ call'[u] = call[u]
                           \/ call[u].pc = "connecting" /\ call'[u] = NoCall
    BY <2>2 DEF Connecting
  <2>4. UNCHANGED <<consumers, history>>
    BY <2>1 DEF Crash
  <2>5. QED
    BY <1>0, <2>2, <2>3, <2>4, RangeInvCalls
<1>3. ASSUME NEW t \in Threads, repartition(t) \/ queryEdgeStats(t) PROVE RangeInv'
  <2>1. UNCHANGED <<consumers, history>>
    BY <1>3 DEF repartition, queryEdgeStats, nodeVars
  <2>2. /\ OwnCall(t) /\ call[t].pc = "idle" /\ call'[t].pc = "connecting"
        /\ call'[t].kind = "repartition" => call'[t].done = 0
    BY <1>3, CallBegins
  <2>3. ProperCall(call'[t])
    BY <2>2 DEF ProperCall
  <2>4. QED
    BY <2>1, <2>2, <2>3, RangeInvCalls DEF OwnCall
<1>4. ASSUME NEW t \in Threads, Connected(t) PROVE RangeInv'
  <2>1. UNCHANGED <<consumers, history>>
    BY <1>4 DEF Connected, nodeVars
  <2>2. /\ OwnCall(t) /\ call[t].pc = "connecting" /\ call'[t].pc = "handled"
        /\ call'[t].kind = call[t].kind /\ call'[t].done = call[t].done
    BY <1>4, CallConnects
  <2>3. ProperCall(call'[t])
    BY <2>2 DEF ProperCall
  <2>4. QED
    BY <2>1, <2>2, <2>3, RangeInvCalls DEF OwnCall
<1>5. ASSUME NEW t \in Threads, RepartitionFails(t) \/ QueryReturns(t) PROVE RangeInv'
  <2>1. UNCHANGED <<consumers, history>>
    BY <1>5 DEF RepartitionFails, QueryReturns, nodeVars
  <2>2. OwnCall(t) /\ call'[t] = NoCall
    BY <1>5, CallAnswered
  <2>3. call[t].pc \in {"handled", "copying"}
    BY <1>5 DEF RepartitionFails, QueryReturns
  <2>4. QED
    BY <1>0, <2>1, <2>2, <2>3, RangeInvCalls DEF OwnCall
<1>6. ASSUME NEW t \in Threads, QueryStats(t) PROVE RangeInv'
  <2>1. UNCHANGED <<consumers, history>> /\ call[t].pc = "handled" /\ call[t] \in Calls
    BY <1>6, CallFields DEF QueryStats, nodeVars
  <2>2. /\ OwnCall(t)
        /\ call'[t] = [call[t] EXCEPT !.pc = "copying", !.toDrop = {}, !.toVisit = Upstream]
    BY <1>6, CallGoesOn
  <2>3. call'[t].pc = "copying" /\ call'[t].toDrop = {}
    BY <2>1, <2>2 DEF Calls
  <2>4. ProperCall(call'[t])
    BY <2>3 DEF ProperCall
  <2>5. QED
    BY <2>1, <2>2, <2>3, <2>4, RangeInvCalls DEF OwnCall
<1>7. ASSUME NEW t \in Threads, Repartition(t) \/ UnsubscribeNext(t) \/ ClearHandles(t)
                                \/ SubscribeNext(t) \/ RepartitionSucceeds(t)
                                \/ CopyConsumer(t)
      PROVE  RangeInv'
  BY <1>7, RangeInvRepartition, RangeInvUnsubscribe, RangeInvClear, RangeInvSubscribe,
     RangeInvSucceeds, RangeInvCopy
<1>8. CASE StopNode
  <2>1. /\ call' \in [Threads -> Calls]
        /\ \A u \in Threads : call'[u] = IF u \in Handled THEN NoCall ELSE call[u]
    BY <1>8, StoppedCalls, CallsReset
  <2>2. \A u \in Threads : \/ call'[u] = NoCall
                           \/ call'[u] = call[u] /\ call[u].pc \in {"idle", "connecting"}
    BY <2>1 DEF Handled, InHandler
  <2>3. QED
    BY <1>0, <1>8, <2>1, <2>2, RangeInvNodeGone DEF StopNode
<1>9. CASE ScalerShutdown
  <2>1. /\ NodeGone /\ call' = call
        /\ \A u \in Threads : call[u].pc \in {"idle", "connecting"}
    BY <1>9 DEF ScalerShutdown, InHandler
  <2>2. QED
    BY <2>1, RangeInvNodeGone
<1>10. QED
  BY <1>1, <1>2, <1>3, <1>4, <1>5, <1>6, <1>7, <1>8, <1>9 DEF Next, CallStep

\* For bounds in order, and while no repartition of the edge is under way
\* (node-instance-service.cpp, Repartition, with consumer.cpp, repartition and
\* the handle vector): the node serves all of the range of its last success
\* response unless a query's copy, an overlapping repartition or the end of the
\* process could cancel one since the last repartition began, and nothing else
\* unless two repartitions of the edge overlapped.  For every set of requests,
\* callers and numbers of calls, every width of the numbers, and whatever fails
\* or restarts.
THEOREM ResponseIsTrue ==
  ASSUME Edges # {}
  PROVE  Spec => []BoundsAreCurrent
<1>1. Spec => []TypeOK
  BY TypeCorrect
<1>2. QED
  BY <1>1, RangeInvImplies, RangeInvInit, RangeInvStep, PTL DEF Spec

============================================================================
