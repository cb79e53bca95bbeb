-------------------------- MODULE RingBufferProofs --------------------------
(***************************************************************************)
(* Theorems about RingBuffer for every number of threads, every capacity   *)
(* and every choice of thresholds.                                         *)
(***************************************************************************)
EXTENDS RingBuffer, SequenceTheorems, TLAPS

\* push_back never lets the buffer exceed its capacity.
LEMMA PushBackType ==
  ASSUME TypeOK, NEW item \in Nat, PushBack(item)
  PROVE  /\ m_queue' \in Seq(Nat)
         /\ Len(m_queue') <= Capacity
         /\ overwritten' \in SUBSET Nat
<1>1. CASE Len(m_queue) < Capacity
  <2>1. m_queue' = Append(m_queue, item) /\ UNCHANGED overwritten
    BY <1>1 DEF PushBack
  <2> QED
    BY <1>1, <2>1, AppendProperties, RingBufferAssumption DEF TypeOK
<1>2. CASE ~(Len(m_queue) < Capacity)
  <2>1. /\ m_queue' = Append(Tail(m_queue), item)
        /\ overwritten' = overwritten \cup {Head(m_queue)}
    BY <1>2 DEF PushBack
  <2>2. m_queue # <<>>
    BY <1>2, RingBufferAssumption
  <2>3. /\ Head(m_queue) \in Nat
        /\ Tail(m_queue) \in Seq(Nat)
        /\ Len(Tail(m_queue)) = Len(m_queue) - 1
    BY <2>2, HeadTailProperties DEF TypeOK
  <2>4. /\ Append(Tail(m_queue), item) \in Seq(Nat)
        /\ Len(Append(Tail(m_queue), item)) = Len(Tail(m_queue)) + 1
    BY <2>3, AppendProperties
  <2>5. Len(m_queue) \in Nat /\ Len(m_queue) <= Capacity
    BY LenProperties DEF TypeOK
  <2>6. Len(m_queue') <= Capacity
    BY <2>1, <2>3, <2>4, <2>5, RingBufferAssumption
  <2> QED
    BY <2>1, <2>3, <2>4, <2>6 DEF TypeOK
<1> QED
  BY <1>1, <1>2

\* Entering an item, by push or by pushData.
LEMMA EnterType ==
  ASSUME TypeOK, NEW t \in Threads, Enter(t)
  PROVE  TypeOK'
<1>1. /\ m_queue' \in Seq(Nat)
      /\ Len(m_queue') <= Capacity
      /\ overwritten' \in SUBSET Nat
  BY PushBackType DEF Enter, TypeOK
<1>2. entered' \in Nat /\ popped' \in Seq(Nat) /\ pc' \in [Threads -> PcValues]
  BY DEF Enter, AfterPush, TypeOK, PcValues
<1> QED
  BY <1>1, <1>2 DEF TypeOK

\* Every step preserves the type invariant.
LEMMA NextType == TypeOK /\ [Next]_vars => TypeOK'
<1> SUFFICES ASSUME TypeOK, [Next]_vars PROVE TypeOK'
  OBVIOUS
<1>1. CASE UNCHANGED vars
  BY <1>1 DEF TypeOK, vars
<1>2. ASSUME NEW t \in Threads, push(t) \/ pushData(t)
      PROVE  TypeOK'
  BY <1>2, EnterType DEF push, pushData
<1>3. ASSUME NEW t \in Threads, waitAndPopValue(t)
      PROVE  TypeOK'
  <2>1. /\ Head(m_queue) \in Nat
        /\ Tail(m_queue) \in Seq(Nat)
        /\ Len(Tail(m_queue)) = Len(m_queue) - 1
    BY <1>3, HeadTailProperties DEF TypeOK, waitAndPopValue, PopValue, AfterPop
  <2>2. m_queue' \in Seq(Nat) /\ Len(m_queue') <= Capacity
    BY <1>3, <2>1, RingBufferAssumption DEF TypeOK, waitAndPopValue, PopValue, AfterPop
  <2>3. popped' \in Seq(Nat)
    BY <1>3, <2>1, AppendProperties DEF TypeOK, waitAndPopValue, PopValue, AfterPop
  <2> QED
    BY <1>3, <2>2, <2>3 DEF TypeOK, waitAndPopValue, PopValue, AfterPop, PcValues
<1>4. ASSUME NEW t \in Threads,
             \/ Call(t) \/ pushDataWaits(t) \/ waitAndPopValueWaits(t)
             \/ notifyAll(t) \/ SpuriousWakeup(t)
      PROVE  TypeOK'
  BY <1>4 DEF TypeOK, Call, pushDataWaits, waitAndPopValueWaits, notifyAll,
              SpuriousWakeup, PcValues
<1> QED
  BY <1>1, <1>2, <1>3, <1>4 DEF Next, Step

\* The buffer keeps its type and never holds more items than its capacity,
\* whatever mixture of push, pushData and waitAndPopValue is running.
THEOREM TypeCorrect == Spec => []TypeOK
<1>1. Init => TypeOK
  BY RingBufferAssumption DEF Init, TypeOK, PcValues
<1> QED
  BY <1>1, NextType, PTL DEF Spec

----------------------------------------------------------------------------
(* No wake-up is lost.  Together with the type the property is inductive:  *)
(* a step that makes a waiting thread's condition true leaves its own      *)
(* thread before notify_all(), a thread starts to wait only while its      *)
(* condition is false, and notify_all() leaves no thread waiting.          *)

\* Every step preserves NoLostWakeup.
LEMMA NextWakeup == TypeOK /\ NoLostWakeup /\ [Next]_vars => NoLostWakeup'
<1> SUFFICES ASSUME TypeOK, NoLostWakeup, [Next]_vars PROVE NoLostWakeup'
  OBVIOUS
<1>1. CASE UNCHANGED vars
  BY <1>1 DEF NoLostWakeup, vars, Full
<1>2. ASSUME NEW t \in Threads, push(t) \/ pushData(t) \/ waitAndPopValue(t)
      PROVE  NoLostWakeup'
  BY <1>2 DEF push, pushData, waitAndPopValue, Enter, AfterPush, AfterPop,
              NoLostWakeup, TypeOK
<1>3. ASSUME NEW t \in Threads, pushDataWaits(t) \/ waitAndPopValueWaits(t)
      PROVE  NoLostWakeup'
  BY <1>3, RingBufferAssumption
     DEF pushDataWaits, waitAndPopValueWaits, NoLostWakeup, TypeOK, Threads,
         Full
<1>4. ASSUME NEW t \in Threads, Call(t) \/ SpuriousWakeup(t)
      PROVE  NoLostWakeup'
  BY <1>4 DEF Call, SpuriousWakeup, NoLostWakeup, TypeOK, Full
<1>5. ASSUME NEW t \in Threads, notifyAll(t)
      PROVE  NoLostWakeup'
  BY <1>5 DEF notifyAll, NoLostWakeup, TypeOK
<1> QED
  BY <1>1, <1>2, <1>3, <1>4, <1>5 DEF Next, Step

\* With notify_all() after the mutex is released, and both kinds of threads
\* on one condition variable, no thread sleeps through the event it waits for:
\* somebody is still going to notify it.
THEOREM WakeupsAreNotLost == Spec => []NoLostWakeup
<1>1. Init => TypeOK /\ NoLostWakeup
  BY RingBufferAssumption DEF Init, TypeOK, PcValues, NoLostWakeup
<1>2. TypeOK /\ NoLostWakeup /\ [Next]_vars => (TypeOK /\ NoLostWakeup)'
  BY NextType, NextWakeup
<1> QED
  BY <1>1, <1>2, PTL DEF Spec

----------------------------------------------------------------------------
(* Refinement. *)

\* A step of the ring buffer is a step of the FIFO queue, or changes nothing
\* that the queue shows.
LEMMA StepSimulation ==
  ASSUME TypeOK, [Next]_vars
  PROVE  [Fifo!Next]_<<m_queue, entered, popped>>
<1>1. CASE UNCHANGED vars
  BY <1>1 DEF vars
<1>2. ASSUME NEW t \in Threads, Enter(t), Blocking => Len(m_queue) < Capacity
      PROVE  Fifo!Put \/ Fifo!Displace
  <2>1. CASE Blocking
    BY <1>2, <2>1 DEF Enter, PushBack, Fifo!Put
  <2>2. CASE ~Blocking /\ Len(m_queue) < Capacity
    BY <1>2, <2>2 DEF Enter, PushBack, Fifo!Put
  <2>3. CASE ~Blocking /\ Len(m_queue) >= Capacity
    <3>1. Len(m_queue) = Capacity
      BY <2>3, RingBufferAssumption DEF TypeOK
    <3>2. Fifo!Displace
      BY <1>2, <2>3, <3>1 DEF Enter, PushBack, Fifo!Displace
    <3>3. QED
      BY <3>2
  <2>4. Len(m_queue) \in Nat /\ Capacity \in Nat
    BY RingBufferAssumption DEF TypeOK
  <2> QED
    BY <2>1, <2>2, <2>3, <2>4
<1>3. ASSUME NEW t \in Threads, push(t)
      PROVE  Fifo!Put \/ Fifo!Displace
  <2>1. Enter(t) /\ ~Blocking
    BY <1>3 DEF push, Blocking
  <2> QED
    BY <1>2, <2>1
<1>4. ASSUME NEW t \in Threads, pushData(t)
      PROVE  Fifo!Put \/ Fifo!Displace
  <2>1. Blocking => Len(m_queue) < Capacity
    BY <1>4, RingBufferAssumption DEF pushData, Full, Blocking, TypeOK
  <2>2. Enter(t)
    BY <1>4 DEF pushData
  <2> QED
    BY <1>2, <2>1, <2>2
<1>5. ASSUME NEW t \in Threads, waitAndPopValue(t)
      PROVE  Fifo!Take
  BY <1>5 DEF waitAndPopValue, PopValue, Fifo!Take
<1>6. ASSUME NEW t \in Threads,
             \/ Call(t) \/ pushDataWaits(t) \/ waitAndPopValueWaits(t)
             \/ notifyAll(t) \/ SpuriousWakeup(t)
      PROVE  UNCHANGED <<m_queue, entered, popped>>
  BY <1>6 DEF Call, pushDataWaits, waitAndPopValueWaits, notifyAll,
              SpuriousWakeup
<1> QED
  BY <1>1, <1>3, <1>4, <1>5, <1>6 DEF Next, Step, Fifo!Next

\* Every mixture of threads sees a FIFO queue of at most Capacity items, and if
\* they only use pushData, with thresholds within the capacity, and
\* waitAndPopValue, one that loses none.
THEOREM ImplementsFifoQueue == Spec => IsFifoQueue
<1>1. Init => Fifo!Init
  BY DEF Init, Fifo!Init
<1>2. TypeOK /\ [Next]_vars => [Fifo!Next]_<<m_queue, entered, popped>>
  BY StepSimulation
<1> QED
  BY <1>1, <1>2, TypeCorrect, PTL DEF Spec, IsFifoQueue, Fifo!Spec

\* A step in which an item is displaced is a step of push, or of pushData with
\* a threshold that does not block within the capacity.
LEMMA DisplacementIsPush ==
  ASSUME TypeOK, [Next]_vars, overwritten' # overwritten
  PROVE  \E t \in Pushers \cup DataPushers :
           /\ pc[t] = "lock" /\ pc'[t] = AfterPush
           /\ t \in DataPushers => Threshold[t] \notin 0..Capacity
<1>1. PICK t \in Threads : push(t) \/ pushData(t)
  BY DEF Next, Step, vars, Call, pushDataWaits, waitAndPopValue,
     waitAndPopValueWaits, notifyAll, SpuriousWakeup
<1>2. CASE pushData(t)
  <2>1. ~(Len(m_queue) < Capacity)
    BY <1>2 DEF pushData, Enter, PushBack
  <2>2. Threshold[t] \notin 0..Capacity
    BY <1>2, <2>1, RingBufferAssumption DEF pushData, Full, TypeOK
  <2> QED
    BY <1>2, <2>2 DEF pushData, Enter, TypeOK
<1>3. CASE push(t)
  BY <1>3, RingBufferAssumption DEF push, Enter, TypeOK
<1> QED
  BY <1>1, <1>2, <1>3

\* A thread that pushData blocks within the capacity never displaces an item,
\* whatever other threads do.
THEOREM DisplacementsArePushes == Spec => OnlyPushDisplaces
<1>1. TypeOK /\ [Next]_vars =>
        [overwritten' # overwritten =>
           \E t \in Pushers \cup DataPushers :
             /\ pc[t] = "lock" /\ pc'[t] = AfterPush
             /\ t \in DataPushers => Threshold[t] \notin 0..Capacity]_vars
  BY DisplacementIsPush
<1> QED
  BY <1>1, TypeCorrect, PTL DEF Spec, OnlyPushDisplaces
============================================================================
