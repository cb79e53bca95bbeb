----------------------------- MODULE RingBuffer -----------------------------
(***************************************************************************)
(* RingBuffer (include/iceflow/ringbuffer.hpp): a queue over a             *)
(* boost::circular_buffer, guarded by one mutex and one condition variable *)
(* on which threads that push and threads that pop both wait.              *)
(*                                                                         *)
(* What happens under the mutex is one step; the notification, which the   *)
(* code sends after it has released the mutex, is another.  The pop        *)
(* operations that call m_queue.pop() are left out: circular_buffer has no *)
(* such member, and a program that uses them does not compile.             *)
(***************************************************************************)
EXTENDS Integers, Sequences, FiniteSets

CONSTANTS Pushers,      \* threads that call push(value)
          DataPushers,  \* threads that call pushData(value, threshold)
          Poppers,      \* threads that call waitAndPopValue()
          Capacity,     \* capacity of m_queue
          Threshold,    \* Threshold[t]: the int that t gives pushData
          MaxPushes     \* bound on the number of items

ASSUME RingBufferAssumption ==
  /\ Pushers \cap DataPushers = {}
  /\ (Pushers \cup DataPushers) \cap Poppers = {}
  /\ Capacity \in Nat \ {0}
  /\ Threshold \in [DataPushers -> Int]
  /\ MaxPushes \in Nat

Threads == Pushers \cup DataPushers \cup Poppers

VARIABLES m_queue,      \* the items, oldest first, numbered as they enter
          pc,           \* pc[t]: what thread t is doing
          entered,      \* number of items pushed so far
          popped,       \* the items handed out, in order
          overwritten   \* the items that push_back displaced

vars == <<m_queue, pc, entered, popped, overwritten>>

\* lock: about to take the mutex; wait: blocked on m_queueCondition;
\* notify: the mutex is released, notify_all() is still to come.
PcValues == {"idle", "lock", "wait", "notify"}

TypeOK ==
  /\ m_queue \in Seq(Nat)
  /\ Len(m_queue) <= Capacity
  /\ pc \in [Threads -> PcValues]
  /\ entered \in Nat
  /\ popped \in Seq(Nat)
  /\ overwritten \in SUBSET Nat

Init ==
  /\ m_queue = <<>>
  /\ pc = [t \in Threads |-> "idle"]
  /\ entered = 0
  /\ popped = <<>>
  /\ overwritten = {}

Pushing == {t \in Pushers \cup DataPushers : pc[t] \in {"lock", "wait"}}

\* A thread calls its operation.
Call(t) ==
  /\ pc[t] = "idle"
  /\ t \in Pushers \cup DataPushers => entered + Cardinality(Pushing) < MaxPushes
  /\ pc' = [pc EXCEPT ![t] = "lock"]
  /\ UNCHANGED <<m_queue, entered, popped, overwritten>>

\* Mutant: one item too many.
Full_offByOne(t) == Threshold[t] >= 0 /\ Len(m_queue) > Threshold[t]

\* m_queue.size() >= threshold compares a size_t with an int: a negative
\* threshold becomes a number no queue reaches, and every queue reaches 0.
Full(t) == Threshold[t] >= 0 /\ Len(m_queue) >= Threshold[t]

\* Mutant: the buffer grows.
PushBack_grows(item) ==
  /\ m_queue' = Append(m_queue, item)
  /\ UNCHANGED overwritten

\* boost::circular_buffer::push_back: a full buffer drops its oldest item.
PushBack(item) ==
  IF Len(m_queue) < Capacity
  THEN /\ m_queue' = Append(m_queue, item)
       /\ UNCHANGED overwritten
  ELSE /\ m_queue' = Append(Tail(m_queue), item)
       /\ overwritten' = overwritten \cup {Head(m_queue)}

\* Mutant: a push does not notify.
AfterPush_silent == "idle"

AfterPush == "notify"

Enter(t) ==
  /\ entered' = entered + 1
  /\ PushBack(entered + 1)
  /\ pc' = [pc EXCEPT ![t] = AfterPush]
  /\ UNCHANGED popped

push(t) ==
  /\ t \in Pushers
  /\ pc[t] = "lock"
  /\ Enter(t)

pushData(t) ==
  /\ t \in DataPushers
  /\ pc[t] = "lock"
  /\ ~Full(t)
  /\ Enter(t)

pushDataWaits(t) ==
  /\ t \in DataPushers
  /\ pc[t] = "lock"
  /\ Full(t)
  /\ pc' = [pc EXCEPT ![t] = "wait"]
  /\ UNCHANGED <<m_queue, entered, popped, overwritten>>

\* Mutant: a pop does not notify.
AfterPop_silent == "idle"

AfterPop == "notify"

\* Mutant: back() is handed out, front() is removed.
PopValue_back == m_queue[Len(m_queue)]

\* m_queue.front()
PopValue == Head(m_queue)

waitAndPopValue(t) ==
  /\ t \in Poppers
  /\ pc[t] = "lock"
  /\ m_queue # <<>>
  /\ popped' = Append(popped, PopValue)
  /\ m_queue' = Tail(m_queue)
  /\ pc' = [pc EXCEPT ![t] = AfterPop]
  /\ UNCHANGED <<entered, overwritten>>

waitAndPopValueWaits(t) ==
  /\ t \in Poppers
  /\ pc[t] = "lock"
  /\ m_queue = <<>>
  /\ pc' = [pc EXCEPT ![t] = "wait"]
  /\ UNCHANGED <<m_queue, entered, popped, overwritten>>

\* Mutant: notify_one() instead.
notifyAll_one(t) ==
  /\ pc[t] = "notify"
  /\ \/ \E u \in Threads : /\ pc[u] = "wait"
                          /\ pc' = [pc EXCEPT ![t] = "idle", ![u] = "lock"]
     \/ /\ \A u \in Threads : pc[u] # "wait"
        /\ pc' = [pc EXCEPT ![t] = "idle"]
  /\ UNCHANGED <<m_queue, entered, popped, overwritten>>

\* m_queueCondition.notify_all(), and the operation returns.
notifyAll(t) ==
  /\ pc[t] = "notify"
  /\ pc' = [u \in Threads |-> IF u = t THEN "idle"
                              ELSE IF pc[u] = "wait" THEN "lock" ELSE pc[u]]
  /\ UNCHANGED <<m_queue, entered, popped, overwritten>>

\* A condition variable may wake a thread that nobody notified.
SpuriousWakeup(t) ==
  /\ pc[t] = "wait"
  /\ pc' = [pc EXCEPT ![t] = "lock"]
  /\ UNCHANGED <<m_queue, entered, popped, overwritten>>

\* The thread's own steps once it is inside an operation.
Step(t) == \/ push(t) \/ pushData(t) \/ pushDataWaits(t)
           \/ waitAndPopValue(t) \/ waitAndPopValueWaits(t) \/ notifyAll(t)

Next == \E t \in Threads : Call(t) \/ Step(t) \/ SpuriousWakeup(t)

Spec == Init /\ [][Next]_vars

\* A thread inside an operation goes on, and the threads that pop keep
\* asking for the next item.  Nobody has to push, and no wake-up happens by
\* itself.
Fairness == /\ \A t \in Threads : WF_vars(Step(t))
            /\ \A t \in Poppers : WF_vars(Call(t))

FairSpec == Spec /\ Fairness

----------------------------------------------------------------------------
(* Properties. *)

\* No wake-up is lost: as long as a thread waits for something that is
\* already there (room below the threshold, an item), some thread that has
\* changed the queue has yet to notify.
NoLostWakeup ==
  \A t \in Threads :
    /\ pc[t] = "wait"
    /\ \/ t \in DataPushers /\ ~Full(t)
       \/ t \in Poppers /\ m_queue # <<>>
    => \E u \in Threads : pc[u] = "notify"

\* pushData may stop thread t, and a pop lets it go on.
Stops(t) == Threshold[t] \in 1..Capacity

\* Nobody calls push, and pushData keeps every thread within the capacity.
Blocking == Pushers = {} /\ \A t \in DataPushers : Threshold[t] \in 0..Capacity

\* Whatever mixture of threads uses it, the buffer is a FIFO queue ("a thread
\* safe implementation of a queue") of at most Capacity items; it loses none if
\* it is only used with pushData and thresholds from 0 to Capacity, otherwise
\* an item that enters may displace the oldest one.
Fifo == INSTANCE FifoQueue WITH Bound <- Capacity, Lossy <- ~Blocking,
                                queue <- m_queue, entered <- entered, taken <- popped
IsFifoQueue == Fifo!Spec

\* Threads that block at a threshold within the capacity do no harm: an item is
\* displaced only by a call of push, or of pushData with a threshold that the
\* comparison with size() never meets (a negative one, or one above the
\* capacity), however the threads mix.
OnlyPushDisplaces ==
  [][overwritten' # overwritten =>
       \E t \in Pushers \cup DataPushers :
         /\ pc[t] = "lock" /\ pc'[t] = AfterPush
         /\ t \in DataPushers => Threshold[t] \notin 0..Capacity]_vars

\* While a thread is blocked in pushData at a positive threshold, pushes go on:
\* some thread's push completes eventually, even beside threads that a
\* threshold of 0 keeps for ever.
BlockedPushProgresses ==
  \A k \in 0..MaxPushes :
    (entered = k /\ \E t \in DataPushers : pc[t] = "wait" /\ Stops(t))
      ~> entered > k

\* An item that enters is eventually handed out, unless it is displaced.
ItemLeaves ==
  \A i \in 1..MaxPushes :
    i <= entered ~> (i \in overwritten \/ \E k \in 1..Len(popped) : popped[k] = i)
============================================================================
