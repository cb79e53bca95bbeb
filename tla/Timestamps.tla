----------------------------- MODULE Timestamps -----------------------------
(***************************************************************************)
(* The clock and the timestamp bookkeeping that IceflowProducer and        *)
(* IceflowConsumer share: a deque of steady_clock readings, oldest first,  *)
(* and the idle time.  Time is counted in ticks since the clock's epoch.   *)
(***************************************************************************)
EXTENDS Integers, Sequences, FiniteSets

CONSTANTS Uptime,  \* the clock's reading when the nodes start
          MaxAge   \* m_maxConsumptionAge, m_maxProductionTimestampAge

ASSUME TimeAssumption == Uptime \in Nat /\ MaxAge \in Nat

VARIABLE now       \* std::chrono::steady_clock::now()

Tick == now' = now + 1

\* Mutant: an entry as old as MaxAge is dropped.
cleanUpTimestamps_early(timestamps, reference) ==
  SelectSeq(timestamps, LAMBDA t : reference - t < MaxAge)

\* The loop pops from the front until it meets an entry whose "timePassed",
\* the entry minus the reference time, is at most MaxAge: an entry is popped
\* if it and every entry before it has passed MaxAge.
cleanUpTimestamps(timestamps, reference) ==
  LET popped == {i \in 1..Len(timestamps) :
                   \A j \in 1..i : timestamps[j] - reference > MaxAge}
  IN  SubSeq(timestamps, Cardinality(popped) + 1, Len(timestamps))

\* Mutant: the operands of the subtraction swapped.
determineIdleTime_swapped(reference, idleSince) == idleSince - reference

determineIdleTime(reference, idleSince) == reference - idleSince

============================================================================
