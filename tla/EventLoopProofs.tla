-------------------------- MODULE EventLoopProofs --------------------------
(* Theorems about EventLoop, for any threads and any bounds. *)
EXTENDS EventLoop, TLAPS

\* No more events wait than have arrived.
ReadyArrived == ready <= arrived

\* The inductive invariant behind RunningHasLoop.
LoopInv == TypeOK /\ ReadyArrived /\ RunningHasLoop

\* No loop runs at first.
LEMMA LoopInvInit == Init => LoopInv
<1> SUFFICES ASSUME Init PROVE LoopInv
  OBVIOUS
<1>1. TypeOK
  <2>1. m_running \in BOOLEAN /\ startFailed \in BOOLEAN /\ terminated \in BOOLEAN
    BY Zenon DEF Init
  <2>2. pc \in [Threads -> {"out", "checked", "set", "joining"}]
    BY DEF Init
  <2>3. svsThread \in [Threads -> 0..MaxRuns]
    BY EventLoopAssumption DEF Init
  <2>4. loop \in [Loops -> LoopStates]
    BY DEF Init, LoopStates
  <2>5. QED
    BY <2>1, <2>2, <2>3, <2>4, EventLoopAssumption DEF Init, TypeOK
<1>2. ReadyArrived
  BY DEF Init, ReadyArrived
<1>3. RunningHasLoop
  BY Zenon DEF Init, RunningHasLoop
<1>4. QED
  BY <1>1, <1>2, <1>3 DEF LoopInv

\* No step leaves m_running set without a loop, except a start that fails.
LEMMA LoopInvStep == LoopInv /\ [Next]_vars => LoopInv'
<1> SUFFICES ASSUME LoopInv, [Next]_vars PROVE LoopInv'
  OBVIOUS
<1> USE EventLoopAssumption DEF LoopInv, TypeOK, ReadyArrived, RunningHasLoop,
        Loops, LoopStates, Alive, At, LoopAt
<1>1. CASE \E t \in Threads : run(t)
  BY <1>1 DEF run
<1>2. CASE \E t \in Threads : setRunning(t)
  <2> PICK t \in Threads : setRunning(t)
    BY <1>2
  <2>1. pc'[t] = "set"
    BY DEF setRunning
  <2>2. m_running' \in BOOLEAN
    BY Zenon DEF setRunning
  <2>3. QED
    BY <2>1, <2>2 DEF setRunning
<1>3. CASE \E t \in Threads : startLoop(t)
  <2> PICK t \in Threads : startLoop(t)
    BY <1>3
  <2>1. started + 1 \in 1..MaxRuns
    BY DEF startLoop, AfterStart
  <2>2. loop'[started + 1] = "testing"
    BY <2>1 DEF startLoop, AfterStart
  <2>3. QED
    BY <2>1, <2>2 DEF startLoop, AfterStart
<1>4. CASE \E t \in Threads : startFails(t)
  <2>1. startFailed' /\ startFailed' \in BOOLEAN
    BY <1>4, Zenon DEF startFails
  <2>2. QED
    BY <1>4, <2>1 DEF startFails
<1>5. CASE \E t \in Threads : join(t)
  <2> PICK t \in Threads : join(t)
    BY <1>5
  <2>1. \A u \in Threads : pc[u] = "set" => pc'[u] = "set"
    BY DEF join
  <2>2. QED
    BY <2>1 DEF join
<1>6. CASE \E i \in Loops : testRunning(i)
  <2> PICK i \in Loops : testRunning(i)
    BY <1>6
  <2>1. TypeOK' /\ ReadyArrived'
    BY DEF testRunning
  <2>2. ASSUME m_running' PROVE loop'[i] # "none"
    BY <2>2 DEF testRunning
  <2>3. QED
    BY <2>1, <2>2
<1>7. CASE \E i \in Loops : handleEvent(i)
  BY <1>7 DEF handleEvent
<1>8. CASE \E i \in Loops : handlerThrows(i)
  <2> PICK i \in Loops : handlerThrows(i)
    BY <1>8
  <2>1. loop'[i] = "testing"
    BY DEF handlerThrows, AfterThrow
  <2>2. QED
    BY <2>1 DEF handlerThrows, AfterThrow
<1>9. CASE \E i \in Loops : handlerThrowsOther(i)
  <2>1. terminated' \in BOOLEAN
    BY <1>9, Zenon DEF handlerThrowsOther
  <2>2. QED
    BY <1>9, <2>1 DEF handlerThrowsOther
<1>10. CASE \E i \in Loops : processTimeout(i)
  <2> PICK i \in Loops : processTimeout(i)
    BY <1>10
  <2>1. loop'[i] = "testing"
    BY DEF processTimeout, AfterTimeout
  <2>2. QED
    BY <2>1 DEF processTimeout, AfterTimeout
<1>11. CASE shutdown
  <2>1. ~m_running' /\ m_running' \in BOOLEAN /\ startFailed' \in BOOLEAN
    BY <1>11, Zenon DEF shutdown
  <2>2. QED
    BY <1>11, <2>1 DEF shutdown
<1>12. CASE EventArrives
  BY <1>12 DEF EventArrives
<1>13. CASE UNCHANGED vars
  BY <1>13 DEF vars
<1>14. QED
  BY <1>1, <1>2, <1>3, <1>4, <1>5, <1>6, <1>7, <1>8, <1>9, <1>10, <1>11, <1>12, <1>13
     DEF Next, Terminated

\* m_running is set only while there is a loop, between its assignment and the
\* start of the loop, or after a std::thread could not be constructed
\* (iceflow.cpp, run()): never by a loop that has ended, for any number of
\* threads that call run() and shutdown().
THEOREM RunningMeansLoop == Spec => []RunningHasLoop
<1>1. LoopInv => RunningHasLoop
  BY DEF LoopInv
<1>2. QED
  BY <1>1, LoopInvInit, LoopInvStep, PTL DEF Spec

----------------------------------------------------------------------------
\* run() joins its loop before it returns, for any number of threads.
THEOREM RunReturnsAfterLoop == Spec => []LoopsAreJoined
<1> DEFINE Inv == LoopInv /\ LoopsAreJoined
<1>1. Init => Inv
  BY LoopInvInit, EventLoopAssumption DEF Init, LoopsAreJoined, Alive, Loops
<1>2. Inv /\ [Next]_vars => Inv'
  <2> SUFFICES ASSUME Inv, [Next]_vars PROVE LoopsAreJoined'
    BY LoopInvStep
  <2> USE EventLoopAssumption DEF LoopsAreJoined, LoopInv, TypeOK, Alive, Loops,
          LoopStates, At, LoopAt
  <2>1. CASE \E t \in Threads : run(t) \/ setRunning(t) \/ startFails(t)
    <3> PICK t \in Threads : run(t) \/ setRunning(t) \/ startFails(t)
      BY <2>1
    <3>1. /\ UNCHANGED <<loop, svsThread>>
          /\ \A u \in Threads : pc[u] = "joining" => pc'[u] = "joining"
      BY DEF run, setRunning, startFails
    <3>2. QED
      BY <3>1
  <2>2. CASE \E t \in Threads : startLoop(t)
    <3> PICK t \in Threads : startLoop(t)
      BY <2>2
    <3>1. pc'[t] = "joining" /\ svsThread'[t] = started + 1
      BY DEF startLoop, AfterStart
    <3>2. ASSUME NEW i \in Loops, loop'[i] # "none", i # started + 1
          PROVE  \E u \in Threads : pc'[u] = "joining" /\ svsThread'[u] = i
      <4>1. loop[i] # "none"
        BY <3>2 DEF startLoop, AfterStart
      <4>2. PICK u \in Threads : pc[u] = "joining" /\ svsThread[u] = i
        BY <4>1
      <4>3. u # t
        BY <4>2 DEF startLoop, AfterStart
      <4>4. QED
        BY <4>2, <4>3 DEF startLoop, AfterStart
    <3>3. QED
      BY <3>1, <3>2
  <2>3. CASE \E t \in Threads : join(t)
    BY <2>3 DEF join
  <2>4. CASE \E i \in Loops : testRunning(i)
    BY <2>4 DEF testRunning
  <2>5. CASE \E i \in Loops : handleEvent(i) \/ handlerThrowsOther(i)
    BY <2>5 DEF handleEvent, handlerThrowsOther
  <2>6. CASE \E i \in Loops : handlerThrows(i)
    BY <2>6 DEF handlerThrows, AfterThrow
  <2>7. CASE \E i \in Loops : processTimeout(i)
    BY <2>7 DEF processTimeout, AfterTimeout
  <2>8. CASE shutdown
    BY <2>8 DEF shutdown
  <2>9. CASE EventArrives
    BY <2>9 DEF EventArrives
  <2>10. CASE UNCHANGED vars
    BY <2>10 DEF vars
  <2>11. QED
    BY <2>1, <2>2, <2>3, <2>4, <2>5, <2>6, <2>7, <2>8, <2>9, <2>10 DEF Next, Terminated
<1>3. QED
  BY <1>1, <1>2, PTL DEF Spec

\* If a single thread calls run(), the join at its end is enough: there are
\* never two loops on the Face, however shutdown() and run() follow each other.
THEOREM SingleCallerSingleLoop ==
  ASSUME \A t, u \in Threads : t = u
  PROVE  Spec => []AtMostOneLoop
<1>1. LoopsAreJoined => AtMostOneLoop
  BY DEF LoopsAreJoined, AtMostOneLoop
<1>2. QED
  BY <1>1, RunReturnsAfterLoop, PTL

============================================================================
