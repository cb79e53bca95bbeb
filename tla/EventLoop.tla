----------------------------- MODULE EventLoop -----------------------------
(***************************************************************************)
(* IceFlow::run and IceFlow::shutdown (src/iceflow.cpp).  run() looks at   *)
(* m_running, sets it, starts a thread that calls processEvents on the     *)
(* Face for as long as m_running is set, and joins it.  m_running is a     *)
(* plain bool that every thread reads and writes; the loop calls out       *)
(* between two reads, so each read returns the value of that moment.       *)
(* Threads of the application call run(), any thread (a callback on the    *)
(* event loop included) calls shutdown().  The constructor of std::thread  *)
(* may throw, and the loop catches std::exception only: any other          *)
(* exception of a handler ends the process.                                *)
(***************************************************************************)
EXTENDS Naturals

CONSTANTS Threads,    \* threads of the application that call run()
          MaxRuns,    \* bound: loops that are started; more fail to start
          MaxEvents   \* bound: events that arrive on the Face

ASSUME EventLoopAssumption == MaxRuns \in Nat /\ MaxEvents \in Nat

VARIABLES m_running,
          pc,         \* [t]: "out" of run(), or the step of it that t has done
          svsThread,  \* [t]: the loop that the thread started last, or 0
          loop,       \* [i]: what the i-th loop is doing
          started,    \* how many loops have been started
          ready,      \* events on the Face that wait for a handler
          arrived,    \* how many events have arrived
          startFailed, \* history: a loop could not be started since the last shutdown()
          terminated  \* the process has ended

vars == <<m_running, pc, svsThread, loop, started, ready, arrived, startFailed, terminated>>

Loops == 1..MaxRuns

\* "testing": about to read m_running; "processing": inside processEvents.
LoopStates == {"none", "testing", "processing"}

TypeOK ==
  /\ m_running \in BOOLEAN
  /\ pc \in [Threads -> {"out", "checked", "set", "joining"}]
  /\ svsThread \in [Threads -> 0..MaxRuns]
  /\ loop \in [Loops -> LoopStates]
  /\ started \in 0..MaxRuns
  /\ ready \in 0..MaxEvents
  /\ arrived \in 0..MaxEvents
  /\ startFailed \in BOOLEAN
  /\ terminated \in BOOLEAN

Init ==
  /\ m_running = FALSE
  /\ pc = [t \in Threads |-> "out"]
  /\ svsThread = [t \in Threads |-> 0]
  /\ loop = [i \in Loops |-> "none"]
  /\ started = 0
  /\ ready = 0
  /\ arrived = 0
  /\ startFailed = FALSE
  /\ terminated = FALSE

\* As long as the process is there: thread t is at step s, loop i in state s.
At(t, s) == ~terminated /\ pc[t] = s
LoopAt(i, s) == ~terminated /\ loop[i] = s

----------------------------------------------------------------------------
(* A thread in run(). *)

\* The instance is not running; otherwise run() throws and changes nothing.
run(t) ==
  /\ At(t, "out")
  /\ ~m_running
  /\ pc' = [pc EXCEPT ![t] = "checked"]
  /\ UNCHANGED <<m_running, svsThread, loop, started, ready, arrived, startFailed, terminated>>

\* m_running = true
setRunning(t) ==
  /\ At(t, "checked")
  /\ m_running' = TRUE
  /\ pc' = [pc EXCEPT ![t] = "set"]
  /\ UNCHANGED <<svsThread, loop, started, ready, arrived, startFailed, terminated>>

\* Mutant: the thread is detached instead of joined.
AfterStart_detached == "out"
AfterStart == "joining"

\* svsThread is constructed and its loop begins.
startLoop(t) ==
  /\ At(t, "set")
  /\ started < MaxRuns
  /\ started' = started + 1
  /\ svsThread' = [svsThread EXCEPT ![t] = started + 1]
  /\ loop' = [loop EXCEPT ![started + 1] = "testing"]
  /\ pc' = [pc EXCEPT ![t] = AfterStart]
  /\ UNCHANGED <<m_running, ready, arrived, startFailed, terminated>>

\* The constructor of std::thread throws, and run() with it: nothing takes
\* back m_running.
startFails(t) ==
  /\ At(t, "set")
  /\ pc' = [pc EXCEPT ![t] = "out"]
  /\ startFailed' = TRUE
  /\ UNCHANGED <<m_running, svsThread, loop, started, ready, arrived, terminated>>

\* svsThread.join() returns, and run() with it.
join(t) ==
  /\ At(t, "joining")
  /\ loop[svsThread[t]] = "none"
  /\ pc' = [pc EXCEPT ![t] = "out"]
  /\ UNCHANGED <<m_running, svsThread, loop, started, ready, arrived, startFailed, terminated>>

----------------------------------------------------------------------------
(* The loop of svsThread. *)

\* while (m_running)
testRunning(i) ==
  /\ LoopAt(i, "testing")
  /\ loop' = [loop EXCEPT ![i] = IF m_running THEN "processing" ELSE "none"]
  /\ UNCHANGED <<m_running, pc, svsThread, started, ready, arrived, startFailed, terminated>>

\* processEvents runs the handler of an event, which returns.
handleEvent(i) ==
  /\ LoopAt(i, "processing")
  /\ ready > 0
  /\ ready' = ready - 1
  /\ UNCHANGED <<m_running, pc, svsThread, loop, started, arrived, startFailed, terminated>>

\* Mutant: nothing catches the exception, and the loop ends.
AfterThrow_uncaught == "none"
AfterThrow == "testing"

\* The handler throws a std::exception: it leaves processEvents, is caught,
\* and the loop goes on.
handlerThrows(i) ==
  /\ LoopAt(i, "processing")
  /\ ready > 0
  /\ ready' = ready - 1
  /\ loop' = [loop EXCEPT ![i] = AfterThrow]
  /\ UNCHANGED <<m_running, pc, svsThread, started, arrived, startFailed, terminated>>

\* The handler throws something else: it leaves svsThread, and std::terminate
\* ends the process.
handlerThrowsOther(i) ==
  /\ LoopAt(i, "processing")
  /\ ready > 0
  /\ ready' = ready - 1
  /\ terminated' = TRUE
  /\ UNCHANGED <<m_running, pc, svsThread, loop, started, arrived, startFailed>>

\* Mutant: processEvents is called without a timeout, and does not return.
AfterTimeout_never == "processing"
AfterTimeout == "testing"

\* The 5000 ms are over and processEvents returns.
processTimeout(i) ==
  /\ LoopAt(i, "processing")
  /\ loop' = [loop EXCEPT ![i] = AfterTimeout]
  /\ UNCHANGED <<m_running, pc, svsThread, started, ready, arrived, startFailed, terminated>>

----------------------------------------------------------------------------
(* Any thread, and the network. *)

shutdown ==
  /\ ~terminated
  /\ m_running' = FALSE
  /\ startFailed' = FALSE
  /\ UNCHANGED <<pc, svsThread, loop, started, ready, arrived, terminated>>

EventArrives ==
  /\ ~terminated
  /\ arrived < MaxEvents
  /\ arrived' = arrived + 1
  /\ ready' = ready + 1
  /\ UNCHANGED <<m_running, pc, svsThread, loop, started, startFailed, terminated>>

\* Nothing happens in a process that has ended.
Terminated == terminated /\ UNCHANGED vars

Next ==
  \/ \E t \in Threads : \/ run(t)
                        \/ setRunning(t)
                        \/ startLoop(t)
                        \/ startFails(t)
                        \/ join(t)
  \/ \E i \in Loops : \/ testRunning(i)
                      \/ handleEvent(i)
                      \/ handlerThrows(i)
                      \/ handlerThrowsOther(i)
                      \/ processTimeout(i)
  \/ shutdown
  \/ EventArrives
  \/ Terminated

Spec == Init /\ [][Next]_vars

\* A thread that is inside run() and a loop go on, and the timer of
\* processEvents fires.  The Face dispatches what is ready in order, so an
\* event is not passed over for ever in favour of the timer.  Nobody has to
\* call run() or shutdown(), and no handler has to throw.
Fairness ==
  /\ \A t \in Threads : /\ WF_vars(setRunning(t))
                        /\ WF_vars(startLoop(t) \/ startFails(t))
                        /\ WF_vars(join(t))
  /\ \A i \in Loops : /\ WF_vars(testRunning(i))
                      /\ WF_vars(processTimeout(i))
                      /\ SF_vars(\/ handleEvent(i)
                                 \/ handlerThrows(i)
                                 \/ handlerThrowsOther(i))

FairSpec == Spec /\ Fairness

----------------------------------------------------------------------------
(* Properties. *)

Alive(i) == loop[i] # "none"

\* What run() throws for ("Iceflow instance is already running!"): no two
\* loops call processEvents on the one Face.
AtMostOneLoop == \A i, j \in Loops : Alive(i) /\ Alive(j) => i = j

\* run() returns only when its loop is over: a loop that is alive is one that a
\* thread inside run() waits to join.  So whoever sees all calls of run()
\* return may destroy the instance, and two loops mean two callers.
LoopsAreJoined ==
  \A i \in Loops : Alive(i) =>
    \E t \in Threads : pc[t] = "joining" /\ svsThread[t] = i

\* run() refuses with "already running" only while a loop is there, while
\* another thread is about to start one, or after a loop could not be started
\* (then until shutdown() is called, for run() leaves m_running set): whatever
\* order run(), shutdown() and throwing handlers come in, m_running is not left
\* set by a loop that has ended.
RunningHasLoop ==
  m_running =>
    \/ \E i \in Loops : Alive(i)
    \/ \E t \in Threads : pc[t] = "set"
    \/ startFailed

\* After shutdown() every loop ends and run() returns, unless somebody starts
\* the instance again or the process ends.
ShutdownEndsLoops ==
  ~m_running ~> (m_running \/ terminated \/ \A i \in Loops : ~Alive(i))

\* A handler that throws a std::exception does not stop the instance: whatever
\* waits on the Face of a loop is handled for as long as nobody calls
\* shutdown() and the process is there.
EventsAreHandled ==
  (m_running /\ ready > 0 /\ \E i \in Loops : Alive(i))
    ~> (~m_running \/ ready = 0 \/ terminated)

============================================================================
