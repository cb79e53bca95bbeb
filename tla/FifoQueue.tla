----------------------------- MODULE FifoQueue -----------------------------
(***************************************************************************)
(* What RingBuffer promises: a queue of at most Bound items that hands     *)
(* them out in the order in which they came.  It loses none, unless it is  *)
(* Lossy: then an item that comes when the queue is full displaces the     *)
(* oldest one.  Items are numbered by the order in which they enter.       *)
(***************************************************************************)
EXTENDS Naturals, Sequences

CONSTANTS Bound, Lossy
VARIABLES queue, entered, taken

Init == queue = <<>> /\ entered = 0 /\ taken = <<>>

Put == /\ Len(queue) < Bound
       /\ entered' = entered + 1
       /\ queue' = Append(queue, entered + 1)
       /\ UNCHANGED taken

Displace == /\ Lossy
            /\ Len(queue) = Bound
            /\ entered' = entered + 1
            /\ queue' = Append(Tail(queue), entered + 1)
            /\ UNCHANGED taken

Take == /\ queue # <<>>
        /\ taken' = Append(taken, Head(queue))
        /\ queue' = Tail(queue)
        /\ UNCHANGED entered

Next == Put \/ Displace \/ Take

Spec == Init /\ [][Next]_<<queue, entered, taken>>
============================================================================
