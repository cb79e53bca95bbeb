--------------------------- MODULE EdgeDelivery ---------------------------
(***************************************************************************)
(* What one edge of an IceFlow application promises to the tasks at its    *)
(* two ends, without partitions, subscriptions, fetches or the backchannel:*)
(* a message is sent once, a consumer is given it at most once and only    *)
(* while its producer still keeps it, and a producer drops only a message  *)
(* whose number a consumer has been given.  Where an edge has one producer *)
(* the number names the message; where it has several it does not.         *)
(***************************************************************************)
CONSTANT Consumers

VARIABLES sent,      \* messages, records with the fields from and seq
          taken,     \* taken[c]: what c was given, records with the field pub
          released   \* messages their producers keep no longer

deliveryVars == <<sent, taken, released>>

Init ==
  /\ sent = {}
  /\ taken = [c \in Consumers |-> {}]
  /\ released = {}

Put(S) ==
  /\ S \cap sent = {}
  /\ sent' = sent \cup S
  /\ UNCHANGED <<taken, released>>

Take(c, d) ==
  /\ d.pub \in sent \ released
  /\ \A t \in taken[c] : t.pub # d.pub
  /\ taken' = [taken EXCEPT ![c] = @ \cup {d}]
  /\ UNCHANGED <<sent, released>>

NumberTaken(seq) == \E c \in Consumers : \E t \in taken[c] : t.pub.seq = seq

Release(m) ==
  /\ m \in sent \ released
  /\ NumberTaken(m.seq)
  /\ released' = released \cup {m}
  /\ UNCHANGED <<sent, taken>>

Next ==
  \/ Put(sent' \ sent)
  \/ \E c \in Consumers : \E d \in taken'[c] \ taken[c] : Take(c, d)
  \/ \E m \in sent : Release(m)

\* A step of the edge, or a step of something else.
Step == [Next]_deliveryVars

Spec == Init /\ [][Next]_deliveryVars

===========================================================================
