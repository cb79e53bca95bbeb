----------------------------- MODULE MCIceFlow -----------------------------
(* Small instances of IceFlow for TLC. *)
EXTENDS IceFlow

CONSTANTS p1, p2, c1, c2, e1, e2

OnEdge(S, E) == [n \in Nodes |-> IF n \in S THEN E ELSE {}]

\* One producer, two consumers of its edge.
FanOutDown == OnEdge({p1}, {e1})
FanOutUp   == OnEdge({c1, c2}, {e1})

\* Two instances of one producing task, one consumer.
FanInDown == OnEdge({p1, p2}, {e1})
FanInUp   == OnEdge({c1}, {e1})

\* One producer, one consumer.
PairDown == OnEdge({p1}, {e1})
PairUp   == OnEdge({c1}, {e1})

\* A chain: p1 produces e1, c1 consumes it and produces e2 for c2.
ChainDown == [n \in Nodes |-> CASE n = p1 -> {e1} [] n = c1 -> {e2}
                                [] OTHER -> {}]
ChainUp   == [n \in Nodes |-> CASE n = c1 -> {e1} [] n = c2 -> {e2}
                                [] OTHER -> {}]

OnePartition  == [e \in Edges |-> 1]
TwoPartitions == [e \in Edges |-> 2]

\* Partitions may move between the consumers.
Moving == [n \in Nodes |-> {<<0>>, <<1>>, <<0, 1>>}]
\* Each consumer has its own partition.
Split  == [n \in Nodes |-> IF n = c1 THEN {<<0>>} ELSE {<<1>>}]
OnlyZero == [n \in Nodes |-> {<<0>>}]
\* A consumer gets the only partition, or none.
ZeroOrNone == [n \in Nodes |-> {<<0>>, <<>>}]

LimitOf(r, s, q, x, t, k) ==
  [c \in Choices |-> CASE c = "repartition"   -> r
                       [] c = "setPartitions" -> s
                       [] c = "query"         -> q
                       [] c = "throw"         -> x
                       [] c = "timeout"       -> t
                       [] c = "tick"          -> k]

\* Repartitions only.
RepartitionTwice == {LimitOf(2, 0, 0, 0, 0, 0)}
\* One of everything; two repartitions with a callback that throws, a fetch that
\* fails and the clock; and two repartitions beside a query.
Everything == {LimitOf(1, 1, 1, 1, 1, 1), LimitOf(2, 0, 0, 1, 1, 1),
               LimitOf(2, 0, 1, 0, 0, 0)}
\* One assignment, one query of the statistics.
QueryOnce  == {LimitOf(1, 0, 1, 0, 0, 0)}
\* The same, two ticks of the clock.
QueryLate  == {LimitOf(1, 0, 1, 0, 0, 2)}
\* The producer is repartitioned once.
NarrowOnce == {LimitOf(0, 1, 0, 0, 0, 0)}
\* One assignment of partitions.
AssignOnce == {LimitOf(1, 0, 0, 0, 0, 0)}
============================================================================
