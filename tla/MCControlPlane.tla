--------------------------- MODULE MCControlPlane ---------------------------
(* Small instances of ControlPlane for TLC. *)
EXTENDS ControlPlane

\* A range, an empty one at the largest uint32_t, and one whose bounds are
\* swapped.
Ranges == {[lower |-> 0, upper |-> 2], [lower |-> 2, upper |-> 2], [lower |-> 2, upper |-> 1]}
\* Two ranges that divide the partitions between two consumers.
Halves == {[lower |-> 0, upper |-> 1], [lower |-> 1, upper |-> 3]}

LimitOf(r, q, c, x, s, d) ==
  [k \in Choices |-> CASE k = "repartition" -> r
                       [] k = "query"       -> q
                       [] k = "report"      -> c
                       [] k = "crash"       -> x
                       [] k = "stop"        -> s
                       [] k = "release"     -> d]

\* Calls of both kinds with a report, a crash of the node, an orderly stop and a
\* release of the executor; two repartitions, which may overlap, with a report,
\* a crash and a stop; and a query before, between or beside two repartitions.
Everything == {LimitOf(1, 1, 1, 1, 1, 1), LimitOf(2, 0, 1, 1, 1, 0),
               LimitOf(2, 1, 1, 0, 0, 0)}
\* Repartitions that overlap, followed by one that does not.
Overlapping == {LimitOf(3, 0, 1, 0, 0, 0)}
\* Two repartitions, nothing else.
TwoCalls   == {LimitOf(2, 0, 0, 0, 0, 0)}
\* One report.
OneReport  == {LimitOf(0, 0, 1, 0, 0, 0)}
\* One report, and the executor is released.
Released   == {LimitOf(0, 0, 1, 0, 0, 1)}
=============================================================================
