---------------------------- MODULE MCDAGParser ----------------------------
(* A graph of two nodes for TLC; the name n3 is not in it. *)
EXTENDS DAGParser
CONSTANTS n1, n2
TwoNodes == <<n1, n2>>
FewEdges == <<2, 1>>
============================================================================
