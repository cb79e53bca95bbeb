CONSTANTS
  Tasks = {t1, t2, t3}
  EdgeIds = {"e1", "e2"}
  Names = {n1, n2, n3}
  n1 = n1
  n2 = n2
  GraphNames <- TwoNodes
  MaxEdges <- FewEdges
  Numbers = {1, 4}
  Modulus = 4
SPECIFICATION Spec
INVARIANT EveryEdgeIsConsumed
