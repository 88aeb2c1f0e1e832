SPECIFICATION Spec
CONSTANTS
  g1 = g1
  g2 = g2
  g3 = g3
  g4 = g4
  n1 = n1
  n2 = n2
  n3 = n3
  Procs = {p1, p2}
  Graphs = {g1, g2, g3, g4}
  Nodes = {n1, n2, n3}
  PlanOf <- SharedNodes
  ApprovalNodes = {n2}
  Executable = {n1}
  MaxLog = 5
  MaxCrashes = 1
SYMMETRY ProcGraphSymmetry
CONSTRAINT OneNode
INVARIANTS
  ProjectionInv
CHECK_DEADLOCK FALSE
