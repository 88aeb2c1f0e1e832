SPECIFICATION Spec
CONSTANTS
  Nodes <- PairNodes
  Preds <- PairPreds
  MaxAttempts <- PairAttempts
  Projection <- PairProjection
  ApprovalNodes = {}
  Gated = {1}
  Executable = {1}
  Reviewed = {}
  Usages = {0}
  BudgetMax = 0
  Scopes = {1, 2}
  MaxRuns = 3
  MaxCrashes = 1
  MaxPlans = 1
INVARIANTS
  AttemptsBounded
  GateHonoured
CHECK_DEADLOCK FALSE
