SPECIFICATION FairSpec
CONSTANTS
  Nodes <- ChainNodes
  Preds <- ChainPreds
  MaxAttempts <- ChainAttempts
  Projection <- ChainProjection
  ApprovalNodes = {1}
  Gated = {2}
  Executable = {2, 3}
  Reviewed = {3}
  Usages = {0, 3}
  BudgetMax = 2
  Scopes = {1}
  MaxRuns = 4
  MaxCrashes = 1
  MaxPlans = 0
INVARIANTS
  CompletionInv
  NoLostRace
  BudgetOvershootsByOneNode
PROPERTIES
  TerminalTasksStable
  RunReturns
CHECK_DEADLOCK FALSE
