SPECIFICATION MCSpec
CONSTANTS
  Gateways = {p1}
  Refreshers = {x1, x2}
  Tasks <- SmallTasks
  Registry0 <- SmallRegistry
  MaxEdits = 1
  MaxChanges = 1
  MaxKills = 1
  Procs = {p1}
  Proposals <- Exportable
  MaxRecords = 2
  MaxLog = 2
  MaxFaults = 1
  Exporters = {x1, x2}
  Targets = {"codex", "human"}
  MaxSeconds = 1
  MaxExports = 2
SYMMETRY RefresherSymmetry
CONSTRAINT KillsInOneSecond
INVARIANTS
  RoutingInv
  HandoffInv
PROPERTIES
  FailUpward
  RegistrySteps
CHECK_DEADLOCK FALSE
