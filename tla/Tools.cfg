SPECIFICATION Spec
CONSTANTS
  Specs <- AllSpecs
  Files = {1, 2}
  Extractors = {e1, e2}
  MaxWrites = 2
  MaxErrors = 2
  MaxCrashes = 1
  Openers = {o1, o2}
  Legacy = {"missions", "team_runs"}
  Tables = 2
  Columns = 2
  MaxSecond = 2
  MaxKills = 1
  Procs = {p1, p2}
  Proposals <- AllProposals
  MaxRecords = 2
  MaxLog = 3
  MaxFaults = 1
  Configs <- SomeConfigs
  Layouts <- SmallLayouts
  DefaultRoots <- HomeOnly
  MaxDepth = 1
  MaxFiles = 3
  MaxBytes = 4
  Ignored = {".git"}
  MaxVanish = 1
  Parts = {1, 2, 3}
  Listed = {1, 2}
  Texts = {"a", "b"}
  Runners = {r1, r2}
  MaxChanges = 2
INVARIANTS
  CompilerInv
  BundleInv
  MigrationInv
  MemoryInv
  DiscoveryExact
  RunsWhatWasApproved
PROPERTIES
  ToolsFinish
  StoresKeep
CHECK_DEADLOCK FALSE
