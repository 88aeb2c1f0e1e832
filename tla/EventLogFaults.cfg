SPECIFICATION FairSpec
CONSTANTS
  w1 = w1
  w2 = w2
  Writers <- TwoWriters
  MaxEvents = 3
  MaxFaults = 2
  Faults = {"host", "process", "io"}
INVARIANTS
  MutualExclusion
  ForksBoundedByFaults
  HeadLagsByAtMostOne
  AckedIsDurable
  PassMeansChained
PROPERTIES
  AppendReturns
