SPECIFICATION MCSpec
CONSTANTS
  w1 = w1
  w2 = w2
  Writers <- TwoWriters
  MaxEvents = 3
  MaxFaults = 2
  Faults = {"host"}
  Callers <- TwoWriters
  Actions <- AllActions
  Hosts <- AllHosts
  Contents <- AllContents
  Modes = {"suggest", "auto-safe", "policy-bound"}
  MaxEdits = 2
  MaxRequests = 2
  MaxDecisions = 2
  MaxSeconds = 1
SYMMETRY WriterSymmetry
INVARIANTS
  ChainIntact
  VerdictInv
PROPERTIES
  ImplementsHashChain
CHECK_DEADLOCK FALSE
