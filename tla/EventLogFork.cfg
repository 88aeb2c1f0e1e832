SPECIFICATION Spec
CONSTANTS
  w1 = w1
  w2 = w2
  Writers <- TwoWriters
  MaxEvents = 3
  MaxFaults = 1
  Faults = {"process"}
INVARIANT ChainIntact
