SPECIFICATION FairSpec
CONSTANTS
  d1 = d1
  Controllers = {c1, c2}
  WorkNodes = {n1}
  Workers = {w1}
  Digests = {d1, d2}
  WorkerDigest <- DigestOf
  WorkerClock <- ClockOf
  Outcomes = {TRUE, FALSE}
  TTL = 1
  MaxClock = 2
  MaxLeases = 2
  MaxFaults = 1
INVARIANTS
  OverlapExplained
  LeaseInv
PROPERTIES
  LeaseSteps
  SettlingReturns
CHECK_DEADLOCK FALSE
