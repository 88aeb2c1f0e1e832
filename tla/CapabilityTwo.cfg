SPECIFICATION Spec
CONSTANTS
  Procs = {p1, p2}
  Digests = {d1, d2}
  Origins = {"onboard"}
  Operations = {"onboard", "approve", "revoke", "set", "gate", "decide", "rebuild"}
  MaxLog = 6
  MaxEdits = 1
  MaxCrashes = 0
SYMMETRY ProcSymmetry
INVARIANT
  RunsNeedApproval
PROPERTY
  OnlyOverwritesHarm
