SPECIFICATION Spec
CONSTANTS
  Procs = {p1, p2}
  Digests = {d1}
  Origins = {"onboard"}
  Operations = {"onboard", "approve", "revoke"}
  MaxLog = 8
  MaxEdits = 0
  MaxCrashes = 0
PROPERTY
  RevokedIsTerminal
