SPECIFICATION Spec
CONSTANTS
  Procs = {p1}
  Digests = {d1, d2}
  Origins <- AllOrigins
  Operations <- AllOperations
  MaxLog = 8
  MaxEdits = 3
  MaxCrashes = 2
SYMMETRY DigestSymmetry
INVARIANTS
  ReplayReproduces
  GateSafe
PROPERTY
  LegalLifecycle
