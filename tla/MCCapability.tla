---------------------------- MODULE MCCapability ----------------------------
(* TLC instances of Capability.                                              *)
EXTENDS Capability, TLC

\* Every operation of the package, the service and the command line.
AllOperations == {"onboard", "register", "approve", "revoke", "set", "gate",
                  "decide", "rebuild"}

AllOrigins == {"onboard", "register"}

DigestSymmetry == Permutations(Digests)
ProcSymmetry == Permutations(Procs) \cup Permutations(Digests)
=============================================================================
