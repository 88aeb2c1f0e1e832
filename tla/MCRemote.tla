------------------------------ MODULE MCRemote ------------------------------
(* TLC instances of Remote.                                                  *)
EXTENDS Remote, TLC

CONSTANT d1

\* The worker has one of the two versions; its clock is a second behind.
DigestOf == [w \in Workers |-> d1]
ClockOf == [w \in Workers |-> -1]

ControllerSymmetry == Permutations(Controllers)
=============================================================================
