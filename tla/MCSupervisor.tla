---------------------------- MODULE MCSupervisor ----------------------------
(* TLC instances of Supervisor: small graphs that meet every gate.           *)
EXTENDS Supervisor, TLC

\* approval node 1 -> gated task 2 -> reviewed task 3.
ChainNodes == 1 .. 3
ChainPreds == (1 :> {}) @@ (2 :> {1}) @@ (3 :> {2})
ChainAttempts == (1 :> 1) @@ (2 :> 2) @@ (3 :> 1)
ChainProjection == [n \in ChainNodes |-> 1]

\* gated task 1 -> task 2, which has nothing to execute.
PairNodes == 1 .. 2
PairPreds == (1 :> {}) @@ (2 :> {1})
PairAttempts == [n \in PairNodes |-> 2]
PairProjection == [n \in PairNodes |-> 0]
=============================================================================
