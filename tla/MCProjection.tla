---------------------------- MODULE MCProjection ----------------------------
(* TLC instances of Projection: plans of two graphs that name one node, and  *)
(* nodes of the other kinds.                                                 *)
EXTENDS Projection, TLC

CONSTANTS g1, g2, g3, g4, n1, n2, n3

\* Ids have one namespace for all graphs.
SharedNodes == (g1 :> {n1}) @@ (g2 :> {n1}) @@ (g3 :> {n2}) @@ (g4 :> {n3})

\* Bounds: the graphs planned in one history name the same node.  A history has
\* at most three events when its node has nothing to invoke; the run of a node
\* that is planned once takes five, and there is no kill then; others have four.
Plans == {i \in 1..Len(log) : log[i].do = "create"}

OneNode ==
  /\ \A i, j \in Plans : PlanOf[log[i].key] = PlanOf[log[j].key]
  /\ Len(log) > 3 => \A i \in Plans : PlanOf[log[i].key] \subseteq Tasks
  /\ Len(log) > 4 => crashes = 0 /\ Cardinality(Plans) = 1

ProcGraphSymmetry == Permutations(Procs) \cup Permutations({g1, g2})
=============================================================================
