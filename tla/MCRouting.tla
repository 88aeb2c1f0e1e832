----------------------------- MODULE MCRouting -----------------------------
(***************************************************************************)
(* TLC instance of three components: a behaviour either grades one task    *)
(* over the whole space of signals (Criticality), or runs the gateway and  *)
(* the refreshes for a few tasks (Routing), which shares classify with it, *)
(* or memory and the handoffs compiled from it (Handoff).                  *)
(***************************************************************************)
EXTENDS Routing, Handoff, TLC

VARIABLE focus

Cap(m, lifecycle, verified) ==
  [model |-> m, lifecycle |-> lifecycle, verified |-> verified]

\* Two classes: a verified primary with a fallback that another class uses as
\* its primary, still unverified there.
SmallRegistry ==
  DEEP :> [primary |-> Cap("opus", "active", TRUE),
           fallback |-> Cap("fable", "active", TRUE)]
  @@ FRONTIER :> [primary |-> Cap("fable", "unknown", FALSE),
                  fallback |-> NoCapability]

\* An ambiguous task that is HIGH, which may ask for less.  A call that is not
\* flagged, or of another criticality, is one that states it.
SmallTasks ==
  {[DefaultSignals EXCEPT !.writes_canonical_state = TRUE, !.ambiguous = TRUE]}

Claim(s, p, text, label) ==
  [subject |-> s, polarity |-> p, text |-> text, label |-> label,
   complete |-> TRUE]

\* One claim that anyone may see, one for include_private, one for nobody.
Exportable == {Claim("sync", "none", "clean", "public-safe"),
               Claim("mail", "none", "sensitive", "private"),
               Claim("host", "none", "clean", "local-only")}

\* Bound: in a history with a kill everything happens in one second.
KillsInOneSecond == faults = 0 \/ second = 0

\* The processes that refresh the registry are those that export.
RefresherSymmetry == Permutations(Refreshers)

MCInit ==
  RoutingInit /\ CritInit /\ Init /\ focus \in {"grade", "route", "export"}

MCNext ==
  \/ focus = "grade" /\ CritNext /\ UNCHANGED <<rvars, vars, focus>>
  \/ focus = "route" /\ RoutingNext /\ UNCHANGED <<signals, vars, focus>>
  \/ focus = "export" /\ Next /\ UNCHANGED <<rvars, signals, focus>>

MCSpec == MCInit /\ [][MCNext]_<<rvars, signals, vars, focus>>
=============================================================================
