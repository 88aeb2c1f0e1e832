------------------------------ MODULE Routing ------------------------------
(***************************************************************************)
(* The mandatory model-call gateway (shiroe/routing/gateway.py), the       *)
(* entitlement table it consults (core/reasoning.py), the provider         *)
(* registry it resolves against (adapters/providers/base.py, __init__.py)  *)
(* and the refresh that rewrites that registry file                        *)
(* (adapters/providers/refresh.py).                                        *)
(*                                                                         *)
(* Gateway processes cache the registry on their first call.  A refresh    *)
(* reads the file, asks the provider which models exist, and writes the    *)
(* file back in place.  People edit the file in between.                   *)
(***************************************************************************)
EXTENDS Criticality

CONSTANTS Gateways,     \* processes that call the gateway
          Refreshers,   \* processes running `shiroe providers refresh`
          Tasks,        \* the tasks they classify, a subset of TaskSignals
          Registry0,    \* the shipped registry file
          MaxEdits,     \* bound: human edits of the registry file
          MaxChanges,   \* bound: changes of the provider's model list
          MaxKills      \* bound: killed processes

ASSUME TasksAssumption ==
  /\ Tasks \subseteq TaskSignals
  /\ MaxEdits \in Nat /\ MaxChanges \in Nat /\ MaxKills \in Nat

\* Reasoning classes, ranked as `order` in validate_request ranks them; the
\* two placement names that are also reasoning classes; no class asked for.
FAST == 1
BALANCED == 2
DEEP == 3
FRONTIER == 4
LOCAL_CLASS == 5
PRIVATE_CLASS == 6
REASONING_CLASSES == FAST..PRIVATE_CLASS
NoClass == 0

LIFECYCLE_STATES == {"active", "deprecated", "retired", "unknown"}

\* verified stands for verified_at and verified_by both being recorded.
Capabilities(models) ==
  [model : models, lifecycle : LIFECYCLE_STATES, verified : BOOLEAN]

NoModel == "none"
NoCapability == [model |-> NoModel, lifecycle |-> "unknown", verified |-> FALSE]

\* The registry maps some classes to a primary model and its fallback.
Mapped == DOMAIN Registry0
Models == {Registry0[c].primary.model : c \in Mapped}
            \cup {Registry0[c].fallback.model : c \in Mapped}
Registries ==
  [Mapped -> [primary : Capabilities(Models), fallback : Capabilities(Models)]]

\* The shipped file passes the checks with which base.py loads a registry.
ASSUME RegistryAssumption == Registry0 \in Registries

VARIABLES file,      \* the registry file when it parses
          torn,      \* truncated or garbled: json.loads raises
          listed,    \* the model ids the provider lists
          cache,     \* per process: the adapter in _cache, <<>> when absent
          granted,   \* the last decision of the gateway
          refresh,   \* per refresher: where it is and what it holds
          edits, changes, kills

rvars == <<file, torn, listed, cache, granted, refresh, edits, changes, kills>>

NotLoaded == <<>>
Nothing == [class |-> NoClass, model |-> NoModel, criticality |-> LOW,
            live |-> FALSE, unreviewed |-> FALSE, stale |-> FALSE]
AtRest == [stage |-> "idle", data |-> Registry0, ids |-> {}, stale |-> FALSE]

RoutingInit ==
  /\ file = Registry0
  /\ torn = FALSE
  /\ listed = Models \ {NoModel}
  /\ cache = [p \in Gateways |-> NotLoaded]
  /\ granted = Nothing
  /\ refresh = [r \in Refreshers |-> AtRest]
  /\ edits = 0 /\ changes = 0 /\ kills = 0
-----------------------------------------------------------------------------
(* Entitlement and resolution.                                               *)

\* _CRITICALITY_TO_CLASS ranks the classes as the levels are ranked.
resolve_class(criticality) ==
  CASE criticality = LOW -> FAST
    [] criticality = MEDIUM -> BALANCED
    [] criticality = HIGH -> DEEP
    [] criticality = CRITICAL -> FRONTIER

\* Mutant: one class above the entitlement passes.
PermitsOneUp(criticality, requested) ==
  requested =< resolve_class(criticality) + 1

\* validate_request returns the class asked for unless it costs more than the
\* criticality entitles to.
Permits(criticality, requested) ==
  requested =< resolve_class(criticality)

\* Mutant: a deprecated model counts as usable while it is verified.
FailsUnlessKnown(cap) == cap.lifecycle \in {"retired", "unknown"} \/ ~cap.verified

fails_closed(cap) == cap.lifecycle # "active" \/ ~cap.verified

\* resolve: the primary, or on a live call its one fallback, or on a dry run
\* the primary with a warning; NoModel stands for ReasoningPolicyError.
resolve(registry, class, live) ==
  IF class \notin Mapped THEN NoCapability
  ELSE LET entry == registry[class]
       IN  IF ~fails_closed(entry.primary) \/ ~live THEN entry.primary
           ELSE IF ~fails_closed(entry.fallback) THEN entry.fallback
           ELSE NoCapability
\* The adapter: made from the file by the first call, cached ever after.
get_provider(p) == IF cache[p] = NotLoaded THEN file ELSE cache[p]
-----------------------------------------------------------------------------
(* The gateway.                                                              *)

\* route, with the checks of ModelCallRequest: a placement named as a class and
\* a class above the entitlement are refused before the registry is touched; a
\* refusal after that leaves the adapter in the cache.  A call confined to this
\* machine is refused before the registry is touched too: it changes nothing.
route(p, c, requested, live, approved) ==
  LET class == IF requested = NoClass THEN resolve_class(c.criticality)
                                      ELSE requested
      registry == get_provider(p)
      spec == resolve(registry, class, live)
  IN  /\ requested \notin {LOCAL_CLASS, PRIVATE_CLASS}
      /\ Permits(c.criticality, class)
      /\ cache[p] = NotLoaded => ~torn
      /\ cache' = [cache EXCEPT ![p] = registry]
      /\ granted' = IF spec.model = NoModel THEN Nothing
                    ELSE [class |-> class, model |-> spec.model,
                          criticality |-> c.criticality, live |-> live,
                          unreviewed |-> c.flagged_for_review /\ ~approved,
                          stale |-> live /\ registry # file]
      /\ UNCHANGED <<file, torn, listed, refresh, edits, changes, kills>>

\* What follows the classification c: a flagged task needs an approval.
RouteClassified(p, c) ==
  \E requested \in REASONING_CLASSES \cup {NoClass}, live, approved \in BOOLEAN :
    /\ c.flagged_for_review => approved
    /\ route(p, c, requested, live, approved)

\* The caller states signals, the class it wants or none, whether it is a dry
\* run and whether a human has signed off; the criticality is not its own.
classify_and_route(p, s) == RouteClassified(p, classify(s))

\* route called directly: the caller states a criticality of its own, and
\* nothing is flagged that had to be approved.
RouteStated(p, criticality) ==
  \E requested \in REASONING_CLASSES \cup {NoClass}, live \in BOOLEAN :
    route(p, [criticality |-> criticality, flagged_for_review |-> FALSE],
          requested, live, TRUE)

\* A new process starts with an empty _cache.
Restart(p) ==
  /\ cache[p] # NotLoaded
  /\ cache' = [cache EXCEPT ![p] = NotLoaded]
  /\ UNCHANGED <<file, torn, listed, granted, refresh, edits, changes, kills>>
-----------------------------------------------------------------------------
(* The refresh.                                                              *)

\* Whoever still holds an earlier reading of the file now holds a stale one.
Overtaken(r) ==
  [q \in Refreshers |->
     IF q # r /\ refresh[q].stage # "idle"
       THEN [refresh[q] EXCEPT !.stale = TRUE] ELSE refresh[q]]

\* refresh_provider up to the request: the connector is enabled and the file
\* parses.
ReadRegistry(r) ==
  /\ refresh[r].stage = "idle"
  /\ ~torn
  /\ refresh' = [refresh EXCEPT
                   ![r] = [stage |-> "ask", data |-> file, ids |-> {},
                           stale |-> FALSE]]
  /\ UNCHANGED <<file, torn, listed, cache, granted, edits, changes, kills>>

\* _list_model_ids: the answer, or an HTTP or network error that ends the
\* refresh.
_list_model_ids(r) ==
  /\ refresh[r].stage = "ask"
  /\ \/ refresh' = [refresh EXCEPT ![r].stage = "apply", ![r].ids = listed]
     \/ refresh' = [refresh EXCEPT ![r] = AtRest]
  /\ UNCHANGED <<file, torn, listed, cache, granted, edits, changes, kills>>

\* Mutant: any listed model becomes active again.
ReopenIfListed(current, present) == IF present THEN "active" ELSE "retired"

_lifecycle_from_presence(current, present) ==
  IF present THEN IF current = "unknown" THEN "active" ELSE current
             ELSE "retired"

\* Mutant: an entry that is no longer listed is taken out of the file.
ApplyDropsRetired(data, ids) ==
  [c \in {d \in Mapped : data[d].primary.model \in ids} |-> data[c]]

\* The entries whose lifecycle changes are stamped verified by the api; a
\* fallback is never looked at.
_apply_refresh(data, ids) ==
  [c \in Mapped |->
     LET was == data[c].primary
         lifecycle == _lifecycle_from_presence(was.lifecycle, was.model \in ids)
     IN  IF lifecycle = was.lifecycle THEN data[c]
         ELSE [data[c] EXCEPT !.primary.lifecycle = lifecycle,
                              !.primary.verified = TRUE]]

\* Nothing changed: the file is not written.  Otherwise write_text opens it,
\* which truncates it.
ApplyRefresh(r) ==
  LET data == _apply_refresh(refresh[r].data, refresh[r].ids)
  IN  /\ refresh[r].stage = "apply"
      /\ \/ /\ data = refresh[r].data
            /\ refresh' = [refresh EXCEPT ![r] = AtRest]
            /\ UNCHANGED torn
         \/ /\ data # refresh[r].data
            /\ refresh' = [refresh EXCEPT ![r].stage = "write",
                                          ![r].data = data]
            /\ torn' = TRUE
      /\ UNCHANGED <<file, listed, cache, granted, edits, changes, kills>>

\* The text is written.  If someone completed a write after this one
\* truncated, the tail of the longer text may be left behind it.
WriteRegistry(r) ==
  /\ refresh[r].stage = "write"
  /\ file' = refresh[r].data
  /\ torn' \in IF torn THEN {FALSE} ELSE BOOLEAN
  /\ refresh' = [Overtaken(r) EXCEPT ![r] = AtRest]
  /\ UNCHANGED <<listed, cache, granted, edits, changes, kills>>
-----------------------------------------------------------------------------
(* Outside the code: the provider, people, and the operating system.         *)

\* The provider withdraws or lists a model.
ListChange(m) ==
  /\ changes < MaxChanges
  /\ changes' = changes + 1
  /\ listed' = IF m \in listed THEN listed \ {m} ELSE listed \cup {m}
  /\ UNCHANGED <<file, torn, cache, granted, refresh, edits, kills>>

\* A person records what they verified about a primary model, or restores a
\* file that no longer parses and records it there.
Edit(c, lifecycle) ==
  /\ edits < MaxEdits
  /\ edits' = edits + 1
  /\ file' = [file EXCEPT ![c].primary.lifecycle = lifecycle,
                          ![c].primary.verified = TRUE]
  /\ torn' = FALSE
  /\ refresh' = [r \in Refreshers |->
                   IF refresh[r].stage = "idle" THEN refresh[r]
                   ELSE [refresh[r] EXCEPT !.stale = TRUE]]
  /\ UNCHANGED <<listed, cache, granted, changes, kills>>

\* A refresh is killed; in its write it leaves the truncated file behind.
KillRefresh(r) ==
  /\ kills < MaxKills
  /\ refresh[r].stage # "idle"
  /\ kills' = kills + 1
  /\ refresh' = [refresh EXCEPT ![r] = AtRest]
  /\ UNCHANGED <<file, torn, listed, cache, granted, edits, changes>>

RoutingNext ==
  \/ \E p \in Gateways :
       \/ \E s \in Tasks : classify_and_route(p, s)
       \/ \E criticality \in CRITICALITIES : RouteStated(p, criticality)
       \/ Restart(p)
  \/ \E r \in Refreshers :
       \/ ReadRegistry(r)
       \/ _list_model_ids(r)
       \/ ApplyRefresh(r)
       \/ WriteRegistry(r)
       \/ KillRefresh(r)
  \/ \E m \in Models \ {NoModel} : ListChange(m)
  \/ \E c \in Mapped, lifecycle \in {"active", "deprecated"} :
       Edit(c, lifecycle)

RoutingSpec == RoutingInit /\ [][RoutingNext]_rvars
-----------------------------------------------------------------------------
\* The registry, the readings of it and the last decision are well formed.
RoutingTypeOK ==
  /\ file \in Registries
  /\ torn \in BOOLEAN
  /\ listed \subseteq Models
  /\ \A p \in Gateways : cache[p] = NotLoaded \/ cache[p] \in Registries
  /\ granted.class \in REASONING_CLASSES \cup {NoClass}
  /\ granted.model \in Models \cup {NoModel}
  /\ \A r \in Refreshers :
       /\ refresh[r].stage \in {"idle", "ask", "apply", "write"}
       /\ refresh[r].data \in Registries
       /\ refresh[r].ids \subseteq Models
  /\ edits \in 0..MaxEdits /\ changes \in 0..MaxChanges
  /\ kills \in 0..MaxKills

Closed(lifecycle) == lifecycle \in {"deprecated", "retired"}

\* A model recorded as deprecated or retired is opened again only by a
\* person, or by a refresh that writes back a reading older than the record:
\* continuing to be listed never reopens it, in however many refreshes.
ClosedStaysClosed ==
  [][\A c \in Mapped :
       Closed(file[c].primary.lifecycle) /\ ~Closed(file'[c].primary.lifecycle)
         => \/ edits' # edits
            \/ \E r \in Refreshers :
                 refresh[r].stage = "write" /\ refresh[r].stale
                   /\ refresh'[r].stage = "idle"]_rvars

\* A model the file vouches for: active and verified.
Usable(cap) == cap.lifecycle = "active" /\ cap.verified

\* The model of a live call is one the registry file vouches for at that
\* moment, the fallback only while the primary is not, unless the process
\* holds an adapter cached before the file changed: no interleaving of
\* refreshes, edits and restarts gives a freshly started process a model
\* that was recorded as closed.
LiveFromFileOrStaleCache ==
  [][granted' # granted /\ granted'.live /\ ~granted'.stale
       => LET e == file[granted'.class]
          IN  \/ e.primary.model = granted'.model /\ Usable(e.primary)
              \/ /\ e.fallback.model = granted'.model
                 /\ Usable(e.fallback) /\ ~Usable(e.primary)]_rvars

\* No model is handed out for a class the task's own criticality does not
\* pay for, and none for a flagged task that no human approved.
EntitlementHeld ==
  granted.model # NoModel =>
    /\ granted.class = FRONTIER => granted.criticality = CRITICAL
    /\ granted.class >= DEEP => granted.criticality >= HIGH
    /\ granted.class >= BALANCED => granted.criticality >= MEDIUM
    /\ ~granted.unreviewed
\* What the registry's readers and writers never do: reopen what was closed,
\* or hand out a model the file does not vouch for (refresh_provider,
\* JsonProviderAdapter.resolve).
RegistrySteps == ClosedStaysClosed /\ LiveFromFileOrStaleCache

\* Every model handed out is paid for and, where flagged, approved (route).
RoutingInv == RoutingTypeOK /\ EntitlementHeld
=============================================================================
