--------------------------- MODULE RoutingProofs ---------------------------
(* Machine-checked proofs about Criticality and Routing: the classifier      *)
(* fails upward for all tasks, and the gateway and the registry file keep    *)
(* their promises for any number of processes, refreshes, edits and kills    *)
(* and any shipped registry.                                                 *)
EXTENDS Routing, TLAPS
-----------------------------------------------------------------------------
(* The classifier.                                                           *)

\* When a rule forces each of the levels above LOW.
ForcesCritical(s) ==
  \/ s.is_public_claim /\ (s.claim_direction = "asserting" \/ ~s.reversible)
  \/ /\ s.financial_or_legal_impact
     /\ \/ s.financial_effect = "executes"
        \/ ~s.reversible
        \/ s.writes_canonical_state
  \/ s.schema_or_migration /\ s.writes_canonical_state
  \/ s.production_or_credential_access /\ ~s.reversible
  \/ ~s.reversible /\ Wide(s)
  \/ s.privacy_class = "restricted" /\ ~s.reversible

ForcesHigh(s) ==
  \/ s.is_public_claim \/ s.financial_or_legal_impact
  \/ s.writes_canonical_state
  \/ s.schema_or_migration /\ (s.environment = "production" \/ ~s.reversible)
  \/ s.production_or_credential_access
  \/ Wide(s)
  \/ Sensitive(s) /\ s.blast_radius # "local"

ForcesMedium(s) ==
  \/ s.schema_or_migration \/ Sensitive(s) \/ ~s.reversible
  \/ /\ s.blast_radius = "team"
     /\ \/ s.environment = "production"
        \/ ~s.reversible
        \/ s.change_shape = "breaking"

\* Those are the floors of the rules.
LEMMA FloorsOf ==
  ASSUME NEW s \in TaskSignals
  PROVE  /\ Floors(s) \subseteq {MEDIUM, HIGH, CRITICAL}
         /\ CRITICAL \in Floors(s) <=> ForcesCritical(s)
         /\ HIGH \in Floors(s) <=> ForcesHigh(s)
         /\ MEDIUM \in Floors(s) <=> ForcesMedium(s)
<1>1. \A n : n \in Floors(s) <=>
               \E q \in CriticalTriggers(s) \cup HighTriggers(s)
                          \cup MediumTriggers(s) : q[1] /\ q[2] = n
  BY DEF Floors
<1>2. /\ \A q \in CriticalTriggers(s) \cup HighTriggers(s) \cup MediumTriggers(s) :
           q[2] \in {MEDIUM, HIGH, CRITICAL}
      /\ MEDIUM # HIGH /\ HIGH # CRITICAL /\ MEDIUM # CRITICAL
  BY DEF CriticalTriggers, HighTriggers, MediumTriggers, MEDIUM, HIGH, CRITICAL
<1>3. (\E q \in CriticalTriggers(s) : q[1] /\ q[2] = CRITICAL) <=> ForcesCritical(s)
  <2> DEFINE a == s.is_public_claim
                    /\ (s.claim_direction = "asserting" \/ ~s.reversible)
             b == s.financial_or_legal_impact
                    /\ (\/ s.financial_effect = "executes"
                        \/ ~s.reversible
                        \/ s.writes_canonical_state)
             c == s.schema_or_migration /\ s.writes_canonical_state
             d == s.production_or_credential_access /\ ~s.reversible
             e == ~s.reversible /\ Wide(s)
             f == s.privacy_class = "restricted" /\ ~s.reversible
  <2>1. CriticalTriggers(s) = {<<a, CRITICAL>>, <<s.is_public_claim, HIGH>>,
          <<b, CRITICAL>>, <<s.financial_or_legal_impact, HIGH>>,
          <<c, CRITICAL>>, <<d, CRITICAL>>, <<e, CRITICAL>>, <<f, CRITICAL>>}
    BY DEF CriticalTriggers
  <2>2. ForcesCritical(s) <=> a \/ b \/ c \/ d \/ e \/ f
    BY DEF ForcesCritical
  <2>3. {a, b, c, d, e, f} \subseteq BOOLEAN
    OBVIOUS
  <2> HIDE DEF a, b, c, d, e, f
  <2> QED
    BY <1>2, <2>1, <2>2, <2>3
<1>4. ~\E q \in HighTriggers(s) \cup MediumTriggers(s) : q[2] = CRITICAL
  BY <1>2 DEF HighTriggers, MediumTriggers
<1>5. (\E q \in CriticalTriggers(s) : q[1] /\ q[2] = HIGH)
        <=> s.is_public_claim \/ s.financial_or_legal_impact
  BY <1>2 DEF CriticalTriggers
<1>6. (\E q \in HighTriggers(s) : q[1] /\ q[2] = HIGH)
        <=> \/ s.writes_canonical_state
            \/ s.schema_or_migration
                 /\ (s.environment = "production" \/ ~s.reversible)
            \/ s.production_or_credential_access
            \/ Wide(s)
            \/ Sensitive(s) /\ s.blast_radius # "local"
  <2> DEFINE a == s.schema_or_migration
                    /\ (s.environment = "production" \/ ~s.reversible)
             b == Sensitive(s) /\ s.blast_radius # "local"
             w == Wide(s)
             v == Sensitive(s)
  <2>1. HighTriggers(s) = {<<s.writes_canonical_state, HIGH>>, <<a, HIGH>>,
          <<s.schema_or_migration, MEDIUM>>,
          <<s.production_or_credential_access, HIGH>>, <<w, HIGH>>,
          <<b, HIGH>>, <<v, MEDIUM>>}
    BY DEF HighTriggers
  <2>2. {a, b, w, v} \subseteq BOOLEAN
    BY DEF Wide, Sensitive
  <2> HIDE DEF a, b, w, v
  <2>3. (\E q \in HighTriggers(s) : q[1] /\ q[2] = HIGH)
          <=> \/ s.writes_canonical_state \/ a
              \/ s.production_or_credential_access \/ w \/ b
    BY <1>2, <2>1, <2>2
  <2> QED
    BY <2>3 DEF a, b, w
<1>7. (\E q \in HighTriggers(s) : q[1] /\ q[2] = MEDIUM)
        <=> s.schema_or_migration \/ Sensitive(s)
  BY <1>2 DEF HighTriggers
<1>8. /\ ~\E q \in CriticalTriggers(s) : q[2] = MEDIUM
      /\ ~\E q \in MediumTriggers(s) : q[2] = HIGH
  BY <1>2 DEF CriticalTriggers, MediumTriggers
<1>9. (\E q \in MediumTriggers(s) : q[1] /\ q[2] = MEDIUM)
        <=> \/ ~s.reversible
            \/ /\ s.blast_radius = "team"
               /\ \/ s.environment = "production"
                  \/ ~s.reversible
                  \/ s.change_shape = "breaking"
  <2> DEFINE a == s.blast_radius = "team"
                    /\ (\/ s.environment = "production"
                        \/ ~s.reversible
                        \/ s.change_shape = "breaking")
             b == ~s.reversible
  <2>1. MediumTriggers(s) = {<<b, MEDIUM>>, <<a, MEDIUM>>}
    BY DEF MediumTriggers
  <2>2. {a, b} \subseteq BOOLEAN
    OBVIOUS
  <2> HIDE DEF a, b
  <2>3. (\E q \in MediumTriggers(s) : q[1] /\ q[2] = MEDIUM) <=> b \/ a
    BY <2>1, <2>2
  <2> QED
    BY <2>3 DEF a, b
<1> QED
  BY <1>1, <1>2, <1>3, <1>4, <1>5, <1>6, <1>7, <1>8, <1>9 DEF ForcesHigh, ForcesMedium

\* The level is the highest floor.
LEMMA LevelOf ==
  ASSUME NEW s \in TaskSignals
  PROVE  /\ classify(s).criticality =
              IF ForcesCritical(s) THEN CRITICAL ELSE IF ForcesHigh(s) THEN HIGH
              ELSE IF ForcesMedium(s) THEN MEDIUM ELSE LOW
         /\ classify(s).flagged_for_review
              <=> s.ambiguous /\ (ForcesCritical(s) \/ ForcesHigh(s))
<1> DEFINE S == Floors(s) \cup {LOW}
           top == IF ForcesCritical(s) THEN 4 ELSE IF ForcesHigh(s) THEN 3
                  ELSE IF ForcesMedium(s) THEN 2 ELSE 1
<1>1. top \in S /\ \A y \in S : y \in 1..4 /\ top >= y
  BY FloorsOf DEF LOW, MEDIUM, HIGH, CRITICAL
<1>2. \A x \in S : (\A y \in S : x >= y) => x = top
  <2> SUFFICES ASSUME NEW x \in S, \A y \in S : x >= y PROVE x = top
    OBVIOUS
  <2>1. x \in 1..4 /\ top \in 1..4 /\ x >= top /\ top >= x
    BY <1>1
  <2> HIDE DEF top
  <2> QED
    BY <2>1
<1>3. Max(S) = top
  <2> HIDE DEF S, top
  <2> QED
    BY <1>1, <1>2 DEF Max
<1>4. classify(s) = [criticality |-> top,
        flagged_for_review |-> s.ambiguous /\ top \in {HIGH, CRITICAL}]
  BY <1>3 DEF classify
<1>5. s.ambiguous \in BOOLEAN
  BY DEF TaskSignals
<1>6. classify(s).criticality = top
  BY <1>4
<1>7. classify(s).flagged_for_review <=> s.ambiguous /\ top \in {HIGH, CRITICAL}
  <2> DEFINE flag == s.ambiguous /\ top \in {HIGH, CRITICAL}
  <2>1. classify(s) = [criticality |-> top, flagged_for_review |-> flag]
    BY <1>4
  <2> HIDE DEF flag, top
  <2>2. classify(s).flagged_for_review = flag
    BY <2>1
  <2> QED
    BY <2>2 DEF flag
<1> QED
  BY <1>5, <1>6, <1>7 DEF LOW, MEDIUM, HIGH, CRITICAL

\* A task that is at least as dangerous is classified at least as high, and the
\* flag for review stays, for any two tasks.
LEMMA ClassifyMonotone ==
  ASSUME NEW s \in TaskSignals, NEW t \in TaskSignals, AtLeast(s, t)
  PROVE  /\ classify(s).criticality >= classify(t).criticality
         /\ classify(t).flagged_for_review => classify(s).flagged_for_review
<1>1. /\ s.reversible => t.reversible
      /\ t.is_public_claim => s.is_public_claim
      /\ t.schema_or_migration => s.schema_or_migration
      /\ t.production_or_credential_access => s.production_or_credential_access
      /\ t.financial_or_legal_impact => s.financial_or_legal_impact
      /\ t.writes_canonical_state => s.writes_canonical_state
      /\ t.ambiguous => s.ambiguous
      /\ t.change_shape = "breaking" => s.change_shape = "breaking"
      /\ t.claim_direction = "asserting" => s.claim_direction = "asserting"
      /\ t.financial_effect = "executes" => s.financial_effect = "executes"
  BY DEF AtLeast
<1>2. /\ s.blast_radius \in BLAST_RADII /\ t.blast_radius \in BLAST_RADII
      /\ s.privacy_class \in PRIVACY_CLASSES /\ t.privacy_class \in PRIVACY_CLASSES
      /\ s.environment \in ENVIRONMENTS /\ t.environment \in ENVIRONMENTS
  BY DEF TaskSignals
<1>3. /\ Wide(t) => Wide(s)
      /\ t.blast_radius = "team" => s.blast_radius = "team" \/ Wide(s)
      /\ t.blast_radius # "local" => s.blast_radius # "local"
  <2>1. \A v \in BLAST_RADII :
          /\ v = "local" => BlastRank(v) = 0
          /\ v = "team" => BlastRank(v) = 1
          /\ v = "org" => BlastRank(v) = 2
          /\ v = "public" => BlastRank(v) = 3
    BY DEF BlastRank, BLAST_RADII
  <2>2. BlastRank(t.blast_radius) =< BlastRank(s.blast_radius)
    BY DEF AtLeast
  <2>3. \A v, w \in BLAST_RADII : BlastRank(w) =< BlastRank(v)
          => /\ w \in {"org", "public"} => v \in {"org", "public"}
             /\ w = "team" => v # "local"
             /\ w # "local" => v # "local"
    BY <2>1 DEF BLAST_RADII
  <2> QED
    BY <1>2, <2>2, <2>3 DEF Wide, BLAST_RADII
<1>4. /\ Sensitive(t) => Sensitive(s)
      /\ t.privacy_class = "restricted" => s.privacy_class = "restricted"
  BY <1>2 DEF AtLeast, Sensitive, PrivacyRank, PRIVACY_CLASSES
<1>5. t.environment = "production" => s.environment = "production"
  BY <1>2 DEF AtLeast, EnvironmentRank, ENVIRONMENTS
<1>6. ForcesCritical(t) => ForcesCritical(s)
  BY <1>1, <1>3, <1>4 DEF ForcesCritical
<1>7. ForcesHigh(t) => ForcesHigh(s)
  BY <1>1, <1>3, <1>4, <1>5 DEF ForcesHigh
<1>8. ForcesMedium(t) => ForcesMedium(s) \/ ForcesHigh(s)
  BY <1>1, <1>3, <1>4, <1>5 DEF ForcesMedium, ForcesHigh
<1> QED
  BY <1>1, <1>6, <1>7, <1>8, LevelOf DEF LOW, MEDIUM, HIGH, CRITICAL

\* The classifier is asked about signals.
SignalsOK == signals \in TaskSignals

\* The drafted description is always one the classifier accepts.
LEMMA SignalsTyped ==
  ASSUME SignalsOK, [CritNext]_signals
  PROVE  SignalsOK'
<1> SUFFICES ASSUME signals \in TaskSignals PROVE signals' \in TaskSignals
  BY DEF SignalsOK
<1>1. CASE signals' = signals
  BY <1>1
<1>2. CASE GradeIt
  BY <1>2 DEF GradeIt, TaskSignals
<1>3. CASE Restate
  <2>1. CASE \E v \in BLAST_RADII : signals' = [signals EXCEPT !.blast_radius = v]
    BY <2>1 DEF TaskSignals
  <2>2. CASE \E v \in PRIVACY_CLASSES :
               signals' = [signals EXCEPT !.privacy_class = v]
    BY <2>2 DEF TaskSignals
  <2>3. ASSUME NEW f \in {"reversible", "is_public_claim", "schema_or_migration",
                 "production_or_credential_access", "financial_or_legal_impact",
                 "writes_canonical_state", "ambiguous"},
               signals' = [signals EXCEPT ![f] = ~signals[f]]
        PROVE  signals' \in TaskSignals
    <3>1. CASE f = "reversible"
      BY <2>3, <3>1 DEF TaskSignals
    <3>2. CASE f = "is_public_claim"
      BY <2>3, <3>2 DEF TaskSignals
    <3>3. CASE f = "schema_or_migration"
      BY <2>3, <3>3 DEF TaskSignals
    <3>4. CASE f = "production_or_credential_access"
      BY <2>3, <3>4 DEF TaskSignals
    <3>5. CASE f = "financial_or_legal_impact"
      BY <2>3, <3>5 DEF TaskSignals
    <3>6. CASE f = "writes_canonical_state"
      BY <2>3, <3>6 DEF TaskSignals
    <3>7. CASE f = "ambiguous"
      BY <2>3, <3>7 DEF TaskSignals
    <3> QED
      BY <3>1, <3>2, <3>3, <3>4, <3>5, <3>6, <3>7
  <2> QED
    BY <1>3, <2>1, <2>2, <2>3 DEF Restate
<1> QED
  BY <1>1, <1>2, <1>3 DEF CritNext

\* "Fail upward", over every draft of a task: a signal that makes it more
\* dangerous never lowers its criticality and never takes the flag away
\* (classify, the graded rules).
THEOREM FailsUpward == CritSpec => FailUpward
<1>1. CritInit => SignalsOK
  BY DEF SignalsOK, CritInit, DefaultSignals, TaskSignals, BLAST_RADII, PRIVACY_CLASSES,
         ENVIRONMENTS, CHANGE_SHAPES, CLAIM_DIRECTIONS, FINANCIAL_EFFECTS
<1>2. SignalsOK /\ [CritNext]_signals => SignalsOK'
  BY SignalsTyped
<1>3. SignalsOK /\ SignalsOK'
        => [AtLeast(signals', signals) =>
              /\ classify(signals').criticality >= classify(signals).criticality
              /\ classify(signals).flagged_for_review
                   => classify(signals').flagged_for_review]_signals
  BY ClassifyMonotone DEF SignalsOK
<1> QED
  BY <1>1, <1>2, <1>3, PTL DEF CritSpec, FailUpward
-----------------------------------------------------------------------------
(* The registry.                                                             *)

Entries == [primary : Capabilities(Models), fallback : Capabilities(Models)]

RefreshStates ==
  [stage : {"idle", "ask", "apply", "write"}, data : Registries,
   ids : SUBSET Models, stale : BOOLEAN]

\* A refresh that nobody overtook holds what is in the file: as it read it, or
\* with the provider's answer applied to it.
ReadingsCurrent ==
  \A r \in Refreshers :
    ~refresh[r].stale =>
      /\ refresh[r].stage \in {"ask", "apply"} => refresh[r].data = file
      /\ refresh[r].stage = "write"
           => refresh[r].data = _apply_refresh(file, refresh[r].ids)

\* The inductive invariant.
Inv ==
  /\ RoutingTypeOK /\ EntitlementHeld /\ ReadingsCurrent
  /\ cache \in [Gateways -> Registries \cup {NotLoaded}]
  /\ refresh \in [Refreshers -> RefreshStates]

\* An entry with another lifecycle for its primary is an entry.
LEMMA EntryUpdate ==
  ASSUME NEW e \in Entries, NEW lifecycle \in LIFECYCLE_STATES
  PROVE  /\ [e EXCEPT !.primary.lifecycle = lifecycle,
                      !.primary.verified = TRUE] \in Entries
         /\ [e EXCEPT !.primary.lifecycle = lifecycle,
                      !.primary.verified = TRUE].primary.lifecycle = lifecycle
<1>1. e.primary \in Capabilities(Models) /\ e.fallback \in Capabilities(Models)
  BY DEF Entries
<1> DEFINE p == [e.primary EXCEPT !.lifecycle = lifecycle, !.verified = TRUE]
<1>2. p \in Capabilities(Models) /\ p.lifecycle = lifecycle
  BY <1>1 DEF Capabilities
<1>3. [e EXCEPT !.primary.lifecycle = lifecycle, !.primary.verified = TRUE]
        = [e EXCEPT !.primary = p]
  BY DEF Entries
<1> HIDE DEF p
<1> QED
  BY <1>1, <1>2, <1>3 DEF Entries

\* _apply_refresh gives a registry in which every closed model is still closed.
LEMMA ApplyRefreshed ==
  ASSUME NEW data \in Registries, NEW ids
  PROVE  /\ _apply_refresh(data, ids) \in Registries
         /\ \A c \in Mapped :
              Closed(data[c].primary.lifecycle)
                => Closed(_apply_refresh(data, ids)[c].primary.lifecycle)
<1> SUFFICES ASSUME NEW c \in Mapped
             PROVE  /\ _apply_refresh(data, ids)[c] \in Entries
                    /\ Closed(data[c].primary.lifecycle)
                         => Closed(_apply_refresh(data, ids)[c].primary.lifecycle)
  BY DEF _apply_refresh, Registries, Entries
<1> DEFINE was == data[c].primary
           new == _lifecycle_from_presence(was.lifecycle, was.model \in ids)
<1>1. data[c] \in Entries /\ was.lifecycle \in LIFECYCLE_STATES
  BY DEF Registries, Entries, Capabilities
<1>2. /\ new \in LIFECYCLE_STATES
      /\ Closed(was.lifecycle) => Closed(new)
  BY <1>1 DEF _lifecycle_from_presence, LIFECYCLE_STATES, Closed
<1>3. _apply_refresh(data, ids)[c] =
        IF new = was.lifecycle THEN data[c]
        ELSE [data[c] EXCEPT !.primary.lifecycle = new, !.primary.verified = TRUE]
  BY DEF _apply_refresh
<1>4. /\ [data[c] EXCEPT !.primary.lifecycle = new, !.primary.verified = TRUE]
           \in Entries
      /\ [data[c] EXCEPT !.primary.lifecycle = new,
                         !.primary.verified = TRUE].primary.lifecycle = new
  BY <1>1, <1>2, EntryUpdate
<1> HIDE DEF new
<1>5. CASE new = was.lifecycle
  BY <1>1, <1>3, <1>5
<1>6. CASE new # was.lifecycle
  BY <1>2, <1>3, <1>4, <1>6
<1> QED
  BY <1>5, <1>6

\* What resolve finds is a model of the registry; on a live call the file
\* vouches for it.
LEMMA Resolved ==
  ASSUME NEW registry \in Registries, NEW class, NEW live \in BOOLEAN
  PROVE  /\ resolve(registry, class, live).model \in Models \cup {NoModel}
         /\ live /\ resolve(registry, class, live).model # NoModel
              => /\ class \in Mapped
                 /\ \/ /\ resolve(registry, class, live) = registry[class].primary
                       /\ Usable(registry[class].primary)
                    \/ /\ resolve(registry, class, live) = registry[class].fallback
                       /\ Usable(registry[class].fallback)
                       /\ ~Usable(registry[class].primary)
<1>1. CASE class \notin Mapped
  BY <1>1 DEF resolve, NoCapability
<1>2. CASE class \in Mapped
  <2>1. /\ registry[class].primary \in Capabilities(Models)
        /\ registry[class].fallback \in Capabilities(Models)
    BY <1>2 DEF Registries
  <2>2. \A cap \in Capabilities(Models) :
          cap.model \in Models /\ (fails_closed(cap) <=> ~Usable(cap))
    BY DEF Capabilities, fails_closed, Usable
  <2> QED
    BY <1>2, <2>1, <2>2 DEF resolve, NoCapability
<1> QED
  BY <1>1, <1>2

\* The criticality of a task and the class it entitles to.
LEMMA Entitled ==
  ASSUME NEW s \in TaskSignals
  PROVE  /\ classify(s).criticality \in CRITICALITIES
         /\ resolve_class(classify(s).criticality) = classify(s).criticality
<1>1. classify(s).criticality \in {1, 2, 3, 4}
  BY LevelOf DEF LOW, MEDIUM, HIGH, CRITICAL
<1> QED
  BY <1>1 DEF CRITICALITIES, LOW, MEDIUM, HIGH, CRITICAL, resolve_class,
              FAST, BALANCED, DEEP, FRONTIER

\* What the gateway decides about: the classification of a task, or the
\* criticality a caller states.
Graded(c) == c.criticality \in 1..4 /\ resolve_class(c.criticality) = c.criticality

\* Both ways into the gateway end in route, with the approval a flagged task
\* needs.
LEMMA RoutedAs ==
  ASSUME NEW p \in Gateways,
         \/ \E s \in Tasks : classify_and_route(p, s)
         \/ \E criticality \in CRITICALITIES : RouteStated(p, criticality)
  PROVE  \E c : /\ Graded(c)
                /\ \E requested \in REASONING_CLASSES \cup {NoClass},
                      live \in BOOLEAN, approved \in BOOLEAN :
                     /\ c.flagged_for_review => approved
                     /\ route(p, c, requested, live, approved)
<1>1. ASSUME NEW s \in Tasks, classify_and_route(p, s)
      PROVE  \E c : /\ Graded(c)
                    /\ \E requested \in REASONING_CLASSES \cup {NoClass},
                          live \in BOOLEAN, approved \in BOOLEAN :
                         /\ c.flagged_for_review => approved
                         /\ route(p, c, requested, live, approved)
  <2> DEFINE c == classify(s)
  <2>1. s \in TaskSignals
    BY TasksAssumption
  <2>2. Graded(c)
    BY <2>1, Entitled DEF Graded, CRITICALITIES, LOW, CRITICAL
  <2>3. \E requested \in REASONING_CLASSES \cup {NoClass}, live \in BOOLEAN,
           approved \in BOOLEAN :
          /\ c.flagged_for_review => approved
          /\ route(p, c, requested, live, approved)
    BY <1>1 DEF classify_and_route, RouteClassified
  <2> HIDE DEF c
  <2> QED
    BY <2>2, <2>3
<1>2. ASSUME NEW level \in CRITICALITIES, RouteStated(p, level)
      PROVE  \E c : /\ Graded(c)
                    /\ \E requested \in REASONING_CLASSES \cup {NoClass},
                          live \in BOOLEAN, approved \in BOOLEAN :
                         /\ c.flagged_for_review => approved
                         /\ route(p, c, requested, live, approved)
  <2> DEFINE c == [criticality |-> level, flagged_for_review |-> FALSE]
  <2>1. Graded(c)
    <3>1. level \in {1, 2, 3, 4}
      BY DEF CRITICALITIES, LOW, MEDIUM, HIGH, CRITICAL
    <3> QED
      BY <3>1 DEF Graded, LOW, MEDIUM, HIGH, CRITICAL, resolve_class,
                  FAST, BALANCED, DEEP, FRONTIER
  <2>2. PICK requested \in REASONING_CLASSES \cup {NoClass}, live \in BOOLEAN :
          route(p, c, requested, live, TRUE)
    BY <1>2 DEF RouteStated
  <2> HIDE DEF c
  <2> QED
    BY <2>1, <2>2
<1> QED
  BY <1>1, <1>2

\* A decision of the gateway, and the adapter it was taken with.
LEMMA RoutePreserves ==
  ASSUME Inv, NEW p \in Gateways,
         \/ \E s \in Tasks : classify_and_route(p, s)
         \/ \E criticality \in CRITICALITIES : RouteStated(p, criticality)
  PROVE  Inv'
<1>1. PICK c : /\ Graded(c)
               /\ \E requested \in REASONING_CLASSES \cup {NoClass},
                     live \in BOOLEAN, approved \in BOOLEAN :
                    /\ c.flagged_for_review => approved
                    /\ route(p, c, requested, live, approved)
  BY RoutedAs
<1>2. PICK requested \in REASONING_CLASSES \cup {NoClass}, live \in BOOLEAN,
           approved \in BOOLEAN :
        /\ c.flagged_for_review => approved
        /\ route(p, c, requested, live, approved)
  BY <1>1
<1> DEFINE class == IF requested = NoClass THEN resolve_class(c.criticality)
                    ELSE requested
           registry == get_provider(p)
           spec == resolve(registry, class, live)
<1>3. registry \in Registries
  BY DEF get_provider, Inv, RoutingTypeOK
<1>4. c.criticality \in 1..4 /\ resolve_class(c.criticality) = c.criticality
  BY <1>1 DEF Graded
<1>5. /\ class \in REASONING_CLASSES /\ class <= c.criticality
      /\ spec.model \in Models \cup {NoModel}
  <2>1. class \in REASONING_CLASSES
    BY <1>4 DEF REASONING_CLASSES, FAST, PRIVATE_CLASS, NoClass
  <2>2. class <= c.criticality
    BY <1>2, <1>4 DEF route, Permits
  <2> QED
    BY <1>3, <2>1, <2>2, Resolved
<1>6. granted' = IF spec.model = NoModel THEN Nothing
                 ELSE [class |-> class, model |-> spec.model,
                       criticality |-> c.criticality, live |-> live,
                       unreviewed |-> c.flagged_for_review /\ ~approved,
                       stale |-> live /\ registry # file]
  BY <1>2 DEF route
<1>7. /\ granted'.class \in REASONING_CLASSES \cup {NoClass}
      /\ granted'.model \in Models \cup {NoModel}
      /\ granted'.model # NoModel
           => granted'.class <= granted'.criticality /\ ~granted'.unreviewed
                /\ granted'.criticality \in 1..4
  <2>1. CASE spec.model = NoModel
    BY <1>6, <2>1 DEF Nothing
  <2>2. CASE spec.model # NoModel
    <3> DEFINE u == c.flagged_for_review /\ ~approved
               st == live /\ registry # file
    <3>1. granted' = [class |-> class, model |-> spec.model,
                      criticality |-> c.criticality, live |-> live,
                      unreviewed |-> u, stale |-> st]
      BY <1>6, <2>2
    <3>2. ~u
      BY <1>2
    <3> HIDE DEF u, st, class, spec, registry
    <3> QED
      BY <1>4, <1>5, <3>1, <3>2
  <2> QED
    BY <2>1, <2>2
<1>8. /\ cache' = [cache EXCEPT ![p] = registry]
      /\ UNCHANGED <<file, torn, listed, refresh, edits, changes, kills>>
  BY <1>2 DEF route
<1> HIDE DEF registry, spec, class
<1>9. cache' \in [Gateways -> Registries \cup {NotLoaded}]
  BY <1>3, <1>8 DEF Inv
<1>10. RoutingTypeOK'
  BY <1>7, <1>8, <1>9 DEF Inv, RoutingTypeOK
<1>11. EntitlementHeld'
  BY <1>7 DEF EntitlementHeld, BALANCED, DEEP, FRONTIER, MEDIUM, HIGH, CRITICAL,
              REASONING_CLASSES, NoClass, FAST, PRIVATE_CLASS
<1> QED
  BY <1>8, <1>9, <1>10, <1>11 DEF Inv, ReadingsCurrent

\* The refreshes, whose own state changes while the file does not.
LEMMA RefreshMoves ==
  ASSUME Inv, NEW r \in Refreshers, NEW v \in RefreshStates,
         refresh' = [refresh EXCEPT ![r] = v],
         ~v.stale => /\ v.stage \in {"ask", "apply"} => v.data = file
                     /\ v.stage = "write"
                          => v.data = _apply_refresh(file, v.ids),
         torn' \in BOOLEAN, kills' \in 0..MaxKills,
         UNCHANGED <<file, listed, cache, granted, edits, changes>>
  PROVE  Inv'
<1>1. /\ refresh' \in [Refreshers -> RefreshStates]
      /\ \A q \in Refreshers : refresh'[q] = IF q = r THEN v ELSE refresh[q]
  BY DEF Inv
<1>2. RoutingTypeOK'
  BY <1>1 DEF Inv, RoutingTypeOK, RefreshStates
<1>3. ReadingsCurrent'
  BY <1>1 DEF Inv, ReadingsCurrent
<1> QED
  BY <1>1, <1>2, <1>3 DEF Inv, EntitlementHeld

\* A refresh at rest holds the shipped registry and knows no model list.
LEMMA Resting == AtRest \in RefreshStates /\ AtRest.stage = "idle"
BY RegistryAssumption DEF AtRest, RefreshStates

\* Every step of a refresh that leaves the file alone keeps the invariant.
LEMMA RefreshPreserves ==
  ASSUME Inv, NEW r \in Refreshers,
         \/ ReadRegistry(r) \/ _list_model_ids(r) \/ ApplyRefresh(r) \/ KillRefresh(r)
  PROVE  Inv'
<1>1. /\ refresh[r] \in RefreshStates /\ file \in Registries /\ torn \in BOOLEAN
      /\ kills \in 0..MaxKills /\ MaxKills \in Nat /\ listed \subseteq Models
  BY TasksAssumption DEF Inv, RoutingTypeOK
<1>2. CASE ReadRegistry(r)
  <2> DEFINE v == [stage |-> "ask", data |-> file, ids |-> {}, stale |-> FALSE]
  <2>1. v \in RefreshStates /\ v.data = file /\ v.stage = "ask"
    BY <1>1 DEF RefreshStates
  <2>2. refresh' = [refresh EXCEPT ![r] = v]
    BY <1>2 DEF ReadRegistry
  <2> HIDE DEF v
  <2> QED
    BY <1>1, <1>2, <2>1, <2>2, RefreshMoves DEF ReadRegistry
<1>3. CASE _list_model_ids(r)
  <2>1. CASE refresh' = [refresh EXCEPT ![r].stage = "apply", ![r].ids = listed]
    <3> DEFINE v == [refresh[r] EXCEPT !.stage = "apply", !.ids = listed]
    <3>1. /\ v \in RefreshStates /\ v.stage = "apply"
          /\ v.data = refresh[r].data /\ v.stale = refresh[r].stale
      BY <1>1 DEF RefreshStates
    <3>2. refresh' = [refresh EXCEPT ![r] = v]
      BY <2>1
    <3> HIDE DEF v
    <3>3. ~v.stale => v.data = file
      BY <1>3, <3>1 DEF Inv, ReadingsCurrent, _list_model_ids
    <3> QED
      BY <1>1, <1>3, <3>1, <3>2, <3>3, RefreshMoves DEF _list_model_ids
  <2>2. CASE refresh' = [refresh EXCEPT ![r] = AtRest]
    BY <1>1, <1>3, <2>2, Resting, RefreshMoves DEF _list_model_ids
  <2> QED
    BY <1>3, <2>1, <2>2 DEF _list_model_ids
<1>4. CASE ApplyRefresh(r)
  <2> DEFINE data == _apply_refresh(refresh[r].data, refresh[r].ids)
  <2>1. refresh[r].data \in Registries /\ data \in Registries
    BY <1>1, ApplyRefreshed DEF RefreshStates
  <2>2. CASE data = refresh[r].data
    <3>1. /\ refresh' = [refresh EXCEPT ![r] = AtRest] /\ torn' = torn
      BY <1>4, <2>2 DEF ApplyRefresh
    <3> QED
      BY <1>1, <1>4, <3>1, Resting, RefreshMoves DEF ApplyRefresh
  <2>3. CASE data # refresh[r].data
    <3> DEFINE v == [refresh[r] EXCEPT !.stage = "write", !.data = data]
    <3>1. refresh' = [refresh EXCEPT ![r] = v] /\ torn' = TRUE
      BY <1>4, <2>3 DEF ApplyRefresh
    <3>2. /\ v \in RefreshStates /\ v.stage = "write" /\ v.data = data
          /\ v.ids = refresh[r].ids /\ v.stale = refresh[r].stale
      <4> HIDE DEF data
      <4> QED
        BY <1>1, <2>1 DEF RefreshStates
    <3>3. ~v.stale => v.data = _apply_refresh(file, v.ids)
      <4>1. ~refresh[r].stale => refresh[r].data = file
        BY <1>4 DEF Inv, ReadingsCurrent, ApplyRefresh
      <4> QED
        BY <3>2, <4>1
    <3> HIDE DEF v
    <3> QED
      BY <1>1, <1>4, <3>1, <3>2, <3>3, RefreshMoves DEF ApplyRefresh
  <2> QED
    BY <2>2, <2>3
<1>5. CASE KillRefresh(r)
  <2>1. kills' \in 0..MaxKills
    BY <1>1, <1>5 DEF KillRefresh
  <2> QED
    BY <1>1, <1>5, <2>1, Resting, RefreshMoves DEF KillRefresh
<1> QED
  BY <1>2, <1>3, <1>4, <1>5

\* The file changes: everybody else who holds a reading holds a stale one.
LEMMA FileChanges ==
  ASSUME Inv, file' \in Registries,
         torn' \in BOOLEAN, edits' \in 0..MaxEdits,
         refresh' \in [Refreshers -> RefreshStates],
         \A q \in Refreshers :
           refresh'[q].stage = "idle" \/ refresh'[q].stale,
         UNCHANGED <<listed, cache, granted, changes, kills>>
  PROVE  Inv'
<1>1. RoutingTypeOK'
  BY DEF Inv, RoutingTypeOK, RefreshStates
<1>2. ReadingsCurrent'
  BY DEF ReadingsCurrent
<1> QED
  BY <1>1, <1>2 DEF Inv, EntitlementHeld

\* WriteRegistry is such a step,
LEMMA WritePreserves ==
  ASSUME Inv, NEW r \in Refreshers, WriteRegistry(r)
  PROVE  Inv'
<1>1. /\ refresh \in [Refreshers -> RefreshStates] /\ refresh[r].data \in Registries
      /\ edits \in 0..MaxEdits
  BY DEF Inv, RoutingTypeOK
<1>2. \A q \in Refreshers :
        /\ [refresh[q] EXCEPT !.stale = TRUE] \in RefreshStates
        /\ [refresh[q] EXCEPT !.stale = TRUE].stale = TRUE
  BY <1>1 DEF RefreshStates
<1>3. \A q \in Refreshers :
        refresh'[q] = IF q = r THEN AtRest
                      ELSE IF refresh[q].stage # "idle"
                           THEN [refresh[q] EXCEPT !.stale = TRUE]
                           ELSE refresh[q]
  BY DEF WriteRegistry, Overtaken
<1>4. DOMAIN refresh' = Refreshers /\ refresh' = [q \in Refreshers |-> refresh'[q]]
  BY DEF WriteRegistry, Overtaken
<1>5. \A q \in Refreshers : refresh'[q] \in RefreshStates
  BY <1>1, <1>2, <1>3, Resting
<1>6. refresh' \in [Refreshers -> RefreshStates]
  BY <1>4, <1>5
<1>7. \A q \in Refreshers : refresh'[q].stage = "idle" \/ refresh'[q].stale
  BY <1>2, <1>3, Resting
<1>8. file' \in Registries /\ torn' \in BOOLEAN /\ edits' \in 0..MaxEdits
  BY <1>1 DEF WriteRegistry
<1> QED
  BY <1>6, <1>7, <1>8, FileChanges DEF WriteRegistry

\* and so is an edit.
LEMMA EditPreserves ==
  ASSUME Inv, NEW c \in Mapped, NEW lifecycle \in {"active", "deprecated"},
         Edit(c, lifecycle)
  PROVE  Inv'
<1>1. /\ refresh \in [Refreshers -> RefreshStates] /\ file \in Registries
      /\ edits \in 0..MaxEdits /\ MaxEdits \in Nat
  BY TasksAssumption DEF Inv, RoutingTypeOK
<1>2. \A q \in Refreshers :
        /\ [refresh[q] EXCEPT !.stale = TRUE] \in RefreshStates
        /\ [refresh[q] EXCEPT !.stale = TRUE].stale = TRUE
  BY <1>1 DEF RefreshStates
<1>3. refresh' = [q \in Refreshers |->
                    IF refresh[q].stage = "idle" THEN refresh[q]
                    ELSE [refresh[q] EXCEPT !.stale = TRUE]]
  BY DEF Edit
<1>4. /\ refresh' \in [Refreshers -> RefreshStates]
      /\ \A q \in Refreshers : refresh'[q].stage = "idle" \/ refresh'[q].stale
  BY <1>1, <1>2, <1>3
<1>5. file' \in Registries
  <2> DEFINE e == [file[c] EXCEPT !.primary.lifecycle = lifecycle,
                                  !.primary.verified = TRUE]
  <2>1. file[c] \in Entries /\ file \in [Mapped -> Entries]
    BY <1>1 DEF Registries, Entries
  <2>2. lifecycle \in LIFECYCLE_STATES
    BY DEF LIFECYCLE_STATES
  <2>3. e \in Entries
    BY <2>1, <2>2, EntryUpdate
  <2>4. file' = [file EXCEPT ![c] = e]
    BY DEF Edit
  <2> HIDE DEF e
  <2> QED
    BY <2>1, <2>3, <2>4 DEF Registries, Entries
<1>6. torn' \in BOOLEAN
  BY DEF Edit
<1>7. edits' \in 0..MaxEdits
  <2>1. edits' = edits + 1 /\ edits < MaxEdits
    BY DEF Edit
  <2> QED
    BY <1>1, <2>1
<1> QED
  BY <1>4, <1>5, <1>6, <1>7, FileChanges DEF Edit

\* Every step keeps the invariant.
LEMMA NextPreserves ==
  ASSUME Inv, [RoutingNext]_rvars
  PROVE  Inv'
<1>1. CASE UNCHANGED rvars
  BY <1>1 DEF rvars, Inv, RoutingTypeOK, EntitlementHeld, ReadingsCurrent
<1>2. ASSUME NEW p \in Gateways, Restart(p)
      PROVE  Inv'
  <2>1. cache' \in [Gateways -> Registries \cup {NotLoaded}]
    BY <1>2 DEF Inv, Restart
  <2>2. RoutingTypeOK'
    BY <1>2, <2>1 DEF Inv, RoutingTypeOK, Restart
  <2> QED
    BY <1>2, <2>1, <2>2 DEF Inv, EntitlementHeld, ReadingsCurrent, Restart
<1>3. ASSUME NEW m \in Models \ {NoModel}, ListChange(m)
      PROVE  Inv'
  <2>1. listed' \subseteq Models /\ changes' \in 0..MaxChanges
    BY <1>3, TasksAssumption DEF Inv, RoutingTypeOK, ListChange
  <2>2. RoutingTypeOK'
    BY <1>3, <2>1 DEF Inv, RoutingTypeOK, ListChange
  <2> QED
    BY <1>3, <2>2 DEF Inv, EntitlementHeld, ReadingsCurrent, ListChange
<1> QED
  BY <1>1, <1>2, <1>3, RoutePreserves, RefreshPreserves, WritePreserves,
     EditPreserves DEF RoutingNext

\* The shipped registry satisfies it.
LEMMA InitEstablishes == RoutingInit => Inv
<1> SUFFICES ASSUME RoutingInit PROVE Inv
  OBVIOUS
<1>1. /\ file \in Registries /\ torn \in BOOLEAN /\ listed \subseteq Models
      /\ cache \in [Gateways -> Registries \cup {NotLoaded}]
      /\ refresh \in [Refreshers -> RefreshStates]
      /\ \A r \in Refreshers : refresh[r].stage = "idle"
  BY RegistryAssumption, Resting DEF RoutingInit
<1>2. /\ granted.class = NoClass /\ granted.model = NoModel
      /\ edits \in 0..MaxEdits /\ changes \in 0..MaxChanges
      /\ kills \in 0..MaxKills
  BY TasksAssumption DEF RoutingInit, Nothing
<1>3. RoutingTypeOK
  BY <1>1, <1>2 DEF RoutingTypeOK, RefreshStates
<1> QED
  BY <1>1, <1>2, <1>3 DEF Inv, EntitlementHeld, ReadingsCurrent

\* The invariant holds of every reachable state.
THEOREM InvariantAlways == RoutingSpec => []Inv
<1>1. Inv /\ [RoutingNext]_rvars => Inv'
  BY NextPreserves
<1> QED
  BY <1>1, InitEstablishes, PTL DEF RoutingSpec

\* Every model handed out is paid for by the criticality of the task and, where
\* the task is flagged, approved by a human (route, classify_and_route).
THEOREM EntitlementAlways == RoutingSpec => []RoutingInv
<1>1. Inv => RoutingInv
  BY DEF Inv, RoutingInv
<1> QED
  BY <1>1, InvariantAlways, PTL

\* Only a person, or a refresh that was overtaken between its reading and its
\* writing, opens a closed model again (refresh_provider, _apply_refresh).
LEMMA ClosedStep ==
  ASSUME Inv, [RoutingNext]_rvars, NEW c \in Mapped,
         Closed(file[c].primary.lifecycle), ~Closed(file'[c].primary.lifecycle)
  PROVE  \/ edits' # edits
         \/ \E r \in Refreshers :
              refresh[r].stage = "write" /\ refresh[r].stale
                /\ refresh'[r].stage = "idle"
<1>1. file' # file
  OBVIOUS
<1>2. \/ \E r \in Refreshers : WriteRegistry(r)
      \/ \E d \in Mapped, lifecycle \in {"active", "deprecated"} : Edit(d, lifecycle)
  <2>1. /\ \A p \in Gateways, s \in Tasks : ~classify_and_route(p, s)
        /\ \A p \in Gateways, level \in CRITICALITIES : ~RouteStated(p, level)
        /\ \A p \in Gateways : ~Restart(p)
        /\ \A r \in Refreshers : /\ ~ReadRegistry(r) /\ ~_list_model_ids(r)
                                 /\ ~ApplyRefresh(r) /\ ~KillRefresh(r)
        /\ \A m \in Models \ {NoModel} : ~ListChange(m)
        /\ ~UNCHANGED rvars
    BY <1>1 DEF classify_and_route, RouteClassified, RouteStated, route, Restart,
      ReadRegistry, _list_model_ids, ApplyRefresh, KillRefresh, ListChange, rvars
  <2> QED
    BY <2>1 DEF RoutingNext
<1>3. ASSUME NEW d \in Mapped, NEW lifecycle \in {"active", "deprecated"},
             Edit(d, lifecycle)
      PROVE  edits' # edits
  <2>1. edits \in Nat
    BY TasksAssumption DEF Inv, RoutingTypeOK
  <2> QED
    BY <1>3, <2>1 DEF Edit
<1>4. ASSUME NEW r \in Refreshers, WriteRegistry(r)
      PROVE  /\ refresh[r].stage = "write" /\ refresh[r].stale
             /\ refresh'[r].stage = "idle"
  <2>1. refresh[r].stage = "write" /\ refresh'[r] = AtRest /\ file' = refresh[r].data
    BY <1>4 DEF WriteRegistry, Overtaken
  <2>2. ~refresh[r].stale => file' = _apply_refresh(file, refresh[r].ids)
    BY <2>1 DEF Inv, ReadingsCurrent
  <2>3. Closed(_apply_refresh(file, refresh[r].ids)[c].primary.lifecycle)
    BY ApplyRefreshed DEF Inv, RoutingTypeOK
  <2> QED
    BY <2>1, <2>2, <2>3, Resting
<1> QED
  BY <1>2, <1>3, <1>4

\* A live decision with a current adapter names a model the file vouches for.
LEMMA LiveStep ==
  ASSUME Inv, [RoutingNext]_rvars, granted' # granted, granted'.live, ~granted'.stale
  PROVE  LET e == file[granted'.class]
         IN  \/ e.primary.model = granted'.model /\ Usable(e.primary)
             \/ /\ e.fallback.model = granted'.model
                /\ Usable(e.fallback) /\ ~Usable(e.primary)
<1>1. PICK p \in Gateways :
        \/ \E s \in Tasks : classify_and_route(p, s)
        \/ \E level \in CRITICALITIES : RouteStated(p, level)
  <2>1. /\ \A p \in Gateways : ~Restart(p)
        /\ \A r \in Refreshers : /\ ~ReadRegistry(r) /\ ~_list_model_ids(r)
                                 /\ ~ApplyRefresh(r) /\ ~KillRefresh(r)
                                 /\ ~WriteRegistry(r)
        /\ \A m \in Models \ {NoModel} : ~ListChange(m)
        /\ \A d \in Mapped, lifecycle \in {"active", "deprecated"} :
             ~Edit(d, lifecycle)
        /\ ~UNCHANGED rvars
    BY DEF Restart, ReadRegistry, _list_model_ids, ApplyRefresh, KillRefresh,
           WriteRegistry, ListChange, Edit, rvars
  <2> QED
    BY <2>1 DEF RoutingNext
<1>2. PICK c : \E requested \in REASONING_CLASSES \cup {NoClass}, live \in BOOLEAN,
                  approved \in BOOLEAN : route(p, c, requested, live, approved)
  BY <1>1, RoutedAs
<1>10. PICK requested \in REASONING_CLASSES \cup {NoClass}, live \in BOOLEAN,
            approved \in BOOLEAN : route(p, c, requested, live, approved)
  BY <1>2
<1> DEFINE class == IF requested = NoClass THEN resolve_class(c.criticality)
                    ELSE requested
           registry == get_provider(p)
           spec == resolve(registry, class, live)
           u == c.flagged_for_review /\ ~approved
           st == live /\ registry # file
<1>3. granted' = IF spec.model = NoModel THEN Nothing
                 ELSE [class |-> class, model |-> spec.model,
                       criticality |-> c.criticality, live |-> live,
                       unreviewed |-> u, stale |-> st]
  BY <1>10 DEF route
<1>4. registry \in Registries
  BY DEF get_provider, Inv, RoutingTypeOK
<1>5. live /\ spec.model # NoModel
        => /\ class \in Mapped
           /\ \/ spec = registry[class].primary /\ Usable(registry[class].primary)
              \/ /\ spec = registry[class].fallback
                 /\ Usable(registry[class].fallback)
                 /\ ~Usable(registry[class].primary)
  BY <1>4, Resolved
<1>6. st <=> live /\ registry # file
  OBVIOUS
<1> HIDE DEF class, registry, spec, u, st
<1>7. spec.model # NoModel
  BY <1>3 DEF Nothing
<1>8. /\ granted'.class = class /\ granted'.model = spec.model
      /\ granted'.live = live /\ granted'.stale = st
  BY <1>3, <1>7
<1>9. live /\ ~st
  BY <1>8
<1> QED
  BY <1>5, <1>6, <1>7, <1>8, <1>9

\* What the readers and writers of the registry never do, in any interleaving
\* of gateway calls, refreshes, edits, kills and changes at the provider: open
\* a closed model behind a person's back, or hand out on a live call a model
\* that the file does not vouch for (refresh_provider, resolve).
THEOREM RegistryKept == RoutingSpec => RegistrySteps
<1>1. Inv /\ [RoutingNext]_rvars
        => [\A c \in Mapped :
              Closed(file[c].primary.lifecycle)
                /\ ~Closed(file'[c].primary.lifecycle)
                => \/ edits' # edits
                   \/ \E r \in Refreshers :
                        refresh[r].stage = "write" /\ refresh[r].stale
                          /\ refresh'[r].stage = "idle"]_rvars
  BY ClosedStep
<1>2. RoutingSpec => ClosedStaysClosed
  BY <1>1, InvariantAlways, PTL DEF RoutingSpec, ClosedStaysClosed
<1>3. Inv /\ [RoutingNext]_rvars
        => [granted' # granted /\ granted'.live /\ ~granted'.stale
              => LET e == file[granted'.class]
                 IN  \/ e.primary.model = granted'.model /\ Usable(e.primary)
                     \/ /\ e.fallback.model = granted'.model
                        /\ Usable(e.fallback) /\ ~Usable(e.primary)]_rvars
  BY LiveStep
<1>4. RoutingSpec => LiveFromFileOrStaleCache
  BY <1>3, InvariantAlways, PTL DEF RoutingSpec, LiveFromFileOrStaleCache
<1> QED
  BY <1>2, <1>4 DEF RegistrySteps
=============================================================================
