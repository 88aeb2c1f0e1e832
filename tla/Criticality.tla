---------------------------- MODULE Criticality ----------------------------
(***************************************************************************)
(* The classifier in front of the routing gateway                          *)
(* (shiroe/routing/criticality.py): a task is described by structured      *)
(* signals, every rule that fires sets a floor, and the criticality is the *)
(* highest floor.  The state machine is a caller drafting that             *)
(* description one signal at a time.                                       *)
(***************************************************************************)
EXTENDS Naturals, FiniteSetsExt

\* The levels are ranked as _LEVEL_ORDER ranks them.
LOW == 1
MEDIUM == 2
HIGH == 3
CRITICAL == 4
CRITICALITIES == LOW..CRITICAL

BLAST_RADII == {"local", "team", "org", "public"}
PRIVACY_CLASSES == {"public", "internal", "confidential", "restricted"}
ENVIRONMENTS == {"production", "staging", "development"}
CHANGE_SHAPES == {"breaking", "additive"}
CLAIM_DIRECTIONS == {"asserting", "corrective"}
FINANCIAL_EFFECTS == {"executes", "touches_path"}

TaskSignals ==
  [reversible : BOOLEAN, blast_radius : BLAST_RADII,
   privacy_class : PRIVACY_CLASSES, is_public_claim : BOOLEAN,
   schema_or_migration : BOOLEAN, production_or_credential_access : BOOLEAN,
   financial_or_legal_impact : BOOLEAN, writes_canonical_state : BOOLEAN,
   ambiguous : BOOLEAN, environment : ENVIRONMENTS,
   change_shape : CHANGE_SHAPES, claim_direction : CLAIM_DIRECTIONS,
   financial_effect : FINANCIAL_EFFECTS]

DefaultSignals ==
  [reversible |-> TRUE, blast_radius |-> "local", privacy_class |-> "internal",
   is_public_claim |-> FALSE, schema_or_migration |-> FALSE,
   production_or_credential_access |-> FALSE,
   financial_or_legal_impact |-> FALSE, writes_canonical_state |-> FALSE,
   ambiguous |-> FALSE, environment |-> "production",
   change_shape |-> "breaking", claim_direction |-> "asserting",
   financial_effect |-> "executes"]
-----------------------------------------------------------------------------
(* The rules, as pairs of the condition under which a rule fires and the     *)
(* floor it forces.                                                          *)

Wide(s) == s.blast_radius \in {"org", "public"}
Sensitive(s) == s.privacy_class \in {"confidential", "restricted"}

CriticalTriggers(s) ==
  {<<s.is_public_claim /\ (s.claim_direction = "asserting" \/ ~s.reversible),
     CRITICAL>>,
   <<s.is_public_claim, HIGH>>,
   <<s.financial_or_legal_impact
       /\ (\/ s.financial_effect = "executes"
           \/ ~s.reversible
           \/ s.writes_canonical_state),
     CRITICAL>>,
   <<s.financial_or_legal_impact, HIGH>>,
   <<s.schema_or_migration /\ s.writes_canonical_state, CRITICAL>>,
   <<s.production_or_credential_access /\ ~s.reversible, CRITICAL>>,
   <<~s.reversible /\ Wide(s), CRITICAL>>,
   <<s.privacy_class = "restricted" /\ ~s.reversible, CRITICAL>>}

\* Mutant: the two branches of the privacy rule are swapped.
HighTriggersSwapped(s) ==
  {<<s.writes_canonical_state \/ s.production_or_credential_access, HIGH>>,
   <<Wide(s), HIGH>>,
   <<Sensitive(s) /\ s.blast_radius = "local", HIGH>>,
   <<Sensitive(s), MEDIUM>>}

HighTriggers(s) ==
  {<<s.writes_canonical_state, HIGH>>,
   <<s.schema_or_migration
       /\ (s.environment = "production" \/ ~s.reversible), HIGH>>,
   <<s.schema_or_migration, MEDIUM>>,
   <<s.production_or_credential_access, HIGH>>,
   <<Wide(s), HIGH>>,
   <<Sensitive(s) /\ s.blast_radius # "local", HIGH>>,
   <<Sensitive(s), MEDIUM>>}

MediumTriggers(s) ==
  {<<~s.reversible, MEDIUM>>,
   <<s.blast_radius = "team"
       /\ (\/ s.environment = "production"
           \/ ~s.reversible
           \/ s.change_shape = "breaking"),
     MEDIUM>>}

Floors(s) ==
  {r[2] : r \in {q \in CriticalTriggers(s) \cup HighTriggers(s)
                         \cup MediumTriggers(s) : q[1]}}

classify(s) ==
  LET level == Max(Floors(s) \cup {LOW})
  IN  [criticality |-> level,
       flagged_for_review |-> s.ambiguous /\ level \in {HIGH, CRITICAL}]
-----------------------------------------------------------------------------
VARIABLE signals

CritInit == signals = DefaultSignals

\* The caller states one more signal, or restates one.
Restate ==
  \/ \E f \in {"reversible", "is_public_claim", "schema_or_migration",
               "production_or_credential_access",
               "financial_or_legal_impact", "writes_canonical_state",
               "ambiguous"} : signals' = [signals EXCEPT ![f] = ~@]
  \/ \E v \in BLAST_RADII : signals' = [signals EXCEPT !.blast_radius = v]
  \/ \E v \in PRIVACY_CLASSES : signals' = [signals EXCEPT !.privacy_class = v]

\* The caller grades the task on one of the dimensions whose default is the
\* most severe value.
GradeIt ==
  \/ \E v \in ENVIRONMENTS : signals' = [signals EXCEPT !.environment = v]
  \/ \E v \in CHANGE_SHAPES : signals' = [signals EXCEPT !.change_shape = v]
  \/ \E v \in CLAIM_DIRECTIONS :
       signals' = [signals EXCEPT !.claim_direction = v]
  \/ \E v \in FINANCIAL_EFFECTS :
       signals' = [signals EXCEPT !.financial_effect = v]

CritNext == Restate \/ GradeIt

CritSpec == CritInit /\ [][CritNext]_signals
-----------------------------------------------------------------------------
(* How harmful a value of a signal is, by the field's own vocabulary.        *)

BlastRank(v) ==
  CASE v = "local" -> 0 [] v = "team" -> 1 [] v = "org" -> 2 [] OTHER -> 3
PrivacyRank(v) ==
  CASE v = "public" -> 0 [] v = "internal" -> 1
    [] v = "confidential" -> 2 [] OTHER -> 3
EnvironmentRank(v) ==
  CASE v = "development" -> 0 [] v = "staging" -> 1 [] OTHER -> 2

\* The task s is at least as dangerous as t on every dimension.
AtLeast(s, t) ==
  /\ s.reversible => t.reversible
  /\ BlastRank(t.blast_radius) =< BlastRank(s.blast_radius)
  /\ PrivacyRank(t.privacy_class) =< PrivacyRank(s.privacy_class)
  /\ \A f \in {"is_public_claim", "schema_or_migration",
               "production_or_credential_access",
               "financial_or_legal_impact", "writes_canonical_state",
               "ambiguous"} : t[f] => s[f]
  /\ EnvironmentRank(t.environment) =< EnvironmentRank(s.environment)
  /\ t.change_shape = "breaking" => s.change_shape = "breaking"
  /\ t.claim_direction = "asserting" => s.claim_direction = "asserting"
  /\ t.financial_effect = "executes" => s.financial_effect = "executes"

\* "Fail upward": making a task more dangerous in any one signal, with any
\* values of the twelve others, never lowers its criticality and never takes
\* away the flag that sends it to a human.  The graded rules (by direction,
\* by environment, by radius) are where a gap between two branches would
\* break it.
FailUpward ==
  [][signals' # signals /\ AtLeast(signals', signals) =>
       /\ classify(signals').criticality >= classify(signals).criticality
       /\ classify(signals).flagged_for_review
            => classify(signals').flagged_for_review]_signals
=============================================================================
