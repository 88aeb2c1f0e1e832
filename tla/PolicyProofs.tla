---------------------------- MODULE PolicyProofs ----------------------------
(* Machine-checked proofs about Policy, for any callers, actions, hosts,     *)
(* policy files and autonomy modes, and any number of edits, requests and    *)
(* decisions; and, in the last section, about Invocation, for any parts,     *)
(* texts and processes.                                                      *)
EXTENDS Policy, Invocation, SequenceTheorems, FiniteSetTheorems,
        WellFoundedInduction, TLAPS

\* The rows of the approvals and what a caller is doing.
Statuses == {"pending", "approved", "rejected", "deferred"}
Requests == [action : Actions, status : Statuses, at : Nat]
Asking == [at : {"look", "request"}, action : Actions, banned : BOOLEAN]

\* Types of what PolicyTypeOK leaves open.
Types ==
  /\ files \in [FileNames -> Files]
  /\ intended \in [FileNames -> Contents \cup {Absent}]
  /\ requests \in Seq(Requests) /\ Len(requests) <= MaxRequests
  /\ call \in [Callers -> Asking \cup {NoCall}]
  /\ second \in Nat

\* A file that is whole holds what was last written as a whole.
WholeIsIntended ==
  \A n \in FileNames : files[n].whole => files[n].data = intended[n]

\* No caller waits for an approval of something its project denies.
NothingBannedAsked ==
  \A c \in Callers : call[c].at # "idle" => ~call[c].banned

\* As long as nobody was overtaken between looking and inserting, whoever is
\* about to insert a request asks for something nobody has asked for.
LooksHold ==
  blind = {} => \A c \in Callers :
                  call[c].at = "request" => Matching(call[c].action) = {}

\* The inductive invariant.
Inv ==
  /\ Types /\ WholeIsIntended /\ NothingBannedAsked /\ LooksHold
  /\ DeniedStaysDenied /\ GrantHasApproval /\ OneRequestPerAction
-----------------------------------------------------------------------------
(* Precedence.                                                               *)

\* What an "allow" of resolve rests on.
LEMMA ResolveAllows ==
  ASSUME NEW a, NEW stack, NEW grant
  PROVE  /\ resolve(a, stack, grant).verdict \in {"allow", "deny"}
         /\ resolve(a, stack, grant).verdict = "allow"
              => /\ ~Denies(stack["project-deny"], a)
                 /\ ~Denies(stack["global-deny"], a)
                 /\ \/ Allows(grant, a)
                    \/ Allows(stack["project-defaults"], a)
                    \/ Allows(stack["global-defaults"], a)
<1>1. /\ FromDefaults(a, stack).verdict \in {"allow", "deny"}
      /\ FromDefaults(a, stack).verdict = "allow"
           => \/ Allows(stack["project-defaults"], a)
              \/ Allows(stack["global-defaults"], a)
  BY DEF FromDefaults, Decision
<1> QED
  BY <1>1 DEF resolve, Decision

\* Denies and the grant are decided without a look at the defaults.
LEMMA ResolveByHigher ==
  ASSUME NEW a, NEW stack, NEW other, NEW grant,
         other["project-deny"] = stack["project-deny"],
         other["global-deny"] = stack["global-deny"],
         resolve(a, stack, grant).by
           \in {"project-deny", "global-deny", "explicit-user-grant"}
  PROVE  resolve(a, other, grant) = resolve(a, stack, grant)
<1>1. FromDefaults(a, stack).by
        \in {"project-defaults", "global-defaults", "default-deny"}
  BY DEF FromDefaults, Decision
<1> QED
  BY <1>1 DEF resolve, Decision

\* An absent layer has no rules.
LEMMA AbsentSilent ==
  \A a : ~Denies(_mk_layer(Absent), a) /\ ~Allows(_mk_layer(Absent), a)
BY DEF Absent, Layer, _mk_layer, Denies, Allows

\* A file that can be read gives the layer that was intended; one that cannot
\* is silent.
LEMMA LayerOfFile ==
  ASSUME Inv, NEW n \in FileNames
  PROVE  /\ load_policy_stack(files)[n] = _mk_layer(_load_json(files[n]))
         /\ files[n].whole
              => _mk_layer(_load_json(files[n])) = _mk_layer(intended[n])
         /\ \A a : Allows(_mk_layer(_load_json(files[n])), a)
                     => Allows(_mk_layer(intended[n]), a)
<1>1. files[n].whole => _load_json(files[n]) = intended[n]
  BY DEF Inv, WholeIsIntended, _load_json
<1>2. ~files[n].whole => _load_json(files[n]) = Absent
  BY DEF _load_json
<1> QED
  BY <1>1, <1>2, AbsentSilent DEF load_policy_stack

\* Higher layers decide, in every state.
LEMMA HigherDecides ==
  ASSUME Inv
  PROVE  HigherLayerDecides
<1> DEFINE stack == load_policy_stack(files)
<1> SUFFICES ASSUME NEW a \in Actions \cup Egress, NEW user,
                    resolve(a, stack, user).by
                      \in {"project-deny", "global-deny", "explicit-user-grant"},
                    NEW d \in Contents
             PROVE  resolve(a, [stack EXCEPT !["project-defaults"] = _mk_layer(d),
                                             !["global-defaults"] = _mk_layer(d)],
                            user) = resolve(a, stack, user)
  BY DEF HigherLayerDecides
<1> DEFINE other == [stack EXCEPT !["project-defaults"] = _mk_layer(d),
                                  !["global-defaults"] = _mk_layer(d)]
<1>1. DOMAIN stack = FileNames
  BY DEF load_policy_stack
<1> HIDE DEF stack
<1>2. /\ other["project-deny"] = stack["project-deny"]
      /\ other["global-deny"] = stack["global-deny"]
  BY <1>1 DEF FileNames
<1> HIDE DEF other
<1>3. resolve(a, other, user) = resolve(a, stack, user)
  BY <1>2, ResolveByHigher
<1> QED
  BY <1>3 DEF other

\* A call that require_network lets through.
LEMMA NetworkAllowed ==
  ASSUME Inv, NEW a \in Egress, NEW destination \in {"tailnet", "external"},
         NEW written \in Scopes \cup {"missing"}, NEW grant \in BOOLEAN,
         require_network(a.target, destination, _load_privacy(written), grant)
  PROVE  written \in {destination, "external"} /\ ~Obstructed(a, grant)
<1>1. written \in {destination, "external"}
  BY DEF require_network, _load_privacy, Scopes
<1>2. a = [kind |-> "network", target |-> a.target]
  BY DEF Egress
<1> DEFINE user == IF grant THEN Layer({}, {"network"}, {}, {}, {a.target})
                   ELSE Absent
           stack == load_policy_stack(files)
<1>3. resolve([kind |-> "network", target |-> a.target], stack, user).verdict
        = "allow"
  BY DEF require_network
<1>4. resolve(a, stack, user).verdict = "allow"
  BY <1>2, <1>3
<1>5. /\ ~Denies(stack["project-deny"], a) /\ ~Denies(stack["global-deny"], a)
      /\ \/ Allows(user, a)
         \/ Allows(stack["project-defaults"], a)
         \/ Allows(stack["global-defaults"], a)
  BY <1>4, ResolveAllows
<1>6. \A n \in {"project-deny", "global-deny"} :
        ~(files[n].whole /\ Denies(_mk_layer(intended[n]), a))
  <2> SUFFICES ASSUME NEW n \in {"project-deny", "global-deny"}, files[n].whole
               PROVE  ~Denies(_mk_layer(intended[n]), a)
    OBVIOUS
  <2>1. n \in FileNames /\ ~Denies(stack[n], a)
    BY <1>5 DEF FileNames
  <2> QED
    BY <2>1, LayerOfFile
<1>7. grant \/ \E n \in {"project-defaults", "global-defaults"} :
                 Allows(_mk_layer(intended[n]), a)
  <2> SUFFICES ASSUME ~grant
               PROVE  \E n \in {"project-defaults", "global-defaults"} :
                        Allows(_mk_layer(intended[n]), a)
    OBVIOUS
  <2>1. ~Allows(user, a)
    BY DEF Absent, Layer, Allows
  <2>2. PICK n \in {"project-defaults", "global-defaults"} : Allows(stack[n], a)
    BY <1>5, <2>1
  <2>3. n \in FileNames
    BY DEF FileNames
  <2> QED
    BY <2>2, <2>3, LayerOfFile
<1> QED
  BY <1>1, <1>6, <1>7 DEF Obstructed

\* Of two sections of one name the second counts.
LEMMA LastSection ==
  ASSUME NEW name, NEW last \in BOOLEAN,
         name \in _load_sharing_policy(<<[name |-> name, enabled |-> ~last],
                                         [name |-> name, enabled |-> last]>>)
  PROVE  last
<1> DEFINE s == <<[name |-> name, enabled |-> ~last],
                  [name |-> name, enabled |-> last]>>
<1>1. /\ DOMAIN s = {1, 2} /\ s[1].name = name /\ s[2].name = name
      /\ s[2].enabled = last
  OBVIOUS
<1> HIDE DEF s
<1>2. name \in _load_sharing_policy(s)
  BY DEF s
<1>3. \E j \in DOMAIN s : /\ s[j].enabled
                          /\ \A k \in DOMAIN s : k > j => s[k].name # s[j].name
  BY <1>2 DEF _load_sharing_policy
<1> QED
  BY <1>1, <1>3

\* Egress is bounded, in every state.
LEMMA EgressIsBounded ==
  ASSUME Inv
  PROVE  EgressBounded
<1> SUFFICES ASSUME NEW a \in Egress, NEW written \in Scopes \cup {"missing"},
                    NEW grant \in BOOLEAN
             PROVE  LET scope == _load_privacy(written)
                    IN /\ \A destination \in {"tailnet", "external"} :
                            require_network(a.target, destination, scope, grant) =>
                              /\ written \in {destination, "external"}
                              /\ ~Obstructed(a, grant)
                       /\ \A last, named \in BOOLEAN :
                            LET sections == <<[name |-> a.target, enabled |-> ~last],
                                              [name |-> a.target, enabled |-> last]>>
                            IN require_connector(a.target,
                                 _load_sharing_policy(sections),
                                 IF named THEN {a.target} ELSE {}, scope, grant)
                                 => /\ last \/ named
                                    /\ written = "external" /\ ~Obstructed(a, grant)
  BY DEF EgressBounded
<1>1. \A destination \in {"tailnet", "external"} :
        require_network(a.target, destination, _load_privacy(written), grant) =>
          /\ written \in {destination, "external"}
          /\ ~Obstructed(a, grant)
  BY NetworkAllowed
<1>2. ASSUME NEW last \in BOOLEAN, NEW named \in BOOLEAN,
             require_connector(a.target,
               _load_sharing_policy(<<[name |-> a.target, enabled |-> ~last],
                                      [name |-> a.target, enabled |-> last]>>),
               IF named THEN {a.target} ELSE {}, _load_privacy(written), grant)
      PROVE  /\ last \/ named
             /\ written = "external" /\ ~Obstructed(a, grant)
  <2>1. written = "external" /\ ~Obstructed(a, grant)
    BY <1>1, <1>2 DEF require_connector
  <2>2. last \/ named
    BY <1>2, LastSection DEF require_connector
  <2> QED
    BY <2>1, <2>2
<1> QED
  BY <1>1, <1>2
-----------------------------------------------------------------------------
(* The service.                                                              *)

\* An action that evaluate allows, or sends to a human, is not denied by the
\* project's file if that can be read; what always needs a human is never
\* allowed at once.
LEMMA Evaluated ==
  ASSUME Inv, NEW a \in Actions, NEW mode,
         evaluate(a, _stack_for, mode).verdict \in {"allow", "require_approval"}
  PROVE  /\ ~(/\ Denies(_mk_layer(intended["project-deny"]), a)
              /\ files["project-deny"].whole)
         /\ evaluate(a, _stack_for, mode).verdict = "allow"
              => a.kind \notin ALWAYS_REQUIRE_APPROVAL
<1> DEFINE raw == resolve(a, _stack_for, Absent)
<1>1. /\ evaluate(a, _stack_for, mode) =
           IF raw.verdict = "allow" /\ ~autonomy_gate(a.kind, mode)
           THEN Decision("require_approval", raw.by) ELSE raw
      /\ raw.verdict \in {"allow", "deny"}
  BY ResolveAllows DEF evaluate
<1>2. raw.verdict = "allow"
  BY <1>1
<1>3. ~Denies(_stack_for["project-deny"], a)
  BY <1>2, ResolveAllows
<1>4. _stack_for["project-deny"] = _mk_layer(_load_json(files["project-deny"]))
  BY DEF _stack_for, load_policy_stack, FileNames, Inv, Types
<1>5. "project-deny" \in FileNames
  BY DEF FileNames
<1>6. ~(/\ Denies(_mk_layer(intended["project-deny"]), a)
        /\ files["project-deny"].whole)
  BY <1>3, <1>4, <1>5, LayerOfFile
<1>7. Decision("require_approval", raw.by).verdict = "require_approval"
  BY DEF Decision
<1> HIDE DEF raw
<1>8. evaluate(a, _stack_for, mode).verdict = "allow" => autonomy_gate(a.kind, mode)
  BY <1>1, <1>2, <1>7
<1> QED
  BY <1>6, <1>8 DEF autonomy_gate

\* A grant that may be recorded.
LEMMA GrantKeeps ==
  ASSUME Inv, NEW a, NEW banned \in BOOLEAN, ~banned,
         \/ a.kind \notin ALWAYS_REQUIRE_APPROVAL
         \/ \E i \in DOMAIN requests :
              requests[i].action = a /\ requests[i].status = "approved"
  PROVE  \A g \in Grant(a, banned) :
           /\ ~g.banned
           /\ g.action.kind \in ALWAYS_REQUIRE_APPROVAL => g.approved
           /\ g.action = a
<1> DEFINE approved == \E i \in DOMAIN requests :
             requests[i].action = a /\ requests[i].status = "approved"
<1>1. Grant(a, banned) =
        {[action |-> a, banned |-> banned, approved |-> approved]}
  BY DEF Grant
<1>2. a.kind \in ALWAYS_REQUIRE_APPROVAL => approved
  OBVIOUS
<1> HIDE DEF approved
<1> QED
  BY <1>1, <1>2

\* Steps of a caller that leave files and requests alone.
LEMMA CallMoves ==
  ASSUME Inv, call' \in [Callers -> Asking \cup {NoCall}],
         \A c \in Callers : call'[c].at # "idle" => ~call'[c].banned,
         \A c \in Callers :
           call'[c].at = "request"
             => \/ call[c].at = "request" /\ call'[c].action = call[c].action
                \/ Matching(call'[c].action) = {},
         \A g \in granted' :
           \/ g \in granted
           \/ /\ ~g.banned
              /\ g.action.kind \in ALWAYS_REQUIRE_APPROVAL => g.approved,
         UNCHANGED <<files, intended, requests, second, edits, decisions, blind>>
  PROVE  Inv'
<1>1. Types' /\ WholeIsIntended' /\ NothingBannedAsked'
  BY DEF Inv, Types, WholeIsIntended, NothingBannedAsked
<1>2. DeniedStaysDenied' /\ GrantHasApproval' /\ OneRequestPerAction'
  BY DEF Inv, DeniedStaysDenied, GrantHasApproval, OneRequestPerAction
<1>3. LooksHold'
  BY DEF Inv, LooksHold, Matching
<1> QED
  BY <1>1, <1>2, <1>3 DEF Inv

\* NoCall is idle.
LEMMA NoCallIdle == NoCall.at = "idle"
BY DEF NoCall

\* A caller in the middle of authorize.
LEMMA InCall ==
  ASSUME Inv, NEW c \in Callers, call[c].at # "idle"
  PROVE  /\ call[c] \in Asking /\ call[c].action \in Actions
         /\ call[c].banned \in BOOLEAN /\ ~call[c].banned
<1>1. call[c] \in Asking \cup {NoCall}
  BY DEF Inv, Types
<1>2. call[c] \in Asking
  BY <1>1, NoCallIdle
<1> QED
  BY <1>2 DEF Asking, Inv, NothingBannedAsked

\* The service evaluates an action.
LEMMA AuthorizePreserves ==
  ASSUME Inv, NEW c \in Callers, NEW a \in Actions, NEW mode \in Modes,
         authorize(c, a, mode)
  PROVE  Inv'
<1> DEFINE d == evaluate(a, _stack_for, mode)
           banned == /\ Denies(_mk_layer(intended["project-deny"]), a)
                     /\ files["project-deny"].whole
<1>1. banned \in BOOLEAN
  OBVIOUS
<1>2. d.verdict \in {"allow", "require_approval"}
        => ~banned /\ (d.verdict = "allow" => a.kind \notin ALWAYS_REQUIRE_APPROVAL)
  BY Evaluated
<1>3. /\ d.verdict = "require_approval"
           => /\ call' = [call EXCEPT ![c] =
                            [at |-> "look", action |-> a, banned |-> banned]]
              /\ granted' = granted
      /\ d.verdict = "allow" => granted' = Grant(a, banned) /\ call' = call
      /\ d.verdict \notin {"allow", "require_approval"}
           => granted' = granted /\ call' = call
      /\ UNCHANGED <<files, intended, requests, second, edits, decisions, blind>>
  BY DEF authorize
<1> HIDE DEF d, banned
<1>4. CASE d.verdict = "require_approval"
  <2> DEFINE v == [at |-> "look", action |-> a, banned |-> banned]
  <2>1. v \in Asking /\ v.at = "look" /\ ~v.banned
    BY <1>1, <1>2, <1>4 DEF Asking
  <2>2. call' = [call EXCEPT ![c] = v] /\ granted' = granted
    BY <1>3, <1>4
  <2> HIDE DEF v
  <2>3. /\ call' \in [Callers -> Asking \cup {NoCall}] /\ call'[c] = v
        /\ \A e \in Callers \ {c} : call'[e] = call[e]
    BY <2>1, <2>2 DEF Inv, Types
  <2>4. \A e \in Callers : call'[e].at # "idle" => ~call'[e].banned
    BY <2>1, <2>3 DEF Inv, NothingBannedAsked
  <2>5. \A e \in Callers : call'[e].at = "request" => call'[e] = call[e]
    BY <2>1, <2>3
  <2> QED
    BY <1>3, <2>2, <2>3, <2>4, <2>5, CallMoves
<1>5. CASE d.verdict = "allow"
  <2>1. \A g \in granted' :
          \/ g \in granted
          \/ /\ ~g.banned
             /\ g.action.kind \in ALWAYS_REQUIRE_APPROVAL => g.approved
    BY <1>1, <1>2, <1>3, <1>5, GrantKeeps
  <2>2. call' = call
    BY <1>3, <1>5
  <2>3. call' \in [Callers -> Asking \cup {NoCall}]
    BY <2>2 DEF Inv, Types
  <2>4. \A e \in Callers : call'[e].at # "idle" => ~call'[e].banned
    BY <2>2 DEF Inv, NothingBannedAsked
  <2>5. \A e \in Callers :
          call'[e].at = "request"
            => \/ call[e].at = "request" /\ call'[e].action = call[e].action
               \/ Matching(call'[e].action) = {}
    BY <2>2
  <2>6. UNCHANGED <<files, intended, requests, second, edits, decisions, blind>>
    BY <1>3
  <2> QED
    BY <2>1, <2>3, <2>4, <2>5, <2>6, CallMoves
<1>6. CASE d.verdict \notin {"allow", "require_approval"}
  BY <1>3, <1>6, CallMoves DEF Inv, Types, NothingBannedAsked
<1> QED
  BY <1>4, <1>5, <1>6

\* An answer "allow" comes from a request that is approved.
LEMMA ConsultGrants ==
  ASSUME Inv, NEW c \in Callers, Consult(c), NEW g \in granted', g \notin granted
  PROVE  /\ ~g.banned /\ g.action = call[c].action
         /\ g.action.kind \in ALWAYS_REQUIRE_APPROVAL => g.approved
         /\ \E i \in Matching(g.action) : requests[i].status = "approved"
<1>1. call[c].at # "idle"
  BY DEF Consult
<1> DEFINE a == call[c].action
<1>2. PICK i \in find_latest_matching(a) :
        granted' = IF Answer(requests[i].status) = "allow"
                   THEN Grant(a, call[c].banned) ELSE granted
  BY DEF Consult
<1>3. i \in DOMAIN requests /\ requests[i].action = a /\ i \in Matching(a)
  BY DEF find_latest_matching, Matching
<1>4. Answer(requests[i].status) = "allow" /\ granted' = Grant(a, call[c].banned)
  BY <1>2
<1>5. requests[i].status = "approved"
  BY <1>4 DEF Answer
<1>6. /\ ~g.banned /\ g.action = a
      /\ g.action.kind \in ALWAYS_REQUIRE_APPROVAL => g.approved
  BY <1>1, <1>3, <1>4, <1>5, InCall, GrantKeeps
<1> QED
  BY <1>3, <1>5, <1>6

\* The prior request answers.
LEMMA ConsultPreserves ==
  ASSUME Inv, NEW c \in Callers, Consult(c)
  PROVE  Inv'
<1>1. /\ call' \in [Callers -> Asking \cup {NoCall}] /\ call'[c] = NoCall
      /\ \A e \in Callers \ {c} : call'[e] = call[e]
      /\ UNCHANGED <<files, intended, requests, second, edits, decisions, blind>>
  BY DEF Inv, Types, Consult
<1>2. \A e \in Callers : call'[e].at # "idle" => call'[e] = call[e] /\ ~call'[e].banned
  BY <1>1, NoCallIdle DEF Inv, NothingBannedAsked
<1>3. \A g \in granted' \ granted :
        ~g.banned /\ (g.action.kind \in ALWAYS_REQUIRE_APPROVAL => g.approved)
  BY ConsultGrants
<1> QED
  BY <1>1, <1>2, <1>3, CallMoves

\* No prior request: the caller goes on to make one.
LEMMA ConsultNonePreserves ==
  ASSUME Inv, NEW c \in Callers, ConsultNone(c)
  PROVE  Inv'
<1>1. call[c] \in Asking /\ ~call[c].banned /\ Matching(call[c].action) = {}
  BY InCall DEF ConsultNone
<1> DEFINE v == [call[c] EXCEPT !.at = "request"]
<1>2. /\ v \in Asking /\ v.at = "request" /\ v.action = call[c].action
      /\ v.banned = call[c].banned
  BY <1>1 DEF Asking
<1>3. call' = [call EXCEPT ![c] = v]
  BY DEF ConsultNone
<1> HIDE DEF v
<1>4. /\ call' \in [Callers -> Asking \cup {NoCall}] /\ call'[c] = v
      /\ \A e \in Callers \ {c} : call'[e] = call[e]
      /\ UNCHANGED <<files, intended, requests, second, edits, decisions, blind,
                     granted>>
  BY <1>2, <1>3 DEF Inv, Types, ConsultNone
<1>5. \A e \in Callers : call'[e].at # "idle" => ~call'[e].banned
  BY <1>1, <1>2, <1>4 DEF Inv, NothingBannedAsked
<1>6. \A e \in Callers :
        call'[e].at = "request"
          => \/ call[e].at = "request" /\ call'[e].action = call[e].action
             \/ Matching(call'[e].action) = {}
  BY <1>1, <1>2, <1>4
<1> QED
  BY <1>4, <1>5, <1>6, CallMoves

\* The request is stored.
LEMMA RequestPreserves ==
  ASSUME Inv, NEW c \in Callers, NEW now \in second..MaxSeconds, request(c, now)
  PROVE  Inv'
<1> DEFINE a == call[c].action
           new == NewRequest(a, now)
<1>1. call[c].at = "request" /\ call[c] \in Asking /\ a \in Actions
  BY InCall DEF request, MayRequest
<1>2. now \in Nat /\ requests \in Seq(Requests) /\ Len(requests) < MaxRequests
      /\ MaxRequests \in Nat /\ MaxSeconds \in Nat
  BY PolicyAssumption DEF Inv, Types, request
<1>3. new \in Requests /\ new.action = a /\ new.status = "pending"
  BY <1>1, <1>2 DEF NewRequest, Requests, Statuses
<1>4. requests' = Append(requests, new)
  BY DEF request
<1> HIDE DEF new, a
<1>5. /\ requests' \in Seq(Requests) /\ Len(requests') = Len(requests) + 1
      /\ Len(requests) \in Nat
      /\ \A i \in 1..Len(requests) : requests'[i] = requests[i]
      /\ requests'[Len(requests) + 1] = new
      /\ DOMAIN requests = 1..Len(requests)
      /\ DOMAIN requests' = 1..(Len(requests) + 1)
  BY <1>2, <1>3, <1>4, AppendProperties, LenProperties
<1>6. /\ call' \in [Callers -> Asking \cup {NoCall}] /\ call'[c] = NoCall
      /\ \A e \in Callers \ {c} : call'[e] = call[e]
      /\ UNCHANGED <<files, intended, granted>> /\ second' = now
      /\ blind' = blind \cup {e \in Callers : /\ call[e].at = "request" /\ e # c
                                              /\ call[e].action = a}
  BY DEF Inv, Types, request, a
<1>7. Types'
  BY <1>2, <1>5, <1>6 DEF Inv, Types
<1>8. WholeIsIntended' /\ DeniedStaysDenied' /\ GrantHasApproval'
  BY <1>6 DEF Inv, WholeIsIntended, DeniedStaysDenied, GrantHasApproval
<1>9. NothingBannedAsked'
  BY <1>6, NoCallIdle DEF Inv, NothingBannedAsked
<1>10. ASSUME blind' = {}
       PROVE  /\ blind = {} /\ Matching(a) = {}
              /\ \A e \in Callers \ {c} : call[e].at = "request" => call[e].action # a
  BY <1>1, <1>6, <1>10 DEF Inv, LooksHold, a
<1>11. OneRequestPerAction'
  <2> SUFFICES ASSUME blind' = {}, NEW i \in 1..(Len(requests) + 1),
                      NEW j \in 1..(Len(requests) + 1),
                      requests'[i].action = requests'[j].action
               PROVE  i = j
    BY <1>5 DEF OneRequestPerAction
  <2>1. \A k \in 1..Len(requests) : requests[k].action # a
    BY <1>5, <1>10 DEF Matching
  <2>2. \A k \in 1..(Len(requests) + 1) : k \in 1..Len(requests) \/ k = Len(requests) + 1
    BY <1>5
  <2>3. CASE i \in 1..Len(requests) /\ j \in 1..Len(requests)
    BY <1>5, <1>10, <2>3 DEF Inv, OneRequestPerAction
  <2>4. CASE i \in 1..Len(requests) /\ j = Len(requests) + 1
    BY <1>3, <1>5, <2>1, <2>4
  <2>5. CASE i = Len(requests) + 1 /\ j \in 1..Len(requests)
    BY <1>3, <1>5, <2>1, <2>5
  <2> QED
    BY <2>2, <2>3, <2>4, <2>5
<1>12. LooksHold'
  <2> SUFFICES ASSUME blind' = {}, NEW e \in Callers, call'[e].at = "request",
                      NEW i \in 1..(Len(requests) + 1),
                      requests'[i].action = call'[e].action
               PROVE  FALSE
    BY <1>5 DEF LooksHold, Matching
  <2>1. e # c /\ call'[e] = call[e] /\ call[e].action # a
    BY <1>6, <1>10, NoCallIdle
  <2>2. Matching(call[e].action) = {}
    BY <1>10, <2>1 DEF Inv, LooksHold
  <2>3. CASE i \in 1..Len(requests)
    BY <1>5, <2>1, <2>2, <2>3 DEF Matching
  <2>4. CASE i = Len(requests) + 1
    BY <1>3, <1>5, <2>1, <2>4
  <2> QED
    BY <1>5, <2>3, <2>4
<1> QED
  BY <1>7, <1>8, <1>9, <1>11, <1>12 DEF Inv

\* A human decides.
LEMMA DecidePreserves ==
  ASSUME Inv, NEW i \in DOMAIN requests,
         NEW s \in {"approved", "rejected", "deferred"}, decide_human(i, s)
  PROVE  Inv'
<1>1. requests \in Seq(Requests) /\ DOMAIN requests = 1..Len(requests)
      /\ Len(requests) \in Nat
  BY LenProperties DEF Inv, Types
<1>2. requests[i] \in Requests
  BY <1>1, ElementOfSeq
<1> DEFINE new == [requests[i] EXCEPT !.status = s]
<1>3. new \in Requests /\ new.action = requests[i].action
  BY <1>2 DEF Requests, Statuses
<1>4. requests' = [requests EXCEPT ![i] = new]
  BY DEF decide_human
<1> HIDE DEF new
<1>5. /\ requests' \in Seq(Requests) /\ Len(requests') = Len(requests)
      /\ \A j \in 1..Len(requests) :
           requests'[j] = IF j = i THEN new ELSE requests[j]
  BY <1>1, <1>3, <1>4, ExceptSeq
<1>6. /\ DOMAIN requests' = DOMAIN requests
      /\ \A j \in DOMAIN requests : requests'[j].action = requests[j].action
  BY <1>1, <1>3, <1>5, LenProperties
<1>7. UNCHANGED <<files, intended, call, second, granted, blind>>
  BY DEF decide_human
<1>8. Types'
  BY <1>5, <1>7 DEF Inv, Types
<1>9. /\ WholeIsIntended' /\ NothingBannedAsked' /\ DeniedStaysDenied'
      /\ GrantHasApproval'
  BY <1>7 DEF Inv, WholeIsIntended, NothingBannedAsked, DeniedStaysDenied,
              GrantHasApproval
<1>10. OneRequestPerAction' /\ LooksHold'
  BY <1>6, <1>7 DEF Inv, OneRequestPerAction, LooksHold, Matching
<1> QED
  BY <1>8, <1>9, <1>10 DEF Inv

\* A policy file is edited.
LEMMA EditPreserves ==
  ASSUME Inv, NEW n \in FileNames, NEW file \in Files, Edit(n, file)
  PROVE  Inv'
<1>1. file.whole => file.data \in Contents \cup {Absent}
  BY DEF Files, Whole, Torn, Missing
<1>2. /\ files' \in [FileNames -> Files] /\ files'[n] = file
      /\ \A m \in FileNames \ {n} : files'[m] = files[m]
  BY DEF Inv, Types, Edit
<1>3. /\ intended' \in [FileNames -> Contents \cup {Absent}]
      /\ file.whole => intended'[n] = file.data
      /\ \A m \in FileNames \ {n} : intended'[m] = intended[m]
  BY <1>1 DEF Inv, Types, Edit
<1>4. UNCHANGED <<requests, call, second, granted, blind>>
  BY DEF Edit
<1>5. Types' /\ WholeIsIntended'
  BY <1>2, <1>3, <1>4 DEF Inv, Types, WholeIsIntended
<1>6. /\ NothingBannedAsked' /\ DeniedStaysDenied' /\ GrantHasApproval'
      /\ OneRequestPerAction' /\ LooksHold'
  BY <1>4 DEF Inv, NothingBannedAsked, DeniedStaysDenied, GrantHasApproval,
              OneRequestPerAction, LooksHold, Matching
<1> QED
  BY <1>5, <1>6 DEF Inv

\* Every step keeps the invariant.
LEMMA NextPreserves ==
  ASSUME Inv, [PolicyNext]_policyVars
  PROVE  Inv'
<1>1. CASE UNCHANGED policyVars
  BY <1>1 DEF policyVars, Inv, Types, WholeIsIntended, NothingBannedAsked, LooksHold,
              Matching, DeniedStaysDenied, GrantHasApproval, OneRequestPerAction
<1> QED
  BY <1>1, AuthorizePreserves, ConsultPreserves, ConsultNonePreserves,
     RequestPreserves, DecidePreserves, EditPreserves DEF PolicyNext

\* Without files and requests it holds.
LEMMA InitEstablishes == PolicyInit => Inv
<1> SUFFICES ASSUME PolicyInit PROVE Inv
  OBVIOUS
<1>1. /\ requests \in Seq(Requests) /\ Len(requests) = 0 /\ MaxRequests \in Nat
      /\ DOMAIN requests = {}
  BY EmptySeq, PolicyAssumption DEF PolicyInit
<1>2. Missing \in Files /\ Missing.data = Absent
  BY DEF Files, Missing, Whole
<1>3. Types
  BY <1>1, <1>2 DEF PolicyInit, Types
<1>4. WholeIsIntended /\ NothingBannedAsked /\ LooksHold
  BY <1>2, NoCallIdle DEF PolicyInit, WholeIsIntended, NothingBannedAsked, LooksHold
<1>5. DeniedStaysDenied /\ GrantHasApproval /\ OneRequestPerAction
  BY <1>1 DEF PolicyInit, DeniedStaysDenied, GrantHasApproval, OneRequestPerAction
<1> QED
  BY <1>3, <1>4, <1>5 DEF Inv

\* The invariant holds of every reachable state.
THEOREM InvariantAlways == PolicySpec => []Inv
<1>1. Inv /\ [PolicyNext]_policyVars => Inv'
  BY NextPreserves
<1> QED
  BY <1>1, InitEstablishes, PTL DEF PolicySpec

\* Whatever was edited, asked and decided before, an "allow" of the service is
\* not denied by the project's file, has a human's approval where one is always
\* needed, is decided by the highest layer that speaks; egress stays within
\* PRIVACY.md and the deny rules; and one request asks for an action unless two
\* callers looked at once (authorize, resolve, require_network).
THEOREM VerdictsAlways == PolicySpec => []VerdictInv
<1>1. Inv => VerdictInv
  <2> SUFFICES ASSUME Inv PROVE VerdictInv
    OBVIOUS
  <2>1. PolicyTypeOK
    <3>1. \A i \in DOMAIN requests : requests[i].status \in Statuses
      <4>1. requests \in Seq(Requests)
        BY DEF Inv, Types
      <4>2. \A i \in DOMAIN requests : requests[i] \in Requests
        BY <4>1, LenProperties, ElementOfSeq
      <4> QED
        BY <4>2 DEF Requests
    <3>2. \A c \in Callers : call[c].at \in {"idle", "look", "request"}
      BY NoCallIdle DEF Inv, Types, Asking
    <3> QED
      BY <3>1, <3>2 DEF Inv, Types, PolicyTypeOK, Statuses
  <2> QED
    BY <2>1, HigherDecides, EgressIsBounded DEF Inv, VerdictInv
<1> QED
  BY <1>1, InvariantAlways, PTL

-----------------------------------------------------------------------------
(* From the digest to the run.                                               *)

\* A set of numbers that is not empty has a least element.
LEMMA Least ==
  ASSUME NEW T \in SUBSET Nat, T # {}
  PROVE  \E x \in T : \A y \in T : x <= y
<1> DEFINE W == {1..x : x \in T}
           R == StrictSubsetOrdering(Nat)
           S == FiniteSubsetsOf(Nat)
<1>1. IsWellFoundedOn(R, S)
  BY FS_StrictSubsetOrderingWellFounded
<1>2. W \subseteq S
  <2>1. \A x \in T : IsFiniteSet(1..x)
    BY FS_Interval
  <2> QED
    BY <2>1 DEF FiniteSubsetsOf
<1>3. W # {}
  OBVIOUS
<1> HIDE DEF R, S, W
<1>4. PICK w \in W : \A v \in W : ~(<<v, w>> \in R)
  BY <1>1, <1>2, <1>3, WFMin
<1>5. PICK x \in T : w = 1..x
  BY DEF W
<1>6. ASSUME NEW y \in T, y < x
      PROVE  FALSE
  <2>1. 1..y \in W /\ 1..y \in SUBSET Nat /\ w \in SUBSET Nat
    BY <1>5 DEF W
  <2>2. 1..y \subseteq w /\ 1..y # w
    BY <1>5, <1>6
  <2>3. <<1..y, w>> \in R
    BY <2>1, <2>2 DEF R, StrictSubsetOrdering
  <2> QED
    BY <1>4, <2>1, <2>3
<1> QED
  BY <1>6

\* The minimum of a set of numbers is in it.
LEMMA MinIsIn ==
  ASSUME NEW S \in SUBSET Nat, S # {}
  PROVE  Min(S) \in S
BY Least DEF Min

\* What can be read of the parts of a capability.
Digests == UNION {[S -> Texts] : S \in SUBSET Parts}

\* Where a process between the digest and the run can be.
RunnerRecord ==
  [stage : {"idle", "register", "record", "gate", "drift", "look", "admitted", "start"},
   todo : SUBSET Parts, read : Digests, expected : Digests, late : SUBSET Parts,
   other : BOOLEAN]

\* Where a process is past the first look of its gate.
Gated == {"gate", "drift", "look", "admitted", "start"}

\* The row of the registry.
RegRecord == [lifecycle : {"none", "quarantined", "approved"}, digest : Digests]

\* The types.
InvTypes ==
  /\ shape \in {"file", "dir"}
  /\ disk \in [Parts -> Texts \cup {Gone}]
  /\ reg \in RegRecord
  /\ runner \in [Runners -> RunnerRecord]

\* What a file was when the digest was made.
AsRead(read, f) == IF f \in DOMAIN read THEN read[f] ELSE Gone

\* Past its first look at the row, a process expects an approved digest; past
\* the second it has read one, or was let through by another one.
Approved(r) ==
  /\ r.stage \in {"gate", "drift", "look"} => r.expected \in cleared
  /\ r.stage \in {"drift", "look", "admitted", "start"} => r.todo = {}
  /\ r.stage \in {"admitted", "start"} => r.read \in cleared \/ r.other = TRUE

\* Whoever is past the gate is let through by a digest that was approved.
ApprovalsKnown ==
  /\ reg.lifecycle = "approved" => reg.digest \in cleared
  /\ \A p \in Runners : Approved(runner[p])

\* What the gate has read is what is on the disk, but for late changes.
Current(r) ==
  r.stage \in Gated =>
    /\ \A f \in r.todo : f \notin DOMAIN r.read
    /\ \A f \in Covered : f \notin r.late \cup r.todo => disk[f] = AsRead(r.read, f)

\* All that was read is current.
ReadsCurrent == \A p \in Runners : Current(runner[p])

\* The inductive invariant of Invocation.
InvInd == InvTypes /\ ApprovalsKnown /\ ReadsCurrent /\ RunsWhatWasApproved

\* A digest is a function on some of the files, and one more file makes it a
\* digest again.
LEMMA DigestFacts ==
  /\ <<>> \in Digests /\ DOMAIN <<>> = {}
  /\ \A d \in Digests : DOMAIN d \in SUBSET Parts /\ d \in [DOMAIN d -> Texts]
  /\ \A d \in Digests, f \in Parts, t \in Texts :
       [g \in DOMAIN d \cup {f} |-> IF g = f THEN t ELSE d[g]] \in Digests
<1>1. <<>> \in Digests /\ DOMAIN <<>> = {}
  <2>1. <<>> \in [{} -> Texts] /\ {} \in SUBSET Parts
    OBVIOUS
  <2> QED
    BY <2>1 DEF Digests
<1>2. ASSUME NEW d \in Digests
      PROVE  DOMAIN d \in SUBSET Parts /\ d \in [DOMAIN d -> Texts]
  <2>1. PICK S \in SUBSET Parts : d \in [S -> Texts]
    BY DEF Digests
  <2> QED
    BY <2>1
<1>3. ASSUME NEW d \in Digests, NEW f \in Parts, NEW t \in Texts
      PROVE  [g \in DOMAIN d \cup {f} |-> IF g = f THEN t ELSE d[g]] \in Digests
  <2> DEFINE S == DOMAIN d \cup {f}
             e == [g \in S |-> IF g = f THEN t ELSE d[g]]
  <2>1. S \in SUBSET Parts /\ \A g \in S : (IF g = f THEN t ELSE d[g]) \in Texts
    BY <1>2
  <2>2. e \in [S -> Texts]
    BY <2>1
  <2> HIDE DEF S, e
  <2>3. e \in Digests
    BY <2>1, <2>2 DEF Digests
  <2> QED
    BY <2>3 DEF e, S
<1> QED
  BY <1>1, <1>2, <1>3

\* A process that is at ease.
LEMMA AtEaseFacts ==
  /\ AtEase \in RunnerRecord /\ AtEase.stage = "idle"
  /\ AtEase.todo = {} /\ AtEase.read = <<>> /\ AtEase.late = {}
  /\ AtEase.expected = <<>> /\ AtEase.other = FALSE
BY DigestFacts DEF AtEase, RunnerRecord

\* The invariant holds when nothing is registered.
LEMMA InvInitOK == InvInit => InvInd
<1> SUFFICES ASSUME InvInit
             PROVE  InvInd
  OBVIOUS
<1>1. /\ shape \in {"file", "dir"} /\ reg = NoEntry /\ ran = {} /\ cleared = {}
      /\ disk = [f \in Parts |-> CHOOSE t \in Texts : TRUE]
      /\ runner = [p \in Runners |-> AtEase]
  BY DEF InvInit
<1>2. NoEntry \in RegRecord /\ NoEntry.lifecycle = "none"
  BY DigestFacts DEF NoEntry, RegRecord
<1>3. (CHOOSE t \in Texts : TRUE) \in Texts
  BY PartsAssumption
<1> DEFINE t0 == CHOOSE t \in Texts : TRUE
<1>4. disk = [f \in Parts |-> t0] /\ t0 \in Texts
  BY <1>1, <1>3
<1> HIDE DEF t0
<1>5. InvTypes
  BY <1>1, <1>2, <1>4, AtEaseFacts DEF InvTypes
<1>6. \A p \in Runners : runner[p] = AtEase
  BY <1>1
<1>7. ApprovalsKnown /\ ReadsCurrent
  BY <1>1, <1>2, <1>6, AtEaseFacts
  DEF ApprovalsKnown, Approved, ReadsCurrent, Current, Gated
<1>8. RunsWhatWasApproved
  BY <1>1 DEF RunsWhatWasApproved
<1> QED
  BY <1>5, <1>7, <1>8 DEF InvInd

\* A step of one process between its gate and its run.
LEMMA InvTurn ==
  ASSUME InvInd, NEW p \in Runners, NEW r \in RunnerRecord,
         runner' = [runner EXCEPT ![p] = r], UNCHANGED <<shape, disk, cleared>>,
         reg' \in RegRecord, reg'.lifecycle = "approved" => reg'.digest \in cleared,
         Approved(r), Current(r), RunsWhatWasApproved'
  PROVE  InvInd'
<1>1. /\ InvTypes /\ ApprovalsKnown /\ ReadsCurrent
      /\ shape' = shape /\ disk' = disk /\ cleared' = cleared
  BY DEF InvInd
<1>2. \A q \in Runners : runner'[q] = IF q = p THEN r ELSE runner[q]
  BY <1>1 DEF InvTypes
<1>3. InvTypes'
  BY <1>1 DEF InvTypes
<1>4. ApprovalsKnown'
  <2>1. \A q \in Runners : Approved(IF q = p THEN r ELSE runner[q])
    BY <1>1 DEF ApprovalsKnown
  <2> QED
    BY <1>1, <1>2, <2>1 DEF ApprovalsKnown, Approved
<1>5. ReadsCurrent'
  <2>1. \A q \in Runners : Current(IF q = p THEN r ELSE runner[q])
    BY <1>1 DEF ReadsCurrent
  <2> QED
    BY <1>1, <1>2, <2>1 DEF ReadsCurrent, Current, Covered
<1> QED
  BY <1>3, <1>4, <1>5 DEF InvInd

\* What is known of the past stays known.
LEMMA RunsStay ==
  ASSUME InvInd, shape' = shape, ran' = ran \/ ran' = {}, cleared \subseteq cleared'
  PROVE  RunsWhatWasApproved'
BY DEF InvInd, RunsWhatWasApproved, Covered

\* A process that ends its command.
LEMMA InvRest ==
  ASSUME InvInd, NEW p \in Runners, runner' = [runner EXCEPT ![p] = AtEase],
         UNCHANGED <<shape, disk, cleared>>, RunsWhatWasApproved',
         reg' \in RegRecord, reg'.lifecycle = "approved" => reg'.digest \in cleared
  PROVE  InvInd'
<1>1. Approved(AtEase) /\ Current(AtEase)
  BY AtEaseFacts DEF Approved, Current, Gated
<1> QED
  BY <1>1, AtEaseFacts, InvTurn

\* The files that are listed are files of the source, and a covered file that
\* is not listed is gone.
LEMMA ListedFacts ==
  /\ _iter_text_files \in SUBSET Parts
  /\ \A f \in Covered : f \notin _iter_text_files => disk[f] = Gone
BY PartsAssumption DEF _iter_text_files, Covered, Entry

\* What the row is, and what a process holds.
LEMMA InvPlace ==
  ASSUME InvInd, NEW p \in Runners
  PROVE  /\ runner[p] \in RunnerRecord /\ reg \in RegRecord
         /\ reg.lifecycle = "approved" => reg.digest \in cleared
         /\ Approved(runner[p]) /\ Current(runner[p])
BY DEF InvInd, InvTypes, ApprovalsKnown, ReadsCurrent

\* An inspection begins.
LEMMA InspectSourceOK ==
  ASSUME InvInd, NEW p \in Runners, inspect_source(p)
  PROVE  InvInd'
<1> DEFINE todo == _iter_text_files
           r == [AtEase EXCEPT !.stage = "register", !.todo = todo]
<1>1. /\ runner' = [runner EXCEPT ![p] = r]
      /\ UNCHANGED <<shape, disk, reg, ran, cleared>>
  BY DEF inspect_source
<1>2. todo \in SUBSET Parts
  BY ListedFacts
<1> HIDE DEF todo
<1>3. r \in RunnerRecord /\ r.stage = "register"
  BY <1>2, AtEaseFacts DEF RunnerRecord
<1> HIDE DEF r
<1>4. Approved(r) /\ Current(r)
  BY <1>3 DEF Approved, Current, Gated
<1>5. /\ reg' \in RegRecord /\ (reg'.lifecycle = "approved" => reg'.digest \in cleared)
      /\ RunsWhatWasApproved'
  BY <1>1, InvPlace, RunsStay
<1> QED
  BY <1>1, <1>3, <1>4, <1>5, InvTurn

\* A gate begins: nothing is read, so what is not to be read is gone.
LEMMA AssertExecutableOK ==
  ASSUME InvInd, NEW p \in Runners, assert_executable(p)
  PROVE  InvInd'
<1> DEFINE todo == _iter_text_files
           r == [AtEase EXCEPT !.stage = "gate", !.todo = todo,
                               !.expected = reg.digest]
<1>1. /\ runner' = [runner EXCEPT ![p] = r] /\ Executable
      /\ UNCHANGED <<shape, disk, reg, ran, cleared>>
  BY DEF assert_executable
<1>2. /\ todo \in SUBSET Parts /\ reg.digest \in Digests /\ reg.digest \in cleared
      /\ \A f \in Covered : f \notin todo => disk[f] = Gone
  BY <1>1, ListedFacts, InvPlace DEF Executable, RegRecord
<1> HIDE DEF todo
<1>3. /\ r \in RunnerRecord /\ r.stage = "gate" /\ r.todo = todo /\ r.read = <<>>
      /\ r.expected = reg.digest /\ r.late = {}
  BY <1>2, AtEaseFacts DEF RunnerRecord
<1> HIDE DEF r
<1>4. Approved(r)
  BY <1>2, <1>3 DEF Approved
<1>5. Current(r)
  <2>1. DOMAIN r.read = {}
    BY <1>3, DigestFacts
  <2> QED
    BY <1>2, <1>3, <2>1 DEF Current, AsRead
<1>6. /\ reg' \in RegRecord /\ (reg'.lifecycle = "approved" => reg'.digest \in cleared)
      /\ RunsWhatWasApproved'
  BY <1>1, InvPlace, RunsStay
<1> QED
  BY <1>1, <1>3, <1>4, <1>5, <1>6, InvTurn

\* One more file is read: it is now as on the disk.
LEMMA DigestOK ==
  ASSUME InvInd, NEW p \in Runners, _digest_directory(p)
  PROVE  InvInd'
<1> DEFINE m == runner[p]
           f == Min(m.todo)
           read == IF disk[f] = Gone THEN m.read
                   ELSE [g \in DOMAIN m.read \cup {f} |->
                           IF g = f THEN disk[f] ELSE m.read[g]]
           r == [m EXCEPT !.todo = m.todo \ {f}, !.read = read]
<1>1. runner \in [Runners -> RunnerRecord]
  BY DEF InvInd, InvTypes
<1>2. /\ m.stage \in {"register", "gate"} /\ m.todo # {}
      /\ runner' = [runner EXCEPT ![p] = r]
      /\ UNCHANGED <<shape, disk, reg, ran, cleared>>
  BY <1>1 DEF _digest_directory, RunnerRecord
<1>3. m \in RunnerRecord /\ Approved(m) /\ Current(m)
  BY InvPlace
<1> HIDE DEF m
<1>4. /\ m.todo \in SUBSET Parts /\ m.read \in Digests /\ Parts \in SUBSET Nat
  BY <1>3, PartsAssumption, FS_CardinalityType DEF RunnerRecord
<1>5. f \in m.todo /\ f \in Parts
  BY <1>2, <1>4, MinIsIn
<1> HIDE DEF f
<1>6. disk[f] \in Texts \cup {Gone} /\ Gone \notin Texts
  BY <1>5, PartsAssumption DEF InvInd, InvTypes, Gone
<1>7. read \in Digests
  BY <1>4, <1>5, <1>6, DigestFacts
<1>8. /\ DOMAIN read = IF disk[f] = Gone THEN DOMAIN m.read ELSE DOMAIN m.read \cup {f}
      /\ disk[f] # Gone => read[f] = disk[f]
      /\ \A g \in DOMAIN m.read : g # f => read[g] = m.read[g]
  OBVIOUS
<1> HIDE DEF read
<1>9. /\ r \in RunnerRecord /\ r.stage = m.stage /\ r.todo = m.todo \ {f}
      /\ r.read = read /\ r.expected = m.expected /\ r.late = m.late
  BY <1>3, <1>4, <1>7 DEF RunnerRecord
<1> HIDE DEF r
<1>10. Approved(r)
  BY <1>2, <1>3, <1>9 DEF Approved
<1>11. Current(r)
  <2> SUFFICES ASSUME m.stage = "gate"
               PROVE  /\ \A g \in r.todo : g \notin DOMAIN r.read
                      /\ \A g \in Covered : g \notin r.late \cup r.todo =>
                           disk[g] = AsRead(r.read, g)
    BY <1>2, <1>9 DEF Current, Gated
  <2>1. /\ \A g \in m.todo : g \notin DOMAIN m.read
        /\ \A g \in Covered : g \notin m.late \cup m.todo =>
             disk[g] = AsRead(m.read, g)
    BY <1>3 DEF Current, Gated
  <2>2. \A g \in r.todo : g \notin DOMAIN r.read
    BY <1>8, <1>9, <2>1
  <2>3. ASSUME NEW g \in Covered, g \notin r.late \cup r.todo
        PROVE  disk[g] = AsRead(r.read, g)
    <3>1. CASE g = f
      <4>1. f \notin DOMAIN m.read
        BY <1>5, <2>1
      <4> QED
        BY <1>8, <1>9, <3>1, <4>1 DEF AsRead
    <3>2. CASE g # f
      <4>1. disk[g] = AsRead(m.read, g)
        BY <1>9, <2>1, <2>3, <3>2
      <4> QED
        BY <1>8, <1>9, <3>2, <4>1 DEF AsRead
    <3> QED
      BY <3>1, <3>2
  <2> QED
    BY <2>2, <2>3
<1>12. /\ reg' \in RegRecord /\ (reg'.lifecycle = "approved" => reg'.digest \in cleared)
       /\ RunsWhatWasApproved'
  BY <1>2, InvPlace, RunsStay
<1> QED
  BY <1>2, <1>9, <1>10, <1>11, <1>12, InvTurn

\* A step to another stage that leaves what was read alone.
LEMMA InvMove ==
  ASSUME InvInd, NEW p \in Runners,
         NEW st \in {"record", "drift", "look", "admitted", "start"}, NEW o \in BOOLEAN,
         NEW r, r = [runner[p] EXCEPT !.stage = st, !.other = o],
         runner' = [runner EXCEPT ![p] = r],
         st \in Gated => runner[p].stage \in Gated,
         Approved(r), UNCHANGED <<shape, disk, cleared>>, ran' = ran \/ ran' = {},
         reg' \in RegRecord, reg'.lifecycle = "approved" => reg'.digest \in cleared
  PROVE  InvInd'
<1> DEFINE m == runner[p]
<1>1. m \in RunnerRecord /\ Current(m)
  BY InvPlace
<1> HIDE DEF m
<1>2. /\ r \in RunnerRecord /\ r.stage = st /\ r.todo = m.todo /\ r.read = m.read
      /\ r.late = m.late
  BY <1>1 DEF RunnerRecord, m
<1>3. Current(r)
  BY <1>1, <1>2 DEF Current, m
<1>4. RunsWhatWasApproved'
  BY RunsStay
<1> QED
  BY <1>2, <1>3, <1>4, InvTurn

\* An inspection ends with a look at the row.
LEMMA RegisterOK ==
  ASSUME InvInd, NEW p \in Runners, NEW inRoot, Register(p, inRoot)
  PROVE  InvInd'
<1> DEFINE m == runner[p]
           r == [m EXCEPT !.stage = "record", !.other = m.other]
<1>1. m \in RunnerRecord
  BY InvPlace
<1>2. /\ \/ runner' = [runner EXCEPT ![p] = AtEase]
         \/ runner' = [runner EXCEPT ![p].stage = "record"]
      /\ UNCHANGED <<shape, disk, reg, ran, cleared>>
  BY DEF Register
<1>3. reg' \in RegRecord /\ (reg'.lifecycle = "approved" => reg'.digest \in cleared)
  BY <1>2, InvPlace
<1>4. CASE runner' = [runner EXCEPT ![p] = AtEase]
  BY <1>2, <1>3, <1>4, RunsStay, InvRest
<1>5. CASE runner' = [runner EXCEPT ![p].stage = "record"]
  <2>1. r = [m EXCEPT !.stage = "record"] /\ m.other \in BOOLEAN /\ r.stage = "record"
    BY <1>1 DEF RunnerRecord
  <2>2. runner' = [runner EXCEPT ![p] = r]
    BY <1>5, <2>1
  <2>3. Approved(r) /\ "record" \notin Gated
    BY <2>1 DEF Approved, Gated
  <2> QED
    BY <1>2, <1>3, <2>1, <2>2, <2>3, InvMove
<1> QED
  BY <1>2, <1>4, <1>5

\* The digest is recorded; a new one is not executable.
LEMMA RecordOK ==
  ASSUME InvInd, NEW p \in Runners, RecordDigest(p) \/ AppendFails(p)
  PROVE  InvInd'
<1> DEFINE m == runner[p]
           row == [lifecycle |-> "quarantined", digest |-> m.read]
           r == [m EXCEPT !.stage = "look", !.other = m.other]
<1>1. m \in RunnerRecord /\ Approved(m)
  BY InvPlace
<1>2. /\ \/ runner' = [runner EXCEPT ![p] = AtEase]
         \/ m.stage = "drift" /\ runner' = [runner EXCEPT ![p].stage = "look"]
      /\ reg' = reg \/ reg' = row
      /\ UNCHANGED <<shape, disk, ran, cleared>>
  BY DEF RecordDigest, AppendFails
<1>3. row \in RegRecord /\ row.lifecycle # "approved"
  BY <1>1 DEF RunnerRecord, RegRecord
<1>4. reg' \in RegRecord /\ (reg'.lifecycle = "approved" => reg'.digest \in cleared)
  BY <1>2, <1>3, InvPlace
<1>5. CASE runner' = [runner EXCEPT ![p] = AtEase]
  BY <1>2, <1>4, <1>5, RunsStay, InvRest
<1>6. CASE m.stage = "drift" /\ runner' = [runner EXCEPT ![p].stage = "look"]
  <2>1. /\ r = [m EXCEPT !.stage = "look"] /\ m.other \in BOOLEAN /\ r.stage = "look"
        /\ r.expected = m.expected /\ r.todo = m.todo
    BY <1>1 DEF RunnerRecord
  <2>2. runner' = [runner EXCEPT ![p] = r]
    BY <1>6, <2>1
  <2>3. Approved(r) /\ m.stage \in Gated
    BY <1>1, <1>6, <2>1 DEF Approved, Gated
  <2> QED
    BY <1>2, <1>4, <2>1, <2>2, <2>3, InvMove
<1> QED
  BY <1>2, <1>5, <1>6

\* The digest is compared.
LEMMA ResolveOK ==
  ASSUME InvInd, NEW p \in Runners, _resolve_source(p)
  PROVE  InvInd'
<1> DEFINE m == runner[p]
<1>1. m \in RunnerRecord /\ Approved(m)
  BY InvPlace
<1>2. PICK st \in {"look", "drift"} :
        /\ m.stage = "gate" /\ m.todo = {}
        /\ runner' = [runner EXCEPT ![p].stage = st]
        /\ UNCHANGED <<shape, disk, reg, ran, cleared>>
  BY DEF _resolve_source
<1> DEFINE r == [m EXCEPT !.stage = st, !.other = m.other]
<1>3. /\ r = [m EXCEPT !.stage = st] /\ m.other \in BOOLEAN /\ r.stage = st
      /\ r.expected = m.expected /\ r.todo = m.todo
  BY <1>1 DEF RunnerRecord
<1>4. runner' = [runner EXCEPT ![p] = r]
  BY <1>2, <1>3
<1>5. Approved(r) /\ m.stage \in Gated
  BY <1>1, <1>2, <1>3 DEF Approved, Gated
<1>6. reg' \in RegRecord /\ (reg'.lifecycle = "approved" => reg'.digest \in cleared)
  BY <1>2, InvPlace
<1> QED
  BY <1>2, <1>3, <1>4, <1>5, <1>6, InvMove

\* The second look: who is let through has read an approved digest, or the row
\* is about another one.
LEMMA SecondLookOK ==
  ASSUME InvInd, NEW p \in Runners, SecondLook(p)
  PROVE  InvInd'
<1> DEFINE m == runner[p]
           o == m.read \notin {m.expected, reg.digest}
           r == [m EXCEPT !.stage = "admitted", !.other = o]
<1>1. /\ m \in RunnerRecord /\ Approved(m)
      /\ reg.lifecycle = "approved" => reg.digest \in cleared
  BY InvPlace
<1>2. /\ m.stage = "look"
      /\ \/ runner' = [runner EXCEPT ![p] = AtEase]
         \/ /\ reg.lifecycle = "approved"
            /\ runner' = [runner EXCEPT ![p].stage = "admitted", ![p].other = o]
      /\ UNCHANGED <<shape, disk, reg, ran, cleared>>
  BY DEF SecondLook, Executable
<1>3. reg' \in RegRecord /\ (reg'.lifecycle = "approved" => reg'.digest \in cleared)
  BY <1>2, InvPlace
<1>4. CASE runner' = [runner EXCEPT ![p] = AtEase]
  BY <1>2, <1>3, <1>4, RunsStay, InvRest
<1>5. CASE /\ reg.lifecycle = "approved"
           /\ runner' = [runner EXCEPT ![p].stage = "admitted", ![p].other = o]
  <2>1. m.todo = {} /\ (m.read \in cleared \/ o)
    BY <1>1, <1>2, <1>5 DEF Approved
  <2>2. o \in BOOLEAN
    OBVIOUS
  <2> HIDE DEF o
  <2>3. runner' = [runner EXCEPT ![p] = r]
    BY <1>5 DEF InvInd, InvTypes
  <2>4. /\ r.stage = "admitted" /\ r.other = o /\ r.todo = m.todo /\ r.read = m.read
    BY <1>1 DEF RunnerRecord
  <2> HIDE DEF r
  <2>5. Approved(r)
    <3>1. r.read \in cleared \/ r.other = TRUE
      <4>1. CASE m.read \in cleared
        BY <2>4, <4>1
      <4>2. CASE o
        <5>1. o = TRUE
          BY <4>2, Zenon
        <5> QED
          BY <2>4, <5>1
      <4> QED
        BY <2>1, <4>1, <4>2
    <3> QED
      BY <2>1, <2>4, <3>1 DEF Approved
  <2>6. m.stage \in Gated
    BY <1>2 DEF Gated
  <2> QED
    BY <1>2, <1>3, <2>2, <2>3, <2>5, <2>6, InvMove DEF r
<1> QED
  BY <1>2, <1>4, <1>5

\* Policy is asked.
LEMMA InvokeOK ==
  ASSUME InvInd, NEW p \in Runners, NEW allowed, invoke(p, allowed)
  PROVE  InvInd'
<1> DEFINE m == runner[p]
           r == [m EXCEPT !.stage = "start"]
<1>1. /\ m.stage = "admitted"
      /\ \/ runner' = [runner EXCEPT ![p] = r]
         \/ runner' = [runner EXCEPT ![p] = AtEase]
      /\ UNCHANGED <<shape, disk, reg, ran, cleared>>
  BY DEF invoke
<1>2. m \in RunnerRecord /\ Approved(m) /\ Current(m)
  BY InvPlace
<1> HIDE DEF m
<1>3. /\ r \in RunnerRecord /\ r.stage = "start" /\ r.todo = m.todo
      /\ r.read = m.read /\ r.late = m.late /\ r.other = m.other
  BY <1>2 DEF RunnerRecord
<1> HIDE DEF r
<1>4. Approved(r) /\ Current(r)
  BY <1>1, <1>2, <1>3 DEF Approved, Current, Gated
<1>5. /\ reg' \in RegRecord /\ (reg'.lifecycle = "approved" => reg'.digest \in cleared)
      /\ RunsWhatWasApproved'
  BY <1>1, InvPlace, RunsStay
<1> QED
  BY <1>1, <1>3, <1>4, <1>5, InvTurn, InvRest

\* What is run was approved.
LEMMA ExecuteOK ==
  ASSUME InvInd, NEW p \in Runners, Execute(p)
  PROVE  InvInd'
<1> DEFINE m == runner[p]
           x == [files |-> disk, read |-> m.read, late |-> m.late, other |-> m.other]
<1>1. /\ m.stage = "start" /\ runner' = [runner EXCEPT ![p] = AtEase]
      /\ ran' = ran \/ ran' = {x}
      /\ UNCHANGED <<shape, disk, reg, cleared>>
  BY DEF Execute
<1>2. Approved(m) /\ Current(m)
  BY InvPlace
<1> HIDE DEF m
<1>3. /\ m.read \in cleared \/ m.other = TRUE
      /\ \A f \in Covered \ m.late : disk[f] = AsRead(m.read, f)
  BY <1>1, <1>2 DEF Approved, Current, Gated
<1>4. CASE ran' = {x}
  <2>1. x.files = disk /\ x.read = m.read /\ x.late = m.late /\ x.other = m.other
    OBVIOUS
  <2> HIDE DEF x
  <2>2. RunsWhatWasApproved'
    BY <1>1, <1>3, <1>4, <2>1 DEF RunsWhatWasApproved, AsRead, Covered
  <2> QED
    BY <1>1, <2>2, InvPlace, InvRest
<1>5. CASE ran' = ran
  BY <1>1, <1>5, InvPlace, RunsStay, InvRest
<1> QED
  BY <1>1, <1>4, <1>5

\* A human approves.
LEMMA ApproveOK ==
  ASSUME InvInd, Approve
  PROVE  InvInd'
<1>1. /\ reg' = [reg EXCEPT !.lifecycle = "approved"]
      /\ cleared' = cleared \cup {reg.digest}
      /\ UNCHANGED <<shape, disk, runner, ran>>
  BY DEF Approve
<1>2. InvTypes /\ ApprovalsKnown /\ ReadsCurrent
  BY DEF InvInd
<1>3. reg' \in RegRecord /\ reg'.digest = reg.digest
  BY <1>1, <1>2 DEF InvTypes, RegRecord
<1>4. InvTypes' /\ ReadsCurrent'
  BY <1>1, <1>2, <1>3 DEF InvTypes, ReadsCurrent, Current, Covered
<1>5. ApprovalsKnown'
  BY <1>1, <1>2, <1>3 DEF ApprovalsKnown, Approved
<1>6. RunsWhatWasApproved'
  BY <1>1, RunsStay
<1> QED
  BY <1>4, <1>5, <1>6 DEF InvInd

\* A change is late for those who have read the file, and will be read by the
\* others.
LEMMA ChangeOK ==
  ASSUME InvInd, NEW f \in Parts, NEW t \in Texts \cup {Gone}, Change(f, t)
  PROVE  InvInd'
<1> DEFINE Passed(p) == runner[p].stage \in Gated /\ f \notin runner[p].todo
<1>1. /\ disk' = [disk EXCEPT ![f] = t] /\ UNCHANGED <<shape, reg, cleared>> /\ ran' = {}
      /\ runner' = [p \in Runners |->
           IF Passed(p) THEN [runner[p] EXCEPT !.late = @ \cup {f}] ELSE runner[p]]
  BY DEF Change, Gated
<1>2. InvTypes /\ ApprovalsKnown /\ ReadsCurrent
  BY DEF InvInd
<1>3. ASSUME NEW p \in Runners
      PROVE  /\ runner'[p] \in RunnerRecord
             /\ runner'[p].stage = runner[p].stage /\ runner'[p].todo = runner[p].todo
             /\ runner'[p].read = runner[p].read
             /\ runner'[p].expected = runner[p].expected
             /\ runner'[p].other = runner[p].other
             /\ runner'[p].late = IF Passed(p) THEN runner[p].late \cup {f}
                                  ELSE runner[p].late
  <2>1. runner[p] \in RunnerRecord
    BY <1>2 DEF InvTypes
  <2>2. runner'[p] = IF Passed(p) THEN [runner[p] EXCEPT !.late = @ \cup {f}]
                     ELSE runner[p]
    BY <1>1
  <2> QED
    BY <2>1, <2>2 DEF RunnerRecord
<1>4. disk' \in [Parts -> Texts \cup {Gone}] /\ \A g \in Parts : g # f => disk'[g] = disk[g]
  BY <1>1, <1>2 DEF InvTypes
<1>5. InvTypes'
  <2>1. runner' \in [Runners -> RunnerRecord]
    BY <1>1, <1>3
  <2> QED
    BY <1>1, <1>2, <1>4, <2>1 DEF InvTypes
<1>6. ApprovalsKnown'
  BY <1>1, <1>2, <1>3 DEF ApprovalsKnown, Approved
<1>7. ReadsCurrent'
  <2> SUFFICES ASSUME NEW p \in Runners,
                      runner[p].stage \in Gated
               PROVE  /\ \A g \in runner'[p].todo : g \notin DOMAIN runner'[p].read
                      /\ \A g \in Covered :
                           g \notin runner'[p].late \cup runner'[p].todo =>
                             disk'[g] = AsRead(runner'[p].read, g)
    BY <1>1, <1>3 DEF ReadsCurrent, Current, Covered, AsRead
  <2>1. /\ \A g \in runner[p].todo : g \notin DOMAIN runner[p].read
        /\ \A g \in Covered : g \notin runner[p].late \cup runner[p].todo =>
             disk[g] = AsRead(runner[p].read, g)
    BY <1>2 DEF ReadsCurrent, Current
  <2>2. ASSUME NEW g \in Covered, g \notin runner'[p].late \cup runner'[p].todo
        PROVE  disk'[g] = AsRead(runner'[p].read, g)
    <3>1. g # f
      BY <1>3, <2>2
    <3>2. g \in Parts
      BY PartsAssumption DEF Covered, Entry
    <3>3. g \notin runner[p].late \cup runner[p].todo
      BY <1>3, <2>2
    <3> QED
      BY <1>3, <1>4, <2>1, <3>1, <3>2, <3>3
  <2> QED
    BY <1>3, <2>1, <2>2
<1>8. RunsWhatWasApproved'
  BY <1>1, RunsStay
<1> QED
  BY <1>5, <1>6, <1>7, <1>8 DEF InvInd

\* Every step keeps the invariant.
LEMMA InvStep ==
  ASSUME InvInd, [InvNext]_ivars
  PROVE  InvInd'
<1>1. CASE UNCHANGED ivars
  BY <1>1 DEF InvInd, ivars, InvTypes, ApprovalsKnown, Approved, ReadsCurrent,
              Current, RunsWhatWasApproved, Covered
<1>2. ASSUME NEW p \in Runners,
             \/ inspect_source(p) \/ _digest_directory(p) \/ assert_executable(p)
             \/ \E inRoot \in BOOLEAN : Register(p, inRoot)
             \/ RecordDigest(p) \/ AppendFails(p)
             \/ _resolve_source(p) \/ SecondLook(p) \/ Execute(p)
             \/ \E allowed \in BOOLEAN : invoke(p, allowed)
      PROVE  InvInd'
  <2>1. CASE \E inRoot \in BOOLEAN : Register(p, inRoot)
    BY <2>1, RegisterOK
  <2>2. CASE \E allowed \in BOOLEAN : invoke(p, allowed)
    BY <2>2, InvokeOK
  <2> QED
    BY <1>2, <2>1, <2>2, InspectSourceOK, DigestOK, AssertExecutableOK, RecordOK,
       ResolveOK, SecondLookOK, ExecuteOK
<1>3. CASE \E f \in Parts, t \in Texts \cup {Gone} : Change(f, t)
  BY <1>3, ChangeOK
<1>4. CASE Approve
  BY <1>4, ApproveOK
<1> QED
  BY <1>1, <1>2, <1>3, <1>4 DEF InvNext

\* Whatever changes on the disk and in the registry while processes inspect,
\* gate and run: the digest under which something runs was approved, unless it
\* had drifted and the row that let it through is another process's; and a file
\* it covers that is not as it was then was changed after the gate had read it
\* (assert_executable, _digest_directory, CLIAdapter.invoke).
THEOREM InvocationAlways == InvSpec => []RunsWhatWasApproved
<1>1. InvInit => InvInd
  BY InvInitOK
<1>2. InvInd /\ [InvNext]_ivars => InvInd'
  BY InvStep
<1>3. InvInd => RunsWhatWasApproved
  BY DEF InvInd
<1> QED
  BY <1>1, <1>2, <1>3, PTL DEF InvSpec
=============================================================================
