------------------------------- MODULE Policy -------------------------------
(* The policy engine: the files a stack of layers is loaded from             *)
(* (shiroe/policy/loader.py), precedence (policy/precedence.py), autonomy    *)
(* modes (policy/autonomy.py, policy/engine.py), network egress              *)
(* (shiroe/security/policy.py), and the service that turns a verdict into    *)
(* an approval request and looks at the answer (policy/service.py,           *)
(* policy/approval_service.py).                                              *)
(*                                                                           *)
(* Policy files are edited while callers read them, and an editor may leave  *)
(* a file that is not JSON for a while.  Paths are sequences of components,  *)
(* hosts sequences of one; one second may see several requests.              *)
EXTENDS Integers, Sequences, FiniteSets, SequencesExt

CONSTANTS
  Callers,      \* processes inside PolicyService.authorize
  Actions,      \* the actions they ask for: [kind, target]
  Hosts,        \* hosts of outbound calls
  Contents,     \* what people write into policy files
  Modes,        \* autonomy modes in use
  MaxEdits,     \* bound: edits of policy files
  MaxRequests,  \* bound: approval requests
  MaxDecisions, \* bound: human decisions
  MaxSeconds    \* bound: seconds between requests

VARIABLES
  files,     \* the four policy files
  intended,  \* history: what each file held when it was last complete
  requests,  \* table approval_requests, in the order of insertion
  call,      \* [Callers -> what the process is doing]
  second,    \* when the last request was made
  edits, decisions,
  granted,   \* history: the last verdict "allow" that was returned, if any
  blind      \* history: requests whose author did not see another's insert

policyVars == <<files, intended, requests, call, second, edits, decisions,
                granted, blind>>
-----------------------------------------------------------------------------
(* Kinds, actions and layers.                                                *)

ActionKind == {"fs.read", "fs.write", "fs.delete", "network", "secret.read",
  "subprocess", "external.write", "destructive", "memory.write", "event.write",
  "vcs.push", "vcs.merge", "publish", "external.message", "permission.change",
  "budget.escalation", "dependency.add", "capability.invoke"}

ALWAYS_REQUIRE_APPROVAL == {"vcs.push", "vcs.merge", "publish",
  "external.message", "fs.delete", "destructive", "secret.read",
  "dependency.add", "permission.change", "budget.escalation"}

REVERSIBLE_KINDS ==
  {"fs.read", "memory.write", "event.write", "capability.invoke"}

\* A layer; scopes that are empty do not restrict it.
Layer(denies, allows, writes, reads, hosts) ==
  [denies |-> denies, allows |-> allows, writes |-> writes, reads |-> reads,
   hosts |-> hosts]
Absent == Layer({}, {}, {}, {}, {})

FileNames == {"project-deny", "global-deny",
              "project-defaults", "global-defaults"}

ASSUME PolicyAssumption ==
  /\ Callers # {} /\ Modes \subseteq {"suggest", "auto-safe", "policy-bound"}
  /\ \A a \in Actions : a.kind \in ActionKind
  /\ \A c \in Contents : DOMAIN c = DOMAIN Absent
  /\ {MaxEdits, MaxRequests, MaxDecisions, MaxSeconds} \subseteq Nat

\* A file as it is on disk; one that is not JSON, and one that is not there.
Whole(data) == [whole |-> TRUE, data |-> data]
Torn == [whole |-> FALSE, data |-> Absent]
Missing == Whole(Absent)
Files == {Whole(c) : c \in Contents} \cup {Torn, Missing}

\* What cannot be read as JSON is {}, like a file that is missing.
_load_json(file) == IF file.whole THEN file.data ELSE Absent

\* Names that are no ActionKind are dropped.  A layer nothing is left of has
\* no rule that applies, as if it were not in the stack.
_mk_layer(data) == [data EXCEPT !.denies = @ \cap ActionKind,
                                !.allows = @ \cap ActionKind]

\* The layers by name; nothing installs harness defaults.
load_policy_stack(fs) == [n \in FileNames |-> _mk_layer(_load_json(fs[n]))]

_path_in_scopes(target, scopes) ==
  scopes = {} \/ (target # <<>> /\ \E s \in scopes : s # <<>> /\ IsPrefix(s, target))

_target_allowed(a, layer) ==
  CASE a.kind = "network" -> layer.hosts = {} \/ a.target \in layer.hosts
    [] a.kind = "fs.write" -> _path_in_scopes(a.target, layer.writes)
    [] a.kind = "fs.read" -> _path_in_scopes(a.target, layer.reads)
    [] OTHER -> TRUE

Denies(layer, a) == a.kind \in layer.denies /\ _target_allowed(a, layer)
Allows(layer, a) == a.kind \in layer.allows /\ _target_allowed(a, layer)

Egress == [kind : {"network"}, target : Hosts]

Decision(verdict, by) == [verdict |-> verdict, by |-> by]

\* The defaults: the first of the two layers with a rule about the action.
FromDefaults(a, stack) ==
  CASE Allows(stack["project-defaults"], a) -> Decision("allow", "project-defaults")
    [] ~Allows(stack["project-defaults"], a) /\ Denies(stack["project-defaults"], a) ->
         Decision("deny", "project-defaults")
    [] OTHER ->
         IF Allows(stack["global-defaults"], a)
         THEN Decision("allow", "global-defaults")
         ELSE IF Denies(stack["global-defaults"], a)
         THEN Decision("deny", "global-defaults")
         ELSE Decision("deny", "default-deny")

\* Mutants: a grant is looked at before the denies; the defaults are.
ResolveGrantFirst(a, stack, grant) ==
  IF Allows(grant, a) THEN Decision("allow", "explicit-user-grant")
  ELSE IF Denies(stack["project-deny"], a) THEN Decision("deny", "project-deny")
  ELSE IF Denies(stack["global-deny"], a) THEN Decision("deny", "global-deny")
  ELSE FromDefaults(a, stack)
ResolveDefaultsFirst(a, stack, grant) ==
  IF FromDefaults(a, stack).verdict = "allow" THEN FromDefaults(a, stack)
  ELSE IF Denies(stack["project-deny"], a) THEN Decision("deny", "project-deny")
  ELSE IF Denies(stack["global-deny"], a) THEN Decision("deny", "global-deny")
  ELSE IF Allows(grant, a) THEN Decision("allow", "explicit-user-grant")
  ELSE FromDefaults(a, stack)

\* The runtime invariants are an empty set of denies.
resolve(a, stack, grant) ==
  IF Denies(stack["project-deny"], a) THEN Decision("deny", "project-deny")
  ELSE IF Denies(stack["global-deny"], a) THEN Decision("deny", "global-deny")
  ELSE IF Allows(grant, a) THEN Decision("allow", "explicit-user-grant")
  ELSE FromDefaults(a, stack)

\* Mutant: a mode that executes what policy allows stops nowhere.
GateByMode(kind, mode) ==
  \/ mode = "policy-bound"
  \/ mode = "auto-safe" /\ kind \in REVERSIBLE_KINDS

autonomy_gate(kind, mode) ==
  /\ kind \notin ALWAYS_REQUIRE_APPROVAL
  /\ mode # "suggest"
  /\ mode = "auto-safe" => kind \in REVERSIBLE_KINDS

evaluate(a, stack, mode) ==
  LET raw == resolve(a, stack, Absent)
  IN IF raw.verdict = "allow" /\ ~autonomy_gate(a.kind, mode)
     THEN Decision("require_approval", raw.by) ELSE raw

\* network_scope of PRIVACY.md as it is written there, or no such file; what
\* is not one of the three scopes is the narrowest.
Scopes == {"device-only", "tailnet", "external"}
_load_privacy(written) == IF written \in Scopes THEN written ELSE "device-only"

\* SHARING_POLICY.md as the sequence of its connector sections: the last
\* section of a name counts.
_load_sharing_policy(sections) ==
  {c.name : c \in {sections[i] : i \in {j \in DOMAIN sections :
     /\ sections[j].enabled
     /\ \A k \in DOMAIN sections :
          k > j => sections[k].name # sections[j].name}}}

\* grant: SHIROE_ALLOW_NETWORK is set.
require_network(host, destination, scope, grant) ==
  /\ scope # "device-only"
  /\ ~(scope = "tailnet" /\ destination = "external")
  /\ LET user == IF grant THEN Layer({}, {"network"}, {}, {}, {host}) ELSE Absent
     IN resolve([kind |-> "network", target |-> host],
                load_policy_stack(files), user).verdict = "allow"

\* named: the connectors of SHIROE_ALLOW_CONNECTOR, which stand in for the
\* sharing file and for nothing else.
require_connector(name, sharing, named, scope, grant) ==
  /\ name \in named \/ name \in sharing
  /\ require_network(name, "external", scope, grant)
-----------------------------------------------------------------------------
(* PolicyService.authorize.                                                  *)

NoCall == [at |-> "idle"]

PolicyInit ==
  /\ files = [n \in FileNames |-> Missing]
  /\ intended = [n \in FileNames |-> Absent]
  /\ requests = <<>> /\ call = [c \in Callers |-> NoCall]
  /\ second = 0 /\ edits = 0 /\ decisions = 0
  /\ granted = {} /\ blind = {}

\* The global files are not looked for: the service names a directory that is
\* not there.
_stack_for == load_policy_stack([files EXCEPT !["global-deny"] = Missing,
                                              !["global-defaults"] = Missing])

Grant(a, banned) == {[action |-> a, banned |-> banned,
  approved |-> \E i \in DOMAIN requests :
                 requests[i].action = a /\ requests[i].status = "approved"]}

\* banned: what the project's deny file last held as a whole denies the
\* action, and the file is whole now.
authorize(c, a, mode) ==
  LET d == evaluate(a, _stack_for, mode)
      banned == /\ Denies(_mk_layer(intended["project-deny"]), a)
                /\ files["project-deny"].whole
  IN /\ call[c].at = "idle"
     /\ IF d.verdict = "require_approval"
        THEN /\ call' = [call EXCEPT ![c] =
                  [at |-> "look", action |-> a, banned |-> banned]]
             /\ UNCHANGED granted
        ELSE /\ granted' = IF d.verdict = "allow" THEN Grant(a, banned)
                           ELSE granted
             /\ UNCHANGED call
     /\ UNCHANGED <<files, intended, requests, second, edits, decisions, blind>>

Matching(a) == {i \in DOMAIN requests : requests[i].action = a}

\* ORDER BY requested_at DESC LIMIT 1: any of those made in the last second.
find_latest_matching(a) ==
  {i \in Matching(a) : \A j \in Matching(a) : requests[i].at >= requests[j].at}

Answer(status) == CASE status = "approved" -> "allow"
                    [] status = "rejected" -> "deny"
                    [] OTHER -> "wait"

\* A prior request, whatever its status, answers the call.
Consult(c) ==
  /\ call[c].at = "look" /\ Matching(call[c].action) # {}
  /\ \E i \in find_latest_matching(call[c].action) :
       granted' = IF Answer(requests[i].status) = "allow"
                  THEN Grant(call[c].action, call[c].banned) ELSE granted
  /\ call' = [call EXCEPT ![c] = NoCall]
  /\ UNCHANGED <<files, intended, requests, second, edits, decisions, blind>>

ConsultNone(c) ==
  /\ call[c].at = "look" /\ Matching(call[c].action) = {}
  /\ call' = [call EXCEPT ![c].at = "request"]
  /\ UNCHANGED <<files, intended, requests, second, edits, decisions,
                 granted, blind>>

\* Mutant: a request is made although one was found in the meantime, or before.
AlwaysRequests(c) == call[c].at \in {"look", "request"}

MayRequest(c) == call[c].at = "request"

\* Mutant: the row is inserted under the status of the other table.
NewRequestOpen(a, now) == [action |-> a, status |-> "open", at |-> now]

NewRequest(a, now) == [action |-> a, status |-> "pending", at |-> now]

\* now: the clock may have moved on since the last request.
request(c, now) ==
  /\ MayRequest(c) /\ Len(requests) < MaxRequests
  /\ requests' = Append(requests, NewRequest(call[c].action, now))
  /\ second' = now
  /\ blind' = blind \cup {d \in Callers : /\ call[d].at = "request" /\ d # c
                                          /\ call[d].action = call[c].action}
  /\ call' = [call EXCEPT ![c] = NoCall]
  /\ UNCHANGED <<files, intended, edits, decisions, granted>>

\* Any request may be decided, a decided one too.
decide_human(i, status) ==
  /\ decisions < MaxDecisions /\ requests[i].status # status
  /\ requests' = [requests EXCEPT ![i].status = status]
  /\ decisions' = decisions + 1
  /\ UNCHANGED <<files, intended, call, second, edits, granted, blind>>
-----------------------------------------------------------------------------
(* Policy files.                                                             *)

\* An edit is complete at once, or the file is not JSON in between.
Edit(n, file) ==
  /\ edits < MaxEdits /\ edits' = edits + 1
  /\ files' = [files EXCEPT ![n] = file]
  /\ intended' = IF file.whole THEN [intended EXCEPT ![n] = file.data]
                 ELSE intended
  /\ UNCHANGED <<requests, call, second, decisions, granted, blind>>

PolicyNext ==
  \/ \E c \in Callers :
       \/ \E a \in Actions, mode \in Modes : authorize(c, a, mode)
       \/ Consult(c) \/ ConsultNone(c)
       \/ \E now \in second..MaxSeconds : request(c, now)
  \/ \E i \in DOMAIN requests, s \in {"approved", "rejected", "deferred"} :
       decide_human(i, s)
  \/ \E n \in FileNames, file \in Files : Edit(n, file)

PolicySpec == PolicyInit /\ [][PolicyNext]_policyVars
-----------------------------------------------------------------------------
(* Properties.                                                               *)

\* Every request has a status of its own kind, and no caller waits for a row
\* that is not there.
PolicyTypeOK ==
  /\ \A n \in FileNames : files[n] \in Files
  /\ \A i \in DOMAIN requests :
       requests[i].status \in {"pending", "approved", "rejected", "deferred"}
  /\ \A c \in Callers : call[c].at \in {"idle", "look", "request"}
  /\ Len(requests) <= MaxRequests

\* Nothing that the project's deny file forbids is ever allowed, neither by
\* defaults nor by an approval, unless the file was not JSON when it was read
\* ("Denies at project/global scope - final", resolve, authorize).
DeniedStaysDenied == \A g \in granted : ~g.banned

\* An action on the always-approval list is allowed in no mode without a
\* human approval of that very action that stands when the service looks
\* (autonomy_gate, evaluate, find_latest_matching).
GrantHasApproval ==
  \A g \in granted : g.action.kind \in ALWAYS_REQUIRE_APPROVAL => g.approved

\* A layer that decides is not overruled by what any lower layer says: with
\* other defaults the verdict is the same (ADR-0005, "may never widen").
HigherLayerDecides ==
  LET stack == load_policy_stack(files)
  IN \A a \in Actions \cup Egress, grant \in BOOLEAN :
       LET user == IF grant THEN Layer({}, {a.kind}, {}, {}, {}) ELSE Absent
           by == resolve(a, stack, user)
       IN by.by \in {"project-deny", "global-deny", "explicit-user-grant"}
            => \A d \in Contents :
                 resolve(a, [stack EXCEPT !["project-defaults"] = _mk_layer(d),
                                          !["global-defaults"] = _mk_layer(d)],
                         user) = by

\* What stands in the way of a call to a host: a deny rule that can be read,
\* or nothing that allows it.
Obstructed(a, grant) ==
  \/ \E n \in {"project-deny", "global-deny"} :
       files[n].whole /\ Denies(_mk_layer(intended[n]), a)
  \/ ~grant /\ \A n \in {"project-defaults", "global-defaults"} :
                ~Allows(_mk_layer(intended[n]), a)

\* Network egress stays inside PRIVACY.md and inside every deny rule that can
\* be read, with and without the environment's grant, and needs one of the
\* grant and the defaults; a connector that the environment names, or that
\* the last word of the sharing file enables, is held to all of it as well
\* (require_network, require_connector).
EgressBounded ==
  \A a \in Egress, written \in Scopes \cup {"missing"}, grant \in BOOLEAN :
    LET scope == _load_privacy(written)
    IN /\ \A destination \in {"tailnet", "external"} :
            require_network(a.target, destination, scope, grant) =>
              /\ written \in {destination, "external"}
              /\ ~Obstructed(a, grant)
       /\ \A last, named \in BOOLEAN :
            LET sections == <<[name |-> a.target, enabled |-> ~last],
                              [name |-> a.target, enabled |-> last]>>
            IN require_connector(a.target, _load_sharing_policy(sections),
                                 IF named THEN {a.target} ELSE {}, scope, grant)
                 => /\ last \/ named
                    /\ written = "external" /\ ~Obstructed(a, grant)

\* There is one request for an action unless two callers looked for it at the
\* same time (authorize, "so we don't accumulate orphaned requests").
OneRequestPerAction ==
  blind = {} => \A i, j \in DOMAIN requests :
                  requests[i].action = requests[j].action => i = j

\* What a verdict "allow" rests on, whatever was edited, asked and decided
\* before: no denial, an approval where one is needed, the highest layer that
\* speaks, a target within its lists; and at most one request asks for it
\* (authorize, resolve, network and connector rules).
VerdictInv ==
  PolicyTypeOK /\ DeniedStaysDenied /\ GrantHasApproval /\ HigherLayerDecides
    /\ EgressBounded /\ OneRequestPerAction
=============================================================================
