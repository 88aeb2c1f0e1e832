------------------------------- MODULE Remote -------------------------------
(* Work nodes placed on remote workers: the node registry and its leases     *)
(* (shiroe/nodes/store.py), the dispatcher that leases a work node and ships *)
(* it (shiroe/nodes/dispatcher.py, shiroe/transport/tailscale_ssh.py), and   *)
(* the worker that checks a package before it runs it                        *)
(* (shiroe/nodes/protocol.py, shiroe/nodes/worker.py).                       *)
(*                                                                           *)
(* A controller is a process inside NodeDispatcher.invoke.  Every SQLite     *)
(* transaction, every append to the event log and every exchange with the    *)
(* worker is a step of its own.  A lease is identified by its place in       *)
(* `leases`; the package made for it carries the same identity.              *)
EXTENDS Integers, Sequences, FiniteSets

CONSTANTS
  Controllers,   \* processes that dispatch work nodes
  WorkNodes,     \* work_node ids
  Workers,       \* nodes that can be registered with role "worker"
  Digests,       \* capability digests
  WorkerDigest,  \* [Workers -> Digests]: what the worker itself has
  WorkerClock,   \* [Workers -> Int]: its clock minus the controllers'
  Outcomes,      \* what the worker's executor may report in "ok"
  TTL,           \* timeout_s: of the lease and of the package
  MaxClock,      \* bound: ticks of the clock
  MaxLeases,     \* bound: leases
  MaxFaults      \* bound: kills, refused appends and lost connections

VARIABLES
  nodes,     \* rows of table nodes: [Workers -> [digest, trusted]]
  leases,    \* rows of table node_leases
  jobs,      \* what became of the package of each lease
  logged,    \* node.lease_* events of the log: <<lease, state>>
  ctl,       \* [Controllers -> what the process is doing]
  clock,     \* the controllers' clock, in seconds
  faults,    \* faults so far
  cut,       \* history: leases whose controller stopped waiting for its job
  orphaned,  \* history: leases whose invocation ended before its try block
  unlogged   \* history: leases with an outcome whose event was not logged

vars == <<nodes, leases, jobs, logged, ctl, clock, faults,
          cut, orphaned, unlogged>>
-----------------------------------------------------------------------------
Unregistered == [digest |-> "none", trusted |-> FALSE]

TerminalStates == {"completed", "failed"}
LeaseStates == TerminalStates \cup {"active", "expired"}

Lease == [work : WorkNodes, node : Workers, state : LeaseStates, expires : Nat]

\* "inbox": not sent yet, or not picked up by worker-run.
Job == {"inbox", "running", "ok", "failed", "refused"}

\* trusted, digest: as invoke read them first; now: when expire_active_leases
\* looked; until: expires_at of the package; want: the state _terminal_lease
\* was called for; handling: from the except clause of invoke.
Stages == {"idle", "found", "swept", "leased", "packaged", "waiting",
           "settle", "update", "settled"}
Ctl == [at : Stages, work : WorkNodes, node : Workers, trusted : BOOLEAN,
        digest : Digests, now : Nat, until : Nat, lease : Nat,
        want : TerminalStates, handling : BOOLEAN]

ASSUME ConstantsAssumption ==
  /\ Controllers # {} /\ WorkNodes # {} /\ Workers # {} /\ Digests # {}
  /\ "none" \notin Digests /\ WorkerDigest \in [Workers -> Digests]
  /\ WorkerClock \in [Workers -> Int] /\ Outcomes \subseteq BOOLEAN
  /\ TTL \in Nat /\ MaxClock \in Nat /\ MaxLeases \in Nat /\ MaxFaults \in Nat

\* A process outside invoke; the other fields have no meaning then.
Idle == [at |-> "idle", work |-> CHOOSE n \in WorkNodes : TRUE,
         node |-> CHOOSE w \in Workers : TRUE, trusted |-> FALSE,
         digest |-> CHOOSE d \in Digests : TRUE, now |-> 0, until |-> 0,
         lease |-> 0, want |-> "failed", handling |-> FALSE]

Init ==
  /\ nodes = [w \in Workers |-> Unregistered]
  /\ leases = <<>> /\ jobs = <<>> /\ logged = {}
  /\ ctl = [c \in Controllers |-> Idle]
  /\ clock = 0 /\ faults = 0
  /\ cut = {} /\ orphaned = {} /\ unlogged = {}

Holds(c) == ctl[c].at \in {"packaged", "waiting", "settle", "update", "settled"}

\* invoke returns, or raises.
Return(c) == [ctl EXCEPT ![c] = Idle]
-----------------------------------------------------------------------------
(* The registry.                                                             *)

\* The digest is fixed when the node is registered: nothing updates it.
register_candidate(w, d) ==
  /\ nodes[w] = Unregistered
  /\ nodes' = [nodes EXCEPT ![w] = [digest |-> d, trusted |-> FALSE]]
  /\ UNCHANGED <<leases, jobs, logged, ctl, clock, faults,
                 cut, orphaned, unlogged>>

trust_node(w, trusted) ==
  /\ nodes[w] # Unregistered /\ nodes[w].trusted # trusted
  /\ nodes' = [nodes EXCEPT ![w].trusted = trusted]
  /\ UNCHANGED <<leases, jobs, logged, ctl, clock, faults,
                 cut, orphaned, unlogged>>
-----------------------------------------------------------------------------
(* invoke, up to the try block.                                              *)

\* get_node raises KeyError for a node that is not registered; d is the digest
\* the capability has now, and a node with another one ends the call as well.
Invoke(c, n, w, d) ==
  /\ ctl[c].at = "idle" /\ nodes[w] # Unregistered /\ nodes[w].digest = d
  /\ ctl' = [ctl EXCEPT ![c].at = "found", ![c].work = n, ![c].node = w,
                        ![c].trusted = nodes[w].trusted, ![c].digest = d]
  /\ UNCHANGED <<nodes, leases, jobs, logged, clock, faults,
                 cut, orphaned, unlogged>>

\* Mutants: a lease is still good in the second it expires; every lease that
\* has run out is expired, the ended ones too; every active lease is expired.
RunOutLate(l, now) == l.state = "active" /\ l.expires < now
RunOutAny(l, now) == l.expires <= now
RunOutAll(l, now) == l.state = "active"

RunOut(l, now) == l.state = "active" /\ l.expires <= now

\* acquire_lease reads the row again, then expires what has run out.
expire_active_leases(c) ==
  /\ ctl[c].at = "found"
  /\ IF nodes[ctl[c].node].trusted
     THEN /\ leases' = [i \in DOMAIN leases |->
                          IF RunOut(leases[i], clock)
                          THEN [leases[i] EXCEPT !.state = "expired"]
                          ELSE leases[i]]
          /\ ctl' = [ctl EXCEPT ![c].at = "swept", ![c].now = clock]
     ELSE ctl' = Return(c) /\ UNCHANGED leases
  /\ UNCHANGED <<nodes, jobs, logged, clock, faults,
                 cut, orphaned, unlogged>>

\* Mutant: no index, two active leases of a work node are stored.
ClashesNever(n) == FALSE

\* uq_active_work_node_lease.
Clashes(n) == \E i \in DOMAIN leases :
  leases[i].work = n /\ leases[i].state = "active"

acquire_lease(c) ==
  LET n == ctl[c].work  w == ctl[c].node IN
  /\ ctl[c].at = "swept"
  /\ IF Clashes(n)
     THEN ctl' = Return(c) /\ UNCHANGED <<leases, jobs>>
     ELSE /\ Len(leases) < MaxLeases
          /\ leases' = Append(leases, [work |-> n, node |-> w,
                                       state |-> "active",
                                       expires |-> clock + TTL])
          /\ jobs' = Append(jobs, "inbox")
          /\ ctl' = [ctl EXCEPT ![c].at = "leased", ![c].now = 0,
                                ![c].lease = Len(leases) + 1]
  /\ UNCHANGED <<nodes, logged, clock, faults, cut, orphaned,
                 unlogged>>

\* node.lease_acquired, then make_work_package: the package runs for timeout_s
\* from now, not from when the lease was taken.
make_work_package(c) ==
  /\ ctl[c].at = "leased"
  /\ logged' = logged \cup {<<ctl[c].lease, "active">>}
  /\ ctl' = [ctl EXCEPT ![c].at = "packaged", ![c].until = clock + TTL]
  /\ UNCHANGED <<nodes, leases, jobs, clock, faults, cut, orphaned,
                 unlogged>>

\* The append raises: the lease is committed and nothing will end it.
AcquireNotLogged(c) ==
  /\ ctl[c].at = "leased" /\ faults < MaxFaults
  /\ faults' = faults + 1
  /\ orphaned' = orphaned \cup {ctl[c].lease}
  /\ ctl' = Return(c)
  /\ UNCHANGED <<nodes, leases, jobs, logged, clock, cut, unlogged>>
-----------------------------------------------------------------------------
(* The exchange with the worker.                                             *)

Settle(c, want, handling) ==
  [ctl EXCEPT ![c] = [Idle EXCEPT !.at = "settle", !.lease = ctl[c].lease,
                                  !.want = want, !.handling = handling]]

\* Mutants: no except clause in invoke; fail_lease is tried again and again.
RaisedThrough(c) == Return(c)
RaisedAgain(c) == Settle(c, "failed", TRUE)

\* The except clause of invoke calls fail_lease; what that raises goes out.
Raised(c) == IF ctl[c].handling THEN Return(c) ELSE Settle(c, "failed", TRUE)

\* _validate_node looks at the record invoke read first.  The policy, the
\* probe or scp may also end the call: the package never arrives.
execute_remote_package(c) ==
  /\ ctl[c].at = "packaged"
  /\ \/ ctl[c].trusted /\ ctl' = [ctl EXCEPT ![c].at = "waiting"]
     \/ ctl' = Raised(c)
  /\ UNCHANGED <<nodes, leases, jobs, logged, clock, faults, cut,
                 orphaned, unlogged>>

\* The worker compares with its own digest and its own clock.
validate_work_package(c) ==
  /\ ctl[c].digest = WorkerDigest[ctl[c].node]
  /\ ctl[c].until > clock + WorkerClock[ctl[c].node]

\* `shiroe node worker-run`: the executor starts only for a valid package of a
\* controller the worker trusts.
worker_run_package(c) ==
  LET l == ctl[c].lease IN
  /\ ctl[c].at = "waiting" /\ jobs[l] = "inbox"
  /\ \/ /\ validate_work_package(c)
        /\ jobs' = [jobs EXCEPT ![l] = "running"]
     \/ jobs' = [jobs EXCEPT ![l] = "refused"]
  /\ UNCHANGED <<nodes, leases, logged, ctl, clock, faults, cut,
                 orphaned, unlogged>>

\* The executor ends and the receipt is written; ssh may be gone by then.
ExecutionReceipt(l) ==
  /\ jobs[l] = "running"
  /\ \E ok \in Outcomes :
       jobs' = [jobs EXCEPT ![l] = IF ok THEN "ok" ELSE "failed"]
  /\ UNCHANGED <<nodes, leases, logged, ctl, clock, faults, cut,
                 orphaned, unlogged>>

\* Mutants: whatever came back counts as a success; a lease is released.
VerdictAny(state) == "completed"
VerdictReleased(state) == IF state = "ok" THEN "released" ELSE "failed"

Verdict(state) == IF state = "ok" THEN "completed" ELSE "failed"

\* A refusal makes worker-run exit with an error, which raises here.
_parse_receipt(c) ==
  LET s == jobs[ctl[c].lease] IN
  /\ ctl[c].at = "waiting" /\ s \in {"ok", "failed", "refused"}
  /\ ctl' = IF s = "refused" THEN Raised(c) ELSE Settle(c, Verdict(s), FALSE)
  /\ UNCHANGED <<nodes, leases, jobs, logged, clock, faults, cut,
                 orphaned, unlogged>>

\* ssh ends with an error, or with a receipt that does not parse or names
\* another package, while the job is wherever it is.
ConnectionLost(c) ==
  /\ ctl[c].at = "waiting" /\ faults < MaxFaults
  /\ faults' = faults + 1
  /\ cut' = cut \cup {ctl[c].lease}
  /\ ctl' = Raised(c)
  /\ UNCHANGED <<nodes, leases, jobs, logged, clock, orphaned,
                 unlogged>>
-----------------------------------------------------------------------------
(* complete_lease and fail_lease.                                            *)

Endable(state) == state = "active"

\* _terminal_lease reads the row: same state, nothing to do; not active, an
\* error, which inside the try block leads to fail_lease and after it out.
_terminal_lease(c) ==
  LET s == leases[ctl[c].lease].state IN
  /\ ctl[c].at = "settle"
  /\ ctl' = IF s = ctl[c].want THEN Return(c)
            ELSE IF Endable(s) THEN [ctl EXCEPT ![c].at = "update"]
            ELSE Raised(c)
  /\ UNCHANGED <<nodes, leases, jobs, logged, clock, faults, cut,
                 orphaned, unlogged>>

\* The UPDATE names the lease only: whatever state it has by now.
UpdateLease(c) ==
  /\ ctl[c].at = "update"
  /\ leases' = [leases EXCEPT ![ctl[c].lease].state = ctl[c].want]
  /\ ctl' = [ctl EXCEPT ![c].at = "settled"]
  /\ UNCHANGED <<nodes, jobs, logged, clock, faults, cut, orphaned,
                 unlogged>>

\* Mutant: the event tells what was asked for before the row says so.
LoggedStateAsked(c) == "completed"

\* The row is read again for the event.
LoggedState(c) == leases[ctl[c].lease].state

EmitOutcome(c) ==
  /\ ctl[c].at = "settled"
  /\ logged' = logged \cup {<<ctl[c].lease, LoggedState(c)>>}
  /\ ctl' = Return(c)
  /\ UNCHANGED <<nodes, leases, jobs, clock, faults, cut, orphaned,
                 unlogged>>

\* The append raises: an invocation whose lease is completed reports an error.
OutcomeNotLogged(c) ==
  /\ ctl[c].at = "settled" /\ faults < MaxFaults
  /\ faults' = faults + 1
  /\ unlogged' = unlogged \cup {ctl[c].lease}
  /\ ctl' = Raised(c)
  /\ UNCHANGED <<nodes, leases, jobs, logged, clock, cut, orphaned>>
-----------------------------------------------------------------------------
(* The environment.                                                          *)

Crash(c) ==
  /\ ctl[c].at # "idle" /\ faults < MaxFaults
  /\ faults' = faults + 1
  /\ IF ctl[c].at = "leased" \/ Holds(c)
     THEN /\ cut' = cut \cup {ctl[c].lease}
          /\ orphaned' = orphaned \cup {ctl[c].lease}
          /\ unlogged' = unlogged \cup {ctl[c].lease}
     ELSE UNCHANGED <<cut, orphaned, unlogged>>
  /\ ctl' = Return(c)
  /\ UNCHANGED <<nodes, leases, jobs, logged, clock>>

Tick ==
  /\ clock < MaxClock
  /\ clock' = clock + 1
  /\ UNCHANGED <<nodes, leases, jobs, logged, ctl, faults, cut,
                 orphaned, unlogged>>

\* What a dispatching process does by itself.
Step(c) ==
  \/ expire_active_leases(c) \/ acquire_lease(c) \/ make_work_package(c)
  \/ execute_remote_package(c) \/ _parse_receipt(c)
  \/ _terminal_lease(c) \/ UpdateLease(c) \/ EmitOutcome(c)

Next ==
  \/ \E w \in Workers, d \in Digests : register_candidate(w, d)
  \/ \E w \in Workers, t \in BOOLEAN : trust_node(w, t)
  \/ \E c \in Controllers, n \in WorkNodes, w \in Workers, d \in Digests :
       Invoke(c, n, w, d)
  \/ \E c \in Controllers :
       \/ Step(c) \/ AcquireNotLogged(c) \/ worker_run_package(c)
       \/ ConnectionLost(c) \/ OutcomeNotLogged(c) \/ Crash(c)
  \/ \E l \in DOMAIN jobs : ExecutionReceipt(l)
  \/ Tick

Spec == Init /\ [][Next]_vars

\* A process that is not killed takes its next step.  The worker and the
\* connection promise nothing: ssh is started without a timeout.
FairSpec == Spec /\ \A c \in Controllers : WF_vars(Step(c))
-----------------------------------------------------------------------------
(* Properties.                                                               *)

\* Type correctness of the registry, the leases and the dispatching processes.
TypeOK ==
  /\ nodes \in [Workers -> [digest : Digests, trusted : BOOLEAN]
                             \cup {Unregistered}]
  /\ leases \in Seq(Lease) /\ Len(leases) <= MaxLeases
  /\ jobs \in Seq(Job) /\ Len(jobs) = Len(leases)
  /\ logged \subseteq (1..Len(leases)) \X LeaseStates
  /\ ctl \in [Controllers -> Ctl]
  /\ clock \in 0..MaxClock /\ faults \in 0..MaxFaults
  /\ cut \cup orphaned \cup unlogged \subseteq 1..Len(leases)

Running(l) == jobs[l] = "running"

\* Two workers run one work node at the same time only when the lease of one
\* of them has run out, or its controller lost the connection or was killed:
\* the unique index and the expiry of acquire_lease allow no other overlap.
OverlapExplained ==
  \A l, m \in DOMAIN jobs :
    l < m /\ Running(l) /\ Running(m) /\ leases[l].work = leases[m].work
      => l \in cut \/ leases[l].expires <= clock

\* A lease recorded as completed or failed keeps that state: expire_active_
\* leases takes none of them back and no other process ends it again.
SettledLeasesStable ==
  [][\A l \in DOMAIN leases :
       leases[l].state \in TerminalStates
         => leases'[l].state = leases[l].state]_vars

\* acquire_lease refuses only because of a lease that had time left when the
\* refused call looked: a dead controller's lease that ran out blocks nobody.
RefusalIsJust ==
  [][\A c \in Controllers :
       ctl[c].at = "swept" /\ ctl'[c].at = "idle" /\ faults' = faults
         => \E l \in DOMAIN leases :
              /\ leases[l].state = "active"
              /\ leases[l].work = ctl[c].work
              /\ leases[l].expires > ctl[c].now]_vars

\* A lease ends as completed only when its own package ran and the executor
\* reported success; invoke returns a success only then.
CompletedWasExecuted ==
  \A l \in DOMAIN leases :
    leases[l].state = "completed" => jobs[l] = "ok"

\* No invocation that returns leaves its lease active: an active lease belongs
\* to a process that will end it, or was orphaned by a kill or by an append
\* that failed between the INSERT and the try block of invoke.
NoLeakedLease ==
  \A l \in DOMAIN leases :
    leases[l].state = "active"
      => \/ l \in orphaned
         \/ \E c \in Controllers :
              ctl[c].lease = l /\ (ctl[c].at = "leased" \/ Holds(c))

\* The log tells the truth about leases: a logged outcome is the state of the
\* row, and a row with an outcome whose process got past its event is logged.
LoggedOutcomeIsTrue ==
  \A l \in DOMAIN leases :
    /\ \A s \in TerminalStates :
         <<l, s>> \in logged => leases[l].state = s
    /\ leases[l].state \in TerminalStates
         => \/ <<l, leases[l].state>> \in logged \/ l \in unlogged
            \/ \E c \in Controllers :
                 ctl[c].lease = l /\ ctl[c].at = "settled"

\* A worker starts a package whose lease is no longer active only after the
\* lease's time: nothing but the expiry of acquire_lease takes a lease from a
\* controller that is waiting.  The package itself may outlive the lease, as
\* make_work_package counts from a later moment and the clocks may differ.
StartsUnderLease ==
  [][\A l \in DOMAIN jobs :
       jobs[l] = "inbox" /\ jobs'[l] = "running"
         => leases[l].state = "active" \/ leases[l].expires <= clock]_vars

\* Once the worker's answer is there or the call has failed, invoke returns:
\* _terminal_lease and the except clause of invoke cannot go round for ever.
SettlingReturns ==
  \A c \in Controllers :
    ctl[c].at \in {"settle", "update", "settled"} ~> ctl[c].at = "idle"
\* The state of leases between the steps of the controllers: a completed one
\* was executed, an active one has somebody to end it, and table and log agree
\* (acquire_lease, _terminal_lease, NodeDispatcher.invoke).
LeaseInv ==
  TypeOK /\ CompletedWasExecuted /\ NoLeakedLease /\ LoggedOutcomeIsTrue

\* What no step does to a lease: reopen one that has ended, refuse a caller
\* without a live lease in its way, or start work that was taken away early
\* (expire_active_leases, acquire_lease, worker_run_package).
LeaseSteps == SettledLeasesStable /\ RefusalIsJust /\ StartsUnderLease
=============================================================================
