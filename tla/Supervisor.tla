----------------------------- MODULE Supervisor -----------------------------
(* One Work Graph run by shiroe/execution/supervisor.py over the projection  *)
(* kept by shiroe/work/store.py.                                             *)
(*                                                                           *)
(* The processes: one supervisor (`shiroe run`), which may be killed between *)
(* any two commits and started again; humans deciding approvals             *)
(* (`shiroe approve decide`) at any moment; a planner (`shiroe plan`) that   *)
(* may store the same graph again.  Every commit of the supervisor is one    *)
(* step, and so is every read another process can invalidate before it is    *)
(* used.  Capability gate, policy, adapters and reviewers answer as they     *)
(* like.                                                                     *)
EXTENDS Integers, Sequences, FiniteSets

CONSTANTS
  Nodes,          \* node ids; numbers, so that `sorted` is <
  Preds,          \* [Nodes -> SUBSET Nodes], from the edges
  ApprovalNodes,  \* nodes with kind = approval
  Gated,          \* nodes with approval_required
  Executable,     \* nodes with a non-empty `requires`
  Reviewed,       \* nodes with independent_review
  MaxAttempts,    \* [Nodes -> attempts], retry.max_attempts
  Projection,     \* [Nodes -> cost], metadata.budget_projection
  Usages,         \* what an invocation may turn out to have cost
  BudgetMax,      \* the supervisor's cap, 0 = unlimited
  Scopes,         \* what metadata.scope may say
  MaxRuns,        \* bound: calls of run()
  MaxCrashes,     \* bound: kills of the supervisor
  MaxPlans        \* bound: times the graph is planned again

ASSUME GraphAssumption ==
  /\ Nodes \subseteq Nat /\ Nodes # {}
  /\ Preds \in [Nodes -> SUBSET Nodes]
  /\ ApprovalNodes \subseteq Nodes
  /\ Gated \subseteq Nodes
  /\ Executable \subseteq Nodes
  /\ Reviewed \subseteq Nodes
  /\ MaxAttempts \in [Nodes -> Nat \ {0}]
ASSUME BudgetAssumption ==
  Projection \in [Nodes -> Nat] /\ Usages \subseteq Nat /\ BudgetMax \in Nat
ASSUME BoundsAssumption ==
  /\ MaxRuns \in Nat /\ MaxCrashes \in Nat /\ MaxPlans \in Nat
  /\ Scopes # {}

VARIABLES
  \* The projection in SQLite.
  graph,      \* work_graphs.status
  status,     \* work_nodes.status
  version,    \* work_nodes.state_version
  scope,      \* metadata.scope of each node
  attempts,   \* work_attempts of each node: the sequence of their states
  approval,   \* the latest approval request of each node
  \* The running supervisor.
  pc,         \* the next thing it does
  todo,       \* nodes still to visit in the loop it is in
  cur,        \* node_id
  curScope,   \* scope in the node object it has read
  done,       \* attempts_done; 0 outside the retry loop
  seen,       \* the expected_version of its next compare-and-swap
  closing,    \* graph status it will leave behind
  spent,      \* BudgetTracker.usd_spent
  \* What happened so far.
  invoked,    \* adapter invocations per node
  granted,    \* scopes a human approved, per node
  runs, crashes, plans

dbVars == <<graph, status, version, scope, attempts, approval>>
runVars == <<pc, todo, cur, curScope, done, seen, closing, spent>>
historyVars == <<invoked, granted, runs, crashes, plans>>
vars == <<dbVars, runVars, historyVars>>

NodeStatuses == {"pending", "blocked", "completed", "failed"}
GraphStatuses == {"draft", "running", "paused", "completed", "failed"}
AttemptStates == {"running", "completed", "failed"}
Decisions == {"approved", "rejected", "revise", "deferred"}
Approvals == [state : Decisions \cup {"none", "pending", "stale"}, scope : Scopes]

\* Inside the retry loop of one attempt.
Attempting == {"invoke", "result", "output", "record", "review"}
PCs == {"off", "unblock", "refresh", "pick", "request", "block", "complete", "try",
        "fail", "close"} \cup Attempting

TypeOK ==
  /\ graph \in GraphStatuses
  /\ status \in [Nodes -> NodeStatuses]
  /\ version \in [Nodes -> Nat]
  /\ scope \in [Nodes -> Scopes]
  /\ attempts \in [Nodes -> Seq(AttemptStates)]
  /\ approval \in [Nodes -> Approvals]
  /\ pc \in PCs
  /\ todo \subseteq Nodes
  /\ cur \in Nodes
  /\ curScope \in Scopes
  /\ done \in Nat
  /\ seen \in Nat
  /\ closing \in GraphStatuses
  /\ spent \in Nat
  /\ invoked \in [Nodes -> Nat]
  /\ granted \in [Nodes -> SUBSET Scopes]
  /\ runs \in Nat /\ crashes \in Nat /\ plans \in Nat

\* A freshly planned graph and no supervisor.
Init ==
  /\ graph = "draft"
  /\ status = [n \in Nodes |-> "pending"]
  /\ version = [n \in Nodes |-> 0]
  /\ \E s \in Scopes : scope = [n \in Nodes |-> s] /\ curScope = s
  /\ attempts = [n \in Nodes |-> <<>>]
  /\ approval = [n \in Nodes |-> [state |-> "none", scope |-> scope[n]]]
  /\ pc = "off"
  /\ todo = {}
  /\ cur \in {n \in Nodes : \A m \in Nodes : n <= m}
  /\ done = 0 /\ seen = 0 /\ closing = "draft" /\ spent = 0
  /\ invoked = [n \in Nodes |-> 0]
  /\ granted = [n \in Nodes |-> {}]
  /\ runs = 0 /\ crashes = 0 /\ plans = 0
-----------------------------------------------------------------------------
(* Reading the projection.                                                   *)

\* The loops of the supervisor go through node ids in sorted order.
IsNext(n) == n \in todo /\ \A m \in todo : n <= m

\* readiness.ready_node_ids without its test of the predecessors.
ReadyIgnoringEdges == {n \in Nodes : status[n] = "pending"}

\* WorkStore.ready_node_ids: pending, and every predecessor completed.
Ready == {n \in Nodes : status[n] = "pending" /\ \A p \in Preds[n] : status[p] = "completed"}

\* An assert_current that returns the request whatever its scope is.
CurrentAnyScope(n, s) == approval[n]

\* ApprovalService.assert_current: a request for another scope goes stale.
Current(n, s) ==
  IF approval[n].state # "none" /\ approval[n].scope # s
  THEN [approval[n] EXCEPT !.state = "stale"]
  ELSE approval[n]

\* A mapping that would write the decision "revise" into work_nodes.status.
ApprovalToNodeStatusVerbatim ==
  [approved |-> "completed", pending |-> "pending", deferred |-> "pending",
   stale |-> "pending", rejected |-> "failed", revise |-> "revise"]

\* WorkStore._APPROVAL_TO_NODE_STATUS.
ApprovalToNodeStatus ==
  [approved |-> "completed", pending |-> "pending", deferred |-> "pending",
   stale |-> "pending", rejected |-> "failed", revise |-> "blocked"]

\* A would_exceed that forgets what was already spent.
WouldExceedAlone(n) == BudgetMax # 0 /\ Projection[n] > BudgetMax

\* BudgetTracker.would_exceed: equality with the cap is allowed, 0 is no cap.
WouldExceed(n) == BudgetMax # 0 /\ spent + Projection[n] > BudgetMax

\* An _attempt_count that a restart resets.
AttemptCountReset(n) == 0

\* _attempt_count: the rows of work_attempts, from this run or an earlier one.
AttemptCount(n) == Len(attempts[n])

\* A run that takes every graph without a failed node for finished.
OutcomeIgnoringPending ==
  IF \E n \in Nodes : status[n] = "failed" THEN "failed" ELSE "completed"

\* With nothing ready the graph is completed or, as "deadlocked", failed.
Outcome == IF \A n \in Nodes : status[n] = "completed" THEN "completed" ELSE "failed"

\* node.approval_required and not _task_approval_current.
GateClosed(n) == n \in Gated /\ Current(n, scope[n]).state # "approved"
-----------------------------------------------------------------------------
(* Writing the projection.                                                   *)

\* projections._apply_step with a new status.
StepTo(n, st) ==
  /\ status' = [status EXCEPT ![n] = st]
  /\ version' = [version EXCEPT ![n] = @ + 1]

FinishAttempt(n, st) ==
  attempts' = [attempts EXCEPT ![n] = [@ EXCEPT ![Len(attempts[n])] = st]]
-----------------------------------------------------------------------------
(* run(): entering.                                                          *)

\* A supervisor is constructed (its budget starts at 0) and run() is called.
Begin ==
  /\ pc = "off"
  /\ runs < MaxRuns
  /\ runs' = runs + 1
  /\ pc' = "unblock"
  /\ todo' = Nodes \ ApprovalNodes
  /\ spent' = 0
  /\ UNCHANGED <<dbVars, cur, curScope, done, seen, closing, invoked, granted, crashes, plans>>

\* An _unblock_task_nodes that gives failed nodes another chance.
UnblockFailedToo(n) ==
  /\ pc = "unblock"
  /\ IsNext(n)
  /\ todo' = todo \ {n}
  /\ \/ status[n] \in {"blocked", "failed"} /\ StepTo(n, "pending")
     \/ status[n] \notin {"blocked", "failed"} /\ UNCHANGED <<status, version>>
  /\ UNCHANGED <<graph, scope, attempts, approval, pc, cur, curScope, done, seen, closing, spent,
                 historyVars>>

\* _unblock_task_nodes: a blocked task node goes back to pending.
Unblock(n) ==
  /\ pc = "unblock"
  /\ IsNext(n)
  /\ todo' = todo \ {n}
  /\ \/ status[n] = "blocked" /\ StepTo(n, "pending")
     \/ status[n] # "blocked" /\ UNCHANGED <<status, version>>
  /\ UNCHANGED <<graph, scope, attempts, approval, pc, cur, curScope, done, seen, closing, spent,
                 historyVars>>

\* set_graph_status(running), then the first refresh_readiness.
StartRunning ==
  /\ pc = "unblock"
  /\ todo = {}
  /\ graph' = "running"
  /\ pc' = "refresh"
  /\ todo' = ApprovalNodes
  /\ UNCHANGED <<status, version, scope, attempts, approval, cur, curScope, done, seen, closing,
                 spent, historyVars>>

\* refresh_readiness for one approval node: the node follows its latest
\* request, whatever status it had before.
Refresh(n) ==
  /\ pc = "refresh"
  /\ IsNext(n)
  /\ todo' = todo \ {n}
  /\ \/ approval[n].state = "none" /\ UNCHANGED <<approval, status, version>>
     \/ /\ approval[n].state # "none"
        /\ approval' = [approval EXCEPT ![n] = Current(n, scope[n])]
        /\ LET next == ApprovalToNodeStatus[Current(n, scope[n]).state]
           IN \/ next = status[n] /\ UNCHANGED <<status, version>>
              \/ next # status[n] /\ StepTo(n, next)
  /\ UNCHANGED <<graph, scope, attempts, pc, cur, curScope, done, seen, closing, spent, historyVars>>

\* A run that, with nothing ready, waits for an approval to change.
SnapshotWaiting ==
  /\ pc = "refresh"
  /\ todo = {}
  /\ \/ Ready # {} /\ pc' = "pick" /\ todo' = Ready
     \/ Ready = {} /\ pc' = pc /\ todo' = ApprovalNodes
  /\ UNCHANGED <<dbVars, cur, curScope, done, seen, closing, spent, historyVars>>

\* ready_node_ids: the snapshot the pass works through, in one read.  With
\* nothing ready the run ends.
Snapshot ==
  /\ pc = "refresh"
  /\ todo = {}
  /\ todo' = Ready
  /\ \/ Ready # {} /\ pc' = "pick" /\ closing' = closing
     \/ Ready = {} /\ pc' = "close" /\ closing' = Outcome
  /\ UNCHANGED <<dbVars, cur, curScope, done, seen, spent, historyVars>>
-----------------------------------------------------------------------------
(* run(): one node of the snapshot.                                          *)

\* get_node, and the gates that are tried in this order: approval kind,
\* approval_required, no `requires`, budget.  What is left enters the retry
\* loop with the persisted attempt count.
Pick(n) ==
  /\ pc = "pick"
  /\ IsNext(n)
  /\ todo' = todo \ {n}
  /\ cur' = n
  /\ curScope' = scope[n]
  /\ seen' = version[n]
  /\ approval' = IF n \in Gated \ ApprovalNodes
                 THEN [approval EXCEPT ![n] = Current(n, scope[n])] ELSE approval
  /\ \/ /\ n \in ApprovalNodes \/ GateClosed(n)
        /\ pc' = "request" /\ done' = 0
     \/ /\ n \notin ApprovalNodes /\ ~ GateClosed(n) /\ n \notin Executable
        /\ pc' = (IF n \in Reviewed THEN "block" ELSE "complete") /\ done' = 0
     \/ /\ n \in Executable \ ApprovalNodes /\ ~ GateClosed(n) /\ WouldExceed(n)
        /\ pc' = "block" /\ done' = 0
     \/ /\ n \in Executable \ ApprovalNodes /\ ~ GateClosed(n) /\ ~ WouldExceed(n)
        /\ pc' = "try" /\ done' = AttemptCount(n)
  /\ UNCHANGED <<graph, status, version, scope, attempts, closing, spent, historyVars>>

\* The snapshot is worked through: back to refresh_readiness.
NextPass ==
  /\ pc = "pick"
  /\ todo = {}
  /\ pc' = "refresh"
  /\ todo' = ApprovalNodes
  /\ UNCHANGED <<dbVars, cur, curScope, done, seen, closing, spent, historyVars>>

\* _ensure_approval_request: a node keeps the request it has.
EnsureRequest ==
  /\ pc = "request"
  /\ approval' = IF approval[cur].state = "none"
                 THEN [approval EXCEPT ![cur] = [state |-> "pending", scope |-> curScope]]
                 ELSE approval
  /\ pc' = "block"
  /\ UNCHANGED <<graph, status, version, scope, attempts, todo, cur, curScope, done, seen, closing,
                 spent, historyVars>>

\* set_node_status(blocked): the run pauses.
Block ==
  /\ pc = "block"
  /\ version[cur] = seen
  /\ StepTo(cur, "blocked")
  /\ pc' = "close"
  /\ closing' = "paused"
  /\ UNCHANGED <<graph, scope, attempts, approval, todo, cur, curScope, done, seen, spent,
                 historyVars>>

\* set_node_status(completed); the retry loop is left, if the run was in it.
Complete ==
  /\ pc = "complete"
  /\ version[cur] = seen
  /\ StepTo(cur, "completed")
  /\ pc' = "pick" /\ done' = 0
  /\ UNCHANGED <<graph, scope, attempts, approval, todo, cur, curScope, seen, closing, spent,
                 historyVars>>

\* Inside the retry loop a commit that cannot get the event log's lock raises
\* LockError, a RuntimeError: nothing is written and the node is tried again,
\* its adapter included.  A reviewer that raises has the same effect.  (Outside
\* the loop a LockError ends run(), as Crash does.)
CommitTimesOut ==
  /\ done > 0
  /\ pc \in {"record", "block", "complete", "close"} \/ (pc = "review" /\ cur \in Reviewed)
  /\ pc' = "try"
  /\ UNCHANGED <<dbVars, todo, cur, curScope, done, seen, closing, spent, historyVars>>

\* A set_node_status or record_output finds another version than it expects.
\* Inside the retry loop ConcurrentWorkUpdate counts as a failed try, outside
\* it ends the run with the graph left "running".
LoseRace ==
  /\ pc \in {"block", "complete", "record", "fail"}
  /\ version[cur] # seen
  /\ pc' = IF done > 0 THEN "try" ELSE "off"
  /\ UNCHANGED <<dbVars, todo, cur, curScope, done, seen, closing, spent, historyVars>>
-----------------------------------------------------------------------------
(* run(): the retry loop.                                                    *)

\* assert_executable or PolicyService.authorize refuses (or the event lock
\* times out): a try is used up, no attempt is recorded.  authorize cannot ask
\* for an approval here: a policy-bound capability_invoke is allowed or denied.
GateRefuses ==
  /\ pc = "try"
  /\ done < MaxAttempts[cur]
  /\ done' = done + 1
  /\ UNCHANGED <<dbVars, pc, todo, cur, curScope, seen, closing, spent, historyVars>>

\* Gate and policy agree; _record_attempt commits the attempt as running.
RecordAttempt ==
  /\ pc = "try"
  /\ done < MaxAttempts[cur]
  /\ done' = done + 1
  /\ attempts' = [attempts EXCEPT ![cur] = Append(@, "running")]
  /\ pc' = "invoke"
  /\ UNCHANGED <<graph, status, version, scope, approval, todo, cur, curScope, seen, closing, spent,
                 historyVars>>

\* The adapter, or the dispatcher of a remote node, is called.
Invoke ==
  /\ pc = "invoke"
  /\ invoked' = [invoked EXCEPT ![cur] = @ + 1]
  /\ pc' = "result"
  /\ UNCHANGED <<dbVars, todo, cur, curScope, done, seen, closing, spent, granted, runs, crashes,
                 plans>>

\* The result is not ok, lacks an expected output or the required evidence.
AdapterFails ==
  /\ pc = "result"
  /\ FinishAttempt(cur, "failed")
  /\ pc' = "try"
  /\ UNCHANGED <<graph, status, version, scope, approval, todo, cur, curScope, done, seen, closing,
                 spent, historyVars>>

\* The call, or closing a failed attempt, raises a RuntimeError (no trusted
\* worker, a live lease, a digest mismatch, LockError): the row stays "running".
AdapterRaises ==
  /\ pc = "result"
  /\ pc' = "try"
  /\ UNCHANGED <<dbVars, todo, cur, curScope, done, seen, closing, spent, historyVars>>

\* The budget is charged, but closing the attempt cannot get the event log's
\* lock: the row stays "running" and the node is tried again.
ChargeAndTimeOut ==
  /\ pc = "result"
  /\ \E u \in Usages : spent' = spent + u
  /\ pc' = "try"
  /\ UNCHANGED <<dbVars, todo, cur, curScope, done, seen, closing, historyVars>>

\* The budget is charged and the attempt closed as completed.
AdapterSucceeds ==
  /\ pc = "result"
  /\ \E u \in Usages : spent' = spent + u
  /\ FinishAttempt(cur, "completed")
  /\ pc' = "output"
  /\ UNCHANGED <<graph, status, version, scope, approval, todo, cur, curScope, done, seen, closing,
                 historyVars>>

\* node_state_version.
ReadVersion ==
  /\ pc = "output"
  /\ seen' = version[cur]
  /\ pc' = "record"
  /\ UNCHANGED <<dbVars, todo, cur, curScope, done, closing, spent, historyVars>>

\* A record_output after which the supervisor still expects the old version.
RecordOutputKeepsVersion ==
  /\ pc = "record"
  /\ version[cur] = seen
  /\ version' = [version EXCEPT ![cur] = @ + 1]
  /\ pc' = "review"
  /\ UNCHANGED <<graph, status, scope, attempts, approval, todo, cur, curScope, done, seen, closing,
                 spent, historyVars>>

\* record_output; the transition that follows expects version + 1.
RecordOutput ==
  /\ pc = "record"
  /\ version[cur] = seen
  /\ version' = [version EXCEPT ![cur] = @ + 1]
  /\ seen' = seen + 1
  /\ pc' = "review"
  /\ UNCHANGED <<graph, status, scope, attempts, approval, todo, cur, curScope, done, closing, spent,
                 historyVars>>

\* _independent_review_passes, where the node asks for a review.
Review ==
  /\ pc = "review"
  /\ \/ pc' = "complete"
     \/ cur \in Reviewed /\ pc' = "block"
  /\ UNCHANGED <<dbVars, todo, cur, curScope, done, seen, closing, spent, historyVars>>

\* The tries are used up: the node is read again ...
Exhausted ==
  /\ pc = "try"
  /\ done >= MaxAttempts[cur]
  /\ seen' = version[cur]
  /\ done' = 0
  /\ pc' = "fail"
  /\ UNCHANGED <<dbVars, todo, cur, curScope, closing, spent, historyVars>>

\* ... and set_node_status(failed); the graph fails with it.
Fail ==
  /\ pc = "fail"
  /\ version[cur] = seen
  /\ StepTo(cur, "failed")
  /\ pc' = "close"
  /\ closing' = "failed"
  /\ UNCHANGED <<graph, scope, attempts, approval, todo, cur, curScope, done, seen, spent,
                 historyVars>>

\* set_graph_status, and run() returns its summary.
Close ==
  /\ pc = "close"
  /\ graph' = closing
  /\ pc' = "off" /\ done' = 0
  /\ UNCHANGED <<status, version, scope, attempts, approval, todo, cur, curScope, seen, closing,
                 spent, historyVars>>
-----------------------------------------------------------------------------
(* The other processes.                                                      *)

\* The supervisor is killed, or an exception outside the caught ones ends it.
Crash ==
  /\ pc # "off"
  /\ crashes < MaxCrashes
  /\ crashes' = crashes + 1
  /\ pc' = "off" /\ done' = 0
  /\ UNCHANGED <<dbVars, todo, cur, curScope, seen, closing, spent, invoked, granted, runs, plans>>

\* ApprovalService.decide_human: any request may be decided, and decided again.
Decide(n, decision) ==
  /\ approval[n].state # "none"
  /\ approval' = [approval EXCEPT ![n].state = decision]
  /\ granted' = [granted EXCEPT ![n] = IF decision = "approved"
                                       THEN @ \cup {approval[n].scope} ELSE @]
  /\ UNCHANGED <<graph, status, version, scope, attempts, runVars, invoked, runs, crashes, plans>>

\* WorkStore.create for a graph id that exists: INSERT OR REPLACE gives every
\* node a fresh row; attempts and approvals stay.
Plan(s) ==
  /\ plans < MaxPlans
  /\ plans' = plans + 1
  /\ graph' = "draft"
  /\ status' = [n \in Nodes |-> "pending"]
  /\ version' = [n \in Nodes |-> 0]
  /\ scope' = [n \in Nodes |-> s]
  /\ UNCHANGED <<attempts, approval, runVars, invoked, granted, runs, crashes>>
-----------------------------------------------------------------------------
\* Whatever the running supervisor does next.
Step ==
  \/ \E n \in Nodes : Unblock(n) \/ Refresh(n) \/ Pick(n)
  \/ StartRunning \/ Snapshot \/ NextPass \/ Close
  \/ EnsureRequest \/ Block \/ Complete \/ LoseRace \/ CommitTimesOut
  \/ GateRefuses \/ RecordAttempt \/ Invoke
  \/ AdapterFails \/ AdapterRaises \/ AdapterSucceeds \/ ChargeAndTimeOut
  \/ ReadVersion \/ RecordOutput \/ Review
  \/ Exhausted \/ Fail

Next ==
  \/ Begin
  \/ Step
  \/ Crash
  \/ \E n \in Nodes, d \in Decisions : Decide(n, d)
  \/ \E s \in Scopes : Plan(s)

Spec == Init /\ [][Next]_vars

\* A supervisor that runs keeps running: adapters have a timeout, the backoff
\* sleep is capped and the event lock has a deadline.  Nobody is obliged to
\* call run(), to decide or to plan.
FairSpec == Spec /\ WF_vars(Step)
-----------------------------------------------------------------------------
(* Properties.                                                               *)

\* retry.max_attempts bounds the adapter invocations of a node over its whole
\* life: crashes, resumed runs and a graph planned again do not give it new
\* attempts (tests/integration/execution/test_retry_lifecycle.py: attempts
\* already spent stay spent).
AttemptsBounded == \A n \in Nodes : invoked[n] <= MaxAttempts[n]

\* Nothing runs or completes ahead of its predecessors: a task node that was
\* ever invoked, or is completed, has only completed task predecessors and only
\* approval predecessors that a human approved at some time.
PredecessorsFirst ==
  plans = 0 =>
    \A n \in Nodes \ ApprovalNodes : invoked[n] > 0 \/ status[n] = "completed" =>
      \A p \in Preds[n] : IF p \in ApprovalNodes THEN granted[p] # {} ELSE status[p] = "completed"

\* A node with approval_required is only worked on under a scope that a human
\* approved for that node, also when the graph is planned again with another
\* scope while an approval exists or the supervisor runs.
GateHonoured ==
  pc \in Attempting \cup {"try", "complete"} /\ cur \in Gated => curScope \in granted[cur]

\* Completed and failed are final for task nodes: neither a resumed run nor a
\* changed approval reopens one.
TerminalTasksStable ==
  [][plans' = 0 =>
       \A n \in Nodes \ ApprovalNodes : status[n] \in {"completed", "failed"}
                                           => status'[n] = status[n]]_vars

\* A graph reported completed has only completed nodes.
CompletedMeansAll ==
  plans = 0 /\ graph = "completed" => \A n \in Nodes : status[n] = "completed"

\* What a completed node and a completed graph stand for: everything before the
\* node, and every node (WorkStore.ready_node_ids, Supervisor.run).
CompletionInv == PredecessorsFirst /\ CompletedMeansAll

\* As long as nobody plans the graph again, no compare-and-swap of the
\* supervisor finds an unexpected version: ConcurrentWorkUpdate never ends a
\* run half way or burns an attempt whose adapter already succeeded.
NoLostRace ==
  plans = 0 /\ pc \in {"block", "complete", "record", "fail"} => version[cur] = seen

\* A capped run overshoots its budget by at most the attempts of one node, at
\* the dearest usage: a node is let in only while what was spent, plus its
\* projection, fits the cap.  Inside the retry loop nobody asks again, and an
\* invocation that succeeded and was charged is repeated when a commit after it
\* times out, so one invocation is not the bound.
BudgetOvershootsByOneNode ==
  BudgetMax # 0 =>
    \A most \in Usages : (\A u \in Usages : u <= most) =>
      \E n \in Nodes : spent <= BudgetMax + MaxAttempts[n] * most

\* run() always comes back, whatever humans decide meanwhile.
RunReturns == pc # "off" ~> pc = "off"
=============================================================================
