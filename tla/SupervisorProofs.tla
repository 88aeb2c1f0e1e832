-------------------------- MODULE SupervisorProofs --------------------------
(* Machine-checked proofs about Supervisor, for every graph, every retry and *)
(* budget setting and every bound.  Inv is the inductive invariant: what the *)
(* attempt rows, the approvals and the supervisor's local variables say      *)
(* about each other.  Its last part speaks of a graph that is not planned    *)
(* again (plans = 0).  The last section is about Compiler: its cycle search  *)
(* is right for any graph.                                                   *)
EXTENDS Supervisor, Compiler, SequenceTheorems, FiniteSetTheorems,
        WellFoundedInduction, TLAPS

\* The supervisor is inside the retry loop of a node.
Looping == pc \in Attempting \cup {"try"} \/ (pc \in {"complete", "block", "close"} /\ done > 0)

\* The supervisor works on a node it has let through its gates.
Trying == Looping \/ pc = "complete"

\* The supervisor has taken a node out of its snapshot and is not done with it.
Working == Looping \/ pc \in {"complete", "request", "block", "fail"}

\* Every invocation has its row, no node has more rows than attempts, and the
\* retry loop's counter never falls behind the rows.
AttemptInv ==
  /\ \A n \in Nodes : invoked[n] <= Len(attempts[n]) /\ Len(attempts[n]) <= MaxAttempts[n]
  /\ pc = "invoke" => invoked[cur] < Len(attempts[cur])
  /\ pc = "result" => Len(attempts[cur]) > 0
  /\ Trying /\ done > 0 => Len(attempts[cur]) <= done
  /\ pc = "try" => Len(attempts[cur]) <= done
  /\ pc \in Attempting => done > 0
  /\ Looping => done <= MaxAttempts[cur]
  /\ pc \in {"off", "unblock", "refresh", "pick", "request", "fail"} => done = 0

\* An approved request is for a scope a human approved, and so is the node the
\* supervisor works on.
GateInv ==
  /\ \A n \in Nodes : approval[n].state = "approved" => approval[n].scope \in granted[n]
  /\ Trying /\ cur \in Gated => curScope \in granted[cur]

\* The predecessors of n allow it to run.
PredsDone(n) ==
  \A p \in Preds[n] : IF p \in ApprovalNodes THEN granted[p] # {} ELSE status[p] = "completed"

\* A step leaves completed and failed task nodes alone and withdraws no grant.
TasksStay ==
  /\ \A n \in Nodes \ ApprovalNodes : status[n] \in {"completed", "failed"} => status'[n] = status[n]
  /\ \A n \in Nodes : granted[n] \subseteq granted'[n]

\* The version the supervisor expects is the one in the table.
VersionKnown ==
  pc \in {"request", "block", "complete", "record", "review", "fail"} => version[cur] = seen

\* What the supervisor read about its snapshot is still so.
SnapshotKnown ==
  /\ pc = "refresh" => todo \subseteq ApprovalNodes
  /\ pc = "pick" \/ Working => \A m \in todo : status[m] = "pending" /\ PredsDone(m)
  /\ Working => status[cur] \in {"pending", "blocked"} /\ PredsDone(cur) /\ cur \notin todo
  /\ Trying => cur \notin ApprovalNodes

\* Completed approval nodes were approved; completed or invoked task nodes have
\* their predecessors done.
NodesKnown ==
  /\ \A n \in ApprovalNodes : status[n] = "completed" => granted[n] # {}
  /\ \A n \in Nodes \ ApprovalNodes : invoked[n] > 0 \/ status[n] = "completed" => PredsDone(n)

\* The graph's status and the statuses of its nodes.
GraphKnown ==
  /\ pc \notin {"off", "unblock"} => graph = "running"
  /\ pc = "close" /\ closing = "completed" => \A n \in Nodes : status[n] = "completed"
  /\ graph = "completed" => \A n \in Nodes : status[n] = "completed"

\* No invocation costs more.
Dearest(most) == most \in Usages /\ \A u \in Usages : u <= most

\* What a capped run has spent: inside the retry loop the tries that are over
\* on top of the cap, outside of it at most the attempts of one node.
SpendingKnown ==
  BudgetMax # 0 => \A most \in Usages : Dearest(most) =>
    /\ \E n \in Nodes : spent <= BudgetMax + MaxAttempts[n] * most
    /\ Looping => spent <= BudgetMax + done * most
    /\ pc \in {"invoke", "result"} => spent <= BudgetMax + (done - 1) * most

\* What holds as long as the graph is not planned again.
OnePlanInv ==
  plans = 0 => VersionKnown /\ SnapshotKnown /\ NodesKnown /\ GraphKnown

\* The inductive invariant.
Inv == TypeOK /\ AttemptInv /\ GateInv /\ SpendingKnown /\ OnePlanInv

-----------------------------------------------------------------------------
(* Lemmas about the operators.                                               *)

\* Moving a node's status keeps the types of status and version.
LEMMA StepType ==
  ASSUME TypeOK, NEW n \in Nodes, NEW st \in NodeStatuses, StepTo(n, st)
  PROVE  status' \in [Nodes -> NodeStatuses] /\ version' \in [Nodes -> Nat]
BY DEF TypeOK, StepTo

\* assert_current returns the request it found, stale or as it was; it says
\* "approved" only of an approved request for the scope that was asked for.
LEMMA CurrentFacts ==
  ASSUME TypeOK, NEW n \in Nodes, NEW s \in Scopes
  PROVE  /\ Current(n, s) \in Approvals
         /\ approval[n].state # "none" => Current(n, s).state # "none"
         /\ Current(n, s).state = "approved" =>
              Current(n, s) = approval[n] /\ approval[n].state = "approved" /\ approval[n].scope = s
<1>1. approval[n] \in Approvals
  BY DEF TypeOK
<1>2. approval[n].state \in Decisions \cup {"none", "pending", "stale"} /\ approval[n].scope \in Scopes
  BY <1>1 DEF Approvals
<1>3. CASE approval[n].state # "none" /\ approval[n].scope # s
  <2>1. Current(n, s) = [approval[n] EXCEPT !.state = "stale"]
    BY <1>3 DEF Current
  <2>2. Current(n, s) = [state |-> "stale", scope |-> approval[n].scope]
    BY <2>1, <1>1 DEF Approvals
  <2> QED
    BY <2>2, <1>2 DEF Approvals
<1>4. CASE ~ (approval[n].state # "none" /\ approval[n].scope # s)
  <2>1. Current(n, s) = approval[n]
    BY <1>4 DEF Current
  <2> QED
    BY <2>1, <1>1, <1>4
<1> QED
  BY <1>3, <1>4

\* Closing the last attempt of a node keeps the rows and their number.
LEMMA RowClosed ==
  ASSUME TypeOK, Len(attempts[cur]) > 0, NEW st \in AttemptStates, FinishAttempt(cur, st)
  PROVE  /\ attempts' \in [Nodes -> Seq(AttemptStates)]
         /\ \A n \in Nodes : Len(attempts'[n]) = Len(attempts[n])
<1>1. attempts[cur] \in Seq(AttemptStates) /\ Len(attempts[cur]) \in 1 .. Len(attempts[cur])
  BY DEF TypeOK
<1> DEFINE closed == [attempts[cur] EXCEPT ![Len(attempts[cur])] = st]
<1>2. closed \in Seq(AttemptStates) /\ Len(closed) = Len(attempts[cur])
  BY <1>1, ExceptSeq
<1>3. attempts' = [attempts EXCEPT ![cur] = closed]
  BY DEF FinishAttempt
<1> HIDE DEF closed
<1> QED
  BY <1>2, <1>3 DEF TypeOK

\* A decided, pending or stale request has a node status, and only an approved
\* one completes its node.
LEMMA NodeStatusOf ==
  ASSUME NEW st \in Decisions \cup {"pending", "stale"}
  PROVE  /\ ApprovalToNodeStatus[st] \in NodeStatuses
         /\ ApprovalToNodeStatus[st] = "completed" => st = "approved"
BY DEF ApprovalToNodeStatus, Decisions, NodeStatuses
-----------------------------------------------------------------------------
(* Every action keeps the invariant.                                         *)

\* Every step keeps the types.
LEMMA TypeStep ==
  ASSUME Inv, [Next]_vars
  PROVE  TypeOK'
<1> USE GraphAssumption DEF Inv, TypeOK, PCs, Attempting, dbVars, runVars, historyVars
<1>1. CASE Begin
  BY <1>1 DEF Begin
<1>2. ASSUME NEW n \in Nodes, Unblock(n) PROVE TypeOK'
  <2>1. CASE status[n] = "blocked"
    BY <1>2, <2>1, StepType DEF Unblock, NodeStatuses
  <2>2. CASE status[n] # "blocked"
    BY <1>2, <2>2 DEF Unblock
  <2> QED
    BY <2>1, <2>2
<1>3. ASSUME NEW n \in Nodes, Refresh(n) PROVE TypeOK'
  <2>1. Current(n, scope[n]) \in Approvals
    BY CurrentFacts
  <2>2. approval' \in [Nodes -> Approvals]
    BY <1>3, <2>1 DEF Refresh
  <2>3. status' \in [Nodes -> NodeStatuses] /\ version' \in [Nodes -> Nat]
    <3>1. CASE UNCHANGED <<status, version>>
      BY <3>1
    <3>2. CASE /\ approval[n].state # "none"
               /\ StepTo(n, ApprovalToNodeStatus[Current(n, scope[n]).state])
      <4>1. Current(n, scope[n]).state \in Decisions \cup {"pending", "stale"}
        BY <3>2, <2>1, CurrentFacts DEF Approvals
      <4> QED
        BY <3>2, <4>1, NodeStatusOf, StepType
    <3> QED
      BY <1>3, <3>1, <3>2 DEF Refresh
  <2> QED
    BY <1>3, <2>2, <2>3 DEF Refresh
<1>4. ASSUME NEW n \in Nodes, Pick(n) PROVE TypeOK'
  <2>1. approval' \in [Nodes -> Approvals]
    BY <1>4, CurrentFacts DEF Pick
  <2>2. done' \in Nat
    BY <1>4 DEF Pick, AttemptCount
  <2>3. pc' \in PCs
    BY <1>4 DEF Pick
  <2> QED
    BY <1>4, <2>1, <2>2, <2>3 DEF Pick
<1>5. CASE StartRunning
  BY <1>5 DEF StartRunning, GraphStatuses
<1>6. CASE Snapshot
  BY <1>6 DEF Snapshot, Ready, Outcome, GraphStatuses
<1>7. CASE NextPass
  BY <1>7 DEF NextPass
<1>8. CASE Close
  BY <1>8 DEF Close
<1>9. CASE EnsureRequest
  BY <1>9 DEF EnsureRequest, Approvals
<1>10. CASE Block
  BY <1>10, StepType DEF Block, NodeStatuses, GraphStatuses
<1>11. CASE Complete
  BY <1>11, StepType DEF Complete, NodeStatuses
<1>12. CASE LoseRace
  BY <1>12 DEF LoseRace
<1>13. CASE GateRefuses
  BY SMTT(30), ZenonT(30), <1>13 DEF GateRefuses
<1>14. CASE RecordAttempt
  BY SMTT(30), ZenonT(30), <1>14 DEF RecordAttempt, AttemptStates
<1>15. CASE Invoke
  BY SMTT(30), ZenonT(30), <1>15 DEF Invoke
<1>16. CASE AdapterFails
  <2>1. attempts' \in [Nodes -> Seq(AttemptStates)]
    BY <1>16, RowClosed DEF AdapterFails, AttemptInv, AttemptStates
  <2> QED
    BY <1>16, <2>1, BudgetAssumption DEF AdapterFails
<1>17. CASE AdapterRaises
  BY <1>17 DEF AdapterRaises
<1>18. CASE AdapterSucceeds
  <2>1. attempts' \in [Nodes -> Seq(AttemptStates)]
    BY <1>18, RowClosed DEF AdapterSucceeds, AttemptInv, AttemptStates
  <2> QED
    BY SMTT(30), ZenonT(30), <1>18, <2>1, BudgetAssumption DEF AdapterSucceeds
<1>19. CASE ReadVersion
  BY <1>19 DEF ReadVersion
<1>20. CASE RecordOutput
  BY SMTT(30), ZenonT(30), <1>20 DEF RecordOutput
<1>21. CASE Review
  BY <1>21 DEF Review
<1>22. CASE Exhausted
  BY <1>22 DEF Exhausted
<1>23. CASE Fail
  BY <1>23, StepType DEF Fail, NodeStatuses, GraphStatuses
<1>24. CASE Crash
  BY SMTT(30), ZenonT(30), <1>24 DEF Crash
<1>25. ASSUME NEW n \in Nodes, NEW d \in Decisions, Decide(n, d) PROVE TypeOK'
  BY ZenonT(60), <1>25 DEF Decide, Approvals, Decisions
<1>26. ASSUME NEW s \in Scopes, Plan(s) PROVE TypeOK'
  BY <1>26 DEF Plan, GraphStatuses, NodeStatuses
<1>28. CASE CommitTimesOut
  BY <1>28 DEF CommitTimesOut
<1>29. CASE ChargeAndTimeOut
  BY <1>29, BudgetAssumption DEF ChargeAndTimeOut
<1>27. CASE UNCHANGED vars
  BY <1>27 DEF vars
<1> QED
  BY <1>1, <1>2, <1>3, <1>4, <1>5, <1>6, <1>7, <1>8, <1>9, <1>10, <1>11, <1>12, <1>13,
     <1>14, <1>15, <1>16, <1>17, <1>18, <1>19, <1>20, <1>21, <1>22, <1>23, <1>24, <1>25,
     <1>26, <1>27, <1>28, <1>29 DEF Next, Step

\* Every step keeps rows, invocations and tries in step with each other.
LEMMA AttemptStep ==
  ASSUME Inv, [Next]_vars
  PROVE  AttemptInv'
<1>0. \A n \in Nodes : Len(attempts[n]) \in Nat /\ MaxAttempts[n] \in Nat
  BY GraphAssumption DEF Inv, TypeOK
<1> USE GraphAssumption DEF Inv, AttemptInv, TypeOK, Looping, Trying, Attempting, dbVars, runVars,
        historyVars
<1>1. CASE Begin
  BY <1>1 DEF Begin
<1>2. ASSUME NEW n \in Nodes, Unblock(n) PROVE AttemptInv'
  BY <1>2 DEF Unblock
<1>3. ASSUME NEW n \in Nodes, Refresh(n) PROVE AttemptInv'
  BY <1>3 DEF Refresh
<1>4. ASSUME NEW n \in Nodes, Pick(n) PROVE AttemptInv'
  BY <1>4 DEF Pick, AttemptCount
<1>5. CASE StartRunning
  BY <1>5 DEF StartRunning
<1>6. CASE Snapshot
  BY <1>6 DEF Snapshot
<1>7. CASE NextPass
  BY <1>7 DEF NextPass
<1>8. CASE Close
  BY <1>8 DEF Close
<1>9. CASE EnsureRequest
  BY <1>9 DEF EnsureRequest
<1>10. CASE Block
  BY <1>10 DEF Block
<1>11. CASE Complete
  BY <1>11 DEF Complete
<1>12. CASE LoseRace
  BY <1>12 DEF LoseRace
<1>13. CASE GateRefuses
  BY <1>13 DEF GateRefuses
<1>14. CASE RecordAttempt
  <2>1. Len(attempts'[cur]) = Len(attempts[cur]) + 1
    BY <1>14 DEF RecordAttempt
  <2>2. \A n \in Nodes : n # cur => attempts'[n] = attempts[n]
    BY <1>14 DEF RecordAttempt
  <2> QED
    BY <1>14, <2>1, <2>2, <1>0 DEF RecordAttempt
<1>15. CASE Invoke
  BY <1>15 DEF Invoke
<1>16. CASE AdapterFails
  <2>1. \A n \in Nodes : Len(attempts'[n]) = Len(attempts[n])
    BY <1>16, RowClosed DEF AdapterFails, AttemptStates
  <2> QED
    BY <1>16, <2>1 DEF AdapterFails
<1>17. CASE AdapterRaises
  BY <1>17 DEF AdapterRaises
<1>18. CASE AdapterSucceeds
  <2>1. \A n \in Nodes : Len(attempts'[n]) = Len(attempts[n])
    BY <1>18, RowClosed DEF AdapterSucceeds, AttemptStates
  <2> QED
    BY <1>18, <2>1 DEF AdapterSucceeds
<1>19. CASE ReadVersion
  BY <1>19 DEF ReadVersion
<1>20. CASE RecordOutput
  BY <1>20 DEF RecordOutput
<1>21. CASE Review
  BY <1>21 DEF Review
<1>22. CASE Exhausted
  BY <1>22 DEF Exhausted
<1>23. CASE Fail
  BY <1>23 DEF Fail
<1>24. CASE Crash
  BY <1>24 DEF Crash
<1>25. ASSUME NEW n \in Nodes, NEW d \in Decisions, Decide(n, d) PROVE AttemptInv'
  BY <1>25 DEF Decide
<1>26. ASSUME NEW s \in Scopes, Plan(s) PROVE AttemptInv'
  BY <1>26 DEF Plan
<1>28. CASE CommitTimesOut
  BY <1>28 DEF CommitTimesOut
<1>29. CASE ChargeAndTimeOut
  BY <1>29 DEF ChargeAndTimeOut
<1>27. CASE UNCHANGED vars
  BY <1>27 DEF vars
<1> QED
  BY <1>1, <1>2, <1>3, <1>4, <1>5, <1>6, <1>7, <1>8, <1>9, <1>10, <1>11, <1>12, <1>13,
     <1>14, <1>15, <1>16, <1>17, <1>18, <1>19, <1>20, <1>21, <1>22, <1>23, <1>24, <1>25,
     <1>26, <1>27, <1>28, <1>29 DEF Next, Step

\* Every step keeps approvals, and the node being worked on, covered by a human
\* decision.
LEMMA GateStep ==
  ASSUME Inv, [Next]_vars
  PROVE  GateInv'
<1> USE GraphAssumption DEF Inv, GateInv, TypeOK, Looping, Trying, Attempting, dbVars, runVars,
        historyVars
<1>1. CASE Begin
  BY <1>1 DEF Begin
<1>2. ASSUME NEW n \in Nodes, Unblock(n) PROVE GateInv'
  BY <1>2 DEF Unblock
<1>3. ASSUME NEW n \in Nodes, Refresh(n) PROVE GateInv'
  <2>0. approval' = approval \/ approval' = [approval EXCEPT ![n] = Current(n, scope[n])]
    BY <1>3 DEF Refresh
  <2>1. \A m \in Nodes : approval'[m].state = "approved" => approval'[m] = approval[m]
    <3>1. Current(n, scope[n]).state = "approved" => Current(n, scope[n]) = approval[n]
      BY CurrentFacts
    <3> QED
      BY <2>0, <3>1
  <2> QED
    BY <1>3, <2>1 DEF Refresh
<1>4. ASSUME NEW n \in Nodes, Pick(n) PROVE GateInv'
  <2>1. \A m \in Nodes : approval'[m].state = "approved" => approval'[m] = approval[m]
    BY SMTT(30), ZenonT(30), <1>4, CurrentFacts DEF Pick
  <2>2. Trying' /\ n \in Gated => Current(n, scope[n]).state = "approved"
    BY <1>4 DEF Pick, GateClosed, AttemptCount
  <2>3. Trying' /\ n \in Gated => scope[n] \in granted[n]
    BY <2>2, CurrentFacts
  <2> QED
    BY <1>4, <2>1, <2>3 DEF Pick
<1>5. CASE StartRunning
  BY <1>5 DEF StartRunning
<1>6. CASE Snapshot
  BY <1>6 DEF Snapshot, AttemptInv
<1>7. CASE NextPass
  BY <1>7 DEF NextPass
<1>8. CASE Close
  BY <1>8 DEF Close
<1>9. CASE EnsureRequest
  <2>1. \A m \in Nodes : approval'[m].state = "approved" => approval'[m] = approval[m]
    BY <1>9 DEF EnsureRequest
  <2> QED
    BY <1>9, <2>1 DEF EnsureRequest, AttemptInv
<1>10. CASE Block
  BY <1>10 DEF Block
<1>11. CASE Complete
  BY <1>11 DEF Complete
<1>12. CASE LoseRace
  BY <1>12 DEF LoseRace, AttemptInv
<1>13. CASE GateRefuses
  BY <1>13 DEF GateRefuses
<1>14. CASE RecordAttempt
  BY <1>14 DEF RecordAttempt
<1>15. CASE Invoke
  BY <1>15 DEF Invoke
<1>16. CASE AdapterFails
  BY <1>16 DEF AdapterFails
<1>17. CASE AdapterRaises
  BY <1>17 DEF AdapterRaises
<1>18. CASE AdapterSucceeds
  BY <1>18 DEF AdapterSucceeds
<1>19. CASE ReadVersion
  BY <1>19 DEF ReadVersion
<1>20. CASE RecordOutput
  BY <1>20 DEF RecordOutput
<1>21. CASE Review
  BY <1>21 DEF Review
<1>22. CASE Exhausted
  BY <1>22 DEF Exhausted, AttemptInv
<1>23. CASE Fail
  BY <1>23 DEF Fail, AttemptInv
<1>24. CASE Crash
  BY <1>24 DEF Crash
<1>25. ASSUME NEW n \in Nodes, NEW d \in Decisions, Decide(n, d) PROVE GateInv'
  <2>1. \A m \in Nodes : granted[m] \subseteq granted'[m]
    BY <1>25 DEF Decide
  <2>2. \A m \in Nodes : approval'[m].state = "approved" => approval'[m].scope \in granted'[m]
    BY ZenonT(60), <1>25 DEF Decide, Approvals
  <2> QED
    BY <1>25, <2>1, <2>2 DEF Decide
<1>26. ASSUME NEW s \in Scopes, Plan(s) PROVE GateInv'
  BY <1>26 DEF Plan
<1>28. CASE CommitTimesOut
  BY <1>28 DEF CommitTimesOut
<1>29. CASE ChargeAndTimeOut
  BY <1>29 DEF ChargeAndTimeOut
<1>27. CASE UNCHANGED vars
  BY <1>27 DEF vars
<1> QED
  BY <1>1, <1>2, <1>3, <1>4, <1>5, <1>6, <1>7, <1>8, <1>9, <1>10, <1>11, <1>12, <1>13,
     <1>14, <1>15, <1>16, <1>17, <1>18, <1>19, <1>20, <1>21, <1>22, <1>23, <1>24, <1>25,
     <1>26, <1>27, <1>28, <1>29 DEF Next, Step

\* Every step keeps the expected version current, unless the graph is planned again.
LEMMA VersionStep ==
  ASSUME Inv, [Next]_vars
  PROVE  (plans = 0 => VersionKnown)'
<1> USE GraphAssumption DEF Inv, OnePlanInv, VersionKnown, TypeOK, dbVars, runVars,
        historyVars
<1>1. CASE Begin
  BY <1>1 DEF Begin
<1>2. ASSUME NEW n \in Nodes, Unblock(n) PROVE (plans = 0 => VersionKnown)'
  BY <1>2 DEF Unblock, StepTo
<1>3. ASSUME NEW n \in Nodes, Refresh(n) PROVE (plans = 0 => VersionKnown)'
  BY <1>3 DEF Refresh, StepTo
<1>4. ASSUME NEW n \in Nodes, Pick(n) PROVE (plans = 0 => VersionKnown)'
  BY <1>4 DEF Pick
<1>5. CASE StartRunning
  BY <1>5 DEF StartRunning
<1>6. CASE Snapshot
  BY <1>6 DEF Snapshot
<1>7. CASE NextPass
  BY <1>7 DEF NextPass
<1>8. CASE Close
  BY <1>8 DEF Close
<1>9. CASE EnsureRequest
  BY <1>9 DEF EnsureRequest
<1>10. CASE Block
  BY <1>10 DEF Block, StepTo
<1>11. CASE Complete
  BY <1>11 DEF Complete, StepTo
<1>12. CASE LoseRace
  BY <1>12 DEF LoseRace
<1>13. CASE GateRefuses
  BY <1>13 DEF GateRefuses
<1>14. CASE RecordAttempt
  BY <1>14 DEF RecordAttempt
<1>15. CASE Invoke
  BY <1>15 DEF Invoke
<1>16. CASE AdapterFails
  BY <1>16 DEF AdapterFails, FinishAttempt
<1>17. CASE AdapterRaises
  BY <1>17 DEF AdapterRaises
<1>18. CASE AdapterSucceeds
  BY <1>18 DEF AdapterSucceeds, FinishAttempt
<1>19. CASE ReadVersion
  BY <1>19 DEF ReadVersion
<1>20. CASE RecordOutput
  BY <1>20 DEF RecordOutput
<1>21. CASE Review
  BY <1>21 DEF Review
<1>22. CASE Exhausted
  BY <1>22 DEF Exhausted
<1>23. CASE Fail
  BY <1>23 DEF Fail, StepTo
<1>24. CASE Crash
  BY <1>24 DEF Crash
<1>25. ASSUME NEW n \in Nodes, NEW d \in Decisions, Decide(n, d) PROVE (plans = 0 => VersionKnown)'
  BY <1>25 DEF Decide
<1>26. ASSUME NEW s \in Scopes, Plan(s) PROVE (plans = 0 => VersionKnown)'
  BY <1>26 DEF Plan
<1>28. CASE CommitTimesOut
  BY <1>28 DEF CommitTimesOut
<1>29. CASE ChargeAndTimeOut
  BY <1>29 DEF ChargeAndTimeOut
<1>27. CASE UNCHANGED vars
  BY <1>27 DEF vars
<1> QED
  BY <1>1, <1>2, <1>3, <1>4, <1>5, <1>6, <1>7, <1>8, <1>9, <1>10, <1>11, <1>12, <1>13,
     <1>14, <1>15, <1>16, <1>17, <1>18, <1>19, <1>20, <1>21, <1>22, <1>23, <1>24, <1>25,
     <1>26, <1>27, <1>28, <1>29 DEF Next, Step

\* Completed and failed task nodes stay as they are, and grants are never withdrawn.
LEMMA TasksStayStep ==
  ASSUME Inv, [Next]_vars
  PROVE  (plans' = 0 => TasksStay)
<1> USE GraphAssumption DEF Inv, OnePlanInv, TasksStay, TypeOK, dbVars, runVars, historyVars
<1>1. CASE Begin
  BY <1>1 DEF Begin
<1>2. ASSUME NEW n \in Nodes, Unblock(n) PROVE (plans' = 0 => TasksStay)
  BY <1>2 DEF Unblock, StepTo
<1>3. ASSUME NEW n \in Nodes, Refresh(n) PROVE (plans' = 0 => TasksStay)
  BY SMTT(30), ZenonT(30), <1>3 DEF Refresh, StepTo, IsNext, SnapshotKnown
<1>4. ASSUME NEW n \in Nodes, Pick(n) PROVE (plans' = 0 => TasksStay)
  BY <1>4 DEF Pick
<1>5. CASE StartRunning
  BY <1>5 DEF StartRunning
<1>6. CASE Snapshot
  BY <1>6 DEF Snapshot
<1>7. CASE NextPass
  BY <1>7 DEF NextPass
<1>8. CASE Close
  BY <1>8 DEF Close
<1>9. CASE EnsureRequest
  BY <1>9 DEF EnsureRequest
<1>10. CASE Block
  BY <1>10 DEF Block, StepTo, SnapshotKnown, Working, Looping
<1>11. CASE Complete
  BY <1>11 DEF Complete, StepTo, SnapshotKnown, Working, Looping
<1>12. CASE LoseRace
  BY <1>12 DEF LoseRace
<1>13. CASE GateRefuses
  BY <1>13 DEF GateRefuses
<1>14. CASE RecordAttempt
  BY <1>14 DEF RecordAttempt
<1>15. CASE Invoke
  BY <1>15 DEF Invoke
<1>16. CASE AdapterFails
  BY <1>16 DEF AdapterFails
<1>17. CASE AdapterRaises
  BY <1>17 DEF AdapterRaises
<1>18. CASE AdapterSucceeds
  BY <1>18 DEF AdapterSucceeds
<1>19. CASE ReadVersion
  BY <1>19 DEF ReadVersion
<1>20. CASE RecordOutput
  BY <1>20 DEF RecordOutput
<1>21. CASE Review
  BY <1>21 DEF Review
<1>22. CASE Exhausted
  BY <1>22 DEF Exhausted
<1>23. CASE Fail
  BY <1>23 DEF Fail, StepTo, SnapshotKnown, Working, Looping
<1>24. CASE Crash
  BY <1>24 DEF Crash
<1>25. ASSUME NEW n \in Nodes, NEW d \in Decisions, Decide(n, d) PROVE (plans' = 0 => TasksStay)
  BY <1>25 DEF Decide
<1>26. ASSUME NEW s \in Scopes, Plan(s) PROVE (plans' = 0 => TasksStay)
  BY <1>26 DEF Plan
<1>28. CASE CommitTimesOut
  BY <1>28 DEF CommitTimesOut
<1>29. CASE ChargeAndTimeOut
  BY <1>29 DEF ChargeAndTimeOut
<1>27. CASE UNCHANGED vars
  BY <1>27 DEF vars
<1> QED
  BY <1>1, <1>2, <1>3, <1>4, <1>5, <1>6, <1>7, <1>8, <1>9, <1>10, <1>11, <1>12, <1>13,
     <1>14, <1>15, <1>16, <1>17, <1>18, <1>19, <1>20, <1>21, <1>22, <1>23, <1>24, <1>25,
     <1>26, <1>27, <1>28, <1>29 DEF Next, Step

\* A node whose predecessors are done keeps them done.
LEMMA PredsStay ==
  ASSUME Inv, [Next]_vars, plans' = 0, NEW n \in Nodes, PredsDone(n)
  PROVE  PredsDone(n)'
<1>1. TasksStay
  BY TasksStayStep
<1>2. Preds[n] \subseteq Nodes
  BY GraphAssumption
<1> QED
  BY <1>1, <1>2 DEF TasksStay, PredsDone

\* Every step keeps what the supervisor read about its snapshot true: the nodes it
\* has still to visit, and the one it works on, are pending and may run.
LEMMA SnapshotStep ==
  ASSUME Inv, [Next]_vars
  PROVE  (plans = 0 => SnapshotKnown)'
<1>0. plans' = 0 => \A m \in Nodes : PredsDone(m) => PredsDone(m)'
  BY PredsStay
<1> USE GraphAssumption DEF Inv, OnePlanInv, SnapshotKnown, Working, Looping, Trying, Attempting,
        TypeOK, dbVars, runVars, historyVars
<1>1. CASE Begin
  BY <1>1, <1>0 DEF Begin
<1>2. ASSUME NEW n \in Nodes, Unblock(n) PROVE (plans = 0 => SnapshotKnown)'
  BY <1>2, <1>0 DEF Unblock, StepTo
<1>3. ASSUME NEW n \in Nodes, Refresh(n) PROVE (plans = 0 => SnapshotKnown)'
  BY <1>3, <1>0 DEF Refresh
<1>4. ASSUME NEW n \in Nodes, Pick(n) PROVE (plans = 0 => SnapshotKnown)'
  <2>1. Trying' => n \notin ApprovalNodes
    BY <1>4 DEF Pick
  <2> QED
    BY <1>4, <2>1, <1>0 DEF Pick, IsNext
<1>5. CASE StartRunning
  BY <1>5, <1>0 DEF StartRunning
<1>6. CASE Snapshot
  <2>1. plans = 0 => \A m \in Ready : status[m] = "pending" /\ PredsDone(m)
    BY DEF Ready, PredsDone, NodesKnown
  <2> QED
    BY <1>6, <2>1, <1>0 DEF Snapshot, Ready, AttemptInv
<1>7. CASE NextPass
  BY <1>7, <1>0 DEF NextPass
<1>8. CASE Close
  BY <1>8, <1>0 DEF Close
<1>9. CASE EnsureRequest
  BY <1>9, <1>0 DEF EnsureRequest, AttemptInv
<1>10. CASE Block
  BY <1>10, <1>0 DEF Block, StepTo
<1>11. CASE Complete
  BY <1>11, <1>0 DEF Complete, StepTo
<1>12. CASE LoseRace
  BY <1>12, <1>0 DEF LoseRace, VersionKnown
<1>13. CASE GateRefuses
  BY <1>13, <1>0 DEF GateRefuses
<1>14. CASE RecordAttempt
  BY <1>14, <1>0 DEF RecordAttempt
<1>15. CASE Invoke
  BY <1>15, <1>0 DEF Invoke
<1>16. CASE AdapterFails
  BY <1>16, <1>0 DEF AdapterFails
<1>17. CASE AdapterRaises
  BY <1>17, <1>0 DEF AdapterRaises
<1>18. CASE AdapterSucceeds
  BY <1>18, <1>0 DEF AdapterSucceeds
<1>19. CASE ReadVersion
  BY <1>19, <1>0 DEF ReadVersion
<1>20. CASE RecordOutput
  BY <1>20, <1>0 DEF RecordOutput
<1>21. CASE Review
  BY <1>21, <1>0 DEF Review
<1>22. CASE Exhausted
  BY <1>22, <1>0 DEF Exhausted
<1>23. CASE Fail
  BY <1>23, <1>0 DEF Fail, StepTo, AttemptInv
<1>24. CASE Crash
  BY <1>24, <1>0 DEF Crash
<1>25. ASSUME NEW n \in Nodes, NEW d \in Decisions, Decide(n, d) PROVE (plans = 0 => SnapshotKnown)'
  BY <1>25, <1>0 DEF Decide
<1>26. ASSUME NEW s \in Scopes, Plan(s) PROVE (plans = 0 => SnapshotKnown)'
  BY <1>26 DEF Plan
<1>28. CASE CommitTimesOut
  BY <1>28, <1>0 DEF CommitTimesOut
<1>29. CASE ChargeAndTimeOut
  BY <1>29, <1>0 DEF ChargeAndTimeOut
<1>27. CASE UNCHANGED vars
  BY <1>27, <1>0 DEF vars
<1> QED
  BY <1>1, <1>2, <1>3, <1>4, <1>5, <1>6, <1>7, <1>8, <1>9, <1>10, <1>11, <1>12, <1>13,
     <1>14, <1>15, <1>16, <1>17, <1>18, <1>19, <1>20, <1>21, <1>22, <1>23, <1>24, <1>25,
     <1>26, <1>27, <1>28, <1>29 DEF Next, Step

\* Every step keeps the order of the graph: completed and invoked nodes have their
\* predecessors done.
LEMMA NodesStep ==
  ASSUME Inv, [Next]_vars
  PROVE  (plans = 0 => NodesKnown)'
<1>0. plans' = 0 => \A m \in Nodes : PredsDone(m) => PredsDone(m)'
  BY PredsStay
<1> USE GraphAssumption DEF Inv, OnePlanInv, NodesKnown, TypeOK, dbVars, runVars,
        historyVars
<1>1. CASE Begin
  BY <1>1, <1>0 DEF Begin
<1>2. ASSUME NEW n \in Nodes, Unblock(n) PROVE (plans = 0 => NodesKnown)'
  BY <1>2, <1>0 DEF Unblock, StepTo
<1>3. ASSUME NEW n \in Nodes, Refresh(n) PROVE (plans = 0 => NodesKnown)'
  <2> SUFFICES ASSUME plans = 0
               PROVE  NodesKnown'
    BY <1>3 DEF Refresh
  <2>1. n \in ApprovalNodes
    BY <1>3 DEF Refresh, IsNext, SnapshotKnown
  <2>2. status'[n] = "completed" => status[n] = "completed" \/ Current(n, scope[n]).state = "approved"
    <3>1. Current(n, scope[n]).state \in Decisions \cup {"none", "pending", "stale"}
      BY CurrentFacts DEF Approvals
    <3>2. approval[n].state # "none" => Current(n, scope[n]).state # "none"
      BY CurrentFacts
    <3> QED
      BY <1>3, <3>1, <3>2, NodeStatusOf DEF Refresh, StepTo
  <2>3. status'[n] = "completed" => granted[n] # {}
    BY <2>1, <2>2, CurrentFacts DEF GateInv
  <2>4. \A m \in Nodes : m # n => status'[m] = status[m]
    BY SMTT(30), ZenonT(30), <1>3 DEF Refresh, StepTo
  <2> QED
    BY <1>3, <2>1, <2>3, <2>4, <1>0 DEF Refresh
<1>4. ASSUME NEW n \in Nodes, Pick(n) PROVE (plans = 0 => NodesKnown)'
  BY <1>4, <1>0 DEF Pick
<1>5. CASE StartRunning
  BY <1>5, <1>0 DEF StartRunning
<1>6. CASE Snapshot
  BY <1>6, <1>0 DEF Snapshot
<1>7. CASE NextPass
  BY <1>7, <1>0 DEF NextPass
<1>8. CASE Close
  BY <1>8, <1>0 DEF Close
<1>9. CASE EnsureRequest
  BY <1>9, <1>0 DEF EnsureRequest
<1>10. CASE Block
  BY <1>10, <1>0 DEF Block, StepTo
<1>11. CASE Complete
  BY <1>11, <1>0 DEF Complete, StepTo, SnapshotKnown, Working, Looping, Trying
<1>12. CASE LoseRace
  BY <1>12, <1>0 DEF LoseRace
<1>13. CASE GateRefuses
  BY <1>13, <1>0 DEF GateRefuses
<1>14. CASE RecordAttempt
  BY <1>14, <1>0 DEF RecordAttempt
<1>15. CASE Invoke
  BY <1>15, <1>0 DEF Invoke, SnapshotKnown, Working, Looping, Trying, Attempting
<1>16. CASE AdapterFails
  BY <1>16, <1>0 DEF AdapterFails
<1>17. CASE AdapterRaises
  BY <1>17, <1>0 DEF AdapterRaises
<1>18. CASE AdapterSucceeds
  BY <1>18, <1>0 DEF AdapterSucceeds
<1>19. CASE ReadVersion
  BY <1>19, <1>0 DEF ReadVersion
<1>20. CASE RecordOutput
  BY <1>20, <1>0 DEF RecordOutput
<1>21. CASE Review
  BY <1>21, <1>0 DEF Review
<1>22. CASE Exhausted
  BY <1>22, <1>0 DEF Exhausted
<1>23. CASE Fail
  BY <1>23, <1>0 DEF Fail, StepTo
<1>24. CASE Crash
  BY <1>24, <1>0 DEF Crash
<1>25. ASSUME NEW n \in Nodes, NEW d \in Decisions, Decide(n, d) PROVE (plans = 0 => NodesKnown)'
  BY <1>25, <1>0 DEF Decide
<1>26. ASSUME NEW s \in Scopes, Plan(s) PROVE (plans = 0 => NodesKnown)'
  BY <1>26 DEF Plan
<1>28. CASE CommitTimesOut
  BY <1>28, <1>0 DEF CommitTimesOut
<1>29. CASE ChargeAndTimeOut
  BY <1>29, <1>0 DEF ChargeAndTimeOut
<1>27. CASE UNCHANGED vars
  BY <1>27, <1>0 DEF vars
<1> QED
  BY <1>1, <1>2, <1>3, <1>4, <1>5, <1>6, <1>7, <1>8, <1>9, <1>10, <1>11, <1>12, <1>13,
     <1>14, <1>15, <1>16, <1>17, <1>18, <1>19, <1>20, <1>21, <1>22, <1>23, <1>24, <1>25,
     <1>26, <1>27, <1>28, <1>29 DEF Next, Step

\* Every step keeps "completed" for graphs whose nodes are all completed.
LEMMA GraphStep ==
  ASSUME Inv, [Next]_vars
  PROVE  (plans = 0 => GraphKnown)'
<1> USE GraphAssumption DEF Inv, OnePlanInv, GraphKnown, TypeOK, dbVars, runVars,
        historyVars
<1>1. CASE Begin
  BY <1>1 DEF Begin
<1>2. ASSUME NEW n \in Nodes, Unblock(n) PROVE (plans = 0 => GraphKnown)'
  BY <1>2 DEF Unblock, StepTo
<1>3. ASSUME NEW n \in Nodes, Refresh(n) PROVE (plans = 0 => GraphKnown)'
  BY <1>3 DEF Refresh, StepTo
<1>4. ASSUME NEW n \in Nodes, Pick(n) PROVE (plans = 0 => GraphKnown)'
  BY <1>4 DEF Pick
<1>5. CASE StartRunning
  BY <1>5 DEF StartRunning
<1>6. CASE Snapshot
  BY <1>6 DEF Snapshot, Outcome
<1>7. CASE NextPass
  BY <1>7 DEF NextPass
<1>8. CASE Close
  BY <1>8 DEF Close
<1>9. CASE EnsureRequest
  BY <1>9 DEF EnsureRequest
<1>10. CASE Block
  BY <1>10 DEF Block, StepTo
<1>11. CASE Complete
  BY <1>11 DEF Complete, StepTo
<1>12. CASE LoseRace
  BY <1>12 DEF LoseRace
<1>13. CASE GateRefuses
  BY <1>13 DEF GateRefuses
<1>14. CASE RecordAttempt
  BY <1>14 DEF RecordAttempt
<1>15. CASE Invoke
  BY <1>15 DEF Invoke
<1>16. CASE AdapterFails
  BY <1>16 DEF AdapterFails
<1>17. CASE AdapterRaises
  BY <1>17 DEF AdapterRaises
<1>18. CASE AdapterSucceeds
  BY <1>18 DEF AdapterSucceeds
<1>19. CASE ReadVersion
  BY <1>19 DEF ReadVersion
<1>20. CASE RecordOutput
  BY <1>20 DEF RecordOutput
<1>21. CASE Review
  BY <1>21 DEF Review
<1>22. CASE Exhausted
  BY <1>22 DEF Exhausted
<1>23. CASE Fail
  BY <1>23 DEF Fail, StepTo
<1>24. CASE Crash
  BY <1>24 DEF Crash
<1>25. ASSUME NEW n \in Nodes, NEW d \in Decisions, Decide(n, d) PROVE (plans = 0 => GraphKnown)'
  BY <1>25 DEF Decide
<1>26. ASSUME NEW s \in Scopes, Plan(s) PROVE (plans = 0 => GraphKnown)'
  BY <1>26 DEF Plan
<1>28. CASE CommitTimesOut
  BY <1>28 DEF CommitTimesOut
<1>29. CASE ChargeAndTimeOut
  BY <1>29 DEF ChargeAndTimeOut
<1>27. CASE UNCHANGED vars
  BY <1>27 DEF vars
<1> QED
  BY <1>1, <1>2, <1>3, <1>4, <1>5, <1>6, <1>7, <1>8, <1>9, <1>10, <1>11, <1>12, <1>13,
     <1>14, <1>15, <1>16, <1>17, <1>18, <1>19, <1>20, <1>21, <1>22, <1>23, <1>24, <1>25,
     <1>26, <1>27, <1>28, <1>29 DEF Next, Step

\* Multiplication is monotone.
LEMMA Times ==
  ASSUME NEW a \in Nat, NEW b \in Nat, NEW m \in Nat, a <= b
  PROVE  a * m \in Nat /\ a * m <= b * m
<1>1. PICK c \in Nat : b = a + c
  <2>1. b - a \in Nat /\ b = a + (b - a)
    OBVIOUS
  <2> QED
    BY <2>1
<1>2. b * m = a * m + c * m
  BY <1>1
<1>3. a * m \in Nat /\ c * m \in Nat
  BY <1>1
<1> QED
  BY <1>2, <1>3

\* Every step keeps a capped run within the attempts of one node of its budget.
LEMMA SpendingStep ==
  ASSUME Inv, [Next]_vars
  PROVE  SpendingKnown'
<1> SUFFICES ASSUME BudgetMax # 0, NEW most \in Usages, Dearest(most)
             PROVE  /\ \E n \in Nodes : spent' <= BudgetMax + MaxAttempts[n] * most
                    /\ Looping' => spent' <= BudgetMax + done' * most
                    /\ pc' \in {"invoke", "result"} => spent' <= BudgetMax + (done' - 1) * most
  BY DEF SpendingKnown, Dearest
<1>1. /\ \E n \in Nodes : spent <= BudgetMax + MaxAttempts[n] * most
      /\ Looping => spent <= BudgetMax + done * most
      /\ pc \in {"invoke", "result"} => spent <= BudgetMax + (done - 1) * most
  BY DEF Inv, SpendingKnown
<1>2. /\ most \in Nat /\ BudgetMax \in Nat /\ spent \in Nat /\ done \in Nat /\ cur \in Nodes
      /\ \A n \in Nodes : MaxAttempts[n] \in Nat /\ Projection[n] \in Nat
      /\ Looping => done <= MaxAttempts[cur]
      /\ pc \in Attempting => done > 0
  BY GraphAssumption, BudgetAssumption DEF Inv, TypeOK, AttemptInv
<1>3. ASSUME spent' = spent, done' = done, Looping' => Looping,
             pc' \in {"invoke", "result"} => pc \in {"invoke", "result"}
      PROVE  /\ \E n \in Nodes : spent' <= BudgetMax + MaxAttempts[n] * most
             /\ Looping' => spent' <= BudgetMax + done' * most
             /\ pc' \in {"invoke", "result"} => spent' <= BudgetMax + (done' - 1) * most
  BY <1>1, <1>3
<1>4. ASSUME spent' = spent, ~ Looping'
      PROVE  /\ \E n \in Nodes : spent' <= BudgetMax + MaxAttempts[n] * most
             /\ Looping' => spent' <= BudgetMax + done' * most
             /\ pc' \in {"invoke", "result"} => spent' <= BudgetMax + (done' - 1) * most
  BY <1>1, <1>4 DEF Looping, Attempting
<1>5. CASE Begin
  <2>1. PICK n \in Nodes : TRUE
    BY GraphAssumption
  <2>2. spent' = 0 /\ ~ Looping' /\ pc' = "unblock"
    BY <1>5 DEF Begin, Looping, Attempting
  <2>3. MaxAttempts[n] * most \in Nat
    BY <1>2, Times
  <2> QED
    BY <1>2, <2>2, <2>3
<1>6. ASSUME NEW n \in Nodes, Pick(n)
      PROVE  /\ \E m \in Nodes : spent' <= BudgetMax + MaxAttempts[m] * most
             /\ Looping' => spent' <= BudgetMax + done' * most
             /\ pc' \in {"invoke", "result"} => spent' <= BudgetMax + (done' - 1) * most
  <2>1. spent' = spent /\ pc' \notin {"invoke", "result"}
    BY <1>6 DEF Pick
  <2>2. Looping' => ~ WouldExceed(n) /\ done' = Len(attempts[n])
    BY <1>6 DEF Pick, Looping, Attempting, AttemptCount
  <2>3. Looping' => spent <= BudgetMax /\ done' * most \in Nat
    <3>1. Len(attempts[n]) \in Nat
      BY DEF Inv, TypeOK
    <3> QED
      BY <1>2, <2>2, <3>1, Times DEF WouldExceed
  <2> QED
    BY <1>1, <1>2, <2>1, <2>3
<1>7. ASSUME spent' = spent, done' = done + 1, Looping, ~ pc \in {"invoke", "result"}
      PROVE  /\ \E n \in Nodes : spent' <= BudgetMax + MaxAttempts[n] * most
             /\ Looping' => spent' <= BudgetMax + done' * most
             /\ pc' \in {"invoke", "result"} => spent' <= BudgetMax + (done' - 1) * most
  <2>1. spent <= BudgetMax + done * most /\ done' - 1 = done
    BY <1>1, <1>2, <1>7
  <2>2. done * most \in Nat /\ done' * most \in Nat /\ done * most <= done' * most
    BY <1>2, <1>7, Times
  <2> QED
    BY <1>1, <1>2, <1>7, <2>1, <2>2
<1>8. ASSUME pc = "result", done' = done, pc' \notin {"invoke", "result"},
             NEW u \in Usages, spent' = spent + u
      PROVE  /\ \E n \in Nodes : spent' <= BudgetMax + MaxAttempts[n] * most
             /\ Looping' => spent' <= BudgetMax + done' * most
             /\ pc' \in {"invoke", "result"} => spent' <= BudgetMax + (done' - 1) * most
  <2>1. u \in Nat /\ u <= most /\ done - 1 \in Nat /\ Looping
    BY <1>2, <1>8, BudgetAssumption DEF Dearest, Looping, Attempting
  <2>2. spent <= BudgetMax + (done - 1) * most
    BY <1>1, <1>8
  <2>3. (done - 1) * most \in Nat /\ done * most = (done - 1) * most + most
    BY <1>2, <2>1, Times
  <2>4. spent' <= BudgetMax + done * most
    BY <1>2, <1>8, <2>1, <2>2, <2>3
  <2>5. done * most \in Nat /\ MaxAttempts[cur] * most \in Nat
        /\ done * most <= MaxAttempts[cur] * most
    <3>1. MaxAttempts[cur] \in Nat /\ done <= MaxAttempts[cur]
      BY <1>2, <2>1
    <3>2. done * most \in Nat /\ done * most <= MaxAttempts[cur] * most
      BY <1>2, <3>1, Times
    <3>3. MaxAttempts[cur] * most \in Nat
      BY <1>2, <3>1
    <3> QED
      BY <3>2, <3>3
  <2>6. spent' <= BudgetMax + MaxAttempts[cur] * most
    BY <1>2, <1>8, <2>1, <2>4, <2>5
  <2> QED
    BY <1>2, <1>8, <2>4, <2>6
<1> USE DEF Looping, Attempting, dbVars, runVars, historyVars
<1>9. ASSUME NEW n \in Nodes, Unblock(n) \/ Refresh(n)
      PROVE  spent' = spent /\ ~ Looping'
  BY <1>9 DEF Unblock, Refresh
<1>10. StartRunning \/ NextPass \/ EnsureRequest \/ Exhausted \/ Complete \/ Crash
         => spent' = spent /\ ~ Looping'
  BY DEF StartRunning, NextPass, EnsureRequest, Exhausted, Complete, Crash, Inv, AttemptInv
<1>11. Snapshot \/ Close \/ Fail => spent' = spent /\ ~ Looping'
  BY DEF Snapshot, Close, Fail, Inv, AttemptInv
<1>12. Block \/ LoseRace \/ CommitTimesOut \/ AdapterFails \/ AdapterRaises
         => /\ spent' = spent /\ done' = done /\ (Looping' => Looping)
            /\ pc' \notin {"invoke", "result"}
  BY DEF Block, LoseRace, CommitTimesOut, AdapterFails, AdapterRaises, Inv, AttemptInv
<1>13. Invoke \/ ReadVersion \/ RecordOutput \/ Review
         => /\ spent' = spent /\ done' = done /\ (Looping' => Looping)
            /\ pc' \in {"invoke", "result"} => pc \in {"invoke", "result"}
  BY DEF Invoke, ReadVersion, RecordOutput, Review
<1>14. GateRefuses \/ RecordAttempt
         => spent' = spent /\ done' = done + 1 /\ Looping /\ ~ pc \in {"invoke", "result"}
  BY DEF GateRefuses, RecordAttempt
<1>15. AdapterSucceeds \/ ChargeAndTimeOut
         => /\ pc = "result" /\ done' = done /\ pc' \notin {"invoke", "result"}
            /\ \E u \in Usages : spent' = spent + u
  BY DEF AdapterSucceeds, ChargeAndTimeOut
<1>16. ASSUME NEW n \in Nodes, NEW d \in Decisions, Decide(n, d)
       PROVE  spent' = spent /\ done' = done /\ pc' = pc
  BY <1>16 DEF Decide
<1>17. ASSUME NEW s \in Scopes, Plan(s)
       PROVE  spent' = spent /\ done' = done /\ pc' = pc
  BY <1>17 DEF Plan
<1>18. UNCHANGED vars => spent' = spent /\ done' = done /\ pc' = pc
  BY DEF vars
<1>19. spent' = spent /\ done' = done /\ pc' = pc
         => spent' = spent /\ done' = done /\ (Looping' => Looping)
            /\ (pc' \in {"invoke", "result"} => pc \in {"invoke", "result"})
  OBVIOUS
<1> HIDE DEF Looping, Attempting, dbVars, runVars, historyVars
<1> QED
  BY <1>3, <1>4, <1>5, <1>6, <1>7, <1>8, <1>9, <1>10, <1>11, <1>12, <1>13, <1>14, <1>15,
     <1>16, <1>17, <1>18, <1>19 DEF Next, Step
-----------------------------------------------------------------------------
(* The invariant, and the theorems that follow from it.                      *)

\* The invariant holds of a freshly planned graph.
LEMMA InvInit == Init => Inv
<1> SUFFICES ASSUME Init
             PROVE  Inv
  OBVIOUS
<1> USE GraphAssumption, BudgetAssumption DEF Init
<1>1. TypeOK
  <2>1. approval \in [Nodes -> Approvals] /\ scope \in [Nodes -> Scopes] /\ curScope \in Scopes
    BY DEF Approvals
  <2>2. attempts \in [Nodes -> Seq(AttemptStates)]
    OBVIOUS
  <2> QED
    BY <2>1, <2>2 DEF TypeOK, GraphStatuses, NodeStatuses, PCs
<1>2. AttemptInv
  BY DEF AttemptInv, Looping, Trying, Attempting
<1>3. GateInv
  BY DEF GateInv, Looping, Trying, Attempting
<1>4. VersionKnown /\ SnapshotKnown /\ NodesKnown /\ GraphKnown
  BY DEF VersionKnown, SnapshotKnown, NodesKnown, GraphKnown, Working, Looping, Trying, Attempting
<1>5. SpendingKnown
  <2> SUFFICES ASSUME NEW most \in Usages
               PROVE  /\ \E n \in Nodes : spent <= BudgetMax + MaxAttempts[n] * most
                      /\ ~ Looping /\ pc \notin {"invoke", "result"}
    BY DEF SpendingKnown
  <2>1. PICK n \in Nodes : TRUE
    OBVIOUS
  <2>2. MaxAttempts[n] * most \in Nat
    BY Times
  <2> QED
    BY <2>2 DEF Looping, Attempting
<1> QED
  BY <1>1, <1>2, <1>3, <1>4, <1>5 DEF Inv, OnePlanInv

\* The supervisor's inductive invariant: it holds of a freshly planned graph and
\* every commit of the supervisor, every decision of a human, every new plan and
\* every crash keeps it.
THEOREM Invariance == Spec => []Inv
<1>1. ASSUME Inv, [Next]_vars
      PROVE  Inv'
  <2>1. TypeOK' /\ AttemptInv' /\ GateInv' /\ SpendingKnown'
    BY <1>1, TypeStep, AttemptStep, GateStep, SpendingStep
  <2>2. (plans = 0 => VersionKnown)' /\ (plans = 0 => SnapshotKnown)'
    BY <1>1, VersionStep, SnapshotStep
  <2>3. (plans = 0 => NodesKnown)' /\ (plans = 0 => GraphKnown)'
    BY <1>1, NodesStep, GraphStep
  <2> QED
    BY <2>1, <2>2, <2>3 DEF Inv, OnePlanInv
<1> QED
  BY <1>1, InvInit, PTL DEF Spec

\* All the rows and locals the supervisor works on keep their types.
THEOREM TypeCorrect == Spec => []TypeOK
<1>1. Inv => TypeOK
  BY DEF Inv
<1> QED
  BY <1>1, Invariance, PTL

\* retry.max_attempts bounds what a node is ever invoked, over crashes, resumed
\* runs and new plans of its graph (Supervisor.run, _attempt_count).
THEOREM AttemptBudget == Spec => []AttemptsBounded
<1>1. Inv => AttemptsBounded
  BY GraphAssumption DEF Inv, TypeOK, AttemptInv, AttemptsBounded
<1> QED
  BY <1>1, Invariance, PTL

\* A node with approval_required is only worked on under a scope that a human
\* approved for it (Supervisor._task_approval_current, assert_current).
THEOREM ApprovalGate == Spec => []GateHonoured
<1>1. Inv => GateHonoured
  BY DEF Inv, GateInv, GateHonoured, Looping, Trying
<1> QED
  BY <1>1, Invariance, PTL

\* The expected_version of every set_node_status and record_output of the one
\* supervisor is current, unless the graph is planned again under it.
THEOREM NoRace == Spec => []NoLostRace
<1>1. Inv => NoLostRace
  BY DEF Inv, OnePlanInv, VersionKnown, NoLostRace
<1> QED
  BY <1>1, Invariance, PTL

\* Task nodes run and complete only after their predecessors (ready_node_ids,
\* refresh_readiness), and a graph is only called completed when all its nodes
\* are (Supervisor.run).
THEOREM Completion == Spec => []CompletionInv
<1>1. Inv => PredecessorsFirst
  BY DEF Inv, OnePlanInv, NodesKnown, PredsDone, PredecessorsFirst
<1>2. Inv => CompletedMeansAll
  BY DEF Inv, OnePlanInv, GraphKnown, CompletedMeansAll
<1> QED
  BY <1>1, <1>2, Invariance, PTL DEF CompletionInv

\* A capped run overshoots its cap by at most the attempts of one node, however
\* often commits time out after an adapter was charged (would_exceed, charge,
\* the except clause of the retry loop).
THEOREM BudgetCap == Spec => []BudgetOvershootsByOneNode
<1>1. Inv => BudgetOvershootsByOneNode
  BY DEF Inv, SpendingKnown, Dearest, BudgetOvershootsByOneNode
<1> QED
  BY <1>1, Invariance, PTL

\* Completed and failed are final for task nodes (_unblock_task_nodes,
\* refresh_readiness, set_node_status).
THEOREM Finality == Spec => TerminalTasksStable
<1>1. Inv /\ [Next]_vars =>
        [plans' = 0 => \A n \in Nodes \ ApprovalNodes : status[n] \in {"completed", "failed"}
                                                          => status'[n] = status[n]]_vars
  BY TasksStayStep DEF TasksStay
<1> QED
  BY <1>1, Invariance, PTL DEF Spec, TerminalTasksStable
-----------------------------------------------------------------------------
(* The compiler.                                                             *)

\* A set of numbers that is not empty has a least element.
LEMMA Least ==
  ASSUME NEW T \in SUBSET Nat, T # {}
  PROVE  \E x \in T : \A y \in T : x <= y
<1> DEFINE W == {1..x : x \in T}
           R == StrictSubsetOrdering(Nat)
           S == FiniteSubsetsOf(Nat)
<1>1. IsWellFoundedOn(R, S)
  BY FS_StrictSubsetOrderingWellFounded
<1>2. W \subseteq S
  <2>1. \A x \in T : IsFiniteSet(1..x)
    BY FS_Interval
  <2> QED
    BY <2>1 DEF FiniteSubsetsOf
<1>3. W # {}
  OBVIOUS
<1> HIDE DEF R, S, W
<1>4. PICK w \in W : \A v \in W : ~(<<v, w>> \in R)
  BY <1>1, <1>2, <1>3, WFMin
<1>5. PICK x \in T : w = 1..x
  BY DEF W
<1>6. ASSUME NEW y \in T, y < x
      PROVE  FALSE
  <2>1. 1..y \in W /\ 1..y \in SUBSET Nat /\ w \in SUBSET Nat
    BY <1>5 DEF W
  <2>2. 1..y \subseteq w /\ 1..y # w
    BY <1>5, <1>6
  <2>3. <<1..y, w>> \in R
    BY <2>1, <2>2 DEF R, StrictSubsetOrdering
  <2> QED
    BY <1>4, <2>1, <2>3
<1> QED
  BY <1>6

\* A frame of the search.
FrameRecord == [node : NodeIds(spec), rest : SUBSET (DOMAIN spec.edges)]

\* What Parse asks for.
Parsed ==
  /\ \A i \in DOMAIN spec.nodes : _node(spec.nodes[i])
  /\ NoDuplicates(spec)
  /\ \A i \in DOMAIN spec.edges : WorkEdge(spec.edges[i])
  /\ EdgesKnown(spec)

\* The types, with the stages that Parse has let through.
CompilerTypes ==
  /\ spec \in Specs
  /\ stage \in {"parse", "search", "compiled", "invalid", "cyclic"}
  /\ stage = "parse" => stack = <<>> /\ visiting = {} /\ visited = {}
  /\ stage \in {"search", "compiled", "cyclic"} => Parsed
  /\ stack \in Seq(FrameRecord)
  /\ visited \in SUBSET NodeIds(spec)

\* The nodes of the stack are those in visiting, each of them once and a child
\* of the one below it.
Path ==
  /\ visiting = {stack[d].node : d \in 1..Len(stack)}
  /\ \A c, d \in 1..Len(stack) : stack[c].node = stack[d].node => c = d
  /\ \A d \in 1..(Len(stack) - 1) : <<stack[d].node, stack[d + 1].node>> \in Edges
  /\ visiting \cap visited = {}

\* An edge that an iterator has given leads to a finished node or to the next
\* one on the stack.
FramesOK ==
  \A d \in 1..Len(stack) :
    /\ stack[d].rest \subseteq outgoing(stack[d].node)
    /\ \A i \in outgoing(stack[d].node) \ stack[d].rest :
         \/ spec.edges[i][2] \in visited
         \/ d < Len(stack) /\ stack[d + 1].node = spec.edges[i][2]

\* What is finished has only finished children, and can be put in an order.
Finished ==
  /\ \A e \in Edges : e[1] \in visited => e[2] \in visited
  /\ \A S \in SUBSET visited :
       S # {} => \E n \in S : \A m \in S : <<m, n>> \notin Edges

\* A verdict is only given for a reason.
Verdicts ==
  /\ stage = "compiled" => NodeIds(spec) \subseteq visited
  /\ stage = "cyclic" => ~Schedulable

\* The inductive invariant of Compiler.
CompilerInd == CompilerTypes /\ Path /\ FramesOK /\ Finished /\ Verdicts
-----------------------------------------------------------------------------

\* The minimum of a set of numbers is in it.
LEMMA MinIsIn ==
  ASSUME NEW S \in SUBSET Nat, S # {}
  PROVE  Min(S) \in S
BY Least DEF Min

\* The lists of a specification.
LEMMA SpecFacts ==
  ASSUME spec \in Specs
  PROVE  /\ spec.nodes \in Seq(RawNodes(Nat)) /\ Len(spec.nodes) \in Nat
         /\ DOMAIN spec.nodes = 1..Len(spec.nodes)
         /\ DOMAIN spec.edges = 1..Len(spec.edges) /\ Len(spec.edges) \in Nat
         /\ \A i \in DOMAIN spec.edges :
              /\ spec.edges[i] \in Nat \X Nat
              /\ spec.edges[i] = <<spec.edges[i][1], spec.edges[i][2]>>
              /\ spec.edges[i] \in Edges
         /\ NodeIds(spec) \in SUBSET Nat
<1>1. spec.nodes \in Seq(RawNodes(Nat)) /\ spec.edges \in Seq(Nat \X Nat)
  BY SpecsAssumption
<1>2. /\ DOMAIN spec.nodes = 1..Len(spec.nodes) /\ Len(spec.nodes) \in Nat
      /\ DOMAIN spec.edges = 1..Len(spec.edges) /\ Len(spec.edges) \in Nat
  BY <1>1, LenProperties
<1>3. \A i \in DOMAIN spec.edges : spec.edges[i] \in Nat \X Nat
  BY <1>1, <1>2, ElementOfSeq
<1>4. \A i \in DOMAIN spec.nodes : spec.nodes[i].id \in Nat
  <2>1. \A i \in DOMAIN spec.nodes : spec.nodes[i] \in RawNodes(Nat)
    BY <1>1, <1>2, ElementOfSeq
  <2> QED
    BY <2>1 DEF RawNodes
<1> QED
  BY SMTT(30), ZenonT(30), <1>1, <1>2, <1>3, <1>4 DEF NodeIds, Edges

\* The iterator gives one of the edges it has left: the first by the node it
\* leads to, and of those the first listed.
LEMMA NextEdgeIsIn ==
  ASSUME spec \in Specs, NEW rest \in SUBSET (DOMAIN spec.edges), rest # {}
  PROVE  NextEdge(rest) \in rest
<1> DEFINE T == {spec.edges[i][2] : i \in rest}
<1>1. T \in SUBSET Nat /\ T # {}
  BY SpecFacts
<1>2. PICK x \in T : \A y \in T : x <= y
  BY <1>1, Least
<1> DEFINE U == {i \in rest : spec.edges[i][2] = x}
<1>3. U \in SUBSET Nat /\ U # {}
  BY SpecFacts
<1>4. PICK i \in U : \A j \in U : i <= j
  BY <1>3, Least
<1>5. i \in rest /\ spec.edges[i][2] = x
  BY <1>4
<1>6. \A j \in rest : /\ spec.edges[j][2] \in Nat /\ j \in Nat
                      /\ x <= spec.edges[j][2]
                      /\ spec.edges[j][2] = x => i <= j
  <2> TAKE j \in rest
  <2>1. j \in DOMAIN spec.edges
    OBVIOUS
  <2>2. spec.edges[j] \in Nat \X Nat /\ j \in Nat
    BY <2>1, SpecFacts
  <2>3. spec.edges[j][2] \in T
    OBVIOUS
  <2>4. x <= spec.edges[j][2]
    BY <1>2, <2>3
  <2>5. spec.edges[j][2] = x => i <= j
    BY <1>4
  <2> QED
    BY <2>2, <2>4, <2>5
<1>7. \A j \in rest : \/ spec.edges[i][2] < spec.edges[j][2]
                      \/ spec.edges[i][2] = spec.edges[j][2] /\ i =< j
  <2> TAKE j \in rest
  <2>1. x \in Nat /\ spec.edges[j][2] \in Nat /\ x <= spec.edges[j][2]
    BY <1>5, <1>6
  <2>2. x < spec.edges[j][2] \/ x = spec.edges[j][2]
    BY <2>1
  <2> QED
    BY <1>5, <1>6, <2>2
<1> QED
  BY <1>5, <1>7 DEF NextEdge

\* What depends on the specification alone.
LEMMA SpecKept ==
  ASSUME spec' = spec
  PROVE  /\ Edges' = Edges /\ NodeIds(spec)' = NodeIds(spec)
         /\ FrameRecord' = FrameRecord
         /\ (Schedulable' <=> Schedulable) /\ (Parsed' <=> Parsed)
BY DEF Edges, NodeIds, FrameRecord, Schedulable, Parsed, NoDuplicates, EdgesKnown

\* The stack of the search.
LEMMA StackFacts ==
  ASSUME CompilerTypes
  PROVE  /\ Len(stack) \in Nat
         /\ \A d \in 1..Len(stack) :
              /\ stack[d] \in FrameRecord
              /\ stack[d].node \in NodeIds(spec)
              /\ stack[d].rest \in SUBSET (DOMAIN spec.edges)
         /\ DOMAIN stack = 1..Len(stack)
         /\ stack # <<>> => Len(stack) \in 1..Len(stack)
<1>1. stack \in Seq(FrameRecord)
  BY DEF CompilerTypes
<1>2. Len(stack) \in Nat /\ DOMAIN stack = 1..Len(stack)
  BY <1>1, LenProperties
<1>3. \A d \in 1..Len(stack) : stack[d] \in FrameRecord
  BY <1>1, ElementOfSeq
<1>4. stack # <<>> => Len(stack) \in Nat \ {0}
  BY <1>1, EmptySeq
<1> QED
  BY <1>2, <1>3, <1>4 DEF FrameRecord

\* A child that is on the stack closes a cycle: each node from it to the top
\* waits for another of them.
LEMMA CycleFound ==
  ASSUME CompilerTypes, Path, stack # <<>>,
         NEW i \in outgoing(stack[Len(stack)].node),
         spec.edges[i][2] \in visiting
  PROVE  ~Schedulable
<1> DEFINE top == Len(stack)
           child == spec.edges[i][2]
<1>1. top \in 1..Len(stack) /\ Len(stack) \in Nat
  BY StackFacts
<1>2. PICK d \in 1..Len(stack) : stack[d].node = child
  BY DEF Path
<1> DEFINE S == {stack[j].node : j \in d..Len(stack)}
<1>3. S \in SUBSET NodeIds(spec) /\ S # {}
  BY <1>1, StackFacts
<1>4. <<stack[top].node, child>> \in Edges
  <2>1. i \in DOMAIN spec.edges /\ spec.edges[i][1] = stack[top].node
    BY DEF outgoing
  <2> QED
    BY <2>1, SpecFacts DEF CompilerTypes
<1>5. ASSUME NEW n \in S, \A m \in S : <<m, n>> \notin Edges
      PROVE  FALSE
  <2>1. PICK j \in d..Len(stack) : n = stack[j].node
    OBVIOUS
  <2>2. CASE j = d
    <3>1. stack[top].node \in S
      BY <1>1, <1>2
    <3> QED
      BY <1>2, <1>4, <1>5, <2>1, <2>2, <3>1
  <2>3. CASE j # d
    <3>1. j - 1 \in d..Len(stack) /\ j - 1 \in 1..(Len(stack) - 1) /\ (j - 1) + 1 = j
      BY <1>1, <2>3
    <3>2. stack[j - 1].node \in S
      BY <3>1
    <3>3. <<stack[j - 1].node, stack[j].node>> \in Edges
      BY <3>1 DEF Path
    <3> QED
      BY <1>5, <2>1, <3>2, <3>3
  <2> QED
    BY <2>2, <2>3
<1> QED
  BY <1>3, <1>5 DEF Schedulable

\* The invariant holds initially.
LEMMA CompilerInitOK == CompilerInit => CompilerInd
<1> SUFFICES ASSUME CompilerInit
             PROVE  CompilerInd
  OBVIOUS
<1> USE DEF CompilerInit
<1>1. stack \in Seq(FrameRecord) /\ Len(stack) = 0
  BY EmptySeq
<1>2. 1..0 = {} /\ 1..(0 - 1) = {}
  OBVIOUS
<1>3. CompilerTypes
  BY <1>1 DEF CompilerTypes
<1>4. Path /\ FramesOK
  BY <1>1, <1>2 DEF Path, FramesOK
<1>5. Finished /\ Verdicts
  BY DEF Finished, Verdicts
<1> QED
  BY <1>3, <1>4, <1>5 DEF CompilerInd

\* Steps that leave the search as it is.
LEMMA StageStep ==
  ASSUME CompilerInd, UNCHANGED <<spec, visiting, visited, stack>>,
         stage' \in {"parse", "search", "compiled", "invalid", "cyclic"},
         stage' = "parse" => stage = "parse",
         stage' \in {"search", "compiled", "cyclic"} => Parsed,
         stage' = "compiled" => NodeIds(spec) \subseteq visited,
         stage' = "cyclic" => ~Schedulable
  PROVE  CompilerInd'
<1>1. CompilerTypes /\ Path /\ FramesOK /\ Finished
  BY DEF CompilerInd
<1>2. /\ Edges' = Edges /\ NodeIds(spec)' = NodeIds(spec)
      /\ FrameRecord' = FrameRecord
      /\ (Schedulable' <=> Schedulable) /\ (Parsed' <=> Parsed)
  BY SpecKept
<1>3. CompilerTypes'
  BY <1>1, <1>2 DEF CompilerTypes
<1>4. Path' /\ Finished'
  BY <1>1, <1>2 DEF Path, Finished
<1>5. FramesOK'
  BY <1>1 DEF FramesOK, outgoing
<1>6. Verdicts'
  BY <1>2 DEF Verdicts
<1> QED
  BY <1>3, <1>4, <1>5, <1>6 DEF CompilerInd

\* Parsing keeps the invariant.
LEMMA ParseOK ==
  ASSUME CompilerInd, Parse
  PROVE  CompilerInd'
<1>1. /\ stage' = "search" \/ stage' = "invalid"
      /\ stage' = "search" => Parsed
      /\ UNCHANGED <<spec, visiting, visited, stack>>
  BY DEF Parse, Parsed
<1> QED
  BY <1>1, StageStep

\* Building the graph keeps the invariant.
LEMMA BuildOK ==
  ASSUME CompilerInd, Build
  PROVE  CompilerInd'
<1>1. stage = "search" /\ Parsed
  BY DEF CompilerInd, CompilerTypes, Build
<1>2. /\ stage' = "compiled" \/ stage' = "invalid"
      /\ NodeIds(spec) \subseteq visited
      /\ UNCHANGED <<spec, visiting, visited, stack>>
  BY DEF Build
<1> QED
  BY <1>1, <1>2, StageStep

\* A step of the search keeps the specification, the stage and the marks it
\* has made; the rest is to be shown of the new stack.
LEMMA SearchStep ==
  ASSUME CompilerInd, stage = "search", UNCHANGED <<spec, stage>>,
         stack' \in Seq(FrameRecord), visited' \in SUBSET NodeIds(spec),
         Path', FramesOK', Finished'
  PROVE  CompilerInd'
<1>1. /\ NodeIds(spec)' = NodeIds(spec) /\ FrameRecord' = FrameRecord
      /\ (Schedulable' <=> Schedulable) /\ (Parsed' <=> Parsed)
  BY SpecKept
<1>2. CompilerTypes'
  BY <1>1 DEF CompilerInd, CompilerTypes
<1>3. Verdicts'
  BY <1>1 DEF Verdicts
<1> QED
  BY <1>2, <1>3 DEF CompilerInd

\* A fresh frame has all its edges to give.
LEMMA FreshFrame ==
  ASSUME NEW n \in NodeIds(spec)
  PROVE  /\ Frame(n) \in FrameRecord /\ Frame(n).node = n
         /\ Frame(n).rest = outgoing(n)
BY DEF Frame, FrameRecord, outgoing

\* Starting a search from the next root keeps the invariant.
LEMMA NextRootOK ==
  ASSUME CompilerInd, NextRoot
  PROVE  CompilerInd'
<1> DEFINE root == Min(NodeIds(spec) \ visited)
<1>1. CompilerTypes /\ Path /\ FramesOK /\ Finished
  BY DEF CompilerInd
<1>2. /\ stage = "search" /\ stack = <<>> /\ visiting' = visiting \cup {root}
      /\ stack' = <<Frame(root)>> /\ UNCHANGED <<spec, stage, visited>>
  BY DEF NextRoot
<1>3. root \in NodeIds(spec) /\ root \notin visited
  <2>1. NodeIds(spec) \ visited \in SUBSET Nat /\ NodeIds(spec) \ visited # {}
    BY <1>1, SpecFacts DEF CompilerTypes, NextRoot
  <2> QED
    BY <2>1, MinIsIn
<1> HIDE DEF root
<1>4. Len(stack) = 0
  BY <1>2, EmptySeq
<1>5. visiting = {}
  BY <1>1, <1>4 DEF Path
<1>6. /\ Frame(root) \in FrameRecord /\ Frame(root).node = root
      /\ Frame(root).rest = outgoing(root)
  BY <1>3, FreshFrame
<1>7. stack' \in Seq(FrameRecord) /\ Len(stack') = 1 /\ stack'[1] = Frame(root)
  BY <1>2, <1>6
<1>8. Path'
  <2>1. visiting' = {stack'[d].node : d \in 1..Len(stack')}
    BY <1>2, <1>5, <1>6, <1>7
  <2>2. \A d \in 1..Len(stack') : d = 1
    BY <1>7
  <2>3. 1..(Len(stack') - 1) = {}
    BY <1>7
  <2>4. visiting' \cap visited' = {}
    BY <1>2, <1>3, <1>5
  <2> QED
    BY <2>1, <2>2, <2>3, <2>4 DEF Path
<1>9. FramesOK'
  <2> SUFFICES ASSUME NEW d \in 1..Len(stack')
               PROVE  /\ stack'[d].rest \subseteq outgoing(stack[d].node)'
                      /\ \A i \in outgoing(stack[d].node)' \ stack'[d].rest :
                           \/ spec'.edges[i][2] \in visited'
                           \/ d < Len(stack') /\ stack'[d + 1].node = spec'.edges[i][2]
    BY DEF FramesOK
  <2>1. d = 1
    BY <1>7
  <2>2. outgoing(stack[d].node)' = outgoing(root)
    BY <1>2, <1>6, <1>7, <2>1 DEF outgoing
  <2> QED
    BY <1>6, <1>7, <2>1, <2>2
<1>10. Finished'
  BY <1>1, <1>2, SpecKept DEF Finished
<1>11. visited' \in SUBSET NodeIds(spec)
  BY <1>1, <1>2 DEF CompilerTypes
<1> QED
  BY <1>2, <1>7, <1>8, <1>9, <1>10, <1>11, SearchStep

\* A finished node is added: nothing finished waits for it, so it can come
\* first.
LEMMA PopFrameOK ==
  ASSUME CompilerInd, PopFrame
  PROVE  CompilerInd'
<1> DEFINE L == Len(stack)
           v == stack[L].node
<1>1. CompilerTypes /\ Path /\ FramesOK /\ Finished
  BY DEF CompilerInd
<1>2. /\ stage = "search" /\ stack # <<>> /\ stack[L].rest = {}
      /\ visiting' = visiting \ {v} /\ visited' = visited \cup {v}
      /\ stack' = SubSeq(stack, 1, L - 1) /\ UNCHANGED <<spec, stage>>
  BY DEF PopFrame
<1>3. L \in Nat /\ L \in 1..L /\ v \in NodeIds(spec) /\ L - 1 \in Nat
      /\ \A d \in 1..L : stack[d] \in FrameRecord
  BY <1>1, <1>2, StackFacts
<1>4. /\ stack' \in Seq(FrameRecord) /\ Len(stack') = L - 1
      /\ \A d \in 1..(L - 1) : stack'[d] = stack[d]
  <2>1. L - 1 \in Int /\ \A d \in 1..(L - 1) : stack[d] \in FrameRecord
    BY <1>3
  <2>2. /\ SubSeq(stack, 1, L - 1) \in Seq(FrameRecord)
        /\ Len(SubSeq(stack, 1, L - 1)) = IF 1 <= L - 1 THEN (L - 1) - 1 + 1 ELSE 0
        /\ \A d \in 1..((L - 1) - 1 + 1) : SubSeq(stack, 1, L - 1)[d] = stack[1 + d - 1]
    BY <2>1, SubSeqProperties
  <2>3. Len(stack') = L - 1
    <3>1. Len(stack') = IF 1 <= L - 1 THEN (L - 1) - 1 + 1 ELSE 0
      BY <1>2, <2>2
    <3> HIDE DEF L
    <3> QED
      BY <1>3, <3>1
  <2>4. \A d \in 1..(L - 1) : d \in 1..((L - 1) - 1 + 1) /\ 1 + d - 1 = d
    BY <1>3
  <2>5. \A d \in 1..(L - 1) : stack'[d] = stack[d]
    BY <1>2, <2>2, <2>4
  <2> QED
    BY <1>2, <2>2, <2>3, <2>5
<1>5. v \in visiting /\ v \notin visited
  BY <1>1, <1>3 DEF Path
<1>6. Edges' = Edges
  BY <1>2, SpecKept
<1>7. Path'
  <2>1. visiting' = {stack'[d].node : d \in 1..Len(stack')}
    <3>1. \A d \in 1..(L - 1) : stack[d].node \in visiting /\ stack[d].node # v
      BY <1>1, <1>3 DEF Path
    <3>2. ASSUME NEW n \in visiting, n # v
          PROVE  \E d \in 1..(L - 1) : n = stack[d].node
      <4>1. PICK d \in 1..L : n = stack[d].node
        BY <1>1 DEF Path
      <4>2. d # L
        BY <3>2, <4>1
      <4>3. d \in 1..(L - 1)
        BY <1>3, <4>1, <4>2
      <4> QED
        BY <4>1, <4>3
    <3> HIDE DEF v
    <3> QED
      BY <1>2, <1>4, <3>1, <3>2
  <2>2. \A c, d \in 1..Len(stack') : stack'[c].node = stack'[d].node => c = d
    BY <1>1, <1>3, <1>4 DEF Path
  <2>3. \A d \in 1..(Len(stack') - 1) :
          <<stack'[d].node, stack'[d + 1].node>> \in Edges'
    <3> TAKE d \in 1..(Len(stack') - 1)
    <3>1. d \in 1..(L - 1) /\ d + 1 \in 1..(L - 1)
      BY <1>3, <1>4
    <3> QED
      BY <1>1, <1>4, <1>6, <3>1 DEF Path
  <2>4. visiting' \cap visited' = {}
    BY <1>1, <1>2 DEF Path
  <2> QED
    BY <2>1, <2>2, <2>3, <2>4 DEF Path
<1>8. FramesOK'
  <2> SUFFICES ASSUME NEW d \in 1..Len(stack')
               PROVE  /\ stack'[d].rest \subseteq outgoing(stack[d].node)'
                      /\ \A i \in outgoing(stack[d].node)' \ stack'[d].rest :
                           \/ spec'.edges[i][2] \in visited'
                           \/ d < Len(stack') /\ stack'[d + 1].node = spec'.edges[i][2]
    BY DEF FramesOK
  <2>1. d \in 1..(L - 1) /\ d \in 1..L /\ stack'[d] = stack[d]
    BY <1>3, <1>4
  <2>2. outgoing(stack[d].node)' = outgoing(stack[d].node)
    BY <1>2, <2>1 DEF outgoing
  <2>3. stack[d].rest \subseteq outgoing(stack[d].node)
    BY <1>1, <2>1 DEF FramesOK
  <2>4. ASSUME NEW i \in outgoing(stack[d].node) \ stack[d].rest
        PROVE  \/ spec.edges[i][2] \in visited'
               \/ d < L - 1 /\ stack'[d + 1].node = spec.edges[i][2]
    <3>1. spec.edges[i][2] \in visited
            \/ (d < L /\ stack[d + 1].node = spec.edges[i][2])
      BY <1>1, <2>1 DEF FramesOK
    <3>2. CASE d + 1 = L
      BY <1>2, <3>1, <3>2
    <3>3. CASE d + 1 # L
      <4>1. d < L - 1 /\ d + 1 \in 1..(L - 1)
        BY <1>3, <2>1, <3>3
      <4> QED
        BY <1>2, <1>4, <3>1, <4>1
    <3> QED
      BY <3>2, <3>3
  <2> QED
    BY <1>2, <1>4, <2>1, <2>2, <2>3, <2>4
<1>9. Finished'
  <2>1. ASSUME NEW e \in Edges, e[1] \in visited'
        PROVE  e[2] \in visited'
    <3>1. CASE e[1] \in visited
      BY <1>1, <1>2, <3>1 DEF Finished
    <3>2. CASE e[1] = v
      <4>1. PICK i \in DOMAIN spec.edges : e = spec.edges[i]
        BY DEF Edges
      <4>2. i \in outgoing(v)
        BY <3>2, <4>1 DEF outgoing
      <4>3. spec.edges[i][2] \in visited \/ L < L
        BY <1>1, <1>2, <1>3, <4>2 DEF FramesOK
      <4> QED
        BY <1>2, <1>3, <4>1, <4>3
    <3> QED
      BY <1>2, <2>1, <3>1, <3>2
  <2>2. ASSUME NEW S \in SUBSET visited', S # {}
        PROVE  \E n \in S : \A m \in S : <<m, n>> \notin Edges
    <3>1. CASE v \notin S
      <4>1. S \in SUBSET visited
        BY <1>2, <3>1
      <4> QED
        BY <1>1, <2>2, <4>1 DEF Finished
    <3>2. CASE v \in S
      <4>1. ASSUME NEW m \in S, <<m, v>> \in Edges
            PROVE  FALSE
        <5>1. PICK i \in DOMAIN spec.edges : <<m, v>> = spec.edges[i]
          BY <4>1 DEF Edges
        <5>2. m # v
          BY <1>1, <1>2, <5>1 DEF CompilerTypes, Parsed, WorkEdge
        <5>3. m \in visited
          BY <1>2, <5>2
        <5>4. <<m, v>>[1] = m /\ <<m, v>>[2] = v
          OBVIOUS
        <5>5. v \in visited
          BY <1>1, <4>1, <5>3, <5>4 DEF Finished
        <5> QED
          BY <1>5, <5>5
      <4> QED
        BY <3>2, <4>1
    <3> QED
      BY <3>1, <3>2
  <2> QED
    BY <1>6, <2>1, <2>2 DEF Finished
<1>10. visited' \in SUBSET NodeIds(spec)
  BY <1>1, <1>2, <1>3 DEF CompilerTypes
<1> QED
  BY <1>2, <1>4, <1>7, <1>8, <1>9, <1>10, SearchStep

\* The top frame gives up one edge.
LEMMA MovedFacts ==
  ASSUME CompilerTypes, stack # <<>>, NEW edge
  PROVE  LET L == Len(stack)
             moved == [stack EXCEPT ![L].rest = stack[L].rest \ {edge}]
         IN /\ moved \in Seq(FrameRecord) /\ Len(moved) = L
            /\ \A d \in 1..L : /\ moved[d].node = stack[d].node
                               /\ d # L => moved[d] = stack[d]
            /\ moved[L].rest = stack[L].rest \ {edge}
<1> DEFINE L == Len(stack)
           f == [stack[L] EXCEPT !.rest = stack[L].rest \ {edge}]
<1>1. L \in 1..Len(stack) /\ stack[L] \in FrameRecord /\ stack \in Seq(FrameRecord)
  BY StackFacts DEF CompilerTypes
<1>2. /\ f \in FrameRecord /\ f.node = stack[L].node
      /\ f.rest = stack[L].rest \ {edge}
  BY <1>1 DEF FrameRecord
<1>3. [stack EXCEPT ![L].rest = stack[L].rest \ {edge}] = [stack EXCEPT ![L] = f]
  BY <1>1
<1> HIDE DEF f
<1>4. /\ [stack EXCEPT ![L] = f] \in Seq(FrameRecord)
      /\ Len([stack EXCEPT ![L] = f]) = Len(stack)
      /\ \A d \in 1..Len(stack) :
           [stack EXCEPT ![L] = f][d] = IF d = L THEN f ELSE stack[d]
  BY <1>1, <1>2, ExceptSeq
<1> QED
  BY <1>1, <1>2, <1>3, <1>4

\* Following an edge, or finding a cycle with it, keeps the invariant.
LEMMA DescendOK ==
  ASSUME CompilerInd, Descend
  PROVE  CompilerInd'
<1> DEFINE L == Len(stack)
           rest == stack[L].rest
           edge == NextEdge(rest)
           child == spec.edges[edge][2]
           moved == [stack EXCEPT ![L].rest = rest \ {edge}]
<1>1. CompilerTypes /\ Path /\ FramesOK /\ Finished
  BY DEF CompilerInd
<1>2. /\ stage = "search" /\ stack # <<>> /\ rest # {} /\ UNCHANGED <<spec, visited>>
      /\ \/ child \in visiting /\ stage' = "cyclic" /\ UNCHANGED <<visiting, stack>>
         \/ /\ child \notin visiting /\ child \in visited /\ stack' = moved
            /\ UNCHANGED <<stage, visiting>>
         \/ /\ child \notin visiting /\ child \notin visited
            /\ stack' = Append(moved, Frame(child))
            /\ visiting' = visiting \cup {child} /\ UNCHANGED stage
  BY DEF Descend, ClosesCycle
<1>3. L \in Nat /\ L \in 1..L /\ stack[L].node \in NodeIds(spec)
      /\ rest \in SUBSET (DOMAIN spec.edges)
  BY <1>1, <1>2, StackFacts
<1>4. edge \in rest /\ edge \in DOMAIN spec.edges
  BY <1>1, <1>2, <1>3, NextEdgeIsIn DEF CompilerTypes
<1>5. edge \in outgoing(stack[L].node)
  BY <1>1, <1>3, <1>4 DEF FramesOK
<1>6. /\ child \in NodeIds(spec) /\ <<stack[L].node, child>> \in Edges
  <2>1. Parsed
    BY <1>1, <1>2 DEF CompilerTypes
  <2>2. spec.edges[edge][1] = stack[L].node
    BY <1>5 DEF outgoing
  <2>3. spec.edges[edge] = <<stack[L].node, child>> /\ spec.edges[edge] \in Edges
    BY <1>1, <1>4, <2>2, SpecFacts DEF CompilerTypes
  <2> QED
    BY <1>4, <2>1, <2>3 DEF Parsed, EdgesKnown
<1> HIDE DEF edge
<1>7. /\ moved \in Seq(FrameRecord) /\ Len(moved) = L
      /\ \A d \in 1..L : /\ moved[d].node = stack[d].node
                         /\ d # L => moved[d] = stack[d]
      /\ moved[L].rest = rest \ {edge}
  BY <1>1, <1>2, MovedFacts
<1>8. Edges' = Edges /\ visited' \in SUBSET NodeIds(spec) /\ spec' = spec
      /\ \A n : {i \in DOMAIN spec'.edges : spec'.edges[i][1] = n} = outgoing(n)
  BY <1>1, <1>2, SpecKept DEF CompilerTypes, outgoing
<1>9. Finished'
  BY <1>1, <1>2, <1>8 DEF Finished
<1>10. \A d \in 1..L :
         /\ moved[d].rest \subseteq outgoing(stack[d].node)
         /\ \A i \in outgoing(stack[d].node) \ moved[d].rest :
              \/ spec.edges[i][2] \in visited
              \/ d < L /\ stack[d + 1].node = spec.edges[i][2]
              \/ d = L /\ i = edge
  <2> TAKE d \in 1..L
  <2>1. CASE d # L
    BY <1>1, <1>7, <2>1 DEF FramesOK
  <2>2. CASE d = L
    BY <1>1, <1>3, <1>7, <2>2 DEF FramesOK
  <2> QED
    BY <2>1, <2>2
<1> HIDE DEF moved, rest
<1>11. CASE child \in visiting /\ stage' = "cyclic" /\ UNCHANGED <<visiting, stack>>
  <2>1. ~Schedulable /\ Parsed
    BY <1>1, <1>2, <1>5, <1>11, CycleFound DEF CompilerTypes
  <2> QED
    BY <1>2, <1>11, <2>1, StageStep
<1>12. CASE /\ child \notin visiting /\ child \in visited /\ stack' = moved
            /\ UNCHANGED <<stage, visiting>>
  <2>1. Len(stack') = L /\ stack' \in Seq(FrameRecord)
        /\ \A d \in 1..L : stack'[d].node = stack[d].node
    BY <1>7, <1>12
  <2>2. Path'
    <3>1. visiting' = {stack'[d].node : d \in 1..Len(stack')}
      BY <1>1, <1>12, <2>1 DEF Path
    <3>2. \A c, d \in 1..Len(stack') : stack'[c].node = stack'[d].node => c = d
      BY <1>1, <2>1 DEF Path
    <3>3. \A d \in 1..(Len(stack') - 1) :
            <<stack'[d].node, stack'[d + 1].node>> \in Edges'
      BY <1>1, <1>3, <1>8, <2>1 DEF Path
    <3>4. visiting' \cap visited' = {}
      BY <1>1, <1>2, <1>12 DEF Path
    <3> QED
      BY <3>1, <3>2, <3>3, <3>4 DEF Path
  <2>3. FramesOK'
    <3> SUFFICES ASSUME NEW d \in 1..Len(stack')
                 PROVE  /\ stack'[d].rest \subseteq outgoing(stack[d].node)'
                        /\ \A i \in outgoing(stack[d].node)' \ stack'[d].rest :
                             \/ spec'.edges[i][2] \in visited'
                             \/ d < Len(stack') /\ stack'[d + 1].node = spec'.edges[i][2]
      BY DEF FramesOK
    <3>1. d \in 1..L /\ stack'[d] = moved[d]
      BY <1>12, <2>1
    <3>2. outgoing(stack[d].node)' = outgoing(stack[d].node)
      BY <1>8, <2>1, <3>1 DEF outgoing
    <3>3. /\ moved[d].rest \subseteq outgoing(stack[d].node)
          /\ \A i \in outgoing(stack[d].node) \ moved[d].rest :
               \/ spec.edges[i][2] \in visited
               \/ d < L /\ stack[d + 1].node = spec.edges[i][2]
      BY <1>10, <1>12, <3>1
    <3>4. d < L => stack'[d + 1].node = stack[d + 1].node
      BY <1>3, <2>1, <3>1
    <3> QED
      BY <1>2, <2>1, <3>1, <3>2, <3>3, <3>4
  <2> QED
    BY <1>2, <1>8, <1>9, <1>12, <2>1, <2>2, <2>3, SearchStep
<1>13. CASE /\ child \notin visiting /\ child \notin visited
            /\ stack' = Append(moved, Frame(child))
            /\ visiting' = visiting \cup {child} /\ UNCHANGED stage
  <2>0. /\ Frame(child) \in FrameRecord /\ Frame(child).node = child
        /\ Frame(child).rest = outgoing(child)
    BY <1>6, FreshFrame
  <2> HIDE DEF child
  <2>1. /\ Len(stack') = L + 1 /\ stack' \in Seq(FrameRecord)
        /\ \A d \in 1..L : stack'[d] = moved[d] /\ stack'[d].node = stack[d].node
        /\ stack'[L + 1] = Frame(child)
    BY <1>7, <1>13, <2>0, AppendProperties
  <2>2. 1..Len(stack') = (1..L) \cup {L + 1} /\ stack'[L + 1].node = child
    BY <1>3, <2>0, <2>1
  <2>3. Path'
    <3>1. visiting' = {stack'[d].node : d \in 1..Len(stack')}
      BY <1>1, <1>13, <2>1, <2>2 DEF Path
    <3>2. \A c, d \in 1..Len(stack') : stack'[c].node = stack'[d].node => c = d
      <4>1. \A d \in 1..L : stack'[d].node # child
        BY <1>1, <1>13, <2>1 DEF Path
      <4> QED
        BY <1>1, <2>1, <2>2, <4>1 DEF Path
    <3>3. \A d \in 1..(Len(stack') - 1) :
            <<stack'[d].node, stack'[d + 1].node>> \in Edges'
      <4> TAKE d \in 1..(Len(stack') - 1)
      <4>1. d \in 1..L
        BY <1>3, <2>1
      <4>2. CASE d = L
        BY <1>6, <1>8, <2>1, <2>2, <4>1, <4>2
      <4>3. CASE d # L
        <5>1. d \in 1..(L - 1) /\ d + 1 \in 1..L
          BY <1>3, <4>1, <4>3
        <5> QED
          BY <1>1, <1>8, <2>1, <4>1, <5>1 DEF Path
      <4> QED
        BY <4>2, <4>3
    <3>4. visiting' \cap visited' = {}
      BY <1>1, <1>2, <1>13 DEF Path
    <3> QED
      BY <3>1, <3>2, <3>3, <3>4 DEF Path
  <2>4. FramesOK'
    <3> SUFFICES ASSUME NEW d \in 1..Len(stack')
                 PROVE  /\ stack'[d].rest \subseteq outgoing(stack[d].node)'
                        /\ \A i \in outgoing(stack[d].node)' \ stack'[d].rest :
                             \/ spec'.edges[i][2] \in visited'
                             \/ d < Len(stack') /\ stack'[d + 1].node = spec'.edges[i][2]
      BY DEF FramesOK
    <3>1. CASE d \in 1..L
      <4>1. outgoing(stack[d].node)' = outgoing(stack[d].node)
        BY <1>8, <2>1, <3>1 DEF outgoing
      <4>2. /\ moved[d].rest \subseteq outgoing(stack[d].node)
            /\ \A i \in outgoing(stack[d].node) \ moved[d].rest :
                 \/ spec.edges[i][2] \in visited
                 \/ d < L /\ stack[d + 1].node = spec.edges[i][2]
                 \/ d = L /\ i = edge
        BY <1>10, <3>1
      <4>3. d < L => stack'[d + 1].node = stack[d + 1].node
        BY <1>3, <2>1, <3>1
      <4>4. d = L => stack'[d + 1].node = spec.edges[edge][2]
        BY <2>2 DEF child
      <4>5. d < Len(stack')
        BY <1>3, <2>1, <3>1
      <4> QED
        BY <1>2, <2>1, <3>1, <4>1, <4>2, <4>3, <4>4, <4>5
    <3>2. CASE d = L + 1
      <4>1. outgoing(stack[d].node)' = outgoing(child)
        BY <1>8, <2>2, <3>2 DEF outgoing
      <4> QED
        BY <2>0, <2>1, <3>2, <4>1
    <3> QED
      BY <2>2, <3>1, <3>2
  <2> QED
    BY <1>2, <1>8, <1>9, <1>13, <2>1, <2>3, <2>4, SearchStep
<1> QED
  BY <1>2, <1>11, <1>12, <1>13

\* Every step of the compiler keeps the invariant.
LEMMA CompilerStep ==
  ASSUME CompilerInd, [CompilerNext]_cvars
  PROVE  CompilerInd'
<1>1. CASE UNCHANGED cvars
  <2>1. UNCHANGED <<spec, visiting, visited, stack>> /\ stage' = stage
    BY <1>1 DEF cvars
  <2>2. /\ stage \in {"parse", "search", "compiled", "invalid", "cyclic"}
        /\ stage \in {"search", "compiled", "cyclic"} => Parsed
        /\ stage = "compiled" => NodeIds(spec) \subseteq visited
        /\ stage = "cyclic" => ~Schedulable
    BY DEF CompilerInd, CompilerTypes, Verdicts
  <2> QED
    BY <2>1, <2>2, StageStep
<1> QED
  BY <1>1, ParseOK, NextRootOK, PopFrameOK, DescendOK, BuildOK DEF CompilerNext

\* No two places of the list have one node: there are as many nodes as places.
LEMMA NodesCounted ==
  ASSUME spec \in Specs, NoDuplicates(spec)
  PROVE  Cardinality(NodeIds(spec)) = Len(spec.nodes)
<1> DEFINE n == Len(spec.nodes)
           f == [i \in 1..n |-> spec.nodes[i].id]
<1>1. n \in Nat /\ DOMAIN spec.nodes = 1..n
  BY SpecFacts
<1>2. f \in Bijection(1..n, NodeIds(spec))
  <2>1. f \in [1..n -> NodeIds(spec)]
    BY <1>1 DEF NodeIds
  <2>2. \A i, j \in 1..n : f[i] = f[j] => i = j
    BY <1>1 DEF NoDuplicates
  <2>3. \A x \in NodeIds(spec) : \E i \in 1..n : f[i] = x
    BY <1>1 DEF NodeIds
  <2> HIDE DEF f
  <2> QED
    BY <2>1, <2>2, <2>3 DEF Bijection, Injection, Surjection, IsInjective
<1>3. IsFiniteSet(1..n) /\ Cardinality(1..n) = n
  BY <1>1, FS_Interval
<1>4. ExistsBijection(1..n, NodeIds(spec))
  BY <1>2 DEF ExistsBijection
<1> QED
  BY <1>3, <1>4, FS_Bijection

\* The cycle search is exact on every specification: it refuses a graph as
\* cyclic exactly when some nodes wait for each other in a circle, so a
\* compiled graph can be run to its end whatever has been done so far
\* (_reject_cycles, compile_work_graph).
THEOREM CompilerAlways == CompilerSpec => []CompilerInv
<1>1. CompilerInit => CompilerInd
  BY CompilerInitOK
<1>2. CompilerInd /\ [CompilerNext]_cvars => CompilerInd'
  BY CompilerStep
<1>3. CompilerInd => CompilerInv
  <2> SUFFICES ASSUME CompilerInd
               PROVE  CompilerInv
    OBVIOUS
  <2>1. CompilerTypes /\ Path /\ FramesOK /\ Finished /\ Verdicts
    BY DEF CompilerInd
  <2>2. CompilerTypeOK
    <3>1. visiting \subseteq NodeIds(spec)
      BY <2>1, StackFacts DEF Path
    <3> QED
      BY <2>1, <3>1, StackFacts DEF CompilerTypeOK, CompilerTypes, Over
  <2>3. CycleVerdictExact
    BY <2>1 DEF CycleVerdictExact, Verdicts, Finished, Schedulable
  <2>4. SearchIsAWalk
    BY <2>1, StackFacts DEF SearchIsAWalk, Path, Finished
  <2>5. CompiledIsWellFormed
    <3> SUFFICES ASSUME stage = "compiled"
                 PROVE  /\ Cardinality(NodeIds(spec)) = Len(spec.nodes)
                        /\ \A e \in Edges : {e[1], e[2]} \subseteq NodeIds(spec)
                        /\ \A i \in DOMAIN spec.nodes :
                             spec.nodes[i].kind = "approval" =>
                               spec.nodes[i].approval_required
      BY DEF CompiledIsWellFormed
    <3>1. Parsed /\ spec \in Specs
      BY <2>1 DEF CompilerTypes
    <3>2. Cardinality(NodeIds(spec)) = Len(spec.nodes)
      BY <3>1, NodesCounted DEF Parsed
    <3>3. \A e \in Edges : {e[1], e[2]} \subseteq NodeIds(spec)
      BY <3>1 DEF Parsed, EdgesKnown, Edges
    <3>4. \A i \in DOMAIN spec.nodes :
            spec.nodes[i].kind = "approval" => spec.nodes[i].approval_required
      BY <3>1 DEF Parsed, _node
    <3> QED
      BY <3>2, <3>3, <3>4
  <2> QED
    BY <2>2, <2>3, <2>4, <2>5 DEF CompilerInv
<1> QED
  BY <1>1, <1>2, <1>3, PTL DEF CompilerSpec
=============================================================================
