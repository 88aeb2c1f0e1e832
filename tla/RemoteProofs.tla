---------------------------- MODULE RemoteProofs ----------------------------
(* Machine-checked proofs about Remote, for any number of controllers, work  *)
(* nodes, workers, leases and faults, any clocks of the workers and any      *)
(* bound on time.  Inv is the inductive invariant: what a controller inside  *)
(* invoke knows about its lease, who owns a lease, and what the state of a   *)
(* lease says about the job behind it.  The last section is about Bundle,    *)
(* for any files and any number of extractors, errors and kills.             *)
EXTENDS Remote, Bundle, SequenceTheorems, FiniteSetTheorems, TLAPS

\* The process has a lease of its own, from the INSERT until invoke ends.
HasLease(r) ==
  r.at \in {"leased", "packaged", "waiting", "settle", "update", "settled"}

\* It has not tried to end its lease yet, or is about to for the first time:
\* nobody else will have done it.
Open(r) ==
  \/ r.at \in {"leased", "packaged", "waiting", "update"}
  \/ r.at = "settle" /\ ~r.handling

\* What a process in state r knows about the lease it has.
Knows(r) ==
  /\ HasLease(r) => r.lease \in 1..Len(leases)
  /\ r.at \notin {"settle", "update", "settled"} => ~r.handling
  /\ Open(r) => leases[r.lease].state \notin TerminalStates
  /\ r.at = "settled" => leases[r.lease].state = r.want
  /\ r.at \in {"settle", "update"} /\ r.want = "completed"
       => jobs[r.lease] = "ok"
  /\ r.at = "settle" /\ r.handling
       => /\ r.want = "failed"
          /\ leases[r.lease].state \in TerminalStates => r.lease \in unlogged

\* Every controller knows its lease.
OwnersKnow == \A c \in Controllers : Knows(ctl[c])

\* No two processes have the same lease.
OneOwner ==
  \A c, e \in Controllers :
    HasLease(ctl[c]) /\ HasLease(ctl[e]) /\ ctl[c].lease = ctl[e].lease => c = e

\* A job that runs has somebody waiting for it, or was cut off.
RunningWatched ==
  \A l \in 1..Len(leases) :
    jobs[l] = "running"
      => l \in cut \/ \E c \in Controllers :
                        ctl[c].at = "waiting" /\ ctl[c].lease = l

\* A lease expires when its time has come, and a later lease of a work node
\* means that the earlier ones are over.
LeasesOrdered ==
  /\ \A l \in 1..Len(leases) :
       leases[l].state = "expired" => leases[l].expires <= clock
  /\ \A l, m \in 1..Len(leases) :
       l < m /\ leases[l].work = leases[m].work => leases[l].state # "active"

\* The inductive invariant.
Inv ==
  /\ TypeOK /\ OwnersKnow /\ OneOwner /\ RunningWatched /\ LeasesOrdered
  /\ CompletedWasExecuted /\ NoLeakedLease /\ LoggedOutcomeIsTrue
-----------------------------------------------------------------------------
(* Facts about the types.                                                    *)

\* Idle is a state of a process, outside invoke and without a lease.
LEMMA IdleIsCtl ==
  /\ Idle \in Ctl /\ Idle.at = "idle" /\ Idle.handling = FALSE
  /\ Idle.lease = 0 /\ Idle.want = "failed"
BY ConstantsAssumption DEF Idle, Ctl, Stages, TerminalStates

\* The tables as functions.
LEMMA Tables ==
  ASSUME TypeOK
  PROVE  /\ Len(leases) \in Nat /\ Len(jobs) = Len(leases)
         /\ DOMAIN leases = 1..Len(leases) /\ DOMAIN jobs = 1..Len(leases)
         /\ \A l \in 1..Len(leases) :
              /\ leases[l] \in Lease /\ jobs[l] \in Job
              /\ leases[l].state \in LeaseStates /\ leases[l].expires \in Nat
<1>1. /\ Len(leases) \in Nat /\ DOMAIN leases = 1..Len(leases)
      /\ DOMAIN jobs = 1..Len(jobs) /\ Len(jobs) = Len(leases)
  BY LenProperties DEF TypeOK
<1>2. \A l \in 1..Len(leases) : leases[l] \in Lease /\ jobs[l] \in Job
  BY <1>1, ElementOfSeq DEF TypeOK
<1> QED
  BY <1>1, <1>2 DEF Lease

\* A process that has a lease holds one of the stages Holds names, or has just
\* stored it.
LEMMA Holding ==
  \A c \in Controllers :
    HasLease(ctl[c]) <=> ctl[c].at = "leased" \/ Holds(c)
BY DEF HasLease, Holds
-----------------------------------------------------------------------------
(* Steps of one process that leave tables and jobs alone.                    *)

\* The step takes process c to another stage: what it may forget and what it
\* has to leave behind.
Moves(c) ==
  /\ \A e \in Controllers \ {c} : ctl'[e] = ctl[e]
  /\ leases' = leases /\ jobs' = jobs /\ clock' = clock
  /\ cut \subseteq cut' /\ orphaned \subseteq orphaned'
  /\ unlogged \subseteq unlogged' /\ logged \subseteq logged'
  /\ \A l \in 1..Len(leases) : \A s \in TerminalStates :
       <<l, s>> \in logged' => <<l, s>> \in logged \/ leases[l].state = s
  /\ HasLease(ctl'[c]) => HasLease(ctl[c]) /\ ctl'[c].lease = ctl[c].lease
  /\ Knows(ctl[c])'
  /\ HasLease(ctl[c]) /\ ~HasLease(ctl'[c])
       => leases[ctl[c].lease].state # "active" \/ ctl[c].lease \in orphaned'
  /\ ctl[c].at = "waiting"
       => \/ ctl'[c].at = "waiting" \/ ctl[c].lease \in cut'
          \/ jobs[ctl[c].lease] # "running"
  /\ ctl[c].at = "settled"
       => \/ ctl[c].lease \in unlogged'
          \/ <<ctl[c].lease, leases[ctl[c].lease].state>> \in logged'

\* Such a step keeps the invariant.
LEMMA MovesPreserve ==
  ASSUME Inv, TypeOK', NEW c \in Controllers, Moves(c)
  PROVE  Inv'
<1>1. OwnersKnow'
  <2> SUFFICES ASSUME NEW e \in Controllers PROVE Knows(ctl[e])'
    BY DEF OwnersKnow
  <2>1. CASE e = c
    BY <2>1 DEF Moves
  <2>2. CASE e # c
    <3>1. Knows(ctl[e]) /\ ctl'[e] = ctl[e]
      BY <2>2 DEF Moves, Inv, OwnersKnow
    <3> QED
      BY <3>1 DEF Moves, Knows, Open, HasLease
  <2> QED
    BY <2>1, <2>2
<1>2. OneOwner'
  BY DEF Moves, Inv, OneOwner
<1>3. RunningWatched'
  <2> SUFFICES ASSUME NEW l \in 1..Len(leases), jobs[l] = "running", l \notin cut'
               PROVE  \E e \in Controllers : ctl'[e].at = "waiting" /\ ctl'[e].lease = l
    BY DEF Moves, RunningWatched
  <2>1. PICK e \in Controllers : ctl[e].at = "waiting" /\ ctl[e].lease = l
    BY DEF Moves, Inv, RunningWatched
  <2> QED
    BY <2>1 DEF Moves, HasLease
<1>4. LeasesOrdered' /\ CompletedWasExecuted'
  BY DEF Moves, Inv, LeasesOrdered, CompletedWasExecuted
<1>5. NoLeakedLease'
  <2> SUFFICES ASSUME NEW l \in 1..Len(leases), leases[l].state = "active",
                      l \notin orphaned'
               PROVE  \E e \in Controllers : ctl'[e].lease = l /\ HasLease(ctl'[e])
    BY Tables DEF NoLeakedLease, HasLease, Holds, Inv, Moves
  <2>1. PICK e \in Controllers : ctl[e].lease = l /\ HasLease(ctl[e])
    BY Tables, Holding DEF Moves, Inv, NoLeakedLease
  <2> QED
    BY <2>1 DEF Moves
<1>6. LoggedOutcomeIsTrue'
  <2> SUFFICES ASSUME NEW l \in 1..Len(leases)
               PROVE  /\ \A s \in TerminalStates :
                           <<l, s>> \in logged' => leases[l].state = s
                      /\ leases[l].state \in TerminalStates
                           => \/ <<l, leases[l].state>> \in logged'
                              \/ l \in unlogged'
                              \/ \E e \in Controllers :
                                   ctl'[e].lease = l /\ ctl'[e].at = "settled"
    BY Tables DEF LoggedOutcomeIsTrue, Inv, Moves
  <2>1. \A s \in TerminalStates : <<l, s>> \in logged' => leases[l].state = s
    BY Tables DEF Moves, Inv, LoggedOutcomeIsTrue
  <2>2. ASSUME leases[l].state \in TerminalStates, l \notin unlogged',
               <<l, leases[l].state>> \notin logged'
        PROVE  \E e \in Controllers : ctl'[e].lease = l /\ ctl'[e].at = "settled"
    <3>1. PICK e \in Controllers : ctl[e].lease = l /\ ctl[e].at = "settled"
      BY <2>2, Tables DEF Moves, Inv, LoggedOutcomeIsTrue
    <3>2. e # c
      BY <2>2, <3>1 DEF Moves
    <3> QED
      BY <3>1, <3>2 DEF Moves
  <2> QED
    BY <2>1, <2>2
<1> QED
  BY <1>1, <1>2, <1>3, <1>4, <1>5, <1>6 DEF Inv

\* Where Return, Settle and Raised take a process.
LEMMA Returning ==
  ASSUME TypeOK, NEW c \in Controllers
  PROVE  /\ Return(c) \in [Controllers -> Ctl] /\ Return(c)[c] = Idle
         /\ \A e \in Controllers \ {c} : Return(c)[e] = ctl[e]
BY IdleIsCtl DEF TypeOK, Return

\* Settle: the process has its own lease to end, inside the try block.
LEMMA Settling ==
  ASSUME TypeOK, NEW c \in Controllers, NEW want \in TerminalStates
  PROVE  /\ Settle(c, want, FALSE) \in [Controllers -> Ctl]
         /\ Settle(c, want, FALSE)[c].at = "settle"
         /\ Settle(c, want, FALSE)[c].lease = ctl[c].lease
         /\ Settle(c, want, FALSE)[c].want = want
         /\ ~Settle(c, want, FALSE)[c].handling
         /\ \A e \in Controllers \ {c} : Settle(c, want, FALSE)[e] = ctl[e]
<1>1. [Idle EXCEPT !.at = "settle", !.lease = ctl[c].lease, !.want = want,
                   !.handling = FALSE] \in Ctl
  BY IdleIsCtl DEF TypeOK, Ctl, Stages
<1> QED
  BY <1>1, IdleIsCtl DEF TypeOK, Settle, Ctl

\* Settle from the except clause: fail_lease for its own lease.
LEMMA Handling ==
  ASSUME TypeOK, NEW c \in Controllers
  PROVE  /\ Settle(c, "failed", TRUE) \in [Controllers -> Ctl]
         /\ Settle(c, "failed", TRUE)[c].at = "settle"
         /\ Settle(c, "failed", TRUE)[c].lease = ctl[c].lease
         /\ Settle(c, "failed", TRUE)[c].want = "failed"
         /\ Settle(c, "failed", TRUE)[c].handling
         /\ \A e \in Controllers \ {c} : Settle(c, "failed", TRUE)[e] = ctl[e]
<1>1. [Idle EXCEPT !.at = "settle", !.lease = ctl[c].lease, !.want = "failed",
                   !.handling = TRUE] \in Ctl
  BY IdleIsCtl DEF TypeOK, Ctl, Stages, TerminalStates
<1> QED
  BY <1>1, IdleIsCtl DEF TypeOK, Settle, Ctl

\* The except clause: fail_lease once, then out.
LEMMA Raising ==
  ASSUME TypeOK, NEW c \in Controllers, Knows(ctl[c])
  PROVE  /\ Raised(c) \in [Controllers -> Ctl]
         /\ \A e \in Controllers \ {c} : Raised(c)[e] = ctl[e]
         /\ ctl[c].handling => Raised(c)[c] = Idle
         /\ ~ctl[c].handling
              => /\ Raised(c)[c].at = "settle" /\ Raised(c)[c].handling
                 /\ Raised(c)[c].lease = ctl[c].lease
                 /\ Raised(c)[c].want = "failed"
<1>1. CASE ctl[c].handling
  BY <1>1, Returning DEF Raised
<1>2. CASE ~ctl[c].handling
  BY <1>2, Handling DEF Raised
<1> QED
  BY <1>1, <1>2

\* A process goes on to another stage.
LEMMA Advancing ==
  ASSUME TypeOK, NEW c \in Controllers, NEW at \in Stages
  PROVE  /\ [ctl EXCEPT ![c].at = at] \in [Controllers -> Ctl]
         /\ [ctl EXCEPT ![c].at = at][c] = [ctl[c] EXCEPT !.at = at]
         /\ [ctl EXCEPT ![c].at = at][c].at = at
         /\ [ctl EXCEPT ![c].at = at][c].lease = ctl[c].lease
         /\ [ctl EXCEPT ![c].at = at][c].want = ctl[c].want
         /\ [ctl EXCEPT ![c].at = at][c].handling = ctl[c].handling
         /\ \A e \in Controllers \ {c} : [ctl EXCEPT ![c].at = at][e] = ctl[e]
<1>1. ctl[c] \in Ctl /\ [ctl[c] EXCEPT !.at = at] \in Ctl
  BY DEF TypeOK, Ctl
<1> QED
  BY <1>1 DEF TypeOK, Ctl
-----------------------------------------------------------------------------
(* One lemma per step.                                                       *)

\* invoke begins: no lease yet, and no other process is touched.
LEMMA InvokePreserves ==
  ASSUME Inv, NEW c \in Controllers, NEW n \in WorkNodes,
         NEW w \in Workers, NEW d \in Digests, Invoke(c, n, w, d)
  PROVE  Inv'
<1>1. TypeOK /\ Knows(ctl[c])
  BY DEF Inv, OwnersKnow
<1>2. ctl' \in [Controllers -> Ctl]
  <2>1. ctl[c] \in Ctl /\ nodes[w].trusted \in BOOLEAN
    <3>1. nodes[w] \in [digest : Digests, trusted : BOOLEAN] \cup {Unregistered}
      BY <1>1 DEF TypeOK
    <3>2. nodes[w] \in [digest : Digests, trusted : BOOLEAN]
      BY <3>1 DEF Invoke
    <3> QED
      BY <1>1, <3>2 DEF TypeOK
  <2>2. [ctl[c] EXCEPT !.at = "found", !.work = n, !.node = w,
                       !.trusted = nodes[w].trusted, !.digest = d] \in Ctl
    BY <2>1 DEF Ctl, Stages
  <2> QED
    BY <1>1, <2>2 DEF Invoke, TypeOK
<1>3. TypeOK'
  BY <1>1, <1>2, Tables, ConstantsAssumption DEF Invoke, TypeOK
<1>4. Moves(c)
  BY <1>1, Tables DEF Invoke, Moves, Knows, Open, HasLease, TypeOK, Ctl
<1> QED
  BY <1>3, <1>4, MovesPreserve

\* node.lease_acquired is logged: no outcome among what is added.
LEMMA MakeWorkPackagePreserves ==
  ASSUME Inv, NEW c \in Controllers, make_work_package(c)
  PROVE  Inv'
<1>1. TypeOK /\ Knows(ctl[c])
  BY DEF Inv, OwnersKnow
<1>2. ctl' \in [Controllers -> Ctl]
  <2>1. ctl[c] \in Ctl /\ clock + TTL \in Nat
    BY <1>1, ConstantsAssumption DEF TypeOK
  <2>2. [ctl[c] EXCEPT !.at = "packaged", !.until = clock + TTL] \in Ctl
    BY <2>1 DEF Ctl, Stages
  <2> QED
    BY <1>1, <2>2 DEF make_work_package, TypeOK
<1>3. TypeOK'
  BY <1>1, <1>2, Tables, ConstantsAssumption DEF make_work_package, TypeOK, LeaseStates, TerminalStates, Knows, HasLease
<1>4. Moves(c)
  BY <1>1, Tables DEF make_work_package, Moves, TypeOK, Ctl, TerminalStates, Knows, Open, HasLease
<1> QED
  BY <1>3, <1>4, MovesPreserve

\* The append before the try block fails: the lease is orphaned.
LEMMA AcquireNotLoggedPreserves ==
  ASSUME Inv, NEW c \in Controllers, AcquireNotLogged(c)
  PROVE  Inv'
<1>1. TypeOK /\ Knows(ctl[c])
  BY DEF Inv, OwnersKnow
<1>2. ctl' \in [Controllers -> Ctl]
  BY <1>1, Returning DEF AcquireNotLogged
<1>3. TypeOK'
  BY <1>1, <1>2, Tables, ConstantsAssumption DEF AcquireNotLogged, TypeOK, Knows, HasLease
<1>4. Moves(c)
  BY <1>1, Tables, Returning, IdleIsCtl DEF AcquireNotLogged, Moves, Knows, Open, HasLease
<1> QED
  BY <1>3, <1>4, MovesPreserve

\* The package arrives, or the exchange raises into the except clause.
LEMMA ExecuteRemotePackagePreserves ==
  ASSUME Inv, NEW c \in Controllers, execute_remote_package(c)
  PROVE  Inv'
<1>1. TypeOK /\ Knows(ctl[c])
  BY DEF Inv, OwnersKnow
<1>2. /\ ctl' \in [Controllers -> Ctl] /\ ctl'[c].lease = ctl[c].lease
      /\ \A e \in Controllers \ {c} : ctl'[e] = ctl[e]
      /\ \/ ctl'[c].at = "waiting" /\ ~ctl'[c].handling
         \/ /\ ctl'[c].at = "settle" /\ ctl'[c].handling
            /\ ctl'[c].want = "failed"
  <2>1. ~ctl[c].handling
    BY <1>1 DEF execute_remote_package, Knows
  <2>2. CASE ctl' = [ctl EXCEPT ![c].at = "waiting"]
    BY ZenonT(60), <1>1, <2>1, <2>2, Advancing DEF Stages
  <2>3. CASE ctl' = Raised(c)
    BY <1>1, <2>1, <2>3, Raising
  <2> QED
    BY <2>2, <2>3 DEF execute_remote_package
<1>3. TypeOK'
  BY <1>1, <1>2 DEF execute_remote_package, TypeOK
<1>4. Moves(c)
  BY <1>1, <1>2, Tables DEF execute_remote_package, Moves, TerminalStates, Knows, Open, HasLease
<1> QED
  BY <1>3, <1>4, MovesPreserve

\* A receipt: completed is asked for only when the job reported success.
LEMMA ParseReceiptPreserves ==
  ASSUME Inv, NEW c \in Controllers, _parse_receipt(c)
  PROVE  Inv'
<1>1. TypeOK /\ Knows(ctl[c])
  BY DEF Inv, OwnersKnow
<1>5. /\ ctl' \in [Controllers -> Ctl] /\ ctl'[c].at = "settle"
      /\ \A e \in Controllers \ {c} : ctl'[e] = ctl[e]
      /\ ctl'[c].lease = ctl[c].lease
      /\ \/ ctl'[c].handling /\ ctl'[c].want = "failed"
         \/ /\ ~ctl'[c].handling
            /\ ctl'[c].want = "completed" => jobs[ctl[c].lease] = "ok"
  <2>1. ~ctl[c].handling
    BY <1>1 DEF _parse_receipt, Knows
  <2>2. /\ Verdict(jobs[ctl[c].lease]) \in TerminalStates
        /\ Verdict(jobs[ctl[c].lease]) = "completed" => jobs[ctl[c].lease] = "ok"
    BY DEF Verdict, TerminalStates
  <2>3. CASE jobs[ctl[c].lease] = "refused"
    BY <1>1, <2>1, <2>3, Raising DEF _parse_receipt
  <2>4. CASE jobs[ctl[c].lease] # "refused"
    <3>1. ctl' = Settle(c, Verdict(jobs[ctl[c].lease]), FALSE)
      BY <2>4 DEF _parse_receipt
    <3> QED
      BY SMTT(30), ZenonT(30), <1>1, <2>2, <3>1, Settling
  <2> QED
    BY <2>3, <2>4
<1>2. ctl' \in [Controllers -> Ctl]
  BY <1>5
<1>3. TypeOK'
  BY <1>1, <1>2, Tables, ConstantsAssumption DEF _parse_receipt, TypeOK
<1>4. Moves(c)
  BY <1>1, <1>5, Tables DEF _parse_receipt, Moves, TypeOK, Ctl, TerminalStates, Knows, Open, HasLease
<1> QED
  BY <1>3, <1>4, MovesPreserve

\* The connection ends: the job is cut off from its controller.
LEMMA ConnectionLostPreserves ==
  ASSUME Inv, NEW c \in Controllers, ConnectionLost(c)
  PROVE  Inv'
<1>1. TypeOK /\ Knows(ctl[c])
  BY DEF Inv, OwnersKnow
<1>2. ctl' \in [Controllers -> Ctl]
  BY <1>1, Raising DEF ConnectionLost
<1>3. TypeOK'
  BY SMTT(30), ZenonT(30), <1>1, <1>2, Tables, ConstantsAssumption DEF ConnectionLost, TypeOK, Knows, HasLease
<1>4. Moves(c)
  BY <1>1, Tables, Raising DEF ConnectionLost, Moves, TerminalStates, Knows, Open, HasLease
<1> QED
  BY <1>3, <1>4, MovesPreserve

\* _terminal_lease reads the row: done, active, or an error.
LEMMA TerminalLeasePreserves ==
  ASSUME Inv, NEW c \in Controllers, _terminal_lease(c)
  PROVE  Inv'
<1>1. TypeOK /\ Knows(ctl[c])
  BY DEF Inv, OwnersKnow
<1> DEFINE s == leases[ctl[c].lease].state
<1>2. ctl[c].lease \in 1..Len(leases) /\ ctl[c].at = "settle"
  BY <1>1 DEF _terminal_lease, Knows, HasLease
<1>3. CASE s = ctl[c].want
  <2>1. ctl' = Return(c) /\ ctl[c].want \in TerminalStates
    BY <1>1, <1>3 DEF _terminal_lease, TypeOK, Ctl
  <2>2. TypeOK'
    BY <1>1, <2>1, Returning DEF _terminal_lease, TypeOK
  <2>3. Moves(c)
    BY <1>1, <1>2, <1>3, <2>1, Returning, IdleIsCtl DEF _terminal_lease, Moves, TerminalStates, Knows, Open, HasLease
  <2> QED
    BY <2>2, <2>3, MovesPreserve
<1>4. CASE s # ctl[c].want /\ s = "active"
  <2>1. ctl' = [ctl EXCEPT ![c].at = "update"] /\ "update" \in Stages
    BY <1>4 DEF _terminal_lease, Endable, Stages
  <2>4. /\ ctl' \in [Controllers -> Ctl] /\ ctl'[c].at = "update"
        /\ ctl'[c].lease = ctl[c].lease /\ ctl'[c].want = ctl[c].want
        /\ \A e \in Controllers \ {c} : ctl'[e] = ctl[e]
    BY <1>1, <2>1, Advancing
  <2>2. TypeOK'
    BY <1>1, <2>4 DEF _terminal_lease, TypeOK
  <2>3. Moves(c)
    BY <1>1, <1>2, <1>4, <2>4 DEF _terminal_lease, Moves, TerminalStates, Knows, Open, HasLease
  <2> QED
    BY <2>2, <2>3, MovesPreserve
<1>5. CASE s # ctl[c].want /\ s # "active"
  <2>1. ctl' = Raised(c)
    BY <1>5 DEF _terminal_lease, Endable
  <2>2. TypeOK'
    BY <1>1, <2>1, Raising DEF _terminal_lease, TypeOK
  <2>3. Moves(c)
    BY ZenonT(60), <1>1, <1>2, <1>5, <2>1, Raising, IdleIsCtl DEF _terminal_lease, Moves, TerminalStates, Knows, Open, HasLease
  <2> QED
    BY <2>2, <2>3, MovesPreserve
<1> QED
  BY <1>3, <1>4, <1>5

\* The outcome is logged as the row has it.
LEMMA EmitOutcomePreserves ==
  ASSUME Inv, NEW c \in Controllers, EmitOutcome(c)
  PROVE  Inv'
<1>1. TypeOK /\ Knows(ctl[c])
  BY DEF Inv, OwnersKnow
<1>2. ctl' \in [Controllers -> Ctl]
  BY <1>1, Returning DEF EmitOutcome
<1>3. TypeOK'
  BY <1>1, <1>2, Tables, ConstantsAssumption DEF EmitOutcome, TypeOK, LoggedState, Knows, HasLease
<1>4. Moves(c)
  BY <1>1, Tables, Returning, IdleIsCtl DEF EmitOutcome, LoggedState, Moves, TypeOK, Ctl, TerminalStates, Knows, Open, HasLease
<1> QED
  BY <1>3, <1>4, MovesPreserve

\* The append of the outcome fails: what has ended stays unlogged.
LEMMA OutcomeNotLoggedPreserves ==
  ASSUME Inv, NEW c \in Controllers, OutcomeNotLogged(c)
  PROVE  Inv'
<1>1. TypeOK /\ Knows(ctl[c])
  BY DEF Inv, OwnersKnow
<1>2. ctl' \in [Controllers -> Ctl]
  BY <1>1, Raising DEF OutcomeNotLogged
<1>3. TypeOK'
  BY <1>1, <1>2, Tables, ConstantsAssumption DEF OutcomeNotLogged, TypeOK, Knows, HasLease
<1>4. Moves(c)
  BY ZenonT(60), <1>1, Tables, Raising, IdleIsCtl DEF OutcomeNotLogged, Moves, TypeOK, Ctl, TerminalStates, Knows, Open, HasLease
<1> QED
  BY <1>3, <1>4, MovesPreserve

\* A controller is killed wherever it is.
LEMMA CrashPreserves ==
  ASSUME Inv, NEW c \in Controllers, Crash(c)
  PROVE  Inv'
<1>1. TypeOK /\ Knows(ctl[c])
  BY DEF Inv, OwnersKnow
<1>2. ctl' \in [Controllers -> Ctl]
  BY <1>1, Returning DEF Crash
<1>3. TypeOK'
  BY SMTT(30), ZenonT(30), <1>1, <1>2, Tables, ConstantsAssumption DEF Crash, TypeOK, Knows, HasLease, Holds
<1>4. Moves(c)
  BY <1>1, Tables, Returning, IdleIsCtl, Holding DEF Crash, Moves, Knows, Open, HasLease
<1> QED
  BY <1>3, <1>4, MovesPreserve

\* The registry and the clock.
LEMMA EnvironmentPreserves ==
  ASSUME Inv, TypeOK', clock <= clock',
         UNCHANGED <<leases, jobs, logged, ctl, cut, orphaned, unlogged>>
  PROVE  Inv'
<1>1. OwnersKnow' /\ OneOwner' /\ RunningWatched'
  BY DEF Inv, OwnersKnow, Knows, Open, HasLease, OneOwner, RunningWatched
<1>2. LeasesOrdered'
  <2>1. \A l \in 1..Len(leases) : leases[l].expires \in Nat
    BY Tables DEF Inv
  <2>2. clock \in Nat /\ clock' \in Nat
    BY ConstantsAssumption DEF Inv, TypeOK
  <2> QED
    BY <2>1, <2>2 DEF Inv, LeasesOrdered
<1>3. CompletedWasExecuted' /\ NoLeakedLease' /\ LoggedOutcomeIsTrue'
  BY DEF Inv, CompletedWasExecuted, NoLeakedLease, LoggedOutcomeIsTrue, Holds
<1> QED
  BY <1>1, <1>2, <1>3 DEF Inv

\* A registration leaves leases and processes alone.
LEMMA RegisterCandidatePreserves ==
  ASSUME Inv, NEW w \in Workers, NEW d \in Digests, register_candidate(w, d)
  PROVE  Inv'
<1>1. TypeOK' /\ clock <= clock'
  BY ConstantsAssumption DEF Inv, TypeOK, register_candidate
<1> QED
  BY <1>1, EnvironmentPreserves DEF register_candidate

\* So does a change of trust.
LEMMA TrustNodePreserves ==
  ASSUME Inv, NEW w \in Workers, NEW t \in BOOLEAN, trust_node(w, t)
  PROVE  Inv'
<1>1. nodes[w] \in [digest : Digests, trusted : BOOLEAN]
  BY DEF Inv, TypeOK, trust_node
<1>2. [nodes[w] EXCEPT !.trusted = t] \in [digest : Digests, trusted : BOOLEAN]
  BY <1>1
<1>3. nodes' \in [Workers -> [digest : Digests, trusted : BOOLEAN]
                              \cup {Unregistered}]
  BY <1>2 DEF Inv, TypeOK, trust_node
<1>4. TypeOK' /\ clock <= clock'
  BY <1>3, ConstantsAssumption DEF Inv, TypeOK, trust_node
<1> QED
  BY <1>4, EnvironmentPreserves DEF trust_node

\* So does time: what had expired stays expired.
LEMMA TickPreserves ==
  ASSUME Inv, Tick
  PROVE  Inv'
<1>1. TypeOK' /\ clock <= clock'
  BY ConstantsAssumption DEF Inv, TypeOK, Tick
<1> QED
  BY <1>1, EnvironmentPreserves DEF Tick

\* A job that has not succeeded changes its state; when it starts to run,
\* somebody waits for it.
LEMMA JobPreserves ==
  ASSUME Inv, NEW l \in 1..Len(leases), NEW v \in Job, jobs[l] # "ok",
         jobs' = [jobs EXCEPT ![l] = v],
         v = "running" => \E c \in Controllers :
                            ctl[c].at = "waiting" /\ ctl[c].lease = l,
         UNCHANGED <<nodes, leases, logged, ctl, clock, faults, cut, orphaned,
                     unlogged>>
  PROVE  Inv'
<1>1. TypeOK
  BY DEF Inv
<1>2. /\ jobs' \in Seq(Job) /\ Len(jobs') = Len(jobs)
      /\ \A m \in 1..Len(leases) : jobs'[m] = IF m = l THEN v ELSE jobs[m]
  BY <1>1, Tables, ExceptSeq DEF TypeOK
<1>3. TypeOK'
  BY <1>1, <1>2 DEF TypeOK
<1>4. OwnersKnow'
  BY <1>1, <1>2, Tables DEF Inv, OwnersKnow, Knows, Open, HasLease
<1>5. RunningWatched'
  BY <1>2 DEF Inv, RunningWatched
<1>6. CompletedWasExecuted'
  BY <1>1, <1>2, Tables DEF Inv, CompletedWasExecuted
<1>7. OneOwner' /\ LeasesOrdered' /\ NoLeakedLease' /\ LoggedOutcomeIsTrue'
  BY DEF Inv, OneOwner, HasLease, LeasesOrdered, NoLeakedLease, Holds,
         LoggedOutcomeIsTrue
<1> QED
  BY <1>3, <1>4, <1>5, <1>6, <1>7 DEF Inv

\* The worker starts or refuses a package whose controller waits.
LEMMA WorkerRunPackagePreserves ==
  ASSUME Inv, NEW c \in Controllers, worker_run_package(c)
  PROVE  Inv'
<1>1. ctl[c].lease \in 1..Len(leases)
  BY DEF Inv, OwnersKnow, Knows, HasLease, worker_run_package
<1>2. PICK v \in {"running", "refused"} : jobs' = [jobs EXCEPT ![ctl[c].lease] = v]
  BY DEF worker_run_package
<1>3. v \in Job
  BY DEF Job
<1> QED
  BY <1>1, <1>2, <1>3, JobPreserves DEF worker_run_package

\* The executor of the worker ends, with or without success.
LEMMA ExecutionReceiptPreserves ==
  ASSUME Inv, NEW l \in DOMAIN jobs, ExecutionReceipt(l)
  PROVE  Inv'
<1>1. l \in 1..Len(leases)
  BY Tables DEF Inv
<1>2. PICK v \in {"ok", "failed"} : jobs' = [jobs EXCEPT ![l] = v]
  BY DEF ExecutionReceipt
<1>3. v \in Job
  BY DEF Job
<1> QED
  BY <1>1, <1>2, <1>3, JobPreserves DEF ExecutionReceipt
-----------------------------------------------------------------------------
(* Steps that change the leases.                                             *)

\* The UPDATE of _terminal_lease: process c ends its own lease, which nobody
\* has ended before.
LEMMA UpdateLeasePreserves ==
  ASSUME Inv, NEW c \in Controllers, UpdateLease(c)
  PROVE  Inv'
<1> DEFINE k == ctl[c].lease
<1>1. /\ TypeOK /\ Knows(ctl[c]) /\ k \in 1..Len(leases)
      /\ ctl[c].want \in TerminalStates /\ ctl[c].at = "update"
      /\ leases[k].state \notin TerminalStates
  BY DEF Inv, OwnersKnow, Knows, HasLease, Open, UpdateLease, TypeOK, Ctl
<1>2. /\ leases' \in Seq(Lease) /\ Len(leases') = Len(leases)
      /\ \A l \in 1..Len(leases) \ {k} : leases'[l] = leases[l]
      /\ leases'[k].state = ctl[c].want /\ leases'[k].work = leases[k].work
      /\ leases'[k].expires = leases[k].expires
  <2>1. leases[k] \in Lease /\ ctl[c].want \in LeaseStates
    BY <1>1, Tables DEF LeaseStates
  <2>2. [leases[k] EXCEPT !.state = ctl[c].want] \in Lease
    BY <2>1 DEF Lease
  <2>3. leases' = [leases EXCEPT ![k] = [leases[k] EXCEPT !.state = ctl[c].want]]
    BY DEF UpdateLease
  <2>4. /\ leases' \in Seq(Lease) /\ Len(leases') = Len(leases)
        /\ \A l \in 1..Len(leases) \ {k} : leases'[l] = leases[l]
        /\ leases'[k] = [leases[k] EXCEPT !.state = ctl[c].want]
    <3> DEFINE new == [leases[k] EXCEPT !.state = ctl[c].want]
    <3>1. leases \in Seq(Lease) /\ k \in 1..Len(leases) /\ new \in Lease
          /\ leases' = [leases EXCEPT ![k] = new]
      BY <1>1, <2>2, <2>3 DEF TypeOK
    <3> HIDE DEF new, k
    <3>2. /\ leases' \in Seq(Lease) /\ Len(leases') = Len(leases)
          /\ \A l \in 1..Len(leases) : leases'[l] = IF l = k THEN new ELSE leases[l]
      BY <3>1, ExceptSeq
    <3> QED
      BY <3>1, <3>2 DEF new, k
  <2> QED
    BY <2>1, <2>4 DEF Lease
<1>3. /\ ctl' \in [Controllers -> Ctl] /\ ctl'[c].at = "settled"
      /\ ctl'[c].lease = k /\ ctl'[c].want = ctl[c].want
      /\ \A e \in Controllers \ {c} : ctl'[e] = ctl[e]
  <2>1. ctl' = [ctl EXCEPT ![c].at = "settled"] /\ "settled" \in Stages
    BY DEF UpdateLease, Stages
  <2> QED
    BY <1>1, <2>1, Advancing
<1>4. TypeOK'
  BY <1>1, <1>2, <1>3 DEF UpdateLease, TypeOK
<1>5. OwnersKnow'
  <2> SUFFICES ASSUME NEW e \in Controllers PROVE Knows(ctl[e])'
    BY DEF OwnersKnow
  <2>1. CASE e = c
    BY <1>1, <1>2, <1>3, <2>1 DEF Knows, Open, HasLease
  <2>2. CASE e # c
    <3>1. Knows(ctl[e]) /\ ctl'[e] = ctl[e] /\ (HasLease(ctl[e]) => ctl[e].lease # k)
      BY <1>1, <1>3, <2>2 DEF Inv, OwnersKnow, OneOwner, HasLease
    <3> QED
      BY SMTT(30), ZenonT(30), <1>2, <3>1 DEF UpdateLease, Knows, Open, HasLease
  <2> QED
    BY <2>1, <2>2
<1>6. OneOwner'
  BY <1>1, <1>3 DEF Inv, OneOwner, HasLease
<1>7. RunningWatched'
  BY <1>1, <1>2, <1>3 DEF Inv, RunningWatched, UpdateLease
<1>8. LeasesOrdered'
  BY <1>1, <1>2 DEF Inv, LeasesOrdered, UpdateLease, TerminalStates
<1>9. CompletedWasExecuted'
  BY <1>1, <1>2, <1>4, Tables DEF Inv, CompletedWasExecuted, UpdateLease, Knows
<1>10. NoLeakedLease'
  <2> SUFFICES ASSUME NEW l \in 1..Len(leases), leases'[l].state = "active",
                      l \notin orphaned'
               PROVE  \E e \in Controllers : ctl'[e].lease = l /\ HasLease(ctl'[e])
    BY <1>2, <1>4, LenProperties DEF NoLeakedLease, HasLease, Holds, TypeOK
  <2>1. l # k /\ leases[l].state = "active"
    BY <1>1, <1>2 DEF TerminalStates
  <2>2. PICK e \in Controllers : ctl[e].lease = l /\ HasLease(ctl[e])
    BY <1>1, <2>1, Tables, Holding DEF Inv, NoLeakedLease, UpdateLease
  <2> QED
    BY <1>3, <2>1, <2>2
<1>11. LoggedOutcomeIsTrue'
  <2> SUFFICES ASSUME NEW l \in 1..Len(leases)
               PROVE  /\ \A s \in TerminalStates :
                           <<l, s>> \in logged' => leases'[l].state = s
                      /\ leases'[l].state \in TerminalStates
                           => \/ <<l, leases'[l].state>> \in logged'
                              \/ l \in unlogged'
                              \/ \E e \in Controllers :
                                   ctl'[e].lease = l /\ ctl'[e].at = "settled"
    <3>1. DOMAIN leases' = 1..Len(leases)
      BY <1>2, LenProperties
    <3> QED
      BY <3>1 DEF LoggedOutcomeIsTrue
  <2>1. CASE l = k
    BY <1>1, <1>2, <1>3, <2>1, Tables DEF Inv, LoggedOutcomeIsTrue, UpdateLease
  <2>2. CASE l # k
    <3>1. leases'[l] = leases[l] /\ logged' = logged /\ unlogged' = unlogged
      BY <1>2, <2>2 DEF UpdateLease
    <3>2. \A e \in Controllers : ctl[e].lease = l /\ ctl[e].at = "settled" => e # c
      BY <1>1, <2>2
    <3> QED
      BY SMTT(30), ZenonT(30), <1>1, <1>3, <3>1, <3>2, Tables DEF Inv, LoggedOutcomeIsTrue
  <2> QED
    BY <2>1, <2>2
<1> QED
  BY <1>4, <1>5, <1>6, <1>7, <1>8, <1>9, <1>10, <1>11 DEF Inv

\* expire_active_leases: only active leases change, to "expired", and only
\* those whose time has come.
LEMMA ExpireActiveLeasesPreserves ==
  ASSUME Inv, NEW c \in Controllers, expire_active_leases(c)
  PROVE  Inv'
<1>1. TypeOK /\ Knows(ctl[c]) /\ ctl[c].at = "found" /\ ~ctl[c].handling
  BY DEF Inv, OwnersKnow, Knows, expire_active_leases
<1>2. CASE ~nodes[ctl[c].node].trusted
  <2>1. ctl' = Return(c) /\ leases' = leases
    BY <1>2 DEF expire_active_leases
  <2>2. TypeOK'
    BY <1>1, <2>1, Returning DEF expire_active_leases, TypeOK
  <2>3. Moves(c)
    BY <1>1, <2>1, Returning, IdleIsCtl
    DEF expire_active_leases, Moves, TerminalStates, Knows, Open, HasLease
  <2> QED
    BY <2>2, <2>3, MovesPreserve
<1>3. CASE nodes[ctl[c].node].trusted
  <2>1. /\ Len(leases') = Len(leases) /\ leases' \in Seq(Lease)
        /\ \A l \in 1..Len(leases) :
             /\ leases'[l].work = leases[l].work
             /\ leases'[l].expires = leases[l].expires
             /\ \/ leases'[l] = leases[l]
                \/ /\ leases[l].state = "active" /\ leases'[l].state = "expired"
                   /\ leases[l].expires <= clock
    <3>1. leases' = [l \in 1..Len(leases) |->
                       IF RunOut(leases[l], clock)
                       THEN [leases[l] EXCEPT !.state = "expired"]
                       ELSE leases[l]]
      BY <1>1, <1>3, Tables DEF expire_active_leases
    <3>2. \A l \in 1..Len(leases) :
            /\ [leases[l] EXCEPT !.state = "expired"] \in Lease
            /\ [leases[l] EXCEPT !.state = "expired"].work = leases[l].work
            /\ [leases[l] EXCEPT !.state = "expired"].expires = leases[l].expires
            /\ [leases[l] EXCEPT !.state = "expired"].state = "expired"
      BY <1>1, Tables DEF Lease, LeaseStates
    <3>3. \A l \in 1..Len(leases) : leases'[l] \in Lease
      BY <1>1, <3>1, <3>2, Tables
    <3>4. leases' \in [1..Len(leases) -> Lease] /\ Len(leases) \in Nat
      BY <1>1, <3>1, <3>3, Tables
    <3>5. leases' \in Seq(Lease)
      BY <3>4, SeqDef
    <3>6. Len(leases') = Len(leases)
      BY <3>1, <3>4, <3>5, LenProperties
    <3> QED
      BY <3>1, <3>2, <3>5, <3>6 DEF RunOut
  <2>2. /\ ctl' \in [Controllers -> Ctl] /\ ctl'[c].at = "swept"
        /\ ctl'[c].handling = ctl[c].handling
        /\ \A e \in Controllers \ {c} : ctl'[e] = ctl[e]
    <3>1. ctl[c] \in Ctl /\ clock \in Nat
      BY <1>1, ConstantsAssumption DEF TypeOK
    <3>2. [ctl[c] EXCEPT !.at = "swept", !.now = clock] \in Ctl
      BY <3>1 DEF Ctl, Stages
    <3> QED
      BY ZenonT(60), <1>1, <1>3, <3>1, <3>2 DEF expire_active_leases, TypeOK, Ctl
  <2>3. TypeOK'
    BY <1>1, <2>1, <2>2 DEF expire_active_leases, TypeOK
  <2>4. \A l \in 1..Len(leases) :
          \/ leases'[l] = leases[l]
          \/ leases[l].state = "active" /\ leases'[l].state = "expired"
    BY <2>1
  <2>5. OwnersKnow'
    <3> SUFFICES ASSUME NEW e \in Controllers PROVE Knows(ctl[e])'
      BY DEF OwnersKnow
    <3>1. CASE e = c
      BY <1>1, <2>2, <3>1 DEF Knows, Open, HasLease
    <3>2. CASE e # c
      <4>1. Knows(ctl[e]) /\ ctl'[e] = ctl[e]
        BY <2>2, <3>2 DEF Inv, OwnersKnow
      <4>2. HasLease(ctl[e])
              => \/ leases'[ctl[e].lease].state = leases[ctl[e].lease].state
                 \/ /\ leases[ctl[e].lease].state = "active"
                    /\ leases'[ctl[e].lease].state = "expired"
        BY <2>4, <4>1 DEF Knows
      <4>3. jobs' = jobs /\ unlogged' = unlogged
        BY DEF expire_active_leases
      <4>4. ctl[e] \in Ctl
        BY <1>1 DEF TypeOK
      <4>5. ctl[e].want \in {"completed", "failed"}
        BY <4>4 DEF Ctl, TerminalStates
      <4> QED
        BY <2>1, <4>1, <4>2, <4>3, <4>5 DEF Knows, Open, HasLease, TerminalStates
    <3> QED
      BY <3>1, <3>2
  <2>6. OneOwner' /\ RunningWatched'
    BY <1>1, <2>1, <2>2
    DEF Inv, OneOwner, RunningWatched, HasLease, expire_active_leases
  <2>7. LeasesOrdered'
    BY <2>1 DEF Inv, LeasesOrdered, expire_active_leases
  <2>8. CompletedWasExecuted'
    BY <1>1, <2>1, <2>3, <2>4, Tables
    DEF Inv, CompletedWasExecuted, expire_active_leases
  <2>9. DOMAIN leases' = 1..Len(leases)
    BY <2>1, LenProperties
  <2>10. NoLeakedLease'
    <3> SUFFICES ASSUME NEW l \in 1..Len(leases), leases'[l].state = "active",
                        l \notin orphaned'
                 PROVE  \E e \in Controllers :
                          ctl'[e].lease = l /\ HasLease(ctl'[e])
      BY <2>9 DEF NoLeakedLease, HasLease, Holds
    <3>1. leases[l].state = "active" /\ l \notin orphaned
      BY <2>4 DEF expire_active_leases
    <3>2. PICK e \in Controllers : ctl[e].lease = l /\ HasLease(ctl[e])
      BY <1>1, <3>1, Tables, Holding DEF Inv, NoLeakedLease
    <3> QED
      BY <1>1, <2>2, <3>2 DEF HasLease
  <2>11. LoggedOutcomeIsTrue'
    <3> SUFFICES ASSUME NEW l \in 1..Len(leases)
                 PROVE  /\ \A s \in TerminalStates :
                             <<l, s>> \in logged => leases'[l].state = s
                        /\ leases'[l].state \in TerminalStates
                             => \/ <<l, leases'[l].state>> \in logged
                                \/ l \in unlogged
                                \/ \E e \in Controllers :
                                     ctl'[e].lease = l /\ ctl'[e].at = "settled"
      BY <2>9 DEF LoggedOutcomeIsTrue, expire_active_leases
    <3>1. /\ \A s \in TerminalStates : <<l, s>> \in logged => leases[l].state = s
          /\ leases[l].state \in TerminalStates
               => \/ <<l, leases[l].state>> \in logged \/ l \in unlogged
                  \/ \E e \in Controllers :
                       ctl[e].lease = l /\ ctl[e].at = "settled"
      BY <1>1, Tables DEF Inv, LoggedOutcomeIsTrue
    <3>2. \A e \in Controllers : ctl[e].at = "settled" => ctl'[e] = ctl[e]
      BY <1>1, <2>2
    <3> QED
      BY <2>4, <3>1, <3>2 DEF TerminalStates
  <2> QED
    BY <2>3, <2>5, <2>6, <2>7, <2>8, <2>10, <2>11 DEF Inv
<1> QED
  BY <1>2, <1>3

\* acquire_lease: the new lease is the only active one of its work node and
\* belongs to the process that stored it.
LEMMA AcquireLeasePreserves ==
  ASSUME Inv, NEW c \in Controllers, acquire_lease(c)
  PROVE  Inv'
<1>1. TypeOK /\ Knows(ctl[c]) /\ ctl[c].at = "swept" /\ ~ctl[c].handling
  BY DEF Inv, OwnersKnow, Knows, acquire_lease
<1>2. CASE Clashes(ctl[c].work)
  <2>1. ctl' = Return(c) /\ leases' = leases /\ jobs' = jobs
    BY <1>2 DEF acquire_lease
  <2>2. TypeOK'
    BY <1>1, <2>1, Returning DEF acquire_lease, TypeOK
  <2>3. Moves(c)
    BY <1>1, <2>1, Returning, IdleIsCtl
    DEF acquire_lease, Moves, TerminalStates, Knows, Open, HasLease
  <2> QED
    BY <2>2, <2>3, MovesPreserve
<1>3. CASE ~Clashes(ctl[c].work)
  <2> DEFINE k == Len(leases) + 1
  <2>1. /\ Len(leases') = k /\ leases' \in Seq(Lease) /\ k <= MaxLeases
        /\ Len(leases) \in Nat
        /\ \A l \in 1..Len(leases) : leases'[l] = leases[l]
        /\ leases'[k].state = "active" /\ leases'[k].work = ctl[c].work
    <3>1. ctl[c].work \in WorkNodes /\ ctl[c].node \in Workers
      BY <1>1 DEF TypeOK, Ctl
    <3>2. clock + TTL \in Nat
      BY <1>1, ConstantsAssumption DEF TypeOK
    <3> DEFINE e == [work |-> ctl[c].work, node |-> ctl[c].node,
                     state |-> "active", expires |-> clock + TTL]
    <3>3. e \in Lease /\ e.state = "active" /\ e.work = ctl[c].work
      BY <3>1, <3>2 DEF Lease, LeaseStates
    <3>4. leases' = Append(leases, e) /\ Len(leases) < MaxLeases
      BY <1>3 DEF acquire_lease
    <3> HIDE DEF e
    <3>5. leases \in Seq(Lease) /\ MaxLeases \in Nat
      BY <1>1, ConstantsAssumption DEF TypeOK
    <3>6. Len(leases) \in Nat
      BY <3>5, LenProperties
    <3> QED
      BY <3>3, <3>4, <3>5, <3>6, AppendProperties
  <2>2. /\ Len(jobs') = k /\ jobs' \in Seq(Job)
        /\ \A l \in 1..Len(leases) : jobs'[l] = jobs[l]
        /\ jobs'[k] = "inbox"
    <3>1. jobs' = Append(jobs, "inbox") /\ "inbox" \in Job
      BY <1>3 DEF acquire_lease, Job
    <3>2. jobs \in Seq(Job) /\ Len(jobs) = Len(leases)
      BY <1>1 DEF TypeOK
    <3> QED
      BY <3>1, <3>2, AppendProperties
  <2>3. /\ ctl' \in [Controllers -> Ctl] /\ ctl'[c].at = "leased"
        /\ ctl'[c].handling = ctl[c].handling /\ ctl'[c].lease = k
        /\ \A e \in Controllers \ {c} : ctl'[e] = ctl[e]
    <3>1. ctl[c] \in Ctl /\ k \in Nat
      BY <1>1, <2>1 DEF TypeOK
    <3>2. [ctl[c] EXCEPT !.at = "leased", !.now = 0, !.lease = k] \in Ctl
      BY <3>1 DEF Ctl, Stages
    <3>3. ctl' = [ctl EXCEPT ![c] = [ctl[c] EXCEPT !.at = "leased", !.now = 0,
                                                   !.lease = k]]
      BY <1>1, <1>3 DEF acquire_lease, TypeOK
    <3>4. ctl' \in [Controllers -> Ctl]
      BY <1>1, <3>2, <3>3 DEF TypeOK
    <3> QED
      BY <1>1, <3>1, <3>3, <3>4 DEF TypeOK, Ctl
  <2>4. TypeOK'
    <3>1. logged' = logged /\ clock' = clock /\ faults' = faults
          /\ cut' = cut /\ orphaned' = orphaned /\ unlogged' = unlogged
          /\ nodes' = nodes
      BY DEF acquire_lease
    <3>2. 1..Len(leases) \subseteq 1..k
      BY <2>1
    <3>3. logged' \subseteq (1..k) \X LeaseStates
      BY <1>1, <3>1, <3>2 DEF TypeOK
    <3>4. cut \cup orphaned \cup unlogged \subseteq 1..k
      BY <1>1, <3>2 DEF TypeOK
    <3> QED
      BY <1>1, <2>1, <2>2, <2>3, <3>1, <3>3, <3>4 DEF TypeOK
  <2>5. \A e \in Controllers \ {c} :
          HasLease(ctl[e]) => ctl[e].lease \in 1..Len(leases)
    BY DEF Inv, OwnersKnow, Knows
  <2>6. OwnersKnow'
    <3> SUFFICES ASSUME NEW e \in Controllers PROVE Knows(ctl[e])'
      BY DEF OwnersKnow
    <3>1. CASE e = c
      BY <1>1, <2>1, <2>3, <3>1 DEF Knows, Open, HasLease, TerminalStates
    <3>2. CASE e # c
      <4>1. Knows(ctl[e]) /\ ctl'[e] = ctl[e]
        BY <2>3, <3>2 DEF Inv, OwnersKnow
      <4> QED
        BY <2>1, <2>2, <4>1
        DEF acquire_lease, Knows, Open, HasLease
    <3> QED
      BY <3>1, <3>2
  <2>7. OneOwner'
    BY <1>1, <2>1, <2>3, <2>5 DEF Inv, OneOwner
  <2>8. \A l \in 1..k : l \in 1..Len(leases) \/ l = k
    BY <2>1
  <2>9. RunningWatched'
    <3> SUFFICES ASSUME NEW l \in 1..k, jobs'[l] = "running", l \notin cut
                 PROVE  \E e \in Controllers :
                          ctl'[e].at = "waiting" /\ ctl'[e].lease = l
      BY <2>1 DEF RunningWatched, acquire_lease
    <3>1. l \in 1..Len(leases) /\ jobs[l] = "running"
      BY <2>2, <2>8
    <3>2. PICK e \in Controllers : ctl[e].at = "waiting" /\ ctl[e].lease = l
      BY <3>1 DEF Inv, RunningWatched
    <3> QED
      BY <1>1, <2>3, <3>2
  <2>10. LeasesOrdered'
    <3>1. \A l \in 1..k : leases'[l].state = "expired" => leases'[l].expires <= clock
      BY <2>1, <2>8 DEF Inv, LeasesOrdered
    <3>2. ASSUME NEW l \in 1..k, NEW m \in 1..k, l < m,
                 leases'[l].work = leases'[m].work
          PROVE  leases'[l].state # "active"
      <4>1. l \in 1..Len(leases) /\ leases'[l] = leases[l]
        BY <2>1, <3>2
      <4>2. CASE m = k
        BY <1>1, <1>3, <2>1, <3>2, <4>1, <4>2, Tables DEF Clashes
      <4>3. CASE m # k
        <5>1. m \in 1..Len(leases) /\ leases'[m] = leases[m]
          BY <2>1, <2>8, <4>3
        <5> QED
          BY <3>2, <4>1, <5>1 DEF Inv, LeasesOrdered
      <4> QED
        BY <4>2, <4>3
    <3>3. clock' = clock
      BY DEF acquire_lease
    <3> QED
      BY <2>1, <3>1, <3>2, <3>3 DEF LeasesOrdered
  <2>11. DOMAIN leases' = 1..k
    BY <2>1, LenProperties
  <2>12. CompletedWasExecuted'
    BY <1>1, <2>1, <2>2, <2>8, <2>11, Tables DEF Inv, CompletedWasExecuted
  <2>13. NoLeakedLease'
    <3> SUFFICES ASSUME NEW l \in 1..k, leases'[l].state = "active",
                        l \notin orphaned
                 PROVE  \E e \in Controllers :
                          ctl'[e].lease = l /\ HasLease(ctl'[e])
      BY <2>11 DEF NoLeakedLease, HasLease, Holds, acquire_lease
    <3>1. CASE l = k
      BY <2>3, <3>1 DEF HasLease
    <3>2. CASE l # k
      <4>1. l \in 1..Len(leases) /\ leases[l].state = "active"
        BY <2>1, <2>8, <3>2
      <4>2. PICK e \in Controllers : ctl[e].lease = l /\ HasLease(ctl[e])
        BY <1>1, <4>1, Tables, Holding DEF Inv, NoLeakedLease
      <4> QED
        BY <1>1, <2>3, <4>2 DEF HasLease
    <3> QED
      BY <3>1, <3>2
  <2>14. LoggedOutcomeIsTrue'
    <3> SUFFICES ASSUME NEW l \in 1..k
                 PROVE  /\ \A s \in TerminalStates :
                             <<l, s>> \in logged => leases'[l].state = s
                        /\ leases'[l].state \in TerminalStates
                             => \/ <<l, leases'[l].state>> \in logged
                                \/ l \in unlogged
                                \/ \E e \in Controllers :
                                     ctl'[e].lease = l /\ ctl'[e].at = "settled"
      BY <2>11 DEF LoggedOutcomeIsTrue, acquire_lease
    <3>1. CASE l = k
      <4>1. \A s \in TerminalStates : <<l, s>> \notin logged
        BY <1>1, <2>1, <3>1 DEF TypeOK
      <4> QED
        BY <2>1, <3>1, <4>1 DEF TerminalStates
    <3>2. CASE l # k
      <4>1. l \in 1..Len(leases) /\ leases'[l] = leases[l]
        BY <2>1, <2>8, <3>2
      <4>2. \A e \in Controllers : ctl[e].at = "settled" => ctl'[e] = ctl[e]
        BY <1>1, <2>3
      <4>3. /\ \A s \in TerminalStates : <<l, s>> \in logged => leases[l].state = s
            /\ leases[l].state \in TerminalStates
                 => \/ <<l, leases[l].state>> \in logged
                    \/ l \in unlogged
                    \/ \E e \in Controllers : ctl[e].lease = l /\ ctl[e].at = "settled"
        BY <1>1, <4>1, Tables DEF Inv, LoggedOutcomeIsTrue
      <4> QED
        BY <4>1, <4>2, <4>3
    <3> QED
      BY <3>1, <3>2
  <2> QED
    BY <2>4, <2>6, <2>7, <2>9, <2>10, <2>12, <2>13, <2>14 DEF Inv
<1> QED
  BY <1>2, <1>3
-----------------------------------------------------------------------------
(* The invariant.                                                            *)

\* Every step keeps it.
LEMMA NextPreserves ==
  ASSUME Inv, [Next]_vars
  PROVE  Inv'
<1>1. ASSUME NEW c \in Controllers, Step(c)
      PROVE  Inv'
  BY <1>1, ExpireActiveLeasesPreserves, AcquireLeasePreserves,
     MakeWorkPackagePreserves, ExecuteRemotePackagePreserves,
     ParseReceiptPreserves, TerminalLeasePreserves, UpdateLeasePreserves,
     EmitOutcomePreserves
  DEF Step
<1>2. CASE UNCHANGED vars
  BY <1>2
  DEF vars, Inv, TypeOK, OwnersKnow, Knows, Open, HasLease, OneOwner,
      RunningWatched, LeasesOrdered, CompletedWasExecuted, NoLeakedLease, Holds,
      LoggedOutcomeIsTrue
<1>3. CASE Next
  BY <1>1, <1>3, RegisterCandidatePreserves, TrustNodePreserves,
     InvokePreserves, AcquireNotLoggedPreserves, WorkerRunPackagePreserves,
     ConnectionLostPreserves, OutcomeNotLoggedPreserves, CrashPreserves,
     ExecutionReceiptPreserves, TickPreserves
  DEF Next
<1> QED
  BY <1>2, <1>3

\* The empty registry satisfies it.
LEMMA InitEstablishes == Init => Inv
<1> SUFFICES ASSUME Init PROVE Inv
  OBVIOUS
<1>1. /\ leases = <<>> /\ jobs = <<>> /\ logged = {} /\ Len(leases) = 0
      /\ \A c \in Controllers : ctl[c] = Idle
  BY DEF Init
<1>2. TypeOK
  <2>1. leases \in Seq(Lease) /\ jobs \in Seq(Job) /\ Len(jobs) = 0
    BY <1>1, EmptySeq
  <2> QED
    BY <1>1, <2>1, IdleIsCtl, ConstantsAssumption DEF Init, TypeOK
<1>3. DOMAIN leases = {} /\ 1..Len(leases) = {}
  BY <1>1
<1>4. OwnersKnow /\ OneOwner
  BY <1>1, IdleIsCtl DEF OwnersKnow, Knows, Open, HasLease, OneOwner
<1> QED
  BY <1>2, <1>3, <1>4
  DEF Inv, RunningWatched, LeasesOrdered, CompletedWasExecuted, NoLeakedLease,
      LoggedOutcomeIsTrue

\* The invariant holds of every reachable state.
THEOREM InvariantAlways == Spec => []Inv
<1>1. Init => Inv
  BY InitEstablishes
<1>2. Inv /\ [Next]_vars => Inv'
  BY NextPreserves
<1> QED
  BY <1>1, <1>2, PTL DEF Spec

\* What the leases say is true: a completed one was executed with success, an
\* active one has a process that will end it or was orphaned by a fault, and
\* the log and the table agree (_terminal_lease, NodeDispatcher.invoke).
THEOREM LeasesTellTheTruth == Spec => []LeaseInv
<1>1. Inv => LeaseInv
  BY DEF Inv, LeaseInv
<1> QED
  BY <1>1, InvariantAlways, PTL

\* Two executions of a work node overlap only when the lease of the earlier one
\* has run out or its controller stopped waiting (uq_active_work_node_lease,
\* expire_active_leases).
THEOREM OverlapsAreExplained == Spec => []OverlapExplained
<1>1. Inv => OverlapExplained
  <2> SUFFICES ASSUME Inv, NEW l \in DOMAIN jobs, NEW m \in DOMAIN jobs,
                      l < m, jobs[l] = "running",
                      leases[l].work = leases[m].work, l \notin cut
               PROVE  leases[l].expires <= clock
    BY DEF OverlapExplained, Running
  <2>1. l \in 1..Len(leases) /\ m \in 1..Len(leases)
    BY Tables DEF Inv
  <2>2. leases[l].state # "active"
    BY <2>1 DEF Inv, LeasesOrdered
  <2>3. leases[l].state \notin TerminalStates
    BY <2>1 DEF Inv, RunningWatched, OwnersKnow, Knows, Open
  <2>4. leases[l].state = "expired"
    BY <2>1, <2>2, <2>3, Tables DEF Inv, LeaseStates
  <2> QED
    BY <2>1, <2>4 DEF Inv, LeasesOrdered
<1> QED
  BY <1>1, InvariantAlways, PTL
-----------------------------------------------------------------------------
(* What no step does to a lease.                                             *)

\* Which steps write the leases.
LEMMA LeaseWriters ==
  ASSUME [Next]_vars, leases' # leases
  PROVE  \E c \in Controllers :
           expire_active_leases(c) \/ acquire_lease(c) \/ UpdateLease(c)
<1>1. ~UNCHANGED vars
  BY DEF vars
<1>2. ASSUME NEW c \in Controllers, Step(c)
      PROVE  expire_active_leases(c) \/ acquire_lease(c) \/ UpdateLease(c)
  BY <1>2 DEF Step, make_work_package, execute_remote_package, _parse_receipt,
              _terminal_lease, EmitOutcome
<1>3. ASSUME NEW c \in Controllers,
             \/ AcquireNotLogged(c) \/ worker_run_package(c)
             \/ ConnectionLost(c) \/ OutcomeNotLogged(c) \/ Crash(c)
      PROVE  FALSE
  BY <1>3 DEF AcquireNotLogged, worker_run_package, ConnectionLost,
              OutcomeNotLogged, Crash
<1>4. ASSUME NEW w \in Workers, NEW d \in Digests, register_candidate(w, d)
      PROVE  FALSE
  BY <1>4 DEF register_candidate
<1>5. ASSUME NEW w \in Workers, NEW t \in BOOLEAN, trust_node(w, t)
      PROVE  FALSE
  BY <1>5 DEF trust_node
<1>6. ASSUME NEW c \in Controllers, NEW n \in WorkNodes, NEW w \in Workers,
             NEW d \in Digests, Invoke(c, n, w, d)
      PROVE  FALSE
  BY <1>6 DEF Invoke
<1>7. ASSUME NEW l \in DOMAIN jobs, ExecutionReceipt(l)
      PROVE  FALSE
  BY <1>7 DEF ExecutionReceipt
<1>8. ~Tick
  BY DEF Tick
<1> QED
  BY <1>1, <1>2, <1>3, <1>4, <1>5, <1>6, <1>7, <1>8 DEF Next

\* Which steps write the jobs.
LEMMA JobWriters ==
  ASSUME [Next]_vars, jobs' # jobs
  PROVE  \/ \E c \in Controllers : acquire_lease(c) \/ worker_run_package(c)
         \/ \E l \in DOMAIN jobs : ExecutionReceipt(l)
<1>1. ~UNCHANGED vars
  BY DEF vars
<1>2. ASSUME NEW c \in Controllers, Step(c)
      PROVE  acquire_lease(c)
  BY <1>2 DEF Step, expire_active_leases, make_work_package,
              execute_remote_package, _parse_receipt, _terminal_lease,
              UpdateLease, EmitOutcome
<1>3. ASSUME NEW c \in Controllers,
             \/ AcquireNotLogged(c) \/ ConnectionLost(c)
             \/ OutcomeNotLogged(c) \/ Crash(c)
      PROVE  FALSE
  BY <1>3 DEF AcquireNotLogged, ConnectionLost, OutcomeNotLogged, Crash
<1>4. ASSUME NEW w \in Workers, NEW d \in Digests, register_candidate(w, d)
      PROVE  FALSE
  BY <1>4 DEF register_candidate
<1>5. ASSUME NEW w \in Workers, NEW t \in BOOLEAN, trust_node(w, t)
      PROVE  FALSE
  BY <1>5 DEF trust_node
<1>6. ASSUME NEW c \in Controllers, NEW n \in WorkNodes, NEW w \in Workers,
             NEW d \in Digests, Invoke(c, n, w, d)
      PROVE  FALSE
  BY <1>6 DEF Invoke
<1>7. ~Tick
  BY DEF Tick
<1> QED
  BY <1>1, <1>2, <1>3, <1>4, <1>5, <1>6, <1>7 DEF Next

\* What a step makes of a lease that is there already.
LEMMA LeaseStep ==
  ASSUME Inv, [Next]_vars, NEW l \in 1..Len(leases)
  PROVE  /\ leases'[l].expires = leases[l].expires
         /\ \/ leases'[l].state = leases[l].state
            \/ leases[l].state \notin TerminalStates /\ leases'[l].state # "active"
<1>1. TypeOK /\ leases[l] \in Lease /\ DOMAIN leases = 1..Len(leases)
  BY Tables DEF Inv
<1>2. ASSUME NEW c \in Controllers, expire_active_leases(c)
      PROVE  /\ leases'[l].expires = leases[l].expires
             /\ \/ leases'[l].state = leases[l].state
                \/ leases[l].state = "active" /\ leases'[l].state = "expired"
  <2>1. CASE nodes[ctl[c].node].trusted
    <3>1. leases'[l] = IF RunOut(leases[l], clock)
                       THEN [leases[l] EXCEPT !.state = "expired"]
                       ELSE leases[l]
      BY <1>1, <1>2, <2>1 DEF expire_active_leases
    <3> QED
      BY <1>1, <3>1 DEF RunOut, Lease
  <2>2. CASE ~nodes[ctl[c].node].trusted
    BY <1>2, <2>2 DEF expire_active_leases
  <2> QED
    BY <2>1, <2>2
<1>3. ASSUME NEW c \in Controllers, acquire_lease(c)
      PROVE  leases'[l] = leases[l]
  <2>1. CASE Clashes(ctl[c].work)
    BY <1>3, <2>1 DEF acquire_lease
  <2>2. CASE ~Clashes(ctl[c].work)
    <3>1. leases \in Seq(Lease)
      BY <1>1 DEF TypeOK
    <3>2. PICK e : leases' = Append(leases, e)
      BY <1>3, <2>2 DEF acquire_lease
    <3> QED
      BY <3>1, <3>2
  <2> QED
    BY <2>1, <2>2
<1>4. ASSUME NEW c \in Controllers, UpdateLease(c)
      PROVE  /\ leases'[l].expires = leases[l].expires
             /\ \/ leases'[l].state = leases[l].state
                \/ /\ leases[l].state \notin TerminalStates
                   /\ leases'[l].state # "active"
  <2>1. /\ ctl[c].lease \in 1..Len(leases) /\ ctl[c].want \in TerminalStates
        /\ leases[ctl[c].lease].state \notin TerminalStates
    BY <1>1, <1>4
    DEF Inv, OwnersKnow, Knows, Open, HasLease, UpdateLease, TypeOK, Ctl
  <2>2. CASE l = ctl[c].lease
    <3>1. leases'[l] = [leases[l] EXCEPT !.state = ctl[c].want]
      BY <1>1, <1>4, <2>2 DEF UpdateLease
    <3> QED
      BY <1>1, <2>1, <2>2, <3>1 DEF Lease, TerminalStates
  <2>3. CASE l # ctl[c].lease
    BY <1>1, <1>4, <2>3 DEF UpdateLease
  <2> QED
    BY <2>2, <2>3
<1> QED
  BY <1>2, <1>3, <1>4, LeaseWriters DEF TerminalStates

\* A lease recorded as completed or failed keeps that state, whatever the other
\* controllers, the clock and faults do: the UPDATE of _terminal_lease, which
\* names the lease only, never meets one that has ended.
THEOREM EndedLeasesStay == Spec => SettledLeasesStable
<1>1. Inv /\ [Next]_vars
        => [\A l \in DOMAIN leases :
              leases[l].state \in TerminalStates
                => leases'[l].state = leases[l].state]_vars
  BY LeaseStep, Tables DEF Inv
<1> QED
  BY <1>1, InvariantAlways, PTL DEF Spec, SettledLeasesStable

\* A worker starts only what its controller still holds, or what the clock took
\* away from it (worker_run_package, expire_active_leases).
THEOREM WorkStartsUnderItsLease == Spec => StartsUnderLease
<1>1. Inv /\ [Next]_vars
        => [\A l \in DOMAIN jobs :
              jobs[l] = "inbox" /\ jobs'[l] = "running"
                => leases[l].state = "active" \/ leases[l].expires <= clock]_vars
  <2> SUFFICES ASSUME Inv, [Next]_vars, NEW l \in DOMAIN jobs,
                      jobs[l] = "inbox", jobs'[l] = "running"
               PROVE  leases[l].state = "active" \/ leases[l].expires <= clock
    OBVIOUS
  <2>1. /\ TypeOK /\ l \in 1..Len(leases) /\ DOMAIN jobs = 1..Len(leases)
        /\ leases[l].state \in LeaseStates
    BY Tables DEF Inv
  <2>2. ASSUME NEW c \in Controllers, acquire_lease(c)
        PROVE  jobs'[l] = jobs[l]
    <3>1. jobs' = jobs \/ jobs' = Append(jobs, "inbox")
      BY <2>2 DEF acquire_lease
    <3>2. jobs \in Seq(Job) /\ l \in 1..Len(jobs)
      BY <2>1 DEF TypeOK
    <3> QED
      BY <3>1, <3>2
  <2>3. ASSUME NEW m \in DOMAIN jobs, ExecutionReceipt(m)
        PROVE  jobs'[l] # "running" \/ jobs'[l] = jobs[l]
    BY <2>1, <2>3 DEF ExecutionReceipt
  <2>4. PICK c \in Controllers : worker_run_package(c)
    BY <2>2, <2>3, JobWriters
  <2>5. ctl[c].at = "waiting" /\ ctl[c].lease = l
    BY <2>1, <2>4 DEF worker_run_package
  <2>6. leases[l].state \notin TerminalStates
    BY <2>5 DEF Inv, OwnersKnow, Knows, Open
  <2> QED
    BY <2>1, <2>6 DEF Inv, LeasesOrdered, LeaseStates
<1> QED
  BY <1>1, InvariantAlways, PTL DEF Spec, StartsUnderLease

\* A process between expire_active_leases and the INSERT: every active lease
\* had time left when it looked.
Swept ==
  /\ TTL > 0
  /\ \A c \in Controllers :
       ctl[c].at = "swept"
         => /\ ctl[c].now <= clock
            /\ \A l \in 1..Len(leases) :
                 leases[l].state = "active" => leases[l].expires > ctl[c].now

\* The step is one of process e, which is at "swept" neither before nor after.
Elsewhere(e) ==
  /\ \A c \in Controllers \ {e} : ctl'[c] = ctl[c]
  /\ ctl[e].at # "swept" /\ ctl'[e].at # "swept"

\* Only these steps take a process to or from "swept", or let it forget when it
\* looked.
LEMMA Sweepers ==
  ASSUME Inv, [Next]_vars, NEW c \in Controllers
  PROVE  \/ ctl'[c] = ctl[c]
         \/ ctl'[c].at # "swept" /\ ctl[c].at # "swept"
         \/ expire_active_leases(c)
         \/ acquire_lease(c)
         \/ Crash(c)
<1>1. TypeOK /\ \A e \in Controllers : Knows(ctl[e])
  BY DEF Inv, OwnersKnow
<1>2. ASSUME NEW e \in Controllers, NEW n \in WorkNodes, NEW w \in Workers,
             NEW d \in Digests, Invoke(e, n, w, d)
      PROVE  Elsewhere(e)
  BY <1>1, <1>2 DEF Invoke, TypeOK, Ctl, Elsewhere
<1>3. ASSUME NEW e \in Controllers, make_work_package(e)
      PROVE  Elsewhere(e)
  BY <1>1, <1>3 DEF make_work_package, TypeOK, Ctl, Elsewhere
<1>4. ASSUME NEW e \in Controllers,
             \/ AcquireNotLogged(e) \/ EmitOutcome(e)
             \/ execute_remote_package(e) \/ ConnectionLost(e)
             \/ OutcomeNotLogged(e) \/ _parse_receipt(e)
             \/ _terminal_lease(e) \/ UpdateLease(e)
      PROVE  Elsewhere(e)
  <2>1. ctl[e].at # "swept" /\ Knows(ctl[e])
    BY <1>1, <1>4
    DEF AcquireNotLogged, EmitOutcome, execute_remote_package, ConnectionLost,
        OutcomeNotLogged, _parse_receipt, _terminal_lease, UpdateLease
  <2>2. CASE ctl' = Return(e)
    BY <1>1, <2>1, <2>2, Returning, IdleIsCtl DEF Elsewhere
  <2>3. CASE ctl' = Raised(e)
    BY <1>1, <2>1, <2>3, Raising, IdleIsCtl DEF Elsewhere
  <2>4. CASE ctl' = Settle(e, Verdict(jobs[ctl[e].lease]), FALSE)
    <3>1. Verdict(jobs[ctl[e].lease]) \in TerminalStates
      BY DEF Verdict, TerminalStates
    <3> QED
      BY <1>1, <2>1, <2>4, <3>1, Settling DEF Elsewhere
  <2>5. ASSUME NEW at \in {"waiting", "update", "settled"},
               ctl' = [ctl EXCEPT ![e].at = at]
        PROVE  Elsewhere(e)
    <3>1. at \in Stages /\ at # "swept"
      BY DEF Stages
    <3> QED
      BY <1>1, <2>1, <2>5, <3>1, Advancing DEF Elsewhere
  <2> QED
    BY <1>4, <2>2, <2>3, <2>4, <2>5
    DEF AcquireNotLogged, EmitOutcome, execute_remote_package, ConnectionLost,
        OutcomeNotLogged, _parse_receipt, _terminal_lease, UpdateLease
<1>5. ASSUME NEW e \in Controllers, e # c,
             expire_active_leases(e) \/ acquire_lease(e) \/ Crash(e)
      PROVE  ctl'[c] = ctl[c]
  BY <1>1, <1>5, Returning DEF expire_active_leases, acquire_lease, Crash, TypeOK
<1>6. ASSUME NEW e \in Controllers, Step(e)
      PROVE  Elsewhere(e) \/ expire_active_leases(e) \/ acquire_lease(e)
  BY <1>3, <1>4, <1>6 DEF Step
<1>7. CASE ctl' = ctl
  BY <1>7
<1>8. CASE ctl' # ctl
  <2>1. PICK e \in Controllers :
          Elsewhere(e) \/ expire_active_leases(e) \/ acquire_lease(e) \/ Crash(e)
    <3>1. /\ ~UNCHANGED vars /\ ~Tick
          /\ \A w \in Workers, d \in Digests : ~register_candidate(w, d)
          /\ \A w \in Workers, t \in BOOLEAN : ~trust_node(w, t)
          /\ \A e \in Controllers : ~worker_run_package(e)
          /\ \A l \in DOMAIN jobs : ~ExecutionReceipt(l)
      BY <1>8 DEF vars, Tick, register_candidate, trust_node,
                  worker_run_package, ExecutionReceipt
    <3> QED
      BY <1>2, <1>4, <1>6, <3>1 DEF Next
  <2> QED
    BY <1>5, <2>1 DEF Elsewhere
<1> QED
  BY <1>7, <1>8

\* A step that adds a lease adds one with all its time before it.
LEMMA NewLease ==
  ASSUME Inv, [Next]_vars
  PROVE  /\ clock \in Nat /\ clock' \in Nat /\ clock <= clock'
         /\ \A l \in 1..Len(leases') :
              \/ l \in 1..Len(leases)
              \/ leases'[l].expires = clock + TTL
<1>1. TypeOK /\ TypeOK'
  BY NextPreserves DEF Inv
<1>2. clock \in Nat /\ clock' \in Nat
  BY <1>1, ConstantsAssumption DEF TypeOK
<1>3. clock' = clock \/ clock' = clock + 1
  <2>1. ASSUME NEW c \in Controllers, Step(c)
        PROVE  clock' = clock
    BY <2>1 DEF Step, expire_active_leases, acquire_lease, make_work_package,
                execute_remote_package, _parse_receipt, _terminal_lease,
                UpdateLease, EmitOutcome
  <2>2. ASSUME NEW c \in Controllers,
               \/ AcquireNotLogged(c) \/ worker_run_package(c)
               \/ ConnectionLost(c) \/ OutcomeNotLogged(c) \/ Crash(c)
        PROVE  clock' = clock
    BY <2>2 DEF AcquireNotLogged, worker_run_package, ConnectionLost,
                OutcomeNotLogged, Crash
  <2>3. ASSUME NEW w \in Workers, NEW d \in Digests, register_candidate(w, d)
        PROVE  clock' = clock
    BY <2>3 DEF register_candidate
  <2>4. ASSUME NEW w \in Workers, NEW t \in BOOLEAN, trust_node(w, t)
        PROVE  clock' = clock
    BY <2>4 DEF trust_node
  <2>5. ASSUME NEW c \in Controllers, NEW n \in WorkNodes, NEW w \in Workers,
               NEW d \in Digests, Invoke(c, n, w, d)
        PROVE  clock' = clock
    BY <2>5 DEF Invoke
  <2>6. ASSUME NEW l \in DOMAIN jobs, ExecutionReceipt(l)
        PROVE  clock' = clock
    BY <2>6 DEF ExecutionReceipt
  <2>7. CASE Tick
    BY <2>7 DEF Tick
  <2>8. CASE UNCHANGED vars
    BY <2>8 DEF vars
  <2> QED
    BY <2>1, <2>2, <2>3, <2>4, <2>5, <2>6, <2>7, <2>8 DEF Next
<1>4. ASSUME NEW c \in Controllers, expire_active_leases(c) \/ UpdateLease(c)
      PROVE  Len(leases') = Len(leases)
  <2>1. DOMAIN leases' = DOMAIN leases
    BY <1>4 DEF expire_active_leases, UpdateLease
  <2>2. /\ Len(leases) \in Nat /\ DOMAIN leases = 1..Len(leases)
        /\ Len(leases') \in Nat /\ DOMAIN leases' = 1..Len(leases')
    BY <1>1, LenProperties DEF TypeOK
  <2> QED
    BY <2>1, <2>2
<1>5. ASSUME NEW c \in Controllers, acquire_lease(c)
      PROVE  \A l \in 1..Len(leases') :
               l \in 1..Len(leases) \/ leases'[l].expires = clock + TTL
  <2>1. CASE Clashes(ctl[c].work)
    BY <1>5, <2>1 DEF acquire_lease
  <2>2. CASE ~Clashes(ctl[c].work)
    <3>1. leases \in Seq(Lease)
      BY <1>1 DEF TypeOK
    <3>2. PICK e : leases' = Append(leases, e) /\ e.expires = clock + TTL
      BY <1>5, <2>2 DEF acquire_lease
    <3> QED
      BY <3>1, <3>2
  <2> QED
    BY <2>1, <2>2
<1>6. \A l \in 1..Len(leases') :
        l \in 1..Len(leases) \/ leases'[l].expires = clock + TTL
  BY <1>4, <1>5, LeaseWriters
<1> QED
  BY <1>2, <1>3, <1>6

\* A sweep stays good until the INSERT: what other processes store meanwhile
\* runs out later still.
LEMMA SweptStep ==
  ASSUME Inv, Swept, [Next]_vars
  PROVE  Swept'
<1> SUFFICES ASSUME NEW c \in Controllers, ctl'[c].at = "swept"
             PROVE  /\ ctl'[c].now <= clock'
                    /\ \A l \in 1..Len(leases') :
                         leases'[l].state = "active"
                           => leases'[l].expires > ctl'[c].now
  BY DEF Swept
<1>1. TypeOK /\ ctl[c] \in Ctl /\ ctl[c].now \in Nat /\ TTL \in Nat
  BY ConstantsAssumption DEF Inv, TypeOK, Ctl
<1>2. /\ clock \in Nat /\ clock' \in Nat /\ clock <= clock'
      /\ \A l \in 1..Len(leases') :
           l \in 1..Len(leases) \/ leases'[l].expires = clock + TTL
  BY NewLease
<1>3. CASE ctl'[c] = ctl[c]
  <2>1. /\ ctl[c].now <= clock
        /\ \A l \in 1..Len(leases) :
             leases[l].state = "active" => leases[l].expires > ctl[c].now
    BY <1>3 DEF Swept
  <2>2. ASSUME NEW l \in 1..Len(leases'), leases'[l].state = "active"
        PROVE  leases'[l].expires > ctl[c].now
    <3>1. CASE l \in 1..Len(leases)
      BY <2>1, <2>2, <3>1, LeaseStep
    <3>2. CASE leases'[l].expires = clock + TTL
      BY <1>1, <1>2, <2>1, <3>2 DEF Swept
    <3> QED
      BY <1>2, <3>1, <3>2
  <2> QED
    BY <1>1, <1>2, <1>3, <2>1, <2>2
<1>4. CASE expire_active_leases(c)
  <2>1. nodes[ctl[c].node].trusted
    BY <1>1, <1>4, Returning, IdleIsCtl DEF expire_active_leases
  <2>2. ctl'[c].now = clock /\ clock' = clock
    BY <1>1, <1>4, <2>1 DEF expire_active_leases, TypeOK, Ctl
  <2>3. ASSUME NEW l \in 1..Len(leases'), leases'[l].state = "active"
        PROVE  leases'[l].expires > clock
    <3>1. DOMAIN leases' = DOMAIN leases
      BY <1>4, <2>1 DEF expire_active_leases
    <3>2. TypeOK'
      BY NextPreserves DEF Inv
    <3>3. l \in DOMAIN leases /\ l \in 1..Len(leases)
      BY <1>1, <3>1, <3>2, LenProperties DEF TypeOK
    <3>4. leases[l] \in Lease /\ leases[l].expires \in Nat
      BY <1>1, <3>3, Tables
    <3>5. leases'[l] = IF RunOut(leases[l], clock)
                       THEN [leases[l] EXCEPT !.state = "expired"]
                       ELSE leases[l]
      BY <1>4, <2>1, <3>3 DEF expire_active_leases
    <3>6. ~RunOut(leases[l], clock)
      BY <2>3, <3>4, <3>5 DEF Lease
    <3> QED
      BY <1>2, <2>3, <3>4, <3>5, <3>6 DEF RunOut
  <2> QED
    BY <1>2, <2>2, <2>3
<1>5. CASE acquire_lease(c) \/ Crash(c)
  <2>1. ctl'[c].at # "swept"
    BY SMTT(30), ZenonT(30), <1>1, <1>5, Returning, IdleIsCtl DEF acquire_lease, Crash, TypeOK, Ctl
  <2> QED
    BY <2>1
<1> QED
  BY <1>3, <1>4, <1>5, Sweepers

\* What no step does to a lease: reopen one that has ended, refuse a caller
\* without a live lease in its way, or start work that was taken away early.
\* The refusal needs a timeout_s above 0: with 0 a lease has run out in the
\* second it is stored and still blocks a caller that looked just before.
THEOREM LeasesBehave == TTL > 0 /\ Spec => LeaseSteps
<1>1. TTL > 0 /\ Init => Swept
  BY IdleIsCtl DEF Init, Swept
<1>2. Inv /\ Swept /\ [Next]_vars => Swept'
  BY SweptStep
<1>3. Inv /\ Swept /\ [Next]_vars
        => [\A c \in Controllers :
              ctl[c].at = "swept" /\ ctl'[c].at = "idle" /\ faults' = faults
                => \E l \in DOMAIN leases :
                     /\ leases[l].state = "active"
                     /\ leases[l].work = ctl[c].work
                     /\ leases[l].expires > ctl[c].now]_vars
  <2> SUFFICES ASSUME Inv, Swept, [Next]_vars, NEW c \in Controllers,
                      ctl[c].at = "swept", ctl'[c].at = "idle", faults' = faults
               PROVE  \E l \in DOMAIN leases :
                        /\ leases[l].state = "active"
                        /\ leases[l].work = ctl[c].work
                        /\ leases[l].expires > ctl[c].now
    OBVIOUS
  <2>1. TypeOK /\ faults \in Nat /\ DOMAIN leases = 1..Len(leases)
    BY Tables, ConstantsAssumption DEF Inv, TypeOK
  <2>2. ~Crash(c) /\ ~expire_active_leases(c)
    BY <2>1 DEF Crash, expire_active_leases
  <2>3. acquire_lease(c)
    BY <2>2, Sweepers
  <2>4. Clashes(ctl[c].work)
    BY <2>1, <2>3 DEF acquire_lease, TypeOK, Ctl
  <2> QED
    BY <2>1, <2>4 DEF Clashes, Swept
<1>4. TTL > 0 /\ Spec => RefusalIsJust
  BY <1>1, <1>2, <1>3, InvariantAlways, PTL DEF Spec, RefusalIsJust
<1> QED
  BY <1>4, EndedLeasesStay, WorkStartsUnderItsLease DEF LeaseSteps
-----------------------------------------------------------------------------
(* Bundles.                                                                  *)

\* The number of files in the directory.
N == Cardinality(Files)

\* Where an extractor can be, and what it has in its two directories.
ExRecord ==
  [stage : {"idle", "check", "aside", "swap", "sweep", "except", "restore",
            "discard", "done", "raised", "left", "killed"},
   tmp : Trees, backup : Trees]

\* Where the maker of the bundle can be.
MakerRecord == [stage : {"list", "scan", "pack", "made", "failed"},
                listed : SUBSET Files, hashed : Seq(Held)]

\* What the tar holds.
TarRecord == [manifest : Seq(Held), payload : Seq(Held)]

\* The tar holds what its manifest says, and nothing is added to it any more.
Complete(tr) == Len(tr.manifest) = N /\ tr.payload = tr.manifest

\* The types, and what the stages of the maker say of the tar.
BundleTypes ==
  /\ dir \in [Files -> Held]
  /\ dest \in Trees
  /\ ex \in [Extractors -> ExRecord]
  /\ maker \in MakerRecord
  /\ tar \in TarRecord
  /\ maker.stage \in {"list", "scan"} => tar = NoTar
  /\ tar # NoTar \/ maker.stage = "pack" => Len(tar.manifest) = N
  /\ errors \in Nat /\ crashes \in Nat

\* What a directory may be.
Sound(t, tr, failed) ==
  \/ t \in {Absent, Original}
  \/ t = tr.manifest /\ Complete(tr)
  \/ t = Partial /\ failed > 0

\* What an extractor holds, by where it is.
HoldsTrees(x, tr, failed) ==
  /\ Sound(x.backup, tr, failed)
  /\ x.tmp = Absent \/ x.stage = "left" \/ (x.tmp = tr.manifest /\ Complete(tr))
  /\ x.stage \in {"check", "aside", "swap"} => x.tmp # Absent
  /\ x.stage \in {"idle", "check", "aside"} => x.backup = Absent
  /\ x.stage \in {"restore", "discard"} => x.backup # Absent

\* All directories are sound.
TreesSound ==
  /\ Sound(dest, tar, errors)
  /\ \A e \in Extractors : HoldsTrees(ex[e], tar, errors)

\* The stages in which an extractor deletes its backup.
Deleting == {"sweep", "discard"}

\* An extractor with a backup that it is not about to delete.
Keeps(x) == x.backup # Absent /\ x.stage \notin Deleting

\* A copy that nobody is about to delete.
Live == dest # Absent \/ \E e \in Extractors : Keeps(ex[e])

\* Whoever deletes a backup leaves another copy.
DeletersAreSafe ==
  \A e \in Extractors : ex[e].stage \in Deleting => Live

\* An extractor that will bring the destination back, or whose handler failed.
Restores(x) == x.backup # Absent /\ x.stage \in {"swap", "except", "restore", "left"}

\* An extractor that never had hold of a destination.
Clean(x) ==
  x.backup = Absent /\ x.stage \notin {"done", "sweep", "restore", "discard"}

\* While there is no destination, somebody who moved it away is about to put
\* one there, or failed to; or nobody ever had one.
SomeoneRestores ==
  crashes = 0 /\ dest = Absent =>
    \/ \E e \in Extractors : Restores(ex[e])
    \/ \A e \in Extractors : Clean(ex[e])

\* The inductive invariant of Bundle.
BundleInd ==
  BundleTypes /\ TreesSound /\ DeletersAreSafe /\ SomeoneRestores

\* Directories with files are there.
LEMMA NotAbsent ==
  /\ N \in Nat \ {0} /\ Files = 1..N
  /\ Original # Absent /\ Partial # Absent
  /\ \A t \in Seq(Held) : Len(t) = N => t # Absent /\ t \in [Files -> Held]
<1>1. N \in Nat /\ Files = 1..N /\ Files # {}
  BY FilesAssumption, FS_CardinalityType DEF N
<1>2. N # 0
  BY <1>1
<1>3. DOMAIN Absent = {} /\ DOMAIN Original = Files /\ DOMAIN Partial = Files
  BY DEF Absent, Original, Partial
<1>4. ASSUME NEW t \in Seq(Held), Len(t) = N
      PROVE  t # Absent /\ t \in [Files -> Held]
  BY <1>1, <1>2, <1>4 DEF Absent
<1> QED
  BY <1>1, <1>2, <1>3, <1>4

\* The invariant holds before anything is bundled.
LEMMA BundleInitOK == BundleInit => BundleInd
<1> SUFFICES ASSUME BundleInit
             PROVE  BundleInd
  OBVIOUS
<1>1. /\ dir = [f \in Files |-> "a"] /\ tar = NoTar
      /\ maker = [stage |-> "list", listed |-> {}, hashed |-> <<>>]
      /\ dest \in {Absent, Original} /\ ex = [e \in Extractors |-> IdleEx]
      /\ errors = 0 /\ crashes = 0
  BY DEF BundleInit
<1>2. /\ IdleEx \in ExRecord /\ IdleEx.stage = "idle" /\ IdleEx.tmp = Absent
      /\ IdleEx.backup = Absent
  BY DEF IdleEx, ExRecord, Trees
<1>3. \A e \in Extractors : ex[e] = IdleEx
  BY <1>1
<1>4. BundleTypes
  <2>1. dir \in [Files -> Held]
    BY <1>1 DEF Held, Contents
  <2>2. dest \in Trees
    BY <1>1 DEF Trees
  <2>3. maker \in MakerRecord /\ maker.stage = "list"
    BY <1>1 DEF MakerRecord
  <2>4. tar \in TarRecord
    BY <1>1 DEF NoTar, TarRecord
  <2>5. ex \in [Extractors -> ExRecord]
    BY <1>1, <1>2
  <2> QED
    BY <1>1, <2>1, <2>2, <2>3, <2>4, <2>5 DEF BundleTypes
<1>5. TreesSound
  BY <1>1, <1>2, <1>3 DEF TreesSound, HoldsTrees, Sound
<1>6. DeletersAreSafe
  BY <1>2, <1>3 DEF DeletersAreSafe, Deleting
<1>7. SomeoneRestores
  BY <1>2, <1>3 DEF SomeoneRestores, Clean
<1> QED
  BY <1>4, <1>5, <1>6, <1>7 DEF BundleInd

\* A step of the maker or of the owner of the directory: a complete tar stays
\* as it is.
LEMMA MakerMove ==
  ASSUME BundleInd, UNCHANGED <<dest, ex, errors, crashes>>, BundleTypes',
         Complete(tar) => tar' = tar
  PROVE  BundleInd' /\ (Live => Live')
<1>1. dest' = dest /\ ex' = ex /\ errors' = errors /\ crashes' = crashes
  OBVIOUS
<1>2. TreesSound /\ DeletersAreSafe /\ SomeoneRestores
  BY DEF BundleInd
<1>3. \A t : Sound(t, tar, errors) => Sound(t, tar', errors)
  BY DEF Sound
<1>4. \A x : HoldsTrees(x, tar, errors) => HoldsTrees(x, tar', errors)
  BY <1>3 DEF HoldsTrees
<1>5. TreesSound'
  BY <1>1, <1>2, <1>3, <1>4 DEF TreesSound
<1>6. DeletersAreSafe' /\ SomeoneRestores' /\ (Live => Live')
  BY <1>1, <1>2 DEF DeletersAreSafe, SomeoneRestores, Live
<1> QED
  BY <1>5, <1>6 DEF BundleInd

\* The files are listed.
LEMMA ListSourceOK ==
  ASSUME BundleInd, ListSource
  PROVE  BundleInd' /\ (Live => Live')
<1> DEFINE there == {f \in Files : dir[f] # Missing}
<1>1. /\ maker.stage = "list" /\ maker' = [maker EXCEPT !.stage = "scan", !.listed = there]
      /\ UNCHANGED <<dir, tar, dest, ex, errors, crashes>>
  BY DEF ListSource
<1>2. BundleTypes /\ maker \in MakerRecord /\ there \in SUBSET Files
  BY DEF BundleInd, BundleTypes
<1> HIDE DEF there
<1>3. maker' \in MakerRecord /\ maker'.stage = "scan"
  BY <1>1, <1>2 DEF MakerRecord
<1>4. BundleTypes'
  BY <1>1, <1>2, <1>3 DEF BundleTypes
<1> QED
  BY <1>1, <1>4, MakerMove

\* The next file is hashed.
LEMMA SourceEntriesOK ==
  ASSUME BundleInd, _source_entries
  PROVE  BundleInd' /\ (Live => Live')
<1> DEFINE f == Len(maker.hashed) + 1
<1>1. /\ maker.stage = "scan" /\ f \in Files
      /\ \/ maker' = [maker EXCEPT !.stage = "failed"]
         \/ maker' = [maker EXCEPT !.hashed = Append(maker.hashed, dir[f])]
         \/ maker' = [maker EXCEPT !.hashed = Append(maker.hashed, Missing)]
      /\ UNCHANGED <<dir, tar, dest, ex, errors, crashes>>
  BY DEF _source_entries
<1>2. BundleTypes /\ maker \in MakerRecord
  BY DEF BundleInd, BundleTypes
<1>3. dir[f] \in Held /\ Missing \in Held
  BY <1>1, <1>2 DEF BundleTypes, Held
<1> HIDE DEF f
<1>4. maker' \in MakerRecord /\ maker'.stage \in {"scan", "failed"}
  <2>1. CASE maker' = [maker EXCEPT !.stage = "failed"]
    BY <1>2, <2>1 DEF MakerRecord
  <2>2. ASSUME NEW c \in Held, maker' = [maker EXCEPT !.hashed = Append(maker.hashed, c)]
        PROVE  maker' \in MakerRecord /\ maker'.stage = "scan"
    <3> DEFINE h == Append(maker.hashed, c)
    <3>1. h \in Seq(Held)
      BY <1>2 DEF MakerRecord
    <3>2. maker' = [maker EXCEPT !.hashed = h]
      BY <2>2
    <3> HIDE DEF h
    <3> QED
      BY <1>1, <1>2, <3>1, <3>2 DEF MakerRecord
  <2> QED
    BY <1>1, <1>3, <2>1, <2>2
<1>5. BundleTypes'
  BY <1>1, <1>2, <1>4 DEF BundleTypes
<1> QED
  BY <1>1, <1>5, MakerMove

\* The tar begins with the manifest.
LEMMA OpenTarOK ==
  ASSUME BundleInd, OpenTar
  PROVE  BundleInd' /\ (Live => Live')
<1>1. /\ maker.stage = "scan" /\ Len(maker.hashed) = N
      /\ maker' = [maker EXCEPT !.stage = "pack"]
      /\ tar' = [manifest |-> maker.hashed, payload |-> <<>>]
      /\ UNCHANGED <<dir, dest, ex, errors, crashes>>
  BY DEF OpenTar, N
<1>2. BundleTypes /\ maker \in MakerRecord /\ tar = NoTar
  BY <1>1 DEF BundleInd, BundleTypes
<1>3. maker' \in MakerRecord /\ maker'.stage = "pack"
  BY <1>1, <1>2 DEF MakerRecord
<1>4. tar' \in TarRecord /\ Len(tar'.manifest) = N
  BY <1>1, <1>2 DEF MakerRecord, TarRecord
<1>5. BundleTypes'
  BY <1>1, <1>2, <1>3, <1>4 DEF BundleTypes
<1>6. ~Complete(tar)
  BY <1>2, NotAbsent DEF NoTar, Complete
<1> QED
  BY <1>1, <1>5, <1>6, MakerMove

\* A payload is added to a tar that lacks one.
LEMMA AddFileOK ==
  ASSUME BundleInd, AddFile
  PROVE  BundleInd' /\ (Live => Live')
<1> DEFINE f == Len(tar.payload) + 1
           size == Size(tar.manifest[f])
           c == Prefix(dir[f], size)
<1>1. BundleTypes /\ maker \in MakerRecord /\ tar \in TarRecord
  BY DEF BundleInd, BundleTypes
<1>2. /\ maker.stage = "pack" /\ f \in Files
      /\ UNCHANGED <<dir, dest, ex, errors, crashes>>
      /\ \/ /\ maker' = [maker EXCEPT !.stage = "failed"]
            /\ UNCHANGED tar
         \/ /\ tar' = [tar EXCEPT !.payload = Append(tar.payload, Missing)]
            /\ UNCHANGED maker
         \/ /\ tar' = [tar EXCEPT !.payload = Append(tar.payload, c)]
            /\ UNCHANGED maker
  BY DEF AddFile
<1>3. dir[f] \in Held /\ Missing \in Held
  BY <1>1, <1>2 DEF BundleTypes, Held
<1>4. ~Complete(tar)
  BY <1>1, <1>2, NotAbsent DEF Complete, TarRecord
<1> HIDE DEF f, size
<1>5. CASE /\ maker' = [maker EXCEPT !.stage = "failed"]
           /\ UNCHANGED tar
  <2>1. maker' \in MakerRecord /\ maker'.stage = "failed"
    BY <1>1, <1>5 DEF MakerRecord
  <2>2. BundleTypes'
    BY <1>1, <1>2, <1>5, <2>1 DEF BundleTypes
  <2> QED
    BY <1>2, <1>5, <2>2, MakerMove
<1>6. ASSUME NEW d \in Held, tar' = [tar EXCEPT !.payload = Append(tar.payload, d)],
             UNCHANGED maker
      PROVE  BundleInd' /\ (Live => Live')
  <2> DEFINE h == Append(tar.payload, d)
  <2>3. h \in Seq(Held)
    BY <1>1, <1>6 DEF TarRecord
  <2> HIDE DEF h
  <2>1. tar' \in TarRecord /\ tar'.manifest = tar.manifest
    BY <1>1, <1>6, <2>3 DEF TarRecord, h
  <2>2. BundleTypes'
    BY <1>1, <1>2, <1>6, <2>1 DEF BundleTypes
  <2> QED
    BY <1>2, <1>4, <1>6, <2>2, MakerMove
<1>7. c \in Held
  BY <1>3 DEF Prefix, Held, Contents
<1> HIDE DEF c
<1> QED
  BY <1>2, <1>3, <1>5, <1>6, <1>7

\* The tar is closed, or the directory written to.
LEMMA CloseOrWriteOK ==
  ASSUME BundleInd,
         CloseTar \/ \E f \in Files, c \in Held : WriteSource(f, c)
  PROVE  BundleInd' /\ (Live => Live')
<1>1. BundleTypes
  BY DEF BundleInd
<1>2. CASE CloseTar
  <2>1. /\ maker' = [maker EXCEPT !.stage = "made"]
        /\ UNCHANGED <<dir, tar, dest, ex, errors, crashes>>
    BY <1>2 DEF CloseTar
  <2>2. maker' \in MakerRecord /\ maker'.stage = "made"
    BY <1>1, <2>1 DEF BundleTypes, MakerRecord
  <2>3. BundleTypes'
    BY <1>1, <2>1, <2>2 DEF BundleTypes
  <2> QED
    BY <2>1, <2>3, MakerMove
<1>3. ASSUME NEW f \in Files, NEW c \in Held, WriteSource(f, c)
      PROVE  BundleInd' /\ (Live => Live')
  <2>1. /\ dir' = [dir EXCEPT ![f] = c]
        /\ UNCHANGED <<tar, maker, dest, ex, errors, crashes>>
    BY <1>3 DEF WriteSource
  <2>2. BundleTypes'
    BY <1>1, <2>1 DEF BundleTypes
  <2> QED
    BY <2>1, <2>2, MakerMove
<1> QED
  BY <1>2, <1>3

\* A step of one extractor.  What it leaves behind is sound; a live copy is
\* left, or the one there was is; who begins to delete leaves a destination;
\* and the destination is there, or is still somebody's to bring back.
LEMMA ExMove ==
  ASSUME BundleInd, NEW e \in Extractors, NEW r \in ExRecord,
         ex' = [ex EXCEPT ![e] = r], UNCHANGED <<dir, tar, maker>>,
         dest' \in Trees, errors' \in Nat, crashes' \in Nat, errors <= errors',
         Sound(dest', tar, errors'), HoldsTrees(r, tar, errors'),
         \/ dest' # Absent
         \/ Keeps(r)
         \/ dest' = dest /\ (Keeps(ex[e]) => Keeps(r)),
         r.stage \in Deleting => dest' # Absent,
         \/ dest' # Absent
         \/ crashes' # 0
         \/ Restores(r)
         \/ /\ dest' = dest /\ crashes' = crashes
            /\ Restores(ex[e]) => Restores(r)
            /\ Clean(ex[e]) => Clean(r)
  PROVE  BundleInd' /\ (Live => Live')
<1>1. /\ BundleTypes /\ TreesSound /\ DeletersAreSafe /\ SomeoneRestores
      /\ dir' = dir /\ tar' = tar /\ maker' = maker
  BY DEF BundleInd
<1>2. \A q \in Extractors : ex'[q] = IF q = e THEN r ELSE ex[q]
  BY <1>1 DEF BundleTypes
<1>3. BundleTypes'
  BY <1>1 DEF BundleTypes
<1>4. \A t : Sound(t, tar, errors) => Sound(t, tar, errors')
  BY <1>1 DEF Sound, BundleTypes
<1>5. \A q \in Extractors : HoldsTrees(ex'[q], tar, errors')
  <2>1. \A q \in Extractors : HoldsTrees(ex[q], tar, errors')
    BY <1>1, <1>4 DEF TreesSound, HoldsTrees
  <2> QED
    BY <1>2, <2>1
<1>6. TreesSound'
  BY <1>1, <1>5 DEF TreesSound
<1>7. Live => Live'
  <2> SUFFICES ASSUME Live, dest' = Absent
               PROVE  \E q \in Extractors : Keeps(ex'[q])
    BY DEF Live, Keeps, Deleting
  <2>1. CASE Keeps(r)
    BY <1>2, <2>1
  <2>2. CASE dest' = dest /\ (Keeps(ex[e]) => Keeps(r))
    BY <1>2, <2>2 DEF Live
  <2> QED
    BY <2>1, <2>2
<1>8. DeletersAreSafe'
  <2> SUFFICES ASSUME NEW q \in Extractors, ex'[q].stage \in Deleting
               PROVE  Live'
    BY DEF DeletersAreSafe, Deleting
  <2>1. CASE q = e
    BY <1>2, <2>1 DEF Live
  <2>2. CASE q # e
    BY <1>1, <1>2, <1>7, <2>2 DEF DeletersAreSafe
  <2> QED
    BY <2>1, <2>2
<1>9. SomeoneRestores'
  <2> SUFFICES ASSUME crashes' = 0, dest' = Absent
               PROVE  \/ \E q \in Extractors : Restores(ex'[q])
                      \/ \A q \in Extractors : Clean(ex'[q])
    BY DEF SomeoneRestores, Restores, Clean
  <2>1. CASE Restores(r)
    BY <1>2, <2>1
  <2>2. CASE /\ dest' = dest /\ crashes' = crashes
             /\ Restores(ex[e]) => Restores(r)
             /\ Clean(ex[e]) => Clean(r)
    <3>1. \/ \E q \in Extractors : Restores(ex[q])
          \/ \A q \in Extractors : Clean(ex[q])
      BY <1>1, <2>2 DEF SomeoneRestores
    <3> QED
      BY <1>2, <2>2, <3>1
  <2> QED
    BY <2>1, <2>2
<1> QED
  BY <1>3, <1>6, <1>7, <1>8, <1>9 DEF BundleInd

\* One that touches its own copies only, and is not about to delete any.
LEMMA ExStays ==
  ASSUME BundleInd, NEW e \in Extractors, NEW r \in ExRecord,
         ex' = [ex EXCEPT ![e] = r], UNCHANGED <<dir, tar, maker>>,
         dest' = dest, crashes' = crashes, dest' \in Trees, errors' \in Nat,
         crashes' \in Nat, errors <= errors',
         Sound(dest', tar, errors'), HoldsTrees(r, tar, errors'),
         r.stage \notin Deleting, Keeps(ex[e]) => Keeps(r),
         Restores(ex[e]) => Restores(r), Clean(ex[e]) => Clean(r)
  PROVE  BundleInd' /\ (Live => Live')
BY ZenonT(30), ExMove

\* What an extractor may rely on.
LEMMA ExPlace ==
  ASSUME BundleInd, NEW e \in Extractors
  PROVE  /\ ex \in [Extractors -> ExRecord] /\ ex[e] \in ExRecord
         /\ HoldsTrees(ex[e], tar, errors) /\ Sound(dest, tar, errors) /\ dest \in Trees
         /\ errors \in Nat /\ crashes \in Nat
BY DEF BundleInd, BundleTypes, TreesSound

\* A tar that passes the checks is complete.
LEMMA VerifiedIsComplete ==
  ASSUME BundleInd, tar # NoTar, Verified(tar)
  PROVE  /\ Complete(tar) /\ tar.payload = tar.manifest
         /\ tar.manifest # Absent /\ tar.manifest \in Trees
<1>1. tar \in TarRecord /\ Len(tar.manifest) = N
  BY DEF BundleInd, BundleTypes
<1>2. tar.manifest \in Seq(Held) /\ tar.payload \in Seq(Held)
  BY <1>1 DEF TarRecord
<1>3. tar.payload = tar.manifest
  <2>1. /\ DOMAIN tar.payload = DOMAIN tar.manifest
        /\ \A f \in DOMAIN tar.manifest : tar.payload[f] = tar.manifest[f]
    BY DEF Verified
  <2>2. Len(tar.payload) = Len(tar.manifest)
    BY <1>2, <2>1
  <2> QED
    BY <1>2, <2>1, <2>2, SeqEqual
<1> QED
  BY <1>1, <1>2, <1>3, NotAbsent DEF Complete, Trees

\* The bundle is checked and unpacked into tmp.
LEMMA UnpackOK ==
  ASSUME BundleInd, NEW e \in Extractors, Unpack(e)
  PROVE  BundleInd' /\ (Live => Live')
<1> DEFINE x == [stage |-> "check", tmp |-> tar.payload, backup |-> Absent]
           y == [IdleEx EXCEPT !.stage = "raised"]
           r == IF Verified(tar) THEN x ELSE y
<1>1. /\ ex[e].stage = "idle" /\ tar # NoTar /\ ex' = [ex EXCEPT ![e] = r]
      /\ UNCHANGED <<dir, tar, maker, dest, errors, crashes>>
  BY DEF Unpack
<1>2. Absent \in Trees /\ Sound(Absent, tar, errors)
  BY DEF Trees, Sound
<1>3. ASSUME Verified(tar)
      PROVE  x \in ExRecord /\ HoldsTrees(x, tar, errors)
  <2>1. /\ Complete(tar) /\ tar.payload = tar.manifest
        /\ tar.manifest # Absent /\ tar.manifest \in Trees
    BY <1>1, <1>3, VerifiedIsComplete
  <2> QED
    BY <1>2, <2>1 DEF ExRecord, HoldsTrees
<1>4. y \in ExRecord /\ HoldsTrees(y, tar, errors) /\ y.stage = "raised" /\ y.backup = Absent
  BY <1>2 DEF IdleEx, ExRecord, HoldsTrees
<1>5. /\ r \in ExRecord /\ HoldsTrees(r, tar, errors) /\ r.stage \in {"check", "raised"}
      /\ r.backup = Absent
  BY <1>3, <1>4
<1> HIDE DEF r
<1>6. /\ HoldsTrees(ex[e], tar, errors) /\ Sound(dest, tar, errors) /\ dest \in Trees
      /\ errors \in Nat /\ crashes \in Nat
  BY ExPlace
<1>7. ex[e].backup = Absent
  BY <1>1, <1>6 DEF HoldsTrees
<1>8. ~Keeps(ex[e]) /\ ~Restores(ex[e]) /\ Clean(r) /\ r.stage \notin Deleting
  BY <1>5, <1>7 DEF Keeps, Restores, Clean, Deleting
<1>9. dest' = dest /\ errors' = errors /\ crashes' = crashes
  BY <1>1
<1>10. /\ dest' \in Trees /\ errors' \in Nat /\ crashes' \in Nat
      /\ errors <= errors' /\ Sound(dest', tar, errors')
      /\ HoldsTrees(r, tar, errors')
  BY <1>1, <1>5, <1>6, <1>8, <1>9
<1> QED
  BY <1>1, <1>5, <1>6, <1>8, <1>9, <1>10, ExMove

\* dest.exists().
LEMMA CheckDestOK ==
  ASSUME BundleInd, NEW e \in Extractors, CheckDest(e)
  PROVE  BundleInd' /\ (Live => Live')
<1> DEFINE m == ex[e]
           st == IF dest = Absent THEN "swap" ELSE "aside"
           r == [m EXCEPT !.stage = st]
<1>1. /\ m.stage = "check" /\ ex' = [ex EXCEPT ![e] = r]
      /\ UNCHANGED <<dir, tar, maker, dest, errors, crashes>>
  BY DEF CheckDest
<1>2. /\ m \in ExRecord /\ HoldsTrees(m, tar, errors) /\ Sound(dest, tar, errors)
      /\ dest \in Trees /\ errors \in Nat /\ crashes \in Nat
  BY ExPlace
<1>3. st \in {"swap", "aside"}
  OBVIOUS
<1> HIDE DEF m, st
<1>4. r \in ExRecord /\ r.stage = st /\ r.tmp = m.tmp /\ r.backup = m.backup
  BY <1>2, <1>3 DEF ExRecord
<1> HIDE DEF r
<1>5. m.backup = Absent /\ HoldsTrees(r, tar, errors)
  BY <1>1, <1>2, <1>3, <1>4 DEF HoldsTrees
<1>6. ~Keeps(m) /\ ~Restores(m) /\ Clean(r) /\ r.stage \notin Deleting
  BY <1>3, <1>4, <1>5 DEF Keeps, Restores, Clean, Deleting
<1>7. dest' = dest /\ errors' = errors /\ crashes' = crashes
  BY <1>1
<1>8. /\ dest' \in Trees /\ errors' \in Nat /\ crashes' \in Nat
      /\ errors <= errors' /\ Sound(dest', tar, errors')
      /\ HoldsTrees(r, tar, errors')
  BY <1>1, <1>2, <1>4, <1>5, <1>6, <1>7
<1> QED
  BY <1>1, <1>2, <1>4, <1>5, <1>6, <1>7, <1>8, ExMove DEF m

\* The destination is moved to the backup.
LEMMA MoveAsideOK ==
  ASSUME BundleInd, NEW e \in Extractors, MoveAside(e)
  PROVE  BundleInd' /\ (Live => Live')
<1> DEFINE m == ex[e]
<1>1. /\ ex \in [Extractors -> ExRecord]
      /\ m \in ExRecord /\ HoldsTrees(m, tar, errors) /\ Sound(dest, tar, errors)
      /\ dest \in Trees /\ errors \in Nat /\ crashes \in Nat
  BY ExPlace
<1>2. /\ m.stage = "aside" /\ UNCHANGED <<dir, tar, maker, errors, crashes>>
      /\ \/ /\ dest # Absent /\ dest' = Absent
            /\ ex' = [ex EXCEPT ![e].stage = "swap", ![e].backup = dest]
         \/ /\ dest = Absent /\ dest' = dest
            /\ ex' = [ex EXCEPT ![e].stage = "except"]
  BY DEF MoveAside
<1>3. m.backup = Absent /\ m.tmp # Absent
  BY <1>1, <1>2 DEF HoldsTrees
<1>4. CASE /\ dest # Absent /\ dest' = Absent
           /\ ex' = [ex EXCEPT ![e].stage = "swap", ![e].backup = dest]
  <2> DEFINE r == [m EXCEPT !.stage = "swap", !.backup = dest]
  <2>1. ex' = [ex EXCEPT ![e] = r]
    BY <1>1, <1>4 DEF ExRecord
  <2> HIDE DEF m
  <2>2. r \in ExRecord /\ r.stage = "swap" /\ r.tmp = m.tmp /\ r.backup = dest
    BY <1>1 DEF ExRecord
  <2> HIDE DEF r
  <2>3. HoldsTrees(r, tar, errors)
    BY <1>1, <1>2, <1>3, <2>2 DEF HoldsTrees
  <2>4. Keeps(r) /\ Restores(r) /\ r.stage \notin Deleting
    BY <1>4, <2>2 DEF Keeps, Restores, Deleting
  <2>5. Sound(dest', tar, errors) /\ dest' \in Trees
    BY <1>4 DEF Sound, Trees
  <2>6. errors' = errors /\ crashes' = crashes
    BY <1>2
  <2>7. /\ dest' \in Trees /\ errors' \in Nat /\ crashes' \in Nat
        /\ errors <= errors' /\ Sound(dest', tar, errors')
        /\ HoldsTrees(r, tar, errors')
    BY <1>1, <1>2, <2>1, <2>2, <2>3, <2>4, <2>5, <2>6
  <2> QED
    BY <1>1, <1>2, <2>1, <2>2, <2>3, <2>4, <2>5, <2>6, <2>7, ExMove DEF m
<1>5. CASE /\ dest = Absent /\ dest' = dest
           /\ ex' = [ex EXCEPT ![e].stage = "except"]
  <2> DEFINE r == [m EXCEPT !.stage = "except"]
  <2>1. ex' = [ex EXCEPT ![e] = r]
    BY <1>5
  <2> HIDE DEF m
  <2>2. r \in ExRecord /\ r.stage = "except" /\ r.tmp = m.tmp /\ r.backup = m.backup
    BY <1>1 DEF ExRecord
  <2> HIDE DEF r
  <2>3. HoldsTrees(r, tar, errors)
    BY <1>1, <1>2, <2>2 DEF HoldsTrees
  <2>4. ~Keeps(m) /\ ~Restores(m) /\ Clean(r) /\ r.stage \notin Deleting
    BY <1>3, <2>2 DEF Keeps, Restores, Clean, Deleting
  <2>6. errors' = errors /\ crashes' = crashes
    BY <1>2
  <2>7. /\ dest' \in Trees /\ errors' \in Nat /\ crashes' \in Nat
        /\ errors <= errors' /\ Sound(dest', tar, errors')
        /\ HoldsTrees(r, tar, errors')
    BY <1>1, <1>2, <1>5, <2>1, <2>2, <2>3, <2>4, <2>6
  <2> QED
    BY <1>1, <1>2, <1>5, <2>1, <2>2, <2>3, <2>4, <2>6, <2>7, ExMove DEF m
<1> QED
  BY <1>2, <1>4, <1>5

\* tmp becomes the destination, if there is none.
LEMMA SwapOK ==
  ASSUME BundleInd, NEW e \in Extractors, Swap(e)
  PROVE  BundleInd' /\ (Live => Live')
<1> DEFINE m == ex[e]
<1>1. /\ ex \in [Extractors -> ExRecord]
      /\ m \in ExRecord /\ HoldsTrees(m, tar, errors) /\ Sound(dest, tar, errors)
      /\ dest \in Trees /\ errors \in Nat /\ crashes \in Nat
  BY ExPlace
<1>2. /\ m.stage = "swap" /\ UNCHANGED <<dir, tar, maker, errors, crashes>>
      /\ \/ /\ dest' = m.tmp
            /\ ex' = [ex EXCEPT ![e].stage = "sweep", ![e].tmp = Absent]
         \/ /\ dest # Absent /\ dest' = dest
            /\ ex' = [ex EXCEPT ![e].stage = "except"]
  BY DEF Swap, Vacant
<1>3. m.tmp # Absent /\ m.tmp = tar.manifest /\ Complete(tar)
  BY <1>1, <1>2 DEF HoldsTrees
<1>4. CASE /\ dest' = m.tmp
           /\ ex' = [ex EXCEPT ![e].stage = "sweep", ![e].tmp = Absent]
  <2> DEFINE r == [m EXCEPT !.stage = "sweep", !.tmp = Absent]
  <2>1. ex' = [ex EXCEPT ![e] = r]
    BY <1>1, <1>4 DEF ExRecord
  <2> HIDE DEF m
  <2>2. /\ r \in ExRecord /\ r.stage = "sweep" /\ r.tmp = Absent /\ r.backup = m.backup
        /\ dest' \in Trees
    BY <1>1, <1>4 DEF ExRecord, Trees
  <2> HIDE DEF r
  <2>3. HoldsTrees(r, tar, errors)
    BY <1>1, <2>2 DEF HoldsTrees
  <2>4. Sound(dest', tar, errors) /\ dest' # Absent
    BY <1>3, <1>4 DEF Sound
  <2>5. errors' = errors /\ crashes' = crashes
    BY <1>2
  <2>6. /\ dest' \in Trees /\ errors' \in Nat /\ crashes' \in Nat
        /\ errors <= errors' /\ Sound(dest', tar, errors')
        /\ HoldsTrees(r, tar, errors')
    BY <1>1, <1>2, <2>1, <2>2, <2>3, <2>4, <2>5
  <2> QED
    BY <1>1, <1>2, <2>1, <2>2, <2>3, <2>4, <2>5, <2>6, ExMove
<1>5. CASE /\ dest # Absent /\ dest' = dest
           /\ ex' = [ex EXCEPT ![e].stage = "except"]
  <2> DEFINE r == [m EXCEPT !.stage = "except"]
  <2>1. ex' = [ex EXCEPT ![e] = r]
    BY <1>5
  <2> HIDE DEF m
  <2>2. r \in ExRecord /\ r.stage = "except" /\ r.tmp = m.tmp /\ r.backup = m.backup
    BY <1>1 DEF ExRecord
  <2> HIDE DEF r
  <2>3. HoldsTrees(r, tar, errors)
    BY <1>1, <1>2, <2>2 DEF HoldsTrees
  <2>4. errors' = errors /\ crashes' = crashes /\ dest' # Absent
    BY <1>2, <1>5
  <2>5. /\ dest' \in Trees /\ errors' \in Nat /\ crashes' \in Nat
        /\ errors <= errors' /\ Sound(dest', tar, errors')
        /\ HoldsTrees(r, tar, errors')
    BY <1>1, <1>2, <1>5, <2>1, <2>2, <2>3, <2>4
  <2> QED
    BY <1>1, <1>2, <1>5, <2>1, <2>2, <2>3, <2>4, <2>5, ExMove
<1> QED
  BY <1>2, <1>4, <1>5

\* A backup is deleted: by one that has installed its directory, or that found
\* a destination where it would have restored one.
LEMMA DeleteOK ==
  ASSUME BundleInd, NEW e \in Extractors, Sweep(e) \/ DiscardBackup(e)
  PROVE  BundleInd' /\ (Live => Live')
<1> DEFINE m == ex[e]
<1>1. /\ ex \in [Extractors -> ExRecord]
      /\ m \in ExRecord /\ HoldsTrees(m, tar, errors) /\ Sound(dest, tar, errors)
      /\ dest \in Trees /\ errors \in Nat /\ crashes \in Nat
  BY ExPlace
<1>2. PICK st \in {"done", "raised"} :
        /\ m.stage \in Deleting
        /\ UNCHANGED <<dir, tar, maker, dest, errors, crashes>>
        /\ ex' = [ex EXCEPT ![e].stage = st, ![e].backup = Absent]
  <2>1. CASE Sweep(e)
    BY <2>1 DEF Sweep, Deleting
  <2>2. CASE DiscardBackup(e)
    BY <2>2 DEF DiscardBackup, Deleting
  <2> QED
    BY <2>1, <2>2
<1> DEFINE r == [m EXCEPT !.stage = st, !.backup = Absent]
<1>3. ex' = [ex EXCEPT ![e] = r]
  BY <1>1, <1>2 DEF ExRecord
<1> HIDE DEF m
<1>4. r \in ExRecord /\ r.stage = st /\ r.tmp = m.tmp /\ r.backup = Absent
  BY <1>1 DEF ExRecord, Trees
<1> HIDE DEF r
<1>5. HoldsTrees(r, tar, errors)
  BY <1>1, <1>2, <1>4 DEF HoldsTrees, Sound, Deleting
<1>6. /\ ~Keeps(m) /\ ~Restores(m) /\ ~Clean(m) /\ r.stage \notin Deleting
  BY <1>2, <1>4 DEF Keeps, Restores, Clean, Deleting
<1>7. dest' = dest /\ errors' = errors /\ crashes' = crashes
  BY <1>2
<1>8. /\ dest' \in Trees /\ errors' \in Nat /\ crashes' \in Nat
      /\ errors <= errors' /\ Sound(dest', tar, errors')
      /\ HoldsTrees(r, tar, errors')
  BY <1>1, <1>2, <1>3, <1>4, <1>5, <1>6, <1>7
<1> QED
  BY <1>1, <1>2, <1>3, <1>4, <1>5, <1>6, <1>7, <1>8, ExMove DEF m

\* A call of the file system fails.
LEMMA FailCallOK ==
  ASSUME BundleInd, NEW e \in Extractors, FailCall(e)
  PROVE  BundleInd' /\ (Live => Live')
<1> DEFINE m == ex[e]
           b == IF m.stage = "sweep" THEN Partial ELSE m.backup
           r == [m EXCEPT !.stage = "except", !.backup = b]
<1>1. /\ ex \in [Extractors -> ExRecord]
      /\ m \in ExRecord /\ HoldsTrees(m, tar, errors) /\ Sound(dest, tar, errors)
      /\ dest \in Trees /\ errors \in Nat /\ crashes \in Nat
  BY ExPlace
<1>2. /\ m.stage \in {"aside", "swap", "sweep"} /\ (m.stage = "sweep" => m.backup # Absent)
      /\ errors' = errors + 1 /\ UNCHANGED <<dir, tar, maker, dest, crashes>>
      /\ ex' = [ex EXCEPT ![e].stage = "except", ![e].backup = b]
  BY DEF FailCall
<1>3. ex' = [ex EXCEPT ![e] = r]
  BY <1>1, <1>2 DEF ExRecord
<1>4. /\ b \in Trees /\ Sound(b, tar, errors') /\ (b # Absent <=> m.backup # Absent)
      /\ Sound(dest, tar, errors')
  BY <1>1, <1>2, NotAbsent DEF ExRecord, Trees, HoldsTrees, Sound
<1> HIDE DEF m, b
<1>5. r \in ExRecord /\ r.stage = "except" /\ r.tmp = m.tmp /\ r.backup = b
  BY <1>1, <1>4 DEF ExRecord
<1> HIDE DEF r
<1>6. HoldsTrees(r, tar, errors')
  BY <1>1, <1>2, <1>4, <1>5 DEF HoldsTrees
<1>7. /\ Keeps(m) => Keeps(r)
      /\ Restores(m) => Restores(r)
      /\ Clean(m) => Clean(r)
      /\ r.stage \notin Deleting
  BY <1>4, <1>5 DEF Keeps, Restores, Clean, Deleting
<1>8. /\ dest' = dest /\ crashes' = crashes /\ errors' \in Nat /\ errors <= errors'
      /\ UNCHANGED <<dir, tar, maker>> /\ dest' \in Trees /\ crashes' \in Nat
      /\ Sound(dest', tar, errors')
  BY <1>1, <1>2, <1>4
<1>9. /\ r \in ExRecord
      /\ Keeps(ex[e]) => Keeps(r)
      /\ Restores(ex[e]) => Restores(r)
      /\ Clean(ex[e]) => Clean(r)
  BY <1>5, <1>7 DEF m
<1> QED
  BY <1>3, <1>6, <1>7, <1>8, <1>9, ExStays

\* A call of the error handler fails.
LEMMA FailHandlerOK ==
  ASSUME BundleInd, NEW e \in Extractors, FailHandler(e)
  PROVE  BundleInd' /\ (Live => Live')
<1> DEFINE m == ex[e]
           t == IF m.tmp = Absent THEN m.tmp ELSE Partial
           b == IF m.stage = "discard" THEN Partial ELSE m.backup
           r == [m EXCEPT !.stage = "left", !.tmp = t, !.backup = b]
<1>1. /\ ex \in [Extractors -> ExRecord]
      /\ m \in ExRecord /\ HoldsTrees(m, tar, errors) /\ Sound(dest, tar, errors)
      /\ dest \in Trees /\ errors \in Nat /\ crashes \in Nat
  BY ExPlace
<1>2. /\ m.stage \in {"except", "restore", "discard"}
      /\ errors' = errors + 1 /\ UNCHANGED <<dir, tar, maker, dest, crashes>>
      /\ ex' = [ex EXCEPT ![e].stage = "left", ![e].tmp = t, ![e].backup = b]
  BY DEF FailHandler
<1>3. ex' = [ex EXCEPT ![e] = r]
  BY <1>1, <1>2 DEF ExRecord
<1>4. m.stage = "discard" => m.backup # Absent
  BY <1>1 DEF HoldsTrees
<1>5. b \in Trees /\ t \in Trees /\ (b # Absent <=> m.backup # Absent)
  BY <1>1, <1>4, NotAbsent DEF ExRecord, Trees
<1>6. Sound(b, tar, errors') /\ Sound(dest, tar, errors')
  BY <1>1, <1>2 DEF HoldsTrees, Sound
<1> HIDE DEF m, b, t
<1>7. r \in ExRecord /\ r.stage = "left" /\ r.tmp = t /\ r.backup = b
  BY <1>1, <1>5 DEF ExRecord
<1> HIDE DEF r
<1>8. HoldsTrees(r, tar, errors')
  BY <1>6, <1>7 DEF HoldsTrees
<1>9. /\ Keeps(m) => Keeps(r)
      /\ Restores(m) => Restores(r)
      /\ Clean(m) => Clean(r)
      /\ r.stage \notin Deleting
  BY <1>5, <1>7 DEF Keeps, Restores, Clean, Deleting
<1>10. /\ dest' = dest /\ crashes' = crashes /\ errors' \in Nat /\ errors <= errors'
       /\ UNCHANGED <<dir, tar, maker>> /\ dest' \in Trees /\ crashes' \in Nat
       /\ Sound(dest', tar, errors')
  BY <1>1, <1>2, <1>6
<1>11. /\ r \in ExRecord
       /\ Keeps(ex[e]) => Keeps(r)
       /\ Restores(ex[e]) => Restores(r)
       /\ Clean(ex[e]) => Clean(r)
  BY <1>7, <1>9 DEF m
<1> QED
  BY <1>3, <1>8, <1>9, <1>10, <1>11, ExStays

\* The handler decides by what it finds.
LEMMA HandleErrorOK ==
  ASSUME BundleInd, NEW e \in Extractors, HandleError(e)
  PROVE  BundleInd' /\ (Live => Live')
<1> DEFINE m == ex[e]
           st == IF m.backup = Absent THEN "raised"
                 ELSE IF dest = Absent THEN "restore" ELSE "discard"
           r == [m EXCEPT !.tmp = Absent, !.stage = st]
<1>1. /\ ex \in [Extractors -> ExRecord]
      /\ m \in ExRecord /\ HoldsTrees(m, tar, errors) /\ Sound(dest, tar, errors)
      /\ dest \in Trees /\ errors \in Nat /\ crashes \in Nat
  BY ExPlace
<1>2. /\ m.stage = "except" /\ UNCHANGED <<dir, tar, maker, dest, errors, crashes>>
      /\ ex' = [ex EXCEPT ![e].tmp = Absent, ![e].stage = st]
  BY DEF HandleError
<1>3. ex' = [ex EXCEPT ![e] = r]
  BY <1>1, <1>2 DEF ExRecord
<1> HIDE DEF m
<1>4. /\ m.backup = Absent => st = "raised"
      /\ m.backup # Absent /\ dest = Absent => st = "restore"
      /\ m.backup # Absent /\ dest # Absent => st = "discard"
  OBVIOUS
<1> HIDE DEF st
<1>5. r \in ExRecord /\ r.stage = st /\ r.tmp = Absent /\ r.backup = m.backup
  BY <1>1, <1>4 DEF ExRecord, Trees
<1> HIDE DEF r
<1>6. HoldsTrees(r, tar, errors)
  BY <1>1, <1>4, <1>5 DEF HoldsTrees
<1>7. dest' = dest /\ errors' = errors /\ crashes' = crashes
  BY <1>2
<1>8. /\ dest' # Absent \/ (Keeps(m) => Keeps(r))
      /\ r.stage \in Deleting => dest' # Absent
      /\ \/ dest' # Absent \/ Restores(r)
         \/ (Restores(m) => Restores(r)) /\ (Clean(m) => Clean(r))
  BY <1>4, <1>5, <1>7 DEF Keeps, Restores, Clean, Deleting
<1>9. /\ dest' \in Trees /\ errors' \in Nat /\ crashes' \in Nat
      /\ errors <= errors' /\ Sound(dest', tar, errors')
      /\ HoldsTrees(r, tar, errors')
  BY <1>1, <1>2, <1>3, <1>5, <1>6, <1>7, <1>8
<1> QED
  BY <1>1, <1>2, <1>3, <1>5, <1>6, <1>7, <1>8, <1>9, ExMove DEF m

\* The backup becomes the destination again, if there is none.
LEMMA RestoreOK ==
  ASSUME BundleInd, NEW e \in Extractors, RestoreBackup(e)
  PROVE  BundleInd' /\ (Live => Live')
<1> DEFINE m == ex[e]
<1>1. /\ ex \in [Extractors -> ExRecord]
      /\ m \in ExRecord /\ HoldsTrees(m, tar, errors) /\ Sound(dest, tar, errors)
      /\ dest \in Trees /\ errors \in Nat /\ crashes \in Nat
  BY ExPlace
<1>2. /\ m.stage = "restore" /\ UNCHANGED <<dir, tar, maker, errors, crashes>>
      /\ \/ /\ dest' = m.backup
            /\ ex' = [ex EXCEPT ![e].stage = "raised", ![e].backup = Absent]
         \/ /\ dest # Absent /\ dest' = dest
            /\ ex' = [ex EXCEPT ![e].stage = "raised"]
  BY DEF RestoreBackup, Vacant
<1>3. m.backup # Absent /\ Sound(m.backup, tar, errors)
  BY <1>1, <1>2 DEF HoldsTrees
<1>4. CASE /\ dest' = m.backup
           /\ ex' = [ex EXCEPT ![e].stage = "raised", ![e].backup = Absent]
  <2> DEFINE r == [m EXCEPT !.stage = "raised", !.backup = Absent]
  <2>1. ex' = [ex EXCEPT ![e] = r]
    BY <1>1, <1>4 DEF ExRecord
  <2> HIDE DEF m
  <2>2. /\ r \in ExRecord /\ r.stage = "raised" /\ r.tmp = m.tmp /\ r.backup = Absent
        /\ dest' \in Trees
    BY <1>1, <1>4 DEF ExRecord, Trees
  <2> HIDE DEF r
  <2>3. HoldsTrees(r, tar, errors)
    BY <1>1, <1>2, <2>2 DEF HoldsTrees, Sound
  <2>4. Sound(dest', tar, errors) /\ dest' # Absent /\ r.stage \notin Deleting
    BY <1>3, <1>4, <2>2 DEF Deleting
  <2>5. errors' = errors /\ crashes' = crashes
    BY <1>2
  <2>6. /\ dest' \in Trees /\ errors' \in Nat /\ crashes' \in Nat
        /\ errors <= errors' /\ Sound(dest', tar, errors')
        /\ HoldsTrees(r, tar, errors')
    BY <1>1, <1>2, <2>1, <2>2, <2>3, <2>4, <2>5
  <2> QED
    BY <1>1, <1>2, <2>1, <2>2, <2>3, <2>4, <2>5, <2>6, ExMove
<1>5. CASE /\ dest # Absent /\ dest' = dest
           /\ ex' = [ex EXCEPT ![e].stage = "raised"]
  <2> DEFINE r == [m EXCEPT !.stage = "raised"]
  <2>1. ex' = [ex EXCEPT ![e] = r]
    BY <1>5
  <2> HIDE DEF m
  <2>2. r \in ExRecord /\ r.stage = "raised" /\ r.tmp = m.tmp /\ r.backup = m.backup
    BY <1>1 DEF ExRecord
  <2> HIDE DEF r
  <2>3. HoldsTrees(r, tar, errors)
    BY <1>1, <1>2, <2>2 DEF HoldsTrees
  <2>4. errors' = errors /\ crashes' = crashes /\ dest' # Absent
    BY <1>2, <1>5
  <2>5. /\ dest' \in Trees /\ errors' \in Nat /\ crashes' \in Nat
        /\ errors <= errors' /\ Sound(dest', tar, errors')
        /\ HoldsTrees(r, tar, errors')
    BY <1>1, <1>2, <1>5, <2>1, <2>2, <2>3, <2>4
  <2> QED
    BY <1>1, <1>2, <1>5, <2>1, <2>2, <2>3, <2>4, <2>5, ExMove
<1> QED
  BY <1>2, <1>4, <1>5

\* A kill leaves tmp and backup behind.
LEMMA KillExtractorOK ==
  ASSUME BundleInd, NEW e \in Extractors, KillExtractor(e)
  PROVE  BundleInd' /\ (Live => Live')
<1> DEFINE m == ex[e]
           r == [m EXCEPT !.stage = "killed"]
<1>1. /\ m \in ExRecord /\ HoldsTrees(m, tar, errors) /\ Sound(dest, tar, errors)
      /\ dest \in Trees /\ errors \in Nat /\ crashes \in Nat
  BY ExPlace
<1>2. /\ crashes' = crashes + 1 /\ UNCHANGED <<dir, tar, maker, dest, errors>>
      /\ ex' = [ex EXCEPT ![e] = r] /\ m.stage # "left"
  BY DEF KillExtractor
<1> HIDE DEF m
<1>3. r \in ExRecord /\ r.stage = "killed" /\ r.tmp = m.tmp /\ r.backup = m.backup
  BY <1>1 DEF ExRecord
<1> HIDE DEF r
<1>4. HoldsTrees(r, tar, errors)
  BY <1>1, <1>2, <1>3 DEF HoldsTrees
<1>5. (Keeps(m) => Keeps(r)) /\ r.stage \notin Deleting
  BY <1>3 DEF Keeps, Deleting
<1>6. dest' = dest /\ errors' = errors /\ crashes' \in Nat /\ crashes' # 0
  BY <1>1, <1>2
<1>7. /\ dest' \in Trees /\ errors' \in Nat /\ crashes' \in Nat
      /\ errors <= errors' /\ Sound(dest', tar, errors')
      /\ HoldsTrees(r, tar, errors')
  BY <1>1, <1>2, <1>3, <1>4, <1>5, <1>6
<1> QED
  BY <1>1, <1>2, <1>3, <1>4, <1>5, <1>6, <1>7, ExMove DEF m

\* Every step keeps the invariant, and a live copy if there is one.
LEMMA BundleStep ==
  ASSUME BundleInd, [BundleNext]_bvars
  PROVE  BundleInd' /\ (Live => Live')
<1>1. CASE UNCHANGED bvars
  <2>1. UNCHANGED <<dir, tar, maker, dest, ex, errors, crashes>>
    BY <1>1 DEF bvars
  <2>2. BundleTypes'
    BY <2>1 DEF BundleInd, BundleTypes
  <2> QED
    BY <2>1, <2>2, MakerMove
<1>2. ASSUME NEW e \in Extractors, \/ Extract(e)
                                  \/ FailCall(e) \/ FailHandler(e) \/ KillExtractor(e)
      PROVE  BundleInd' /\ (Live => Live')
  BY <1>2, UnpackOK, CheckDestOK, MoveAsideOK, SwapOK, DeleteOK, HandleErrorOK,
     RestoreOK, FailCallOK, FailHandlerOK, KillExtractorOK DEF Extract
<1> QED
  BY <1>1, <1>2, ListSourceOK, SourceEntriesOK, OpenTarOK, AddFileOK, CloseOrWriteOK DEF BundleNext

\* Whatever is written to the source while it is bundled, and whatever fails
\* or is killed while any number of processes extract: a destination is the
\* old one or the one the manifest describes; and when nothing is under way
\* and nothing was killed it is there, or a call of an error handler failed and
\* its backup is (create_artifact_bundle, extract_artifact_bundle).
THEOREM BundlesAlways == BundleSpec => []BundleInv
<1>1. BundleInit => BundleInd
  BY BundleInitOK
<1>2. BundleInd /\ [BundleNext]_bvars => BundleInd'
  BY BundleStep
<1>3. BundleInd => BundleInv
  <2> SUFFICES ASSUME BundleInd
               PROVE  BundleInv
    OBVIOUS
  <2>1. BundleTypes /\ TreesSound /\ SomeoneRestores
    BY DEF BundleInd
  <2>2. BundleTypeOK
    BY <2>1 DEF BundleTypes, BundleTypeOK, ExRecord, MakerRecord, TarRecord
  <2>3. InstalledIsManifest
    BY <2>1 DEF TreesSound, HoldsTrees, Sound, InstalledIsManifest
  <2>4. QuietMeansInstalled
    BY <2>1 DEF SomeoneRestores, Restores, Clean, QuietMeansInstalled
  <2> QED
    BY <2>2, <2>3, <2>4 DEF BundleInv
<1> QED
  BY <1>1, <1>2, <1>3, PTL DEF BundleSpec

\* No step of any extractor, failing call or kill removes the last copy of the
\* destination: a backup is deleted only while there is another directory that
\* nobody is deleting (extract_artifact_bundle).
THEOREM LastCopyStays == BundleSpec => LastCopySurvives
<1> DEFINE There == dest # Absent \/ \E e \in Extractors : ex[e].backup # Absent
<1>1. BundleInit => BundleInd
  BY BundleInitOK
<1>2. BundleInd /\ [BundleNext]_bvars => BundleInd'
  BY BundleStep
<1>3. BundleInd /\ [BundleNext]_bvars =>
        [There => \/ dest' # Absent
                  \/ \E e \in Extractors : ex'[e].backup # Absent]_bvars
  <2> SUFFICES ASSUME BundleInd, [BundleNext]_bvars, There
               PROVE  \/ dest' # Absent
                      \/ \E e \in Extractors : ex'[e].backup # Absent
    OBVIOUS
  <2>1. Live
    BY DEF BundleInd, DeletersAreSafe, Live, Keeps
  <2>2. Live'
    BY <2>1, BundleStep
  <2> QED
    BY <2>2 DEF Live, Keeps
<1> QED
  BY <1>1, <1>2, <1>3, PTL DEF BundleSpec, LastCopySurvives
=============================================================================
