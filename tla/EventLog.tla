------------------------------ MODULE EventLog ------------------------------
(* The canonical event log: shiroe/storage/events.py (EventLog) under the    *)
(* lock of shiroe/lock.py (MemoryLock).                                      *)
(*                                                                           *)
(* A writer is one open EventLog object: every store (WorkStore,             *)
(* ApprovalService, CapabilityStore, ...) and every process opens its own.   *)
(* EventLog.append is a sequence of steps, because other processes run, and  *)
(* a crash can fall, between any two of its effects on the disk.  The reader *)
(* is a `shiroe state verify` or `shiroe state rebuild` process; it takes no *)
(* lock.                                                                     *)
EXTENDS ChainOps, FiniteSets

CONSTANTS
  Writers,     \* the EventLog objects that may be open
  MaxEvents,   \* bound: envelopes in the log
  MaxFaults,   \* bound: faults that strike
  Faults       \* which kinds of fault may strike

ASSUME WritersAssumption == IsFiniteSet(Writers)
ASSUME BoundsAssumption == MaxEvents \in Nat /\ MaxFaults \in Nat
ASSUME FaultsAssumption == Faults \subseteq {"host", "process", "io"}

VARIABLES
  log,        \* the concatenated events.jsonl files
  head,       \* head.json: NoHead, or the hash it stores
  lockfile,   \* memory/.lock exists
  pc,         \* where each writer is inside append()
  recovered,  \* EventLog._recovered of each writer
  base,       \* the local `head` of append(), per writer
  sealed,     \* the hash of the envelope each writer appended last
  mirror,     \* hashes with a row in the SQLite table memory_events
  acked,      \* hashes whose append() returned to its caller
  walk,       \* the reader's view of the log: what its walk found
  verdict,    \* outcome of the reader's last verify_chain
  faults      \* faults that have struck so far

writerVars == <<pc, recovered, base, sealed>>
readerVars == <<walk, verdict>>
vars == <<log, head, lockfile, pc, recovered, base, sealed, mirror, acked,
          walk, verdict, faults>>

NoHead == -1      \* head.json does not exist

\* closed: no such object.  idle: open, not appending.  waiting: in
\* MemoryLock.acquire.  The others hold memory/.lock.
Critical == {"locked", "loaded", "appended", "written", "mirrored"}
PCs == {"closed", "idle", "waiting"} \cup Critical

\* The reader between the two reads of verify_chain: idle, or what the walk
\* over the JSONL files found (no break, and the last hash).
Walks == [active : BOOLEAN, ok : BOOLEAN, tail : Nat]
Idle == [active |-> FALSE, ok |-> TRUE, tail |-> Genesis]

TypeOK ==
  /\ log \in Seq(Envelopes)
  /\ head \in Nat \cup {NoHead}
  /\ lockfile \in BOOLEAN
  /\ pc \in [Writers -> PCs]
  /\ recovered \in [Writers -> BOOLEAN]
  /\ base \in [Writers -> Nat]
  /\ sealed \in [Writers -> Nat]
  /\ mirror \subseteq Nat
  /\ acked \subseteq Nat
  /\ walk \in Walks
  /\ verdict \in {"none", "pass", "fail"}
  /\ faults \in Nat

Init ==
  /\ log = <<>>
  /\ head = NoHead
  /\ lockfile = FALSE
  /\ pc = [w \in Writers |-> "closed"]
  /\ recovered = [w \in Writers |-> FALSE]
  /\ base = [w \in Writers |-> Genesis]
  /\ sealed = [w \in Writers |-> Genesis]
  /\ mirror = {}
  /\ acked = {}
  /\ walk = Idle
  /\ verdict = "none"
  /\ faults = 0
-----------------------------------------------------------------------------
(* Opening a log and taking the lock.                                        *)

GoTo(w, label) == pc' = [pc EXCEPT ![w] = label]

\* EventLog.__init__: head reconciliation is deferred to the first head read.
Open(w) ==
  /\ pc[w] = "closed"
  /\ GoTo(w, "idle")
  /\ recovered' = [recovered EXCEPT ![w] = FALSE]
  /\ UNCHANGED <<log, head, lockfile, base, sealed, mirror, acked, readerVars, faults>>

\* A store calls append(); its payload is scrubbed before the lock is taken.
CallAppend(w) ==
  /\ pc[w] = "idle"
  /\ Len(log) < MaxEvents
  /\ GoTo(w, "waiting")
  /\ UNCHANGED <<log, head, lockfile, recovered, base, sealed, mirror, acked,
                 readerVars, faults>>

\* A MemoryLock that opens the lock file without O_EXCL.
AcquireShared(w) ==
  /\ pc[w] = "waiting"
  /\ lockfile' = TRUE
  /\ GoTo(w, "locked")
  /\ UNCHANGED <<log, head, recovered, base, sealed, mirror, acked, readerVars, faults>>

\* MemoryLock.acquire: os.open with O_CREAT | O_EXCL succeeds.
Acquire(w) ==
  /\ pc[w] = "waiting"
  /\ ~ lockfile
  /\ lockfile' = TRUE
  /\ GoTo(w, "locked")
  /\ UNCHANGED <<log, head, recovered, base, sealed, mirror, acked, readerVars, faults>>

\* A MemoryLock.acquire that would sleep on without looking at its deadline.
LockTimeoutNever(w) ==
  /\ FALSE
  /\ UNCHANGED vars

\* MemoryLock.acquire: the file still exists at the deadline, LockError.
LockTimeout(w) ==
  /\ pc[w] = "waiting"
  /\ lockfile
  /\ GoTo(w, "idle")
  /\ UNCHANGED <<log, head, lockfile, recovered, base, sealed, mirror, acked,
                 readerVars, faults>>

\* MemoryLock.__exit__: the body of the `with` is left, by return or by an
\* exception, and the lock file is unlinked.
Unlock(w) == lockfile' = FALSE /\ GoTo(w, "idle")
-----------------------------------------------------------------------------
(* The body of append(), under the lock.                                     *)

\* _recover_head would accept the stored head: the chain validates, and the
\* head is missing, genesis, or names an envelope the log contains.
Reconcilable ==
  /\ ChainOK(log)
  /\ head \in {NoHead, Genesis} \cup Hashes(log)

\* A reconciliation that rebuilds the head from the first envelope of the log.
ReconciledToFirst == IF log = <<>> THEN head ELSE log[1].hash

\* What head.json holds once _recover_head has returned.
Reconciled == IF log = <<>> THEN head ELSE TailHash(log)

\* A _load_head without the genesis sentinel.
HeadOrMissing(h) == h

\* What _load_head returns for a given head.json.
HeadOrGenesis(h) == IF h = NoHead THEN Genesis ELSE h

\* A _load_head that trusts head.json and skips _recover_head.
LoadHeadUnreconciled(w) ==
  /\ pc[w] = "locked"
  /\ head' = head
  /\ recovered' = [recovered EXCEPT ![w] = TRUE]
  /\ base' = [base EXCEPT ![w] = HeadOrGenesis(head')]
  /\ GoTo(w, "loaded")
  /\ UNCHANGED <<log, lockfile, sealed, mirror, acked, readerVars, faults>>

\* _load_head: reconcile head.json with the log the first time this object
\* reads it, trust it every time after that.
LoadHead(w) ==
  /\ pc[w] = "locked"
  /\ \/ recovered[w] /\ head' = head
     \/ ~ recovered[w] /\ Reconcilable /\ head' = Reconciled
  /\ recovered' = [recovered EXCEPT ![w] = TRUE]
  /\ base' = [base EXCEPT ![w] = HeadOrGenesis(head')]
  /\ GoTo(w, "loaded")
  /\ UNCHANGED <<log, lockfile, sealed, mirror, acked, readerVars, faults>>

\* _recover_head raises HashChainError: the chain does not validate, or the
\* head names an envelope that is not in the log.
RefuseHead(w) ==
  /\ pc[w] = "locked"
  /\ ~ recovered[w]
  /\ ~ Reconcilable
  /\ Unlock(w)
  /\ UNCHANGED <<log, head, recovered, base, sealed, mirror, acked, readerVars, faults>>

\* validate_envelope raises (unknown event type, bad privacy class): nothing
\* was written yet.
RejectEnvelope(w) ==
  /\ pc[w] = "loaded"
  /\ Unlock(w)
  /\ UNCHANGED <<log, head, recovered, base, sealed, mirror, acked, readerVars, faults>>

\* An append that stays in a buffer and never reaches the file.
AppendRecordBuffered(w) ==
  /\ pc[w] = "loaded"
  /\ sealed' = [sealed EXCEPT ![w] = Len(log) + 1]
  /\ GoTo(w, "appended")
  /\ UNCHANGED <<log, head, lockfile, recovered, base, mirror, acked, readerVars, faults>>

\* _prepared seals the envelope on the loaded head; atomic_append writes and
\* fsyncs its line.  A fresh hash: no envelope has it.
AppendRecord(w) ==
  /\ pc[w] = "loaded"
  /\ LET env == [hash |-> Len(log) + 1, prev |-> base[w]]
     IN /\ log' = Append(log, env)
        /\ sealed' = [sealed EXCEPT ![w] = env.hash]
  /\ GoTo(w, "appended")
  /\ UNCHANGED <<head, lockfile, recovered, base, mirror, acked, readerVars, faults>>

\* An append() that never moves head.json.
WriteHeadNever(w) ==
  /\ pc[w] = "appended"
  /\ GoTo(w, "written")
  /\ UNCHANGED <<log, head, lockfile, recovered, base, sealed, mirror, acked,
                 readerVars, faults>>

\* An append() that writes the previous hash into head.json.
WriteHeadPrevious(w) ==
  /\ pc[w] = "appended"
  /\ head' = base[w]
  /\ GoTo(w, "written")
  /\ UNCHANGED <<log, lockfile, recovered, base, sealed, mirror, acked, readerVars, faults>>

\* _write_head: head.json is replaced atomically.
WriteHead(w) ==
  /\ pc[w] = "appended"
  /\ head' = sealed[w]
  /\ GoTo(w, "written")
  /\ UNCHANGED <<log, lockfile, recovered, base, sealed, mirror, acked, readerVars, faults>>

\* A mirror insert left to the caller's connection, which never commits it.
MirrorRowUncommitted(w) ==
  /\ pc[w] = "written"
  /\ GoTo(w, "mirrored")
  /\ UNCHANGED <<log, head, lockfile, recovered, base, sealed, mirror, acked,
                 readerVars, faults>>

\* _mirror_row and commit: the row reaches memory_events.
MirrorRow(w) ==
  /\ pc[w] = "written"
  /\ mirror' = mirror \cup {sealed[w]}
  /\ GoTo(w, "mirrored")
  /\ UNCHANGED <<log, head, lockfile, recovered, base, sealed, acked, readerVars, faults>>

\* append() leaves the `with` and returns the sealed envelope.
Return(w) ==
  /\ pc[w] = "mirrored"
  /\ acked' = acked \cup {sealed[w]}
  /\ Unlock(w)
  /\ UNCHANGED <<log, head, recovered, base, sealed, mirror, readerVars, faults>>
-----------------------------------------------------------------------------
(* The unlocked reader: verify_chain, and replay_into, which starts with it. *)

\* What the walk over the JSONL files finds.
WalkOf(l) == [active |-> TRUE, ok |-> ChainOK(l), tail |-> TailHash(l)]

\* A verify_chain that never looks at the links it walks over.
AcceptsHeadOnly(found, h) == found.tail # Genesis => h \in {NoHead, found.tail}

\* verify_chain returns: no broken link, and head.json, if the log is not empty
\* and the file exists, equals the last hash of the walk.
Accepts(found, h) ==
  /\ found.ok
  /\ found.tail # Genesis => h \in {NoHead, found.tail}

\* verify_chain first walks the JSONL files ...
VerifyWalk ==
  /\ ~ walk.active
  /\ walk' = WalkOf(log)
  /\ verdict' = "none"
  /\ UNCHANGED <<log, head, lockfile, writerVars, mirror, acked, faults>>

\* ... and then reads head.json.
VerifyHead ==
  /\ walk.active
  /\ verdict' = IF Accepts(walk, head) THEN "pass" ELSE "fail"
  /\ walk' = [walk EXCEPT !.active = FALSE]
  /\ UNCHANGED <<log, head, lockfile, writerVars, mirror, acked, faults>>

\* replay_into, once verify_chain returned: the mirror is emptied and refilled
\* from a second walk over the log, in one SQLite transaction.
ReplayMirror ==
  /\ verdict = "pass"
  /\ mirror' = Hashes(log)
  /\ verdict' = "none"
  /\ UNCHANGED <<log, head, lockfile, writerVars, acked, walk, faults>>
-----------------------------------------------------------------------------
(* Faults.                                                                   *)

Strike(kind) ==
  /\ kind \in Faults
  /\ faults < MaxFaults
  /\ faults' = faults + 1

\* The host goes down: every open object is gone, the files stay as they are.
HostCrash ==
  /\ Strike("host")
  /\ pc' = [w \in Writers |-> "closed"]
  /\ recovered' = [w \in Writers |-> FALSE]
  /\ walk' = Idle
  /\ verdict' = "none"
  /\ UNCHANGED <<log, head, lockfile, base, sealed, mirror, acked>>

\* One process dies; the others keep their open logs.
ProcessDeath(w) ==
  /\ Strike("process")
  /\ pc[w] # "closed"
  /\ GoTo(w, "closed")
  /\ recovered' = [recovered EXCEPT ![w] = FALSE]
  /\ UNCHANGED <<log, head, lockfile, base, sealed, mirror, acked, readerVars>>

\* An OSError or sqlite3.Error between two effects of append() reaches the
\* caller as an exception; the `with` statement releases the lock and the
\* EventLog object stays usable.
IOFailure(w) ==
  /\ Strike("io")
  /\ pc[w] \in {"locked", "loaded", "appended", "written"}
  /\ Unlock(w)
  /\ UNCHANGED <<log, head, recovered, base, sealed, mirror, acked, readerVars>>

\* The operator deletes a lock file whose holder (LockError names its pid) is
\* dead.  Nothing in the code does this.
RemoveStaleLock ==
  /\ lockfile
  /\ \A w \in Writers : pc[w] \notin Critical
  /\ lockfile' = FALSE
  /\ UNCHANGED <<log, head, writerVars, mirror, acked, readerVars, faults>>
-----------------------------------------------------------------------------
\* The steps a running writer takes once append() was called.
Step(w) ==
  \/ Acquire(w)
  \/ LockTimeout(w)
  \/ LoadHead(w)
  \/ RefuseHead(w)
  \/ AppendRecord(w)
  \/ WriteHead(w)
  \/ MirrorRow(w)
  \/ Return(w)

Next ==
  \/ \E w \in Writers : \/ Open(w)
                        \/ CallAppend(w)
                        \/ Step(w)
                        \/ RejectEnvelope(w)
                        \/ ProcessDeath(w)
                        \/ IOFailure(w)
  \/ VerifyWalk
  \/ VerifyHead
  \/ ReplayMirror
  \/ HostCrash
  \/ RemoveStaleLock

Spec == Init /\ [][Next]_vars

\* A writer that is running keeps running: the lock's wait has a deadline and
\* nothing else in append() blocks.  Nobody is obliged to open a log, to
\* append, to fail, to verify or to delete a stale lock.
Fairness == \A w \in Writers : WF_vars(Step(w))

FairSpec == Spec /\ Fairness
-----------------------------------------------------------------------------
(* Properties.                                                               *)

\* At most one writer is between acquire() and release() of memory/.lock, and
\* the lock file exists while it is, also when operators delete the lock files
\* that dead processes left behind.
MutualExclusion ==
  /\ \A v, w \in Writers : pc[v] \in Critical /\ pc[w] \in Critical => v = w
  /\ (\E w \in Writers : pc[w] \in Critical) => lockfile

\* The log is one unbroken hash chain: no append was sealed on a stale head.
\* (tests/test_event_log_crash_consistency.py: a crash between the event append
\* and the head replacement must not create a fork.)
ChainIntact == ChainOK(log)

\* Every fork has its own fault: however many writers keep appending after a
\* fault, they add no second break, because the first append after it moves
\* head.json back to the end of the log.
ForksBoundedByFaults == Cardinality(Breaks(log)) <= faults

\* head.json never names an envelope that the log does not hold, whatever
\* faults struck, so _recover_head's "possible truncation" refusal is never
\* raised against a log that nobody truncated.
HeadNamesLoggedEvent == head \in {NoHead} \cup Hashes(log)

\* head.json is at most one envelope behind the log, whatever faults struck: it
\* holds the last hash or the hash the last envelope was sealed on.
HeadLagsByAtMostOne ==
  log # <<>> => HeadOrGenesis(head) \in {TailHash(log), log[Len(log)].prev}

\* What append() reported as sealed stays in the log and in the SQLite mirror,
\* through crashes, failed appends and rebuilds.
AckedIsDurable == acked \subseteq Hashes(log) \cap mirror

\* A `state verify` that reports pass speaks of a log without forks, up to the
\* envelopes that were appended after it looked.
PassMeansChained ==
  verdict = "pass" => \E n \in 0 .. Len(log) : /\ ChainOK(SubSeq(log, 1, n))
                                               /\ TailHash(SubSeq(log, 1, n)) = walk.tail

\* Every append() comes back: a writer that waits for memory/.lock gets
\* through, raises LockError or HashChainError, or dies; it never waits for
\* ever behind a lock file whose owner is dead.
AppendReturns ==
  \A w \in Writers : pc[w] = "waiting" ~> pc[w] \in {"idle", "closed"}

\* The log without head.json, the locks, the readers and the faults.
Abstract == INSTANCE HashChain WITH log <- log

\* The log implements the promise of ADR-0001: an append-only hash chain.
ImplementsHashChain == Abstract!Spec
=============================================================================
