--------------------------- MODULE EventLogProofs ---------------------------
(* Machine-checked proofs about EventLog, for every set of writers and every *)
(* bound.  Part 1 holds under all the faults of the model; part 2 assumes    *)
(* that a crash takes all open logs with it (Faults \subseteq {"host"}).      *)
(* Part 3 is about Migrations, for any columns, legacy tables and processes. *)
EXTENDS EventLog, Migrations, FiniteSetTheorems, TLAPS
-----------------------------------------------------------------------------
(* Part 1: the invariant that survives every fault.                          *)

\* The abstraction of a hash: the i-th envelope has hash i.
Numbered == \A i \in DOMAIN log : log[i].hash = i

\* What a writer inside append() knows about head.json and the log's end.
WriterKnows(w) ==
  /\ pc[w] = "loaded" => base[w] = HeadOrGenesis(head)
  /\ pc[w] = "appended" => /\ log # <<>>
                           /\ sealed[w] = Len(log)
                           /\ log[Len(log)].prev = HeadOrGenesis(head)
  /\ pc[w] \in {"written", "mirrored"} => sealed[w] \in 1 .. Len(log)
  /\ pc[w] = "mirrored" => sealed[w] \in mirror

\* head.json and the log.
HeadKnows ==
  /\ head \in {NoHead} \cup 1 .. Len(log)
  /\ log # <<>> => HeadOrGenesis(head) \in {Len(log), log[Len(log)].prev}

\* The caller and the log.
AckKnows == acked \subseteq (1 .. Len(log)) \cap mirror

\* The inductive invariant of part 1.
Inv ==
  /\ TypeOK
  /\ MutualExclusion
  /\ Numbered
  /\ \A w \in Writers : WriterKnows(w)
  /\ HeadKnows
  /\ AckKnows

\* In a numbered log the hashes are the positions and the tail hash is the length.
LEMMA NumberedLog ==
  ASSUME log \in Seq(Envelopes), Numbered
  PROVE  /\ Hashes(log) = 1 .. Len(log)
         /\ TailHash(log) = Len(log)
         /\ DOMAIN log = 1 .. Len(log)
         /\ Len(log) \in Nat
<1>1. DOMAIN log = 1 .. Len(log) /\ Len(log) \in Nat
  OBVIOUS
<1>2. Hashes(log) = 1 .. Len(log)
  BY <1>1, SMT DEF Hashes, Numbered
<1>3. TailHash(log) = Len(log)
  <2>1. CASE log = <<>>
    BY <2>1 DEF TailHash, Genesis
  <2>2. CASE log # <<>>
    <3>1. Len(log) \in DOMAIN log
      BY <2>2, <1>1
    <3> QED
      BY <2>2, <3>1 DEF TailHash, Numbered
  <2> QED
    BY <2>1, <2>2
<1> QED
  BY <1>1, <1>2, <1>3

\* The invariant holds of an empty log.
LEMMA InitInv == Init => Inv
<1> SUFFICES ASSUME Init PROVE Inv
  OBVIOUS
<1>1. TypeOK
  <2>1. log \in Seq(Envelopes) /\ head \in Nat \cup {NoHead} /\ faults \in Nat
    BY DEF Init
  <2>2. pc \in [Writers -> PCs] /\ recovered \in [Writers -> BOOLEAN]
    BY DEF Init, PCs
  <2>3. base \in [Writers -> Nat] /\ sealed \in [Writers -> Nat]
    BY DEF Init, Genesis
  <2>4. walk \in Walks
    BY DEF Init, Walks, Idle, Genesis
  <2> QED
    BY <2>1, <2>2, <2>3, <2>4 DEF Init, TypeOK
<1>2. MutualExclusion
  BY DEF Init, MutualExclusion, Critical
<1>3. Numbered
  BY DEF Init, Numbered
<1>4. \A w \in Writers : WriterKnows(w)
  BY DEF Init, WriterKnows
<1>5. HeadKnows /\ AckKnows
  BY DEF Init, HeadKnows, AckKnows, NoHead
<1> QED
  BY <1>1, <1>2, <1>3, <1>4, <1>5 DEF Inv

\* Every step keeps the invariant, the faults included.
LEMMA StepInv == Inv /\ [Next]_vars => Inv'
<1> SUFFICES ASSUME Inv, [Next]_vars PROVE Inv'
  OBVIOUS
<1> USE DEF Inv
<1>n. /\ Hashes(log) = 1 .. Len(log)
      /\ TailHash(log) = Len(log)
      /\ DOMAIN log = 1 .. Len(log)
      /\ Len(log) \in Nat
  BY NumberedLog DEF TypeOK
<1>1. ASSUME NEW w \in Writers, Open(w) PROVE Inv'
  BY <1>1 DEF Open, GoTo, TypeOK, MutualExclusion, Numbered, WriterKnows, HeadKnows,
     AckKnows, PCs, Critical, HeadOrGenesis, readerVars
<1>2. ASSUME NEW w \in Writers, CallAppend(w) PROVE Inv'
  BY <1>2 DEF CallAppend, GoTo, TypeOK, MutualExclusion, Numbered, WriterKnows, HeadKnows,
     AckKnows, PCs, Critical, HeadOrGenesis, readerVars
<1>3. ASSUME NEW w \in Writers, Acquire(w) PROVE Inv'
  BY <1>3 DEF Acquire, GoTo, TypeOK, MutualExclusion, Numbered, WriterKnows, HeadKnows,
     AckKnows, PCs, Critical, HeadOrGenesis, readerVars
<1>4. ASSUME NEW w \in Writers, LockTimeout(w) PROVE Inv'
  BY <1>4 DEF LockTimeout, GoTo, TypeOK, MutualExclusion, Numbered, WriterKnows, HeadKnows,
     AckKnows, PCs, Critical, HeadOrGenesis, readerVars
<1>5. ASSUME NEW w \in Writers, LoadHead(w) PROVE Inv'
  <2>1. /\ head' \in {NoHead} \cup 1 .. Len(log)
        /\ log # <<>> => HeadOrGenesis(head') \in {Len(log), log[Len(log)].prev}
    BY <1>5, <1>n DEF LoadHead, Reconciled, HeadKnows, HeadOrGenesis, NoHead
  <2>2. \A v \in Writers : v # w => pc[v] \notin Critical
    BY <1>5 DEF LoadHead, MutualExclusion, Critical
  <2>3. TypeOK'
    BY <1>5, <2>1, <1>n DEF LoadHead, GoTo, TypeOK, PCs, Critical, HeadOrGenesis, Genesis,
       NoHead, readerVars
  <2>4. MutualExclusion'
    BY <1>5 DEF LoadHead, GoTo, TypeOK, MutualExclusion, Critical
  <2>5. ASSUME NEW v \in Writers PROVE WriterKnows(v)'
    BY <1>5, <2>2 DEF LoadHead, GoTo, TypeOK, WriterKnows, Critical
  <2> QED
    BY <1>5, <2>1, <2>3, <2>4, <2>5 DEF LoadHead, Numbered, HeadKnows, AckKnows
<1>6. ASSUME NEW w \in Writers, RefuseHead(w) PROVE Inv'
  BY SMTT(30), ZenonT(30), <1>6 DEF RefuseHead, Unlock, GoTo, TypeOK, MutualExclusion, Numbered, WriterKnows, HeadKnows,
     AckKnows, PCs, Critical, HeadOrGenesis, readerVars
<1>7. ASSUME NEW w \in Writers, RejectEnvelope(w) PROVE Inv'
  BY SMTT(30), ZenonT(30), <1>7 DEF RejectEnvelope, Unlock, GoTo, TypeOK, MutualExclusion, Numbered, WriterKnows, HeadKnows,
     AckKnows, PCs, Critical, HeadOrGenesis, readerVars
<1>8. ASSUME NEW w \in Writers, AppendRecord(w) PROVE Inv'
  <2> DEFINE env == [hash |-> Len(log) + 1, prev |-> base[w]]
  <2>1. env \in Envelopes /\ log' = Append(log, env)
    BY <1>8, <1>n DEF AppendRecord, Envelopes, TypeOK, Genesis
  <2>2. /\ log' \in Seq(Envelopes)
        /\ Len(log') = Len(log) + 1
        /\ log'[Len(log')] = env
        /\ \A i \in 1 .. Len(log) : log'[i] = log[i]
        /\ DOMAIN log' = 1 .. Len(log) + 1
        /\ log' # <<>>
    BY SMTT(30), ZenonT(30), <2>1, <1>n DEF TypeOK
  <2>3. env.hash = Len(log) + 1 /\ env.prev = base[w]
    OBVIOUS
  <2>4. \A v \in Writers : v # w => pc[v] \notin Critical
    BY <1>8 DEF AppendRecord, MutualExclusion, Critical
  <2>5. /\ pc' = [pc EXCEPT ![w] = "appended"]
        /\ sealed' = [sealed EXCEPT ![w] = Len(log) + 1]
        /\ base[w] = HeadOrGenesis(head)
        /\ UNCHANGED <<head, lockfile, recovered, base, mirror, acked, walk, verdict, faults>>
    BY <1>8 DEF AppendRecord, GoTo, WriterKnows, readerVars
  <2> HIDE DEF env
  <2>6. TypeOK'
    BY <2>2, <2>5, <1>n DEF TypeOK, PCs, Critical
  <2>7. MutualExclusion'
    BY <1>8, <2>5 DEF AppendRecord, TypeOK, MutualExclusion, Critical
  <2>8. Numbered'
    BY <2>2, <2>3, <1>n DEF Numbered
  <2>9. ASSUME NEW v \in Writers PROVE WriterKnows(v)'
    <3>1. CASE v = w
      BY <3>1, <2>2, <2>3, <2>5 DEF WriterKnows, TypeOK, HeadOrGenesis
    <3>2. CASE v # w
      BY <3>2, <2>4, <2>5 DEF WriterKnows, TypeOK, Critical
    <3> QED
      BY <3>1, <3>2
  <2>10. HeadKnows'
    BY <2>2, <2>3, <2>5, <1>n DEF HeadKnows, HeadOrGenesis
  <2>11. AckKnows'
    BY <2>2, <2>5, <1>n DEF AckKnows
  <2> QED
    BY <2>6, <2>7, <2>8, <2>9, <2>10, <2>11
<1>9. ASSUME NEW w \in Writers, WriteHead(w) PROVE Inv'
  <2>1. head' = Len(log) /\ log # <<>> /\ log' = log
    BY <1>9 DEF WriteHead, WriterKnows
  <2>2. Len(log) \in 1 .. Len(log) /\ Len(log) # NoHead
    BY <2>1, <1>n DEF NoHead, TypeOK
  <2>3. \A v \in Writers : v # w => pc[v] \notin Critical
    BY <1>9 DEF WriteHead, MutualExclusion, Critical
  <2>4. TypeOK'
    BY <1>9, <2>1, <1>n DEF WriteHead, GoTo, TypeOK, PCs, Critical, readerVars
  <2>5. MutualExclusion'
    BY <1>9 DEF WriteHead, GoTo, TypeOK, MutualExclusion, Critical
  <2>6. ASSUME NEW v \in Writers PROVE WriterKnows(v)'
    BY <1>9, <2>2, <2>3 DEF WriteHead, GoTo, TypeOK, WriterKnows, Critical
  <2>7. HeadKnows'
    BY <2>1, <2>2 DEF HeadKnows, HeadOrGenesis
  <2> QED
    BY <1>9, <2>4, <2>5, <2>6, <2>7 DEF WriteHead, Numbered, AckKnows
<1>10. ASSUME NEW w \in Writers, MirrorRow(w) PROVE Inv'
  <2>1. TypeOK'
    BY <1>10 DEF MirrorRow, GoTo, TypeOK, PCs, Critical, readerVars
  <2>2. MutualExclusion'
    BY <1>10 DEF MirrorRow, GoTo, TypeOK, MutualExclusion, Critical
  <2>3. ASSUME NEW v \in Writers PROVE WriterKnows(v)'
    BY <1>10 DEF MirrorRow, GoTo, TypeOK, WriterKnows
  <2>4. AckKnows'
    BY <1>10 DEF MirrorRow, GoTo, AckKnows, WriterKnows
  <2> QED
    BY <1>10, <2>1, <2>2, <2>3, <2>4 DEF MirrorRow, Numbered, HeadKnows
<1>11. ASSUME NEW w \in Writers, Return(w) PROVE Inv'
  <2>1. TypeOK'
    BY <1>11 DEF Return, Unlock, GoTo, TypeOK, PCs, Critical, readerVars
  <2>2. MutualExclusion'
    BY <1>11 DEF Return, Unlock, GoTo, TypeOK, MutualExclusion, Critical
  <2>3. ASSUME NEW v \in Writers PROVE WriterKnows(v)'
    BY <1>11 DEF Return, Unlock, GoTo, TypeOK, WriterKnows
  <2>4. AckKnows'
    BY <1>11 DEF Return, Unlock, GoTo, AckKnows, WriterKnows
  <2> QED
    BY <1>11, <2>1, <2>2, <2>3, <2>4 DEF Return, Numbered, HeadKnows
<1>12. ASSUME VerifyWalk PROVE Inv'
  <2>1. walk' \in Walks
    BY <1>12, <1>n DEF VerifyWalk, WalkOf, Walks, ChainOK
  <2> QED
    BY <1>12, <2>1 DEF VerifyWalk, TypeOK, MutualExclusion, Numbered, WriterKnows, HeadKnows,
     AckKnows, PCs, Critical, HeadOrGenesis, writerVars
<1>13. ASSUME VerifyHead PROVE Inv'
  <2>1. walk' \in Walks
    BY <1>13 DEF VerifyHead, Walks, TypeOK
  <2> QED
    BY <1>13, <2>1 DEF VerifyHead, TypeOK, MutualExclusion, Numbered, WriterKnows, HeadKnows,
     AckKnows, PCs, Critical, HeadOrGenesis, writerVars
<1>14. ASSUME ReplayMirror PROVE Inv'
  BY <1>14, <1>n DEF ReplayMirror, GoTo, TypeOK, MutualExclusion, Numbered, WriterKnows, HeadKnows,
     AckKnows, PCs, Critical, HeadOrGenesis, writerVars
<1>15. ASSUME HostCrash PROVE Inv'
  <2>1. walk' \in Walks
    BY <1>15 DEF HostCrash, Walks, Idle, Genesis
  <2> QED
    BY <1>15, <2>1 DEF HostCrash, Strike, TypeOK, MutualExclusion, Numbered, WriterKnows, HeadKnows,
     AckKnows, PCs, Critical, HeadOrGenesis
<1>16. ASSUME NEW w \in Writers, ProcessDeath(w) PROVE Inv'
  <2>1. TypeOK'
    BY <1>16 DEF ProcessDeath, Strike, GoTo, TypeOK, PCs, Critical, readerVars
  <2>2. MutualExclusion'
    BY <1>16 DEF ProcessDeath, Strike, GoTo, TypeOK, MutualExclusion, Critical
  <2>3. ASSUME NEW v \in Writers PROVE WriterKnows(v)'
    BY <1>16 DEF ProcessDeath, Strike, GoTo, TypeOK, WriterKnows
  <2>4. AckKnows'
    BY <1>16 DEF ProcessDeath, Strike, GoTo, AckKnows, WriterKnows
  <2> QED
    BY <1>16, <2>1, <2>2, <2>3, <2>4 DEF ProcessDeath, Numbered, HeadKnows
<1>17. ASSUME NEW w \in Writers, IOFailure(w) PROVE Inv'
  <2>1. TypeOK'
    <3>1. faults' \in Nat
      BY <1>17 DEF IOFailure, Strike, TypeOK
    <3>3. lockfile' \in BOOLEAN
      BY <1>17 DEF IOFailure, Unlock
    <3>2. pc' \in [Writers -> PCs]
      BY <1>17 DEF IOFailure, Unlock, GoTo, TypeOK, PCs
    <3> QED
      BY <1>17, <3>1, <3>2, <3>3 DEF IOFailure, TypeOK, readerVars
  <2>2. MutualExclusion'
    BY <1>17 DEF IOFailure, Unlock, GoTo, TypeOK, MutualExclusion, Critical
  <2>3. ASSUME NEW v \in Writers PROVE WriterKnows(v)'
    BY <1>17 DEF IOFailure, Unlock, GoTo, TypeOK, WriterKnows
  <2> QED
    BY <1>17, <2>1, <2>2, <2>3 DEF IOFailure, Numbered, HeadKnows, AckKnows
<1>18. ASSUME RemoveStaleLock PROVE Inv'
  BY <1>18 DEF RemoveStaleLock, GoTo, TypeOK, MutualExclusion, Numbered, WriterKnows, HeadKnows,
     AckKnows, PCs, Critical, HeadOrGenesis, writerVars, readerVars
<1>19. ASSUME UNCHANGED vars PROVE Inv'
  BY <1>19 DEF vars, TypeOK, MutualExclusion, Numbered, WriterKnows, HeadKnows,
     AckKnows, PCs, Critical, HeadOrGenesis
<1> QED
  BY <1>1, <1>2, <1>3, <1>4, <1>5, <1>6, <1>7, <1>8, <1>9, <1>10, <1>11, <1>12, <1>13,
     <1>14, <1>15, <1>16, <1>17, <1>18, <1>19 DEF Next, Step

\* The invariant of part 1 holds under every fault.
LEMMA InvariantAlways == Spec => []Inv
<1>1. Init => Inv
  BY InitInv
<1>2. Inv /\ [Next]_vars => Inv'
  BY StepInv
<1> QED
  BY <1>1, <1>2, PTL DEF Spec

\* The types, for every set of writers and every fault.
THEOREM TypeCorrect == Spec => []TypeOK
<1>1. Inv => TypeOK
  BY DEF Inv
<1> QED
  BY <1>1, InvariantAlways, PTL

\* memory/.lock admits one live writer at a time, through crashes and through
\* operators deleting the lock files of dead processes.
THEOREM LockExcludes == Spec => []MutualExclusion
<1>1. Inv => MutualExclusion
  BY DEF Inv
<1> QED
  BY <1>1, InvariantAlways, PTL

\* Under every fault head.json names an envelope of the log, and lags the log
\* by at most one envelope.
THEOREM HeadNearTail == Spec => [](HeadNamesLoggedEvent /\ HeadLagsByAtMostOne)
<1>1. Inv => HeadNamesLoggedEvent /\ HeadLagsByAtMostOne
  <2> SUFFICES ASSUME Inv PROVE HeadNamesLoggedEvent /\ HeadLagsByAtMostOne
    OBVIOUS
  <2>1. Hashes(log) = 1 .. Len(log) /\ TailHash(log) = Len(log)
    BY NumberedLog DEF Inv, TypeOK
  <2> QED
    BY <2>1 DEF Inv, HeadKnows, HeadNamesLoggedEvent, HeadLagsByAtMostOne
<1> QED
  BY <1>1, InvariantAlways, PTL

\* Under every fault an envelope whose append() returned is in the log and in
\* the SQLite mirror.
THEOREM AckedDurable == Spec => []AckedIsDurable
<1>1. Inv => AckedIsDurable
  <2> SUFFICES ASSUME Inv PROVE AckedIsDurable
    OBVIOUS
  <2>1. Hashes(log) = 1 .. Len(log)
    BY NumberedLog DEF Inv, TypeOK
  <2> QED
    BY <2>1 DEF Inv, AckKnows, AckedIsDurable
<1> QED
  BY <1>1, InvariantAlways, PTL

-----------------------------------------------------------------------------
(* The reader, and how many forks there can be, under every fault.           *)

\* Only AppendRecord touches the log, and adds one envelope to it.
LEMMA LogStep ==
  ASSUME Inv, [Next]_vars
  PROVE  \/ log' = log
         \/ \E w \in Writers :
              /\ AppendRecord(w)
              /\ Len(log') = Len(log) + 1 /\ DOMAIN log' = 1 .. Len(log) + 1
              /\ \A i \in 1 .. Len(log) : log'[i] = log[i]
              /\ log'[Len(log) + 1].prev = base[w]
<1> SUFFICES ASSUME log' # log
             PROVE  \E w \in Writers :
                      /\ AppendRecord(w)
                      /\ Len(log') = Len(log) + 1 /\ DOMAIN log' = 1 .. Len(log) + 1
                      /\ \A i \in 1 .. Len(log) : log'[i] = log[i]
                      /\ log'[Len(log) + 1].prev = base[w]
  OBVIOUS
<1>1. PICK w \in Writers : AppendRecord(w)
  BY DEF Next, Step, vars, Open, CallAppend, Acquire, LockTimeout, LoadHead, RefuseHead,
     RejectEnvelope, WriteHead, MirrorRow, Return, ProcessDeath, IOFailure, VerifyWalk,
     VerifyHead, ReplayMirror, HostCrash, RemoveStaleLock
<1> DEFINE env == [hash |-> Len(log) + 1, prev |-> base[w]]
<1>2. /\ env \in Envelopes /\ log' = Append(log, env) /\ log \in Seq(Envelopes)
      /\ env.prev = base[w]
  BY <1>1 DEF AppendRecord, Envelopes, Inv, TypeOK, Genesis
<1> HIDE DEF env
<1>3. /\ Len(log') = Len(log) + 1 /\ DOMAIN log' = 1 .. Len(log) + 1
      /\ \A i \in 1 .. Len(log) : log'[i] = log[i]
      /\ log'[Len(log) + 1] = env
  BY <1>2
<1> QED
  BY <1>1, <1>2, <1>3

\* A link stays a link, and a break a break, when the log grows.
LEMMA LinksStay ==
  ASSUME Inv, [Next]_vars, NEW i \in 1 .. Len(log)
  PROVE  Linked(log', i) <=> Linked(log, i)
<1>1. Len(log) \in Nat
  BY DEF Inv, TypeOK
<1>2. log'[i] = log[i] /\ (i # 1 => log'[i - 1] = log[i - 1])
  <2>1. CASE log' = log
    BY <2>1
  <2>2. CASE \A j \in 1 .. Len(log) : log'[j] = log[j]
    <3>1. i # 1 => i - 1 \in 1 .. Len(log)
      BY <1>1
    <3> QED
      BY <2>2, <3>1
  <2> QED
    BY <2>1, <2>2, LogStep
<1> QED
  BY <1>2 DEF Linked

\* What the walk saw is a chained beginning of the log.
WalkKnows ==
  (walk.active /\ walk.ok) \/ verdict = "pass" =>
    /\ walk.tail \in 0 .. Len(log)
    /\ \A i \in 1 .. walk.tail : Linked(log, i)

\* Every step keeps what the reader knows.
LEMMA StepWalk ==
  ASSUME Inv, WalkKnows, [Next]_vars
  PROVE  WalkKnows'
<1>n. /\ TailHash(log) = Len(log) /\ DOMAIN log = 1 .. Len(log) /\ Len(log) \in Nat
      /\ walk \in Walks
  BY NumberedLog DEF Inv, TypeOK
<1>1. Len(log') \in Nat /\ Len(log) <= Len(log')
  BY <1>n, LogStep
<1>2. ASSUME (walk'.active /\ walk'.ok) \/ verdict' = "pass",
             \/ walk' = walk /\ ((walk.active /\ walk.ok) \/ verdict = "pass")
             \/ walk'.tail = walk.tail /\ walk.active /\ walk.ok
      PROVE  WalkKnows'
  <2>1. /\ walk'.tail = walk.tail /\ walk.tail \in 0 .. Len(log)
        /\ \A i \in 1 .. walk.tail : Linked(log, i)
    BY <1>2 DEF WalkKnows
  <2>2. \A i \in 1 .. walk.tail : Linked(log', i)
    BY <1>n, <2>1, LinksStay
  <2> QED
    BY <1>n, <1>1, <2>1, <2>2 DEF WalkKnows
<1>3. CASE VerifyWalk
  <2>1. /\ walk' = [active |-> TRUE, ok |-> ChainOK(log), tail |-> TailHash(log)]
        /\ verdict' = "none" /\ log' = log
    BY <1>3 DEF VerifyWalk, WalkOf
  <2>2. walk'.ok = ChainOK(log) /\ walk'.tail = Len(log)
    BY <1>n, <2>1
  <2>3. ChainOK(log) => \A i \in 1 .. Len(log) : Linked(log, i)
    BY <1>n DEF ChainOK
  <2> QED
    BY <1>n, <2>1, <2>2, <2>3 DEF WalkKnows
<1>4. CASE VerifyHead
  <2>1. /\ walk.active /\ walk' = [walk EXCEPT !.active = FALSE]
        /\ verdict' = "pass" => walk.ok
    BY <1>4 DEF VerifyHead, Accepts
  <2>2. walk'.tail = walk.tail /\ ~walk'.active
    BY <1>n, <2>1 DEF Walks
  <2> QED
    BY <1>2, <2>1, <2>2 DEF WalkKnows
<1>5. CASE HostCrash \/ ReplayMirror
  <2>1. verdict' = "none" /\ (walk' = walk \/ walk' = Idle)
    BY <1>5 DEF HostCrash, ReplayMirror
  <2>2. Idle.active = FALSE
    BY DEF Idle
  <2> QED
    BY <1>2, <2>1, <2>2 DEF WalkKnows
<1>6. CASE walk' = walk /\ verdict' = verdict
  BY <1>2, <1>6 DEF WalkKnows
<1> QED
  BY <1>3, <1>4, <1>5, <1>6
  DEF Next, Step, vars, readerVars, Open, CallAppend, Acquire, LockTimeout, LoadHead,
      RefuseHead, RejectEnvelope, AppendRecord, WriteHead, MirrorRow, Return,
      ProcessDeath, IOFailure, RemoveStaleLock

\* A pass of `state verify` is about a chained beginning of the log, whatever
\* writers did between the walk and the reading of head.json, and whatever
\* faults struck (verify_chain, which takes no lock).
THEOREM PassIsSound == Spec => []PassMeansChained
<1>1. Init => WalkKnows
  BY DEF Init, WalkKnows, Idle
<1>2. Inv /\ WalkKnows /\ [Next]_vars => WalkKnows'
  BY StepWalk
<1>3. Inv /\ WalkKnows => PassMeansChained
  <2> SUFFICES ASSUME Inv, WalkKnows, verdict = "pass"
               PROVE  \E n \in 0 .. Len(log) : /\ ChainOK(SubSeq(log, 1, n))
                                               /\ TailHash(SubSeq(log, 1, n)) = walk.tail
    BY DEF PassMeansChained
  <2> DEFINE n == walk.tail
             part == SubSeq(log, 1, n)
  <2>1. n \in 0 .. Len(log) /\ \A i \in 1 .. n : Linked(log, i)
    BY DEF WalkKnows
  <2>2. /\ log \in Seq(Envelopes) /\ Len(log) \in Nat
        /\ \A i \in 1 .. Len(log) : log[i].hash = i
    BY NumberedLog DEF Inv, TypeOK, Numbered
  <2> HIDE DEF n
  <2>3. Len(part) = n /\ DOMAIN part = 1 .. n /\ \A i \in 1 .. n : part[i] = log[i]
    BY <2>1, <2>2
  <2> HIDE DEF part
  <2>4. ChainOK(part)
    <3> SUFFICES ASSUME NEW i \in 1 .. n
                 PROVE  Linked(part, i)
      BY <2>3 DEF ChainOK
    <3>1. Linked(log, i) /\ (i # 1 => i - 1 \in 1 .. n)
      BY <2>1
    <3> QED
      BY <2>3, <3>1 DEF Linked
  <2>5. TailHash(part) = n
    <3>1. CASE n = 0
      <4>1. part = <<>>
        BY <2>1, <2>2, <3>1 DEF part
      <4> QED
        BY <3>1, <4>1 DEF TailHash, Genesis
    <3>2. CASE n # 0
      <4>1. n \in 1 .. n /\ n \in 1 .. Len(log)
        BY <2>1, <2>2, <3>2
      <4>2. part # <<>>
        BY <2>3, <4>1
      <4> QED
        BY <2>2, <2>3, <4>1, <4>2 DEF TailHash
    <3> QED
      BY <3>1, <3>2
  <2> QED
    BY <2>1, <2>4, <2>5 DEF n, part
<1> QED
  BY <1>1, <1>2, <1>3, InvariantAlways, PTL DEF Spec

\* head.json is behind, and nobody is about to move it: the next append of an
\* object that has reconciled before will fork.
Lagging ==
  /\ HeadOrGenesis(head) # TailHash(log)
  /\ \A w \in Writers : pc[w] # "appended"

\* A lagging head is a fault that has not made its fork yet.
ForkInv == Cardinality(Breaks(log)) + (IF Lagging THEN 1 ELSE 0) <= faults

\* An append that leaves head.json behind is a fault's doing.
LEMMA LagStep ==
  ASSUME Inv, [Next]_vars, log' = log
  PROVE  \/ faults' = faults /\ (Lagging' => Lagging)
         \/ faults' = faults + 1
<1> USE DEF Inv
<1>n. TailHash(log) = Len(log) /\ Len(log) \in Nat /\ TailHash(log') = TailHash(log)
  BY NumberedLog DEF TypeOK
<1>1. ASSUME NEW w \in Writers, LoadHead(w)
      PROVE  faults' = faults /\ (Lagging' => Lagging)
  <2>1. \A v \in Writers : pc[v] # "appended"
    BY <1>1 DEF LoadHead, MutualExclusion, Critical
  <2>2. head' = head \/ HeadOrGenesis(head') = TailHash(log)
    <3>1. CASE log = <<>>
      BY <1>1, <3>1 DEF LoadHead, Reconciled
    <3>2. CASE log # <<>>
      BY <1>1, <3>2, <1>n DEF LoadHead, Reconciled, HeadOrGenesis, NoHead
    <3> QED
      BY <3>1, <3>2
  <2> QED
    BY <1>1, <1>n, <2>1, <2>2 DEF LoadHead, Lagging, HeadOrGenesis
<1>2. ASSUME NEW w \in Writers, WriteHead(w)
      PROVE  faults' = faults /\ (Lagging' => Lagging)
  <2>1. HeadOrGenesis(head') = TailHash(log)
    BY <1>2, <1>n DEF WriteHead, WriterKnows, NoHead, HeadOrGenesis
  <2> QED
    BY <1>2, <1>n, <2>1 DEF WriteHead, Lagging, HeadOrGenesis
<1>3. ASSUME NEW w \in Writers,
             \/ Open(w) \/ CallAppend(w) \/ Acquire(w) \/ LockTimeout(w)
             \/ RefuseHead(w) \/ RejectEnvelope(w) \/ MirrorRow(w) \/ Return(w)
      PROVE  faults' = faults /\ (Lagging' => Lagging)
  <2>1. head' = head /\ faults' = faults /\ pc[w] # "appended"
    BY <1>3 DEF Open, CallAppend, Acquire, LockTimeout, RefuseHead, RejectEnvelope,
       MirrorRow, Return
  <2>2. \A v \in Writers : v # w => pc'[v] = pc[v]
    BY <1>3 DEF Open, CallAppend, Acquire, LockTimeout, RefuseHead, RejectEnvelope,
       MirrorRow, Return, GoTo, Unlock, TypeOK
  <2> QED
    BY <1>n, <2>1, <2>2 DEF Lagging, HeadOrGenesis
<1>4. ASSUME VerifyWalk \/ VerifyHead \/ ReplayMirror \/ RemoveStaleLock \/ UNCHANGED vars
      PROVE  faults' = faults /\ (Lagging' => Lagging)
  <2>1. head' = head /\ faults' = faults /\ pc' = pc
    BY <1>4 DEF VerifyWalk, VerifyHead, ReplayMirror, RemoveStaleLock, writerVars, vars
  <2> QED
    BY <1>n, <2>1 DEF Lagging, HeadOrGenesis
<1>5. ASSUME HostCrash \/ \E w \in Writers : ProcessDeath(w) \/ IOFailure(w)
      PROVE  faults' = faults + 1
  BY <1>5 DEF HostCrash, ProcessDeath, IOFailure, Strike
<1>6. ASSUME NEW w \in Writers, AppendRecord(w)
      PROVE  FALSE
  <2>1. log' = Append(log, [hash |-> Len(log) + 1, prev |-> base[w]])
    BY <1>6 DEF AppendRecord
  <2>2. Len(log') = Len(log) + 1
    BY <2>1 DEF TypeOK
  <2> QED
    BY <1>n, <2>2
<1> QED
  BY <1>1, <1>2, <1>3, <1>4, <1>5, <1>6 DEF Next, Step

\* Every step keeps forks and faults in balance.
LEMMA StepFork ==
  ASSUME Inv, ForkInv, [Next]_vars
  PROVE  ForkInv'
<1>n. /\ TailHash(log) = Len(log) /\ DOMAIN log = 1 .. Len(log) /\ Len(log) \in Nat
      /\ faults \in Nat
  BY NumberedLog DEF Inv, TypeOK
<1>1. IsFiniteSet(Breaks(log)) /\ Cardinality(Breaks(log)) \in Nat
  <2>1. IsFiniteSet(1 .. Len(log)) /\ Breaks(log) \subseteq 1 .. Len(log)
    BY <1>n, FS_Interval DEF Breaks
  <2>2. IsFiniteSet(Breaks(log))
    BY <2>1, FS_Subset
  <2> QED
    BY <2>2, FS_CardinalityType
<1>2. CASE log' = log
  <2>1. Cardinality(Breaks(log')) = Cardinality(Breaks(log))
    BY <1>2
  <2> QED
    BY <1>n, <1>1, <1>2, <2>1, LagStep DEF ForkInv
<1>3. ASSUME NEW w \in Writers, AppendRecord(w),
             Len(log') = Len(log) + 1, DOMAIN log' = 1 .. Len(log) + 1,
             \A i \in 1 .. Len(log) : log'[i] = log[i],
             log'[Len(log) + 1].prev = base[w]
      PROVE  ForkInv'
  <2> DEFINE new == Len(log) + 1
  <2>1. /\ pc[w] = "loaded" /\ pc'[w] = "appended" /\ faults' = faults
        /\ base[w] = HeadOrGenesis(head)
    BY <1>3 DEF AppendRecord, GoTo, Inv, TypeOK, WriterKnows
  <2>2. \A v \in Writers : pc[v] # "appended"
    BY <2>1 DEF Inv, MutualExclusion, Critical
  <2>3. ~Lagging'
    BY <2>1 DEF Lagging
  <2>4. Linked(log', new) <=> base[w] = TailHash(log)
    <3>1. CASE Len(log) = 0
      BY <1>3, <1>n, <3>1 DEF Linked, Genesis
    <3>2. CASE Len(log) # 0
      <4>1. Len(log) \in 1 .. Len(log) /\ new # 1 /\ new - 1 = Len(log)
        BY <1>n, <3>2
      <4>2. log'[new - 1].hash = Len(log)
        BY <1>3, <1>n, <4>1 DEF Inv, Numbered
      <4> QED
        BY <1>3, <1>n, <4>1, <4>2 DEF Linked
    <3> QED
      BY <3>1, <3>2
  <2>5. Breaks(log') = IF Linked(log', new) THEN Breaks(log) ELSE Breaks(log) \cup {new}
    <3>1. \A i \in 1 .. Len(log) : Linked(log', i) <=> Linked(log, i)
      BY LinksStay
    <3>2. DOMAIN log' = (1 .. Len(log)) \cup {new} /\ new \notin 1 .. Len(log)
      BY <1>3, <1>n
    <3> QED
      BY <1>n, <3>1, <3>2 DEF Breaks
  <2>6. CASE Linked(log', new)
    BY <1>n, <1>1, <2>1, <2>3, <2>5, <2>6 DEF ForkInv
  <2>7. CASE ~Linked(log', new)
    <3>1. Lagging
      BY <2>1, <2>2, <2>4, <2>7 DEF Lagging
    <3>2. new \notin Breaks(log)
      BY <1>n DEF Breaks
    <3>3. Cardinality(Breaks(log')) = Cardinality(Breaks(log)) + 1
      BY <1>1, <2>5, <2>7, <3>2, FS_AddElement
    <3> QED
      BY <1>n, <1>1, <2>1, <2>3, <3>1, <3>3 DEF ForkInv
  <2> QED
    BY <2>6, <2>7
<1> QED
  BY <1>2, <1>3, LogStep

\* However many writers go on after a fault, a fault makes one fork at most:
\* the append that forks is also the one that moves head.json to the end of
\* the log again (append, _load_head, _write_head).
THEOREM ForksNeedFaults == Spec => []ForksBoundedByFaults
<1>1. Init => ForkInv
  <2> SUFFICES ASSUME Init
               PROVE  ForkInv
    OBVIOUS
  <2>1. log = <<>> /\ head = NoHead /\ faults = 0
    BY DEF Init
  <2>2. Breaks(log) = {} /\ Cardinality({}) = 0
    BY <2>1, FS_EmptySet DEF Breaks
  <2>3. ~Lagging
    BY <2>1 DEF Lagging, HeadOrGenesis, TailHash
  <2> QED
    BY SMTT(30), ZenonT(30), <2>1, <2>2, <2>3 DEF ForkInv
<1>2. Inv /\ ForkInv /\ [Next]_vars => ForkInv'
  BY StepFork
<1>3. Inv /\ ForkInv => ForksBoundedByFaults
  <2> SUFFICES ASSUME Inv, ForkInv
               PROVE  ForksBoundedByFaults
    OBVIOUS
  <2>1. /\ DOMAIN log = 1 .. Len(log) /\ Len(log) \in Nat /\ faults \in Nat
    BY NumberedLog DEF Inv, TypeOK
  <2>2. IsFiniteSet(Breaks(log))
    <3>1. IsFiniteSet(1 .. Len(log)) /\ Breaks(log) \subseteq 1 .. Len(log)
      BY <2>1, FS_Interval DEF Breaks
    <3> QED
      BY <3>1, FS_Subset
  <2>3. Cardinality(Breaks(log)) \in Nat
    BY <2>2, FS_CardinalityType
  <2> QED
    BY <2>1, <2>3 DEF ForkInv, ForksBoundedByFaults
<1> QED
  BY <1>1, <1>2, <1>3, InvariantAlways, PTL DEF Spec
-----------------------------------------------------------------------------
(* Part 2: crashes that take every open log with them.                       *)

\* A crash ends every process that has the log open.
HostOnly == Faults \subseteq {"host"}

\* A log that some object has reconciled stays reconciled: outside the window
\* between atomic_append and _write_head the head is the tail.
HeadCurrent ==
  (\E w \in Writers : recovered[w]) /\ (\A w \in Writers : pc[w] # "appended")
    => HeadOrGenesis(head) = TailHash(log)

\* Nobody loads the head before its own reconciliation.
ReconciledFirst ==
  \A w \in Writers : pc[w] \in {"loaded", "appended", "written", "mirrored"} => recovered[w]

\* The inductive invariant of part 2, next to Inv.
ChainInv == ChainOK(log) /\ HeadCurrent /\ ReconciledFirst

\* Adding an envelope sealed on the tail keeps a chain a chain.
LEMMA SealKeepsChain ==
  ASSUME log \in Seq(Envelopes), ChainOK(log), NEW e \in Envelopes, e.prev = TailHash(log)
  PROVE  ChainOK(Append(log, e))
<1> DEFINE l2 == Append(log, e)
<1>1. /\ DOMAIN l2 = 1 .. Len(log) + 1
      /\ Len(log) \in Nat
      /\ DOMAIN log = 1 .. Len(log)
      /\ \A i \in 1 .. Len(log) : l2[i] = log[i]
      /\ l2[Len(log) + 1] = e
  OBVIOUS
<1> HIDE DEF l2
<1> SUFFICES ASSUME NEW i \in DOMAIN l2 PROVE Linked(l2, i)
  BY DEF ChainOK, l2
<1>2. CASE i \in 1 .. Len(log)
  <2>1. Linked(log, i)
    BY <1>1, <1>2 DEF ChainOK
  <2>2. i # 1 => i - 1 \in 1 .. Len(log)
    BY <1>1, <1>2
  <2> QED
    BY <1>1, <1>2, <2>1, <2>2 DEF Linked
<1>3. CASE i = Len(log) + 1
  <2>1. CASE log = <<>>
    BY <1>1, <1>3, <2>1 DEF Linked, TailHash
  <2>2. CASE log # <<>>
    <3>1. i # 1 /\ i - 1 = Len(log) /\ Len(log) \in 1 .. Len(log)
      BY <1>1, <1>3, <2>2
    <3> QED
      BY <1>1, <1>3, <2>2, <3>1 DEF Linked, TailHash
  <2> QED
    BY <2>1, <2>2
<1> QED
  BY <1>1, <1>2, <1>3

\* A writer that has loaded the head seals on the tail.
LEMMA LoadedIsTail ==
  ASSUME Inv, ChainInv, NEW w \in Writers, pc[w] = "loaded"
  PROVE  base[w] = TailHash(log)
<1>1. \A v \in Writers : pc[v] # "appended"
  BY DEF Inv, MutualExclusion, Critical
<1>2. recovered[w]
  BY DEF ChainInv, ReconciledFirst
<1> QED
  BY <1>1, <1>2 DEF Inv, WriterKnows, ChainInv, HeadCurrent

\* An empty log is a chain.
LEMMA InitChainInv == Init => ChainInv
BY DEF Init, ChainInv, ChainOK, HeadCurrent, ReconciledFirst

\* Every step keeps the log a chain when crashes take all open logs.
LEMMA StepChainInv ==
  ASSUME HostOnly, Inv, Inv', ChainInv, [Next]_vars
  PROVE  ChainInv'
<1> USE DEF Inv, ChainInv
<1>n. TailHash(log) = Len(log) /\ Len(log) \in Nat
  BY NumberedLog DEF TypeOK
<1>1. ASSUME NEW w \in Writers, Open(w) \/ CallAppend(w) \/ Acquire(w) \/ LockTimeout(w)
      PROVE  ChainInv'
  BY <1>1 DEF Open, CallAppend, Acquire, LockTimeout, GoTo, TypeOK, HeadCurrent,
     ReconciledFirst
<1>2. ASSUME NEW w \in Writers, LoadHead(w) PROVE ChainInv'
  <2>1. \A v \in Writers : pc[v] # "appended"
    BY <1>2 DEF LoadHead, MutualExclusion, Critical
  <2>2. HeadOrGenesis(head') = TailHash(log)
    <3>1. CASE recovered[w]
      BY <1>2, <2>1, <3>1 DEF LoadHead, HeadCurrent
    <3>2. CASE ~ recovered[w] /\ log = <<>>
      <4>1. head = NoHead
        BY <3>2 DEF HeadKnows
      <4> QED
        BY <1>2, <3>2, <4>1 DEF LoadHead, Reconciled, HeadOrGenesis, TailHash
    <3>3. CASE ~ recovered[w] /\ log # <<>>
      BY <1>2, <3>3, <1>n DEF LoadHead, Reconciled, HeadOrGenesis, NoHead
    <3> QED
      BY <3>1, <3>2, <3>3
  <2> QED
    BY <1>2, <2>1, <2>2 DEF LoadHead, GoTo, TypeOK, HeadCurrent, ReconciledFirst
<1>3. ASSUME NEW w \in Writers, RefuseHead(w) \/ RejectEnvelope(w) PROVE ChainInv'
  <2>1. \A v \in Writers : pc[v] # "appended"
    BY <1>3 DEF RefuseHead, RejectEnvelope, MutualExclusion, Critical
  <2> QED
    BY <1>3, <2>1 DEF RefuseHead, RejectEnvelope, Unlock, GoTo, TypeOK, HeadCurrent,
       ReconciledFirst
<1>4. ASSUME NEW w \in Writers, AppendRecord(w) PROVE ChainInv'
  <2> DEFINE env == [hash |-> Len(log) + 1, prev |-> base[w]]
  <2>1. env \in Envelopes /\ log' = Append(log, env) /\ env.prev = base[w]
    BY <1>4, <1>n DEF AppendRecord, Envelopes, TypeOK, Genesis
  <2>2. base[w] = TailHash(log)
    BY <1>4, LoadedIsTail DEF AppendRecord
  <2> HIDE DEF env
  <2>3. ChainOK(log')
    BY <2>1, <2>2, SealKeepsChain DEF TypeOK
  <2> QED
    BY <1>4, <2>3 DEF AppendRecord, GoTo, TypeOK, HeadCurrent, ReconciledFirst
<1>5. ASSUME NEW w \in Writers, WriteHead(w) PROVE ChainInv'
  <2>1. head' = TailHash(log) /\ head' # NoHead
    BY <1>5, <1>n DEF WriteHead, WriterKnows, NoHead
  <2> QED
    BY <1>5, <2>1 DEF WriteHead, GoTo, TypeOK, HeadCurrent, HeadOrGenesis, ReconciledFirst
<1>6. ASSUME NEW w \in Writers, MirrorRow(w) \/ Return(w) PROVE ChainInv'
  <2>1. \A v \in Writers : pc[v] # "appended"
    BY <1>6 DEF MirrorRow, Return, MutualExclusion, Critical
  <2> QED
    BY <1>6, <2>1 DEF MirrorRow, Return, Unlock, GoTo, TypeOK, HeadCurrent, ReconciledFirst
<1>7. ASSUME VerifyWalk \/ VerifyHead \/ ReplayMirror \/ RemoveStaleLock PROVE ChainInv'
  BY <1>7 DEF VerifyWalk, VerifyHead, ReplayMirror, RemoveStaleLock, writerVars, HeadCurrent,
     ReconciledFirst
<1>8. ASSUME HostCrash PROVE ChainInv'
  BY <1>8 DEF HostCrash, HeadCurrent, ReconciledFirst
<1>9. ASSUME NEW w \in Writers, ProcessDeath(w) \/ IOFailure(w) PROVE ChainInv'
  BY <1>9 DEF ProcessDeath, IOFailure, Strike, HostOnly
<1>10. ASSUME UNCHANGED vars PROVE ChainInv'
  BY <1>10 DEF vars, HeadCurrent, ReconciledFirst
<1> QED
  BY <1>1, <1>2, <1>3, <1>4, <1>5, <1>6, <1>7, <1>8, <1>9, <1>10 DEF Next, Step

\* The log is a chain when crashes take all open logs.
LEMMA ChainInvAlways == ASSUME HostOnly PROVE Spec => []ChainInv
<1>1. Init => ChainInv
  BY InitChainInv
<1>2. Inv /\ Inv' /\ ChainInv /\ [Next]_vars => ChainInv'
  BY HostOnly, StepChainInv
<1> QED
  BY <1>1, <1>2, InvariantAlways, PTL DEF Spec

\* Crash consistency of the canonical history: however often the host goes down
\* between the append of an envelope and the replacement of head.json, the log
\* is one unbroken chain, because every object reconciles the head before its
\* first append.
THEOREM CrashConsistency == ASSUME HostOnly PROVE Spec => []ChainIntact
<1>1. ChainInv => ChainIntact
  BY DEF ChainInv, ChainIntact
<1> QED
  BY <1>1, ChainInvAlways, PTL

\* The event log, with its lock, its head marker and its crashes, implements the
\* append-only hash chain of ADR-0001.
THEOREM Refinement == ASSUME HostOnly PROVE Spec => ImplementsHashChain
<1>1. Init => Abstract!Init
  BY DEF Init, Abstract!Init
<1>2. Inv /\ ChainInv /\ [Next]_vars => [Abstract!Next]_log
  <2> SUFFICES ASSUME Inv, ChainInv, [Next]_vars, log' # log
               PROVE  Abstract!Next
    OBVIOUS
  <2>1. PICK w \in Writers : AppendRecord(w)
    BY DEF Next, Step, vars, Open, CallAppend, Acquire, LockTimeout, LoadHead, RefuseHead,
       RejectEnvelope, WriteHead, MirrorRow, Return, ProcessDeath, IOFailure, VerifyWalk,
       VerifyHead, ReplayMirror, HostCrash, RemoveStaleLock
  <2> DEFINE env == [hash |-> Len(log) + 1, prev |-> base[w]]
  <2>n. Hashes(log) = 1 .. Len(log) /\ Len(log) \in Nat
    BY NumberedLog DEF Inv, TypeOK
  <2>2. env \in Envelopes /\ log' = Append(log, env)
    BY <2>1, <2>n DEF AppendRecord, Envelopes, Inv, TypeOK, Genesis
  <2>3. env.prev = TailHash(log)
    BY <2>1, LoadedIsTail DEF AppendRecord
  <2>4. env.hash \notin Hashes(log) \cup {Genesis}
    BY <2>n DEF Genesis
  <2> HIDE DEF env
  <2>5. log'[Len(log')] = env /\ log' # <<>>
    BY <2>2 DEF Inv, TypeOK
  <2> QED
    BY <2>2, <2>3, <2>4, <2>5 DEF Abstract!Next, Abstract!Seal, Abstract!TailHash, TailHash,
       Abstract!Hashes, Hashes, Abstract!Genesis, Genesis
<1> QED
  BY <1>1, <1>2, InvariantAlways, ChainInvAlways, PTL
     DEF Spec, ImplementsHashChain, Abstract!Spec
-----------------------------------------------------------------------------
(* Part 3: the migration runner.                                             *)

\* Where a process that opens the database can be.
MigRecord ==
  [stage : {"idle", "backup", "create", "columns", "alter", "drop", "done", "raised"},
   backup : BOOLEAN, table : 1..Tables, column : 1..(Columns + 1)]

\* What the database holds.
Database == [tables : SUBSET (1..Tables), columns : SUBSET (1..Columns),
             legacy : SUBSET Legacy, row : BOOLEAN]

\* The types.
MigTypes ==
  /\ db \in Database
  /\ old \in BOOLEAN /\ clash \in BOOLEAN
  /\ backups \in [0..MaxSecond -> (SUBSET Legacy) \cup {NoBackup}]
  /\ mig \in [Openers -> MigRecord]
  /\ second \in 0..MaxSecond

\* How far a process has come is how far the database has come.
Progress ==
  \A p \in Openers :
    /\ mig[p].stage \in {"backup", "create"} => mig[p].column = 1
    /\ mig[p].stage = "backup" => mig[p].table = 1
    /\ mig[p].stage = "create" => 1..(mig[p].table - 1) \subseteq db.tables
    /\ mig[p].stage \in {"columns", "alter", "drop"} => db.tables = 1..Tables
    /\ mig[p].stage \in {"columns", "alter"} =>
         1..(mig[p].column - 1) \subseteq db.columns
    /\ mig[p].stage = "alter" => mig[p].column <= Columns
    /\ mig[p].stage = "drop" => 1..Columns \subseteq db.columns

\* Every legacy table is in some backup.
AllKept == \A t \in Legacy : \E s \in 0..MaxSecond : t \in backups[s]

\* Whoever migrates an earlier database has decided to copy it, and past the
\* copy every legacy table is in one.
CopiedFirst ==
  old => /\ db.tables # {}
         /\ \A p \in Openers :
              /\ mig[p].stage = "backup" => mig[p].backup
              /\ mig[p].stage \in {"create", "columns", "alter", "drop"} /\ ~clash =>
                   AllKept

\* The inductive invariant of Migrations.
MigInd ==
  MigTypes /\ Progress /\ RecordedIsComplete /\ CopiedFirst /\ DroppedIsBackedUp

\* The invariant holds of a new database and of one of an earlier version.
LEMMA MigInitOK == MigInit => MigInd
<1> SUFFICES ASSUME MigInit
             PROVE  MigInd
  OBVIOUS
<1> USE LegacyAssumption, ColumnsAssumption, TablesAssumption
<1>1. db \in Database /\ db.row = FALSE
  <2>1. Fresh \in Database /\ Fresh.row = FALSE
    BY DEF Fresh, Database
  <2>2. Earlier \in Database /\ Earlier.row = FALSE
    BY DEF Earlier, Database
  <2> QED
    BY <2>1, <2>2 DEF MigInit
<1>2. old \in BOOLEAN /\ (old => db = Earlier)
  BY Zenon DEF MigInit
<1>3. mig = [p \in Openers |-> Rest] /\ Rest \in MigRecord /\ Rest.stage = "idle"
  BY DEF MigInit, Rest, MigRecord
<1>4. MigTypes
  <2>0. /\ backups = [t \in 0..MaxSecond |-> NoBackup] /\ second = 0
        /\ clash = FALSE
    BY Zenon DEF MigInit
  <2>1. backups \in [0..MaxSecond -> (SUBSET Legacy) \cup {NoBackup}]
    BY <2>0
  <2>2. second \in 0..MaxSecond
    BY <2>0
  <2>3. mig \in [Openers -> MigRecord]
    BY <1>3
  <2> QED
    BY Zenon, <1>1, <1>2, <2>0, <2>1, <2>2, <2>3 DEF MigTypes
<1>5. old => db.tables # {} /\ db.legacy = Legacy
  BY <1>2 DEF Earlier
<1>6. Progress /\ RecordedIsComplete
  BY <1>1, <1>3 DEF Progress, RecordedIsComplete
<1>7. CopiedFirst /\ DroppedIsBackedUp
  BY <1>3, <1>5 DEF CopiedFirst, DroppedIsBackedUp
<1> QED
  BY <1>4, <1>6, <1>7 DEF MigInd

\* A step of one process that leaves the copies alone: it may add to the
\* database, and its own new place has to be one the database has come to.
LEMMA MigMove ==
  ASSUME MigInd, NEW p \in Openers, NEW r \in MigRecord, db' \in Database,
         mig' = [mig EXCEPT ![p] = r], UNCHANGED <<old, clash, backups, second>>,
         db.tables \subseteq db'.tables, db.columns \subseteq db'.columns,
         db'.row => db'.tables = 1..Tables /\ db'.columns = 1..Columns /\ db'.legacy = {},
         r.stage \in {"backup", "create"} => r.column = 1,
         r.stage = "backup" => r.table = 1,
         r.stage = "create" => 1..(r.table - 1) \subseteq db'.tables,
         r.stage \in {"columns", "alter", "drop"} => db'.tables = 1..Tables,
         r.stage \in {"columns", "alter"} => 1..(r.column - 1) \subseteq db'.columns,
         r.stage = "alter" => r.column <= Columns,
         r.stage = "drop" => 1..Columns \subseteq db'.columns,
         old => (r.stage = "backup" => r.backup),
         old => (r.stage \in {"create", "columns", "alter", "drop"} /\ ~clash =>
                   AllKept),
         DroppedIsBackedUp'
  PROVE  MigInd'
<1>1. /\ MigTypes /\ Progress /\ RecordedIsComplete /\ CopiedFirst
      /\ old' = old /\ clash' = clash /\ backups' = backups /\ second' = second
  BY DEF MigInd
<1>2. \A q \in Openers : mig'[q] = IF q = p THEN r ELSE mig[q]
  BY <1>1 DEF MigTypes
<1>3. MigTypes'
  BY <1>1 DEF MigTypes
<1>4. Progress'
  <2> SUFFICES ASSUME NEW q \in Openers
               PROVE  /\ mig'[q].stage \in {"backup", "create"} => mig'[q].column = 1
                      /\ mig'[q].stage = "backup" => mig'[q].table = 1
                      /\ mig'[q].stage = "create" =>
                           1..(mig'[q].table - 1) \subseteq db'.tables
                      /\ mig'[q].stage \in {"columns", "alter", "drop"} =>
                           db'.tables = 1..Tables
                      /\ mig'[q].stage \in {"columns", "alter"} =>
                           1..(mig'[q].column - 1) \subseteq db'.columns
                      /\ mig'[q].stage = "alter" => mig'[q].column <= Columns
                      /\ mig'[q].stage = "drop" => 1..Columns \subseteq db'.columns
    BY DEF Progress
  <2>1. CASE q = p
    BY <1>2, <2>1
  <2>2. CASE q # p
    <3>1. /\ mig[q].stage \in {"backup", "create"} => mig[q].column = 1
          /\ mig[q].stage = "backup" => mig[q].table = 1
          /\ mig[q].stage = "create" => 1..(mig[q].table - 1) \subseteq db.tables
          /\ mig[q].stage \in {"columns", "alter", "drop"} => db.tables = 1..Tables
          /\ mig[q].stage \in {"columns", "alter"} =>
               1..(mig[q].column - 1) \subseteq db.columns
          /\ mig[q].stage = "alter" => mig[q].column <= Columns
          /\ mig[q].stage = "drop" => 1..Columns \subseteq db.columns
      BY <1>1 DEF Progress
    <3>2. mig'[q] = mig[q]
      BY <1>2, <2>2
    <3>3. db'.tables \subseteq 1..Tables
      BY DEF Database
    <3> QED
      BY <3>1, <3>2, <3>3
  <2> QED
    BY <2>1, <2>2
<1>5. RecordedIsComplete'
  BY DEF RecordedIsComplete
<1>6. AllKept' = AllKept
  BY <1>1 DEF AllKept
<1>7. CopiedFirst'
  <2> SUFFICES ASSUME old, NEW q \in Openers
               PROVE  /\ db'.tables # {}
                      /\ mig'[q].stage = "backup" => mig'[q].backup
                      /\ mig'[q].stage \in {"create", "columns", "alter", "drop"}
                           /\ ~clash => AllKept
    BY <1>1, <1>6 DEF CopiedFirst
  <2>1. CASE q = p
    BY <1>1, <1>2, <2>1 DEF CopiedFirst
  <2>2. CASE q # p
    BY <1>1, <1>2, <2>2 DEF CopiedFirst
  <2> QED
    BY <2>1, <2>2
<1> QED
  BY <1>3, <1>4, <1>5, <1>7 DEF MigInd

\* The same for a step that leaves the database alone as well.
LEMMA MigTurn ==
  ASSUME MigInd, NEW p \in Openers, NEW r \in MigRecord,
         mig' = [mig EXCEPT ![p] = r], UNCHANGED <<db, old, clash, backups, second>>,
         r.stage \in {"backup", "create"} => r.column = 1,
         r.stage = "backup" => r.table = 1,
         r.stage = "create" => 1..(r.table - 1) \subseteq db.tables,
         r.stage \in {"columns", "alter", "drop"} => db.tables = 1..Tables,
         r.stage \in {"columns", "alter"} => 1..(r.column - 1) \subseteq db.columns,
         r.stage = "alter" => r.column <= Columns,
         r.stage = "drop" => 1..Columns \subseteq db.columns,
         old => (r.stage = "backup" => r.backup),
         old => (r.stage \in {"create", "columns", "alter", "drop"} /\ ~clash =>
                   AllKept)
  PROVE  MigInd'
<1>1. DroppedIsBackedUp' /\ db' = db /\ db \in Database
  BY DEF MigInd, DroppedIsBackedUp, MigTypes
<1>2. db.row => db.tables = 1..Tables /\ db.columns = 1..Columns /\ db.legacy = {}
  BY DEF MigInd, RecordedIsComplete
<1> QED
  BY <1>1, <1>2, MigMove

\* Where a process is, and what it may rely on there.
LEMMA MigPlace ==
  ASSUME MigInd, NEW p \in Openers
  PROVE  /\ mig[p] \in MigRecord /\ db \in Database
         /\ mig[p].stage \in {"backup", "create"} => mig[p].column = 1
         /\ mig[p].stage = "backup" => mig[p].table = 1
         /\ mig[p].stage = "create" => 1..(mig[p].table - 1) \subseteq db.tables
         /\ mig[p].stage \in {"columns", "alter", "drop"} => db.tables = 1..Tables
         /\ mig[p].stage \in {"columns", "alter"} =>
              1..(mig[p].column - 1) \subseteq db.columns
         /\ mig[p].stage = "alter" => mig[p].column <= Columns
         /\ mig[p].stage = "drop" => 1..Columns \subseteq db.columns
         /\ old => (mig[p].stage = "backup" => mig[p].backup)
         /\ old => (mig[p].stage \in {"create", "columns", "alter", "drop"}
                      /\ ~clash => AllKept)
         /\ old => db.tables # {}
         /\ db.row => db.tables = 1..Tables /\ db.columns = 1..Columns /\ db.legacy = {}
BY DEF MigInd, MigTypes, Progress, CopiedFirst, RecordedIsComplete

\* The decision what to do with the database.
LEMMA InspectOK ==
  ASSUME MigInd, NEW p \in Openers, Inspect(p)
  PROVE  MigInd'
<1> DEFINE r == IF db.row THEN [Rest EXCEPT !.stage = "done"]
                ELSE [Rest EXCEPT !.stage = "backup",
                                  !.backup = db.tables # {} \/ db.legacy # {}]
<1>1. mig' = [mig EXCEPT ![p] = r] /\ UNCHANGED <<db, old, clash, backups, second>>
  BY DEF Inspect
<1>2. old => db.tables # {}
  BY MigPlace
<1>3. r \in MigRecord /\ r.stage \in {"done", "backup"} /\ r.column = 1 /\ r.table = 1
  <2>1. 1 \in 1..(Columns + 1) /\ 1 \in 1..Tables
    BY ColumnsAssumption, TablesAssumption
  <2>2. CASE db.row
    BY <2>1, <2>2 DEF MigRecord, Rest
  <2>3. CASE ~db.row
    BY <2>1, <2>3 DEF MigRecord, Rest
  <2> QED
    BY <2>2, <2>3
<1>4. old => (r.stage = "backup" => r.backup)
  BY <1>2 DEF Rest
<1> HIDE DEF r
<1> QED
  BY <1>1, <1>3, <1>4, MigTurn

\* The copy is made before anything is dropped.
LEMMA BackupOK ==
  ASSUME MigInd, NEW p \in Openers, _backup_database(p)
  PROVE  MigInd'
<1> USE LegacyAssumption
<1>1. /\ MigTypes /\ Progress /\ RecordedIsComplete /\ CopiedFirst
      /\ DroppedIsBackedUp
  BY DEF MigInd
<1>2. /\ mig[p].stage = "backup" /\ UNCHANGED <<db, old, second>>
      /\ backups' = IF mig[p].backup
                    THEN [backups EXCEPT ![second] = db.legacy] ELSE backups
      /\ clash' = (clash \/ (mig[p].backup /\ backups[second] # NoBackup))
      /\ mig' = [mig EXCEPT ![p].stage = "create"]
  BY DEF _backup_database
<1>3. \A q \in Openers : mig'[q] = IF q = p THEN [mig[p] EXCEPT !.stage = "create"]
                                   ELSE mig[q]
  BY <1>1, <1>2 DEF MigTypes
<1>4. db \in Database /\ mig[p] \in MigRecord /\ second \in 0..MaxSecond
  BY <1>1 DEF MigTypes
<1>5. clash' \in BOOLEAN /\ (~clash' => ~clash /\ (mig[p].backup => backups[second] = NoBackup))
  BY <1>1, <1>2 DEF MigTypes
<1>6. backups' \in [0..MaxSecond -> (SUBSET Legacy) \cup {NoBackup}]
  BY <1>1, <1>2, <1>4 DEF MigTypes, Database
<1>7. mig' \in [Openers -> MigRecord]
  <2>1. [mig[p] EXCEPT !.stage = "create"] \in MigRecord
    BY <1>4 DEF MigRecord
  <2> QED
    BY <1>1, <1>2, <2>1 DEF MigTypes
<1>8. MigTypes'
  BY <1>1, <1>2, <1>5, <1>6, <1>7 DEF MigTypes
<1>9. \A q \in Openers :
        /\ mig'[q].stage \in {"columns", "alter", "drop"} => mig'[q] = mig[q]
        /\ mig'[q].stage = "backup" => mig'[q] = mig[q]
        /\ mig'[q].stage = "create" => q = p \/ mig'[q] = mig[q]
        /\ mig'[q].stage \in {"backup", "create"} => mig'[q].column = 1
        /\ mig'[q].stage = "create" => 1..(mig'[q].table - 1) \subseteq db.tables
        /\ mig'[q].stage \in {"create", "columns", "alter", "drop"} =>
             q = p \/ mig'[q] = mig[q]
  BY <1>1, <1>2, <1>3, <1>4 DEF MigRecord, Progress
<1>10. Progress' /\ RecordedIsComplete'
  BY <1>1, <1>2, <1>9 DEF Progress, RecordedIsComplete
\* What was in some copy still is, unless a copy was written over another.
<1>11. ASSUME ~clash', NEW t \in Legacy, NEW s \in 0..MaxSecond, t \in backups[s]
       PROVE  t \in backups'[s]
  <2>1. CASE mig[p].backup /\ s = second
    <3>1. backups[s] = {"none"}
      BY <1>5, <1>11, <2>1 DEF NoBackup
    <3> QED
      BY <1>11, <3>1
  <2>2. CASE ~(mig[p].backup /\ s = second)
    BY <1>1, <1>2, <1>11, <2>2 DEF MigTypes
  <2> QED
    BY <2>1, <2>2
<1>12. DroppedIsBackedUp'
  <2> SUFFICES ASSUME old, ~clash', NEW t \in Legacy \ db.legacy
               PROVE  \E s \in 0..MaxSecond : t \in backups'[s]
    BY <1>2 DEF DroppedIsBackedUp
  <2>1. PICK s \in 0..MaxSecond : t \in backups[s]
    BY <1>1, <1>5 DEF DroppedIsBackedUp
  <2> QED
    BY <1>11, <2>1
<1>13. ASSUME old, ~clash', NEW t \in Legacy
       PROVE  \E s \in 0..MaxSecond : t \in backups'[s]
  <2>1. CASE t \in db.legacy
    <3>1. mig[p].backup
      BY <1>1, <1>2, <1>13 DEF CopiedFirst
    <3>2. backups'[second] = db.legacy
      BY <1>1, <1>2, <1>4, <3>1 DEF MigTypes
    <3> QED
      BY <1>4, <2>1, <3>2
  <2>2. CASE t \notin db.legacy
    BY <1>2, <1>12, <1>13, <2>2 DEF DroppedIsBackedUp
  <2> QED
    BY <2>1, <2>2
<1>14. old /\ ~clash' => AllKept'
  BY <1>13 DEF AllKept
<1>15. CopiedFirst'
  BY <1>1, <1>2, <1>9, <1>14 DEF CopiedFirst
<1> QED
  BY <1>8, <1>10, <1>12, <1>15 DEF MigInd

\* CREATE TABLE IF NOT EXISTS.
LEMMA CreateOK ==
  ASSUME MigInd, NEW p \in Openers, CreateTable(p)
  PROVE  MigInd'
<1> USE ColumnsAssumption, TablesAssumption
<1> DEFINE m == mig[p]
           k == mig[p].table
           r == IF k = Tables THEN [m EXCEPT !.stage = "columns"]
                ELSE [m EXCEPT !.table = k + 1]
<1>1. /\ m.stage = "create" /\ UNCHANGED <<old, clash, backups, second>>
      /\ db' = [db EXCEPT !.tables = @ \cup {k},
                          !.columns = IF k = 1 /\ k \notin db.tables
                                      THEN 1..Columns ELSE @]
      /\ mig' = [mig EXCEPT ![p] = r]
  <2>1. mig \in [Openers -> MigRecord]
    BY DEF MigInd, MigTypes
  <2> QED
    BY <2>1 DEF CreateTable
<1>2. /\ m \in MigRecord /\ db \in Database /\ m.column = 1
      /\ 1..(k - 1) \subseteq db.tables
      /\ old => (~clash => AllKept)
      /\ db.row => db.tables = 1..Tables /\ db.columns = 1..Columns /\ db.legacy = {}
  BY <1>1, MigPlace
<1>3. k \in 1..Tables
  BY <1>2 DEF MigRecord
<1>4. /\ db'.tables = db.tables \cup {k} /\ db'.row = db.row
      /\ db'.legacy = db.legacy
      /\ db'.columns = IF k = 1 /\ k \notin db.tables THEN 1..Columns ELSE db.columns
      /\ db.columns \in SUBSET (1..Columns) /\ db.tables \in SUBSET (1..Tables)
  BY <1>1, <1>2 DEF Database
<1>5. db' \in Database /\ db.columns \subseteq db'.columns
  <2>1. db' = [tables |-> db'.tables, columns |-> db'.columns,
               legacy |-> db.legacy, row |-> db.row]
    BY <1>1, <1>2, <1>4 DEF Database
  <2>2. db'.tables \in SUBSET (1..Tables) /\ db'.columns \in SUBSET (1..Columns)
    BY <1>3, <1>4
  <2> QED
    BY <1>2, <1>4, <2>1, <2>2 DEF Database
<1>6. DroppedIsBackedUp'
  BY <1>1, <1>4 DEF MigInd, DroppedIsBackedUp
<1>7. db'.row => db'.tables = 1..Tables /\ db'.columns = 1..Columns /\ db'.legacy = {}
  BY <1>2, <1>3, <1>4
<1>8. 1..k \subseteq db'.tables
  BY <1>2, <1>3, <1>4
<1>9. CASE k = Tables
  <2>1. r \in MigRecord /\ r.stage = "columns" /\ r.column = 1
    BY <1>2, <1>9 DEF MigRecord
  <2>2. db'.tables = 1..Tables
    BY <1>3, <1>4, <1>8, <1>9
  <2>3. 1..(r.column - 1) \subseteq db'.columns
    BY <2>1
  <2> HIDE DEF r, m, k
  <2> QED
    BY <1>1, <1>2, <1>4, <1>5, <1>6, <1>7, <2>1, <2>2, <2>3, MigMove
<1>10. CASE k # Tables
  <2>1. k + 1 \in 1..Tables
    BY <1>3, <1>10
  <2>2. r \in MigRecord /\ r.stage = "create" /\ r.column = 1 /\ r.table = k + 1
    BY <1>1, <1>2, <1>10, <2>1 DEF MigRecord
  <2>3. 1..(r.table - 1) \subseteq db'.tables
    BY <1>3, <1>8, <2>2
  <2> HIDE DEF r, m, k
  <2> QED
    BY <1>1, <1>2, <1>4, <1>5, <1>6, <1>7, <2>2, <2>3, MigMove
<1> QED
  BY <1>9, <1>10

\* _ensure_column reads.
LEMMA ReadColumnsOK ==
  ASSUME MigInd, NEW p \in Openers, ReadColumns(p)
  PROVE  MigInd'
<1> USE ColumnsAssumption
<1> DEFINE m == mig[p]
           r == IF m.column > Columns THEN [m EXCEPT !.stage = "drop"]
                ELSE IF m.column \in db.columns THEN [m EXCEPT !.column = @ + 1]
                ELSE [m EXCEPT !.stage = "alter"]
<1>1. /\ m.stage = "columns" /\ UNCHANGED <<db, old, clash, backups, second>>
      /\ mig' = [mig EXCEPT ![p] = r]
  <2>1. mig \in [Openers -> MigRecord]
    BY DEF MigInd, MigTypes
  <2> QED
    BY <2>1 DEF ReadColumns, MigRecord
<1>2. /\ m \in MigRecord /\ db \in Database /\ db.tables = 1..Tables
      /\ 1..(m.column - 1) \subseteq db.columns
      /\ old => (~clash => AllKept)
  BY <1>1, MigPlace
<1> HIDE DEF m
<1>3. m.column \in 1..(Columns + 1)
  BY <1>2 DEF MigRecord
<1>4. CASE m.column > Columns
  <2>1. r \in MigRecord /\ r.stage = "drop"
    BY <1>2, <1>4 DEF MigRecord
  <2>2. 1..Columns \subseteq db.columns
    BY <1>2, <1>3, <1>4
  <2> HIDE DEF r
  <2> QED
    BY <1>1, <1>2, <2>1, <2>2, MigTurn
<1>5. CASE m.column <= Columns /\ m.column \in db.columns
  <2>1. r = [m EXCEPT !.column = @ + 1]
    BY <1>3, <1>5
  <2>2. r \in MigRecord /\ r.stage = "columns" /\ r.column = m.column + 1
    BY <1>1, <1>2, <1>3, <1>5, <2>1 DEF MigRecord
  <2>3. 1..(r.column - 1) \subseteq db.columns
    BY <1>2, <1>3, <1>5, <2>2
  <2> HIDE DEF r
  <2> QED
    BY <1>1, <1>2, <2>2, <2>3, MigTurn
<1>6. CASE m.column <= Columns /\ m.column \notin db.columns
  <2>1. r = [m EXCEPT !.stage = "alter"]
    BY <1>3, <1>6
  <2>2. r \in MigRecord /\ r.stage = "alter" /\ r.column = m.column
    BY <1>2, <2>1 DEF MigRecord
  <2> HIDE DEF r
  <2> QED
    BY <1>1, <1>2, <1>6, <2>2, MigTurn
<1> QED
  BY <1>3, <1>4, <1>5, <1>6

\* _ensure_column alters, or raises.
LEMMA AddColumnOK ==
  ASSUME MigInd, NEW p \in Openers, AddColumn(p)
  PROVE  MigInd'
<1> USE ColumnsAssumption
<1> DEFINE m == mig[p]
           c == mig[p].column
<1>1. /\ m.stage = "alter" /\ UNCHANGED <<old, clash, backups, second>>
      /\ \/ /\ mig' = [mig EXCEPT ![p].stage = "raised"]
            /\ UNCHANGED db
         \/ /\ db' = [db EXCEPT !.columns = @ \cup {c}]
            /\ mig' = [mig EXCEPT ![p].stage = "columns", ![p].column = c + 1]
  BY DEF AddColumn
<1>2. /\ m \in MigRecord /\ db \in Database /\ db.tables = 1..Tables
      /\ 1..(m.column - 1) \subseteq db.columns /\ m.column <= Columns
      /\ old => (~clash => AllKept)
      /\ db.row => db.tables = 1..Tables /\ db.columns = 1..Columns /\ db.legacy = {}
  BY <1>1, MigPlace
<1>3. c \in 1..Columns
  BY <1>2 DEF MigRecord
<1>4. CASE /\ mig' = [mig EXCEPT ![p].stage = "raised"]
           /\ UNCHANGED db
  <2> DEFINE r == [m EXCEPT !.stage = "raised"]
  <2>1. r \in MigRecord /\ r.stage = "raised" /\ mig' = [mig EXCEPT ![p] = r]
    BY <1>2, <1>4 DEF MigRecord
  <2> HIDE DEF r, m
  <2> QED
    BY <1>1, <1>4, <2>1, MigTurn
<1>5. CASE /\ db' = [db EXCEPT !.columns = @ \cup {c}]
           /\ mig' = [mig EXCEPT ![p].stage = "columns", ![p].column = c + 1]
  <2> DEFINE r == [m EXCEPT !.stage = "columns", !.column = c + 1]
  <2>1. mig \in [Openers -> MigRecord]
    BY DEF MigInd, MigTypes
  <2>2. r \in MigRecord /\ r.stage = "columns" /\ r.column = c + 1
    <3>1. c + 1 \in 1..(Columns + 1)
      BY <1>3
    <3> HIDE DEF c, m
    <3> QED
      BY <1>2, <3>1 DEF MigRecord
  <2>3. mig' = [mig EXCEPT ![p] = r]
    BY <1>2, <1>5, <2>1 DEF MigRecord
  <2>4. /\ db'.tables = db.tables /\ db'.columns = db.columns \cup {c} /\ db'.row = db.row
        /\ db'.legacy = db.legacy /\ db' \in Database
    BY <1>2, <1>3, <1>5 DEF Database
  <2>5. 1..(r.column - 1) \subseteq db'.columns
    BY <1>2, <1>3, <2>2, <2>4
  <2>6. DroppedIsBackedUp'
    BY <1>1, <2>4 DEF MigInd, DroppedIsBackedUp
  <2>7. db'.row => db'.tables = 1..Tables /\ db'.columns = 1..Columns /\ db'.legacy = {}
    BY <1>2, <1>3, <2>4
  <2> HIDE DEF r, m, c
  <2> QED
    BY <1>1, <1>2, <2>2, <2>3, <2>4, <2>5, <2>6, <2>7, MigMove
<1> QED
  BY <1>1, <1>4, <1>5

\* A legacy table goes, and is in a copy.
LEMMA DropOK ==
  ASSUME MigInd, NEW p \in Openers, DropTable(p)
  PROVE  MigInd'
<1>1. /\ mig[p].stage = "drop" /\ UNCHANGED <<old, clash, backups, mig, second>>
      /\ \E t \in db.legacy : db' = [db EXCEPT !.legacy = @ \ {t}]
  BY DEF DropTable
<1>2. PICK t \in db.legacy : db' = [db EXCEPT !.legacy = @ \ {t}]
  BY <1>1
<1>3. /\ mig[p] \in MigRecord /\ db \in Database /\ db.tables = 1..Tables
      /\ 1..Columns \subseteq db.columns
      /\ old => (~clash => AllKept)
      /\ db.row => db.tables = 1..Tables /\ db.columns = 1..Columns /\ db.legacy = {}
  BY <1>1, MigPlace
<1>4. mig \in [Openers -> MigRecord]
  BY DEF MigInd, MigTypes
<1>5. mig' = [mig EXCEPT ![p] = mig[p]]
  BY <1>1, <1>4
<1>6. /\ db' \in Database /\ db'.tables = db.tables /\ db'.columns = db.columns
      /\ db'.row = db.row
  BY <1>2, <1>3 DEF Database
<1>7. DroppedIsBackedUp'
  BY <1>1, <1>3 DEF DroppedIsBackedUp, AllKept
<1> DEFINE r == mig[p]
<1>8. mig' = [mig EXCEPT ![p] = r] /\ r \in MigRecord /\ r.stage = "drop"
  BY <1>1, <1>3, <1>5
<1> HIDE DEF r
<1>9. ~db'.row
  BY <1>2, <1>3, <1>6
<1> QED
  BY <1>1, <1>3, <1>6, <1>7, <1>8, <1>9, MigMove

\* The row is written once everything is done.
LEMMA RecordOK ==
  ASSUME MigInd, NEW p \in Openers, Record(p)
  PROVE  MigInd'
<1> DEFINE r == [mig[p] EXCEPT !.stage = IF db.row THEN "raised" ELSE "done"]
<1>1. /\ mig[p].stage = "drop" /\ db.legacy = {}
      /\ UNCHANGED <<old, clash, backups, second>>
      /\ mig' = [mig EXCEPT ![p] = r]
      /\ db' = [db EXCEPT !.row = TRUE]
  BY DEF Record
<1>2. /\ mig[p] \in MigRecord /\ db \in Database /\ db.tables = 1..Tables
      /\ 1..Columns \subseteq db.columns
  BY <1>1, MigPlace
<1>3. r \in MigRecord /\ r.stage \in {"raised", "done"}
  BY <1>2 DEF MigRecord
<1>4. /\ db' \in Database /\ db'.tables = db.tables /\ db'.columns = db.columns
      /\ db'.legacy = db.legacy
  BY <1>1, <1>2 DEF Database
<1>5. db.columns = 1..Columns
  BY <1>2 DEF Database
<1>6. DroppedIsBackedUp'
  BY <1>1, <1>4 DEF MigInd, DroppedIsBackedUp
<1> HIDE DEF r
<1> QED
  BY <1>1, <1>2, <1>3, <1>4, <1>5, <1>6, MigMove

\* A kill and a retry bring a process back to the start.
LEMMA RestartOK ==
  ASSUME MigInd, NEW p \in Openers, mig' = [mig EXCEPT ![p] = Rest],
         UNCHANGED <<db, old, clash, backups, second>>
  PROVE  MigInd'
<1>1. Rest \in MigRecord /\ Rest.stage = "idle"
  BY ColumnsAssumption, TablesAssumption DEF Rest, MigRecord
<1> QED
  BY <1>1, MigTurn

\* Every step keeps the invariant.
LEMMA MigStep ==
  ASSUME MigInd, [MigNext]_mvars
  PROVE  MigInd'
<1>1. CASE UNCHANGED mvars
  BY <1>1 DEF MigInd, mvars, MigTypes, Progress, RecordedIsComplete, CopiedFirst,
              DroppedIsBackedUp, AllKept
<1>2. CASE Tick
  BY <1>2, ColumnsAssumption
  DEF Tick, MigInd, MigTypes, Progress, RecordedIsComplete, CopiedFirst,
      DroppedIsBackedUp, AllKept
<1>3. ASSUME NEW p \in Openers, migrate(p) \/ KillOpener(p) \/ Retry(p)
      PROVE  MigInd'
  <2>1. CASE KillOpener(p) \/ Retry(p)
    BY <2>1, RestartOK DEF KillOpener, Retry
  <2> QED
    BY <1>3, <2>1, InspectOK, BackupOK, CreateOK, ReadColumnsOK, AddColumnOK,
       DropOK, RecordOK DEF migrate
<1> QED
  BY <1>1, <1>2, <1>3 DEF MigNext

\* Whoever opens the store, in whatever order and however often it is killed:
\* a recorded version stands for the whole migration, and while no copy was
\* written over another one of its second every dropped table is in a copy
\* (migrate, up, _backup_database).
THEOREM MigrationsAlways == MigSpec => []MigrationInv
<1>1. MigInit => MigInd
  BY MigInitOK
<1>2. MigInd /\ [MigNext]_mvars => MigInd'
  BY MigStep
<1>3. MigInd => MigrationInv
  <2> SUFFICES ASSUME MigInd
               PROVE  MigrationInv
    OBVIOUS
  <2>1. MigTypeOK
    BY DEF MigInd, MigTypes, MigTypeOK, Database, MigRecord
  <2> QED
    BY <2>1 DEF MigInd, MigrationInv
<1> QED
  BY <1>1, <1>2, <1>3, PTL DEF MigSpec
=============================================================================
