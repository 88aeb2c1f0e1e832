---------------------------- MODULE HandoffProofs ----------------------------
(* Machine-checked proofs about Memory and Handoff, for any callers,         *)
(* proposals and exporters and any number of records, events and seconds:    *)
(* what the rows, the log and the comparisons say about each other, and what *)
(* may leave in a handoff file.                                              *)
EXTENDS Handoff, SequenceTheorems, FiniteSetTheorems, WellFoundedInduction, TLAPS

\* A set of numbers that is not empty has a least element.  What a recursive
\* function computes is proved by looking at the first place where it would
\* compute something else.
LEMMA Least ==
  ASSUME NEW T \in SUBSET Nat, T # {}
  PROVE  \E x \in T : \A y \in T : x <= y
<1> DEFINE W == {1..x : x \in T}
           R == StrictSubsetOrdering(Nat)
           S == FiniteSubsetsOf(Nat)
<1>1. IsWellFoundedOn(R, S)
  BY FS_StrictSubsetOrderingWellFounded
<1>2. W \subseteq S
  <2>1. \A x \in T : IsFiniteSet(1..x)
    BY FS_Interval
  <2> QED
    BY <2>1 DEF FiniteSubsetsOf
<1>3. W # {}
  OBVIOUS
<1> HIDE DEF R, S, W
<1>4. PICK w \in W : \A v \in W : ~(<<v, w>> \in R)
  BY <1>1, <1>2, <1>3, WFMin
<1>5. PICK x \in T : w = 1..x
  BY DEF W
<1>6. ASSUME NEW y \in T, y < x
      PROVE  FALSE
  <2>1. 1..y \in W /\ 1..y \in SUBSET Nat /\ w \in SUBSET Nat
    BY <1>5 DEF W
  <2>2. 1..y \subseteq w /\ 1..y # w
    BY <1>5, <1>6
  <2>3. <<1..y, w>> \in R
    BY <2>1, <2>2 DEF R, StrictSubsetOrdering
  <2> QED
    BY <1>4, <2>1, <2>3
<1> QED
  BY <1>6

\* The table the rebuild starts from.
EmptyTable == [i \in Ids |-> NoRow]

\* f[j] is the table after the first j events of the log.
Folds(f, n) == f = [j \in 0..n |-> IF j = 0 THEN EmptyTable
                                   ELSE apply_event(f[j - 1], log[j])]

\* The recursive function of the rebuild exists.
LEMMA FoldExists ==
  ASSUME NEW k \in Nat
  PROVE  \E f : Folds(f, k)
<1> DEFINE T == {n \in Nat : ~(\E f : Folds(f, n))}
<1> SUFFICES ASSUME k \in T
             PROVE  FALSE
  OBVIOUS
<1>1. T \in SUBSET Nat /\ T # {}
  OBVIOUS
<1>2. PICK x \in T : \A y \in T : x <= y
  BY <1>1, Least
<1>3. x # 0
  <2> DEFINE f == [j \in 0..0 |-> EmptyTable]
  <2>1. Folds(f, 0)
    BY DEF Folds
  <2> QED
    BY <2>1
<1>4. x - 1 \in Nat /\ x - 1 \notin T
  BY <1>2, <1>3
<1>5. PICK f : Folds(f, x - 1)
  BY <1>4
<1> DEFINE g == [j \in 0..x |-> IF j = x THEN apply_event(f[x - 1], log[x]) ELSE f[j]]
<1>6. \A j \in 0..(x - 1) : f[j] = IF j = 0 THEN EmptyTable ELSE apply_event(f[j - 1], log[j])
  BY <1>4, <1>5 DEF Folds
<1>7. \A j \in 0..x : g[j] = IF j = 0 THEN EmptyTable ELSE apply_event(g[j - 1], log[j])
  BY <1>3, <1>4, <1>6
<1>8. g = [j \in 0..x |-> g[j]]
  OBVIOUS
<1> HIDE DEF g
<1>9. Folds(g, x)
  BY <1>7, <1>8 DEF Folds
<1> QED
  BY <1>9

\* What the rebuild leaves in the table is the fold of the log.
LEMMA RebuildFolds ==
  ASSUME NEW k \in 0..Len(log), Rebuild(k), Len(log) \in Nat
  PROVE  \E f : Folds(f, k) /\ rows' = f[k]
<1> DEFINE F == CHOOSE f : Folds(f, k)
<1>1. Folds(F, k)
  BY FoldExists
<1>2. rows' = F[k]
  BY DEF Rebuild, Folds, EmptyTable
<1> HIDE DEF F
<1> QED
  BY <1>1, <1>2
-----------------------------------------------------------------------------
\* The k-th event writes record i, or retires it.
Writes(k, i) == log[k].type = "written" /\ log[k].id = i
Retires(k, i) == log[k].type \in {"superseded", "archived"} /\ log[k].id = i

\* The claims the log and the table can hold.
Scrubbed == {_scrub_payload(m) : m \in Proposals}

\* The events of the log.
WrittenEvent == [type : {"written"}, id : Ids, claim : Scrubbed,
                 label : Labels, class : Classes]
RejectedEvent == [type : {"rejected"}, id : {0}, label : Labels, class : Classes]
RetiredEvent == [type : {"superseded", "archived"}, id : Ids \cup {0},
                 class : {"internal"}]
Event == WrittenEvent \cup RejectedEvent \cup RetiredEvent

\* The rows of the table.
RowRecord == [exists : {TRUE}, claim : Scrubbed,
              status : {"active", "superseded", "archived"}, archived : BOOLEAN]
Table == [Ids -> {NoRow} \cup RowRecord]

\* Where a call of the service can be.
ProcRecord ==
  {NoProc} \cup [at : {"refused", "verified"}, claim : Proposals, known : SUBSET Ids]
           \cup [at : {"logged"}, entry : Nat]

\* The types, the event a process still has to fold included.
MemTypes ==
  /\ log \in Seq(Event)
  /\ rows \in Table
  /\ \A i \in Ids : rows[i].exists => rows[i].archived = (rows[i].status = "archived")
  /\ proc \in [Procs -> ProcRecord]
  /\ \A p \in Procs : proc[p].at = "logged" => proc[p].entry \in 1..Len(log)
  /\ folded \in SUBSET (1..Len(log))
  /\ source \in Seq(Proposals)
  /\ known \in Seq(SUBSET Ids)
  /\ Len(known) = Len(source) /\ Len(source) <= MaxRecords

\* An id that was given out is written by one event, which holds the scrubbed
\* proposal; it is retired only by later events.
LogOK ==
  /\ \A i \in 1..Len(source) : \E w \in 1..Len(log) : Writes(w, i)
  /\ \A k \in 1..Len(log), i \in Ids : Writes(k, i) =>
       /\ i \in 1..Len(source)
       /\ log[k].claim = _scrub_payload(source[i])
       /\ \A l \in 1..Len(log) : Writes(l, i) => l = k
  /\ \A k \in 1..Len(log), i \in Ids : Retires(k, i) =>
       \E w \in 1..Len(log) : w < k /\ Writes(w, i)

\* A table shows the events of S: a row for each write, retired only if S
\* retires it and, outside rev, active only if S does not.
Reflects(table, S, rev) ==
  \A i \in Ids :
    /\ table[i].exists <=> \E w \in S : Writes(w, i)
    /\ table[i].exists =>
         /\ table[i].claim = _scrub_payload(source[i])
         /\ table[i].status # "active" => \E r \in S : Retires(r, i)
         /\ table[i].status = "active" /\ i \notin rev =>
              \A r \in S : ~Retires(r, i)

\* What a proposal was compared with is in the table, and opposes it only
\* where the scrubber hid the subject or the record was retired.
Compared(m, ids) ==
  \A i \in ids :
    /\ \E w \in folded : Writes(w, i)
    /\ \/ ~Opposed(source[i], m) \/ source[i].text = "sensitive"
       \/ \E r \in folded : Retires(r, i)

\* The texts the verifier refuses.
Unsafe == {"credentials", "boast"}

\* A proposal that was let through was compared with what it knew of.
VerifiedOK ==
  \A p \in Procs : proc[p].at = "verified" =>
    Compared(proc[p].claim, proc[p].known) /\ proc[p].claim.text \notin Unsafe

\* So was every record.
SourcesOK ==
  \A j \in 1..Len(source) :
    Compared(source[j], known[j]) /\ source[j].text \notin Unsafe

\* The inductive invariant of Memory.
MemInv ==
  /\ MemTypes /\ LogOK /\ LogClassCoversClaim /\ Reflects(rows, folded, revived)
  /\ VerifiedOK /\ SourcesOK
-----------------------------------------------------------------------------

\* The fields of a row.
LEMMA RowFields ==
  ASSUME NEW m \in Scrubbed, NEW s \in {"active", "superseded", "archived"}
  PROVE  /\ Row(m, s) \in RowRecord
         /\ Row(m, s).exists /\ Row(m, s).claim = m /\ Row(m, s).status = s
         /\ Row(m, s).archived = (s = "archived")
<1> DEFINE a == (s = "archived")
<1>1. a \in BOOLEAN
  OBVIOUS
<1>2. Row(m, s) = [exists |-> TRUE, claim |-> m, status |-> s, archived |-> a]
  BY DEF Row
<1> HIDE DEF a
<1>3. /\ Row(m, s) \in RowRecord
      /\ Row(m, s).exists /\ Row(m, s).claim = m /\ Row(m, s).status = s
      /\ Row(m, s).archived = a
  BY <1>1, <1>2 DEF RowRecord
<1> QED
  BY <1>3 DEF a

\* A place without a row has no row, and every other one has its fields.
LEMMA RowKinds ==
  ASSUME NEW table \in Table, NEW i \in Ids
  PROVE  /\ table[i].exists \in BOOLEAN
         /\ table[i].exists => table[i] \in RowRecord
         /\ ~table[i].exists => table[i] = NoRow
<1>1. NoRow.exists = FALSE
  BY DEF NoRow
<1>2. \A r \in RowRecord : r.exists = TRUE
  BY DEF RowRecord
<1>3. table[i] = NoRow \/ table[i] \in RowRecord
  BY DEF Table
<1> QED
  BY <1>1, <1>2, <1>3

\* The types of the events.
LEMMA EventKinds ==
  ASSUME NEW e \in Event
  PROVE  /\ e.type = "written" => e \in WrittenEvent
         /\ e.type = "rejected" => e \in RejectedEvent
         /\ e.type \in {"superseded", "archived"} => e \in RetiredEvent
         /\ e.type \in {"written", "rejected", "superseded", "archived"}
         /\ e.class \in Classes
BY DEF Event, WrittenEvent, RejectedEvent, RetiredEvent, Classes

\* Folding a write puts the row of the record and leaves the others.
LEMMA ApplyWritten ==
  ASSUME NEW table \in Table, NEW e \in WrittenEvent
  PROVE  /\ apply_event(table, e) \in Table
         /\ apply_event(table, e)[e.id] = Row(e.claim, "active")
         /\ \A i \in Ids \ {e.id} : apply_event(table, e)[i] = table[i]
<1>1. e.type = "written" /\ e.id \in Ids /\ e.claim \in Scrubbed
  BY DEF WrittenEvent
<1>2. Row(e.claim, "active") \in RowRecord
  BY <1>1, RowFields
<1>3. apply_event(table, e) = [table EXCEPT ![e.id] = Row(e.claim, "active")]
  BY <1>1 DEF apply_event
<1> QED
  BY <1>1, <1>2, <1>3 DEF Table

\* Folding a retirement changes the status of a row that is there.
LEMMA ApplyRetired ==
  ASSUME NEW table \in Table, NEW e \in RetiredEvent
  PROVE  /\ apply_event(table, e) \in Table
         /\ \A i \in Ids : apply_event(table, e)[i] =
              IF i = e.id /\ table[i].exists THEN Row(table[i].claim, e.type)
              ELSE table[i]
<1>1. e.type \in {"superseded", "archived"} /\ e.type # "written"
  BY DEF RetiredEvent
<1>2. apply_event(table, e) =
        IF e.id \in Ids /\ table[e.id].exists
        THEN [table EXCEPT ![e.id] = Row(table[e.id].claim, e.type)] ELSE table
  BY <1>1 DEF apply_event
<1>3. CASE e.id \in Ids /\ table[e.id].exists
  <2>1. table[e.id].claim \in Scrubbed
    BY <1>3, RowKinds DEF RowRecord
  <2>2. Row(table[e.id].claim, e.type) \in RowRecord
    BY <1>1, <2>1, RowFields
  <2> QED
    BY <1>2, <1>3, <2>2 DEF Table
<1>4. CASE ~(e.id \in Ids /\ table[e.id].exists)
  BY <1>2, <1>4
<1> QED
  BY <1>3, <1>4

\* Folding a refusal changes nothing.
LEMMA ApplyRejected ==
  ASSUME NEW table \in Table, NEW e \in RejectedEvent
  PROVE  apply_event(table, e) = table
BY DEF apply_event, RejectedEvent

\* The flag of a row agrees with its status, after every fold.
Flagged(table) ==
  \A i \in Ids : table[i].exists => table[i].archived = (table[i].status = "archived")

\* Folding an event keeps the archive flag in line with the status.
LEMMA ApplyFlagged ==
  ASSUME NEW table \in Table, NEW e \in Event, Flagged(table)
  PROVE  apply_event(table, e) \in Table /\ Flagged(apply_event(table, e))
<1>1. CASE e.type = "written"
  <2>1. e \in WrittenEvent /\ e.claim \in Scrubbed /\ e.id \in Ids
    BY <1>1, EventKinds DEF WrittenEvent
  <2>2. LET r == Row(e.claim, "active")
        IN r.archived = (r.status = "archived")
    BY <2>1, RowFields
  <2> HIDE DEF apply_event, Row
  <2> QED
    BY <2>1, <2>2, ApplyWritten DEF Flagged
<1>2. CASE e.type = "rejected"
  BY <1>2, EventKinds, ApplyRejected
<1>3. CASE e.type \in {"superseded", "archived"}
  <2>1. e \in RetiredEvent
    BY <1>3, EventKinds
  <2>2. apply_event(table, e) \in Table
    BY <2>1, ApplyRetired
  <2>3. ASSUME NEW i \in Ids, apply_event(table, e)[i].exists
        PROVE  apply_event(table, e)[i].archived =
                 (apply_event(table, e)[i].status = "archived")
    <3>1. CASE i = e.id /\ table[i].exists
      <4>1. table[i].claim \in Scrubbed
        BY <3>1, RowKinds DEF RowRecord
      <4>2. apply_event(table, e)[i] = Row(table[i].claim, e.type)
        BY <2>1, <3>1, ApplyRetired
      <4> QED
        BY <1>3, <4>1, <4>2, RowFields
    <3>2. CASE ~(i = e.id /\ table[i].exists)
      <4>1. apply_event(table, e)[i] = table[i]
        BY <2>1, <3>2, ApplyRetired
      <4> QED
        BY <2>3, <4>1 DEF Flagged
    <3> QED
      BY <3>1, <3>2
  <2> QED
    BY <2>2, <2>3 DEF Flagged
<1> QED
  BY <1>1, <1>2, <1>3, EventKinds

\* Folding one more event into a table that shows the events of S.
LEMMA ReflectsStep ==
  ASSUME MemTypes, LogOK,
         NEW table \in Table, NEW S \in SUBSET (1..Len(log)), NEW rev, NEW rev2,
         NEW k \in 1..Len(log),
         Reflects(table, S, rev), rev \subseteq rev2,
         \A i \in Ids : Writes(k, i) =>
           i \in rev2 \/ \A r \in S : ~Retires(r, i)
  PROVE  Reflects(apply_event(table, log[k]), S \cup {k}, rev2)
<1> DEFINE e == log[k]
           new == apply_event(table, e)
<1>1. e \in Event
  BY ElementOfSeq DEF MemTypes
<1> SUFFICES ASSUME NEW i \in Ids
             PROVE  /\ new[i].exists <=> \E w \in S \cup {k} : Writes(w, i)
                    /\ new[i].exists =>
                         /\ new[i].claim = _scrub_payload(source[i])
                         /\ new[i].status # "active" =>
                              \E r \in S \cup {k} : Retires(r, i)
                         /\ new[i].status = "active" /\ i \notin rev2 =>
                              \A r \in S \cup {k} : ~Retires(r, i)
  BY DEF Reflects
<1>2. /\ table[i].exists <=> \E w \in S : Writes(w, i)
      /\ table[i].exists =>
           /\ table[i].claim = _scrub_payload(source[i])
           /\ table[i].status # "active" => \E r \in S : Retires(r, i)
           /\ table[i].status = "active" /\ i \notin rev2 =>
                \A r \in S : ~Retires(r, i)
  BY DEF Reflects
<1>3. table[i].exists => table[i] \in RowRecord /\ table[i].claim \in Scrubbed
  BY RowKinds DEF RowRecord
<1>4. CASE e.type = "written" /\ e.id = i
  <2>1. Writes(k, i) /\ ~Retires(k, i)
    BY <1>4 DEF Writes, Retires
  <2>2. e \in WrittenEvent /\ e.claim \in Scrubbed
    BY <1>1, <1>4, EventKinds DEF WrittenEvent
  <2>3. new[i] = Row(e.claim, "active")
    BY <1>4, <2>2, ApplyWritten
  <2>4. new[i].exists /\ new[i].claim = e.claim /\ new[i].status = "active"
    BY <2>2, <2>3, RowFields
  <2>5. e.claim = _scrub_payload(source[i])
    BY <2>1 DEF LogOK
  <2> QED
    BY <2>1, <2>4, <2>5
<1>5. CASE e.type \in {"superseded", "archived"} /\ e.id = i
  <2>1. ~Writes(k, i) /\ Retires(k, i)
    BY <1>5 DEF Writes, Retires
  <2>2. e \in RetiredEvent
    BY <1>1, <1>5, EventKinds
  <2>3. CASE table[i].exists
    <3>1. new[i] = Row(table[i].claim, e.type)
      BY <1>5, <2>2, <2>3, ApplyRetired
    <3>2. new[i].exists /\ new[i].claim = table[i].claim /\ new[i].status = e.type
      BY <1>3, <1>5, <2>3, <3>1, RowFields
    <3> QED
      BY <1>2, <1>5, <2>1, <2>3, <3>2
  <2>4. CASE ~table[i].exists
    <3>1. new[i] = table[i]
      BY <2>2, <2>4, ApplyRetired
    <3> QED
      BY <1>2, <2>1, <2>4, <3>1
  <2> QED
    BY <2>3, <2>4
<1>6. CASE e.id # i \/ e.type = "rejected"
  <2>1. ~Writes(k, i) /\ ~Retires(k, i)
    BY <1>6 DEF Writes, Retires
  <2>2. new[i] = table[i]
    <3>1. CASE e.type = "written"
      BY <1>1, <1>6, <3>1, EventKinds, ApplyWritten
    <3>2. CASE e.type = "rejected"
      BY <1>1, <3>2, EventKinds, ApplyRejected
    <3>3. CASE e.type \in {"superseded", "archived"}
      <4>1. e \in RetiredEvent
        BY <1>1, <3>3, EventKinds
      <4> QED
        BY <1>6, <3>3, <4>1, ApplyRetired
    <3> QED
      BY <1>1, <3>1, <3>2, <3>3, EventKinds
  <2> QED
    BY <1>2, <2>1, <2>2
<1> QED
  BY <1>1, <1>4, <1>5, <1>6, EventKinds

\* Rebuilding makes a table that shows the first k events, by induction over
\* the fold: a write comes before every retirement of its record, so nothing
\* is retired before it is written.
LEMMA RebuildReflects ==
  ASSUME MemTypes, LogOK, NEW k \in 0..Len(log), Rebuild(k)
  PROVE  rows' \in Table /\ Flagged(rows') /\ Reflects(rows', 1..k, {})
<1>1. Len(log) \in Nat
  BY LenProperties DEF MemTypes
<1>2. PICK f : Folds(f, k) /\ rows' = f[k]
  BY <1>1, RebuildFolds
<1>3. f[0] = EmptyTable
  BY <1>1, <1>2 DEF Folds
<1>4. \A j \in 1..k : f[j] = apply_event(f[j - 1], log[j])
  BY <1>1, <1>2 DEF Folds
<1> DEFINE Good(j) == f[j] \in Table /\ Flagged(f[j]) /\ Reflects(f[j], 1..j, {})
           T == {j \in 0..k : ~Good(j)}
<1>5. Good(0)
  <2>1. EmptyTable \in Table /\ \A i \in Ids : EmptyTable[i] = NoRow
    BY DEF EmptyTable, Table
  <2>2. \A i \in Ids : ~EmptyTable[i].exists
    BY <2>1 DEF NoRow
  <2>3. Flagged(EmptyTable)
    BY <2>2 DEF Flagged
  <2>4. 1..0 = {}
    OBVIOUS
  <2>5. Reflects(EmptyTable, 1..0, {})
    BY <2>2, <2>4 DEF Reflects
  <2> QED
    BY <1>3, <2>1, <2>3, <2>5
<1>6. ASSUME NEW j \in 1..k, Good(j - 1)
      PROVE  Good(j)
  <2>1. log[j] \in Event /\ j \in 1..Len(log) /\ 1..(j - 1) \in SUBSET (1..Len(log))
    BY <1>1, ElementOfSeq DEF MemTypes
  <2>2. f[j] \in Table /\ Flagged(f[j])
    BY <1>4, <1>6, <2>1, ApplyFlagged
  <2>3. ASSUME NEW i \in Ids, Writes(j, i), NEW r \in 1..(j - 1), Retires(r, i)
        PROVE  FALSE
    <3>1. PICK w \in 1..Len(log) : w < r /\ Writes(w, i)
      BY <2>1, <2>3 DEF LogOK
    <3>2. w = j
      BY <2>1, <2>3, <3>1 DEF LogOK
    <3> QED
      BY <1>1, <3>1, <3>2
  <2>4. Reflects(apply_event(f[j - 1], log[j]), (1..(j - 1)) \cup {j}, {})
    <3> DEFINE table == f[j - 1]
               S == 1..(j - 1)
               none == {}
    <3>1. /\ table \in Table /\ S \in SUBSET (1..Len(log)) /\ j \in 1..Len(log)
          /\ Reflects(table, S, none) /\ none \subseteq none
      BY <1>6, <2>1
    <3>2. \A i \in Ids : Writes(j, i) => i \in none \/ \A r \in S : ~Retires(r, i)
      BY <2>3
    <3> HIDE DEF table, S, none
    <3>3. Reflects(apply_event(table, log[j]), S \cup {j}, none)
      BY <3>1, <3>2, ReflectsStep
    <3> QED
      BY <3>3 DEF table, S, none
  <2>5. (1..(j - 1)) \cup {j} = 1..j
    BY <1>1
  <2> QED
    BY <1>4, <2>2, <2>4, <2>5
<1> HIDE DEF Good
<1>7. T = {}
  <2> SUFFICES ASSUME T # {}
               PROVE  FALSE
    OBVIOUS
  <2>1. T \in SUBSET Nat
    BY <1>1
  <2>2. PICK j \in T : \A y \in T : j <= y
    BY <2>1, Least
  <2>3. j \in 1..k /\ j - 1 \in 0..k /\ j - 1 \notin T
    BY <1>1, <1>5, <2>2
  <2> QED
    BY <1>6, <2>2, <2>3
<1>8. Good(k)
  BY <1>1, <1>7
<1> QED
  BY <1>2, <1>8 DEF Good

\* What a proposal was compared with stays in the table and stays retired.
LEMMA ComparedStays ==
  ASSUME MemTypes, LogOK, NEW m, NEW ids \in SUBSET Ids, Compared(m, ids),
         folded \subseteq folded',
         \A k \in 1..Len(log) : log'[k] = log[k],
         \A i \in 1..Len(source) : source'[i] = source[i]
  PROVE  \A i \in ids :
           /\ \E w \in folded' : log'[w].type = "written" /\ log'[w].id = i
           /\ \/ ~Opposed(source'[i], m) \/ source'[i].text = "sensitive"
              \/ \E r \in folded' : /\ log'[r].type \in {"superseded", "archived"}
                                    /\ log'[r].id = i
<1> TAKE i \in ids
<1>1. PICK w \in folded : Writes(w, i)
  BY DEF Compared
<1>2. w \in 1..Len(log) /\ i \in Ids
  BY DEF MemTypes
<1>3. i \in 1..Len(source) /\ source'[i] = source[i]
  BY <1>1, <1>2 DEF LogOK
<1>4. w \in folded' /\ log'[w].type = "written" /\ log'[w].id = i
  BY <1>1, <1>2 DEF Writes
<1>5. ASSUME NEW r \in folded, Retires(r, i)
      PROVE  /\ r \in folded' /\ log'[r].type \in {"superseded", "archived"}
             /\ log'[r].id = i
  BY <1>5 DEF Retires, MemTypes
<1>6. ~Opposed(source[i], m) \/ source[i].text = "sensitive"
        \/ \E r \in folded : Retires(r, i)
  BY DEF Compared
<1> HIDE DEF Opposed
<1> QED
  BY <1>3, <1>4, <1>5, <1>6

\* The labels: renaming keeps what is asked for, and what is not a class of
\* the log is logged as restricted.
LEMMA LabelsCovered ==
  ASSUME NEW l \in Labels
  PROVE  /\ _event_privacy_class(l) \in Classes =>
              Sensitivity(_event_privacy_class(l)) >= Sensitivity(l)
         /\ _rejection_event_privacy_class(l) \in Classes
         /\ Sensitivity(_rejection_event_privacy_class(l)) >= Sensitivity(l)
BY DEF Labels, Classes, _event_privacy_class, _rejection_event_privacy_class,
       Sensitivity

\* What the assumption says of one proposal, scrubbed or not.
LEMMA ProposalFields ==
  ASSUME NEW m \in Proposals
  PROVE  /\ m.label \in Labels
         /\ _scrub_payload(m).label = m.label
         /\ m.text # "sensitive" => _scrub_payload(m) = m
         /\ _scrub_payload(m) \in Scrubbed
BY MemoryAssumption DEF _scrub_payload, Scrubbed
-----------------------------------------------------------------------------
(* The initial state and the steps.                                          *)

\* The invariant holds of an empty memory.
LEMMA MemInitOK == MemInit => MemInv
<1> SUFFICES ASSUME MemInit
             PROVE  MemInv
  OBVIOUS
<1> USE DEF MemInit
<1>1. Len(log) = 0 /\ Len(source) = 0 /\ Len(known) = 0
  BY EmptySeq
<1>2. 1..0 = {}
  OBVIOUS
<1>3. \A i \in Ids : ~rows[i].exists
  BY DEF NoRow
<1>4. MemTypes
  <2>1. log \in Seq(Event) /\ source \in Seq(Proposals) /\ known \in Seq(SUBSET Ids)
    BY EmptySeq
  <2>2. rows \in Table
    BY DEF Table
  <2>3. proc \in [Procs -> ProcRecord] /\ \A p \in Procs : proc[p].at # "logged"
    BY DEF NoProc, ProcRecord
  <2> QED
    BY <1>1, <1>3, <2>1, <2>2, <2>3, MemoryAssumption DEF MemTypes
<1>5. LogOK /\ LogClassCoversClaim
  BY <1>1, <1>2 DEF LogOK, LogClassCoversClaim
<1>6. Reflects(rows, folded, revived)
  BY <1>3 DEF Reflects
<1>7. VerifiedOK
  BY DEF VerifiedOK, NoProc
<1>8. SourcesOK
  BY <1>1, <1>2 DEF SourcesOK
<1> QED
  BY <1>4, <1>5, <1>6, <1>7, <1>8 DEF MemInv

\* What an append leaves and adds.
LEMMA AppendFacts ==
  ASSUME MemTypes, NEW e \in Event, log' = Append(log, e)
  PROVE  /\ log' \in Seq(Event) /\ Len(log) \in Nat /\ Len(log') = Len(log) + 1
         /\ \A k \in 1..Len(log) : log'[k] = log[k]
         /\ log'[Len(log) + 1] = e
<1>1. log \in Seq(Event) /\ Len(log) \in Nat
  BY LenProperties DEF MemTypes
<1> QED
  BY <1>1, AppendProperties

\* Rows stay what they show while the log and the sources only grow.
LEMMA ReflectsKept ==
  ASSUME MemTypes, LogOK, Reflects(rows, folded, revived),
         \A k \in 1..Len(log) : log'[k] = log[k],
         \A i \in 1..Len(source) : source'[i] = source[i],
         rows' = rows, folded' = folded, revived' = revived
  PROVE  Reflects(rows, folded, revived)'
<1> SUFFICES ASSUME NEW i \in Ids
             PROVE  /\ rows[i].exists <=> \E w \in folded : Writes(w, i)'
                    /\ rows[i].exists =>
                         /\ rows[i].claim = _scrub_payload(source'[i])
                         /\ rows[i].status # "active" =>
                              \E r \in folded : Retires(r, i)'
                         /\ rows[i].status = "active" /\ i \notin revived =>
                              \A r \in folded : ~Retires(r, i)'
  BY DEF Reflects
<1>1. \A k \in folded : /\ k \in 1..Len(log)
                        /\ (Writes(k, i)' <=> Writes(k, i))
                        /\ (Retires(k, i)' <=> Retires(k, i))
  BY DEF MemTypes, Writes, Retires
<1>2. rows[i].exists => source'[i] = source[i]
  BY <1>1 DEF Reflects, LogOK
<1> QED
  BY <1>1, <1>2 DEF Reflects

\* Sources stay checked while the log, the sources and the folded events only
\* grow.
LEMMA SourcesKept ==
  ASSUME MemTypes, LogOK, SourcesOK,
         folded \subseteq folded',
         \A k \in 1..Len(log) : log'[k] = log[k],
         \A i \in 1..Len(source) : source'[i] = source[i] /\ known'[i] = known[i]
  PROVE  \A j \in 1..Len(source) :
           Compared(source[j], known[j])' /\ source'[j].text \notin Unsafe
<1> TAKE j \in 1..Len(source)
<1>1. Compared(source[j], known[j]) /\ source[j].text \notin Unsafe
  BY DEF SourcesOK
<1>2. known[j] \in SUBSET Ids
  BY ElementOfSeq DEF MemTypes
<1>3. \A i \in known[j] :
        /\ \E w \in folded' : log'[w].type = "written" /\ log'[w].id = i
        /\ \/ ~Opposed(source'[i], source[j]) \/ source'[i].text = "sensitive"
           \/ \E r \in folded' : /\ log'[r].type \in {"superseded", "archived"}
                                 /\ log'[r].id = i
  BY <1>1, <1>2, ComparedStays
<1> HIDE DEF Opposed
<1>4. source'[j] = source[j] /\ known'[j] = known[j]
  OBVIOUS
<1>5. \A i \in known'[j] :
        /\ \E w \in folded' : Writes(w, i)'
        /\ \/ ~Opposed(source'[i], source'[j]) \/ source'[i].text = "sensitive"
           \/ \E r \in folded' : Retires(r, i)'
  BY <1>3, <1>4 DEF Writes, Retires
<1> QED
  BY <1>1, <1>4, <1>5 DEF Compared

\* The same for the proposals of processes that do not move.
LEMMA VerifiedKept ==
  ASSUME MemTypes, LogOK, VerifiedOK, NEW p \in Procs, proc[p].at = "verified",
         folded \subseteq folded',
         \A k \in 1..Len(log) : log'[k] = log[k],
         \A i \in 1..Len(source) : source'[i] = source[i],
         proc'[p] = proc[p]
  PROVE  /\ Compared(proc[p].claim, proc[p].known)'
         /\ proc'[p].claim.text \notin Unsafe
<1>1. Compared(proc[p].claim, proc[p].known) /\ proc[p].claim.text \notin Unsafe
  BY DEF VerifiedOK
<1>2. proc[p].known \in SUBSET Ids
  BY DEF MemTypes, ProcRecord, NoProc
<1>3. \A i \in proc[p].known :
        /\ \E w \in folded' : log'[w].type = "written" /\ log'[w].id = i
        /\ \/ ~Opposed(source'[i], proc[p].claim) \/ source'[i].text = "sensitive"
           \/ \E r \in folded' : /\ log'[r].type \in {"superseded", "archived"}
                                 /\ log'[r].id = i
  BY <1>1, <1>2, ComparedStays
<1> HIDE DEF Opposed
<1>5. \A i \in proc'[p].known :
        /\ \E w \in folded' : Writes(w, i)'
        /\ \/ ~Opposed(source'[i], proc'[p].claim) \/ source'[i].text = "sensitive"
           \/ \E r \in folded' : Retires(r, i)'
  BY <1>3 DEF Writes, Retires
<1> QED
  BY <1>1, <1>5 DEF Compared

\* What a process at each stage holds.
LEMMA ProcFields ==
  ASSUME MemTypes, NEW p \in Procs
  PROVE  /\ proc[p].at \in {"refused", "verified"} =>
              proc[p].claim \in Proposals /\ proc[p].known \in SUBSET Ids
         /\ proc[p].at = "logged" => proc[p].entry \in 1..Len(log)
BY DEF MemTypes, ProcRecord, NoProc

\* Steps that move one process and nothing else.
LEMMA ProcStep ==
  ASSUME MemInv, NEW p \in Procs, NEW new \in ProcRecord,
         proc' = [proc EXCEPT ![p] = new],
         UNCHANGED <<log, rows, folded, source, known, revived>>,
         new.at # "logged",
         new.at = "verified" =>
           Compared(new.claim, new.known) /\ new.claim.text \notin Unsafe
  PROVE  MemInv'
<1>1. /\ MemTypes /\ LogOK /\ LogClassCoversClaim
      /\ Reflects(rows, folded, revived) /\ VerifiedOK /\ SourcesOK
  BY DEF MemInv
<1>2. proc'[p] = new /\ \A q \in Procs \ {p} : proc'[q] = proc[q]
  BY <1>1 DEF MemTypes
<1>3. MemTypes'
  BY <1>1, <1>2 DEF MemTypes
<1>4. LogOK' /\ LogClassCoversClaim'
  <2>1. log' = log /\ source' = source
    OBVIOUS
  <2>2. LogOK'
    BY ONLY <1>1, <2>1 DEF LogOK, Writes, Retires
  <2>3. LogClassCoversClaim'
    BY ONLY <1>1, <2>1 DEF LogClassCoversClaim
  <2> QED
    BY <2>2, <2>3
<1>5. Reflects(rows, folded, revived)'
  BY <1>1, ReflectsKept
<1>6. SourcesOK'
  <2>1. \A j \in 1..Len(source) :
          Compared(source[j], known[j])' /\ source'[j].text \notin Unsafe
    BY <1>1, SourcesKept
  <2> QED
    BY <2>1 DEF SourcesOK
<1>7. VerifiedOK'
  <2> SUFFICES ASSUME NEW q \in Procs, proc'[q].at = "verified"
               PROVE  /\ Compared(proc[q].claim, proc[q].known)'
                      /\ proc'[q].claim.text \notin Unsafe
    BY DEF VerifiedOK
  <2>1. CASE q = p
    BY <1>2, <2>1 DEF Compared, Writes, Retires
  <2>2. CASE q # p
    BY <1>1, <1>2, <2>2, VerifiedKept
  <2> QED
    BY <2>1, <2>2
<1> QED
  BY <1>3, <1>4, <1>5, <1>6, <1>7 DEF MemInv

\* Verifying a proposal keeps the invariant.
LEMMA WriteOK ==
  ASSUME MemInv, NEW p \in Procs, NEW m \in Proposals, NEW b \in BOOLEAN,
         write(p, m, b)
  PROVE  MemInv'
<1> DEFINE at == IF b \/ Blocked(m) THEN "refused" ELSE "verified"
           new == [at |-> at, claim |-> m, known |-> FoldedIds]
<1>1. MemTypes /\ LogOK /\ Reflects(rows, folded, revived)
  BY DEF MemInv
<1>2. \A i \in FoldedIds : i \in Ids /\ \E k \in folded : Writes(k, i)
  <2> SUFFICES ASSUME NEW k \in folded, log[k].type = "written"
               PROVE  log[k].id \in Ids
    BY DEF FoldedIds, Writes
  <2>1. log[k] \in Event
    BY <1>1, ElementOfSeq DEF MemTypes
  <2>2. log[k] \in WrittenEvent
    BY <2>1, EventKinds
  <2> QED
    BY <2>2 DEF WrittenEvent
<1>3. new \in ProcRecord /\ new.at # "logged"
  <2>1. FoldedIds \in SUBSET Ids
    BY <1>2
  <2>2. at \in {"refused", "verified"}
    OBVIOUS
  <2> HIDE DEF at
  <2> QED
    BY <2>1, <2>2 DEF ProcRecord
<1>4. ASSUME ~Blocked(m)
      PROVE  Compared(m, FoldedIds) /\ m.text \notin Unsafe
  <2>1. m.text \notin Unsafe /\ ~_check_contradictions(m)
    BY <1>4 DEF Blocked, Unsafe
  <2>2. ASSUME NEW i \in FoldedIds
        PROVE  /\ \E w \in folded : Writes(w, i)
               /\ \/ ~Opposed(source[i], m) \/ source[i].text = "sensitive"
                  \/ \E r \in folded : Retires(r, i)
    <3>1. i \in Ids /\ \E w \in folded : Writes(w, i)
      BY <1>2
    <3>2. rows[i].exists /\ rows[i].claim = _scrub_payload(source[i])
      BY <1>1, <3>1 DEF Reflects
    <3>3. CASE rows[i].status # "active"
      BY <1>1, <3>1, <3>2, <3>3 DEF Reflects
    <3>4. CASE rows[i].status = "active"
      <4>1. rows[i].archived = (rows[i].status = "archived")
        BY <1>1, <3>1, <3>2 DEF MemTypes
      <4>2. i \in List(rows, {"active"})
        BY <3>1, <3>2, <3>4, <4>1 DEF List
      <4>3. ~Opposed(m, rows[i].claim)
        BY <2>1, <4>2 DEF _check_contradictions
      <4>4. source[i] \in Proposals
        BY <1>1, <3>1, ElementOfSeq DEF LogOK, MemTypes
      <4>5. source[i].text = "sensitive" \/ rows[i].claim = source[i]
        BY <3>2, <4>4, ProposalFields
      <4> QED
        BY <3>1, <4>3, <4>5 DEF Opposed
    <3> QED
      BY <3>3, <3>4
  <2> QED
    BY <2>1, <2>2 DEF Compared
<1>5. new.at = "verified" =>
        Compared(new.claim, new.known) /\ new.claim.text \notin Unsafe
  BY <1>4
<1>6. /\ proc' = [proc EXCEPT ![p] = new]
      /\ UNCHANGED <<log, rows, folded, source, known, revived>>
  BY DEF write
<1> HIDE DEF new
<1> QED
  BY <1>3, <1>5, <1>6, ProcStep

\* A call that raises keeps the invariant.
LEMMA AbortOK ==
  ASSUME MemInv, NEW p \in Procs, Abort(p)
  PROVE  MemInv'
<1>1. NoProc \in ProcRecord /\ NoProc.at # "logged" /\ NoProc.at # "verified"
  BY DEF NoProc, ProcRecord
<1>2. /\ proc' = [proc EXCEPT ![p] = NoProc]
      /\ UNCHANGED <<log, rows, folded, source, known, revived>>
  BY DEF Abort
<1> QED
  BY <1>1, <1>2, ProcStep

\* Steps that append one event and move one process.
LEMMA LogStep ==
  ASSUME MemInv, NEW p \in Procs, NEW new \in ProcRecord, NEW e \in Event,
         log' = Append(log, e), proc' = [proc EXCEPT ![p] = new],
         UNCHANGED <<rows, folded, revived>>,
         new.at # "verified", new.at = "logged" => new.entry = Len(log) + 1,
         source' \in Seq(Proposals), known' \in Seq(SUBSET Ids),
         Len(known') = Len(source'), Len(source') <= MaxRecords,
         Len(source) <= Len(source'),
         \A i \in 1..Len(source) : source'[i] = source[i] /\ known'[i] = known[i],
         \A j \in 1..Len(source') : j \notin 1..Len(source) =>
           Compared(source[j], known[j])' /\ source'[j].text \notin Unsafe,
         e.type \in {"written", "rejected"} =>
           Sensitivity(e.class) >= Sensitivity(e.label),
         \A i \in Ids : e.type = "written" /\ e.id = i =>
           /\ i \in 1..Len(source') /\ e.claim = _scrub_payload(source'[i])
           /\ \A k \in 1..Len(log) : ~Writes(k, i),
         \A i \in Ids : e.type \in {"superseded", "archived"} /\ e.id = i =>
           \E w \in 1..Len(log) : Writes(w, i),
         \A j \in 1..Len(source') : j \notin 1..Len(source) =>
           e.type = "written" /\ e.id = j
  PROVE  MemInv'
<1>1. /\ MemTypes /\ LogOK /\ LogClassCoversClaim
      /\ Reflects(rows, folded, revived) /\ VerifiedOK /\ SourcesOK
  BY DEF MemInv
<1>2. proc'[p] = new /\ \A q \in Procs \ {p} : proc'[q] = proc[q]
  BY <1>1 DEF MemTypes
<1>3. /\ log' \in Seq(Event) /\ Len(log) \in Nat /\ Len(log') = Len(log) + 1
      /\ \A k \in 1..Len(log) : log'[k] = log[k]
      /\ log'[Len(log) + 1] = e
  BY <1>1, AppendFacts
<1>4. Len(source) \in Nat /\ Len(source') \in Nat
  BY <1>1, LenProperties DEF MemTypes
<1>5. \A k \in 1..Len(log') : k \in 1..Len(log) \/ k = Len(log) + 1
  BY <1>3
<1>6. MemTypes'
  <2>1. \A q \in Procs : proc'[q].at = "logged" => proc'[q].entry \in 1..Len(log')
    BY <1>1, <1>2, <1>3 DEF MemTypes
  <2>2. folded' \in SUBSET (1..Len(log'))
    BY <1>1, <1>3 DEF MemTypes
  <2>3. rows' \in Table /\ proc' \in [Procs -> ProcRecord]
    BY <1>1 DEF MemTypes
  <2>4. \A i \in Ids : rows'[i].exists =>
          rows'[i].archived = (rows'[i].status = "archived")
    BY <1>1 DEF MemTypes
  <2> QED
    BY <1>3, <2>1, <2>2, <2>3, <2>4 DEF MemTypes
<1>7. \A k \in 1..Len(log), i \in Ids :
        (Writes(k, i)' <=> Writes(k, i)) /\ (Retires(k, i)' <=> Retires(k, i))
  BY <1>3 DEF Writes, Retires
<1>8. LogOK'
  <2>1. ASSUME NEW k \in 1..Len(log'), NEW i \in Ids, Writes(k, i)'
        PROVE  /\ i \in 1..Len(source')
               /\ log'[k].claim = _scrub_payload(source'[i])
               /\ \A l \in 1..Len(log') : Writes(l, i)' => l = k
    <3>1. CASE k \in 1..Len(log)
      <4>1. /\ i \in 1..Len(source) /\ log[k].claim = _scrub_payload(source[i])
            /\ \A l \in 1..Len(log) : Writes(l, i) => l = k
        BY <1>1, <1>7, <2>1, <3>1 DEF LogOK
      <4>2. ~(e.type = "written" /\ e.id = i)
        BY <1>7, <2>1, <3>1
      <4>3. ASSUME NEW l \in 1..Len(log'), Writes(l, i)'
            PROVE  l \in 1..Len(log)
        BY <1>3, <1>5, <4>2, <4>3 DEF Writes
      <4>4. \A l \in 1..Len(log') : Writes(l, i)' => l = k
        BY <1>7, <4>1, <4>3
      <4> QED
        BY <1>3, <1>4, <3>1, <4>1, <4>4
    <3>2. CASE k = Len(log) + 1
      <4>1. e.type = "written" /\ e.id = i
        BY <1>3, <2>1, <3>2 DEF Writes
      <4>2. \A l \in 1..Len(log) : ~Writes(l, i)'
        BY <1>7, <4>1
      <4> QED
        BY <1>3, <1>5, <3>2, <4>1, <4>2
    <3> QED
      BY <1>5, <3>1, <3>2
  <2>2. ASSUME NEW k \in 1..Len(log'), NEW i \in Ids, Retires(k, i)'
        PROVE  \E w \in 1..Len(log') : w < k /\ Writes(w, i)'
    <3>1. CASE k \in 1..Len(log)
      <4>1. PICK w \in 1..Len(log) : w < k /\ Writes(w, i)
        BY <1>1, <1>7, <2>2, <3>1 DEF LogOK
      <4> QED
        BY <1>3, <1>7, <4>1
    <3>2. CASE k = Len(log) + 1
      <4>1. e.type \in {"superseded", "archived"} /\ e.id = i
        BY <1>3, <2>2, <3>2 DEF Retires
      <4>2. PICK w \in 1..Len(log) : Writes(w, i)
        BY <4>1
      <4> QED
        BY SMTT(30), ZenonT(30), <1>3, <1>7, <3>2, <4>2
    <3> QED
      BY <1>5, <3>1, <3>2
  <2>3. ASSUME NEW j \in 1..Len(source')
        PROVE  \E w \in 1..Len(log') : Writes(w, j)'
    <3>1. CASE j \in 1..Len(source)
      <4>1. PICK w \in 1..Len(log) : Writes(w, j)
        BY <1>1, <3>1 DEF LogOK
      <4>2. w \in 1..Len(log') /\ log'[w] = log[w]
        BY <1>3, <4>1
      <4> QED
        BY <4>1, <4>2 DEF Writes
    <3>2. CASE j \notin 1..Len(source)
      <4>1. e.type = "written" /\ e.id = j /\ Len(log) + 1 \in 1..Len(log')
        BY <1>3, <3>2
      <4> QED
        BY <1>3, <4>1 DEF Writes
    <3> QED
      BY <3>1, <3>2
  <2> QED
    BY <2>1, <2>2, <2>3 DEF LogOK
<1>9. LogClassCoversClaim'
  BY <1>1, <1>3, <1>5 DEF LogClassCoversClaim
<1>10. Reflects(rows, folded, revived)'
  BY <1>1, <1>3, ReflectsKept
<1>11. SourcesOK'
  <2>1. \A j \in 1..Len(source) :
          Compared(source[j], known[j])' /\ source'[j].text \notin Unsafe
    BY <1>1, <1>3, SourcesKept
  <2> QED
    BY <2>1 DEF SourcesOK
<1>12. VerifiedOK'
  <2> SUFFICES ASSUME NEW q \in Procs, proc'[q].at = "verified"
               PROVE  /\ Compared(proc[q].claim, proc[q].known)'
                      /\ proc'[q].claim.text \notin Unsafe
    BY DEF VerifiedOK
  <2>1. q # p /\ proc'[q] = proc[q]
    BY <1>2
  <2> QED
    BY <1>1, <1>3, <2>1, VerifiedKept
<1> QED
  BY <1>6, <1>8, <1>9, <1>10, <1>11, <1>12 DEF MemInv

\* Logging a refusal keeps the invariant.
LEMMA LogRejectionOK ==
  ASSUME MemInv, NEW p \in Procs, LogRejection(p)
  PROVE  MemInv'
<1> DEFINE m == proc[p].claim
           e == [type |-> "rejected", id |-> 0, label |-> m.label,
                 class |-> _rejection_event_privacy_class(m.label)]
<1>1. MemTypes
  BY DEF MemInv
<1>2. m \in Proposals /\ m.label \in Labels
  BY <1>1, ProcFields, ProposalFields DEF LogRejection
<1>3. /\ _rejection_event_privacy_class(m.label) \in Classes
      /\ Sensitivity(_rejection_event_privacy_class(m.label)) >= Sensitivity(m.label)
  BY <1>2, LabelsCovered
<1>4. e \in Event /\ e.type = "rejected"
  BY <1>2, <1>3 DEF Event, RejectedEvent
<1>5. /\ log' = Append(log, e) /\ proc' = [proc EXCEPT ![p] = NoProc]
      /\ UNCHANGED <<rows, folded, revived>> /\ source' = source /\ known' = known
  BY DEF LogRejection
<1>6. NoProc \in ProcRecord /\ NoProc.at # "verified" /\ NoProc.at # "logged"
  BY DEF NoProc, ProcRecord
<1>7. e.type \in {"written", "rejected"} =>
        Sensitivity(e.class) >= Sensitivity(e.label)
  BY <1>3
<1>8. /\ source' \in Seq(Proposals) /\ known' \in Seq(SUBSET Ids)
      /\ Len(known') = Len(source') /\ Len(source') <= MaxRecords
      /\ Len(source) <= Len(source')
      /\ \A i \in 1..Len(source) : source'[i] = source[i] /\ known'[i] = known[i]
      /\ \A j \in 1..Len(source') : j \in 1..Len(source)
  BY <1>1, <1>5, LenProperties DEF MemTypes
<1> HIDE DEF e
<1> QED
  BY <1>4, <1>5, <1>6, <1>7, <1>8, LogStep

\* Superseding or archiving a record keeps the invariant.
LEMMA RetireOK ==
  ASSUME MemInv, NEW p \in Procs, NEW i \in Ids \cup {0},
         NEW type \in {"superseded", "archived"}, Retire(p, i, type)
  PROVE  MemInv'
<1> DEFINE e == [type |-> type, id |-> i, class |-> "internal"]
           new == [at |-> "logged", entry |-> Len(log) + 1]
<1>1. MemTypes /\ LogOK
  BY DEF MemInv
<1>2. e \in Event /\ e.type = type /\ e.id = i
  BY DEF Event, RetiredEvent
<1>3. /\ log' = Append(log, e) /\ proc' = [proc EXCEPT ![p] = new]
      /\ UNCHANGED <<rows, folded, revived>> /\ source' = source /\ known' = known
  BY DEF Retire
<1>4. Len(log) \in Nat
  BY <1>1, LenProperties DEF MemTypes
<1>5. /\ new \in ProcRecord /\ new.at # "verified"
      /\ new.at = "logged" => new.entry = Len(log) + 1
  BY <1>4 DEF ProcRecord
<1>6. i \in Ids => \E w \in 1..Len(log) : Writes(w, i)
  <2>1. i \in Ids => i \in 1..Len(source)
    BY <1>1, LenProperties DEF Retire, Ids, MemTypes
  <2> QED
    BY <1>1, <2>1 DEF LogOK
<1>7. /\ source' \in Seq(Proposals) /\ known' \in Seq(SUBSET Ids)
      /\ Len(known') = Len(source') /\ Len(source') <= MaxRecords
      /\ Len(source) <= Len(source')
      /\ \A j \in 1..Len(source) : source'[j] = source[j] /\ known'[j] = known[j]
      /\ \A j \in 1..Len(source') : j \in 1..Len(source)
  BY <1>1, <1>3, LenProperties DEF MemTypes
<1>8. type # "written" /\ type # "rejected"
  OBVIOUS
<1> HIDE DEF e, new
<1>9. \A j \in Ids : e.type \in {"superseded", "archived"} /\ e.id = j =>
        \E w \in 1..Len(log) : Writes(w, j)
  BY <1>2, <1>6
<1>10. e.type \notin {"written", "rejected"}
  BY <1>2, <1>8
<1> QED
  BY <1>2, <1>3, <1>5, <1>7, <1>9, <1>10, LogStep

\* Writing a record keeps the invariant.
LEMMA WriteRecordOK ==
  ASSUME MemInv, NEW p \in Procs, write_record(p)
  PROVE  MemInv'
<1> DEFINE m == proc[p].claim
           class == _event_privacy_class(m.label)
           id == Len(source) + 1
           e == [type |-> "written", id |-> id, claim |-> _scrub_payload(m),
                 label |-> m.label, class |-> class]
           new == [at |-> "logged", entry |-> Len(log) + 1]
<1>1. MemTypes /\ LogOK /\ VerifiedOK
  BY DEF MemInv
<1>2. proc[p].at = "verified"
  BY DEF write_record
<1>3. m \in Proposals /\ m.label \in Labels /\ proc[p].known \in SUBSET Ids
  BY <1>1, <1>2, ProcFields, ProposalFields
<1>4. CASE class \notin Classes
  <2>1. NoProc \in ProcRecord /\ NoProc.at # "logged" /\ NoProc.at # "verified"
    BY DEF NoProc, ProcRecord
  <2>2. /\ proc' = [proc EXCEPT ![p] = NoProc]
        /\ UNCHANGED <<log, rows, folded, source, known, revived>>
    BY <1>4 DEF write_record
  <2> QED
    BY <2>1, <2>2, ProcStep
<1>5. CASE class \in Classes
  <2>1. /\ id \in Ids /\ log' = Append(log, e)
        /\ source' = Append(source, m) /\ known' = Append(known, proc[p].known)
        /\ proc' = [proc EXCEPT ![p] = new]
        /\ UNCHANGED <<rows, folded, revived>>
    BY <1>5 DEF write_record
  <2>2. Len(log) \in Nat /\ Len(source) \in Nat
    BY <1>1, LenProperties DEF MemTypes
  <2>3. _scrub_payload(m) \in Scrubbed
    BY <1>3, ProposalFields
  <2>4. e \in Event /\ e.type = "written"
    BY <1>3, <1>5, <2>1, <2>3 DEF Event, WrittenEvent
  <2>5. /\ source' \in Seq(Proposals) /\ Len(source') = id /\ source'[id] = m
        /\ \A i \in 1..Len(source) : source'[i] = source[i]
    <3>1. source \in Seq(Proposals)
      BY <1>1 DEF MemTypes
    <3> QED
      BY <1>3, <2>1, <3>1, AppendProperties
  <2>6. /\ known' \in Seq(SUBSET Ids) /\ Len(known') = id
        /\ known'[id] = proc[p].known
        /\ \A i \in 1..Len(source) : known'[i] = known[i]
    <3>1. known \in Seq(SUBSET Ids) /\ Len(known) = Len(source)
      BY <1>1 DEF MemTypes
    <3> QED
      BY <1>3, <2>1, <3>1, AppendProperties
  <2>7. id <= MaxRecords /\ MaxRecords \in Nat
    BY <2>1, MemoryAssumption DEF Ids
  <2>8. \A k \in 1..Len(log) : log'[k] = log[k]
    BY <1>1, <2>1, <2>4, AppendFacts
  <2>9. /\ Compared(m, proc[p].known) /\ m.text \notin Unsafe
    BY <1>1, <1>2 DEF VerifiedOK
  <2>10. \A j \in 1..Len(source') : j \notin 1..Len(source) =>
           Compared(source[j], known[j])' /\ source'[j].text \notin Unsafe
    <3>1. \A i \in proc[p].known :
            /\ \E w \in folded' : log'[w].type = "written" /\ log'[w].id = i
            /\ \/ ~Opposed(source'[i], m) \/ source'[i].text = "sensitive"
               \/ \E r \in folded' : /\ log'[r].type \in {"superseded", "archived"}
                                     /\ log'[r].id = i
      <4>1. folded \subseteq folded'
        BY <2>1
      <4> QED
        BY <1>1, <1>3, <2>5, <2>8, <2>9, <4>1, ComparedStays
    <3> HIDE DEF Opposed, m
    <3>2. ASSUME NEW j \in 1..Len(source'), j \notin 1..Len(source)
          PROVE  Compared(source[j], known[j])' /\ source'[j].text \notin Unsafe
      <4>1. j = id
        BY <2>2, <2>5, <3>2
      <4>2. source'[j] = m /\ known'[j] = proc[p].known
        BY <2>5, <2>6, <4>1
      <4>3. \A i \in known'[j] :
              /\ \E w \in folded' : Writes(w, i)'
              /\ \/ ~Opposed(source'[i], source'[j]) \/ source'[i].text = "sensitive"
                 \/ \E r \in folded' : Retires(r, i)'
        BY <3>1, <4>2 DEF Writes, Retires
      <4> QED
        BY <2>9, <4>2, <4>3 DEF Compared
    <3> QED
      BY <3>2
  <2>11. Sensitivity(e.class) >= Sensitivity(e.label)
    BY <1>3, <1>5, LabelsCovered
  <2>12. \A i \in Ids : e.type = "written" /\ e.id = i =>
           /\ i \in 1..Len(source') /\ e.claim = _scrub_payload(source'[i])
           /\ \A k \in 1..Len(log) : ~Writes(k, i)
    <3>1. e.id = id /\ e.claim = _scrub_payload(m)
      OBVIOUS
    <3>2. \A k \in 1..Len(log) : ~Writes(k, id)
      BY <1>1, <2>1, <2>2 DEF LogOK
    <3> HIDE DEF e, m
    <3> QED
      BY <2>2, <2>5, <3>1, <3>2
  <2>13. /\ new \in ProcRecord /\ new.at # "verified"
         /\ new.at = "logged" => new.entry = Len(log) + 1
    BY <2>2 DEF ProcRecord
  <2> HIDE DEF e, new
  <2>14. /\ Len(known') = Len(source') /\ Len(source') <= MaxRecords
         /\ Len(source) <= Len(source')
    BY <2>2, <2>5, <2>6, <2>7
  <2>15. \A i \in 1..Len(source) : source'[i] = source[i] /\ known'[i] = known[i]
    BY <2>5, <2>6
  <2>16. e.type \notin {"superseded", "archived"}
    BY <2>4
  <2>17. \A j \in 1..Len(source') : j \notin 1..Len(source) =>
           e.type = "written" /\ e.id = j
    <3>1. e.id = id
      BY DEF e
    <3> QED
      BY <2>2, <2>4, <2>5, <3>1
  <2> HIDE DEF id, m, class
  <2> QED
    BY <2>1, <2>4, <2>5, <2>6, <2>10, <2>11, <2>12, <2>13, <2>14, <2>15, <2>16,
       <2>17, LogStep
<1> QED
  BY <1>4, <1>5

\* Folding more events keeps what was checked.
LEMMA FoldStep ==
  ASSUME MemInv, NEW p \in Procs, UNCHANGED <<log, source, known>>,
         proc' = proc \/ proc' = [proc EXCEPT ![p] = NoProc],
         folded \subseteq folded', folded' \subseteq 1..Len(log),
         rows' \in Table, Flagged(rows'), Reflects(rows', folded', revived')
  PROVE  MemInv'
<1>1. /\ MemTypes /\ LogOK /\ LogClassCoversClaim /\ VerifiedOK /\ SourcesOK
  BY DEF MemInv
<1>2. \A q \in Procs : proc'[q] = proc[q] \/ proc'[q] = NoProc
  BY <1>1 DEF MemTypes
<1>3. NoProc \in ProcRecord /\ NoProc.at # "logged" /\ NoProc.at # "verified"
  BY DEF NoProc, ProcRecord
<1>4. MemTypes'
  <2>1. proc' \in [Procs -> ProcRecord]
    BY <1>1, <1>3 DEF MemTypes
  <2>2. \A q \in Procs : proc'[q].at = "logged" => proc'[q].entry \in 1..Len(log)
    BY <1>1, <1>2, <1>3 DEF MemTypes
  <2> QED
    BY <1>1, <2>1, <2>2 DEF MemTypes, Flagged
<1>5. LogOK' /\ LogClassCoversClaim'
  BY <1>1 DEF LogOK, LogClassCoversClaim, Writes, Retires
<1>6. Reflects(rows, folded, revived)'
  BY DEF Reflects, Writes, Retires
<1>7. SourcesOK'
  <2>1. \A j \in 1..Len(source) :
          Compared(source[j], known[j])' /\ source'[j].text \notin Unsafe
    BY <1>1, SourcesKept
  <2> QED
    BY <2>1 DEF SourcesOK
<1>8. VerifiedOK'
  <2> SUFFICES ASSUME NEW q \in Procs, proc'[q].at = "verified"
               PROVE  /\ Compared(proc[q].claim, proc[q].known)'
                      /\ proc'[q].claim.text \notin Unsafe
    BY DEF VerifiedOK
  <2>1. proc'[q] = proc[q]
    BY <1>2, <1>3
  <2> QED
    BY <1>1, <2>1, VerifiedKept
<1> QED
  BY <1>4, <1>5, <1>6, <1>7, <1>8 DEF MemInv

\* Folding a logged event keeps the invariant.
LEMMA ApplyOK ==
  ASSUME MemInv, NEW p \in Procs, ApplyAndCommit(p)
  PROVE  MemInv'
<1> DEFINE k == proc[p].entry
           e == log[k]
           S == folded \cup {k}
           rev2 == IF Later(k) = {} THEN revived ELSE revived \cup {e.id}
<1>1. MemTypes /\ LogOK /\ Reflects(rows, folded, revived)
  BY DEF MemInv
<1>2. k \in 1..Len(log) /\ e \in Event /\ Len(log) \in Nat
  BY <1>1, ProcFields, ElementOfSeq, LenProperties DEF ApplyAndCommit, MemTypes
<1>3. /\ rows' = apply_event(rows, e) /\ folded' = S /\ revived' = rev2
      /\ proc' = [proc EXCEPT ![p] = NoProc] /\ UNCHANGED <<log, source, known>>
  BY DEF ApplyAndCommit
<1>4. rows \in Table /\ Flagged(rows) /\ folded \in SUBSET (1..Len(log))
  BY <1>1 DEF MemTypes, Flagged
<1>5. rows' \in Table /\ Flagged(rows')
  BY <1>2, <1>3, <1>4, ApplyFlagged
<1>6. ASSUME NEW i \in Ids, Writes(k, i), NEW r \in folded, Retires(r, i)
      PROVE  i \in rev2
  <2>1. PICK w \in 1..Len(log) : w < r /\ Writes(w, i)
    BY <1>1, <1>4, <1>6 DEF LogOK
  <2>2. w = k
    BY <1>1, <1>2, <1>6, <2>1 DEF LogOK
  <2>3. r \in Later(k) /\ e.id = i
    BY <1>4, <1>6, <2>1, <2>2 DEF Later, Writes, Retires
  <2> QED
    BY <2>3
<1>7. revived \subseteq rev2
  OBVIOUS
<1>8. \A i \in Ids : Writes(k, i) => i \in rev2 \/ \A r \in folded : ~Retires(r, i)
  BY <1>6
<1> HIDE DEF k, rev2
<1>9. Reflects(apply_event(rows, e), folded \cup {k}, rev2)
  BY <1>1, <1>2, <1>4, <1>7, <1>8, ReflectsStep
<1>10. Reflects(rows', folded', revived')
  BY <1>3, <1>9
<1>11. folded \subseteq folded' /\ folded' \subseteq 1..Len(log)
  BY <1>2, <1>3, <1>4
<1> QED
  BY <1>3, <1>5, <1>10, <1>11, FoldStep

\* A rebuild keeps the invariant.
LEMMA RebuildOK ==
  ASSUME MemInv, NEW k \in 0..Len(log), Rebuild(k)
  PROVE  MemInv'
<1>1. MemTypes /\ LogOK /\ Procs # {}
  BY MemoryAssumption DEF MemInv
<1>2. Len(log) \in Nat /\ folded \in SUBSET (1..Len(log))
  BY <1>1, LenProperties DEF MemTypes
<1>3. /\ folded' = 1..k /\ revived' = {} /\ proc' = proc
      /\ UNCHANGED <<log, source, known>> /\ \A j \in folded : j <= k
  BY DEF Rebuild
<1>4. rows' \in Table /\ Flagged(rows') /\ Reflects(rows', folded', revived')
  BY <1>1, <1>3, RebuildReflects
<1>5. folded \subseteq folded' /\ folded' \subseteq 1..Len(log)
  BY <1>2, <1>3
<1>6. PICK p \in Procs : TRUE
  BY <1>1
<1> QED
  BY <1>3, <1>4, <1>5, <1>6, FoldStep

\* The variables the invariant is about.
memState == <<log, rows, proc, folded, source, known, revived>>

\* The invariant speaks of the state of the memory only.
LEMMA MemStutter ==
  ASSUME MemInv, UNCHANGED memState
  PROVE  MemInv'
BY DEF MemInv, memState, MemTypes, LogOK, LogClassCoversClaim, Reflects,
       VerifiedOK, SourcesOK, Compared, Writes, Retires

\* Every step of the memory keeps the invariant.
LEMMA MemStep ==
  ASSUME MemInv, [MemNext]_memVars
  PROVE  MemInv'
<1>1. CASE UNCHANGED memVars
  BY <1>1, MemStutter DEF memVars, memState
<1>2. ASSUME NEW p \in Procs, NEW m \in Proposals, NEW b \in BOOLEAN, write(p, m, b)
      PROVE  MemInv'
  BY <1>2, WriteOK
<1>3. ASSUME NEW p \in Procs, LogRejection(p)
      PROVE  MemInv'
  BY <1>3, LogRejectionOK
<1>4. ASSUME NEW p \in Procs, write_record(p)
      PROVE  MemInv'
  BY <1>4, WriteRecordOK
<1>5. ASSUME NEW p \in Procs, NEW i \in Ids \cup {0},
             supersede_record(p, i) \/ archive_record(p, i)
      PROVE  MemInv'
  BY <1>5, RetireOK DEF supersede_record, archive_record
<1>6. ASSUME NEW p \in Procs, ApplyAndCommit(p)
      PROVE  MemInv'
  BY <1>6, ApplyOK
<1>7. ASSUME NEW p \in Procs, Abort(p)
      PROVE  MemInv'
  BY <1>7, AbortOK
<1>8. ASSUME NEW k \in 0..Len(log), Rebuild(k)
      PROVE  MemInv'
  BY <1>8, RebuildOK
<1> QED
  BY <1>1, <1>2, <1>3, <1>4, <1>5, <1>6, <1>7, <1>8 DEF MemNext

\* The inductive invariant holds of the memory service by itself.
THEOREM MemoryInvariantAlways == MemSpec => []MemInv
<1>1. MemInit => MemInv
  BY MemInitOK
<1>2. MemInv /\ [MemNext]_memVars => MemInv'
  BY MemStep
<1> QED
  BY <1>1, <1>2, PTL DEF MemSpec

\* The invariant says what the run checks: two active records contradict each
\* other only when the second was not compared with the first, the scrubber
\* hid what it says, or a late fold brought one back.
LEMMA MemInvImplies == MemInv => MemoryInv
<1> SUFFICES ASSUME MemInv
             PROVE  MemoryInv
  OBVIOUS
<1>1. /\ MemTypes /\ LogOK /\ LogClassCoversClaim
      /\ Reflects(rows, folded, revived) /\ SourcesOK
  BY DEF MemInv
<1>2. /\ Len(log) \in Nat /\ Len(source) \in Nat /\ MaxRecords \in Nat
      /\ Len(source) <= MaxRecords /\ Len(known) = Len(source)
      /\ folded \subseteq 1..Len(log)
  BY <1>1, LenProperties, MemoryAssumption DEF MemTypes
<1>3. MemTypeOK
  <2>1. ASSUME NEW k \in 1..Len(log)
        PROVE  /\ log[k].type \in {"written", "rejected", "superseded", "archived"}
               /\ log[k].id \in 0..Len(source) /\ log[k].class \in Classes
    <3>1. log[k] \in Event
      BY <1>1, ElementOfSeq DEF MemTypes
    <3>2. /\ log[k].type \in {"written", "rejected", "superseded", "archived"}
          /\ log[k].class \in Classes
      BY <3>1, EventKinds
    <3>3. CASE log[k].type = "rejected"
      <4>1. log[k] \in RejectedEvent
        BY <3>1, <3>3, EventKinds
      <4> QED
        BY <1>2, <3>2, <4>1 DEF RejectedEvent
    <3>4. CASE log[k].type = "written"
      <4>1. log[k].id \in Ids
        BY <3>1, <3>4, EventKinds DEF WrittenEvent
      <4> QED
        BY <1>1, <1>2, <3>2, <3>4, <4>1 DEF LogOK, Writes
    <3>5. CASE log[k].type \in {"superseded", "archived"}
      <4>1. log[k].id \in Ids \cup {0}
        BY <3>1, <3>5, EventKinds DEF RetiredEvent
      <4>2. CASE log[k].id = 0
        BY <1>2, <3>2, <4>2
      <4>3. CASE log[k].id \in Ids
        <5>1. Retires(k, log[k].id)
          BY <3>5 DEF Retires
        <5>2. PICK w \in 1..Len(log) : Writes(w, log[k].id)
          BY <1>1, <4>3, <5>1 DEF LogOK
        <5>3. log[k].id \in 1..Len(source)
          BY <1>1, <4>3, <5>2 DEF LogOK
        <5> QED
          BY <1>2, <3>2, <5>3
      <4> QED
        BY <4>1, <4>2, <4>3
    <3> QED
      BY <3>2, <3>3, <3>4, <3>5
  <2>2. ASSUME NEW i \in Ids, rows[i].exists
        PROVE  /\ rows[i].status \in {"active", "superseded", "archived"}
               /\ rows[i].archived <=> rows[i].status = "archived"
    <3>1. rows[i] \in RowRecord
      BY <1>1, <2>2, RowKinds DEF MemTypes
    <3>2. rows[i].archived = (rows[i].status = "archived")
      BY <1>1, <2>2 DEF MemTypes
    <3> QED
      BY <3>1, <3>2 DEF RowRecord
  <2> QED
    BY <1>2, <2>1, <2>2 DEF MemTypeOK
<1>4. ContradictionsExplained
  <2> SUFFICES ASSUME NEW i \in List(rows, {"active"}), NEW j \in List(rows, {"active"}),
                      Opposed(source[i], source[j]), i \in known[j],
                      source[i].text # "sensitive"
               PROVE  i \in revived
    BY DEF ContradictionsExplained
  <2>1. /\ i \in Ids /\ rows[i].exists /\ rows[i].status = "active"
        /\ j \in Ids /\ rows[j].exists
    BY DEF List
  <2>2. j \in 1..Len(source)
    <3>1. PICK w \in folded : Writes(w, j)
      BY <1>1, <2>1 DEF Reflects
    <3> QED
      BY <1>1, <1>2, <2>1, <3>1 DEF LogOK
  <2>3. \E r \in folded : Retires(r, i)
    BY <1>1, <2>2 DEF SourcesOK, Compared
  <2> QED
    BY <1>1, <2>1, <2>3 DEF Reflects
<1> QED
  BY <1>1, <1>3, <1>4 DEF MemoryInv

\* The table of records and the log behind it (MemoryService.write,
\* write_record), for any number of processes, proposals, records and events.
THEOREM MemoryAlways == MemSpec => []MemoryInv
BY MemoryInvariantAlways, MemInvImplies, PTL

\* No step but the late fold of its own write brings a retired record back.
RetiredKept ==
  \A i \in Ids :
    (rows[i].exists /\ rows[i].status # "active"
       /\ rows'[i].exists /\ rows'[i].status = "active") =>
      \E p \in Procs : /\ proc[p].at = "logged" /\ proc[p].entry \in folded
                       /\ log[proc[p].entry].type = "written"
                       /\ log[proc[p].entry].id = i

\* A step makes a retired record active only by folding its write.
LEMMA RetiredKeptStep ==
  ASSUME MemInv, [MemNext]_memVars
  PROVE  RetiredKept
<1> SUFFICES ASSUME NEW i \in Ids, rows[i].exists, rows[i].status # "active",
                    rows'[i].exists, rows'[i].status = "active"
             PROVE  \E p \in Procs :
                      /\ proc[p].at = "logged" /\ proc[p].entry \in folded
                      /\ log[proc[p].entry].type = "written"
                      /\ log[proc[p].entry].id = i
  BY DEF RetiredKept
<1>1. MemTypes /\ LogOK /\ Reflects(rows, folded, revived)
  BY DEF MemInv
<1>2. rows' # rows
  OBVIOUS
<1>3. ASSUME NEW k \in 0..Len(log), Rebuild(k)
      PROVE  FALSE
  <2>1. Reflects(rows', 1..k, {})
    BY <1>1, <1>3, RebuildReflects
  <2>2. PICK r \in folded : Retires(r, i)
    BY <1>1 DEF Reflects
  <2>3. r \in 1..k
    BY <1>1, <1>3, LenProperties DEF Rebuild, MemTypes
  <2> QED
    BY <2>1, <2>2, <2>3 DEF Reflects
<1>4. ASSUME NEW p \in Procs, ApplyAndCommit(p)
      PROVE  /\ proc[p].at = "logged" /\ proc[p].entry \in folded
             /\ log[proc[p].entry].type = "written"
             /\ log[proc[p].entry].id = i
  <2> DEFINE k == proc[p].entry
             e == log[k]
  <2>1. k \in 1..Len(log) /\ e \in Event /\ rows \in Table /\ proc[p].at = "logged"
    BY <1>1, <1>4, ProcFields, ElementOfSeq DEF ApplyAndCommit, MemTypes
  <2>2. rows' = apply_event(rows, e)
    BY <1>4 DEF ApplyAndCommit
  <2>3. e.type # "rejected"
    BY <1>2, <2>1, <2>2, EventKinds, ApplyRejected
  <2>4. ASSUME e.type \in {"superseded", "archived"}
        PROVE  FALSE
    <3>1. e \in RetiredEvent
      BY <2>1, <2>4, EventKinds
    <3>2. rows'[i] = rows[i] \/ rows'[i] = Row(rows[i].claim, e.type)
      BY <2>1, <2>2, <3>1, ApplyRetired
    <3>3. rows[i].claim \in Scrubbed
      BY <2>1, RowKinds DEF RowRecord
    <3> QED
      BY <2>4, <3>2, <3>3, RowFields
  <2>5. e.type = "written"
    BY <2>1, <2>3, <2>4, EventKinds
  <2>6. e.id = i
    BY <2>1, <2>2, <2>5, EventKinds, ApplyWritten
  <2>7. PICK w \in folded : Writes(w, i)
    BY <1>1 DEF Reflects
  <2>8. w = k
    BY <1>1, <2>1, <2>5, <2>6, <2>7 DEF LogOK, MemTypes, Writes
  <2> QED
    BY <2>1, <2>5, <2>6, <2>7, <2>8
<1>5. rows' = rows \/ (\E p \in Procs : ApplyAndCommit(p))
                   \/ (\E k \in 0..Len(log) : Rebuild(k))
  BY DEF MemNext, memVars, write, LogRejection, write_record, supersede_record,
         archive_record, Retire, Abort
<1> QED
  BY <1>2, <1>3, <1>4, <1>5

\* A superseded or archived record becomes active again only when the process
\* that wrote it folds its event late (apply_event: INSERT OR REPLACE).
THEOREM RetiredRecordsStay == MemSpec => RetiredStaysRetired
<1>1. MemInv /\ [MemNext]_memVars => [RetiredKept]_memVars
  BY RetiredKeptStep
<1> QED
  BY <1>1, MemoryInvariantAlways, PTL DEF MemSpec, RetiredStaysRetired, RetiredKept
-----------------------------------------------------------------------------
(* Handoffs.                                                                 *)

\* The stages of an export that has no file name yet.
Starting == {"ensure", "create", "audit", "write"}

\* Where an export can be.
ExpRecord ==
  {NoExport}
    \cup [at : Starting, target : Targets, private : BOOLEAN, records : SUBSET Ids]
    \cup [at : {"named", "json"}, target : Targets, private : BOOLEAN,
          records : SUBSET Ids, name : Names]

\* What a handoff file holds.
FileRecord == [records : SUBSET Ids, target : Targets, private : BOOLEAN,
               by : Exporters]

\* The types of the exports, the files and the clock.
ExpTypes ==
  /\ exp \in [Exporters -> ExpRecord]
  /\ md \in [Names -> {NoFile} \cup FileRecord]
  /\ json \in [Names -> {NoFile} \cup FileRecord]
  /\ second \in 0..MaxSeconds

\* The most sensitive label a request may be answered with.
Limit(target, private) == IF private THEN 2 ELSE IF target = "human" THEN 1 ELSE 0

\* A packet f, being compiled or in a file, holds records that may leave.
Clear(src, f) ==
  \A i \in f.records : /\ i \in 1..Len(src)
                       /\ Sensitivity(src[i].label) <= Limit(f.target, f.private)
                       /\ src[i].text \notin Unsafe

\* A private packet has an entry that names what is not public in it.
Noted(src, entries, f) ==
  f.private => \E a \in entries :
                 /\ a.target = f.target
                 /\ {i \in f.records : Sensitivity(src[i].label) > 0} \subseteq a.ids

\* All that was ever written to the audit log.
Entries == audit.entries \cup wiped

\* What an export has collected may leave, and is noted before it is written.
ExportsOK ==
  \A x \in Exporters : exp[x].at # "idle" =>
    /\ \A i \in exp[x].records : rows[i].exists
    /\ Clear(source, exp[x])
    /\ exp[x].at \in {"write", "named", "json"} => Noted(source, Entries, exp[x])

\* So is what the files hold.
FilesOK ==
  \A f \in Written : Clear(source, f) /\ Noted(source, Entries, f)

\* The audit log is there for whoever will append to it.
AuditOK ==
  /\ DOMAIN audit = {"made", "entries"}
  /\ audit.entries # {} => audit.made
  /\ \A x \in Exporters : exp[x].at = "audit" => audit.made

\* The one who is between the two files holds the lock.
LockOK ==
  /\ lock \in Exporters \cup {"free", "stale"}
  /\ \A x \in Exporters : exp[x].at = "json" <=> lock = x

\* Where the two files of a name differ, their writer is between them.
PairOK ==
  /\ \A x \in Exporters : exp[x].at = "json" => md[exp[x].name] = Artifact(x)
  /\ \A n \in Names : n \notin broken =>
       \/ md[n] = json[n]
       \/ \E x \in Exporters : exp[x].at = "json" /\ exp[x].name = n

\* The inductive invariant of the exports, next to MemInv.
ExportInv ==
  /\ ExpTypes /\ ExportsOK /\ FilesOK /\ AuditOK /\ LockOK /\ PairOK

\* The inductive invariant of Handoff.
Inv == MemInv /\ ExportInv
-----------------------------------------------------------------------------

\* The log, the sources and the table only grow.
LEMMA MemGrows ==
  ASSUME MemInv, [MemNext]_memVars
  PROVE  /\ folded \subseteq folded'
         /\ \A k \in 1..Len(log) : log'[k] = log[k]
         /\ \A i \in 1..Len(source) : i \in 1..Len(source') /\ source'[i] = source[i]
<1>1. MemTypes
  BY DEF MemInv
<1>2. Len(log) \in Nat /\ Len(source) \in Nat /\ folded \in SUBSET (1..Len(log))
  BY <1>1, LenProperties DEF MemTypes
<1> DEFINE Goal == /\ folded \subseteq folded'
                   /\ \A k \in 1..Len(log) : log'[k] = log[k]
                   /\ \A i \in 1..Len(source) :
                        i \in 1..Len(source') /\ source'[i] = source[i]
           Appended == \E e : log' = Append(log, e)
<1>3. Appended => \A k \in 1..Len(log) : log'[k] = log[k]
  <2> SUFFICES ASSUME NEW e, log' = Append(log, e), NEW k \in 1..Len(log)
               PROVE  log'[k] = log[k]
    OBVIOUS
  <2>1. log \in Seq(Event \cup {e})
    BY <1>1, SeqMonotonic DEF MemTypes
  <2> QED
    BY <2>1, AppendProperties
<1>4. (\E m : source' = Append(source, m)) =>
        \A i \in 1..Len(source) : i \in 1..Len(source') /\ source'[i] = source[i]
  <2> SUFFICES ASSUME NEW m, source' = Append(source, m)
               PROVE  \A i \in 1..Len(source) :
                        i \in 1..Len(source') /\ source'[i] = source[i]
    OBVIOUS
  <2>1. source \in Seq(Proposals \cup {m})
    BY <1>1, SeqMonotonic DEF MemTypes
  <2>2. /\ Len(source') = Len(source) + 1
        /\ \A i \in 1..Len(source) : source'[i] = source[i]
    BY <2>1, AppendProperties
  <2> QED
    BY <1>2, <2>2
<1>5. /\ folded' = folded \/ (\E p \in Procs : ApplyAndCommit(p))
                          \/ (\E k \in 0..Len(log) : Rebuild(k))
      /\ log' = log \/ Appended
      /\ source' = source \/ (\E m : source' = Append(source, m))
  <2> USE DEF memVars
  <2>1. ASSUME NEW p \in Procs, NEW m \in Proposals, NEW b \in BOOLEAN, write(p, m, b)
        PROVE  folded' = folded /\ log' = log /\ source' = source
    BY <2>1 DEF write
  <2>2. ASSUME NEW p \in Procs, LogRejection(p)
        PROVE  folded' = folded /\ Appended /\ source' = source
    BY <2>2 DEF LogRejection
  <2>3. ASSUME NEW p \in Procs, write_record(p)
        PROVE  /\ folded' = folded /\ (log' = log \/ Appended)
               /\ source' = source \/ (\E m : source' = Append(source, m))
    BY <2>3 DEF write_record
  <2>4. ASSUME NEW p \in Procs, NEW i \in Ids \cup {0},
               supersede_record(p, i) \/ archive_record(p, i)
        PROVE  folded' = folded /\ Appended /\ source' = source
    BY <2>4 DEF supersede_record, archive_record, Retire
  <2>5. ASSUME NEW p \in Procs, Abort(p)
        PROVE  folded' = folded /\ log' = log /\ source' = source
    BY <2>5 DEF Abort
  <2>6. ASSUME NEW p \in Procs, ApplyAndCommit(p)
        PROVE  log' = log /\ source' = source
    BY <2>6 DEF ApplyAndCommit
  <2>7. ASSUME NEW k \in 0..Len(log), Rebuild(k)
        PROVE  log' = log /\ source' = source
    BY <2>7 DEF Rebuild
  <2> HIDE DEF Appended
  <2> QED
    BY <2>1, <2>2, <2>3, <2>4, <2>5, <2>6, <2>7 DEF MemNext
<1>6. folded \subseteq folded'
  <2>1. ASSUME NEW p \in Procs, ApplyAndCommit(p)
        PROVE  folded \subseteq folded'
    BY <2>1 DEF ApplyAndCommit
  <2>2. ASSUME NEW k \in 0..Len(log), Rebuild(k)
        PROVE  folded \subseteq folded'
    BY <1>2, <2>2 DEF Rebuild
  <2> QED
    BY <1>5, <2>1, <2>2
<1> QED
  BY <1>2, <1>3, <1>4, <1>5, <1>6

\* A record in the table stays in the table.
LEMMA RowsStay ==
  ASSUME MemInv, MemInv', [MemNext]_memVars, NEW i \in Ids, rows[i].exists
  PROVE  rows'[i].exists
<1>1. PICK w \in folded : Writes(w, i)
  BY DEF MemInv, Reflects
<1>2. w \in 1..Len(log)
  BY DEF MemInv, MemTypes
<1>3. w \in folded' /\ log'[w] = log[w]
  BY <1>2, MemGrows
<1>4. Reflects(rows, folded, revived)'
  BY DEF MemInv
<1> QED
  BY <1>1, <1>3, <1>4 DEF Reflects, Writes

\* A packet stays clear and noted while sources and entries only grow.
LEMMA PacketStays ==
  ASSUME NEW src, NEW src2, NEW entries, NEW entries2, NEW f, Clear(src, f),
         \A i \in 1..Len(src) : i \in 1..Len(src2) /\ src2[i] = src[i],
         entries \subseteq entries2
  PROVE  Clear(src2, f) /\ (Noted(src, entries, f) => Noted(src2, entries2, f))
<1>1. Clear(src2, f)
  BY DEF Clear
<1>2. ASSUME Noted(src, entries, f), f.private
      PROVE  \E a \in entries2 :
               /\ a.target = f.target
               /\ {i \in f.records : Sensitivity(src2[i].label) > 0} \subseteq a.ids
  <2>1. PICK a \in entries :
          /\ a.target = f.target
          /\ {i \in f.records : Sensitivity(src[i].label) > 0} \subseteq a.ids
    BY <1>2 DEF Noted
  <2>2. \A i \in f.records : src2[i] = src[i]
    BY DEF Clear
  <2> QED
    BY <2>1, <2>2
<1> QED
  BY <1>1, <1>2 DEF Noted

\* It is the records, the target and the flag that count.
LEMMA SamePacket ==
  ASSUME NEW src, NEW entries, NEW f, NEW g,
         f.records = g.records, f.target = g.target, f.private = g.private
  PROVE  /\ Clear(src, f) <=> Clear(src, g)
         /\ Noted(src, entries, f) <=> Noted(src, entries, g)
BY DEF Clear, Noted

\* Steps of the memory service.
LEMMA ExportsUnderMemory ==
  ASSUME Inv, MemoryStep
  PROVE  Inv'
<1>1. MemInv /\ ExpTypes /\ ExportsOK /\ FilesOK /\ AuditOK /\ LockOK /\ PairOK
  BY DEF Inv, ExportInv
<1>2. [MemNext]_memVars /\ UNCHANGED handoffVars
  BY DEF MemoryStep
<1>3. MemInv'
  BY <1>1, <1>2, MemStep
<1>4. \A i \in 1..Len(source) : i \in 1..Len(source') /\ source'[i] = source[i]
  BY <1>1, <1>2, MemGrows
<1>5. Entries' = Entries /\ Written' = Written /\ exp' = exp
  BY <1>2 DEF handoffVars, Entries, Written, Files
<1>6. ExportsOK'
  <2> SUFFICES ASSUME NEW x \in Exporters, exp[x].at # "idle"
               PROVE  /\ \A i \in exp[x].records : rows'[i].exists
                      /\ Clear(source', exp[x])
                      /\ exp[x].at \in {"write", "named", "json"} =>
                           Noted(source', Entries, exp[x])
    BY <1>5 DEF ExportsOK
  <2>1. exp[x].records \subseteq Ids
    BY <1>1 DEF ExpTypes, ExpRecord, NoExport
  <2>2. \A i \in exp[x].records : rows'[i].exists
    BY <1>1, <1>2, <1>3, <2>1, RowsStay DEF ExportsOK
  <2>3. Clear(source, exp[x])
    BY <1>1 DEF ExportsOK
  <2>4. /\ Clear(source', exp[x])
        /\ Noted(source, Entries, exp[x]) => Noted(source', Entries, exp[x])
    BY <1>4, <2>3, PacketStays
  <2> QED
    BY <1>1, <2>2, <2>4 DEF ExportsOK
<1>7. FilesOK'
  <2> SUFFICES ASSUME NEW f \in Written
               PROVE  Clear(source', f) /\ Noted(source', Entries, f)
    BY <1>5 DEF FilesOK
  <2>1. Clear(source, f) /\ Noted(source, Entries, f)
    BY <1>1 DEF FilesOK
  <2> QED
    BY <1>4, <2>1, PacketStays
<1>8. ExpTypes' /\ AuditOK' /\ LockOK' /\ PairOK'
  BY <1>1, <1>2 DEF ExpTypes, AuditOK, LockOK, PairOK, handoffVars, Artifact
<1> QED
  BY <1>3, <1>6, <1>7, <1>8 DEF Inv, ExportInv

\* The invariant holds initially.
LEMMA InitOK == Init => Inv
<1> SUFFICES ASSUME Init
             PROVE  Inv
  OBVIOUS
<1>1. MemInv
  BY MemInitOK DEF Init
<1>2. /\ exp = [x \in Exporters |-> NoExport]
      /\ md = [n \in Names |-> NoFile] /\ json = [n \in Names |-> NoFile]
      /\ lock = "free" /\ second = 0 /\ wiped = {} /\ broken = {}
      /\ audit = [made |-> FALSE, entries |-> {}]
  BY DEF Init
<1>3. \A x \in Exporters : exp[x] = NoExport /\ exp[x].at = "idle"
  BY <1>2 DEF NoExport
<1>4. ExpTypes
  BY <1>2, HandoffAssumption DEF ExpTypes, ExpRecord
<1>5. Written = {}
  BY <1>2 DEF Written, Files
<1>6. ExportsOK /\ FilesOK
  BY <1>3, <1>5 DEF ExportsOK, FilesOK
<1>7. AuditOK
  BY <1>2, <1>3 DEF AuditOK
<1>8. LockOK
  BY <1>2, <1>3, HandoffAssumption DEF LockOK
<1>9. PairOK
  BY <1>2, <1>3 DEF PairOK
<1> QED
  BY <1>1, <1>4, <1>6, <1>7, <1>8, <1>9 DEF Inv, ExportInv

\* Steps that move one exporter.
LEMMA ExporterStep ==
  ASSUME Inv, NEW x \in Exporters, NEW new \in ExpRecord,
         exp' = [exp EXCEPT ![x] = new], rows' = rows, source' = source,
         Entries \subseteq Entries',
         new.at # "idle" =>
           /\ \A i \in new.records : rows[i].exists
           /\ Clear(source, new)
           /\ new.at \in {"write", "named", "json"} => Noted(source, Entries', new)
  PROVE  /\ ExportsOK'
         /\ exp' \in [Exporters -> ExpRecord] /\ exp'[x] = new
         /\ \A y \in Exporters \ {x} : exp'[y] = exp[y]
<1>1. ExpTypes /\ ExportsOK
  BY DEF Inv, ExportInv
<1>2. /\ exp' \in [Exporters -> ExpRecord] /\ exp'[x] = new
      /\ \A y \in Exporters \ {x} : exp'[y] = exp[y]
  BY <1>1 DEF ExpTypes
<1>3. ASSUME NEW y \in Exporters, exp'[y].at # "idle"
      PROVE  /\ \A i \in exp'[y].records : rows'[i].exists
             /\ Clear(source', exp'[y])
             /\ exp'[y].at \in {"write", "named", "json"} =>
                  Noted(source', Entries', exp'[y])
  <2>1. CASE y = x
    BY <1>2, <1>3, <2>1
  <2>2. CASE y # x
    <3>1. exp'[y] = exp[y]
      BY <1>2, <2>2
    <3>2. Clear(source, exp[y])
      BY <1>1, <1>3, <3>1 DEF ExportsOK
    <3>3. Noted(source, Entries, exp[y]) => Noted(source, Entries', exp[y])
      BY <3>2, PacketStays
    <3> QED
      BY <1>1, <1>3, <3>1, <3>3 DEF ExportsOK
  <2> QED
    BY <2>1, <2>2
<1> QED
  BY <1>2, <1>3 DEF ExportsOK

\* Steps that write at most one new file.
LEMMA FileStep ==
  ASSUME Inv, source' = source, Entries \subseteq Entries',
         \A f \in Written' : f \in Written \/ (Clear(source, f) /\ Noted(source, Entries', f))
  PROVE  FilesOK'
<1> SUFFICES ASSUME NEW f \in Written'
             PROVE  Clear(source, f) /\ Noted(source, Entries', f)
  BY DEF FilesOK
<1>1. CASE f \in Written
  <2>1. Clear(source, f) /\ Noted(source, Entries, f)
    BY <1>1 DEF Inv, ExportInv, FilesOK
  <2> QED
    BY <2>1, PacketStays
<1> QED
  BY <1>1

\* What the filter lets through was not labelled as more than the limit, and
\* what is logged as public asked for nothing.
LEMMA FilterClears ==
  ASSUME NEW l \in Labels, NEW t, NEW b \in BOOLEAN
  PROVE  /\ _event_privacy_class(l) \in AllowedClasses(t, b) =>
              Sensitivity(l) <= Limit(t, b)
         /\ Sensitivity(l) > 0 => _event_privacy_class(l) # "public"
<1>1. \/ Sensitivity(l) = 0 /\ _event_privacy_class(l) = "public"
      \/ Sensitivity(l) = 1 /\ _event_privacy_class(l) = "internal"
      \/ Sensitivity(l) = 2 /\ _event_privacy_class(l) = "confidential"
      \/ Sensitivity(l) = 3
           /\ _event_privacy_class(l) \notin {"public", "internal", "confidential"}
  BY DEF Labels, Classes, _event_privacy_class, Sensitivity
<1>2. CASE b
  BY <1>1, <1>2 DEF AllowedClasses, Limit
<1>3. CASE ~b /\ t = "human"
  BY <1>1, <1>3 DEF AllowedClasses, Limit
<1>4. CASE ~b /\ t # "human"
  BY <1>1, <1>4 DEF AllowedClasses, Limit
<1> QED
  BY <1>2, <1>3, <1>4

\* The class of a row is the one its source asked for.
LEMMA RowOfSource ==
  ASSUME MemInv, NEW i \in Ids, rows[i].exists
  PROVE  /\ i \in 1..Len(source) /\ source[i].label \in Labels
         /\ source[i].text \notin Unsafe
         /\ ClassOf(i) = _event_privacy_class(source[i].label)
<1>1. MemTypes /\ LogOK /\ Reflects(rows, folded, revived) /\ SourcesOK
  BY DEF MemInv
<1>2. PICK w \in folded : Writes(w, i)
  BY <1>1 DEF Reflects
<1>3. i \in 1..Len(source)
  BY <1>1, <1>2 DEF LogOK, MemTypes
<1>4. source[i] \in Proposals
  BY <1>1, <1>3, ElementOfSeq DEF MemTypes
<1>5. rows[i].claim.label = source[i].label /\ source[i].label \in Labels
  BY <1>1, <1>4, ProposalFields DEF Reflects
<1> QED
  BY <1>1, <1>3, <1>5 DEF ClassOf, SourcesOK

\* Steps of an exporter before it has the lock.
LEMMA QuietExporter ==
  ASSUME Inv, NEW x \in Exporters, NEW new \in ExpRecord,
         exp' = [exp EXCEPT ![x] = new], UNCHANGED memState,
         UNCHANGED <<md, json, lock, broken, second>>,
         exp[x].at # "json", new.at # "json",
         Entries \subseteq Entries', AuditOK',
         new.at # "idle" =>
           /\ \A i \in new.records : rows[i].exists
           /\ Clear(source, new)
           /\ new.at \in {"write", "named", "json"} => Noted(source, Entries', new)
  PROVE  Inv'
<1>1. MemInv /\ ExpTypes /\ ExportsOK /\ FilesOK /\ AuditOK /\ LockOK /\ PairOK
  BY DEF Inv, ExportInv
<1>2. MemInv'
  BY <1>1, MemStutter
<1>3. rows' = rows /\ source' = source
  BY DEF memState
<1>4. /\ ExportsOK'
      /\ exp' \in [Exporters -> ExpRecord] /\ exp'[x] = new
      /\ \A y \in Exporters \ {x} : exp'[y] = exp[y]
  BY <1>3, ExporterStep
<1>5. FilesOK'
  <2>1. Written' = Written
    BY DEF Written, Files
  <2> QED
    BY <1>3, <2>1, FileStep
<1>6. ExpTypes'
  BY <1>1, <1>4 DEF ExpTypes
<1>7. \A y \in Exporters : /\ exp'[y].at = "json" <=> exp[y].at = "json"
                           /\ exp[y].at = "json" => exp'[y] = exp[y]
  BY <1>4
<1>8. LockOK'
  BY <1>1, <1>7 DEF LockOK
<1>9. PairOK'
  <2>1. ASSUME NEW y \in Exporters, exp'[y].at = "json"
        PROVE  md'[exp'[y].name] = Artifact(y)'
    <3>1. exp'[y] = exp[y] /\ exp[y].at = "json"
      BY <1>7, <2>1
    <3>2. md[exp[y].name] = Artifact(y)
      BY <1>1, <3>1 DEF PairOK
    <3> QED
      BY <3>1, <3>2 DEF Artifact
  <2>2. ASSUME NEW n \in Names, n \notin broken'
        PROVE  \/ md'[n] = json'[n]
               \/ \E y \in Exporters : exp'[y].at = "json" /\ exp'[y].name = n
    BY <1>1, <1>7, <2>2 DEF PairOK
  <2> QED
    BY <2>1, <2>2 DEF PairOK
<1> QED
  BY <1>2, <1>4, <1>5, <1>6, <1>8, <1>9 DEF Inv, ExportInv

\* Compiling a packet keeps the invariant.
LEMMA CompileOK ==
  ASSUME Inv, NEW x \in Exporters, NEW t \in Targets, NEW b \in BOOLEAN,
         compile_handoff(x, t, b)
  PROVE  Inv'
<1> DEFINE R == _filter_exportable_records(t, b)
           new == [at |-> FirstStage(b), target |-> t, private |-> b, records |-> R]
<1>1. MemInv /\ ExpTypes /\ AuditOK
  BY DEF Inv, ExportInv
<1>2. /\ exp' = [exp EXCEPT ![x] = new] /\ exp[x].at = "idle"
      /\ UNCHANGED <<memState, audit, md, json, lock, broken, second, wiped>>
  BY DEF compile_handoff, memVars, memState
<1>3. ASSUME NEW i \in R
      PROVE  /\ i \in Ids /\ rows[i].exists /\ i \in 1..Len(source)
             /\ Sensitivity(source[i].label) <= Limit(t, b)
             /\ source[i].text \notin Unsafe
  <2>1. i \in Ids /\ rows[i].exists /\ ClassOf(i) \in AllowedClasses(t, b)
    BY DEF _filter_exportable_records, List
  <2>2. /\ i \in 1..Len(source) /\ source[i].label \in Labels
        /\ source[i].text \notin Unsafe
        /\ ClassOf(i) = _event_privacy_class(source[i].label)
    BY <1>1, <2>1, RowOfSource
  <2> QED
    BY <2>1, <2>2, FilterClears
<1>4. R \in SUBSET Ids
  BY <1>3
<1>5. FirstStage(b) = "ensure" \/ (FirstStage(b) = "write" /\ ~b)
  BY DEF FirstStage
<1> HIDE DEF R
<1>6. new \in ExpRecord
  BY <1>4, <1>5 DEF ExpRecord, Starting
<1>7. new.records = R /\ new.target = t /\ new.private = b /\ new.at = FirstStage(b)
  OBVIOUS
<1> HIDE DEF new
<1>8. Clear(source, new)
  BY <1>3, <1>7 DEF Clear
<1>9. new.at # "json" /\ new.at # "named" /\ new.at # "audit"
        /\ (new.at = "write" => Noted(source, Entries', new))
  BY <1>5, <1>7 DEF Noted
<1>10. Entries' = Entries
  BY <1>2 DEF Entries
<1>11. AuditOK'
  <2>1. \A y \in Exporters : exp'[y].at = "audit" => audit'.made
    BY <1>1, <1>2, <1>9 DEF AuditOK, ExpTypes
  <2> QED
    BY <1>1, <1>2, <2>1 DEF AuditOK
<1>12. \A i \in new.records : rows[i].exists
  BY <1>3, <1>7
<1> QED
  BY <1>2, <1>6, <1>8, <1>9, <1>10, <1>11, <1>12, QuietExporter

\* What an export in progress holds.
LEMMA ExportFields ==
  ASSUME Inv, NEW x \in Exporters, exp[x].at # "idle"
  PROVE  /\ exp[x].target \in Targets /\ exp[x].private \in BOOLEAN
         /\ exp[x].records \in SUBSET Ids
         /\ exp[x].at \in Starting \cup {"named", "json"}
         /\ exp[x].at \in {"named", "json"} => exp[x].name \in Names
         /\ \A i \in exp[x].records : rows[i].exists
         /\ Clear(source, exp[x])
         /\ exp[x].at \in {"write", "named", "json"} => Noted(source, Entries, exp[x])
<1>1. exp[x] \in ExpRecord /\ exp[x] # NoExport
  BY DEF Inv, ExportInv, ExpTypes, NoExport
<1>2. /\ \A i \in exp[x].records : rows[i].exists
      /\ Clear(source, exp[x])
      /\ exp[x].at \in {"write", "named", "json"} => Noted(source, Entries, exp[x])
  BY DEF Inv, ExportInv, ExportsOK
<1>3. CASE exp[x] \in [at : Starting, target : Targets, private : BOOLEAN,
                       records : SUBSET Ids]
  BY <1>2, <1>3 DEF Starting
<1>4. CASE exp[x] \in [at : {"named", "json"}, target : Targets, private : BOOLEAN,
                       records : SUBSET Ids, name : Names]
  BY <1>2, <1>4
<1> QED
  BY <1>1, <1>3, <1>4 DEF ExpRecord

\* An export that moves between stages before it has a name.
LEMMA Restaged ==
  ASSUME Inv, NEW x \in Exporters, exp[x].at \in Starting, NEW at \in Starting
  PROVE  LET new == [exp[x] EXCEPT !.at = at]
         IN /\ new \in ExpRecord /\ new.at = at
            /\ new.records = exp[x].records /\ new.target = exp[x].target
            /\ new.private = exp[x].private
<1>1. exp[x] \in ExpRecord
  BY DEF Inv, ExportInv, ExpTypes
<1>2. exp[x] \in [at : Starting, target : Targets, private : BOOLEAN,
                  records : SUBSET Ids]
  BY <1>1 DEF ExpRecord, Starting, NoExport
<1> QED
  BY <1>2 DEF ExpRecord

\* Looking for the audit log keeps the invariant.
LEMMA LookOK ==
  ASSUME Inv, NEW x \in Exporters, LookForAudit(x)
  PROVE  Inv'
<1> DEFINE at == IF audit.made THEN "audit" ELSE "create"
           new == [exp[x] EXCEPT !.at = at]
<1>1. ExpTypes /\ AuditOK
  BY DEF Inv, ExportInv
<1>2. /\ exp' = [exp EXCEPT ![x] = new] /\ exp[x].at = "ensure"
      /\ UNCHANGED <<memState, audit, md, json, lock, broken, second, wiped>>
  BY <1>1 DEF LookForAudit, memVars, memState, ExpTypes
<1>3. at \in Starting /\ at # "write" /\ (at = "audit" => audit.made)
  BY DEF Starting
<1>4. exp[x].at \in Starting
  BY <1>2 DEF Starting
<1> HIDE DEF at
<1>5. /\ new \in ExpRecord /\ new.at = at
      /\ new.records = exp[x].records /\ new.target = exp[x].target
      /\ new.private = exp[x].private
  BY <1>3, <1>4, Restaged
<1>6. (\A i \in exp[x].records : rows[i].exists) /\ Clear(source, exp[x])
  BY <1>2, ExportFields
<1> HIDE DEF new
<1>7. (\A i \in new.records : rows[i].exists) /\ Clear(source, new)
  BY <1>5, <1>6, SamePacket
<1>8. Entries' = Entries
  BY <1>2 DEF Entries
<1>9. AuditOK'
  <2>1. \A y \in Exporters : exp'[y].at = "audit" => audit'.made
    BY <1>1, <1>2, <1>3, <1>5 DEF AuditOK, ExpTypes
  <2> QED
    BY <1>1, <1>2, <2>1 DEF AuditOK
<1>10. new.at \notin {"write", "named", "json"}
  BY <1>3, <1>5 DEF Starting
<1> QED
  BY <1>2, <1>5, <1>7, <1>8, <1>9, <1>10, QuietExporter

\* The entries of a file that was created a second time are the wiped ones.
LEMMA CreateOK ==
  ASSUME Inv, NEW x \in Exporters, CreateAudit(x)
  PROVE  Inv'
<1> DEFINE new == [exp[x] EXCEPT !.at = "audit"]
<1>1. ExpTypes /\ AuditOK
  BY DEF Inv, ExportInv
<1>2. /\ exp' = [exp EXCEPT ![x] = new] /\ exp[x].at = "create"
      /\ wiped' = wiped \cup audit.entries /\ audit' = [made |-> TRUE, entries |-> {}]
      /\ UNCHANGED <<memState, md, json, lock, broken, second>>
  BY <1>1 DEF CreateAudit, memVars, memState, ExpTypes
<1>3. exp[x].at \in Starting /\ "audit" \in Starting
  BY <1>2 DEF Starting
<1>5. /\ new \in ExpRecord /\ new.at = "audit"
      /\ new.records = exp[x].records /\ new.target = exp[x].target
      /\ new.private = exp[x].private
  BY <1>3, Restaged
<1>6. (\A i \in exp[x].records : rows[i].exists) /\ Clear(source, exp[x])
  BY <1>2, ExportFields
<1> HIDE DEF new
<1>7. (\A i \in new.records : rows[i].exists) /\ Clear(source, new)
  BY <1>5, <1>6, SamePacket
<1>8. Entries \subseteq Entries'
  BY <1>2 DEF Entries
<1>9. AuditOK'
  BY <1>2 DEF AuditOK
<1> QED
  BY <1>2, <1>5, <1>7, <1>8, <1>9, QuietExporter

\* Noting a private export keeps the invariant.
LEMMA AppendAuditOK ==
  ASSUME Inv, NEW x \in Exporters, AppendAudit(x)
  PROVE  Inv'
<1> DEFINE new == [exp[x] EXCEPT !.at = "write"]
           a == _log_private_export(x)
<1>1. MemInv /\ ExpTypes /\ AuditOK
  BY DEF Inv, ExportInv
<1>2. /\ exp' = [exp EXCEPT ![x] = new] /\ exp[x].at = "audit"
      /\ audit' = [audit EXCEPT !.entries = audit.entries \cup {a}]
      /\ UNCHANGED <<memState, md, json, lock, broken, second, wiped>>
  BY <1>1 DEF AppendAudit, memVars, memState, ExpTypes
<1>3. exp[x].at \in Starting /\ "write" \in Starting
  BY <1>2 DEF Starting
<1>5. /\ new \in ExpRecord /\ new.at = "write"
      /\ new.records = exp[x].records /\ new.target = exp[x].target
      /\ new.private = exp[x].private
  BY <1>3, Restaged
<1>6. /\ \A i \in exp[x].records : rows[i].exists
      /\ Clear(source, exp[x]) /\ exp[x].records \in SUBSET Ids
  BY <1>2, ExportFields
<1>7. /\ audit'.entries = audit.entries \cup {a} /\ (audit'.made = audit.made)
      /\ DOMAIN audit' = {"made", "entries"}
  BY <1>1, <1>2 DEF AuditOK
<1>8. Entries \subseteq Entries' /\ a \in Entries'
  BY <1>2, <1>7 DEF Entries
<1>9. /\ a.target = exp[x].target
      /\ {i \in exp[x].records : Sensitivity(source[i].label) > 0} \subseteq a.ids
  <2>1. ASSUME NEW i \in exp[x].records, Sensitivity(source[i].label) > 0
        PROVE  ClassOf(i) # "public"
    <3>1. i \in Ids /\ rows[i].exists
      BY <1>6
    <3>2. source[i].label \in Labels /\ ClassOf(i) = _event_privacy_class(source[i].label)
      BY <1>1, <3>1, RowOfSource
    <3> QED
      BY <2>1, <3>2, FilterClears
  <2> QED
    BY <2>1 DEF _log_private_export
<1> HIDE DEF new, a
<1>10. (\A i \in new.records : rows[i].exists) /\ Clear(source, new)
  BY <1>5, <1>6, SamePacket
<1>11. Noted(source, Entries', new)
  BY <1>5, <1>8, <1>9 DEF Noted
<1>12. AuditOK'
  <2>1. audit.made
    BY <1>1, <1>2 DEF AuditOK
  <2>2. audit'.made
    BY <1>7, <2>1
  <2> QED
    BY <1>7, <2>2 DEF AuditOK
<1> QED
  BY <1>2, <1>5, <1>8, <1>10, <1>11, <1>12, QuietExporter

\* Choosing a file name keeps the invariant.
LEMMA TakeNameOK ==
  ASSUME Inv, NEW x \in Exporters, TakeName(x)
  PROVE  Inv'
<1> DEFINE new == [at |-> "named", target |-> exp[x].target,
                   private |-> exp[x].private, records |-> exp[x].records,
                   name |-> <<exp[x].target, second>>]
<1>1. ExpTypes /\ AuditOK
  BY DEF Inv, ExportInv
<1>2. /\ exp' = [exp EXCEPT ![x] = new] /\ exp[x].at = "write"
      /\ UNCHANGED <<memState, audit, md, json, lock, broken, second, wiped>>
  BY DEF TakeName, memVars, memState
<1>3. /\ exp[x].target \in Targets /\ exp[x].private \in BOOLEAN
      /\ exp[x].records \in SUBSET Ids
      /\ \A i \in exp[x].records : rows[i].exists
      /\ Clear(source, exp[x]) /\ Noted(source, Entries, exp[x])
  BY <1>2, ExportFields
<1>4. <<exp[x].target, second>> \in Names
  BY <1>1, <1>3 DEF Names, ExpTypes
<1>5. new \in ExpRecord
  BY <1>3, <1>4 DEF ExpRecord
<1>6. /\ new.at = "named" /\ new.records = exp[x].records
      /\ new.target = exp[x].target /\ new.private = exp[x].private
  OBVIOUS
<1> HIDE DEF new
<1>7. Entries' = Entries
  BY <1>2 DEF Entries
<1>8. (\A i \in new.records : rows[i].exists) /\ Clear(source, new)
        /\ Noted(source, Entries', new)
  BY <1>3, <1>6, <1>7, SamePacket
<1>9. AuditOK'
  <2>1. \A y \in Exporters : exp'[y].at = "audit" => audit'.made
    BY <1>1, <1>2, <1>6 DEF AuditOK, ExpTypes
  <2> QED
    BY <1>1, <1>2, <2>1 DEF AuditOK
<1> QED
  BY <1>2, <1>5, <1>6, <1>7, <1>8, <1>9, QuietExporter

\* The file an exporter writes is its packet.
LEMMA ArtifactClears ==
  ASSUME Inv, NEW x \in Exporters, exp[x].at \in {"named", "json"}
  PROVE  /\ Artifact(x) \in FileRecord /\ Artifact(x) # NoFile
         /\ Clear(source, Artifact(x)) /\ Noted(source, Entries, Artifact(x))
<1>1. /\ exp[x].target \in Targets /\ exp[x].private \in BOOLEAN
      /\ exp[x].records \in SUBSET Ids
      /\ Clear(source, exp[x]) /\ Noted(source, Entries, exp[x])
  BY ExportFields
<1>2. Artifact(x) \in FileRecord
  BY <1>1 DEF Artifact, FileRecord
<1>3. /\ Artifact(x).records = exp[x].records /\ Artifact(x).target = exp[x].target
      /\ Artifact(x).private = exp[x].private
  BY DEF Artifact
<1>4. Artifact(x) # NoFile
  <2>1. "by" \in DOMAIN Artifact(x) /\ "by" \notin DOMAIN NoFile
    BY DEF Artifact, NoFile
  <2> QED
    BY <2>1
<1> QED
  BY <1>1, <1>2, <1>3, <1>4, SamePacket

\* Writing the first file under the lock keeps the invariant.
LEMMA MarkdownOK ==
  ASSUME Inv, NEW x \in Exporters, WriteMarkdown(x)
  PROVE  Inv'
<1> DEFINE new == [exp[x] EXCEPT !.at = "json"]
           n0 == exp[x].name
           f == Artifact(x)
<1>1. MemInv /\ ExpTypes /\ ExportsOK /\ FilesOK /\ AuditOK /\ LockOK /\ PairOK
  BY DEF Inv, ExportInv
<1>2. /\ exp' = [exp EXCEPT ![x] = new] /\ exp[x].at = "named"
      /\ lock = "free" /\ lock' = x /\ md' = [md EXCEPT ![n0] = f]
      /\ UNCHANGED <<memState, audit, json, broken, second, wiped>>
  BY <1>1 DEF WriteMarkdown, LockFree, memVars, memState, ExpTypes
<1>3. /\ n0 \in Names /\ (\A i \in exp[x].records : rows[i].exists)
      /\ Clear(source, exp[x]) /\ Noted(source, Entries, exp[x])
  BY <1>2, ExportFields
<1>4. /\ new \in ExpRecord /\ new.at = "json" /\ new.name = n0
      /\ new.records = exp[x].records /\ new.target = exp[x].target
      /\ new.private = exp[x].private
  <2>1. exp[x] \in [at : {"named", "json"}, target : Targets, private : BOOLEAN,
                    records : SUBSET Ids, name : Names]
    BY <1>1, <1>2 DEF ExpTypes, ExpRecord, Starting, NoExport
  <2> QED
    BY <2>1 DEF ExpRecord
<1>5. /\ f \in FileRecord /\ Clear(source, f) /\ Noted(source, Entries, f)
  BY <1>2, ArtifactClears
<1>6. f = [records |-> new.records, target |-> new.target,
           private |-> new.private, by |-> x]
  BY <1>4 DEF Artifact
<1> HIDE DEF new, f
<1>7. Entries' = Entries /\ rows' = rows /\ source' = source
  BY <1>2 DEF Entries, memState
<1>8. /\ ExportsOK'
      /\ exp' \in [Exporters -> ExpRecord] /\ exp'[x] = new
      /\ \A y \in Exporters \ {x} : exp'[y] = exp[y]
  <2>1. (\A i \in new.records : rows[i].exists) /\ Clear(source, new)
          /\ Noted(source, Entries', new)
    BY <1>3, <1>4, <1>7, SamePacket
  <2> QED
    BY <1>2, <1>4, <1>7, <2>1, ExporterStep
<1>9. md'[n0] = f /\ \A n \in Names \ {n0} : md'[n] = md[n]
  BY <1>1, <1>2, <1>3 DEF ExpTypes
<1>10. FilesOK'
  <2>1. ASSUME NEW g \in Written'
        PROVE  g \in Written \/ g = f
    <3>1. /\ g # NoFile /\ \E n \in Names : g = md'[n] \/ g = json'[n]
      BY DEF Written, Files
    <3>2. \E n \in Names : g = md[n] \/ g = json[n] \/ g = f
      BY <1>2, <1>9, <3>1
    <3> QED
      BY <3>1, <3>2 DEF Written, Files
  <2>2. \A g \in Written' : g \in Written \/ (Clear(source, g) /\ Noted(source, Entries', g))
    BY <1>5, <1>7, <2>1
  <2> QED
    BY <1>7, <2>2, FileStep
<1>11. ExpTypes'
  BY <1>1, <1>2, <1>5, <1>8 DEF ExpTypes
<1>12. AuditOK'
  <2>1. \A y \in Exporters : exp'[y].at = "audit" => audit'.made
    BY <1>1, <1>2, <1>4, <1>8 DEF AuditOK
  <2> QED
    BY <1>1, <1>2, <2>1 DEF AuditOK
<1>13. \A y \in Exporters : exp[y].at # "json"
  BY <1>1, <1>2, HandoffAssumption DEF LockOK
<1>14. \A y \in Exporters : exp'[y].at = "json" <=> y = x
  BY <1>4, <1>8, <1>13
<1>15. LockOK'
  BY <1>2, <1>14 DEF LockOK
<1>16. PairOK'
  <2>1. ASSUME NEW y \in Exporters, exp'[y].at = "json"
        PROVE  md'[exp'[y].name] = Artifact(y)'
    <3>1. y = x
      BY <1>14, <2>1
    <3>2. Artifact(x)' = f
      BY <1>6, <1>8 DEF Artifact
    <3> QED
      BY <1>4, <1>8, <1>9, <3>1, <3>2
  <2>2. ASSUME NEW n \in Names, n \notin broken'
        PROVE  \/ md'[n] = json'[n]
               \/ \E y \in Exporters : exp'[y].at = "json" /\ exp'[y].name = n
    <3>1. CASE n = n0
      BY <1>4, <1>8, <3>1
    <3>2. CASE n # n0
      BY <1>1, <1>2, <1>9, <1>13, <2>2, <3>2 DEF PairOK
    <3> QED
      BY <3>1, <3>2
  <2> QED
    BY <2>1, <2>2 DEF PairOK
<1>17. MemInv'
  BY <1>1, <1>2, MemStutter
<1> QED
  BY <1>8, <1>10, <1>11, <1>12, <1>15, <1>16, <1>17 DEF Inv, ExportInv

\* An exporter that ends, with its files or without them.
LEMMA EndedExporter ==
  ASSUME Inv, NEW x \in Exporters, exp' = [exp EXCEPT ![x] = NoExport],
         UNCHANGED <<memState, audit, wiped>>
  PROVE  /\ MemInv' /\ ExportsOK' /\ AuditOK' /\ exp' \in [Exporters -> ExpRecord]
         /\ exp'[x] = NoExport /\ \A y \in Exporters \ {x} : exp'[y] = exp[y]
<1>1. MemInv /\ AuditOK
  BY DEF Inv, ExportInv
<1>2. NoExport \in ExpRecord /\ NoExport.at = "idle"
  BY DEF NoExport, ExpRecord
<1>3. Entries' = Entries /\ rows' = rows /\ source' = source
  BY DEF Entries, memState
<1>4. /\ ExportsOK'
      /\ exp' \in [Exporters -> ExpRecord] /\ exp'[x] = NoExport
      /\ \A y \in Exporters \ {x} : exp'[y] = exp[y]
  BY <1>2, <1>3, ExporterStep
<1>5. AuditOK'
  <2>1. \A y \in Exporters : exp'[y].at = "audit" => audit'.made
    BY <1>1, <1>2, <1>4 DEF AuditOK
  <2> QED
    BY <1>1, <2>1 DEF AuditOK
<1> QED
  BY <1>1, <1>4, <1>5, MemStutter

\* Writing the second file keeps the invariant.
LEMMA JsonOK ==
  ASSUME Inv, NEW x \in Exporters, WriteJson(x)
  PROVE  Inv'
<1> DEFINE n0 == exp[x].name
           f == Artifact(x)
<1>1. ExpTypes /\ FilesOK /\ LockOK /\ PairOK
  BY DEF Inv, ExportInv
<1>2. /\ exp' = [exp EXCEPT ![x] = NoExport] /\ exp[x].at = "json"
      /\ lock' = "free" /\ json' = [json EXCEPT ![n0] = f]
      /\ broken' = broken \ {n0}
      /\ UNCHANGED <<memState, audit, wiped, md, second>>
  BY DEF WriteJson, memVars, memState
<1>3. /\ MemInv' /\ ExportsOK' /\ AuditOK' /\ exp' \in [Exporters -> ExpRecord]
      /\ exp'[x] = NoExport /\ \A y \in Exporters \ {x} : exp'[y] = exp[y]
  BY <1>2, EndedExporter
<1>4. n0 \in Names /\ f \in FileRecord /\ Clear(source, f) /\ Noted(source, Entries, f)
  BY <1>2, ArtifactClears, ExportFields
<1> HIDE DEF f
<1>5. Entries' = Entries /\ source' = source
  BY <1>2 DEF Entries, memState
<1>6. json'[n0] = f /\ \A n \in Names \ {n0} : json'[n] = json[n]
  BY <1>1, <1>2, <1>4 DEF ExpTypes
<1>7. FilesOK'
  <2>1. ASSUME NEW g \in Written'
        PROVE  g \in Written \/ g = f
    <3>1. /\ g # NoFile /\ \E n \in Names : g = md'[n] \/ g = json'[n]
      BY DEF Written, Files
    <3>2. \E n \in Names : g = md[n] \/ g = json[n] \/ g = f
      BY <1>2, <1>6, <3>1
    <3> QED
      BY <3>1, <3>2 DEF Written, Files
  <2>2. \A g \in Written' : g \in Written \/ (Clear(source, g) /\ Noted(source, Entries', g))
    BY <1>4, <1>5, <2>1
  <2> QED
    BY <1>5, <2>2, FileStep
<1>8. ExpTypes'
  BY <1>1, <1>2, <1>3, <1>4 DEF ExpTypes
<1>9. \A y \in Exporters : exp[y].at = "json" => y = x
  BY <1>1, <1>2 DEF LockOK
<1>10. \A y \in Exporters : exp'[y].at # "json"
  BY <1>3, <1>9 DEF NoExport
<1>11. LockOK'
  BY <1>2, <1>10, HandoffAssumption DEF LockOK
<1>12. PairOK'
  <2>1. ASSUME NEW n \in Names, n \notin broken'
        PROVE  md'[n] = json'[n]
    <3>1. CASE n = n0
      BY <1>1, <1>2, <1>6, <3>1 DEF PairOK, f
    <3>2. CASE n # n0
      BY <1>1, <1>2, <1>6, <1>9, <2>1, <3>2 DEF PairOK
    <3> QED
      BY <3>1, <3>2
  <2> QED
    BY <1>10, <2>1 DEF PairOK
<1> QED
  BY <1>3, <1>7, <1>8, <1>11, <1>12 DEF Inv, ExportInv

\* An export that is killed keeps the invariant.
LEMMA KillOK ==
  ASSUME Inv, NEW x \in Exporters, Kill(x)
  PROVE  Inv'
<1>1. ExpTypes /\ FilesOK /\ LockOK /\ PairOK
  BY DEF Inv, ExportInv
<1>2. /\ exp' = [exp EXCEPT ![x] = NoExport]
      /\ lock' = IF lock = x THEN "stale" ELSE lock
      /\ broken' = IF exp[x].at = "json" THEN broken \cup {exp[x].name} ELSE broken
      /\ UNCHANGED <<memState, audit, wiped, md, json, second>>
  BY DEF Kill, memState
<1>3. /\ MemInv' /\ ExportsOK' /\ AuditOK' /\ exp' \in [Exporters -> ExpRecord]
      /\ exp'[x] = NoExport /\ \A y \in Exporters \ {x} : exp'[y] = exp[y]
  BY <1>2, EndedExporter
<1>4. Entries' = Entries /\ source' = source /\ Written' = Written
  BY <1>2 DEF Entries, memState, Written, Files
<1>5. FilesOK'
  BY <1>4, FileStep
<1>6. ExpTypes'
  BY <1>1, <1>2, <1>3 DEF ExpTypes
<1>7. exp'[x].at # "json"
  BY <1>3 DEF NoExport
<1>8. LockOK'
  <2>1. lock' \in Exporters \cup {"free", "stale"} /\ lock' # x
    BY <1>1, <1>2, HandoffAssumption DEF LockOK
  <2>2. \A y \in Exporters \ {x} : exp'[y].at = "json" <=> lock' = y
    BY <1>1, <1>2, <1>3, HandoffAssumption DEF LockOK
  <2> QED
    BY <1>7, <2>1, <2>2 DEF LockOK
<1>9. PairOK'
  <2>1. ASSUME NEW y \in Exporters, exp'[y].at = "json"
        PROVE  md'[exp'[y].name] = Artifact(y)'
    <3>1. exp'[y] = exp[y]
      BY <1>3, <1>7, <2>1
    <3>2. md[exp[y].name] = Artifact(y)
      BY <1>1, <2>1, <3>1 DEF PairOK
    <3> QED
      BY <1>2, <3>1, <3>2 DEF Artifact
  <2>2. ASSUME NEW n \in Names, n \notin broken'
        PROVE  \/ md'[n] = json'[n]
               \/ \E y \in Exporters : exp'[y].at = "json" /\ exp'[y].name = n
    <3>1. n \notin broken /\ ~(exp[x].at = "json" /\ exp[x].name = n)
      BY <1>2, <2>2
    <3> QED
      BY <1>1, <1>2, <1>3, <3>1 DEF PairOK
  <2> QED
    BY <2>1, <2>2 DEF PairOK
<1> QED
  BY <1>3, <1>5, <1>6, <1>8, <1>9 DEF Inv, ExportInv

\* Removing a stale lock and the clock keep the invariant.
LEMMA LockAndTimeOK ==
  ASSUME Inv, RemoveLock \/ Tick \/ UNCHANGED vars
  PROVE  Inv'
<1>1. MemInv /\ ExpTypes /\ ExportsOK /\ FilesOK /\ AuditOK /\ LockOK /\ PairOK
  BY DEF Inv, ExportInv
<1>2. /\ UNCHANGED <<memState, exp, audit, wiped, md, json, broken>>
      /\ lock' = lock \/ (lock = "stale" /\ lock' = "free")
      /\ second' = second \/ (second < MaxSeconds /\ second' = second + 1)
  BY DEF RemoveLock, Tick, vars, handoffVars, memVars, memState
<1>3. MemInv'
  BY <1>1, <1>2, MemStutter
<1>4. ExpTypes'
  BY <1>1, <1>2, HandoffAssumption DEF ExpTypes
<1>5. ExportsOK' /\ FilesOK' /\ AuditOK'
  BY <1>1, <1>2 DEF ExportsOK, FilesOK, AuditOK, Entries, Written, Files, memState
<1>6. LockOK'
  BY <1>1, <1>2, HandoffAssumption DEF LockOK
<1>7. PairOK'
  BY <1>1, <1>2 DEF PairOK, Artifact
<1> QED
  BY <1>3, <1>4, <1>5, <1>6, <1>7 DEF Inv, ExportInv

\* Every step keeps the invariant.
LEMMA Step ==
  ASSUME Inv, [Next]_vars
  PROVE  Inv'
<1>1. CASE MemoryStep
  BY <1>1, ExportsUnderMemory
<1>2. ASSUME NEW x \in Exporters, NEW t \in Targets, NEW b \in BOOLEAN,
             compile_handoff(x, t, b)
      PROVE  Inv'
  BY <1>2, CompileOK
<1>3. ASSUME NEW x \in Exporters,
             LookForAudit(x) \/ CreateAudit(x) \/ AppendAudit(x)
      PROVE  Inv'
  BY <1>3, LookOK, CreateOK, AppendAuditOK
<1>4. ASSUME NEW x \in Exporters,
             TakeName(x) \/ WriteMarkdown(x) \/ WriteJson(x) \/ Kill(x)
      PROVE  Inv'
  BY <1>4, TakeNameOK, MarkdownOK, JsonOK, KillOK
<1>5. CASE RemoveLock \/ Tick \/ UNCHANGED vars
  BY <1>5, LockAndTimeOK
<1> QED
  BY <1>1, <1>2, <1>3, <1>4, <1>5 DEF Next, HandoffStep

\* The inductive invariant of handoffs and the memory they are compiled from.
THEOREM InvariantAlways == Spec => []Inv
<1>1. Init => Inv
  BY InitOK
<1>2. Inv /\ [Next]_vars => Inv'
  BY Step
<1> QED
  BY <1>1, <1>2, PTL DEF Spec

\* What handoffs leave behind holds for any number of exporters, targets and
\* seconds: the files hold records that may leave, private ones are audited,
\* and the Markdown and JSON file of a name are of one export
\* (compile_handoff, AuditLogger.append).
THEOREM HandoffsAlways == Spec => []HandoffInv
<1>1. Inv => HandoffInv
  <2> SUFFICES ASSUME Inv
               PROVE  HandoffInv
    OBVIOUS
  <2>1. FilesOK /\ AuditOK /\ LockOK /\ PairOK
    BY DEF Inv, ExportInv
  <2>2. TypeOK
    BY <2>1 DEF TypeOK, AuditOK, LockOK
  <2>3. ExportsCleared
    BY <2>1 DEF ExportsCleared, FilesOK, Clear, Limit, Unsafe
  <2>4. PrivateExportAudited
    BY <2>1 DEF PrivateExportAudited, FilesOK, Noted, Entries
  <2>5. PairIsOneExport
    <3> SUFFICES ASSUME NEW n \in Names, lock = "free", n \notin broken
                 PROVE  md[n] = json[n]
      BY DEF PairIsOneExport
    <3>1. \A x \in Exporters : exp[x].at # "json"
      BY <2>1, HandoffAssumption DEF LockOK
    <3> QED
      BY <2>1, <3>1 DEF PairOK
  <2> QED
    BY <2>2, <2>3, <2>4, <2>5 DEF HandoffInv
<1> QED
  BY <1>1, InvariantAlways, PTL

\* The memory service keeps its promises while handoffs run beside it and hold
\* the lock it waits for.
THEOREM MemoryHoldsUnderHandoffs == Spec => []MemoryInv
<1>1. Inv => MemoryInv
  BY MemInvImplies DEF Inv
<1> QED
  BY <1>1, InvariantAlways, PTL
=============================================================================
