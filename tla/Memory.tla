------------------------------- MODULE Memory -------------------------------
(* Canonical memory: the write gate (shiroe/verification/engine.py), the     *)
(* service in front of it (shiroe/memory/service.py) and the event-sourced   *)
(* table memory_records (shiroe/storage/records.py).                         *)
(*                                                                           *)
(* A write verifies the proposal against the rows it can list, appends the   *)
(* event, and folds the event into the table; other processes may run        *)
(* between those steps.  What a claim says is abstracted to its subject and  *)
(* polarity (_opposition_key) and to what the scrubber and the claim checks  *)
(* find in it.                                                               *)
EXTENDS Integers, Sequences, FiniteSets

CONSTANTS
  Procs,       \* processes with a MemoryService open
  Proposals,   \* the MemoryWrite values callers come with
  MaxRecords,  \* bound: records
  MaxLog,      \* bound: events in the log
  MaxFaults    \* bound: kills, refused locks and failing reads

VARIABLES
  log,     \* the memory events of the log, in append order
  rows,    \* table memory_records
  proc,    \* [Procs -> what the process is doing]
  faults,
  folded,  \* history: events the table has the effect of
  source,  \* history: record id -> the proposal as it was made
  known,   \* history: record id -> ids folded when its proposal was checked
  revived  \* history: records whose write was folded after their retirement

memVars == <<log, rows, proc, faults, folded, source, known, revived>>
-----------------------------------------------------------------------------
Ids == 1..MaxRecords

\* _ALLOWED_PRIVACY_CLASSES of the event log.
Classes == {"public", "internal", "confidential", "restricted"}
Labels == Classes \cup {"public-safe", "private", "local-only", "unknown",
                        "secret", "do_not_store", "other"}

\* text: what the checks find in the claim; complete: what _validate_write
\* asks for is there.
Proposal == [subject : STRING, polarity : {"positive", "negative", "none"},
             text : {"clean", "sensitive", "credentials", "boast"},
             label : Labels, complete : BOOLEAN]

ASSUME MemoryAssumption ==
  /\ Procs # {} /\ Proposals # {}
  /\ \A m \in Proposals :
       /\ DOMAIN m = {"subject", "polarity", "text", "label", "complete"}
       /\ m.polarity \in {"positive", "negative", "none"}
       /\ m.text \in {"clean", "sensitive", "credentials", "boast"}
       /\ m.label \in Labels /\ m.complete \in BOOLEAN
       /\ m.subject # "[REDACTED]"
  /\ MaxRecords \in Nat /\ MaxLog \in Nat /\ MaxFaults \in Nat

\* Labels of older callers, as the event log names them.
_event_privacy_class(label) ==
  CASE label = "public-safe" -> "public"
    [] label = "private" -> "confidential"
    [] label = "local-only" -> "restricted"
    [] label = "unknown" -> "internal"
    [] OTHER -> label

\* Mutant: what has no class of its own is logged under the default.
RejectedAsInternal(label) ==
  IF _event_privacy_class(label) \in Classes THEN _event_privacy_class(label)
  ELSE "internal"

_rejection_event_privacy_class(label) ==
  IF _event_privacy_class(label) \in Classes THEN _event_privacy_class(label)
  ELSE "restricted"

\* EventLog.append scrubs every string of the payload, and the row is made
\* from the payload.
_scrub_payload(m) ==
  IF m.text = "sensitive" THEN [m EXCEPT !.subject = "[REDACTED]"] ELSE m

NoRow == [exists |-> FALSE]

\* Mutant: a superseded row counts as archived.
RowHidden(m, status) == [exists |-> TRUE, claim |-> m, status |-> status,
                         archived |-> status # "active"]

Row(m, status) == [exists |-> TRUE, claim |-> m, status |-> status,
                   archived |-> status = "archived"]

\* MemoryService.list(statuses).
List(table, statuses) ==
  {i \in Ids : /\ table[i].exists /\ table[i].status \in statuses
               /\ ~table[i].archived}

Opposed(m, n) ==
  /\ m.polarity # "none" /\ n.polarity # "none"
  /\ m.subject = n.subject /\ m.polarity # n.polarity

\* Mutant: only a record of the same polarity is taken for a contradiction.
AgreeingOnly(m) ==
  \E i \in List(rows, {"active"}) :
    rows[i].claim.subject = m.subject /\ rows[i].claim.polarity = m.polarity

\* The proposal is compared as it is with rows that were scrubbed.
_check_contradictions(m) ==
  \E i \in List(rows, {"active"}) : Opposed(m, rows[i].claim)

\* _validate_write, then the five checks of verify_memory_write.
Blocked(m) ==
  \/ ~m.complete
  \/ m.label \in {"secret", "do_not_store"}
  \/ m.text \in {"credentials", "boast"}
  \/ _check_contradictions(m)

NoProc == [at |-> "idle"]

MemInit ==
  /\ log = <<>> /\ rows = [i \in Ids |-> NoRow]
  /\ proc = [p \in Procs |-> NoProc] /\ faults = 0
  /\ folded = {} /\ source = <<>> /\ known = <<>> /\ revived = {}
-----------------------------------------------------------------------------
(* Writing.                                                                  *)

FoldedIds == {log[k].id : k \in {k \in folded : log[k].type = "written"}}

\* An exception inside the contradiction check counts as a finding that
\* blocks.  The command verifies once more before it calls write: when that
\* refuses, nothing is logged at all.
write(p, m, broken) ==
  /\ proc[p].at = "idle" /\ Len(log) < MaxLog
  /\ broken => faults < MaxFaults
  /\ proc' = [proc EXCEPT ![p] =
       [at |-> IF broken \/ Blocked(m) THEN "refused" ELSE "verified",
        claim |-> m, known |-> FoldedIds]]
  /\ faults' = IF broken THEN faults + 1 ELSE faults
  /\ UNCHANGED <<log, rows, folded, source, known, revived>>

LogRejection(p) ==
  /\ proc[p].at = "refused" /\ Len(log) < MaxLog
  /\ log' = Append(log,
       [type |-> "rejected", id |-> 0, label |-> proc[p].claim.label,
        class |-> _rejection_event_privacy_class(proc[p].claim.label)])
  /\ proc' = [proc EXCEPT ![p] = NoProc]
  /\ UNCHANGED <<rows, faults, folded, source, known, revived>>

\* validate_envelope refuses a class it does not know: append raises.
write_record(p) ==
  /\ proc[p].at = "verified"
  /\ LET m == proc[p].claim
         class == _event_privacy_class(m.label)
         id == Len(source) + 1
     IN IF class \in Classes
        THEN /\ Len(log) < MaxLog /\ id \in Ids
             /\ log' = Append(log, [type |-> "written", id |-> id,
                                    claim |-> _scrub_payload(m),
                                    label |-> m.label, class |-> class])
             /\ source' = Append(source, m)
             /\ known' = Append(known, proc[p].known)
             /\ proc' = [proc EXCEPT ![p] =
                           [at |-> "logged", entry |-> Len(log) + 1]]
        ELSE /\ proc' = [proc EXCEPT ![p] = NoProc]
             /\ UNCHANGED <<log, source, known>>
  /\ UNCHANGED <<rows, faults, folded, revived>>

\* Neither looks for the record first: with an unknown id (0), or that of a
\* record not folded yet, the event is logged, nothing is updated and the read
\* that follows raises.
Retire(p, id, type) ==
  /\ proc[p].at = "idle" /\ Len(log) < MaxLog
  /\ id <= Len(source)
  /\ log' = Append(log, [type |-> type, id |-> id, class |-> "internal"])
  /\ proc' = [proc EXCEPT ![p] = [at |-> "logged", entry |-> Len(log) + 1]]
  /\ UNCHANGED <<rows, faults, folded, source, known, revived>>

supersede_record(p, id) == Retire(p, id, "superseded")
archive_record(p, id) == Retire(p, id, "archived")

\* Mutant: a retired record that is retired again comes back.
ApplyToggles(table, e) ==
  IF e.type = "written"
  THEN [table EXCEPT ![e.id] = Row(e.claim, "active")]
  ELSE IF e.id \in Ids /\ table[e.id].exists
       THEN [table EXCEPT ![e.id] =
               Row(@.claim, IF @.status = "active" THEN e.type ELSE "active")]
       ELSE table

\* One event folded into the table: INSERT OR REPLACE, or an UPDATE of status
\* and archived.
apply_event(table, e) ==
  CASE e.type = "written" -> [table EXCEPT ![e.id] = Row(e.claim, "active")]
    [] e.type \in {"superseded", "archived"} ->
         IF e.id \in Ids /\ table[e.id].exists
         THEN [table EXCEPT ![e.id] = Row(@.claim, e.type)] ELSE table
    [] OTHER -> table

Later(k) == {j \in folded : j > k /\ log[j].id = log[k].id}

\* The second half of the three operations.
ApplyAndCommit(p) ==
  /\ proc[p].at = "logged"
  /\ LET k == proc[p].entry
     IN /\ rows' = apply_event(rows, log[k])
        /\ folded' = folded \cup {k}
        /\ revived' = IF Later(k) = {} THEN revived ELSE revived \cup {log[k].id}
  /\ proc' = [proc EXCEPT ![p] = NoProc]
  /\ UNCHANGED <<log, faults, source, known>>

\* `shiroe state rebuild` folds the log into empty tables under SQLite's write
\* lock.  Events appended after it read the log are not in it, and cannot have
\* been applied by anyone before it commits.
Rebuild(k) ==
  /\ \A j \in folded : j <= k
  /\ rows' = LET fold[j \in 0..k] ==
                   IF j = 0 THEN [i \in Ids |-> NoRow]
                   ELSE apply_event(fold[j - 1], log[j])
             IN fold[k]
  /\ folded' = 1..k /\ revived' = {}
  /\ UNCHANGED <<log, proc, faults, source, known>>

\* A kill, a LockError or a locked database ends the operation where it is.
Abort(p) ==
  /\ proc[p].at # "idle" /\ faults < MaxFaults
  /\ proc' = [proc EXCEPT ![p] = NoProc] /\ faults' = faults + 1
  /\ UNCHANGED <<log, rows, folded, source, known, revived>>

MemNext ==
  \/ \E p \in Procs :
       \/ \E m \in Proposals, broken \in BOOLEAN : write(p, m, broken)
       \/ LogRejection(p) \/ write_record(p)
       \/ \E id \in Ids \cup {0} : supersede_record(p, id) \/ archive_record(p, id)
       \/ ApplyAndCommit(p) \/ Abort(p)
  \/ \E k \in 0..Len(log) : Rebuild(k)

MemSpec == MemInit /\ [][MemNext]_memVars
-----------------------------------------------------------------------------
(* Properties.                                                               *)

\* Every record that has an event has its history, and a row is archived by
\* its flag exactly when it is by its status (two columns of one UPDATE).
MemTypeOK ==
  /\ folded \subseteq 1..Len(log)
  /\ \A k \in 1..Len(log) :
       /\ log[k].type \in {"written", "rejected", "superseded", "archived"}
       /\ log[k].id \in 0..Len(source) /\ log[k].class \in Classes
  /\ Len(known) = Len(source) /\ Len(source) <= MaxRecords
  /\ \A i \in Ids : rows[i].exists =>
       /\ rows[i].status \in {"active", "superseded", "archived"}
       /\ rows[i].archived <=> rows[i].status = "archived"

\* How protective a label asks to be; what nobody knows asks for the most.
Sensitivity(label) ==
  CASE label \in {"public", "public-safe"} -> 0
    [] label \in {"internal", "unknown"} -> 1
    [] label \in {"confidential", "private"} -> 2
    [] OTHER -> 3

\* Every event about a claim, the refusals included, is classed at least as
\* protective as the caller labelled the claim: recording a refusal of
\* something that must not be stored does not downgrade it
\* (_rejection_event_privacy_class).
LogClassCoversClaim ==
  \A k \in 1..Len(log) :
    log[k].type \in {"written", "rejected"} =>
      Sensitivity(log[k].class) >= Sensitivity(log[k].label)

\* Two active records contradict each other (_check_contradictions, "instead
\* of silently storing both claims") only if neither was in the table when
\* the other was checked, the scrubber had hidden the subject of the one that
\* was, or a late fold brought a retired one back.
ContradictionsExplained ==
  \A i, j \in List(rows, {"active"}) :
    Opposed(source[i], source[j]) /\ i \in known[j] =>
      source[i].text = "sensitive" \/ {i, j} \cap revived # {}

\* A superseded or archived record becomes active again only when the process
\* that wrote it folds its event late, after a rebuild had already folded it
\* (apply_event: INSERT OR REPLACE).
RetiredStaysRetired ==
  [][\A i \in Ids :
       (rows[i].exists /\ rows[i].status # "active"
          /\ rows'[i].exists /\ rows'[i].status = "active") =>
         \E p \in Procs : /\ proc[p].at = "logged" /\ proc[p].entry \in folded
                          /\ log[proc[p].entry].type = "written"
                          /\ log[proc[p].entry].id = i]_memVars
\* The table of records and the log behind it (MemoryService.write,
\* write_record).
MemoryInv == MemTypeOK /\ LogClassCoversClaim /\ ContradictionsExplained
=============================================================================
