------------------------------ MODULE Handoff ------------------------------
(* Handoffs compiled from canonical memory (shiroe/handoff/compiler.py), the *)
(* audit log of private exports (shiroe/audit/logger.py) and the lock of the *)
(* memory directory that both share with the event log (shiroe/lock.py),     *)
(* composed with Memory.                                                     *)
(*                                                                           *)
(* A handoff lists the active records once, filters them by privacy class,   *)
(* leaves an audit entry when private records were asked for, and writes a   *)
(* Markdown and a JSON file named after the target and the second.  The      *)
(* sections of the packet about the work graph are reads of other tables     *)
(* and are left out.                                                         *)
EXTENDS Memory

CONSTANTS
  Exporters,   \* processes that run `shiroe handoff`
  Targets,     \* the targets they name; "human" is one with a filter of its own
  MaxSeconds,  \* bound: seconds
  MaxExports   \* bound: handoffs compiled

VARIABLES
  exp,     \* [Exporters -> what the process is doing]
  audit,   \* memory/audit/redactions.jsonl: made, entries
  md,      \* Markdown files: <<target, second>> -> export
  json,    \* JSON files, by the same names
  lock,    \* memory/.lock: "free", the exporter, or "stale" after a kill
  second,
  exports, \* handoffs so far
  wiped,   \* history: audit entries that a late creation of the file removed
  broken   \* history: names whose writer was killed between the two files

handoffVars == <<exp, audit, md, json, lock, second, exports, wiped, broken>>
vars == <<memVars, handoffVars>>

ASSUME HandoffAssumption ==
  /\ Exporters # {} /\ Targets # {} /\ Exporters \cap {"free", "stale"} = {}
  /\ MaxSeconds \in Nat /\ MaxExports \in Nat

Names == Targets \X (0..MaxSeconds)
NoFile == [records |-> {}, target |-> "none"]
NoExport == [at |-> "idle"]

Init ==
  /\ MemInit
  /\ exp = [x \in Exporters |-> NoExport]
  /\ audit = [made |-> FALSE, entries |-> {}]
  /\ md = [n \in Names |-> NoFile] /\ json = [n \in Names |-> NoFile]
  /\ lock = "free" /\ second = 0 /\ exports = 0
  /\ wiped = {} /\ broken = {}
-----------------------------------------------------------------------------
(* A handoff.                                                                *)

ClassOf(i) == _event_privacy_class(rows[i].claim.label)

\* Mutant: asking for private records lifts every class.
AllowedAll(target, private) ==
  IF private THEN Classes
  ELSE IF target = "human" THEN {"public", "internal"} ELSE {"public"}

AllowedClasses(target, private) ==
  CASE private -> {"public", "internal", "confidential"}
    [] ~private /\ target = "human" -> {"public", "internal"}
    [] OTHER -> {"public"}

_filter_exportable_records(target, private) ==
  {i \in List(rows, {"active"}) : ClassOf(i) \in AllowedClasses(target, private)}

\* Mutant: the audit entry is forgotten.
NeverAudit(private) == "write"

FirstStage(private) == IF private THEN "ensure" ELSE "write"

compile_handoff(x, target, private) ==
  /\ exp[x].at = "idle" /\ exports < MaxExports
  /\ exp' = [exp EXCEPT ![x] =
       [at |-> FirstStage(private), target |-> target, private |-> private,
        records |-> _filter_exportable_records(target, private)]]
  /\ exports' = exports + 1
  /\ UNCHANGED <<memVars, audit, md, json, lock, second, wiped, broken>>

\* AuditLogger.ensure looks for the file and creates it without the lock.
LookForAudit(x) ==
  /\ exp[x].at = "ensure"
  /\ exp' = [exp EXCEPT ![x].at = IF audit.made THEN "audit" ELSE "create"]
  /\ UNCHANGED <<memVars, audit, md, json, lock, second, exports, wiped, broken>>

CreateAudit(x) ==
  /\ exp[x].at = "create"
  /\ wiped' = wiped \cup audit.entries
  /\ audit' = [made |-> TRUE, entries |-> {}]
  /\ exp' = [exp EXCEPT ![x].at = "audit"]
  /\ UNCHANGED <<memVars, md, json, lock, second, exports, broken>>

\* The records an audit entry names: the non-public ones.
_log_private_export(x) ==
  [target |-> exp[x].target,
   ids |-> {i \in exp[x].records : ClassOf(i) # "public"}]

AppendAudit(x) ==
  /\ exp[x].at = "audit" /\ lock = "free"
  /\ audit' = [audit EXCEPT !.entries = @ \cup {_log_private_export(x)}]
  /\ exp' = [exp EXCEPT ![x].at = "write"]
  /\ UNCHANGED <<memVars, md, json, lock, second, exports, wiped, broken>>

\* Mutant: the files are written without waiting for the lock.
LockIgnored == TRUE

LockFree == lock = "free"

Artifact(x) == [records |-> exp[x].records, target |-> exp[x].target,
                private |-> exp[x].private, by |-> x]

\* The name is taken before the lock is.
TakeName(x) ==
  /\ exp[x].at = "write"
  /\ exp' = [exp EXCEPT ![x] = [at |-> "named", target |-> exp[x].target,
               private |-> exp[x].private, records |-> exp[x].records,
               name |-> <<exp[x].target, second>>]]
  /\ UNCHANGED <<memVars, audit, md, json, lock, second, exports, wiped, broken>>

WriteMarkdown(x) ==
  /\ exp[x].at = "named" /\ LockFree
  /\ lock' = x
  /\ md' = [md EXCEPT ![exp[x].name] = Artifact(x)]
  /\ exp' = [exp EXCEPT ![x].at = "json"]
  /\ UNCHANGED <<memVars, audit, json, second, exports, wiped, broken>>

\* Then the lock is released and the paths are returned.
WriteJson(x) ==
  /\ exp[x].at = "json"
  /\ json' = [json EXCEPT ![exp[x].name] = Artifact(x)]
  /\ lock' = "free"
  /\ broken' = broken \ {exp[x].name}
  /\ exp' = [exp EXCEPT ![x] = NoExport]
  /\ UNCHANGED <<memVars, audit, md, second, exports, wiped>>
-----------------------------------------------------------------------------
(* Faults and time.                                                          *)

\* A kill leaves the lock file where it is; without the lock this is also a
\* LockError, after waiting in vain.
Kill(x) ==
  /\ exp[x].at # "idle" /\ faults < MaxFaults
  /\ faults' = faults + 1
  /\ lock' = IF lock = x THEN "stale" ELSE lock
  /\ broken' = IF exp[x].at = "json" THEN broken \cup {exp[x].name} ELSE broken
  /\ exp' = [exp EXCEPT ![x] = NoExport]
  /\ UNCHANGED <<log, rows, proc, folded, source, known, revived,
                 audit, md, json, second, exports, wiped>>

\* Someone deletes the lock file after reading the error.
RemoveLock ==
  /\ lock = "stale" /\ lock' = "free"
  /\ UNCHANGED <<memVars, exp, audit, md, json, second, exports, wiped, broken>>

Tick ==
  /\ second < MaxSeconds /\ second' = second + 1
  /\ UNCHANGED <<memVars, exp, audit, md, json, lock, exports, wiped, broken>>

\* Every append to the event log takes the same lock.
MemoryStep ==
  /\ MemNext
  /\ log' # log => lock = "free"
  /\ UNCHANGED handoffVars

HandoffStep ==
  \/ \E x \in Exporters :
       \/ \E t \in Targets, private \in BOOLEAN : compile_handoff(x, t, private)
       \/ LookForAudit(x) \/ CreateAudit(x) \/ AppendAudit(x)
       \/ TakeName(x) \/ WriteMarkdown(x) \/ WriteJson(x) \/ Kill(x)
  \/ RemoveLock \/ Tick

Next == MemoryStep \/ HandoffStep

Spec == Init /\ [][Next]_vars
-----------------------------------------------------------------------------
(* Properties.                                                               *)

Files == {md[n] : n \in Names} \cup {json[n] : n \in Names}
Written == {f \in Files : f # NoFile}

\* The variables have the values the code gives them; an export and the lock
\* agree on who is writing.
TypeOK ==
  /\ audit.entries # {} => audit.made
  /\ lock \in Exporters \cup {"free", "stale"}
  /\ \A x \in Exporters : exp[x].at = "json" <=> lock = x

\* What a handoff file holds was never labelled as more than the request
\* allows, through the renaming of labels, the event log, the table and the
\* filter: nothing labelled restricted, local-only, secret or do_not_store is
\* in any file, and nothing beyond public in a file for an agent that did not
\* ask for private records (_filter_exportable_records).
ExportsCleared ==
  \A f \in Written : \A i \in f.records :
    /\ Sensitivity(source[i].label) <=
         (IF f.private THEN 2 ELSE IF f.target = "human" THEN 1 ELSE 0)
    /\ source[i].text \notin {"credentials", "boast"}

\* A file compiled with include_private has its audit entry, written before
\* the file, unless a process that found no audit log yet emptied it
\* (_log_private_export, AuditLogger.ensure).
PrivateExportAudited ==
  \A f \in Written : f.private =>
    \E a \in audit.entries \cup wiped :
      /\ a.target = f.target
      /\ {i \in f.records : Sensitivity(source[i].label) > 0} \subseteq a.ids

\* Two handoffs to the same target in the same second use the same names; the
\* Markdown and the JSON file are still of the same handoff when nobody is
\* writing, unless one was killed between them (MemoryLock).
PairIsOneExport ==
  \A n \in Names :
    lock = "free" /\ n \notin broken => md[n] = json[n]
\* What a handoff leaves behind: files of records that may leave, an audit
\* entry for the private ones, and a pair that belongs together
\* (compile_handoff, AuditLogger.append).
HandoffInv == TypeOK /\ ExportsCleared /\ PrivateExportAudited /\ PairIsOneExport
=============================================================================
