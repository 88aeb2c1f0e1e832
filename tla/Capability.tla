----------------------------- MODULE Capability -----------------------------
(* One executable capability: its row in the registry                        *)
(* (shiroe/capabilities), the approval requests for it                       *)
(* (shiroe/policy/approval_service.py), the source on disk, and the log both *)
(* tables can be rebuilt from.                                               *)
(*                                                                           *)
(* The processes are `shiroe` commands and callers of the library.  Each     *)
(* runs one operation at a time, as the list of calls it still has to make.  *)
(* A call that writes reads the row, appends its event to the log and then   *)
(* applies the event and commits: three steps, with other processes, edits   *)
(* of the source and kills between them.                                     *)
EXTENDS Naturals, Sequences

CONSTANTS
  Procs,       \* processes that work on the registry
  Digests,     \* what inspect_source may compute from the source
  Origins,     \* how the capability may enter: "onboard" or "register"
  Operations,  \* the operations processes start
  MaxLog,      \* bound: events in the log
  MaxEdits,    \* bound: changes of the source
  MaxCrashes   \* bound: kills

VARIABLES
  source,   \* digest of what is on disk, Nothing when it was removed
  origin,   \* "onboard" or "register": the ids they derive never coincide
  db,       \* the committed tables: [row, reqs]
  image,    \* what replay_into makes of the log as it stands
  logged,   \* number of events in the log
  proc,     \* [Procs -> what the process is doing]
  edits, crashes,
  granted,  \* history: contents the gate has let through
  cleared,  \* history: digests the row had when its approval was logged
  lost,     \* history: a kill kept an event of the log from the tables
  swapped   \* history: a rebuild has changed the registered digest

vars == <<source, origin, db, image, logged, proc, edits, crashes,
          granted, cleared, lost, swapped>>

Nothing == "nothing"
ASSUME ConstantsAssumption ==
  /\ Procs # {} /\ Digests # {} /\ Nothing \notin Digests
  /\ Origins \subseteq {"onboard", "register"} /\ Origins # {}
  /\ MaxLog \in Nat /\ MaxEdits \in Nat /\ MaxCrashes \in Nat

-----------------------------------------------------------------------------
(* The lifecycle.                                                            *)

EXECUTABLE_STATES == {"approved", "benchmarked", "active"}

LIFECYCLE_STATES ==
  EXECUTABLE_STATES \cup {"discovered", "quarantined", "inspected",
                          "stale", "revoked", "compromised"}

Leaving == {"stale", "revoked", "compromised", "quarantined"}

_TRANSITIONS ==
  [s \in LIFECYCLE_STATES |->
     CASE s = "discovered"  -> {"quarantined"}
       [] s = "quarantined" -> {"inspected", "revoked"}
       [] s = "inspected"   -> {"approved", "revoked", "quarantined"}
       [] s = "approved"    -> {"benchmarked", "active"} \cup Leaving
       [] s = "benchmarked" -> {"active"} \cup Leaving
       [] s = "active"      -> Leaving
       [] s = "stale"       -> {"active", "revoked", "quarantined"}
       [] s = "revoked"     -> {}
       [] s = "compromised" -> {"revoked", "quarantined"}]

can_transition(current, target) ==
  current \in LIFECYCLE_STATES /\ target \in _TRANSITIONS[current]

is_executable(state) == state \in EXECUTABLE_STATES

\* Drift that leaves what may run alone, and drift that brings a revoked
\* capability back.
DriftKeepsExecutable(current) ==
  IF current \in EXECUTABLE_STATES \cup {"revoked"} THEN current
  ELSE "quarantined"
DriftForgetsRevoked(current) == "quarantined"

next_state_for_digest_change(current) ==
  IF current = "revoked" THEN current ELSE "quarantined"

-----------------------------------------------------------------------------
(* Events, and the one interpreter that live writes and replay share.        *)

Verdicts == {"approved", "rejected"}  \* revise and deferred act as rejected

Row == [lifecycle : LIFECYCLE_STATES \cup {Nothing},
        digest : Digests \cup {Nothing}]
NoRow == [lifecycle |-> Nothing, digest |-> Nothing]

Event == [type : {"discovered", "lifecycle", "drift", "requested", "decided"},
          to : LIFECYCLE_STATES \cup {Nothing},
          digest : Digests \cup {Nothing},
          req : Nat, verdict : Verdicts \cup {Nothing}]

Blank == [type |-> "lifecycle", to |-> Nothing, digest |-> Nothing,
          req |-> 0, verdict |-> Nothing]

\* A request is identified by the place of its event in the log.
Request == [id : Nat, digest : Digests \cup {Nothing},
            status : Verdicts \cup {"pending"}]

\* capability.discovered carries the whole row; the other capability events
\* update a row that exists.
_apply_capability(row, e) ==
  CASE e.type = "discovered" -> [lifecycle |-> e.to, digest |-> e.digest]
    [] e.type = "lifecycle" /\ row # NoRow -> [row EXCEPT !.lifecycle = e.to]
    [] e.type = "drift" /\ row # NoRow ->
         [lifecycle |-> e.to, digest |-> e.digest]
    [] OTHER -> row

_apply_approval(reqs, e) ==
  CASE e.type = "requested" ->
         reqs \cup {[id |-> e.req, digest |-> e.digest, status |-> "pending"]}
    [] e.type = "decided" ->
         {IF r.id = e.req THEN [r EXCEPT !.status = e.verdict] ELSE r :
            r \in reqs}
    [] OTHER -> reqs

apply_event(tables, e) ==
  [row |-> _apply_capability(tables.row, e),
   reqs |-> _apply_approval(tables.reqs, e)]

-----------------------------------------------------------------------------
(* Processes.                                                                *)

Calls == {"lookup", "upsert", "announce", "refresh", "set", "consider",
          "request", "decide", "look", "inspect", "admit"}

CallRecord == [do : Calls, to : LIFECYCLE_STATES \cup {Nothing}]

ProcState == [calls : Seq(CallRecord), stage : {"start", "read", "emitted"},
              seen : Digests \cup {Nothing}, snap : Row, env : Event,
              req : Nat, verdict : Verdicts \cup {Nothing}]

Call(do, to) == [do |-> do, to |-> to]
SetLifecycle(to) == Call("set", to)
Consider(to) == Call("consider", to)
Plain(do) == Call(do, Nothing)

Idle == [calls |-> <<>>, stage |-> "start", seen |-> Nothing, snap |-> NoRow,
         env |-> Blank, req |-> 0, verdict |-> Nothing]

Busy(p) == proc[p].calls # <<>>
At(p, do, stage) ==
  Busy(p) /\ Head(proc[p].calls).do = do /\ proc[p].stage = stage

Init ==
  /\ source \in Digests
  /\ origin \in Origins
  /\ db = [row |-> NoRow, reqs |-> {}]
  /\ image = db
  /\ logged = 0
  /\ proc = [p \in Procs |-> Idle]
  /\ edits = 0 /\ crashes = 0
  /\ granted = {} /\ cleared = {}
  /\ lost = FALSE /\ swapped = FALSE

\* What every step but a write leaves alone.
Tables == <<db, image, logged>>
World == <<source, origin, edits, crashes>>
History == <<granted, cleared, lost, swapped>>

\* `events` is how many events the operation may append: it starts when the
\* log has room for them.
Start(p, op, events, state) ==
  /\ op \in Operations
  /\ ~Busy(p)
  /\ logged + events <= MaxLog
  /\ proc' = [proc EXCEPT ![p] = state]
  /\ UNCHANGED <<Tables, World, History>>

-----------------------------------------------------------------------------
(* The operations.  Onboarding and discovery look at the source before they  *)
(* open the registry.                                                        *)

\* The digest of what is on disk now.
inspect_source == source

Begin(calls) == [Idle EXCEPT !.calls = calls]

\* onboard without its check that the source exists.
OnboardMissingSource(p) ==
  /\ origin = "onboard"
  /\ Start(p, "onboard", 4,
       [Begin(<<Plain("lookup"), SetLifecycle("inspected"), Plain("request")>>)
          EXCEPT !.seen = inspect_source])

onboard(p) ==
  /\ origin = "onboard" /\ source # Nothing
  /\ Start(p, "onboard", 4,
       [Begin(<<Plain("lookup"), SetLifecycle("inspected"), Plain("request")>>)
          EXCEPT !.seen = inspect_source])

register_discovery(p) ==
  /\ origin = "register" /\ source # Nothing
  /\ Start(p, "register", 2,
       [Begin(<<Plain("lookup")>>) EXCEPT !.seen = inspect_source])

approve(p) ==
  /\ db.row # NoRow
  /\ Start(p, "approve", 2,
       Begin(<<Consider("inspected"), Consider("approved")>>))

revoke(p) ==
  /\ db.row # NoRow
  /\ Start(p, "revoke", 2,
       Begin(<<Consider("quarantined"), Consider("revoked")>>))

\* set_lifecycle called by a user of the library: the only way to benchmarked,
\* active, stale and compromised.
set_lifecycle(p, to) == Start(p, "set", 1, Begin(<<SetLifecycle(to)>>))

assert_executable(p) == Start(p, "gate", 1, Begin(<<Plain("look")>>))

\* The decision, then the lifecycle of the capability the request names: two
\* commits.  Nothing asks whether the request was decided before.
decide_human(p, r, verdict) ==
  Start(p, "decide", 2,
    [Begin(IF verdict = "approved"
           THEN <<Plain("decide"), SetLifecycle("approved")>>
           ELSE <<Plain("decide")>>)
       EXCEPT !.req = r.id, !.verdict = verdict])

-----------------------------------------------------------------------------
(* Steps of an operation.                                                    *)

Goto(p, calls) == proc' = [proc EXCEPT ![p].calls = calls, ![p].stage = "start"]
Raise(p) == proc' = [proc EXCEPT ![p] = Idle]

\* register_discovery and onboard: a new row, or the drift handler.
Lookup(p) ==
  /\ At(p, "lookup", "start")
  /\ LET rest == Tail(proc[p].calls)
     IN Goto(p, IF db.row = NoRow
                THEN <<Plain("upsert"), Plain("announce")>> \o rest
                ELSE <<Plain("refresh")>> \o rest)
  /\ UNCHANGED <<Tables, World, History>>

\* The conditions of approve() and revoke() on the row they have just read.
Wanted(lifecycle, to) ==
  CASE to = "inspected"   -> lifecycle = "quarantined"
    [] to = "approved"    -> lifecycle = "inspected"
    [] to = "quarantined" -> /\ ~can_transition(lifecycle, "revoked")
                             /\ can_transition(lifecycle, "quarantined")
    [] OTHER              -> can_transition(lifecycle, to)

ConsiderStep(p) ==
  /\ At(p, "consider", "start")
  /\ LET to == Head(proc[p].calls).to
         rest == Tail(proc[p].calls)
     IN Goto(p, IF Wanted(db.row.lifecycle, to)
                THEN <<SetLifecycle(to)>> \o rest ELSE rest)
  /\ UNCHANGED <<Tables, World, History>>

\* set_lifecycle without its check of the transition.
ReadRowUnchecked(p) ==
  /\ \E do \in {"set", "refresh", "request"} : At(p, do, "start")
  /\ IF db.row = NoRow THEN Raise(p)
     ELSE IF At(p, "refresh", "start") /\ db.row.digest = proc[p].seen
     THEN Goto(p, Tail(proc[p].calls))
     ELSE proc' = [proc EXCEPT ![p].stage = "read", ![p].snap = db.row]
  /\ UNCHANGED <<Tables, World, History>>

\* The read at the start of set_lifecycle, refresh_digest and the request of
\* onboard; set_lifecycle raises on a transition that is not allowed, and
\* refresh_digest returns when the digest is the stored one.
ReadRow(p) ==
  /\ \E do \in {"set", "refresh", "request"} : At(p, do, "start")
  /\ LET call == Head(proc[p].calls) IN
     IF \/ db.row = NoRow
        \/ call.do = "set" /\ ~can_transition(db.row.lifecycle, call.to)
     THEN Raise(p)
     ELSE IF call.do = "refresh" /\ db.row.digest = proc[p].seen
     THEN Goto(p, Tail(proc[p].calls))
     ELSE proc' = [proc EXCEPT ![p].stage = "read", ![p].snap = db.row]
  /\ UNCHANGED <<Tables, World, History>>

EventOf(p) ==
  LET s == proc[p]
      call == Head(s.calls)
  IN CASE call.do = "upsert" ->
            [Blank EXCEPT !.type = "discovered", !.to = "quarantined",
                          !.digest = s.seen]
       [] call.do = "announce" -> [Blank EXCEPT !.to = "quarantined"]
       [] call.do = "set" -> [Blank EXCEPT !.to = call.to]
       [] call.do = "refresh" ->
            [Blank EXCEPT !.type = "drift", !.digest = s.seen,
               !.to = next_state_for_digest_change(s.snap.lifecycle)]
       [] call.do = "request" ->
            [Blank EXCEPT !.type = "requested", !.digest = s.snap.digest,
                          !.req = logged + 1]
       [] OTHER -> [Blank EXCEPT !.type = "decided", !.req = s.req,
                                 !.verdict = s.verdict]

\* events.append: durable, and from now on part of every replay.
Emit(p) ==
  /\ \/ \E do \in {"set", "refresh", "request"} : At(p, do, "read")
     \/ \E do \in {"upsert", "announce", "decide"} : At(p, do, "start")
  /\ logged' = logged + 1
  /\ image' = apply_event(image, EventOf(p))
  /\ proc' = [proc EXCEPT ![p].stage = "emitted", ![p].env = EventOf(p)]
  /\ cleared' = IF At(p, "set", "read") /\ Head(proc[p].calls).to = "approved"
                THEN cleared \cup {proc[p].snap.digest} ELSE cleared
  /\ UNCHANGED <<db, World, granted, lost, swapped>>

\* The UPDATE of the row without the call of the reducers.
CommitRowOnly(p) ==
  /\ Busy(p) /\ proc[p].stage = "emitted"
  /\ db' = [db EXCEPT !.row = apply_event(db, proc[p].env).row]
  /\ Goto(p, Tail(proc[p].calls))
  /\ UNCHANGED <<image, logged, World, History>>

\* The UPDATE of the row, apply_event and the commit.
Commit(p) ==
  /\ Busy(p) /\ proc[p].stage = "emitted"
  /\ db' = apply_event(db, proc[p].env)
  /\ Goto(p, Tail(proc[p].calls))
  /\ UNCHANGED <<image, logged, World, History>>

\* The gate: the row must be executable ...
Look(p) ==
  /\ At(p, "look", "start")
  /\ IF is_executable(db.row.lifecycle)
     THEN proc' = [proc EXCEPT ![p].calls = <<Plain("inspect")>>,
                               ![p].snap = db.row]
     ELSE Raise(p)
  /\ UNCHANGED <<Tables, World, History>>

\* _resolve_source that does not record a digest which has changed.
ResolveWithoutRefresh(p) ==
  /\ At(p, "inspect", "start")
  /\ IF source = Nothing THEN Raise(p)
     ELSE proc' = [proc EXCEPT ![p].seen = inspect_source,
                               ![p].calls = <<Plain("admit")>>]
  /\ UNCHANGED <<Tables, World, History>>

\* ... the source must exist; its digest, when it is not the one just read,
\* goes through refresh_digest ...
_resolve_source(p) ==
  /\ At(p, "inspect", "start")
  /\ IF source = Nothing THEN Raise(p)
     ELSE proc' = [proc EXCEPT
            ![p].seen = inspect_source,
            ![p].calls = IF inspect_source # proc[p].snap.digest
                         THEN <<Plain("refresh"), Plain("admit")>>
                         ELSE <<Plain("admit")>>]
  /\ UNCHANGED <<Tables, World, History>>

\* ... the row is read again, and the adapter must be there and healthy.
Admit(p) ==
  /\ At(p, "admit", "start")
  /\ is_executable(db.row.lifecycle)
  /\ granted' = granted \cup {proc[p].seen}
  /\ Raise(p)
  /\ UNCHANGED <<Tables, World, cleared, lost, swapped>>

\* The gate raises: the row was snapped back, or the adapter is not usable.
Refuse(p) ==
  /\ At(p, "admit", "start")
  /\ Raise(p)
  /\ UNCHANGED <<Tables, World, History>>

-----------------------------------------------------------------------------
(* `shiroe state rebuild`: one transaction that replaces the tables.         *)
replay_into(p) ==
  /\ "rebuild" \in Operations
  /\ ~Busy(p)
  /\ db' = image
  /\ lost' = FALSE
  /\ swapped' = (swapped \/ image.row.digest # db.row.digest)
  /\ UNCHANGED <<image, logged, proc, World, granted, cleared>>

\* A process is killed; an uncommitted transaction is rolled back.
Crash(p) ==
  /\ Busy(p) /\ crashes < MaxCrashes
  /\ crashes' = crashes + 1
  /\ lost' = (lost \/ proc[p].stage = "emitted")
  /\ Raise(p)
  /\ UNCHANGED <<Tables, source, origin, edits, granted, cleared, swapped>>

\* Somebody edits or removes the source.
Edit(d) ==
  /\ edits < MaxEdits /\ d # source
  /\ source' = d
  /\ edits' = edits + 1
  /\ UNCHANGED <<Tables, origin, crashes, proc, History>>

Step(p) ==
  \/ Lookup(p) \/ ConsiderStep(p) \/ ReadRow(p) \/ Emit(p) \/ Commit(p)
  \/ Look(p) \/ _resolve_source(p) \/ Admit(p) \/ Refuse(p)

Invoke(p) ==
  \/ onboard(p) \/ register_discovery(p)
  \/ approve(p) \/ revoke(p) \/ assert_executable(p)
  \/ \E to \in LIFECYCLE_STATES : set_lifecycle(p, to)
  \/ \E r \in db.reqs, v \in Verdicts : decide_human(p, r, v)

Next ==
  \/ \E p \in Procs : Invoke(p) \/ Step(p) \/ replay_into(p) \/ Crash(p)
  \/ \E d \in Digests \cup {Nothing} : Edit(d)

Spec == Init /\ [][Next]_vars

-----------------------------------------------------------------------------
(* Properties.                                                               *)

\* Every variable keeps its type.
TypeOK ==
  /\ source \in Digests \cup {Nothing}
  /\ origin \in Origins
  /\ db \in [row : Row, reqs : SUBSET Request]
  /\ image \in [row : Row, reqs : SUBSET Request]
  /\ logged \in Nat /\ edits \in Nat /\ crashes \in Nat
  /\ proc \in [Procs -> ProcState]
  /\ granted \subseteq Digests /\ cleared \subseteq Digests
  /\ lost \in BOOLEAN /\ swapped \in BOOLEAN

\* Only along _TRANSITIONS does the committed lifecycle ever change, and
\* never out of revoked: also when an operation was killed between its event
\* and its commit, when the next one starts from the row that missed the
\* event, and when a rebuild brings the missed event back.
LegalLifecycle ==
  [][LET old == db.row.lifecycle
         new == db'.row.lifecycle
     IN new # old => \/ can_transition(old, new)
                     \/ old = Nothing /\ new = "quarantined"]_vars

\* upsert_capability: "replay reproduces exactly this state".  Between
\* operations the tables are what a replay of the log would build, as long as
\* no kill has kept an event from them; and one committed capability event
\* later the two agree on the lifecycle again (not on the digest).
ReplayReproduces ==
  (\A p \in Procs : ~Busy(p)) =>
    /\ ~lost => db = image
    /\ db.row # NoRow => \/ image.row.lifecycle = db.row.lifecycle
                         \/ can_transition(db.row.lifecycle,
                                           image.row.lifecycle)

\* The gate lets through only content whose digest the row had when it was
\* approved, whatever drift, removal and return of the source, repeated and
\* late decisions, killed operations and rebuilds came in between.  The one
\* exception: a rebuild that brings back a drift event a kill kept from the
\* tables changes the digest under an approval that was given since.
GrantedWasCleared == swapped \/ granted \subseteq cleared

\* assert_executable: "Any digest drift snaps the capability back to
\* quarantined BEFORE this call raises".  When the gate takes its last look,
\* the row has the digest of the content it inspected, and is executable only
\* if that is the digest it had at the first look.
DriftSnapsBack ==
  \A p \in Procs : At(p, "admit", "start") =>
    /\ db.row.digest = proc[p].seen
    /\ is_executable(db.row.lifecycle) => proc[p].snap.digest = proc[p].seen

\* What the gate answers for: what it has let through and what it is looking at
\* (assert_executable).
GateSafe == GrantedWasCleared /\ DriftSnapsBack

-----------------------------------------------------------------------------
(* Properties of several processes at a time.                                *)

\* The states from which a capability runs, or may again without an approval.
Posted == EXECUTABLE_STATES \cup {"stale"}
Unapproved(row, digests) == row.lifecycle \in Posted /\ row.digest \notin digests

\* Nothing may run, and the gate lets nothing through, before an approval is in
\* the log: whatever processes, kills and rebuilds do to one another's rows
\* (set_lifecycle, assert_executable).
RunsNeedApproval ==
  (is_executable(db.row.lifecycle) \/ granted # {}) => cleared # {}

\* The row as the process that is about to commit last read or wrote it.
LastSeen(p) ==
  LET do == Head(proc[p].calls).do
  IN CASE do = "upsert"   -> NoRow
       [] do = "announce" -> [lifecycle |-> "quarantined", digest |-> proc[p].seen]
       [] OTHER           -> proc[p].snap

\* A commit on a row that is no longer the one it was decided on.
Overwrites(p) ==
  /\ Busy(p) /\ proc[p].stage = "emitted" /\ proc'[p].stage = "start"
  /\ db.row # LastSeen(p)

\* What several processes can do to the registry that one cannot, they do by
\* overwriting: every other step, but a rebuild, moves the lifecycle along
\* _TRANSITIONS, and leaves no row fit to run whose digest was never approved
\* if it was not there before (set_lifecycle, refresh_digest, upsert_capability).
OnlyOverwritesHarm ==
  [][\/ /\ \/ db'.row.lifecycle = db.row.lifecycle
           \/ can_transition(db.row.lifecycle, db'.row.lifecycle)
           \/ db.row.lifecycle = Nothing /\ db'.row.lifecycle = "quarantined"
        /\ Unapproved(db'.row, cleared') => Unapproved(db.row, cleared)
     \/ \E p \in Procs : Overwrites(p)
     \/ db' = image /\ UNCHANGED proc]_vars

\* lifecycle.py: `"revoked": frozenset(),  # terminal`.
RevokedIsTerminal ==
  [][db.row.lifecycle = "revoked" => db'.row.lifecycle = "revoked"]_vars
=============================================================================
