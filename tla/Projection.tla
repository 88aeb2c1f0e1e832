----------------------------- MODULE Projection -----------------------------
(* The work tables of SQLite as a projection of the event log                *)
(* (shiroe/work/store.py, shiroe/storage/projections.py) and the rebuild     *)
(* that folds the log again (EventLog.replay_into).                          *)
(*                                                                           *)
(* A write is: look at the row, append the event under the lock of the log,  *)
(* fold the event into the tables and commit.  The last step runs after the  *)
(* lock was released, so other processes, a rebuild or a kill may come       *)
(* between.  The log itself, its lock and its chain are EventLog.tla.        *)
EXTENDS Integers, Sequences, FiniteSets

CONSTANTS
  Procs,      \* processes: `shiroe plan`, `shiroe run`, `shiroe state rebuild`
  Graphs,     \* graph ids
  Nodes,      \* work node ids, one namespace for all graphs
  PlanOf,     \* [Graphs -> SUBSET Nodes]: the nodes a plan names
  ApprovalNodes,  \* nodes with kind = approval
  Executable,     \* nodes with a non-empty `requires`
  MaxLog,     \* bound: events in the log
  MaxCrashes  \* bound: kills and timeouts of SQLite's lock

VARIABLES
  log,      \* the events, in append order
  db,       \* the committed tables
  proc,     \* [Procs -> what the process is doing]
  crashes,
  folded,   \* history: events whose effect the tables have
  tangled   \* history: since the last rebuild, an event was folded after a
            \* later one about the same row, or a counting one twice

vars == <<log, db, proc, crashes, folded, tangled>>

ASSUME ConstantsAssumption ==
  /\ Procs # {} /\ PlanOf \in [Graphs -> SUBSET Nodes]
  /\ "none" \notin Graphs /\ Graphs \cap Nodes = {}
  /\ ApprovalNodes \subseteq Nodes /\ Executable \subseteq Nodes
  /\ MaxLog \in Nat /\ MaxCrashes \in Nat
-----------------------------------------------------------------------------
(* The tables and the reducers.                                              *)

NodeStatuses == {"pending", "blocked", "completed", "failed"}

NodeRow == [graph : Graphs \cup {"none"},
            status : {"none"} \cup NodeStatuses,
            version : Nat, output : BOOLEAN]
NoNode == [graph |-> "none", status |-> "none", version |-> 0,
           output |-> FALSE]

\* One attempt per node is enough: its row is keyed by its id.
Tables == [graphs : [Graphs -> {"none", "draft", "running"}],
           nodes : [Nodes -> NodeRow],
           attempts : [Nodes -> {"none", "running", "completed", "failed"}]]

Empty == [graphs |-> [g \in Graphs |-> "none"],
          nodes |-> [n \in Nodes |-> NoNode],
          attempts |-> [n \in Nodes |-> "none"]]

\* What INSERT OR REPLACE makes of the row of a node: the columns the event
\* does not carry, state_version and output_json, get their defaults.
Planned(g) == [graph |-> g, status |-> "pending", version |-> 0,
               output |-> FALSE]

_apply_run_created(t, g) ==
  [t EXCEPT !.graphs[g] = "draft",
            !.nodes = [n \in Nodes |-> IF n \in PlanOf[g] THEN Planned(g)
                                       ELSE t.nodes[n]]]

_apply_run_status(t, g, s) ==
  IF t.graphs[g] = "none" THEN t ELSE [t EXCEPT !.graphs[g] = s]

Stepped(row, e) ==
  [row EXCEPT !.version = @ + 1,
              !.status = IF e.do = "step" THEN e.val ELSE @,
              !.output = IF e.do = "output" THEN TRUE ELSE @]

\* Mutant: an update takes the version down.
StepDown(t, e) ==
  IF t.nodes[e.key] = NoNode THEN t
  ELSE [t EXCEPT !.nodes[e.key] = [Stepped(@, e) EXCEPT !.version = @ - 2]]

_apply_step(t, e) ==
  IF t.nodes[e.key] = NoNode THEN t
  ELSE [t EXCEPT !.nodes[e.key] = Stepped(t.nodes[e.key], e)]

\* Mutant: the attempt also marks the row of its node.
AttemptMarksNode(t, e) ==
  [t EXCEPT !.attempts[e.key] = e.val,
            !.nodes[e.key].status = IF @ = "none" THEN @ ELSE "completed"]

_apply_attempt(t, e) == [t EXCEPT !.attempts[e.key] = e.val]

\* apply_event, for the events of the work domain.
_apply_work(t, e) ==
  CASE e.do = "create" -> _apply_run_created(t, e.key)
    [] e.do = "graph" -> _apply_run_status(t, e.key, e.val)
    [] e.do \in {"step", "output"} -> _apply_step(t, e)
    [] e.do = "attempt" -> _apply_attempt(t, e)

\* Folding the chosen events of the log into empty tables, in log order.
Replay(chosen) ==
  LET step[i \in 0..Len(log)] ==
        IF i = 0 THEN Empty
        ELSE IF i \in chosen THEN _apply_work(step[i - 1], log[i])
        ELSE step[i - 1]
  IN step[Len(log)]

\* The rows an event writes.
Rows(e) == CASE e.do = "create" -> {<<"row", k>> : k \in {e.key} \cup PlanOf[e.key]}
             [] e.do = "attempt" -> {<<"attempt", e.key>>}
             [] OTHER -> {<<"row", e.key>>}

Conflict(e, f) == Rows(e) \cap Rows(f) # {}
-----------------------------------------------------------------------------
(* Processes.  checked: the call compares state_version first; ahead: by how *)
(* much the expected version is ahead of the one the caller read.            *)

Call(do, key, val) ==
  [do |-> do, key |-> key, val |-> val, checked |-> FALSE, ahead |-> 0]
Checked(do, key, val, ahead) ==
  [Call(do, key, val) EXCEPT !.checked = TRUE, !.ahead = ahead]

\* Mutant: the node is completed first and its output recorded then.
FinishFirst(n) == <<Call("attempt", n, "completed"),
                    Checked("step", n, "completed", 0),
                    Checked("output", n, "json", 1)>>

\* What Supervisor.run does once the adapter has succeeded.
Finish(n) == <<Call("attempt", n, "completed"),
               Checked("output", n, "json", 0),
               Checked("step", n, "completed", 1)>>

\* And once the tries are used up.
GiveUp(n) == <<Call("attempt", n, "failed"), Checked("step", n, "failed", 0)>>

\* Task nodes that have something to invoke.
Tasks == Executable \ ApprovalNodes

\* saw: the version an update was checked against, -1 when it was not; known
\* and fair: history, what the tables had folded then and whether untangled.
Event == [do : {"create", "graph", "step", "output", "attempt"},
          key : Graphs \cup Nodes,
          val : {"draft", "running", "json"} \cup NodeStatuses,
          saw : Int, known : SUBSET Nat, fair : BOOLEAN]

Idle == [calls |-> <<>>, at |-> "call", ver |-> 0, known |-> {},
         fair |-> TRUE, idx |-> 0]

Init ==
  /\ log = <<>> /\ db = Empty
  /\ proc = [p \in Procs |-> Idle]
  /\ crashes = 0 /\ folded = {} /\ tangled = FALSE

\* A command; when the bound on the log is reached nobody starts one.
Start(p, calls) ==
  /\ proc[p] = Idle /\ Len(log) < MaxLog
  /\ proc' = [proc EXCEPT ![p].calls = calls]
  /\ UNCHANGED <<log, db, crashes, folded, tangled>>

\* WorkStore.create, from `shiroe plan`.  It asks for nothing; here a graph is
\* planned while it is unknown, as planning it again is in Supervisor.tla.
create(p, g) ==
  db.graphs[g] = "none" /\ Start(p, <<Call("create", g, "draft")>>)

\* WorkStore.set_graph_status raises KeyError for an unknown graph; the
\* supervisor sets a graph it starts to running.
set_graph_status(p, g) ==
  db.graphs[g] = "draft" /\ Start(p, <<Call("graph", g, "running")>>)

\* refresh_readiness: an approval node follows its latest request.  Decided on
\* the row, then written without a check; requests and decisions are Policy.tla's.
refresh_readiness(p, n) ==
  /\ n \in ApprovalNodes /\ db.nodes[n] # NoNode
  /\ \E st \in NodeStatuses \ {db.nodes[n].status} : Start(p, <<Call("step", n, st)>>)

\* ready_node_ids finds the node pending, and its predecessors done; the row is
\* read again later, and its status is not looked at any more.
Snapshot(n) == db.nodes[n].status = "pending"

\* _record_attempt, the adapter, and what follows.  A further try of the retry
\* loop is another run of the node.
run(p, n) ==
  /\ n \in Tasks /\ Snapshot(n)
  /\ \E rest \in {Finish(n), GiveUp(n)} :
       Start(p, <<Call("attempt", n, "running")>> \o rest)

\* A task node without `requires` is completed, and nothing is recorded.
complete(p, n) ==
  /\ n \in Nodes \ (Executable \cup ApprovalNodes) /\ Snapshot(n)
  /\ Start(p, <<Checked("step", n, "completed", 0)>>)

\* An approval node waits for its decision, and a gate that is not passed
\* blocks a task node.
block(p, n) ==
  /\ Snapshot(n)
  /\ Start(p, <<Checked("step", n, "blocked", 0)>>)

\* _unblock_task_nodes; get_node reads status and version at once.
unblock(p, n) ==
  /\ n \notin ApprovalNodes /\ db.nodes[n].status = "blocked"
  /\ proc[p] = Idle /\ Len(log) < MaxLog
  /\ proc' = [proc EXCEPT ![p].calls = <<Checked("step", n, "pending", 0)>>,
                          ![p].at = "read", ![p].ver = db.nodes[n].version]
  /\ UNCHANGED <<log, db, crashes, folded, tangled>>

\* Mutant: an update is written whatever version the row has.
PassesAlways(row, expected) == row # NoNode

\* set_node_status and record_output: KeyError or ConcurrentWorkUpdate unless
\* the row has the version the caller expects.
Passes(row, expected) == row # NoNode /\ row.version = expected

Calling(p) == proc[p].calls # <<>> /\ proc[p].at = "call"

\* The version is read once, with the row before a gate's set_node_status and
\* by node_state_version before record_output.
node_state_version(p) ==
  LET c == Head(proc[p].calls) IN
  /\ Calling(p) /\ c.checked /\ c.ahead = 0
  /\ proc' = [proc EXCEPT ![p].at = "read", ![p].ver = db.nodes[c.key].version]
  /\ UNCHANGED <<log, db, crashes, folded, tangled>>

\* An error ends the run of the node.
set_node_status(p) ==
  LET c == Head(proc[p].calls) IN
  /\ proc[p].at = "read" \/ (Calling(p) /\ c.checked /\ c.ahead > 0)
  /\ proc' = IF Passes(db.nodes[c.key], proc[p].ver + c.ahead)
             THEN [proc EXCEPT ![p].at = "passed", ![p].known = folded,
                               ![p].fair = ~tangled]
             ELSE [proc EXCEPT ![p] = Idle]
  /\ UNCHANGED <<log, db, crashes, folded, tangled>>

EventOf(c, s) ==
  [do |-> c.do, key |-> c.key, val |-> c.val,
   saw |-> IF c.checked THEN s.ver + c.ahead ELSE -1,
   known |-> s.known, fair |-> s.fair]

\* EventLog.append.
AppendEvent(p) ==
  /\ \/ proc[p].at = "passed"
     \/ Calling(p) /\ ~Head(proc[p].calls).checked
  /\ Len(log) < MaxLog
  /\ log' = Append(log, EventOf(Head(proc[p].calls), proc[p]))
  /\ proc' = [proc EXCEPT ![p].at = "emitted", ![p].idx = Len(log) + 1,
                          ![p].known = {}, ![p].fair = TRUE]
  /\ UNCHANGED <<db, crashes, folded, tangled>>

\* Mutant: the rebuild takes its lock only to commit.
UnlockedAlways == TRUE

\* SQLite admits one writer: a rebuild keeps the others out until it commits.
Unlocked == \A q \in Procs : proc[q].at # "rebuild"

Tangles(i) ==
  \/ \E j \in folded : j > i /\ Conflict(log[i], log[j])
  \/ i \in folded /\ log[i].do \notin {"graph", "attempt"}

Done(s) == IF Len(s.calls) = 1 THEN Idle
           ELSE [s EXCEPT !.calls = Tail(@), !.at = "call", !.idx = 0,
                          !.ver = IF s.calls[1].do = "output" THEN @ ELSE 0]

\* projections.apply_event and commit.
apply_event(p) ==
  LET i == proc[p].idx IN
  /\ proc[p].at = "emitted" /\ Unlocked
  /\ db' = _apply_work(db, log[i])
  /\ folded' = folded \cup {i}
  /\ tangled' = (tangled \/ Tangles(i))
  /\ proc' = [proc EXCEPT ![p] = Done(proc[p])]
  /\ UNCHANGED <<log, crashes>>

\* replay_into: the DELETEs open SQLite's write transaction and the log is
\* read to its end; events appended after that are not seen.
replay_into(p) ==
  /\ proc[p] = Idle /\ Unlocked
  /\ proc' = [proc EXCEPT ![p].at = "rebuild", ![p].idx = Len(log)]
  /\ UNCHANGED <<log, db, crashes, folded, tangled>>

CommitRebuild(p) ==
  /\ proc[p].at = "rebuild"
  /\ db' = Replay(1..proc[p].idx)
  /\ folded' = 1..proc[p].idx
  /\ tangled' = FALSE
  /\ proc' = [proc EXCEPT ![p] = Idle]
  /\ UNCHANGED <<log, crashes>>

\* A kill, the lock of the log timing out before the append (the command ends,
\* or the retry loop starts over with another `run`), or SQLite's lock timing
\* out before the fold: an appended event is never folded by its writer; a
\* rebuild that had not committed is rolled back.
Crash(p) ==
  /\ proc[p] # Idle /\ crashes < MaxCrashes
  /\ crashes' = crashes + 1
  /\ proc' = [proc EXCEPT ![p] = Idle]
  /\ UNCHANGED <<log, db, folded, tangled>>

Next == \E p \in Procs :
  \/ \E g \in Graphs : create(p, g) \/ set_graph_status(p, g)
  \/ \E n \in Nodes : \/ refresh_readiness(p, n) \/ run(p, n) \/ complete(p, n)
                       \/ block(p, n) \/ unblock(p, n)
  \/ node_state_version(p) \/ set_node_status(p) \/ AppendEvent(p) \/ apply_event(p)
  \/ replay_into(p) \/ CommitRebuild(p) \/ Crash(p)

Spec == Init /\ [][Next]_vars
-----------------------------------------------------------------------------
(* Properties.                                                               *)

\* Type correctness of the log, the tables and the writers.
TypeOK ==
  /\ log \in Seq(Event) /\ Len(log) <= MaxLog
  /\ db \in Tables
  /\ \A p \in Procs : /\ proc[p].at \in {"call", "read", "passed", "emitted",
                                         "rebuild"}
                      /\ proc[p].ver \in Nat /\ proc[p].idx \in 0..Len(log)
  /\ crashes \in 0..MaxCrashes
  /\ folded \subseteq 1..Len(log) /\ tangled \in BOOLEAN

\* The tables are what replaying the folded events in log order gives, however
\* the folds of several processes were ordered: events about different rows
\* commute, statuses and attempts may be folded twice, and only two folds of
\* events about one row in the wrong order, or a second fold of an event that
\* counts versions, make the live path and replay_into disagree.
TablesMatchFolded == ~tangled => db = Replay(folded)

InFlight(i) == \E p \in Procs : proc[p].at = "emitted" /\ proc[p].idx = i

\* Between an event and the tables stands only its writer or a kill: with no
\* kill so far, every event is folded or about to be.
NothingLost ==
  crashes = 0 => \A i \in 1..Len(log) : i \in folded \/ InFlight(i)

IsUpdate(e, n) == e.do \in {"step", "output"} /\ e.key = n
Creations(known, n) ==
  {i \in known : log[i].do = "create" /\ n \in PlanOf[log[i].key]}

\* Checking expected_version keeps updates of a node apart: an update that
\* passes the check of set_node_status or record_output expects a version above
\* that of every earlier checked update the tables had folded by then, unless
\* a new plan took the node over in between.
VersionsGrow ==
  \A n \in Nodes : \A j \in 1..Len(log) : \A i \in log[j].known :
    /\ IsUpdate(log[i], n) /\ IsUpdate(log[j], n)
    /\ log[i].saw >= 0 /\ log[j].saw >= 0 /\ log[i].fair /\ log[j].fair
    /\ Creations(log[i].known, n) = Creations(log[j].known, n)
    => log[i].saw < log[j].saw

\* record_output "runs before the status flips to completed": a node that has
\* something to invoke is not completed without an output, unless plans of two
\* graphs name the node.  (Approval nodes are completed by their approval and
\* nodes without `requires` by the supervisor alone; they have no output.)
CompletedHasOutput ==
  \A n \in Tasks :
    db.nodes[n].status = "completed" /\ ~tangled
    /\ Cardinality(Creations(1..Len(log), n)) <= 1
      => db.nodes[n].output

\* The tables as a replay, the events behind them, versions and outputs,
\* between the steps of the processes (WorkStore, EventLog.replay_into).
ProjectionInv ==
  TypeOK /\ TablesMatchFolded /\ NothingLost /\ VersionsGrow
    /\ CompletedHasOutput
=============================================================================
