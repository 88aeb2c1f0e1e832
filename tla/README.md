# Shiroe: a TLA+ verification project

Shiroe is a local control plane for agent work. It keeps a canonical history of
events, projects it into SQLite, and executes graphs of work nodes under human
approval, policy, capability gates and a budget. This directory holds TLA+
models of its core, the TLC runs that check them on small instances, and TLAPS
proofs of the main properties for every instance. Paths below are relative to
the repository root (`shiroe/...`, `tests/...`, `docs/...`).

## 1. The system

| component | code | state it keeps | operations | hard behaviours |
|---|---|---|---|---|
| Event log | `shiroe/storage/events.py`, `shiroe/lock.py` | `events.jsonl` per month, `head.json`, `memory/.lock`, the mirror table `memory_events` | `append`, `verify_chain`, `replay_into`, head reconciliation | several processes, crash between two writes, lock files without owner, unlocked readers |
| Work store | `shiroe/work/store.py`, `work/readiness.py` | `work_graphs`, `work_nodes` (status, `state_version`), `work_edges` | `create`, `set_graph_status`, `set_node_status`, `record_output`, `refresh_readiness`, `ready_node_ids` | optimistic versions, re-planning under a running supervisor |
| Supervisor | `shiroe/execution/supervisor.py`, `execution/budget.py` | `work_attempts`; in memory: snapshot, attempt counter, budget | `run`, `resume` | crash and resume, retries, approvals decided or revoked meanwhile |
| Approvals | `shiroe/policy/approval_service.py` | `approval_requests` | `request`, `decide_human`, `assert_current`, `find_latest_matching` | decisions at any time, scope drift, timestamps of one second |
| Projections | `shiroe/storage/projections.py`, `storage/records.py` | every table derived from the log | `apply_event`, rebuild | applied outside the lock, racing rebuilds |
| Capabilities | `shiroe/capabilities/`, `shiroe/adapters/capabilities/cli.py` | `capabilities`, `capability_versions`, sources on disk | discovery, inspection, lifecycle, gate, digest drift, execution | sources change between check and use, two-commit approval, limits of the walk |
| Policy | `shiroe/policy/`, `shiroe/security/policy.py` | policy files, `PRIVACY.md`, `SHARING_POLICY.md` | `resolve`, `evaluate`, `authorize`, `require_network`, `require_connector` | precedence of layers, files edited while read, duplicate requests |
| Remote nodes | `shiroe/nodes/`, `shiroe/transport/` | `nodes`, `node_leases`, packages at the worker | register, trust, lease, dispatch, worker | lease expiry against a slow worker, lost connections, two clocks |
| Memory | `shiroe/memory/service.py`, `verification/engine.py`, `storage/records.py` | `memory_records` | `write`, `supersede`, `archive`, search | contradiction check before the write, scrubbing, late folds |
| Handoff | `shiroe/handoff/compiler.py`, `audit/logger.py` | exported files, audit log | `compile_handoff` | same-second names, creation of the audit file, kills |
| Routing | `shiroe/routing/`, `core/reasoning.py`, `adapters/providers/` | registry file, per-process cache | `classify`, `route`, `refresh_provider` | stale cache, read-network-write, non-monotone rules |
| Compiler | `shiroe/work/compiler.py`, `work/schema.py` | the stack and marks of its search | `compile_work_graph` | cycle search |
| Bundles | `shiroe/transfer/bundle.py` | tar, destination, backup | create, extract | kills between renames, source written meanwhile |
| Migrations | `shiroe/migrations/` | schema, `schema_version`, backups | `migrate` | statements that commit by themselves, two openers |
| Others | privacy, views, reports, CLI, harness adapters | | | see `PROJECT.json`, "components" |

Interaction: every store appends to the event log through an `EventLog` object
of its own and then applies the sealed envelope to SQLite through
`projections.apply_event`; the supervisor reads the work store and the
approvals, asks the capability gate and the policy service, calls an adapter or
the node dispatcher, and writes back through the work store. Processes share
only the files: the CLI starts one process per command.

What makes the parts correct, in one line each: the log is one append-only hash
chain and never loses what `append` reported; the supervisor executes a node only
after its predecessors, under an approval a human gave, within its attempts and
its budget, and always returns; a projection equals a replay of the log; a
capability only runs while approved for the content it has; a denial is final
and an always-approval action has its approval; a work node has one live lease
and what leases and log say of it is true; two active memory records do not
contradict each other; what leaves in a handoff may leave; describing a task as
worse never routes it lower; an extraction never loses the last copy; a recorded
migration is complete.

`PROJECT.json` lists the hazards (what could go wrong that a test hardly
reaches), each at its line, with the property that covers it or the reason why
none does yet.

## 2. Modules

`ChainOps` (hash-chain operators) is used by `HashChain`, the abstract
specification, and by `EventLog`, which implements it (`INSTANCE HashChain WITH log
<- log`). `Handoff` extends `Memory` and `Routing` extends `Criticality`: each
composes two components. `Supervisor`, `Capability`, `Projection`, `Remote`,
`Policy`, `Compiler`, `Bundle`, `Migrations`, `Discovery` and `Invocation` stand
alone. A module `MC...` gives TLC its instance: `MCEventLog`, `MCSupervisor`,
`MCCapability`, `MCProjection` and `MCRemote`. Three more put components that share
no state into one run, of which a behaviour runs one (`focus`): `MCPolicy`
(`Policy`, and `EventLog` on a host that crashes), `MCRouting` (`Criticality` and
`Routing`, and `Handoff`) and `MCTools` (six components). Eight modules hold the
proofs: `EventLogProofs` (`EventLog`, `Migrations`), `SupervisorProofs`
(`Supervisor`, `Compiler`), `CapabilityProofs` (`Capability`, `Discovery`),
`ProjectionProofs`, `RemoteProofs` (`Remote`, `Bundle`), `PolicyProofs` (`Policy`,
`Invocation`), `RoutingProofs` (`Criticality`, `Routing`) and `HandoffProofs`
(`Memory`, `Handoff`). An operator whose comment begins with "Mutant:" or "A ...
that" is a plausible wrong version of the definition after it; the mutants under
"mutants" in `PROJECT.json` show that each property notices one.

### EventLog

A writer is an open `EventLog` object, and `append()` is one step per effect on
the disk, because another process or a crash may come between any two:

| code | state |
|---|---|
| `events.jsonl` | `log`, a sequence of `[hash, prev]` |
| `head.json` | `head` (`NoHead` if missing) |
| `memory/.lock` | `lockfile` |
| `memory_events` | `mirror`, a set of hashes |
| where a writer is in `append()` | `pc[w]` |
| `EventLog._recovered`, the locals `head` and `env["hash"]` | `recovered[w]`, `base[w]`, `sealed[w]` |
| the caller has got the envelope | `acked` |
| a `state verify`/`state rebuild` process | `walk`, `verdict` |

Actions in the order of the code: `CallAppend` (scrub), `Acquire` or
`LockTimeout`, `LoadHead` or `RefuseHead` (`_load_head`, `_recover_head`),
`RejectEnvelope` (`validate_envelope`) or `AppendRecord`, `WriteHead`,
`MirrorRow`, `Return`; each error path releases the lock as the `with` statement
does. The reader takes no lock: `VerifyWalk` and `VerifyHead` are the two reads
of `verify_chain`, `ReplayMirror` the mirror part of `replay_into`. Faults:
`HostCrash` (all objects gone), `ProcessDeath` (one object gone, its lock file
stays), `IOFailure` (an exception between two effects; the object stays open).
`RemoveStaleLock` is the operator deleting the lock of a dead process; no code
does that.

Abstractions: SHA-256 over a body with a fresh id is injective, so a hash is a
fresh number, and the i-th envelope gets hash i. The payload is not modelled.
The month files are one sequence (file order is append order as long as the clock
does not step back over a month), and a line is written whole.

`HashChain` is the promise of ADR-0001: the only thing that happens to the
history is that a fresh envelope, sealed on the tail, is added.

### Supervisor

One supervisor (`shiroe run`), humans and a planner over the tables. Every commit
of the supervisor is a step, and so is every read another process can invalidate
before it is used.

| code | state |
|---|---|
| `work_graphs.status`, `work_nodes.status`, `.state_version`, `metadata.scope` | `graph`, `status`, `version`, `scope` |
| `work_attempts` of a node | `attempts[n]`, the sequence of their states |
| latest row of `approval_requests` for a node | `approval[n]` |
| `for node_id in ready` / loops over nodes | `todo` |
| `node_id`, `node.metadata["scope"]`, `attempts_done`, `expected_version` | `cur`, `curScope`, `done`, `seen` |
| the status the run will leave, `BudgetTracker.usd_spent` | `closing`, `spent` |
| history: adapter calls, scopes a human approved | `invoked`, `granted` |

`Begin`, `Unblock`, `StartRunning`, `Refresh`, `Snapshot` are the entry of
`run()` and its pass loop; `Pick` reads a node and tries the gates in the order
of the code (approval kind, `approval_required`, no `requires`, budget);
`EnsureRequest`/`Block` pause; `GateRefuses`, `RecordAttempt`, `Invoke`,
`AdapterFails`/`AdapterRaises`/`AdapterSucceeds`, `ReadVersion`, `RecordOutput`,
`Review`, `Complete` are the retry loop; `Exhausted`, `Fail`, `Close` the ends.
`LoseRace` is `ConcurrentWorkUpdate`. The `except` clause of the retry loop also
catches `LockError`, a `RuntimeError`: a commit inside the loop that cannot get the
lock of the log sends the node round again (`CommitTimesOut`), and one between
`charge()` and the end of the attempt does so with the cost already booked
(`ChargeAndTimeOut`); in both cases the adapter is invoked again and nobody asks
`would_exceed`. `Decide` is `decide_human`, `Plan` is
`WorkStore.create` on an existing id, `Crash` a kill between any two commits.

Abstractions: capability gate, policy, adapters and reviewers answer
nondeterministically. Node and graph statuses that no code path writes
(`ready`, `running`, `skipped`, ...) are left out. A usage is its cost. The
`require_approval` branch of the retry loop (`supervisor.py:179-185`) is not
modelled because it cannot be reached: `resolve` answers allow or deny, and
`capability_invoke` in policy-bound mode is never downgraded to an approval.

### Capability

One capability, the source it was made from, the processes that work on it, and
the log its tables can be rebuilt from.

| code | state |
|---|---|
| the directory or file `inspect_source` digests | `source` (`Nothing` when removed) |
| how the capability entered (`onboard` or `register_discovery`) | `origin` |
| its row in `capabilities`, its rows in `approval_requests` | `db.row`, `db.reqs` |
| what `replay_into` would build from the log | `image`, `logged` |
| the calls a process still has to make, and how far it is in the first one | `proc[p].calls`, `.stage` |
| its locals: digest inspected, row read, envelope, decision | `proc[p].seen`, `.snap`, `.env`, `.req`, `.verdict` |
| history: contents let through, digests approved, a lost event, a digest changed by a rebuild | `granted`, `cleared`, `lost`, `swapped` |

`onboard`, `register_discovery`, `approve`, `revoke`, `set_lifecycle`,
`assert_executable` and `decide_human` start an operation: a list of calls. A
call that writes is three steps as in the code: `ReadRow` (with the early
returns and errors of `set_lifecycle` and `refresh_digest`), `Emit` (the event is
in the log) and `Commit` (the row, the reducers, the commit). `Lookup` and
`ConsiderStep` are the branches on the row between calls, `Look`,
`_resolve_source`, `Admit`, `Refuse` the gate. `replay_into` is `state rebuild`,
`Crash` a kill between any two steps, `Edit` a change or removal of the source.
`apply_event` is the one interpreter both the commit and the replay use, so
`image` is advanced with it at every `Emit`.

Abstractions: a digest stands for the content. Two of the four decision outcomes
(`revise`, `deferred`) do to a capability what `rejected` does and are left out.
A request id is the position of its event in the log. `onboard` and
`register_discovery` derive different ids for one source, so `origin` is fixed.
An operation starts only if `MaxLog` has room for all its events. The manifest,
the adapter's configuration and `capability_versions` are not modelled; whether
the adapter is usable is a choice (`Admit` or `Refuse`).

### Projection

The tables `work_graphs`, `work_nodes` and `work_attempts` (`db`), the events
(`log`) and the processes between them. A command is a list of calls
(`create`, `set_graph_status`, `refresh_readiness`, `run`, `complete`, `block`,
`unblock`); a call is the look at the row (`node_state_version`), the check of `expected_version`
(`set_node_status`), the append (`AppendEvent`) and the fold with its commit
(`apply_event`), and other processes, a rebuild (`replay_into`, `CommitRebuild`)
or a kill come between. The reducers `_apply_run_created`, `_apply_run_status`,
`_apply_step` and `_apply_attempt` are the ones of `projections.py`, shared by the
live path and by `Replay`. `folded` and `tangled` record which events the tables
have and whether two were folded in the wrong order. `run` is a task node with
`requires`: attempt, output and completion (`Finish`) or failure (`GiveUp`);
`complete` is one without, which records no output; `block` and `unblock` are the
pauses and their end; `refresh_readiness` writes the four statuses an approval node
may get and leaves task nodes alone. SQLite's write lock is
`Unlocked`. Node ids have one namespace for all graphs, as in the schema.

### Remote

`nodes` and `leases` are the two tables, `jobs` what became of the package of each
lease at the worker, `ctl` a process inside `NodeDispatcher.invoke`. Each SQLite
transaction, each append and each exchange with the worker is a step:
`expire_active_leases`, `acquire_lease` with the unique index (`Clashes`),
`make_work_package`, `execute_remote_package`, at the worker
`validate_work_package`, `worker_run_package` and `ExecutionReceipt`, back at the
controller `_parse_receipt`, then `_terminal_lease`, `UpdateLease`, `EmitOutcome`
for `complete_lease` or `fail_lease`, with the `except` clause of `invoke`. The
faults are a kill of a controller, a refused append (`AcquireNotLogged`,
`OutcomeNotLogged`) and a lost connection, after which the worker goes on. The
worker's clock may differ. The shipped executor always reports "not ok"; the
model lets it report either (`Outcomes`). `release_lease` has no caller.

### Memory and Handoff

`Memory`: a proposal is its subject and polarity, what the text rules find in it
and its privacy label. `write` verifies it against the rows it lists
(`_check_contradictions`), refuses it with an event of its own (`LogRejection`)
or appends it scrubbed (`write_record`); `ApplyAndCommit` folds the event.
`supersede_record`, `archive_record` and `Rebuild` run in other processes.
`Handoff` adds exporters: list and filter (`compile_handoff`,
`_filter_exportable_records`), the audit entry for `include_private`
(`LookForAudit`, `CreateAudit`, `AppendAudit`, as `AuditLogger.ensure` and
`append` do it), the name by target and second, and the two files under the lock
(`WriteMarkdown`, `WriteJson`), with kills in between.

### Policy

The four policy files (`files`, whole, torn or missing), the table of requests
and callers inside `authorize`. `load_policy_stack`, `resolve`, `autonomy_gate`
and `evaluate` are operators with the code's names; `require_network` and
`require_connector` add `PRIVACY.md`, `SHARING_POLICY.md` and the environment.
`authorize` reads the files, `Consult` looks for the matching request, `request`
makes one; `Edit` and `decide_human` are people. `requested_at` has a resolution
of one second, so `find_latest_matching` may answer with either of two requests.

### Criticality and Routing

`classify` is the list of rules of `criticality.py` as three sets of triggers; the
state machine of `Criticality` changes one signal at a time. `Routing` has the
registry file, the cache each process fills on its first call (`get_provider`),
`classify_and_route` and `route` with the checks of the gateway, `route` called
directly with a criticality of the caller's own (`RouteStated`), and the
refresh in its three parts (`ReadRegistry`, `_list_model_ids`, `ApplyRefresh`
and `WriteRegistry`), with edits, changes of the provider's list and kills. A call
whose placement keeps it on this machine is refused before the registry is read
(`gateway.py:165`): it changes no state, so it is a stuttering step.

### Compiler, Bundle, Migrations, Discovery, Invocation

`Compiler`: `Parse` checks nodes and edges as the types of `schema.py` do;
`NextRoot`, `Descend` and `PopFrame` are the loop of `_reject_cycles` with its
stack of iterators; `Build` makes the graph.
`Bundle`: `ListSource` lists, `_source_entries` hashes, `AddFile` reads again; an
extractor verifies (`Verified`), then `MoveAside`, `Swap`, `Sweep`, or `HandleError`
with `RestoreBackup` and `DiscardBackup`. A call of the swap may fail (`FailCall`),
and so may each call of the handler (`FailHandler`), which leaves it at once.
`Migrations`: `Inspect`, `_backup_database`, then each statement of `up` that
commits by itself (`CreateTable`, `ReadColumns`/`AddColumn`, `DropTable`) and
`Record`; a process that meets an error of SQLite has `raised` and may retry.
`Discovery`: `VisitDir` and `LookAtFile` are the two levels of the walk, in any
order the file system may list; limits end a root; a file may be gone at the first
look (its size) or at the second (its first bytes).
`Invocation`: `_digest_directory` reads one file at a step; `_resolve_source`
compares, `RecordDigest` (or `AppendFails`) is the rest of `refresh_digest`,
`SecondLook` the second reading of the row; `invoke` and `Execute` follow while
files change and other processes register. A decision is one step here; its own
two commits are `Capability`'s.

## 3. Runs

| run | instance | shows |
|---|---|---|
| `event_log_faults` | 2 writers, 3 envelopes, 2 faults, with process deaths and I/O errors, fair writers | what survives: mutual exclusion, at most one fork per fault, head at most one behind, durability of acknowledged envelopes, meaning of a passed verify, every `append` returns |
| `supervisor_chain` | approval node -> gated task -> reviewed task, 4 runs, 1 crash, cap 2, costs 0 or 3 | order of execution, meaning of "completed", no lost compare-and-swap, overshoot of the budget by at most the attempts of one node, finality of task nodes, `run()` returns |
| `supervisor_replan` | gated task -> task, 3 runs, 1 crash, planned again once with either of 2 scopes | attempts stay bounded, the approval gate holds |
| `capability_one` | 1 process at a time, 2 digests, 8 events, 3 edits of the source, 2 kills, every operation | the gate lets only approved content through and snaps drift back, the tables are what a replay builds, the lifecycle moves along its transitions also across kills and rebuilds |
| `capability_two` | 2 processes at once, 2 digests, 6 events, 1 edit, every operation but `register_discovery` | nothing runs before an approval is in the log; what two processes can do to the registry that one cannot, they do by committing over a row they have not seen, or by a rebuild |
| `projection` | 2 processes; 2 graphs that share a node to invoke, 4 events, or 5 without a kill when it is planned once; or a graph with an approval node or a node without `requires`, 3 events; 1 kill | the tables are the replay of what was folded unless two folds about one row were swapped; nothing is lost without a kill; checked versions grow; a completed node that has something to invoke has its output |
| `remote` | 2 controllers, 1 work node, 1 worker a second behind, leases of one second, 2 leases, 1 fault, both outcomes | two workers on one work node only after expiry or a lost controller; completed means executed; no leaked lease; the log is true of the leases; a refusal has a live lease as its reason; `invoke` comes back |
| `policy_and_log`, policy | 2 callers, 4 files with 2 contents, 2 edits, 2 requests, 2 decisions, 3 modes | denials are final while their file can be read, always-approval actions are approved, higher layers decide, egress is bounded, one request per action |
| `policy_and_log`, log | 2 writers, 3 envelopes, 2 machine crashes | the log stays one chain (`ChainIntact`) and implements `HashChain` |
| `routing_and_handoff`, routing | all signals of a task one change at a time; 1 gateway process, a flagged task and calls of every stated criticality, 2 refreshes, 1 edit, 1 change of the list, 1 kill | criticality never falls when a signal gets worse; classes are paid for; closed models stay closed; live calls use what the file vouches for or a stale cache |
| `routing_and_handoff`, handoff | 1 writer, 2 exporters, 2 targets, 3 kinds of claims, 2 seconds, 1 kill | what is exported may be, private exports are audited, the two files are one handoff |
| `tools`, compiler | every graph over 4 nodes, every one over 3 with an edge twice, malformed nodes, edges and plans | exactly the acyclic well-formed plans compile; the search is a walk and ends |
| `tools`, bundle | 2 files, 2 extractors, 2 writes, 2 failing calls, 1 kill | what is installed is what the manifest says; without a kill a tree is at the destination, or in the backup of a handler that failed; the last copy survives |
| `tools`, migrations | 2 openers, 2 tables, 2 legacy tables, 2 columns, 1 kill | a recorded migration is complete, what was dropped is in a copy, somebody finishes |
| `tools`, memory | 2 processes, 5 proposals, 2 records, 3 events, 1 fault | log classes cover claims, contradictions and revivals have the named causes only |
| `tools`, discovery | 2 roots with ignored, deep and too many files, every configuration | discovery reports exactly what is eligible within the limits |
| `tools`, invocation | a script or a directory of 3 files of which 2 are digested, 2 processes, 2 changes | what runs was approved, up to files changed after the gate read them and the case of `gate.py:72` in section 4 |

Where a component has several properties that belong together, the run names
their conjunction, defined at the end of the module; each part has its comment,
and before the definitions it depends on, a wrong version that breaks it.

| checked as | module | parts |
|---|---|---|
| `CompletionInv` | `Supervisor` | `PredecessorsFirst`, `CompletedMeansAll` |
| `GateSafe` | `Capability` | `GrantedWasCleared`, `DriftSnapsBack` |
| `LeaseInv` | `Remote` | `TypeOK`, `CompletedWasExecuted`, `NoLeakedLease`, `LoggedOutcomeIsTrue` |
| `LeaseSteps` | `Remote` | `SettledLeasesStable`, `RefusalIsJust`, `StartsUnderLease` |
| `ProjectionInv` | `Projection` | `TypeOK`, `TablesMatchFolded`, `NothingLost`, `VersionsGrow`, `CompletedHasOutput` |
| `HandoffInv` | `Handoff` | `TypeOK`, `ExportsCleared`, `PrivateExportAudited`, `PairIsOneExport` |
| `VerdictInv` | `Policy` | `PolicyTypeOK`, `DeniedStaysDenied`, `GrantHasApproval`, `HigherLayerDecides`, `EgressBounded`, `OneRequestPerAction` |
| `RoutingInv` | `Routing` | `RoutingTypeOK`, `EntitlementHeld` |
| `RegistrySteps` | `Routing` | `ClosedStaysClosed`, `LiveFromFileOrStaleCache` |
| `CompilerInv` | `Compiler` | `CompilerTypeOK`, `CycleVerdictExact`, `SearchIsAWalk`, `CompiledIsWellFormed` |
| `BundleInv` | `Bundle` | `BundleTypeOK`, `InstalledIsManifest`, `QuietMeansInstalled` |
| `MigrationInv` | `Migrations` | `MigTypeOK`, `RecordedIsComplete`, `DroppedIsBackedUp` |
| `MemoryInv` | `Memory` | `MemTypeOK`, `LogClassCoversClaim`, `ContradictionsExplained` |
| `ToolsFinish` | `MCTools` | `SearchEnds` (`Compiler`), `SomeoneFinishes` (`Migrations`) |
| `StoresKeep` | `MCTools` | `LastCopySurvives` (`Bundle`), `RetiredStaysRetired` (`Memory`) |

The types of `EventLog`, `Supervisor` and `Capability` are not checked by a run:
`TypeCorrect` of the first two and `TypesAlways` of the third prove them for every
instance.

Two runs expect a violation. `event_log_fork`: writer A is open and has
appended; B dies between append and head write; the operator deletes B's lock; A,
which reconciled its head long ago, seals on the stale head: a fork. `capability_race`
(2 processes, 1 digest): `onboard` has inserted the row and appended
`capability.quarantined`; `revoke` in another process commits; the UPDATE of the
onboarding then sets the revoked capability back to quarantined. The findings in
`PROJECT.json` quote what the repository says.

Bounds. Two writers are enough for every interference between writers, because the
lock lets one in at a time; three envelopes give a chain, a fork and an append after
the fork; two faults give a fault during the recovery from another. Four runs of the
chain are one per pause (approval node, gate, review) and one more; one crash falls
at every step of every run. Two scopes are "the same" and "another", and so are two
digests. Eight events are two onboardings, or an onboarding, its decision and a
drift with what follows; two kills give one during what a process does after
another. Six events let two processes onboard together and one of them approve,
revoke or record a drift between the steps of the other; kills are left to the proof
there, and `register_discovery` runs a part of the calls of `onboard`. In
`projection` five events are a plan and the attempt, output and completion of a task
node, with rebuilds of the other process in between; four are two plans of one node
with steps of both, or two processes stepping one node; three are a plan and two
moves of a node that has nothing to invoke (the constraint `OneNode` keeps to one
node per history: events about different nodes write different rows, which the proof
covers); where the log is full no new command starts, in `Memory` as well. Two
failing calls of `tools` are one in the swap and one in its handler. In `remote` two
leases of one work node are the expired one and its successor, and two ticks let the
first run out before or after the package does. For handoffs two exports are a pair
in one second or in two, and in one when there is a kill. For policy two edits put a
denial in place and tear it, or set two layers against each other, and two requests
are the duplicate. For routing two refreshes and one edit are enough for a stale
write. Four nodes give every shape of a cycle the marks could miss: one reached
twice, one off the first root, one behind a finished part. Symmetry is used only for
sets whose members no definition and no property names, and never with liveness.

`CHECK_DEADLOCK FALSE` is set where the system may stop: a graph nobody runs any
more, a used-up bound on events, requests or faults, a compiler or an extraction
that has returned. The event log never stops (a reader can always verify), and a
registry can always be rebuilt, so deadlock is checked
in `event_log_faults` and in the runs of `Capability`.

Fairness. `EventLog`: weak fairness of each running writer's steps. The lock wait
has a deadline, and nothing else in `append` blocks. Opening, calling, verifying,
failing and deleting locks are not fair. `Supervisor`: weak fairness of `Step`,
the supervisor's own next step; local adapters run under a timeout, the backoff
sleep is capped, the event lock has a deadline. One caveat: the dispatcher calls
`execute_remote_package` without a timeout, so for a remote node `RunReturns`
assumes that the SSH process ends. `Remote` therefore does not assume it: fair
are the controller's own steps, not the worker's and not the end of the
connection, and `SettlingReturns` speaks of a controller that has its answer.
`Compiler` is one function that runs until it returns. In `Migrations` each
process's own steps are fair; `SomeoneFinishes` excepts kills. Decisions, plans,
edits, ticks and faults are never fair.

## 4. Where code and statements part

Besides the findings of `event_log_fork` and `capability_race`, modelling met these.
They are behaviours the models have; the properties above are stated so that they
hold with them, and name them as exceptions where they are one.

* `storage/events.py:339`: `replay_into` starts with `verify_chain`, which refuses
  a log whose head lags after a crash, although ADR-0001 says that state is
  always rebuildable from the log; the next append repairs it. With no fault at
  all, a verify that overlaps an append reports a broken chain (`events.py:306`).
* `execution/supervisor.py:122`: an approval revoked after the node was picked does
  not stop the invocation or a retry (the comment at line 118: "without a current,
  in-scope human approval").
* `execution/supervisor.py:240`: a node whose review failed is executed again by
  the next run (the comment at line 238: "not retried").
* `execution/supervisor.py:249`: an exception out of the dispatcher leaves the
  attempt row "running" although the node failed. The same clause catches a
  `LockError` of the commits after `charge()` (lines 233, 235, 240, 241, 245): an
  adapter that has succeeded is invoked and charged again without `would_exceed`,
  so a run may exceed its cap by all attempts of a node.
* `policy/approval_service.py:187`: deciding the request made for an old digest
  approves the capability with its new one (`docs/GLOSSARY.md:10`: "bound to a
  deterministic scope digest").
* `capabilities/store.py:164`: with two processes, an approval committed over a
  drift that the other process has recorded meanwhile leaves an executable row with
  a digest nobody approved; the gate's last look (`gate.py:35`) reads the lifecycle
  again, not the digest (`Overwrites` in `Capability`).
* `capabilities/gate.py:72`: between `refresh_digest` and the second look at the row
  another process can record a third digest and a human approve that one; the look
  asks for the lifecycle only, and content nobody approved is admitted, although
  `assert_executable` raises "unless [...] its on-disk source still matches the
  stored digest" (`gate.py:18-19`; `other` in `Invocation`).
* `transfer/bundle.py:93`: when the swap fails and then `rmtree(tmp)` or the
  `os.replace` of the handler as well, `extract_artifact_bundle` raises with no
  destination; the tree is in a hidden backup (`left` in `Bundle`).
* `storage/projections.py:3-5`: live path and replay "can never drift apart"; two
  processes that fold events about one row in the other order make them differ
  (`tangled` in `Projection`).
* `audit/logger.py:57`: a process that found no audit file creates it empty over an
  entry that was appended meanwhile (`wiped` in `Handoff`).
* `policy/service.py:43`: the service never loads the global files, so a global
  denial is not final there (ADR-0005).
* `adapters/providers/base.py:62`: "a model resolves on a live call only if its
  lifecycle is active"; of the file as the process read it, not as it is
  (`stale` in `Routing`).
* `migrations/__init__.py:86`: "implicit transaction"; the statements commit one by
  one, and a copy of the same second is overwritten (`clash` in `Migrations`).

## 5. Proofs

TLAPS proves, for every value of the constants:

`EventLogProofs`, part 1, under every fault: `TypeCorrect`, `LockExcludes`,
`HeadNearTail`, `AckedDurable`. The inductive invariant `Inv`
adds to the types and mutual exclusion that the i-th envelope has hash i
(`Numbered`), what a writer inside `append` knows (`WriterKnows`: a loaded head
is the head, an appended envelope is the last one and was sealed on the head) and
that the head is the tail or what the tail was sealed on (`HeadKnows`). Without
`WriterKnows` the head invariant is not inductive: `WriteHead` and the failures
need to know what the writer did before.

Still under every fault, `PassIsSound` (`Spec => []PassMeansChained`) says that a
verify without the lock is worth something: `WalkKnows` keeps, over the steps of
all writers, that the envelopes the reader has walked are linked. `ForksNeedFaults`
(`Spec => []ForksBoundedByFaults`) bounds the forks by the faults for any number of
writers. The bound alone is not inductive; `ForkInv` counts a head that lags with
no writer on its way to repair it as a fork that has not happened yet, so that a
fault pays for it at once and the append that forks costs nothing more.

Part 2 assumes `HostOnly` (a crash takes every open log with it):
`CrashConsistency` (`Spec => []ChainIntact`) and `Refinement` (`Spec =>
ImplementsHashChain`). It adds that a writer that has reconciled and is in no
critical section finds the head at the tail; this is what a single process death
breaks (`event_log_fork`), so the assumption is needed.

`SupervisorProofs`, one invariant `Inv` in five parts:
* `AttemptInv`: every invocation has its row, there are at most `max_attempts` rows,
  and the counter of the retry loop is never behind the rows. Gives
  `AttemptBudget`.
* `GateInv`: an approved request is for a scope in `granted`, and so is the node
  being worked on. Gives `ApprovalGate`.
* `OnePlanInv` (as long as nobody plans again): the expected version is current
  (`NoRace`); the nodes left in the snapshot, and the current one, are pending and
  have their predecessors done, completed approval nodes were approved;
  the graph's status agrees with the nodes (both `Completion`).
* `SpendingKnown`, also over new plans: inside the retry loop a capped run has spent
  at most its cap and the tries that are over, each at the dearest usage. Gives
  `BudgetCap`; "one invocation" would not be true (section 4).
* `TypeOK`. `Finality` is an action property from the same invariant.

Its last section is about `Compiler`, for every set of plans: `CompilerAlways`
(`CompilerInv`). `CompilerInd` says that the stack is a path of the graph without
repetition, that an edge an iterator has given leads to a finished node or to the
next frame, that what is `visited` is closed under edges and can be put in an order
(each part of it has a node nothing in the part leads to), and what each verdict
means. From it, the search reports a cycle exactly when the nodes cannot be
scheduled.

`CapabilityProofs`, part 1: `GateAlways`, `Reproducible` and `Legal`,
each for every number of digests, events, edits and kills, under `OneProcess`
(`Procs` is a singleton: commands on one capability do not overlap, though each may
be killed at any step). The comment in `decide_human`
(`policy/approval_service.py:179-180`) makes the same assumption.

Part 2 does without it, for any number of processes: `TypesAlways`,
`NeedApprovalAlways` (`RunsNeedApproval`) and `OverwritesOnly`
(`OnlyOverwritesHarm`). What a process has read of the row may be out of date, so
`MInv` relates a process only to what it read itself (`Local`: a transition that is
about to be written is allowed from the row read, and an approval's digest is in
the log before its commit) and to the approvals, which only grow; `Settled` says of
every row, committed, replayed or read, that it is not in a state fit to run before
there is one. That `LastSeen` is still the row is what turns the first into a
transition of the table; `capability_race` shows what happens when it is not.

Part 3 is about `Discovery`: `DiscoveryAlways` (`DiscoveryExact`), for every set of
finite trees, every limit and every order of the walk. `WaitingInv` says that the
directories that wait are clean ones of the tree and that none lies under another,
so that no file is looked at twice; `CountInv` that the counters are the number and
the total size of the files looked at; `SoFarInv` that what is eligible and under no
directory that waits is reported, or was gone. When nothing waits that is the whole
root. `WayThere` follows a path of any depth through its directories, and
`TotalGrows` says that a part of a set of files weighs no more than the set, which
is why a root that was cut off is oversized.

`ProjectionProofs`: `ProjectionAlways` (`ProjectionInv`) for any processes, graphs
that may share nodes, and log length. The reducers are described row by row; events
about different rows commute (`Commute`), and folding a status or an attempt twice
is folding it once (`Idempotent`). `FoldIn` is the central lemma: a late or
repeated fold of an event that tangles with none of those folded since ends in the
tables the log's order gives. `PrefixReplay` says that an append does not change the
replay of what came before. The inductive invariant says of the log what a checked
update had seen and that the completion of a node with something to invoke comes
after its output, of the tables that
they are the replay of the folded events unless `tangled`, of each process what
call it is in, which checks it has passed and which event is its own, and that a
rebuild under way has everything folded before its position.

`RemoteProofs`: `LeasesTellTheTruth` (`LeaseInv`), `OverlapsAreExplained`
(`OverlapExplained`) and `LeasesBehave` (`LeaseSteps`, with its parts
`EndedLeasesStay` and `WorkStartsUnderItsLease` as theorems of their own), for any
number of controllers, work nodes, workers, leases and faults and any clocks. The
invariant adds what a controller in each stage of `invoke` knows about its lease
(`OwnersKnow`), that no lease has two owners, that a running job has somebody
waiting for it or was cut off, and that a later lease of a work node means that
the earlier ones are over. `LeasesBehave` has the hypothesis `TTL > 0`, which only
`RefusalIsJust` needs: nothing in `acquire_lease` refuses a `ttl_s` of 0, and a
lease of no length has run out in the second it is stored, yet still blocks a
controller that swept just before. `timeout_s` is what the node's metadata says, or
60 (`supervisor.py:194`).
The last section is about `Bundle`: `BundlesAlways` (`BundleInv`) and
`LastCopyStays`, for any files, extractors, failing calls and kills. The property
is not inductive because a backup is deleted while others swap: `DeletersAreSafe`
says that whoever deletes one leaves a copy that nobody is about to delete, and
`SomeoneRestores` who will bring a missing destination back, or whose handler
failed in trying.

`PolicyProofs`: `VerdictsAlways` (`VerdictInv`), for any actions, policy files,
callers and autonomy modes. The precedence is proved as lemmas about `resolve`
(`ResolveAllows`, `ResolveByHigher`); the invariant adds that a whole file holds
what was last intended, that no caller waits for an approval of something denied to
it, and that a caller about to insert a request still has none to find unless it was
overtaken (`blind`). Then `Invocation`: `InvocationAlways` (`RunsWhatWasApproved`),
from `ApprovalsKnown` (whoever is past the gate holds an approved digest, or one
that drifted while the row is about another, approved one) and `ReadsCurrent` (what
the gate has read is on the disk, but for late changes).

`RoutingProofs`: `FailsUpward` (`FailUpward`): `classify` is monotone in all
signals, shown by writing out when a rule forces each level. `EntitlementAlways`
(`RoutingInv`) and `RegistryKept` (`RegistrySteps`) for any number of processes,
refreshes, edits and kills and any shipped registry; `ReadingsCurrent` says that a
refresh nobody overtook holds the file as it is.

`HandoffProofs`: `MemoryAlways` (`MemoryInv`) and `RetiredRecordsStay`
(`RetiredStaysRetired`) of `Memory`, `HandoffsAlways` (`HandoffInv`) and
`MemoryHoldsUnderHandoffs` of the two together, for any proposals, callers,
exporters and any number of records. `Reflects` ties the table to the folded
events, for the table and for every prefix a rebuild replays; `Compared` says what
a proposal was checked against, which is what makes a contradiction explainable
later. For the exports the invariant says that what was collected may leave and is
noted in the audit log, or was there before the log was emptied (`wiped`), and that
the process between the two files holds the lock.

`EventLogProofs`, part 3, is about `Migrations`: `MigrationsAlways`
(`MigrationInv`), for any tables, columns, legacy tables, openers and kills. It adds
to the types how far each process is (`Progress`) and that a copy is made before
the first drop (`CopiedFirst`).

Recursive functions (`Replay` of `Projection`, the fold of `Rebuild` in `Memory`,
the sum of sizes in `Discovery`) are reached without an induction schema: `Least`
says that a set of numbers that is not empty has a least element, and a proof looks
at the first place where its claim would fail.

Assumptions: the named `ASSUME`s of the modules, and the three hypotheses stated
above, `HostOnly`, `OneProcess` and `TTL > 0`. The `ASSUME`s say what the
constants are: numbers for bounds, sets that are finite where the code holds
them in lists, a graph over its own nodes with at least one attempt per node,
tasks, registries, plans and proposals with the fields the code gives them, a
bundle and a database with at least one file or table in them, finite trees whose
files lie in directories of the tree, and the names that stand for "nothing" outside
the sets of real ones. Acyclicity is not needed for the supervisor.
Each inductive invariant was checked by TLC on the runs' instances before it was proved.

`StoresKeep` of the run `tools` is proved as its two halves, `LastCopyStays` and
`RetiredRecordsStay`: one behaviour of `MCTools` runs one component.

Only model-checked: the liveness properties (`AppendReturns`, `RunReturns`,
`SettlingReturns`, `SearchEnds`, `SomeoneFinishes`), which are out of the prover's
reach. Every other property of a passing run is a theorem.

## 6. Plan

1. Several processes on one capability: that the lifecycle is repaired, or not, by
   the operation after an overwriting commit, and what a predicate on the UPDATE of
   `set_lifecycle` (`WHERE id=? AND lifecycle=?`) would give back of `GateAlways`.
2. The work-graph sections of a handoff, which read other tables at other moments.
3. Torn lines of the event log, and month files under a clock that steps back.

## 7. Not modelled

* Regular expressions and checksums over text (`privacy.py`): no state; what they
  find is an input of `Memory` and `Handoff`.
* Harness adapters and the transport's probing: calls of external programs, whose
  answers are inputs.
* CLI parsing and printing, generated views, reports, search ranking: rendering
  and reading without effect on the state.
* Scripts that check the repository's own documents.
* The sections of a handoff about the work graph: reads of other tables that may
  be of different moments.
* The month files of the log with a clock that steps back, and torn lines
  (`events.py:158`, `events.py:287`).
* `release_lease` and `narrower`, which have no caller.
