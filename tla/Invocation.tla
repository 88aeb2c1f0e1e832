----------------------------- MODULE Invocation -----------------------------
(***************************************************************************)
(* From the source on disk to the process that runs it: inspection         *)
(* (shiroe/capabilities/inspection.py), the draft manifest                 *)
(* (capabilities/manifest.py), the gate (capabilities/gate.py) and the     *)
(* adapter that starts the command (adapters/capabilities/cli.py).         *)
(*                                                                         *)
(* The digest of a source is made by listing its files and reading them    *)
(* one by one; the adapter reads them again when it starts the command.    *)
(* Somebody may change a file between any two of these steps.  A digest is *)
(* recorded after a look at the row, and other processes may come between; *)
(* an approval is written at once here: the steps of set_lifecycle, and    *)
(* kills, are those of Capability.                                         *)
(***************************************************************************)
EXTENDS Naturals, FiniteSetsExt

CONSTANTS Parts,       \* the files of the source, read in the order 1..N
          Listed,      \* those with a suffix of _TEXT_EXTENSIONS
          Texts,       \* what a file may hold
          Runners,     \* processes that register, or gate and run
          MaxChanges   \* bound: changes of files

ASSUME PartsAssumption ==
  /\ IsFiniteSet(Parts) /\ Parts = 1..Cardinality(Parts) /\ 1 \in Parts
  /\ Listed \subseteq Parts /\ Texts # {} /\ "gone" \notin Texts

Entry == 1             \* the file the command names
Gone == "gone"

VARIABLES shape,    \* "file": a script; "dir": a directory with a manifest
          disk,     \* file -> what it holds, or Gone
          reg,      \* the registry's row
          runner,   \* per process: where it is and what it has read
          ran,      \* history: the last execution since a change, as a set
          cleared,  \* history: digests that were approved
          changes

ivars == <<shape, disk, reg, runner, ran, cleared, changes>>

NoEntry == [lifecycle |-> "none", digest |-> <<>>]
AtEase == [stage |-> "idle", todo |-> {}, read |-> <<>>, expected |-> <<>>,
           late |-> {}, other |-> FALSE]

InvInit ==
  /\ shape \in {"file", "dir"}
  /\ disk = [f \in Parts |-> CHOOSE t \in Texts : TRUE]
  /\ reg = NoEntry
  /\ runner = [p \in Runners |-> AtEase]
  /\ ran = {} /\ cleared = {} /\ changes = 0

Executable == reg.lifecycle = "approved"
Exists == shape = "dir" \/ disk[Entry] # Gone
-----------------------------------------------------------------------------
(* inspect_source: the digest stands for the names and contents read.        *)

\* A single file is digested whatever its suffix.
_iter_text_files ==
  {f \in IF shape = "file" THEN {Entry} ELSE Listed : disk[f] # Gone}

\* One more file is read; one that is gone by now is passed over.
_digest_directory(p) ==
  /\ runner[p].stage \in {"register", "gate"} /\ runner[p].todo # {}
  /\ LET f == Min(runner[p].todo)
     IN runner' = [runner EXCEPT
          ![p].todo = @ \ {f},
          ![p].read = IF disk[f] = Gone THEN @
                      ELSE [g \in DOMAIN @ \cup {f} |->
                              IF g = f THEN disk[f] ELSE runner[p].read[g]]]
  /\ UNCHANGED <<shape, disk, reg, ran, cleared, changes>>
-----------------------------------------------------------------------------
(* Registration.                                                             *)

\* infer_manifest gives a command to a file it can see, which for the relative
\* path of onboard depends on the working directory; validate_manifest turns
\* down a manifest without one.  A directory brings a manifest of its own.
HasCommand(inRoot) == shape = "dir" \/ (inRoot /\ disk[Entry] # Gone)

inspect_source(p) ==
  /\ runner[p].stage = "idle" /\ Exists
  /\ runner' = [runner EXCEPT ![p] = [AtEase EXCEPT
                  !.stage = "register", !.todo = _iter_text_files]]
  /\ UNCHANGED <<shape, disk, reg, ran, cleared, changes>>

\* onboard and register_discovery after the inspection look at the row.  The
\* digest of an unknown capability is recorded, and by refresh_digest one that
\* is not the row's.
Register(p, inRoot) ==
  /\ runner[p].stage = "register" /\ runner[p].todo = {}
  /\ runner' = IF HasCommand(inRoot) /\ (reg = NoEntry \/ reg.digest # runner[p].read)
               THEN [runner EXCEPT ![p].stage = "record"]
               ELSE [runner EXCEPT ![p] = AtEase]
  /\ UNCHANGED <<shape, disk, reg, ran, cleared, changes>>

\* The event is appended and the row updated, whatever it is by now.  Here
\* "quarantined" stands for every lifecycle that is not executable.
RecordDigest(p) ==
  /\ runner[p].stage \in {"record", "drift"}
  /\ reg' = [lifecycle |-> "quarantined", digest |-> runner[p].read]
  /\ runner' = IF runner[p].stage = "drift"
               THEN [runner EXCEPT ![p].stage = "look"]
               ELSE [runner EXCEPT ![p] = AtEase]
  /\ UNCHANGED <<shape, disk, ran, cleared, changes>>

\* The lock of the log times out, and the command ends.
AppendFails(p) ==
  /\ runner[p].stage \in {"record", "drift"}
  /\ runner' = [runner EXCEPT ![p] = AtEase]
  /\ UNCHANGED <<shape, disk, reg, ran, cleared, changes>>

\* A human approves what the row says.
Approve ==
  /\ reg.lifecycle = "quarantined"
  /\ reg' = [reg EXCEPT !.lifecycle = "approved"]
  /\ cleared' = cleared \cup {reg.digest}
  /\ UNCHANGED <<shape, disk, runner, ran, changes>>
-----------------------------------------------------------------------------
(* Gate and adapter.                                                         *)

assert_executable(p) ==
  /\ runner[p].stage = "idle" /\ Executable /\ Exists
  /\ runner' = [runner EXCEPT ![p] = [AtEase EXCEPT
                  !.stage = "gate", !.todo = _iter_text_files,
                  !.expected = reg.digest]]
  /\ UNCHANGED <<shape, disk, reg, ran, cleared, changes>>

\* _resolve_source: a digest that is not the one expected is recorded, unless
\* refresh_digest finds it in the row.
_resolve_source(p) ==
  /\ runner[p].stage = "gate" /\ runner[p].todo = {}
  /\ runner' = [runner EXCEPT
       ![p].stage = IF runner[p].read \in {runner[p].expected, reg.digest}
                    THEN "look" ELSE "drift"]
  /\ UNCHANGED <<shape, disk, reg, ran, cleared, changes>>

\* Mutant: the row is not read again after the digest was recorded.
AdmitByFirstLook(p) ==
  /\ runner[p].stage = "look"
  /\ runner' = [runner EXCEPT ![p].stage = "admitted"]
  /\ UNCHANGED <<shape, disk, reg, ran, cleared, changes>>

\* The second look at the row asks for its lifecycle.  History: the source was
\* not the one expected, and the row is not about what was read.
SecondLook(p) ==
  /\ runner[p].stage = "look"
  /\ runner' = IF Executable
               THEN [runner EXCEPT
                      ![p].stage = "admitted",
                      ![p].other = runner[p].read \notin {runner[p].expected, reg.digest}]
               ELSE [runner EXCEPT ![p] = AtEase]
  /\ UNCHANGED <<shape, disk, reg, ran, cleared, changes>>

\* CLIAdapter.invoke: the manifest is read and policy asked; a verdict other
\* than allow, or a command that is not there, is a result that is not ok.
invoke(p, allowed) ==
  /\ runner[p].stage = "admitted"
  /\ runner' = IF allowed /\ disk[Entry] # Gone
               THEN [runner EXCEPT ![p].stage = "start"]
               ELSE [runner EXCEPT ![p] = AtEase]
  /\ UNCHANGED <<shape, disk, reg, ran, cleared, changes>>

\* subprocess.run; what it runs is what the files hold now.
Execute(p) ==
  /\ runner[p].stage = "start"
  /\ ran' = IF disk[Entry] = Gone THEN ran
            ELSE {[files |-> disk, read |-> runner[p].read,
                   late |-> runner[p].late, other |-> runner[p].other]}
  /\ runner' = [runner EXCEPT ![p] = AtEase]
  /\ UNCHANGED <<shape, disk, reg, cleared, changes>>

\* A change is late for a process that will not read the file any more.
Change(f, t) ==
  /\ changes < MaxChanges /\ disk[f] # t
  /\ changes' = changes + 1
  /\ disk' = [disk EXCEPT ![f] = t]
  /\ runner' = [p \in Runners |->
       IF runner[p].stage \in {"gate", "drift", "look", "admitted", "start"}
            /\ f \notin runner[p].todo
       THEN [runner[p] EXCEPT !.late = @ \cup {f}] ELSE runner[p]]
  /\ ran' = {}
  /\ UNCHANGED <<shape, reg, cleared>>

InvNext ==
  \/ \E p \in Runners :
       \/ inspect_source(p) \/ _digest_directory(p) \/ assert_executable(p)
       \/ \E inRoot \in BOOLEAN : Register(p, inRoot)
       \/ RecordDigest(p) \/ AppendFails(p)
       \/ _resolve_source(p) \/ SecondLook(p) \/ Execute(p)
       \/ \E allowed \in BOOLEAN : invoke(p, allowed)
  \/ Approve
  \/ \E f \in Parts, t \in Texts \cup {Gone} : Change(f, t)

InvSpec == InvInit /\ [][InvNext]_ivars
-----------------------------------------------------------------------------
Covered == IF shape = "file" THEN {Entry} ELSE Listed

\* What is executed was approved: its digest, and every file the digest covers
\* is, as it is run, the file of that digest, or it was changed after the gate
\* had read it.  One digest that was not approved gets through: the source had
\* drifted, and another process put a third digest into the row that a human
\* approved before the second look, which does not compare.  Files without a
\* listed suffix are covered in a script only (assert_executable,
\* _digest_directory, CLIAdapter.invoke).
RunsWhatWasApproved ==
  \A r \in ran :
    /\ r.read \in cleared \/ r.other
    /\ \A f \in Covered \ r.late :
         r.files[f] = IF f \in DOMAIN r.read THEN r.read[f] ELSE Gone
=============================================================================
