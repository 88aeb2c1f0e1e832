----------------------------- MODULE Migrations -----------------------------
(***************************************************************************)
(* The schema migration runner (shiroe/migrations/__init__.py) applying    *)
(* the one migration there is, the destructive m0100_current.py, to a      *)
(* database that several processes open at once.                           *)
(*                                                                         *)
(* The module says `with conn:` around `up`, but executescript commits     *)
(* first and every DDL statement after it commits by itself, so each       *)
(* statement is a step that other processes see and that a kill keeps.     *)
(***************************************************************************)
EXTENDS Naturals, FiniteSets

CONSTANTS Openers,      \* processes that open the store
          Legacy,       \* tables of earlier versions that m0100 drops
          Tables,       \* how many tables m0100 creates where they lack
          Columns,      \* how many columns m0100 adds to the first of them
          MaxSecond,    \* bound: seconds of the clock in backup names
          MaxKills      \* bound: killed processes

ASSUME LegacyAssumption ==
  Legacy # {} /\ IsFiniteSet(Legacy) /\ "none" \notin Legacy
ASSUME ColumnsAssumption == Columns \in Nat /\ MaxSecond \in Nat /\ MaxKills \in Nat
ASSUME TablesAssumption == Tables \in Nat \ {0}

VARIABLES db,        \* tables: the current ones that exist; columns of the
                     \* first; legacy tables left; row: schema_version holds 100
          old,       \* was there a database before
          clash,     \* a copy was written over an earlier one
          backups,   \* second in the name -> legacy tables in the copy
          mig,       \* per process: stage and what it decided
          second, kills

mvars == <<db, old, clash, backups, mig, second, kills>>

NoBackup == {"none"}    \* no file of that name
Fresh == [tables |-> {}, columns |-> {}, legacy |-> {}, row |-> FALSE]
Earlier == [tables |-> {1}, columns |-> {}, legacy |-> Legacy, row |-> FALSE]
Rest == [stage |-> "idle", backup |-> FALSE, table |-> 1, column |-> 1]

MigInit ==
  /\ db \in {Fresh, Earlier}
  /\ old = (db = Earlier)
  /\ clash = FALSE
  /\ backups = [t \in 0..MaxSecond |-> NoBackup]
  /\ mig = [p \in Openers |-> Rest]
  /\ second = 0 /\ kills = 0

\* _has_preexisting_state and _applied: whether the migration is pending and
\* whether a copy has to be made before it.
Inspect(p) ==
  /\ mig[p].stage = "idle"
  /\ mig' = [mig EXCEPT ![p] =
               IF db.row THEN [Rest EXCEPT !.stage = "done"]
               ELSE [Rest EXCEPT !.stage = "backup",
                                 !.backup = db.tables # {} \/ db.legacy # {}]]
  /\ UNCHANGED <<db, old, clash, backups, second, kills>>

\* Mutant: a copy is only made of a database with a version row.
BackupVersioned(p) ==
  /\ mig[p].stage = "backup"
  /\ mig' = [mig EXCEPT ![p].stage = "create"]
  /\ UNCHANGED <<db, old, clash, backups, second, kills>>

\* _backup_database: the name is the current second, and an existing file of
\* that name is overwritten.
_backup_database(p) ==
  /\ mig[p].stage = "backup"
  /\ backups' = IF mig[p].backup
                THEN [backups EXCEPT ![second] = db.legacy] ELSE backups
  /\ clash' = (clash \/ (mig[p].backup /\ backups[second] # NoBackup))
  /\ mig' = [mig EXCEPT ![p].stage = "create"]
  /\ UNCHANGED <<db, old, second, kills>>

\* executescript: the next CREATE TABLE IF NOT EXISTS, which commits by itself.
\* The first table, where it is created here, has the added columns.
CreateTable(p) ==
  LET t == mig[p].table
  IN  /\ mig[p].stage = "create"
      /\ db' = [db EXCEPT !.tables = @ \cup {t},
                          !.columns = IF t = 1 /\ t \notin db.tables
                                      THEN 1..Columns ELSE @]
      /\ mig' = [mig EXCEPT ![p] =
                   IF t = Tables THEN [@ EXCEPT !.stage = "columns"]
                   ELSE [@ EXCEPT !.table = t + 1]]
      /\ UNCHANGED <<old, clash, backups, second, kills>>

\* Mutant: the loop over the columns goes one too far.
ReadColumnsPast(p) ==
  /\ mig[p].stage = "columns"
  /\ mig' = [mig EXCEPT ![p] =
               IF @.column > Columns + 1 THEN [@ EXCEPT !.stage = "drop"]
               ELSE IF @.column \in db.columns
               THEN [@ EXCEPT !.column = mig[p].column + 1]
               ELSE [@ EXCEPT !.stage = "alter"]]
  /\ UNCHANGED <<db, old, clash, backups, second, kills>>

\* _ensure_column, one column after the other: the table is read ...
ReadColumns(p) ==
  /\ mig[p].stage = "columns"
  /\ mig' = [mig EXCEPT ![p] =
               IF @.column > Columns THEN [@ EXCEPT !.stage = "drop"]
               ELSE IF @.column \in db.columns
               THEN [@ EXCEPT !.column = mig[p].column + 1]
               ELSE [@ EXCEPT !.stage = "alter"]]
  /\ UNCHANGED <<db, old, clash, backups, second, kills>>

\* ... and then altered, which raises when another process has added the
\* column in between.
AddColumn(p) ==
  LET c == mig[p].column
  IN  /\ mig[p].stage = "alter"
      /\ \/ /\ c \in db.columns
            /\ mig' = [mig EXCEPT ![p].stage = "raised"]
            /\ UNCHANGED db
         \/ /\ c \notin db.columns
            /\ db' = [db EXCEPT !.columns = @ \cup {c}]
            /\ mig' = [mig EXCEPT ![p].stage = "columns", ![p].column = c + 1]
      /\ UNCHANGED <<old, clash, backups, second, kills>>

\* The next DROP TABLE IF EXISTS.
DropTable(p) ==
  /\ mig[p].stage = "drop"
  /\ \E t \in db.legacy : db' = [db EXCEPT !.legacy = @ \ {t}]
  /\ UNCHANGED <<old, clash, backups, mig, second, kills>>

\* Mutant: the version row is written before the legacy tables are gone.
RecordEarly(p) ==
  /\ mig[p].stage = "drop"
  /\ mig' = [mig EXCEPT ![p].stage = "done"]
  /\ db' = [db EXCEPT !.row = TRUE]
  /\ UNCHANGED <<old, clash, backups, second, kills>>

\* INSERT INTO schema_version and commit; the number is the primary key, so
\* the second process raises.
Record(p) ==
  /\ mig[p].stage = "drop"
  /\ db.legacy = {}
  /\ mig' = [mig EXCEPT ![p].stage = IF db.row THEN "raised" ELSE "done"]
  /\ db' = [db EXCEPT !.row = TRUE]
  /\ UNCHANGED <<old, clash, backups, second, kills>>

KillOpener(p) ==
  /\ kills < MaxKills
  /\ mig[p].stage \notin {"idle", "done", "raised"}
  /\ kills' = kills + 1
  /\ mig' = [mig EXCEPT ![p] = Rest]
  /\ UNCHANGED <<db, old, clash, backups, second>>

Tick ==
  /\ second < MaxSecond
  /\ second' = second + 1
  /\ UNCHANGED <<db, old, clash, backups, mig, kills>>

\* A process that raised tries again with its next command.
Retry(p) ==
  /\ mig[p].stage = "raised"
  /\ mig' = [mig EXCEPT ![p] = Rest]
  /\ UNCHANGED <<db, old, clash, backups, second, kills>>

migrate(p) ==
  \/ Inspect(p) \/ _backup_database(p) \/ CreateTable(p) \/ ReadColumns(p)
  \/ AddColumn(p) \/ DropTable(p) \/ Record(p)

MigNext ==
  \/ \E p \in Openers : migrate(p) \/ KillOpener(p) \/ Retry(p)
  \/ Tick

\* A process that has started migrating keeps running unless it is killed.
MigFairness == \A p \in Openers : WF_mvars(migrate(p))

MigSpec == MigInit /\ [][MigNext]_mvars /\ MigFairness
-----------------------------------------------------------------------------
\* The database, the copies and the processes are well formed.
MigTypeOK ==
  /\ db \in [tables : SUBSET (1..Tables), columns : SUBSET (1..Columns),
             legacy : SUBSET Legacy, row : BOOLEAN]
  /\ backups \in [0..MaxSecond -> (SUBSET Legacy) \cup {NoBackup}]
  /\ \A p \in Openers :
       /\ mig[p].stage \in {"idle", "backup", "create", "columns", "alter",
                            "drop", "done", "raised"}
       /\ mig[p].table \in 1..Tables /\ mig[p].column \in 1..(Columns + 1)

\* A database that records version 100 is complete: no kill, failed ALTER or
\* second migrator leaves the row standing for half a migration.
RecordedIsComplete ==
  db.row => /\ db.tables = 1..Tables /\ db.columns = 1..Columns
            /\ db.legacy = {}

\* Every legacy table that was dropped is in some copy, whoever dropped it
\* and however often the migration was started again, as long as no copy was
\* written over another one of the same second.
DroppedIsBackedUp ==
  old /\ ~clash => \A t \in Legacy \ db.legacy :
                     \E s \in 0..MaxSecond : t \in backups[s]

\* Without kills, a migration that some process starts is recorded in the
\* end, though another process may make this one raise.
SomeoneFinishes ==
  (\E p \in Openers : mig[p].stage = "backup") ~> (db.row \/ kills > 0)
\* What the version row promises and what the copies keep (migrate, up,
\* _backup_database).
MigrationInv == MigTypeOK /\ RecordedIsComplete /\ DroppedIsBackedUp
=============================================================================
