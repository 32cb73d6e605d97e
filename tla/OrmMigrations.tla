---------------------------- MODULE OrmMigrations ----------------------------
(***************************************************************************)
(* Migrations of packages/orm: processes that start on one database run    *)
(* those that have no row in the migration table, in the order of their    *)
(* dates, each in a transaction or without one; the data functions follow. *)
(* A process may die between any two queries and be started again.         *)
(***************************************************************************)
EXTENDS Naturals, FiniteSets

CONSTANTS
    Apps,        \* processes
    Last,        \* migrations are 1..Last, in the order of their dates
    Nobody,      \* no process
    MaxStarts    \* bound: starts of all processes together

Migrations == 1..Last

ASSUME MigrationAssumption ==
    /\ Nobody \notin Apps
    /\ {Last, MaxStarts} \subseteq Nat

VARIABLES
    Mode,       \* Migration.Transaction.Mode: None or PerMigration
    holds,      \* the driver's transaction() holds its queries together
    tableThere, \* the migration table exists
    recorded,   \* the migrations with a row in it
    applied,    \* applied[m]: how often the changes of up() are in the schema
    writer,     \* the process whose transaction has written
    at,         \* at[p]: what process p does next
    downward,   \* downward[p]: it runs migrateDown
    current,    \* current[p]: the migration it is at
    executed,   \* executed[p]: executedMigrations of this start
    starts,     \* starts so far
    undone      \* history: migrateDown was called

migrationVars == <<Mode, holds, tableThere, recorded, applied, writer, at, downward,
                   current, executed, starts, undone>>

MigrationInit ==
    /\ Mode \in {"None", "PerMigration"} /\ holds \in BOOLEAN
    /\ tableThere = FALSE /\ recorded = {} /\ writer = Nobody
    /\ applied = [m \in Migrations |-> 0]
    /\ at = [p \in Apps |-> "stopped"]
    /\ downward = [p \in Apps |-> FALSE]
    /\ current = [p \in Apps |-> 1]
    /\ executed = [p \in Apps |-> {}]
    /\ starts = 0 /\ undone = FALSE

(* transaction() of sqlite and mssql.  That of mysql begins a transaction   *)
(* on a connection of its own and runs the queries on others, where each is *)
(* committed at once, so that its migrations run as without a transaction.  *)
Atomic == Mode = "PerMigration" /\ holds
IsAt(p, s) == at[p] = s
MoveTo(p, s) == at' = [at EXCEPT ![p] = s]
database == <<Mode, holds, tableThere, recorded, applied, writer>>

process == <<downward, executed, starts, undone>>

(* To the next migration, or past the last one.                             *)
NextMigration(p) ==
    LET m == IF downward[p] THEN current[p] - 1 ELSE current[p] + 1
    IN  IF m \in Migrations
          THEN MoveTo(p, "check") /\ current' = [current EXCEPT ![p] = m]
          ELSE MoveTo(p, IF downward[p] THEN "stopped" ELSE "data") /\ UNCHANGED current

(* migrateUp, with which Orm.resolve() begins, or migrateDown.              *)
StartMigrating(p, down) ==
    /\ IsAt(p, "stopped")
    /\ starts < MaxStarts
    /\ starts' = starts + 1
    /\ MoveTo(p, "check")
    /\ downward' = [downward EXCEPT ![p] = down]
    /\ current' = [current EXCEPT ![p] = IF down THEN Last ELSE 1]
    /\ executed' = [executed EXCEPT ![p] = {}]
    /\ undone' = (undone \/ down)
    /\ UNCHANGED database

(* schema().tableExists                                                     *)
CheckTable(p) ==
    /\ IsAt(p, "check")
    /\ MoveTo(p, IF tableThere THEN "select" ELSE "create")
    /\ UNCHANGED <<database, process, current>>

(* createTable fails if another process has created it meanwhile.           *)
CreateTable(p) ==
    /\ IsAt(p, "create")
    /\ tableThere' = TRUE
    /\ MoveTo(p, IF tableThere THEN "stopped" ELSE "select")
    /\ UNCHANGED <<Mode, holds, recorded, applied, writer, process, current>>

(* The rows a select finds: not those of a transaction under way.           *)
Committed ==
    IF writer # Nobody /\ at[writer] = "commit" THEN recorded \ {current[writer]} ELSE recorded

(* The row of the migration is looked up, and without one it is run, by     *)
(* migrateDown as well as by migrateUp.                                     *)
SelectRow(p) ==
    /\ IsAt(p, "select")
    /\ IF current[p] \in Committed
         THEN NextMigration(p)
         ELSE MoveTo(p, "run") /\ UNCHANGED current
    /\ UNCHANGED <<database, process>>

CanWrite(p) == writer \in {Nobody, p}
Locks(p) == writer' = IF Atomic THEN p ELSE writer

(* up(), within its transaction the only writer.                            *)
Up(p) ==
    /\ IsAt(p, "run") /\ ~downward[p]
    /\ CanWrite(p) /\ Locks(p)
    /\ applied' = [applied EXCEPT ![current[p]] = @ + 1]
    /\ MoveTo(p, "record")
    /\ UNCHANGED <<Mode, holds, tableThere, recorded, process, current>>

(* up() or down() throws, without a transaction perhaps half way.           *)
UpFails(p) ==
    /\ IsAt(p, "run")
    /\ \/ UNCHANGED applied
       \/ ~Atomic /\ ~downward[p] /\ applied' = [applied EXCEPT ![current[p]] = @ + 1]
    /\ MoveTo(p, "stopped")
    /\ UNCHANGED <<Mode, holds, tableThere, recorded, writer, process, current>>

(* The row is inserted; its name is unique.                                 *)
Record(p) ==
    /\ IsAt(p, "record")
    /\ current[p] \notin recorded
    /\ recorded' = recorded \cup {current[p]}
    /\ executed' = [executed EXCEPT ![p] = @ \cup {current[p]}]
    /\ IF Atomic THEN MoveTo(p, "commit") /\ UNCHANGED current ELSE NextMigration(p)
    /\ UNCHANGED <<Mode, holds, tableThere, applied, writer, downward, starts, undone>>

CommitMigration(p) ==
    /\ IsAt(p, "commit")
    /\ writer' = Nobody
    /\ NextMigration(p)
    /\ UNCHANGED <<Mode, holds, tableThere, recorded, applied, process>>

(* Mutant: a transaction is committed whose callback has failed.            *)
CommitAnyway(p) ==
    /\ writer' = IF writer = p THEN Nobody ELSE writer
    /\ UNCHANGED <<applied, recorded>>

(* The transaction of p, if it has written, is rolled back.                 *)
RollBack(p) ==
    IF writer = p
      THEN /\ applied' = [applied EXCEPT ![current[p]] = @ - 1]
           /\ recorded' = IF IsAt(p, "commit") THEN recorded \ {current[p]} ELSE recorded
           /\ writer' = Nobody
      ELSE UNCHANGED <<applied, recorded, writer>>

(* The insert or the commit is refused, for one because another process has *)
(* recorded the migration: rolled back if there is a transaction.           *)
RecordFails(p) ==
    /\ at[p] \in {"record", "commit"}
    /\ RollBack(p)
    /\ MoveTo(p, "stopped")
    /\ UNCHANGED <<Mode, holds, tableThere, process, current>>

(* down() and the deletion of the row, in one step under a transaction.     *)
RunDown(p) ==
    /\ IsAt(p, "run") /\ downward[p]
    /\ CanWrite(p)
    /\ applied' = [applied EXCEPT ![current[p]] = 0]
    /\ IF Atomic
         THEN recorded' = recorded \ {current[p]} /\ NextMigration(p)
         ELSE MoveTo(p, "delete") /\ UNCHANGED <<recorded, current>>
    /\ UNCHANGED <<Mode, holds, tableThere, writer, process>>

DeleteRow(p) ==
    /\ IsAt(p, "delete")
    /\ recorded' = recorded \ {current[p]}
    /\ NextMigration(p)
    /\ UNCHANGED <<Mode, holds, tableThere, applied, writer, process>>

(* The data functions of what this start has executed, then it is ready.    *)
Data(p) ==
    /\ IsAt(p, "data")
    /\ MoveTo(p, "ready")
    /\ UNCHANGED <<database, process, current>>

(* The process dies, or is stopped.                                         *)
Dies(p) ==
    /\ ~IsAt(p, "stopped")
    /\ RollBack(p)
    /\ MoveTo(p, "stopped")
    /\ UNCHANGED <<Mode, holds, tableThere, process, current>>

MigrationNext ==
    \E p \in Apps :
        \/ \E down \in BOOLEAN : StartMigrating(p, down)
        \/ CheckTable(p) \/ CreateTable(p) \/ SelectRow(p)
        \/ Up(p) \/ UpFails(p) \/ Record(p) \/ CommitMigration(p) \/ RecordFails(p)
        \/ RunDown(p) \/ DeleteRow(p) \/ Data(p) \/ Dies(p)

MigrationSpec == MigrationInit /\ [][MigrationNext]_migrationVars
-----------------------------------------------------------------------------
(* With a transaction per migration that the driver makes hold, a migration *)
(* is in the schema exactly once if it is recorded and not at all if it is  *)
(* not, whatever processes start, fail and die together; without, and on    *)
(* mysql always, nothing is recorded that was not applied.  The transaction *)
(* under way is the only exception.                                         *)
RecordMatchesSchema ==
    \A m \in Migrations :
        writer = Nobody \/ current[writer] # m =>
            IF Atomic THEN applied[m] = (IF m \in recorded THEN 1 ELSE 0)
            ELSE ~undone /\ m \in recorded => applied[m] > 0

(* OrmMigration.down: "undo changes made in up": it is run for migrations   *)
(* that were applied.                                                       *)
DownUndoes ==
    [][\A p \in Apps : RunDown(p) => applied[current[p]] > 0]_migrationVars
==============================================================================
