----------------------------- MODULE Migration ------------------------------
(* The schema is brought up to date at every start of the process             *)
(* (internal/pkg/database/migration/migration.go, cmd.go setupDatabase): the  *)
(* files are applied in the order of their names, those that are recorded in  *)
(* schema_migrations left out.                                                *)
(*   Oracle: every statement commits by itself.  One that is executed a second*)
(*   time fails, for it creates what exists or drops what does not; so the    *)
(*   statements of a file that have been executed are its first ran[f] ones.  *)
(*   Postgres: golang-migrate records a file as dirty, executes it as a whole *)
(*   and records it as clean; a dirty one makes the next start fail.          *)
EXTENDS Naturals

CONSTANTS NumFiles,
          NumStatements,  \* NumStatements[f]: statements of file f
          MaxFaults       \* bound: errors and crashes while the process starts

File == 1..NumFiles

ASSUME MigrationAssumption ==
    /\ NumFiles \in Nat /\ MaxFaults \in Nat
    /\ NumStatements \in [File -> Nat \ {0}]

VARIABLES
    driver,    \* DB_DRIVER: "oracle" or "postgres"
    boot,      \* where the start is: "down", "check", "apply" or "up"
    file, st,  \* the file and the statement it is at
    recorded,  \* versions in schema_migrations
    dirty,     \* Postgres: the version being applied is marked dirty
    ran,       \* ran[f]: how many statements of f the database has executed
    faults     \* how often the process has ended

schema == <<driver, recorded, dirty, ran>>
migVars == <<schema, boot, file, st, faults>>

MigInit ==
    /\ driver \in {"oracle", "postgres"}
    /\ boot = "down" /\ file = 1 /\ st = 1
    /\ recorded = {} /\ dirty = FALSE /\ ran = [f \in File |-> 0]
    /\ faults = 0

(* An error that Run returns, or a crash.                                     *)
Ends == boot' = "down" /\ file' = 1 /\ st' = 1

Start ==
    /\ boot = "down"
    /\ boot' = "check"
    /\ UNCHANGED <<schema, file, st, faults>>

(* Postgres does not go on with a database that is dirty.                     *)
Refuse ==
    /\ boot = "check" /\ dirty
    /\ Ends
    /\ UNCHANGED <<schema, faults>>

PassOver ==
    /\ boot = "check" /\ ~dirty /\ file \in recorded
    /\ file' = file + 1
    /\ UNCHANGED <<schema, boot, st, faults>>

(* Not the code: the version is recorded when its file is opened.             *)
Open_Records ==
    /\ boot = "check" /\ ~dirty /\ file \in File \ recorded
    /\ boot' = "apply"
    /\ recorded' = recorded \cup {file}
    /\ dirty' = (driver = "postgres")
    /\ UNCHANGED <<driver, ran, file, st, faults>>

(* Not the code: a file is applied whether or not it is recorded.             *)
Open_Again ==
    /\ boot = "check" /\ ~dirty /\ file \in File
    /\ boot' = "apply"
    /\ dirty' = (driver = "postgres")
    /\ UNCHANGED <<driver, recorded, ran, file, st, faults>>

Open ==
    /\ boot = "check" /\ ~dirty /\ file \in File \ recorded
    /\ boot' = "apply"
    /\ dirty' = (driver = "postgres")
    /\ UNCHANGED <<driver, recorded, ran, file, st, faults>>

Serve ==
    /\ boot = "check" /\ ~dirty /\ file \notin File
    /\ boot' = "up"
    /\ UNCHANGED <<schema, file, st, faults>>

(* Oracle executes the next statement, Postgres all of the file.              *)
Execute ==
    /\ boot = "apply" /\ st = ran[file] + 1 /\ st <= NumStatements[file]
    /\ ran' = [ran EXCEPT ![file] = IF driver = "oracle" THEN st ELSE NumStatements[file]]
    /\ st' = ran'[file] + 1
    /\ UNCHANGED <<driver, recorded, dirty, boot, file, faults>>

(* A statement that was executed before an earlier end of the process.        *)
Repeat ==
    /\ boot = "apply" /\ st <= ran[file]
    /\ Ends
    /\ UNCHANGED <<schema, faults>>

Record ==
    /\ boot = "apply" /\ st > NumStatements[file]
    /\ recorded' = recorded \cup {file} /\ dirty' = FALSE
    /\ boot' = "check" /\ file' = file + 1 /\ st' = 1
    /\ UNCHANGED <<driver, ran, faults>>

(* The process ends between any two steps: by a crash, an error of the        *)
(* database (whether or not the statement was executed) or a signal.          *)
Stop ==
    /\ boot # "down" /\ faults < MaxFaults
    /\ Ends
    /\ faults' = faults + 1
    /\ UNCHANGED schema

Migrate == Refuse \/ PassOver \/ Open \/ Serve \/ Execute \/ Repeat \/ Record
-----------------------------------------------------------------------------
MigTypeOK ==
    /\ driver \in {"oracle", "postgres"}
    /\ boot \in {"down", "check", "apply", "up"}
    /\ file \in 1..(NumFiles + 1) /\ st \in Nat \ {0}
    /\ boot = "apply" => file \in File
    /\ recorded \subseteq File /\ dirty \in BOOLEAN
    /\ ran \in [File -> Nat] /\ \A f \in File : ran[f] <= NumStatements[f]
    /\ faults \in 0..MaxFaults

(* schema_migrations tells the truth, wherever the process has ended and with *)
(* either database: a recorded file has been executed to its last statement,  *)
(* and before any file every earlier one (migration.go:71).                   *)
RecordedIsApplied ==
    \A f \in File :
        /\ f \in recorded => ran[f] = NumStatements[f]
        /\ ran[f] > 0 => \A g \in 1..(f - 1) : g \in recorded

(* What the next start does not get over: a file begun and not recorded.      *)
HalfApplied == dirty \/ \E f \in File : ran[f] > 0 /\ f \notin recorded
=============================================================================
