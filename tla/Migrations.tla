------------------------------ MODULE Migrations -------------------------------
(***************************************************************************)
(* migrate() of src/src/db/migrate.ts, run by any number of processes on   *)
(* one database: `npm run migrate`, and every server that boots in         *)
(* development.  Nothing but the database keeps them apart.  Each file is  *)
(* applied in a transaction of its own, which also records it; a runner    *)
(* may fail or die between any two statements, and be started again.       *)
(***************************************************************************)
EXTENDS Integers, FiniteSets

CONSTANTS
    Runners,      \* processes that run migrate()
    Files,        \* how many files there are in migrations/, in their order
    Statements,   \* file |-> how many statements it has
    Replaceable,  \* <<file, number>> of those that may be made twice
    Doubtful,     \* those that Postgres may refuse, whoever runs them and how often
    MaxFaults     \* bound on failing statements and dying processes

ASSUME FilesAreCounted == Files \in Nat
ASSUME FilesHaveStatements == Statements \in [1 .. Files -> Nat \ {0}]
ASSUME StatementsAreNumbered == Doubtful \cup Replaceable \subseteq (1 .. Files) \X Nat

VARIABLES
    tracking,   \* whether there is a table schema_migrations
    schema,     \* what committed statements have made: <<file, number>>
    recorded,   \* the files in schema_migrations
    at,         \* where each runner is
    file,       \* the file it is at; 0 before the first
    stmt,       \* how many of its statements it has run in this transaction
    faults,     \* faults so far
    refused     \* the statements that this Postgres refuses, now and for ever

migrationVars == <<tracking, schema, recorded, at, file, stmt, faults, refused>>
runner == <<at, file, stmt>>

\* The statements of a file.  What each makes cannot be made twice (CREATE TYPE,
\* CREATE TABLE, ADD CONSTRAINT, ...) but by those that are Replaceable (CREATE OR
\* REPLACE FUNCTION, 0001_init.sql:56).
Of(f) == {f} \X (1 .. Statements[f])
WholeSchema == UNION {Of(f) : f \in 1 .. Files}

InTransaction == {"applying", "recording", "committing"}
Running == {"tracking", "creating", "reading"} \cup InTransaction

\* What the open transaction of r has made.
Made(r) == IF at[r] \in InTransaction THEN {file[r]} \X (1 .. stmt[r]) ELSE {}

MigrationInit ==
    /\ tracking = FALSE
    /\ schema = {} /\ recorded = {}
    /\ at = [r \in Runners |-> "idle"]
    /\ file = [r \in Runners |-> 0]
    /\ stmt = [r \in Runners |-> 0]
    /\ faults = 0
    /\ refused \in SUBSET Doubtful

-----------------------------------------------------------------------------

\* A client of a pool of its own.  One that has been through stays so.
Start(r) ==
    /\ at[r] \in {"idle", "failed", "broken"}
    /\ at' = [at EXCEPT ![r] = "tracking"]
    /\ file' = [file EXCEPT ![r] = 0]
    /\ UNCHANGED <<refused, tracking, schema, recorded, stmt, faults>>

\* ROLLBACK where there is a transaction, and throw: "failed" if another runner has
\* been faster, "broken" if a statement has failed by itself.
Throw(r, how) ==
    /\ at' = [at EXCEPT ![r] = how]
    /\ stmt' = [stmt EXCEPT ![r] = 0]
    /\ UNCHANGED file

Fail(r) == Throw(r, "failed")

\* Mutant of ReadFiles: without the sort(), the last file may come first.
ReadUnsorted(r) ==
    /\ at' = [at EXCEPT ![r] = "reading"]
    /\ file' = [file EXCEPT ![r] = Files]
    /\ UNCHANGED stmt

\* readdirSync and sort().
ReadFiles(r) ==
    /\ at' = [at EXCEPT ![r] = "reading"]
    /\ file' = [file EXCEPT ![r] = 1]
    /\ UNCHANGED stmt

\* CREATE TABLE IF NOT EXISTS looks, and then creates: of two at once the second
\* waits for the first and then fails on the name.
LookForTracking(r) ==
    /\ at[r] = "tracking"
    /\ IF tracking THEN ReadFiles(r)
         ELSE at' = [at EXCEPT ![r] = "creating"] /\ UNCHANGED <<file, stmt>>
    /\ UNCHANGED <<refused, tracking, schema, recorded, faults>>

CreateTracking(r) ==
    /\ at[r] = "creating"
    /\ tracking' = TRUE
    /\ IF tracking THEN Fail(r) ELSE ReadFiles(r)
    /\ UNCHANGED <<refused, schema, recorded, faults>>

\* Mutant of ReadRecord: what is on record is not looked up.
ReadNothing(r) ==
    /\ at[r] = "reading"
    /\ at' = [at EXCEPT ![r] = IF file[r] > Files THEN "done" ELSE "applying"]
    /\ UNCHANGED <<refused, tracking, schema, recorded, file, stmt, faults>>

\* The next file is looked up; on record, it is skipped; otherwise BEGIN.
ReadRecord(r) ==
    /\ at[r] = "reading"
    /\ IF file[r] > Files
         THEN at' = [at EXCEPT ![r] = "done"] /\ UNCHANGED file
       ELSE IF file[r] \in recorded
         THEN file' = [file EXCEPT ![r] = @ + 1] /\ UNCHANGED at
       ELSE at' = [at EXCEPT ![r] = "applying"] /\ UNCHANGED file
    /\ UNCHANGED <<refused, tracking, schema, recorded, stmt, faults>>

\* Another has made the same and not committed: Postgres waits for its outcome.
MadeByOther(r, object) == \E q \in Runners \ {r} : object \in Made(q)

\* One more of its statements is through.
Advance(r) ==
    /\ stmt' = [stmt EXCEPT ![r] = @ + 1]
    /\ at' = [at EXCEPT ![r] = IF stmt[r] + 1 = Statements[file[r]] THEN "recording" ELSE @]
    /\ UNCHANGED file

\* The statement that comes next in the file of r.
Upcoming(r) == <<file[r], stmt[r] + 1>>

\* Mutant of Apply: no BEGIN, so that every statement commits by itself.
ApplyAtOnce(r) ==
    /\ at[r] = "applying"
    /\ IF Upcoming(r) \in schema \cup refused
         THEN Fail(r) /\ UNCHANGED schema
         ELSE Advance(r) /\ schema' = schema \cup {Upcoming(r)}
    /\ UNCHANGED <<refused, tracking, recorded, faults>>

\* The next statement of the file.  One that is refused is so every time, like the
\* constraint trigger of 0001_init.sql:83-88.  One that may be made twice can still
\* fail where another has just made it.
Apply(r) ==
    /\ at[r] = "applying"
    /\ ~MadeByOther(r, Upcoming(r))
    /\ \/ Upcoming(r) \in refused /\ Throw(r, "broken")
       \/ Upcoming(r) \in schema \ refused /\ Fail(r)
       \/ Upcoming(r) \notin refused \cup (schema \ Replaceable) /\ Advance(r)
    /\ UNCHANGED <<refused, tracking, schema, recorded, faults>>

\* INSERT INTO schema_migrations, whose key is the file name.
RecordFile(r) ==
    /\ at[r] = "recording"
    /\ \A q \in Runners \ {r} : at[q] = "committing" => file[q] # file[r]
    /\ IF file[r] \in recorded THEN Fail(r)
         ELSE at' = [at EXCEPT ![r] = "committing"] /\ UNCHANGED <<file, stmt>>
    /\ UNCHANGED <<refused, tracking, schema, recorded, faults>>

\* Mutant of Publish: the file is not recorded.
PublishSchema(r) ==
    /\ schema' = schema \cup Made(r)
    /\ UNCHANGED recorded

\* What a COMMIT makes visible.
Publish(r) ==
    /\ schema' = schema \cup Made(r)
    /\ recorded' = recorded \cup {file[r]}

\* COMMIT, and the next file.
CommitFile(r) ==
    /\ at[r] = "committing"
    /\ Publish(r)
    /\ at' = [at EXCEPT ![r] = "reading"]
    /\ file' = [file EXCEPT ![r] = @ + 1]
    /\ stmt' = [stmt EXCEPT ![r] = 0]
    /\ UNCHANGED <<refused, tracking, faults>>

\* The connection of r ends, and with it the transaction; a COMMIT that was on
\* its way may have been done.
Disconnect(r) ==
    \/ UNCHANGED <<schema, recorded>>
    \/ at[r] = "committing" /\ Publish(r)

\* A statement fails, or the process dies.
Break(r) ==
    /\ at[r] \in Running /\ faults < MaxFaults
    /\ faults' = faults + 1
    /\ Disconnect(r)
    /\ Throw(r, "broken")
    /\ UNCHANGED <<refused, tracking>>

-----------------------------------------------------------------------------

Migrate(r) ==
    \/ LookForTracking(r) \/ CreateTracking(r) \/ ReadRecord(r)
    \/ Apply(r) \/ RecordFile(r) \/ CommitFile(r)

MigrationNext == \E r \in Runners : Start(r) \/ Migrate(r) \/ Break(r)

MigrationSpec == MigrationInit /\ [][MigrationNext]_migrationVars

-----------------------------------------------------------------------------
(* What can be relied on.                                                  *)

MigrationTypeOK ==
    /\ tracking \in BOOLEAN
    /\ schema \subseteq WholeSchema
    /\ recorded \subseteq 1 .. Files
    /\ at \in [Runners -> Running \cup {"idle", "failed", "broken", "done"}]
    /\ file \in [Runners -> 0 .. Files + 1]
    /\ stmt \in [Runners -> Nat]
    /\ \A r \in Runners : at[r] \in InTransaction =>
         file[r] \in 1 .. Files /\ stmt[r] <= Statements[file[r]]
    /\ faults \in Nat
    /\ refused \subseteq Doubtful

\* However many run at once, fail and are started again: what is in the database
\* is every statement of the files on record and nothing else, and the files on
\* record are the first ones.  So a statement that is refused takes the rest of its
\* file with it: there are no tables without their trigger (migrate.ts:43-54).
SchemaIsWhole ==
    /\ schema = UNION {Of(f) : f \in recorded}
    /\ \A f \in recorded : 1 .. f \subseteq recorded

\* A runner that fails although no statement broke has been overtaken, and a
\* second try will find the file on record: nothing has to be repaired by hand
\* (migrate.ts:16-20, 43-54).
OvertakenByTheRecord ==
    \A r \in Runners : at[r] = "failed" =>
        tracking /\ (file[r] # 0 => file[r] \in recorded)

\* The database as a reader of the two tables' history sees it.
History == INSTANCE SchemaHistory

\* Files go in one at a time, whole, in their order and for good, and none that has
\* a statement that is refused, however many runners there are and wherever they
\* fail (migrate.ts:24-54).
FilesGoInOneByOne == History!Spec
=============================================================================
