--------------------------- MODULE MigrationsProofs ----------------------------
(***************************************************************************)
(* Proofs about Migrations, for any number of runners, files and           *)
(* statements, and any number of faults.                                   *)
(***************************************************************************)
EXTENDS Migrations, TLAPS

Places == Running \cup {"idle", "failed", "broken", "done"}

\* What one runner knows: until it has committed a file it has all of those
\* before it on record, and what it has made is a beginning of its file, of which
\* nothing is refused.
RunnerOK(r) ==
    /\ at[r] \in Places
    /\ file[r] \in 0 .. Files + 1
    /\ stmt[r] \in Nat
    /\ at[r] \notin InTransaction => stmt[r] = 0
    /\ at[r] \in {"tracking", "creating"} => file[r] = 0
    /\ at[r] \in InTransaction \cup {"reading"} =>
         tracking /\ file[r] # 0 /\ 1 .. (file[r] - 1) \subseteq recorded
    /\ at[r] \in InTransaction =>
         file[r] <= Files /\ \A n \in 1 .. stmt[r] : <<file[r], n>> \notin refused
    /\ at[r] = "applying" => stmt[r] < Statements[file[r]]
    /\ at[r] \in {"recording", "committing"} => stmt[r] = Statements[file[r]]
    /\ at[r] = "failed" => tracking /\ (file[r] # 0 => file[r] \in recorded)
    /\ at[r] = "done" => 1 .. Files \subseteq recorded

Shapes ==
    /\ at \in [Runners -> Places]
    /\ file \in [Runners -> 0 .. Files + 1]
    /\ stmt \in [Runners -> Nat]

\* The inductive invariant.
MigrationInv ==
    /\ tracking \in BOOLEAN
    /\ recorded \subseteq 1 .. Files
    /\ faults \in Nat
    /\ refused \subseteq Doubtful
    /\ Shapes
    /\ SchemaIsWhole
    /\ \A r \in Runners : RunnerOK(r)

LEMMA SchemaOfFiles ==
    ASSUME MigrationInv
    PROVE  schema \subseteq WholeSchema
BY DEF MigrationInv, SchemaIsWhole, WholeSchema

LEMMA MigrationInvSuffices ==
    ASSUME MigrationInv
    PROVE  MigrationTypeOK /\ SchemaIsWhole /\ OvertakenByTheRecord
<1>1. schema \subseteq WholeSchema
  BY SchemaOfFiles
<1>2. \A r \in Runners : at[r] \in InTransaction =>
         file[r] \in 1 .. Files /\ stmt[r] <= Statements[file[r]]
  <2>1. SUFFICES ASSUME NEW r \in Runners, at[r] \in InTransaction
                 PROVE  file[r] \in 1 .. Files /\ stmt[r] <= Statements[file[r]]
    OBVIOUS
  <2>2. RunnerOK(r)
    BY DEF MigrationInv
  <2>3. file[r] \in 1 .. Files
    BY <2>1, <2>2, FilesAreCounted DEF RunnerOK
  <2>4. Statements[file[r]] \in Nat
    BY <2>3, FilesHaveStatements
  <2>5. QED
    BY <2>1, <2>2, <2>3, <2>4 DEF RunnerOK, InTransaction
<1>3. MigrationTypeOK
  BY <1>1, <1>2 DEF MigrationTypeOK, MigrationInv, Shapes, Places
<1>4. OvertakenByTheRecord
  BY DEF MigrationInv, RunnerOK, OvertakenByTheRecord
<1>5. QED
  BY <1>3, <1>4 DEF MigrationInv

LEMMA MigrationInitInv == MigrationInit => MigrationInv
<1>1. SUFFICES ASSUME MigrationInit PROVE MigrationInv
  OBVIOUS
<1>2. Shapes
  BY <1>1, FilesAreCounted DEF MigrationInit, Shapes, Places
<1>3. SchemaIsWhole
  BY <1>1 DEF MigrationInit, SchemaIsWhole
<1>4. ASSUME NEW r \in Runners PROVE RunnerOK(r)
  BY <1>1, FilesAreCounted DEF MigrationInit, RunnerOK, Places, InTransaction
<1>5. QED
  BY <1>1, <1>2, <1>3, <1>4 DEF MigrationInit, MigrationInv

-----------------------------------------------------------------------------
(* One runner moves; the others have what they had.                        *)

Others(r) == \A q \in Runners \ {r} :
    at'[q] = at[q] /\ file'[q] = file[q] /\ stmt'[q] = stmt[q]

LEMMA OneRunnerMoves ==
    ASSUME MigrationInv, NEW r \in Runners,
           Shapes', Others(r), RunnerOK(r)',
           tracking' \in BOOLEAN, tracking => tracking',
           recorded \subseteq recorded', recorded' \subseteq 1 .. Files,
           SchemaIsWhole', faults' \in Nat, UNCHANGED refused
    PROVE  MigrationInv'
<1>1. ASSUME NEW q \in Runners \ {r} PROVE RunnerOK(q)'
  <2>1. RunnerOK(q)
    BY DEF MigrationInv
  <2>2. at'[q] = at[q] /\ file'[q] = file[q] /\ stmt'[q] = stmt[q]
    BY DEF Others
  <2>3. QED
    BY <2>1, <2>2 DEF RunnerOK
<1>2. \A q \in Runners : RunnerOK(q)'
  BY <1>1
<1>3. QED
  BY <1>2 DEF MigrationInv

LEMMA StartKeeps ==
    ASSUME MigrationInv, NEW r \in Runners, Start(r)
    PROVE  MigrationInv'
<1>0. RunnerOK(r)
  BY DEF MigrationInv
<1>1. Shapes' /\ Others(r)
  BY FilesAreCounted DEF MigrationInv, Shapes, Others, Start, Places, Running
<1>2. RunnerOK(r)'
  BY <1>0, FilesAreCounted
  DEF MigrationInv, Shapes, RunnerOK, Start, Places, Running, InTransaction
<1>3. SchemaIsWhole'
  BY DEF MigrationInv, SchemaIsWhole, Start
<1>4. QED
  BY <1>1, <1>2, <1>3, OneRunnerMoves DEF MigrationInv, Start

LEMMA LookForTrackingKeeps ==
    ASSUME MigrationInv, NEW r \in Runners, LookForTracking(r)
    PROVE  MigrationInv'
<1>0. RunnerOK(r)
  BY DEF MigrationInv
<1>1. Shapes' /\ Others(r)
  BY FilesAreCounted
  DEF MigrationInv, Shapes, Others, LookForTracking, ReadFiles, Places, Running
<1>2. RunnerOK(r)'
  BY <1>0, FilesAreCounted
  DEF MigrationInv, Shapes, RunnerOK, LookForTracking, ReadFiles, Places, Running, InTransaction
<1>3. SchemaIsWhole'
  BY DEF MigrationInv, SchemaIsWhole, LookForTracking
<1>4. QED
  BY <1>1, <1>2, <1>3, OneRunnerMoves DEF MigrationInv, LookForTracking

LEMMA CreateTrackingKeeps ==
    ASSUME MigrationInv, NEW r \in Runners, CreateTracking(r)
    PROVE  MigrationInv'
<1>0. RunnerOK(r)
  BY DEF MigrationInv
<1>1. Shapes' /\ Others(r)
  BY FilesAreCounted
  DEF MigrationInv, Shapes, Others, CreateTracking, ReadFiles, Fail, Throw, Places, Running
<1>2. RunnerOK(r)'
  BY <1>0, FilesAreCounted
  DEF MigrationInv, Shapes, RunnerOK, CreateTracking, ReadFiles, Fail, Throw, Places, Running, InTransaction
<1>3. SchemaIsWhole'
  BY DEF MigrationInv, SchemaIsWhole, CreateTracking
<1>4. QED
  BY <1>1, <1>2, <1>3, OneRunnerMoves DEF MigrationInv, CreateTracking

LEMMA ReadRecordKeeps ==
    ASSUME MigrationInv, NEW r \in Runners, ReadRecord(r)
    PROVE  MigrationInv'
<1>0. RunnerOK(r)
  BY DEF MigrationInv
<1>00. at[r] = "reading" /\ tracking /\ file[r] \in 1 .. Files + 1
       /\ 1 .. (file[r] - 1) \subseteq recorded /\ stmt[r] = 0
  BY <1>0, FilesAreCounted DEF ReadRecord, RunnerOK, InTransaction
<1>1. CASE file[r] > Files
  <2>1. at' = [at EXCEPT ![r] = "done"] /\ UNCHANGED <<refused, tracking, recorded, file, stmt>>
    BY <1>1 DEF ReadRecord
  <2>2. Shapes' /\ Others(r)
    BY <2>1 DEF MigrationInv, Shapes, Others, Places
  <2>3. 1 .. Files \subseteq recorded'
    BY <1>00, <1>1, <2>1, FilesAreCounted
  <2>4. RunnerOK(r)'
    BY <1>00, <2>1, <2>3, FilesAreCounted DEF MigrationInv, Shapes, RunnerOK, Places, InTransaction
  <2>5. QED
    BY <2>1, <2>2, <2>4, OneRunnerMoves DEF MigrationInv, SchemaIsWhole, ReadRecord
<1>2. CASE file[r] <= Files /\ file[r] \in recorded
  <2>1. file' = [file EXCEPT ![r] = @ + 1] /\ UNCHANGED <<refused, tracking, recorded, at, stmt>>
    BY <1>00, <1>2, FilesAreCounted DEF ReadRecord
  <2>2. Shapes' /\ Others(r)
    BY <1>00, <1>2, <2>1, FilesAreCounted DEF MigrationInv, Shapes, Others
  <2>3. 1 .. (file'[r] - 1) \subseteq recorded'
    BY <1>00, <1>2, <2>1, FilesAreCounted DEF MigrationInv, Shapes
  <2>4. RunnerOK(r)'
    BY <1>00, <1>2, <2>1, <2>3, FilesAreCounted DEF MigrationInv, Shapes, RunnerOK, Places, Running, InTransaction
  <2>5. QED
    BY <2>1, <2>2, <2>4, OneRunnerMoves DEF MigrationInv, SchemaIsWhole, ReadRecord
<1>3. CASE file[r] <= Files /\ file[r] \notin recorded
  <2>1. at' = [at EXCEPT ![r] = "applying"] /\ UNCHANGED <<refused, tracking, recorded, file, stmt>>
    BY <1>00, <1>3, FilesAreCounted DEF ReadRecord
  <2>2. Shapes' /\ Others(r)
    BY <2>1 DEF MigrationInv, Shapes, Others, Places, Running, InTransaction
  <2>3. 0 < Statements[file[r]]
    BY <1>00, <1>3, FilesAreCounted, FilesHaveStatements
  <2>4. RunnerOK(r)'
    BY <1>00, <1>3, <2>1, <2>3, FilesAreCounted DEF MigrationInv, Shapes, RunnerOK, Places, Running, InTransaction
  <2>5. QED
    BY <2>1, <2>2, <2>4, OneRunnerMoves DEF MigrationInv, SchemaIsWhole, ReadRecord
<1>4. QED
  BY <1>00, <1>1, <1>2, <1>3, FilesAreCounted

\* What a COMMIT publishes is one whole file, after all those before it.
LEMMA PublishWhole ==
    ASSUME MigrationInv, NEW r \in Runners, at[r] = "committing", Publish(r)
    PROVE  /\ SchemaIsWhole'
           /\ recorded' = recorded \cup {file[r]}
           /\ recorded' \subseteq 1 .. Files
<1>1. RunnerOK(r)
  BY DEF MigrationInv
<1>2. /\ file[r] \in 1 .. Files /\ 1 .. (file[r] - 1) \subseteq recorded
      /\ stmt[r] = Statements[file[r]]
  BY <1>1, FilesAreCounted DEF RunnerOK, InTransaction
<1>3. schema' = schema \cup Of(file[r]) /\ recorded' = recorded \cup {file[r]}
  BY <1>2 DEF Publish, Made, Of, InTransaction
<1>4. schema' = UNION {Of(f) : f \in recorded'}
  BY <1>3 DEF MigrationInv, SchemaIsWhole
<1>5. ASSUME NEW f \in recorded' PROVE 1 .. f \subseteq recorded'
  <2>1. CASE f \in recorded
    BY <1>3, <2>1 DEF MigrationInv, SchemaIsWhole
  <2>2. CASE f = file[r]
    BY <1>2, <1>3, <2>2, FilesAreCounted
  <2>3. QED
    BY <1>3, <2>1, <2>2
<1>6. QED
  BY <1>2, <1>3, <1>4, <1>5 DEF MigrationInv, SchemaIsWhole

\* A runner loses its connection and is nowhere in particular afterwards: with the
\* file it was at (Break), or as a process that has not begun (the exit of a server).
LEMMA DisconnectKeeps ==
    ASSUME MigrationInv, NEW r \in Runners, Disconnect(r),
           NEW place \in {"idle", "broken"}, at' = [at EXCEPT ![r] = place],
           stmt' = [stmt EXCEPT ![r] = 0],
           UNCHANGED file \/ file' = [file EXCEPT ![r] = 0],
           UNCHANGED <<refused, tracking>>, faults' \in Nat
    PROVE  MigrationInv' /\ recorded \subseteq recorded'
<1>1. Shapes' /\ Others(r)
  BY FilesAreCounted DEF MigrationInv, Shapes, Others, Places
<1>2. RunnerOK(r)'
  BY <1>1, FilesAreCounted DEF MigrationInv, Shapes, RunnerOK, InTransaction
<1>3. SchemaIsWhole' /\ recorded' \subseteq 1 .. Files /\ recorded \subseteq recorded'
  <2>1. CASE UNCHANGED <<schema, recorded>>
    BY <2>1 DEF MigrationInv, SchemaIsWhole
  <2>2. CASE at[r] = "committing" /\ Publish(r)
    BY <2>2, PublishWhole
  <2>3. QED
    BY <2>1, <2>2 DEF Disconnect
<1>4. QED
  BY <1>1, <1>2, <1>3, OneRunnerMoves DEF MigrationInv

\* A statement fails on what is there already only when its file is on record.
LEMMA ThereMeansOnRecord ==
    ASSUME MigrationInv, NEW f, NEW n, <<f, n>> \in schema
    PROVE  f \in recorded
BY DEF MigrationInv, SchemaIsWhole, Of

LEMMA ApplyKeeps ==
    ASSUME MigrationInv, NEW r \in Runners, Apply(r)
    PROVE  MigrationInv'
<1>0. RunnerOK(r)
  BY DEF MigrationInv
<1>00. /\ at[r] = "applying" /\ tracking /\ file[r] \in 1 .. Files
       /\ 1 .. (file[r] - 1) \subseteq recorded
       /\ stmt[r] \in Nat /\ Statements[file[r]] \in Nat /\ stmt[r] < Statements[file[r]]
  <2>1. at[r] = "applying"
    BY DEF Apply
  <2>2. file[r] \in 1 .. Files
    BY <1>0, <2>1, FilesAreCounted DEF RunnerOK, InTransaction
  <2>3. Statements[file[r]] \in Nat
    BY <2>2, FilesHaveStatements
  <2>4. QED
    BY <1>0, <2>1, <2>2, <2>3 DEF RunnerOK, InTransaction
<1>1. CASE Upcoming(r) \in schema /\ Fail(r)
  <2>1. at' = [at EXCEPT ![r] = "failed"] /\ stmt' = [stmt EXCEPT ![r] = 0]
        /\ UNCHANGED <<refused, tracking, recorded, file>>
    BY <1>1 DEF Apply, Fail, Throw
  <2>2. Shapes' /\ Others(r)
    BY <2>1 DEF MigrationInv, Shapes, Others, Places
  <2>3. file[r] \in recorded
    BY <1>1, ThereMeansOnRecord DEF Upcoming
  <2>4. RunnerOK(r)'
    BY <1>00, <2>1, <2>3, FilesAreCounted DEF MigrationInv, Shapes, RunnerOK, Places, InTransaction
  <2>5. QED
    BY <2>1, <2>2, <2>4, OneRunnerMoves DEF MigrationInv, SchemaIsWhole, Apply
<1>2. CASE Upcoming(r) \notin refused /\ Advance(r)
  <2>1. /\ stmt' = [stmt EXCEPT ![r] = @ + 1]
        /\ at' = [at EXCEPT ![r] = IF stmt[r] + 1 = Statements[file[r]] THEN "recording" ELSE @]
        /\ UNCHANGED <<refused, tracking, recorded, file>>
    BY <1>2 DEF Apply, Advance
  <2>2. Shapes' /\ Others(r)
    BY <1>00, <2>1 DEF MigrationInv, Shapes, Others, Places, Running, InTransaction
  <2>3. stmt'[r] = stmt[r] + 1
        /\ at'[r] = IF stmt[r] + 1 = Statements[file[r]] THEN "recording" ELSE "applying"
    BY <1>00, <2>1 DEF MigrationInv, Shapes
  <2>4. \A n \in 1 .. stmt'[r] : <<file'[r], n>> \notin refused'
    <3>1. \A n \in 1 .. stmt[r] : <<file[r], n>> \notin refused
      BY <1>0, <1>00 DEF RunnerOK, InTransaction
    <3>2. \A n \in 1 .. stmt[r] + 1 : n \in 1 .. stmt[r] \/ n = stmt[r] + 1
      BY <1>00
    <3>3. QED
      BY <1>2, <2>1, <2>3, <3>1, <3>2 DEF Upcoming
  <2>5. RunnerOK(r)'
    BY <1>00, <2>1, <2>3, <2>4, FilesAreCounted DEF RunnerOK, Places, Running, InTransaction
  <2>6. QED
    BY <2>1, <2>2, <2>5, OneRunnerMoves DEF MigrationInv, SchemaIsWhole, Apply
<1>3. CASE Throw(r, "broken")
  <2>1. at' = [at EXCEPT ![r] = "broken"] /\ stmt' = [stmt EXCEPT ![r] = 0]
        /\ UNCHANGED <<refused, tracking, schema, recorded, faults, file>>
    BY <1>3 DEF Apply, Throw
  <2>2. QED
    BY <2>1, DisconnectKeeps DEF Disconnect, MigrationInv
<1>4. QED
  BY <1>1, <1>2, <1>3 DEF Apply

LEMMA RecordFileKeeps ==
    ASSUME MigrationInv, NEW r \in Runners, RecordFile(r)
    PROVE  MigrationInv'
<1>0. RunnerOK(r)
  BY DEF MigrationInv
<1>1. Shapes' /\ Others(r)
  BY DEF MigrationInv, Shapes, Others, RecordFile, Fail, Throw, Places, Running, InTransaction
<1>2. RunnerOK(r)'
  BY <1>0, FilesAreCounted
  DEF MigrationInv, Shapes, RunnerOK, RecordFile, Fail, Throw, Places, Running, InTransaction
<1>3. QED
  BY <1>1, <1>2, OneRunnerMoves DEF MigrationInv, SchemaIsWhole, RecordFile

LEMMA CommitFileKeeps ==
    ASSUME MigrationInv, NEW r \in Runners, CommitFile(r)
    PROVE  MigrationInv'
<1>1. RunnerOK(r)
  BY DEF MigrationInv
<1>2. /\ at[r] = "committing" /\ tracking /\ file[r] \in 1 .. Files
      /\ 1 .. (file[r] - 1) \subseteq recorded
  BY <1>1, FilesAreCounted DEF RunnerOK, CommitFile, InTransaction
<1>3. SchemaIsWhole' /\ recorded' = recorded \cup {file[r]} /\ recorded' \subseteq 1 .. Files
  BY <1>2, PublishWhole DEF CommitFile
<1>4. /\ at' = [at EXCEPT ![r] = "reading"] /\ file' = [file EXCEPT ![r] = @ + 1]
      /\ stmt' = [stmt EXCEPT ![r] = 0] /\ UNCHANGED <<refused, tracking, faults>>
  BY DEF CommitFile
<1>5. Shapes' /\ Others(r)
  BY <1>2, <1>4, FilesAreCounted DEF MigrationInv, Shapes, Others, Places, Running
<1>6. at'[r] = "reading" /\ file'[r] = file[r] + 1 /\ stmt'[r] = 0
  BY <1>4 DEF MigrationInv, Shapes
<1>7. 1 .. (file'[r] - 1) \subseteq recorded'
  BY <1>2, <1>3, <1>6, FilesAreCounted
<1>8. RunnerOK(r)'
  BY <1>2, <1>4, <1>6, <1>7, FilesAreCounted DEF RunnerOK, Places, Running, InTransaction
<1>9. QED
  BY <1>3, <1>4, <1>5, <1>8, OneRunnerMoves DEF MigrationInv

LEMMA BreakKeeps ==
    ASSUME MigrationInv, NEW r \in Runners, Break(r)
    PROVE  MigrationInv'
<1>1. faults' \in Nat
  BY DEF MigrationInv, Break
<1>2. QED
  BY <1>1, DisconnectKeeps DEF Break, Throw

LEMMA RunnerStepKeeps ==
    ASSUME MigrationInv, NEW r \in Runners, Start(r) \/ Migrate(r) \/ Break(r)
    PROVE  MigrationInv'
BY StartKeeps, LookForTrackingKeeps, CreateTrackingKeeps, ReadRecordKeeps, ApplyKeeps,
   RecordFileKeeps, CommitFileKeeps, BreakKeeps DEF Migrate

LEMMA StutterKeepsMigrationInv ==
    ASSUME MigrationInv, UNCHANGED migrationVars
    PROVE  MigrationInv'
BY DEF MigrationInv, Shapes, SchemaIsWhole, RunnerOK, migrationVars

\* A file that is on record stays on record.
LEMMA RecordGrows ==
    ASSUME MigrationInv, NEW r \in Runners, Start(r) \/ Migrate(r) \/ Break(r)
    PROVE  recorded \subseteq recorded'
BY DEF Start, Migrate, Break, LookForTracking, CreateTracking, ReadRecord, Apply,
   RecordFile, CommitFile, Disconnect, Publish

-----------------------------------------------------------------------------

LEMMA MigrationInvHolds == MigrationSpec => []MigrationInv
<1>1. MigrationInit => MigrationInv
  BY MigrationInitInv
<1>2. MigrationInv /\ [MigrationNext]_migrationVars => MigrationInv'
  BY RunnerStepKeeps, StutterKeepsMigrationInv DEF MigrationNext
<1>3. QED
  BY <1>1, <1>2, PTL DEF MigrationSpec

\* However many runners work on one database and wherever they fail, it holds every
\* statement of the files on record and nothing else, and the files on record are the
\* first ones (migrate.ts:43-54).
THEOREM MigrationsAreAtomic == MigrationSpec => []SchemaIsWhole
BY MigrationInvHolds, MigrationInvSuffices, PTL

\* A runner that throws although no statement broke was too late for a file that is
\* on record by now (migrate.ts:16-20, 43-54).
THEOREM FailuresAreOvertaken == MigrationSpec => []OvertakenByTheRecord
BY MigrationInvHolds, MigrationInvSuffices, PTL

-----------------------------------------------------------------------------
(* The refinement of SchemaHistory.                                        *)

\* What a COMMIT publishes is the next file, or one that another runner has recorded.
LEMMA PublishIsHistory ==
    ASSUME MigrationInv, NEW r \in Runners, at[r] = "committing", Publish(r), UNCHANGED refused
    PROVE  History!Next \/ UNCHANGED <<schema, recorded, refused>>
<1> DEFINE f == file[r]
<1>1. /\ f \in 1 .. Files /\ 1 .. (f - 1) \subseteq recorded
      /\ stmt[r] = Statements[f]
      /\ \A n \in 1 .. stmt[r] : <<f, n>> \notin refused
  <2>1. RunnerOK(r)
    BY DEF MigrationInv
  <2>2. QED
    BY <2>1, FilesAreCounted DEF RunnerOK, InTransaction
<1>2. schema' = schema \cup Of(f) /\ recorded' = recorded \cup {f}
  BY <1>1 DEF Publish, Made, Of, InTransaction
<1>3. CASE f \in recorded
  <2>1. Of(f) \subseteq schema
    BY <1>3 DEF MigrationInv, SchemaIsWhole
  <2>2. QED
    BY <1>2, <1>3, <2>1
<1>4. CASE f \notin recorded
  <2>1. recorded \subseteq 1 .. (f - 1)
    <3>1. SUFFICES ASSUME NEW g \in recorded, g >= f PROVE FALSE
      BY <1>1, FilesAreCounted DEF MigrationInv
    <3>2. g \in 1 .. Files /\ 1 .. g \subseteq recorded
      BY DEF MigrationInv, SchemaIsWhole
    <3>3. QED
      BY <1>1, <1>4, <3>1, <3>2, FilesAreCounted
  <2>2. recorded = 1 .. (f - 1)
    BY <1>1, <2>1
  <2>3. ({f} \X (1 .. Statements[f])) \cap refused = {}
    BY <1>1
  <2>4. History!ApplyFile(f)
    BY <1>2, <2>2, <2>3 DEF History!ApplyFile, Of
  <2>5. QED
    BY <1>1, <2>4 DEF History!Next
<1>5. QED
  BY <1>3, <1>4

LEMMA DisconnectIsHistory ==
    ASSUME MigrationInv, NEW r \in Runners, Disconnect(r), UNCHANGED refused
    PROVE  History!Next \/ UNCHANGED <<schema, recorded, refused>>
BY PublishIsHistory DEF Disconnect

LEMMA RunnerStepIsHistory ==
    ASSUME MigrationInv, NEW r \in Runners, Start(r) \/ Migrate(r) \/ Break(r)
    PROVE  History!Next \/ UNCHANGED <<schema, recorded, refused>>
<1>1. CASE CommitFile(r)
  BY <1>1, PublishIsHistory DEF CommitFile
<1>2. CASE Break(r)
  BY <1>2, DisconnectIsHistory DEF Break
<1>3. CASE Start(r) \/ LookForTracking(r) \/ CreateTracking(r) \/ ReadRecord(r) \/ Apply(r) \/ RecordFile(r)
  BY <1>3 DEF Start, LookForTracking, CreateTracking, ReadRecord, Apply, RecordFile
<1>4. QED
  BY <1>1, <1>2, <1>3 DEF Migrate

\* Runners that race, fail, die and begin again apply the files one at a time, whole,
\* in their order and for good (migrate.ts:24-54).
THEOREM MigrationsRefineHistory == MigrationSpec => FilesGoInOneByOne
<1>1. MigrationInit => History!Init
  BY DEF MigrationInit, History!Init
<1>2. MigrationInv /\ [MigrationNext]_migrationVars => [History!Next]_<<schema, recorded, refused>>
  BY RunnerStepIsHistory DEF MigrationNext, migrationVars
<1>3. QED
  BY <1>1, <1>2, MigrationInvHolds, PTL DEF MigrationSpec, FilesGoInOneByOne, History!Spec
=============================================================================
