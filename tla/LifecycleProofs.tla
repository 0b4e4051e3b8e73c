---------------------------- MODULE LifecycleProofs ----------------------------
(***************************************************************************)
(* Proofs about Lifecycle, for any number of requests, of overlapping runs *)
(* of the jobs, of signals and of processes that migrate, and a pool of    *)
(* any size.                                                               *)
(***************************************************************************)
EXTENDS Lifecycle, MigrationsProofs, FiniteSetTheorems, SequenceTheorems

Phases == {"down", "migrating", "building", "listening", "up"}
Servers == {"off", "open", "closing", "closed"}
States == {"none", "waiting", "holding", "answered", "refused"} \cup Causes

\* What a request must not die of.
OwnEnds == {"shutdown", "pool", "rejection", "migration"}

\* Where the process is: there is a server and a shutdown only when main() is
\* through, and the pool ends only after the server.
MainInv ==
    /\ nodeEnv \in {"development", "production"}
    /\ phase \in Phases /\ server \in Servers
    /\ shutdowns \in 0 .. MaxSignals /\ pool \in {"open", "ending"}
    /\ ended \in [cause : Causes \cup {"none"}, server : Servers]
    /\ phase # "up" => server = "off" /\ pool = "open" /\ shutdowns = 0
    /\ phase = "up" => server # "off"
    /\ pool = "ending" => server = "closed"

\* Past migrate() every file is on record.
SchemaInv ==
    nodeEnv = "development" =>
        /\ phase # "down"
        /\ phase \in {"building", "listening", "up"} => recorded = 1 .. Files

\* Requests are being served only while there is a server.
UserOK(u) ==
    /\ user[u] \in States /\ turns[u] \in 0 .. MaxTurns
    /\ user[u] \in {"waiting", "holding"} => turns[u] # 0
    /\ u \in Calls =>
        /\ server \in {"off", "closed"} => user[u] \notin {"waiting", "holding"}
        /\ user[u] \notin OwnEnds

UserInv ==
    /\ user \in [Users -> States]
    /\ turns \in [Users -> 0 .. MaxTurns]
    /\ \A u \in Users : UserOK(u)

QueueInv ==
    /\ queue \in Seq(Users)
    /\ \A i \in 1 .. Len(queue) : user[queue[i]] = "waiting"
    /\ \A u \in Users : user[u] = "waiting" => \E i \in 1 .. Len(queue) : queue[i] = u
    /\ \A i, j \in 1 .. Len(queue) : queue[i] = queue[j] => i = j

BooksInv ==
    /\ IsFiniteSet(Holders)
    /\ out = Cardinality(Holders)
    /\ idle \in Nat /\ idle + out <= PoolSize

\* The inductive invariant.
LifecycleInv ==
    /\ MigrationInv
    /\ MainInv
    /\ SchemaInv
    /\ UserInv
    /\ QueueInv
    /\ BooksInv

ProcessInv == MainInv /\ SchemaInv /\ UserInv /\ QueueInv /\ BooksInv

-----------------------------------------------------------------------------
(* What follows from the invariant.                                        *)

LEMMA ServedMeansServer ==
    ASSUME LifecycleInv, server \in {"off", "closed"}
    PROVE  InFlight = {}
BY DEF LifecycleInv, UserInv, UserOK, InFlight, Users

LEMMA OutIsNat ==
    ASSUME BooksInv
    PROVE  out \in Nat /\ (out = 0 => Holders = {}) /\ out <= PoolSize
<1>1. out \in Nat
  BY FS_CardinalityType DEF BooksInv
<1>2. out = 0 => Holders = {}
  BY FS_EmptySet DEF BooksInv
<1>3. out <= PoolSize
  BY <1>1, PoolHasClients DEF BooksInv
<1>4. QED
  BY <1>1, <1>2, <1>3

LEMMA LifecycleTypes ==
    ASSUME LifecycleInv
    PROVE  TypeOK
<1>1. MigrationTypeOK
  BY MigrationInvSuffices DEF LifecycleInv
<1>2. DOMAIN queue = 1 .. Len(queue) /\ \A i \in 1 .. Len(queue) : queue[i] \in Users
  BY LenProperties, ElementOfSeq DEF LifecycleInv, QueueInv
<1>3. {queue[i] : i \in DOMAIN queue} = {u \in Users : user[u] = "waiting"}
  BY <1>2 DEF LifecycleInv, QueueInv
<1>4. \A i, j \in DOMAIN queue : queue[i] = queue[j] => i = j
  BY <1>2 DEF LifecycleInv, QueueInv
<1>5. QED
  BY <1>1, <1>3, <1>4
  DEF TypeOK, LifecycleInv, MainInv, UserInv, QueueInv, BooksInv, Phases, Servers, States

LEMMA LifecycleCuts ==
    ASSUME LifecycleInv
    PROVE  ShutdownCutsNobodyOff
BY DEF LifecycleInv, UserInv, UserOK, Users, OwnEnds, ShutdownCutsNobodyOff

LEMMA LifecycleServes ==
    ASSUME LifecycleInv
    PROVE  ServesOnWholeSchema
<1>1. SUFFICES ASSUME nodeEnv = "development", server # "off"
               PROVE  schema = WholeSchema /\ recorded = 1 .. Files
  BY DEF ServesOnWholeSchema
<1>2. phase = "up"
  BY <1>1 DEF LifecycleInv, MainInv
<1>3. recorded = 1 .. Files
  BY <1>1, <1>2 DEF LifecycleInv, SchemaInv
<1>4. QED
  BY <1>3 DEF LifecycleInv, MigrationInv, SchemaIsWhole, WholeSchema

-----------------------------------------------------------------------------
(* Frames.                                                                 *)

\* Nobody takes, gives or asks for a client.
LEMMA NobodyMoves ==
    ASSUME LifecycleInv, UNCHANGED <<out, idle, work>>
    PROVE  QueueInv' /\ BooksInv'
BY DEF LifecycleInv, QueueInv, BooksInv, Holders, work

\* A process that is past migrate() does not lose what it relies on.
LEMMA SchemaStays ==
    ASSUME LifecycleInv, MigrationInv', recorded \subseteq recorded', UNCHANGED main
    PROVE  SchemaInv'
BY DEF LifecycleInv, MigrationInv, SchemaInv, main

LEMMA NothingMigrates ==
    ASSUME LifecycleInv, UNCHANGED <<refused, tracking, schema, recorded, runner>>, faults' \in Nat
    PROVE  MigrationInv' /\ recorded \subseteq recorded'
BY DEF LifecycleInv, MigrationInv, Shapes, SchemaIsWhole, RunnerOK, runner

LEMMA NoMigrationStep ==
    ASSUME LifecycleInv, UNCHANGED migrationVars
    PROVE  MigrationInv' /\ recorded \subseteq recorded'
BY StutterKeepsMigrationInv DEF LifecycleInv, migrationVars

-----------------------------------------------------------------------------
(* The end of the process.  It may cut requests off only by what is not an *)
(* end of its own, unless there are none.                                  *)

LEMMA ExitKeeps ==
    ASSUME LifecycleInv, NEW cause \in Causes, Exit(cause), faults' \in Nat,
           cause \in OwnEnds => server \in {"off", "closed"}
    PROVE  LifecycleInv'
<1>1. MigrationInv'
  BY DisconnectKeeps, SelfMigrates DEF LifecycleInv, Exit
<1>2. MainInv'
  BY BoundsAreCounted DEF LifecycleInv, MainInv, Exit, Phases, Servers
<1>3. SchemaInv'
  BY DEF SchemaInv, Exit
<1>4. \A u \in Users : user'[u] = IF u \in Jobs THEN "none"
                                  ELSE IF u \in InFlight THEN cause ELSE user[u]
  BY DEF Exit
<1>5. \A u \in Users : user'[u] \in States \ {"waiting", "holding"}
  <2>1. SUFFICES ASSUME NEW u \in Users PROVE user'[u] \in States \ {"waiting", "holding"}
    OBVIOUS
  <2>2. user[u] \in States
    BY DEF LifecycleInv, UserInv
  <2>3. QED
    BY <1>4, <2>2 DEF States, Causes, InFlight, Users
<1>6. \A u \in Users : u \in Calls => user'[u] \notin OwnEnds
  <2>1. SUFFICES ASSUME NEW u \in Users, u \in Calls PROVE user'[u] \notin OwnEnds
    OBVIOUS
  <2>2. user[u] \notin OwnEnds
    BY <2>1 DEF LifecycleInv, UserInv, UserOK
  <2>3. CASE cause \in OwnEnds
    BY <1>4, <2>2, <2>3, ServedMeansServer DEF OwnEnds
  <2>4. CASE cause \notin OwnEnds
    BY <1>4, <2>2, <2>4 DEF OwnEnds
  <2>5. QED
    BY <2>3, <2>4
<1>7. user' \in [Users -> States] /\ turns' = [u \in Users |-> 0]
  BY <1>5 DEF Exit
<1>8. UserInv'
  BY <1>5, <1>6, <1>7, BoundsAreCounted DEF UserInv, UserOK
<1>9. QueueInv'
  BY <1>5 DEF QueueInv, Exit
<1>10. Holders' = {}
  BY <1>5 DEF Holders
<1>11. BooksInv'
  BY <1>10, FS_EmptySet, PoolHasClients DEF BooksInv, Exit
<1>12. QED
  BY <1>1, <1>2, <1>3, <1>8, <1>9, <1>11 DEF LifecycleInv

\* The same where no statement failed.
LEMMA QuietExitKeeps ==
    ASSUME LifecycleInv, NEW cause \in Causes, Exit(cause), UNCHANGED faults,
           cause \in OwnEnds => server \in {"off", "closed"}
    PROVE  LifecycleInv'
<1>1. faults' \in Nat
  BY DEF LifecycleInv, MigrationInv
<1>2. QED
  BY <1>1, ExitKeeps

-----------------------------------------------------------------------------
(* main().                                                                 *)

LEMMA InitInv == Init => LifecycleInv
<1>1. SUFFICES ASSUME Init PROVE LifecycleInv
  OBVIOUS
<1>2. MigrationInv
  BY <1>1, MigrationInitInv DEF Init
<1>3. MainInv /\ SchemaInv
  BY <1>1, BoundsAreCounted DEF Init, MainInv, SchemaInv, Phases, Servers, NotEnded
<1>4. UserInv
  BY <1>1, BoundsAreCounted DEF Init, UserInv, UserOK, States, Causes, OwnEnds
<1>5. QueueInv
  BY <1>1 DEF Init, QueueInv
<1>6. Holders = {}
  BY <1>1 DEF Init, Holders
<1>7. BooksInv
  BY <1>1, <1>6, FS_EmptySet, PoolHasClients DEF Init, BooksInv
<1>8. QED
  BY <1>2, <1>3, <1>4, <1>5, <1>7 DEF LifecycleInv

LEMMA BootKeeps ==
    ASSUME LifecycleInv, Boot
    PROVE  LifecycleInv'
<1>1. UNCHANGED <<out, idle, work, stopping, pool>>
  BY DEF Boot, clients
<1>2. QueueInv' /\ BooksInv'
  BY <1>1, NobodyMoves
<1>3. UserInv'
  BY <1>1 DEF LifecycleInv, UserInv, UserOK, work, stopping
<1>4. MigrationInv'
  BY StartKeeps, SelfMigrates, NoMigrationStep DEF LifecycleInv, Boot
<1>5. phase = "down" /\ nodeEnv' \in {"development", "production"} /\ ended' = NotEnded
      /\ phase' = IF nodeEnv' = "development" THEN "migrating" ELSE "building"
  BY DEF Boot
<1>6. MainInv'
  BY <1>1, <1>5 DEF LifecycleInv, MainInv, stopping, NotEnded, Phases, Servers
<1>7. SchemaInv'
  BY <1>5 DEF SchemaInv
<1>8. QED
  BY <1>2, <1>3, <1>4, <1>6, <1>7 DEF LifecycleInv

LEMMA MainKeeps ==
    ASSUME LifecycleInv, Main
    PROVE  LifecycleInv'
<1>1. CASE MigrationThrows
  <2>1. server = "off" /\ "migration" \in Causes
    BY <1>1 DEF LifecycleInv, MainInv, MigrationThrows, Causes
  <2>2. QED
    BY <1>1, <2>1, QuietExitKeeps DEF MigrationThrows
<1>2. CASE Migrated \/ Build \/ Listen
  <2>1. UNCHANGED <<out, idle, work, pool, shutdowns, nodeEnv, ended>> /\ UNCHANGED migrationVars
    BY <1>2 DEF Migrated, Build, Listen, clients, stopping
  <2>2. MigrationInv' /\ QueueInv' /\ BooksInv'
    BY <2>1, NoMigrationStep, NobodyMoves
  <2>3. MainInv'
    BY <1>2, <2>1
    DEF LifecycleInv, MainInv, Migrated, Build, Listen, stopping, Phases, Servers
  <2>4. UserInv'
    BY <1>2, <2>1
    DEF LifecycleInv, MainInv, UserInv, UserOK, work, Migrated, Build, Listen, stopping
  <2>5. SchemaInv'
    <3>1. CASE Migrated
      <4>1. RunnerOK(Self) /\ recorded \subseteq 1 .. Files
        BY SelfMigrates DEF LifecycleInv, MigrationInv
      <4>2. recorded = 1 .. Files
        BY <3>1, <4>1 DEF Migrated, RunnerOK
      <4>3. QED
        BY <3>1, <4>2 DEF Migrated, SchemaInv, migrationVars
    <3>2. CASE Build \/ Listen
      BY <3>2 DEF LifecycleInv, SchemaInv, Build, Listen, migrationVars
    <3>3. QED
      BY <1>2, <3>1, <3>2
  <2>6. QED
    BY <2>2, <2>3, <2>4, <2>5 DEF LifecycleInv
<1>3. QED
  BY <1>1, <1>2 DEF Main

LEMMA ForceExitKeeps ==
    ASSUME LifecycleInv, ForceExit
    PROVE  LifecycleInv'
<1>1. "timer" \in Causes /\ "timer" \notin OwnEnds
  BY DEF Causes, OwnEnds
<1>2. QED
  BY <1>1, QuietExitKeeps DEF ForceExit

LEMMA MigrationStepKeeps ==
    ASSUME LifecycleInv, MigrationStep
    PROVE  LifecycleInv'
<1>1. PICK r \in Runners : Start(r) \/ Migrate(r) \/ Break(r)
  BY DEF MigrationStep
<1>2. MigrationInv' /\ recorded \subseteq recorded'
  BY <1>1, RunnerStepKeeps, RecordGrows DEF LifecycleInv
<1>3. UNCHANGED <<main, stopping, clients, work, ended>>
  BY DEF MigrationStep, processVars
<1>4. SchemaInv'
  BY <1>2, <1>3, SchemaStays
<1>5. QueueInv' /\ BooksInv'
  BY <1>3, NobodyMoves DEF clients
<1>6. MainInv' /\ UserInv'
  BY <1>3 DEF LifecycleInv, MainInv, UserInv, UserOK, main, stopping, clients, work
<1>7. QED
  BY <1>2, <1>4, <1>5, <1>6 DEF LifecycleInv

-----------------------------------------------------------------------------
(* The pool and its users.                                                 *)

\* One more asks for a client: Request, Fire, and a turn that is not the last.
LEMMA AskQueues ==
    ASSUME QueueInv, NEW u \in Users, user \in [Users -> States],
           user[u] # "waiting", Ask(u)
    PROVE  QueueInv'
<1>1. queue' = Append(queue, u) /\ user' = [user EXCEPT ![u] = "waiting"]
  BY DEF Ask
<1>2. /\ queue' \in Seq(Users) /\ Len(queue') = Len(queue) + 1
      /\ \A i \in 1 .. Len(queue) : queue'[i] = queue[i]
      /\ queue'[Len(queue) + 1] = u /\ Len(queue) \in Nat
  BY <1>1, AppendProperties, LenProperties DEF QueueInv
<1>3. \A i \in 1 .. Len(queue) : queue[i] \in Users /\ queue[i] # u
  BY ElementOfSeq DEF QueueInv
<1>4. \A i \in 1 .. Len(queue') : user'[queue'[i]] = "waiting"
  BY <1>1, <1>2, <1>3 DEF QueueInv
<1>5. ASSUME NEW v \in Users, user'[v] = "waiting"
      PROVE  \E i \in 1 .. Len(queue') : queue'[i] = v
  <2>1. CASE v = u
    BY <1>2, <2>1
  <2>2. CASE v # u
    <3>1. user[v] = "waiting"
      BY <1>1, <1>5, <2>2
    <3>2. PICK i \in 1 .. Len(queue) : queue[i] = v
      BY <3>1 DEF QueueInv
    <3>3. i \in 1 .. Len(queue') /\ queue'[i] = v
      BY <1>2, <3>2
    <3>4. QED
      BY <3>3
  <2>3. QED
    BY <2>1, <2>2
<1>6. \A i, j \in 1 .. Len(queue') : queue'[i] = queue'[j] => i = j
  BY <1>2, <1>3 DEF QueueInv
<1>7. QED
  BY <1>2, <1>4, <1>5, <1>6 DEF QueueInv

\* One who does not wait becomes something else that does not wait.
LEMMA QueueStays ==
    ASSUME QueueInv, NEW u \in Users, user \in [Users -> States],
           user[u] # "waiting", NEW s, s # "waiting",
           user' = [user EXCEPT ![u] = s], UNCHANGED queue
    PROVE  QueueInv'
<1>1. \A i \in 1 .. Len(queue) : queue[i] \in Users /\ queue[i] # u
  BY ElementOfSeq DEF QueueInv
<1>2. \A v \in Users : user'[v] = "waiting" <=> user[v] = "waiting"
  OBVIOUS
<1>3. QED
  BY <1>1, <1>2 DEF QueueInv

\* One who has no client becomes something else without one.
LEMMA BooksStay ==
    ASSUME BooksInv, NEW u \in Users, user \in [Users -> States],
           user[u] # "holding", NEW s, s # "holding",
           user' = [user EXCEPT ![u] = s], UNCHANGED <<out, idle>>
    PROVE  BooksInv'
<1>1. Holders' = Holders
  BY DEF Holders
<1>2. QED
  BY <1>1 DEF BooksInv

\* One gives its client back, whatever becomes of it.
LEMMA ReleaseKeepsBooks ==
    ASSUME BooksInv, NEW u \in Users, user \in [Users -> States],
           user[u] = "holding", NEW s, s # "holding",
           user' = [user EXCEPT ![u] = s], Release
    PROVE  BooksInv'
<1>1. Holders' = Holders \ {u} /\ u \in Holders
  BY DEF Holders
<1>2. IsFiniteSet(Holders') /\ Cardinality(Holders') = Cardinality(Holders) - 1
  BY <1>1, FS_RemoveElement DEF BooksInv
<1>3. out \in Nat /\ out' = out - 1 /\ idle' \in {idle, idle + 1}
  BY OutIsNat DEF Release
<1>4. QED
  BY <1>2, <1>3, PoolHasClients DEF BooksInv

LEMMA RequestKeeps ==
    ASSUME LifecycleInv, NEW c \in Users, Request(c)
    PROVE  LifecycleInv'
<1>1. /\ c \in Calls /\ user[c] = "none" /\ server \in {"open", "closing"}
      /\ UNCHANGED <<migrationVars, main, stopping, clients, ended>>
  BY DEF Request
<1>2. MigrationInv' /\ MainInv' /\ SchemaInv'
  BY <1>1, NoMigrationStep DEF LifecycleInv, MainInv, SchemaInv, main, stopping, clients, migrationVars
<1>3. user \in [Users -> States] /\ turns \in [Users -> 0 .. MaxTurns]
      /\ QueueInv /\ BooksInv /\ server' = server /\ UNCHANGED <<out, idle>>
  BY <1>1 DEF LifecycleInv, UserInv, stopping, clients
<1>4. CASE \E s \in {"refused", "answered"} :
             user' = [user EXCEPT ![c] = s] /\ UNCHANGED <<queue, turns>>
  <2>1. PICK s \in {"refused", "answered"} :
             user' = [user EXCEPT ![c] = s] /\ UNCHANGED <<queue, turns>>
    BY <1>4
  <2>2. QueueInv' /\ BooksInv'
    BY <1>1, <1>3, <2>1, QueueStays, BooksStay
  <2>3. UserInv'
    BY <1>1, <1>3, <2>1 DEF LifecycleInv, UserInv, UserOK, States, OwnEnds
  <2>4. QED
    BY <1>2, <2>2, <2>3 DEF LifecycleInv
<1>5. CASE \E n \in 1 .. MaxTurns : turns' = [turns EXCEPT ![c] = n] /\ Ask(c)
  <2>1. PICK n \in 1 .. MaxTurns : turns' = [turns EXCEPT ![c] = n] /\ Ask(c)
    BY <1>5
  <2>2. user' = [user EXCEPT ![c] = "waiting"]
    BY <2>1 DEF Ask
  <2>3. QueueInv' /\ BooksInv'
    BY <1>1, <1>3, <2>1, <2>2, AskQueues, BooksStay
  <2>4. UserInv'
    BY <1>1, <1>3, <2>1, <2>2, BoundsAreCounted
    DEF LifecycleInv, UserInv, UserOK, States, OwnEnds
  <2>5. QED
    BY <1>2, <2>3, <2>4 DEF LifecycleInv
<1>6. QED
  BY <1>4, <1>5 DEF Request

LEMMA FireKeeps ==
    ASSUME LifecycleInv, NEW j \in Users, Fire(j)
    PROVE  LifecycleInv'
<1>1. j \in Jobs /\ user[j] = "none" /\ phase \in {"listening", "up"} /\ j \notin Calls
  BY UsersDiffer DEF Fire, Jobs
<1>2. CASE pool = "ending"
  <2>1. server = "closed" /\ "rejection" \in Causes
    BY <1>2 DEF LifecycleInv, MainInv, Causes
  <2>2. QED
    BY <1>2, <2>1, QuietExitKeeps DEF Fire
<1>3. CASE pool # "ending"
  <2>1. PICK n \in 1 .. MaxTurns : turns' = [turns EXCEPT ![j] = n]
    BY <1>3, BoundsAreCounted DEF Fire
  <2>2. Ask(j) /\ UNCHANGED <<migrationVars, main, stopping, clients, ended>>
    BY <1>3 DEF Fire
  <2>3. user' = [user EXCEPT ![j] = "waiting"]
    BY <2>2 DEF Ask
  <2>4. MigrationInv' /\ MainInv' /\ SchemaInv'
    BY <2>2, NoMigrationStep DEF LifecycleInv, MainInv, SchemaInv, main, stopping, clients, migrationVars
  <2>5. user \in [Users -> States] /\ turns \in [Users -> 0 .. MaxTurns]
        /\ QueueInv /\ BooksInv /\ server' = server /\ UNCHANGED <<out, idle>>
    BY <2>2 DEF LifecycleInv, UserInv, stopping, clients
  <2>6. QueueInv' /\ BooksInv'
    BY <1>1, <2>2, <2>3, <2>5, AskQueues, BooksStay
  <2>7. UserInv'
    BY <1>1, <2>1, <2>3, <2>5, BoundsAreCounted
    DEF LifecycleInv, UserInv, UserOK, States, OwnEnds
  <2>8. QED
    BY <2>4, <2>6, <2>7 DEF LifecycleInv
<1>4. QED
  BY <1>2, <1>3

LEMMA ConnectKeeps ==
    ASSUME LifecycleInv, Connect
    PROVE  LifecycleInv'
<1> DEFINE first == Head(queue)
<1>1. /\ queue # <<>> /\ out < PoolSize
      /\ user' = [user EXCEPT ![first] = "holding"] /\ queue' = Tail(queue)
      /\ out' = out + 1 /\ idle' = IF idle > 0 THEN idle - 1 ELSE 0
      /\ UNCHANGED <<migrationVars, main, stopping, pool, turns, ended>>
  BY DEF Connect
<1>2. MigrationInv' /\ MainInv' /\ SchemaInv'
  BY <1>1, NoMigrationStep DEF LifecycleInv, MainInv, SchemaInv, main, stopping, migrationVars
<1>3. user \in [Users -> States] /\ turns \in [Users -> 0 .. MaxTurns]
      /\ QueueInv /\ BooksInv /\ server' = server
  BY <1>1 DEF LifecycleInv, UserInv, stopping
<1>4. /\ first \in Users /\ first = queue[1] /\ Len(queue) \in Nat \ {0}
      /\ queue' \in Seq(Users) /\ Len(queue') = Len(queue) - 1
      /\ \A i \in 1 .. Len(queue') : queue'[i] = queue[i + 1]
  BY <1>1, <1>3, HeadTailProperties, EmptySeq DEF QueueInv
<1>5. user[first] = "waiting"
  BY <1>3, <1>4 DEF QueueInv
<1> HIDE DEF first
<1>6. QueueInv'
  <2>1. \A i \in 1 .. Len(queue') : queue'[i] = queue[i + 1] /\ queue[i + 1] # first
    BY <1>3, <1>4 DEF QueueInv
  <2>2. \A i \in 1 .. Len(queue) : queue[i] \in Users
    BY <1>3, ElementOfSeq DEF QueueInv
  <2>3. \A i \in 1 .. Len(queue') : user'[queue'[i]] = "waiting"
    BY <1>1, <1>3, <1>4, <2>1, <2>2 DEF QueueInv
  <2>4. ASSUME NEW v \in Users, user'[v] = "waiting"
        PROVE  \E i \in 1 .. Len(queue') : queue'[i] = v
    <3>1. v # first /\ user[v] = "waiting"
      BY <1>1, <1>3, <1>4, <2>4
    <3>2. PICK i \in 1 .. Len(queue) : queue[i] = v
      BY <1>3, <3>1 DEF QueueInv
    <3>3. i - 1 \in 1 .. Len(queue') /\ queue'[i - 1] = v
      BY <1>4, <3>1, <3>2
    <3>4. QED
      BY <3>3
  <2>5. ASSUME NEW i \in 1 .. Len(queue'), NEW k \in 1 .. Len(queue'), queue'[i] = queue'[k]
        PROVE  i = k
    <3>1. i + 1 \in 1 .. Len(queue) /\ k + 1 \in 1 .. Len(queue) /\ queue[i + 1] = queue[k + 1]
      BY <1>4, <2>5
    <3>2. i + 1 = k + 1
      BY <1>3, <3>1 DEF QueueInv
    <3>3. QED
      BY <1>4, <3>2
  <2>6. QED
    BY <1>4, <2>3, <2>4, <2>5 DEF QueueInv
<1>7. BooksInv'
  <2>1. Holders' = Holders \cup {first} /\ first \notin Holders
    BY <1>1, <1>3, <1>4, <1>5 DEF Holders
  <2>2. IsFiniteSet(Holders') /\ Cardinality(Holders') = Cardinality(Holders) + 1
    BY <1>3, <2>1, FS_AddElement DEF BooksInv
  <2>3. out \in Nat
    BY <1>3, OutIsNat
  <2>4. QED
    BY <1>1, <1>3, <2>2, <2>3, PoolHasClients DEF BooksInv
<1>8. UserInv'
  BY <1>1, <1>3, <1>4, <1>5, BoundsAreCounted DEF LifecycleInv, UserInv, UserOK, States, Causes, OwnEnds
<1>9. QED
  BY <1>2, <1>6, <1>7, <1>8 DEF LifecycleInv

LEMMA ReturnKeeps ==
    ASSUME LifecycleInv, NEW u \in Users, Return(u)
    PROVE  LifecycleInv'
<1>1. user[u] = "holding"
  BY DEF Return
<1>2. CASE turns[u] > 1 /\ pool = "ending"
  <2>1. server = "closed" /\ "rejection" \in Causes
    BY <1>2 DEF LifecycleInv, MainInv, Causes
  <2>2. QED
    BY <1>2, <2>1, QuietExitKeeps DEF Return
<1>3. CASE ~(turns[u] > 1 /\ pool = "ending")
  <2>1. /\ turns' = [turns EXCEPT ![u] = @ - 1] /\ Release
        /\ UNCHANGED <<migrationVars, main, stopping, pool, ended>>
        /\ IF turns[u] > 1 THEN Ask(u)
           ELSE user' = [user EXCEPT ![u] = Finished(u)] /\ UNCHANGED queue
    BY <1>3 DEF Return
  <2>2. MigrationInv' /\ MainInv' /\ SchemaInv'
    BY <2>1, NoMigrationStep DEF LifecycleInv, MainInv, SchemaInv, main, stopping, migrationVars
  <2>3. user \in [Users -> States] /\ turns \in [Users -> 0 .. MaxTurns]
        /\ QueueInv /\ BooksInv /\ server' = server
    BY <2>1 DEF LifecycleInv, UserInv, stopping
  <2>4. turns[u] \in 1 .. MaxTurns /\ MaxTurns \in Nat
    BY <1>1, BoundsAreCounted DEF LifecycleInv, UserInv, UserOK
  <2>5. CASE turns[u] > 1
    <3>1. Ask(u) /\ user' = [user EXCEPT ![u] = "waiting"]
      BY <2>1, <2>5 DEF Ask
    <3>2. QueueInv' /\ BooksInv'
      BY <1>1, <2>1, <2>3, <3>1, AskQueues, ReleaseKeepsBooks
    <3>3. turns' \in [Users -> 0 .. MaxTurns] /\ turns'[u] = turns[u] - 1
          /\ user' \in [Users -> States] /\ user'[u] = "waiting"
      BY <2>1, <2>3, <2>4, <3>1 DEF States
    <3>4. ASSUME NEW v \in Users PROVE UserOK(v)'
      <4>0. UserOK(v) /\ UserOK(u)
        BY DEF LifecycleInv, UserInv
      <4>1. CASE v = u
        BY <1>1, <2>3, <2>4, <2>5, <3>3, <4>0, <4>1 DEF UserOK, OwnEnds
      <4>2. CASE v # u
        BY <2>1, <2>3, <3>1, <4>0, <4>2 DEF UserOK
      <4>3. QED
        BY <4>1, <4>2
    <3>5. QED
      BY <2>2, <3>2, <3>3, <3>4 DEF LifecycleInv, UserInv
  <2>6. CASE ~(turns[u] > 1)
    <3>1. user' = [user EXCEPT ![u] = Finished(u)] /\ UNCHANGED queue
          /\ Finished(u) \in {"answered", "none"}
      BY <2>1, <2>6 DEF Finished
    <3>2. QueueInv' /\ BooksInv'
      BY <1>1, <2>1, <2>3, <3>1, QueueStays, ReleaseKeepsBooks
    <3>3. turns' \in [Users -> 0 .. MaxTurns] /\ user' \in [Users -> States]
      BY <2>1, <2>3, <2>4, <3>1 DEF States
    <3>4. ASSUME NEW v \in Users PROVE UserOK(v)'
      <4>0. UserOK(v)
        BY DEF LifecycleInv, UserInv
      <4>1. CASE v = u
        BY <2>3, <3>1, <3>3, <4>1 DEF UserOK, OwnEnds
      <4>2. CASE v # u
        BY <2>1, <2>3, <3>1, <4>0, <4>2 DEF UserOK
      <4>3. QED
        BY <4>1, <4>2
    <3>5. QED
      BY <2>2, <3>2, <3>3, <3>4 DEF LifecycleInv, UserInv
  <2>7. QED
    BY <2>5, <2>6
<1>4. QED
  BY <1>2, <1>3

LEMMA StatementFailsKeeps ==
    ASSUME LifecycleInv, NEW u \in Users, StatementFails(u)
    PROVE  LifecycleInv'
<1>1. user[u] = "holding" /\ faults' \in Nat
  BY DEF LifecycleInv, MigrationInv, StatementFails
<1>2. CASE u \in Jobs
  <2>1. "fault" \in Causes /\ "fault" \notin OwnEnds
    BY DEF Causes, OwnEnds
  <2>2. QED
    BY <1>1, <1>2, <2>1, ExitKeeps DEF StatementFails
<1>3. CASE u \notin Jobs
  <2>1. /\ user' = [user EXCEPT ![u] = "answered"] /\ turns' = [turns EXCEPT ![u] = 0]
        /\ Release /\ UNCHANGED <<refused, tracking, schema, recorded, runner>>
        /\ UNCHANGED <<main, stopping, pool, queue, ended>>
    BY <1>3 DEF StatementFails
  <2>2. MigrationInv' /\ recorded \subseteq recorded'
    BY <1>1, <2>1, NothingMigrates
  <2>3. SchemaInv'
    BY <2>1, <2>2, SchemaStays
  <2>4. MainInv'
    BY <2>1 DEF LifecycleInv, MainInv, main, stopping
  <2>5. user \in [Users -> States] /\ turns \in [Users -> 0 .. MaxTurns]
        /\ QueueInv /\ BooksInv /\ server' = server
    BY <2>1 DEF LifecycleInv, UserInv, stopping
  <2>6. QueueInv' /\ BooksInv'
    BY <1>1, <2>1, <2>5, QueueStays, ReleaseKeepsBooks
  <2>7. UserInv'
    BY <2>1, <2>5, BoundsAreCounted DEF LifecycleInv, UserInv, UserOK, States, OwnEnds
  <2>8. QED
    BY <2>2, <2>3, <2>4, <2>6, <2>7 DEF LifecycleInv
<1>4. QED
  BY <1>2, <1>3

LEMMA ExpireKeeps ==
    ASSUME LifecycleInv, Expire
    PROVE  LifecycleInv'
<1>1. /\ idle > 0 /\ idle' = idle - 1
      /\ UNCHANGED <<migrationVars, main, stopping, pool, out, work, ended>>
  BY DEF Expire
<1>2. MigrationInv' /\ MainInv' /\ SchemaInv' /\ UserInv' /\ QueueInv'
  BY <1>1, NoMigrationStep
  DEF LifecycleInv, MainInv, SchemaInv, UserInv, UserOK, QueueInv, main, stopping, work, migrationVars
<1>3. out \in Nat
  BY OutIsNat DEF LifecycleInv
<1>4. BooksInv'
  BY <1>1, <1>3, PoolHasClients DEF LifecycleInv, BooksInv, Holders, work
<1>5. QED
  BY <1>2, <1>4 DEF LifecycleInv

-----------------------------------------------------------------------------
(* shutdown(), and faults.                                                 *)

LEMMA SignalKeeps ==
    ASSUME LifecycleInv, Signal
    PROVE  LifecycleInv'
<1>1. /\ phase = "up" /\ shutdowns + (IF pool = "ending" THEN 1 ELSE 0) < MaxSignals
      /\ shutdowns' = shutdowns + 1
      /\ server' = IF server = "open" THEN "closing" ELSE server
      /\ UNCHANGED <<migrationVars, main, clients, work, ended>>
  BY DEF Signal
<1>2. MigrationInv' /\ SchemaInv' /\ QueueInv' /\ BooksInv'
  BY <1>1, NoMigrationStep, NobodyMoves DEF LifecycleInv, SchemaInv, main, clients, migrationVars
<1>3. MainInv'
  BY <1>1, BoundsAreCounted DEF LifecycleInv, MainInv, Servers, main, clients
<1>4. UserInv'
  BY <1>1 DEF LifecycleInv, MainInv, UserInv, UserOK, Servers, work
<1>5. QED
  BY <1>2, <1>3, <1>4 DEF LifecycleInv

LEMMA ShutdownKeeps ==
    ASSUME LifecycleInv, Shutdown
    PROVE  LifecycleInv'
<1>1. CASE Close
  <2>1. /\ server = "closing" /\ InFlight = {} /\ server' = "closed"
        /\ UNCHANGED <<migrationVars, main, shutdowns, clients, work, ended>>
    BY <1>1 DEF Close
  <2>2. MigrationInv' /\ SchemaInv' /\ QueueInv' /\ BooksInv'
    BY <2>1, NoMigrationStep, NobodyMoves DEF LifecycleInv, SchemaInv, main, clients, migrationVars
  <2>3. MainInv' /\ UserInv'
    BY <2>1 DEF LifecycleInv, MainInv, UserInv, UserOK, InFlight, Servers, main, clients, work
  <2>4. QED
    BY <2>2, <2>3 DEF LifecycleInv
<1>2. CASE End /\ pool = "ending"
  <2>1. server = "closed" /\ Exit("pool") /\ UNCHANGED faults /\ "pool" \in Causes
    BY <1>2 DEF End, Causes
  <2>2. QED
    BY <2>1, QuietExitKeeps
<1>3. CASE End /\ pool # "ending"
  <2>1. /\ server = "closed" /\ shutdowns > 0 /\ shutdowns' = shutdowns - 1
        /\ pool' = "ending" /\ idle' = 0
        /\ UNCHANGED <<migrationVars, main, server, out, work, ended>>
    BY <1>3 DEF End
  <2>2. MigrationInv' /\ SchemaInv' /\ UserInv' /\ QueueInv'
    BY <2>1, NoMigrationStep
    DEF LifecycleInv, SchemaInv, UserInv, UserOK, QueueInv, main, work, migrationVars
  <2>3. MainInv'
    BY <2>1, BoundsAreCounted DEF LifecycleInv, MainInv, main
  <2>4. BooksInv'
    BY <2>1, OutIsNat DEF LifecycleInv, BooksInv, Holders, work
  <2>5. QED
    BY <2>2, <2>3, <2>4 DEF LifecycleInv
<1>4. CASE Drained
  <2>1. server = "closed" /\ "shutdown" \in Causes
    BY <1>4 DEF LifecycleInv, MainInv, Drained, Causes
  <2>2. QED
    BY <1>4, <2>1, QuietExitKeeps DEF Drained
<1>5. QED
  BY <1>1, <1>2, <1>3, <1>4 DEF Shutdown

LEMMA DieKeeps ==
    ASSUME LifecycleInv, Die
    PROVE  LifecycleInv'
<1>1. faults' \in Nat /\ "fault" \in Causes /\ "fault" \notin OwnEnds
  BY DEF LifecycleInv, MigrationInv, Die, Causes, OwnEnds
<1>2. QED
  BY <1>1, ExitKeeps DEF Die

LEMMA StutterKeeps ==
    ASSUME LifecycleInv, UNCHANGED vars
    PROVE  LifecycleInv'
<1>1. UNCHANGED <<migrationVars, main, stopping, clients, work, ended>>
  BY DEF vars, processVars
<1>2. MigrationInv' /\ QueueInv' /\ BooksInv'
  BY <1>1, NoMigrationStep, NobodyMoves DEF clients
<1>3. MainInv' /\ SchemaInv' /\ UserInv'
  BY <1>1 DEF LifecycleInv, MainInv, SchemaInv, UserInv, UserOK, main, stopping, clients, work, migrationVars
<1>4. QED
  BY <1>2, <1>3 DEF LifecycleInv

LEMMA StepKeeps ==
    ASSUME LifecycleInv, [Next]_vars
    PROVE  LifecycleInv'
BY BootKeeps, MainKeeps, MigrationStepKeeps, ForceExitKeeps, SignalKeeps, ShutdownKeeps,
   RequestKeeps, FireKeeps, ReturnKeeps, StatementFailsKeeps, ConnectKeeps, ExpireKeeps,
   DieKeeps, StutterKeeps DEF Next

-----------------------------------------------------------------------------
(* The theorems.                                                           *)

LEMMA LifecycleInvHolds == Spec => []LifecycleInv
BY InitInv, StepKeeps, PTL DEF Spec

\* The types, and the pool's books: whoever waits for a client is in the queue, once,
\* and as many clients are out as there are calls and runs that have one.
THEOREM LifecycleTypeCorrect == Spec => []TypeOK
BY LifecycleInvHolds, LifecycleTypes, PTL

\* No shutdown, by however many signals and beside whichever jobs, cuts off a request
\* that is being served (index.ts:36-46).
THEOREM ShutdownIsGraceful == Spec => []ShutdownCutsNobodyOff
BY LifecycleInvHolds, LifecycleCuts, PTL

\* In development nobody is served on a schema that is not all there, whatever other
\* processes do to it at the same time (index.ts:15-17, 33).
THEOREM DevelopmentServesWholeSchema == Spec => []ServesOnWholeSchema
BY LifecycleInvHolds, LifecycleServes, PTL

\* A server that migrates, fails and is killed leaves the schema as whole as a run of
\* `npm run migrate` does (index.ts:15-17, migrate.ts:43-54).
THEOREM ServersMigrateAtomically == Spec => []SchemaIsWhole
<1>1. LifecycleInv => SchemaIsWhole
  BY DEF LifecycleInv, MigrationInv
<1>2. QED
  BY <1>1, LifecycleInvHolds, PTL

\* A process ends with 0 only after app.close() and pool.end() have both waited: no
\* request and no run of a job has a client any more (index.ts:42-45).
THEOREM ShutdownDrains == Spec => ExitsClean
<1> DEFINE Clean == ended' # ended /\ ended'.cause = "shutdown"
                      => server = "closed" /\ InFlight = {} /\ Holders = {}
<1>1. ASSUME LifecycleInv, Next PROVE Clean
  <2>1. SUFFICES ASSUME ended' # ended, ended'.cause = "shutdown"
                 PROVE  server = "closed" /\ InFlight = {} /\ Holders = {}
    OBVIOUS
  <2>2. ASSUME NEW cause, cause # "shutdown" PROVE ~Exit(cause)
    BY <2>1, <2>2 DEF Exit
  <2>3. ~Boot
    BY <2>1 DEF Boot, NotEnded
  <2>4. Drained
    BY <1>1, <2>1, <2>2, <2>3
    DEF Next, Main, Shutdown, Migrated, MigrationThrows, Build, Listen, MigrationStep, processVars,
        ForceExit, Signal, Close, End, Request, Fire, Return, StatementFails, Connect, Expire, Die
  <2>5. pool = "ending" /\ out = 0
    BY <2>4 DEF Drained
  <2>6. server = "closed"
    BY <1>1, <2>5 DEF LifecycleInv, MainInv
  <2>7. Holders = {}
    BY <1>1, <2>5, OutIsNat DEF LifecycleInv
  <2>8. QED
    BY <1>1, <2>6, <2>7, ServedMeansServer
<1>2. ASSUME UNCHANGED vars PROVE Clean
  BY <1>2 DEF vars, processVars
<1>3. LifecycleInv /\ [Next]_vars => [Clean]_vars
  BY <1>1, <1>2
<1>4. QED
  BY <1>3, LifecycleInvHolds, PTL DEF Spec, ExitsClean

\* A server that migrates at boot, and whatever ends it, is one more such runner: the
\* files go in one at a time, whole, in their order and for good (index.ts:15-17).
THEOREM ServersRefineHistory == Spec => FilesGoInOneByOne
<1>1. Init => History!Init
  BY DEF Init, MigrationInit, History!Init
<1>2. ASSUME LifecycleInv, [Next]_vars
      PROVE  History!Next \/ UNCHANGED <<schema, recorded, refused>>
  <2>1. MigrationInv
    BY <1>2 DEF LifecycleInv
  <2>2. ASSUME NEW cause, Exit(cause) PROVE History!Next \/ UNCHANGED <<schema, recorded, refused>>
    BY <2>1, <2>2, DisconnectIsHistory, SelfMigrates DEF Exit
  <2>3. CASE Boot
    BY <2>1, <2>3, RunnerStepIsHistory, SelfMigrates DEF Boot, migrationVars
  <2>4. CASE MigrationStep
    BY <2>1, <2>4, RunnerStepIsHistory DEF MigrationStep
  <2>5. CASE Main \/ ForceExit \/ Signal \/ Shutdown \/ Connect \/ Expire \/ Die
    BY <2>2, <2>5
    DEF Main, Migrated, MigrationThrows, Build, Listen, ForceExit, Signal, Shutdown, Close, End,
        Drained, Connect, Expire, Die, migrationVars
  <2>6. ASSUME NEW u \in Users, Request(u) \/ Fire(u) \/ Return(u) \/ StatementFails(u)
        PROVE  History!Next \/ UNCHANGED <<schema, recorded, refused>>
    BY <2>2, <2>6 DEF Request, Fire, Return, StatementFails, migrationVars
  <2>7. CASE UNCHANGED vars
    BY <2>7 DEF vars, migrationVars
  <2>8. QED
    BY <1>2, <2>3, <2>4, <2>5, <2>6, <2>7 DEF Next
<1>3. LifecycleInv /\ [Next]_vars => [History!Next]_<<schema, recorded, refused>>
  BY <1>2
<1>4. QED
  BY <1>1, <1>3, LifecycleInvHolds, PTL DEF Spec, FilesGoInOneByOne, History!Spec
=============================================================================
