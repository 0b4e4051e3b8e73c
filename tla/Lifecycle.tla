------------------------------- MODULE Lifecycle -------------------------------
(***************************************************************************)
(* A server process from boot to exit: main() and shutdown() of index.ts,  *)
(* the timers they set, the pool of db/client.ts, and all that takes       *)
(* clients from it: requests, /readyz among them, and the runs of the two  *)
(* jobs, whose promises nobody waits for.  In development the process      *)
(* first runs migrate(), and others may run it at any time (Migrations).   *)
(*                                                                         *)
(* What a request or a job does with a client is the business of the other *)
(* modules: here it is a number of turns, each of which waits for a client,*)
(* has it, and gives it back.                                              *)
(***************************************************************************)
EXTENDS Migrations, Sequences

CONSTANTS
    Self,           \* the process, which is also a runner of migrate()
    Calls,          \* requests that may be sent to it
    Cleanups,       \* runs of cleanupExpired that may overlap; none: interval 0
    Verifications,  \* runs of verifyBalances that may overlap; none: interval 0
    PoolSize,       \* max: 20
    MaxTurns,       \* bound on the turns of a call or run
    MaxSignals      \* bound on the signals of one process

ASSUME SelfMigrates == Self \in Runners
ASSUME UsersDiffer == Calls \cap (Cleanups \cup Verifications) = {} /\ Cleanups \cap Verifications = {}
ASSUME PoolHasClients == PoolSize \in Nat \ {0}
ASSUME BoundsAreCounted == MaxTurns \in Nat \ {0} /\ MaxSignals \in Nat

Jobs == Cleanups \cup Verifications
Users == Calls \cup Jobs

VARIABLES
    nodeEnv,    \* config.nodeEnv
    phase,      \* where main() is; "down" when there is no process
    server,     \* the listening socket: off, open, closing, closed
    shutdowns,  \* how many shutdown() are waiting for app.close()
    pool,       \* open; ending, when one shutdown() is waiting for pool.end()
    out, idle,  \* clients of the pool that somebody has, and that nobody has
    queue,      \* those who wait for a client, in order
    user,       \* where each call and run is, or what became of it
    turns,      \* how many turns it has still to go
    ended       \* history: what ended the process, and what its server was doing

main == <<nodeEnv, phase>>
stopping == <<server, shutdowns>>
clients == <<pool, out, idle>>
work == <<queue, user, turns>>
processVars == <<main, stopping, clients, work, ended>>
vars == <<migrationVars, processVars>>

Holders == {u \in Users : user[u] = "holding"}
InFlight == {c \in Calls : user[c] \in {"waiting", "holding"}}

\* What may end a process.
Causes == {"shutdown", "timer", "pool", "rejection", "fault", "migration"}

NotEnded == [cause |-> "none", server |-> "off"]

Init ==
    /\ MigrationInit
    /\ nodeEnv = "production" /\ phase = "down" /\ server = "off"
    /\ shutdowns = 0 /\ pool = "open" /\ out = 0 /\ idle = 0 /\ queue = <<>>
    /\ user = [u \in Users |-> "none"]
    /\ turns = [u \in Users |-> 0]
    /\ ended = NotEnded

-----------------------------------------------------------------------------
(* The end of the process, of its connections and of what they were doing. *)

Exit(cause) ==
    /\ ended' = [cause |-> cause, server |-> server]
    /\ phase' = "down" /\ server' = "off" /\ nodeEnv' = "production"
    /\ shutdowns' = 0 /\ pool' = "open" /\ out' = 0 /\ idle' = 0 /\ queue' = <<>>
    /\ user' = [u \in Users |-> IF u \in Jobs THEN "none"
                                ELSE IF u \in InFlight THEN cause ELSE user[u]]
    /\ turns' = [u \in Users |-> 0]
    /\ at' = [at EXCEPT ![Self] = "idle"]
    /\ stmt' = [stmt EXCEPT ![Self] = 0]
    /\ file' = [file EXCEPT ![Self] = 0]
    /\ Disconnect(Self)
    /\ UNCHANGED <<refused, tracking>>

-----------------------------------------------------------------------------
(* main().                                                                 *)

\* loadConfig, createDbContext, and the beginning of migrate().
Boot ==
    /\ phase = "down"
    /\ nodeEnv' \in {"development", "production"}
    /\ IF nodeEnv' = "development"
         THEN phase' = "migrating" /\ Start(Self)
         ELSE phase' = "building" /\ UNCHANGED migrationVars
    /\ ended' = NotEnded
    /\ UNCHANGED <<stopping, clients, work>>

\* Mutant of Migrated: nobody waits for migrate().
MigratedOrNot ==
    /\ phase = "migrating"
    /\ phase' = "building"
    /\ UNCHANGED <<migrationVars, nodeEnv, stopping, clients, work, ended>>

\* migrate() returns, or throws into main().catch.
Migrated ==
    /\ phase = "migrating" /\ at[Self] = "done"
    /\ phase' = "building"
    /\ UNCHANGED <<migrationVars, nodeEnv, stopping, clients, work, ended>>

MigrationThrows ==
    /\ phase = "migrating" /\ at[Self] \in {"failed", "broken"}
    /\ Exit("migration")
    /\ UNCHANGED faults

\* buildApp, and the two intervals.
Build ==
    /\ phase = "building"
    /\ phase' = "listening"
    /\ UNCHANGED <<migrationVars, nodeEnv, stopping, clients, work, ended>>

\* listen, the timer that is to force the exit, and the signal handlers.
Listen ==
    /\ phase = "listening"
    /\ phase' = "up" /\ server' = "open"
    /\ UNCHANGED <<migrationVars, nodeEnv, shutdowns, clients, work, ended>>

\* forceExit: it runs from boot, and while the server listens unref() makes no
\* difference.
ForceExit ==
    /\ phase = "up"
    /\ Exit("timer")
    /\ UNCHANGED faults

-----------------------------------------------------------------------------
(* The pool and its users.                                                 *)

\* pool.connect().
Ask(u) ==
    /\ user' = [user EXCEPT ![u] = "waiting"]
    /\ queue' = Append(queue, u)

\* A request comes in; one that needs no client (/healthz, /metrics, most 400s)
\* is answered.  A server that is closing answers 503.
Request(c) ==
    /\ c \in Calls /\ user[c] = "none" /\ server \in {"open", "closing"}
    /\ IF server = "closing" THEN user' = [user EXCEPT ![c] = "refused"] /\ UNCHANGED <<queue, turns>>
       ELSE \/ user' = [user EXCEPT ![c] = "answered"] /\ UNCHANGED <<queue, turns>>
            \/ /\ \E n \in 1 .. MaxTurns : turns' = [turns EXCEPT ![c] = n]
               /\ Ask(c)
    /\ UNCHANGED <<migrationVars, main, stopping, clients, ended>>

\* An interval fires: that of the cleanup until the end, that of the
\* verification until the first signal.  A pool that is ending rejects, and
\* nobody handles the rejection.
Fire(j) ==
    /\ j \in Jobs /\ user[j] = "none" /\ phase \in {"listening", "up"}
    /\ j \in Verifications => server \in {"off", "open"}
    /\ IF pool = "ending"
         THEN Exit("rejection") /\ UNCHANGED faults
         ELSE /\ \E n \in 1 .. (IF j \in Cleanups THEN 1 ELSE MaxTurns) :
                   turns' = [turns EXCEPT ![j] = n]
              /\ Ask(j)
              /\ UNCHANGED <<migrationVars, main, stopping, clients, ended>>

\* Mutant of Connect: the last in the queue is served first.
ConnectLast ==
    /\ queue # <<>> /\ pool = "open" /\ out < PoolSize
    /\ user' = [user EXCEPT ![queue[Len(queue)]] = "holding"]
    /\ queue' = SubSeq(queue, 1, Len(queue) - 1)
    /\ out' = out + 1
    /\ idle' = IF idle > 0 THEN idle - 1 ELSE 0
    /\ UNCHANGED <<migrationVars, main, stopping, pool, turns, ended>>

\* The first in the queue gets a client, an idle one if there is one.  A pool that
\* is ending serves nobody any more.
Connect ==
    /\ queue # <<>> /\ pool = "open" /\ out < PoolSize
    /\ user' = [user EXCEPT ![Head(queue)] = "holding"]
    /\ queue' = Tail(queue)
    /\ out' = out + 1
    /\ idle' = IF idle > 0 THEN idle - 1 ELSE 0
    /\ UNCHANGED <<migrationVars, main, stopping, pool, turns, ended>>

\* Mutant of Release: the client is not given back.
Keep == UNCHANGED <<out, idle>>

\* The client goes back; a pool that is ending throws it away.
Release ==
    /\ out' = out - 1
    /\ idle' = IF pool = "open" THEN idle + 1 ELSE idle

Finished(u) == IF u \in Calls THEN "answered" ELSE "none"

\* A turn is over; the last one is the end, and another asks again at once.
Return(u) ==
    /\ user[u] = "holding"
    /\ IF turns[u] > 1 /\ pool = "ending"
         THEN Exit("rejection") /\ UNCHANGED faults
         ELSE /\ turns' = [turns EXCEPT ![u] = @ - 1]
              /\ Release
              /\ IF turns[u] > 1 THEN Ask(u)
                 ELSE user' = [user EXCEPT ![u] = Finished(u)] /\ UNCHANGED queue
              /\ UNCHANGED <<migrationVars, main, stopping, pool, ended>>

\* A client that has been idle for long is closed.
Expire ==
    /\ idle > 0
    /\ idle' = idle - 1
    /\ UNCHANGED <<migrationVars, main, stopping, pool, out, work, ended>>

-----------------------------------------------------------------------------
(* shutdown().                                                             *)

\* A signal, once its handler is there: the verification's interval goes, and
\* app.close() stops the listening.
Signal ==
    /\ phase = "up"
    /\ shutdowns + (IF pool = "ending" THEN 1 ELSE 0) < MaxSignals
    /\ shutdowns' = shutdowns + 1
    /\ server' = IF server = "open" THEN "closing" ELSE server
    /\ UNCHANGED <<migrationVars, main, clients, work, ended>>

\* app.close() waits for what is being served.
Close ==
    /\ server = "closing" /\ InFlight = {}
    /\ server' = "closed"
    /\ UNCHANGED <<migrationVars, main, shutdowns, clients, work, ended>>

\* Mutant of End: it does not wait for app.close().
EndAtOnce ==
    /\ server \in {"closing", "closed"} /\ shutdowns > 0
    /\ IF pool = "ending"
         THEN Exit("pool") /\ UNCHANGED faults
         ELSE /\ shutdowns' = shutdowns - 1
              /\ pool' = "ending" /\ idle' = 0
              /\ UNCHANGED <<migrationVars, main, server, out, work, ended>>

\* pool.end(); called twice it rejects, which nobody handles.
End ==
    /\ server = "closed" /\ shutdowns > 0
    /\ IF pool = "ending"
         THEN Exit("pool") /\ UNCHANGED faults
         ELSE /\ shutdowns' = shutdowns - 1
              /\ pool' = "ending" /\ idle' = 0
              /\ UNCHANGED <<migrationVars, main, server, out, work, ended>>

\* Mutant of Drained: nobody waits for pool.end().
ExitAtOnce ==
    /\ pool = "ending"
    /\ Exit("shutdown")
    /\ UNCHANGED faults

\* pool.end() waits for the clients that are out; process.exit(0).
Drained ==
    /\ pool = "ending" /\ out = 0
    /\ Exit("shutdown")
    /\ UNCHANGED faults

-----------------------------------------------------------------------------
(* Faults.                                                                 *)

\* Mutant of StatementFails: the client is given back only after a success.
FailsUnreleased(u) ==
    /\ user[u] = "holding" /\ faults < MaxFaults
    /\ faults' = faults + 1
    /\ IF u \in Jobs THEN Exit("fault")
       ELSE /\ user' = [user EXCEPT ![u] = "answered"]
            /\ turns' = [turns EXCEPT ![u] = 0]
            /\ UNCHANGED <<refused, tracking, schema, recorded, runner, main, stopping, clients, queue, ended>>

\* A statement fails, as any may on a schema that is not all there: a request is
\* answered 500, /readyz included; nobody handles the rejection of a job.
StatementFails(u) ==
    /\ user[u] = "holding"
    /\ \/ faults < MaxFaults /\ faults' = faults + 1
       \/ schema # WholeSchema /\ UNCHANGED faults
    /\ IF u \in Jobs THEN Exit("fault")
       ELSE /\ user' = [user EXCEPT ![u] = "answered"]
            /\ turns' = [turns EXCEPT ![u] = 0]
            /\ Release
            /\ UNCHANGED <<refused, tracking, schema, recorded, runner>>
            /\ UNCHANGED <<main, stopping, pool, queue, ended>>

\* The process is killed, by a signal that comes before its handler too; or an
\* idle client loses its connection, and the pool's "error" event has no listener.
Die ==
    /\ phase # "down" /\ faults < MaxFaults
    /\ faults' = faults + 1
    /\ Exit("fault")

-----------------------------------------------------------------------------

Main == Migrated \/ MigrationThrows \/ Build \/ Listen

Shutdown == Close \/ End \/ Drained

\* A statement of migrate(), here (main() waits for it) or in another process.
MigrationStep ==
    /\ UNCHANGED processVars
    /\ \/ \E r \in Runners : Migrate(r) \/ Break(r)
       \/ \E r \in Runners \ {Self} : Start(r)

Next ==
    \/ Boot \/ Main \/ MigrationStep
    \/ ForceExit \/ Signal \/ Shutdown
    \/ \E u \in Users : Request(u) \/ Fire(u) \/ Return(u) \/ StatementFails(u)
    \/ Connect \/ Expire
    \/ Die

Spec == Init /\ [][Next]_vars

\* The event loop goes on, statements return, and a migration that failed is run
\* again; no timer, interval, signal, caller or supervisor owes anything.
FairSpec ==
    /\ Spec
    /\ WF_vars(Main) /\ WF_vars(Shutdown) /\ WF_vars(Connect)
    /\ \A u \in Users : WF_vars(Return(u))
    /\ \A r \in Runners : WF_vars(Migrate(r) /\ UNCHANGED processVars)
    /\ \A r \in Runners \ {Self} : WF_vars(at[r] # "idle" /\ Start(r) /\ UNCHANGED processVars)

-----------------------------------------------------------------------------
(* What can be relied on.                                                  *)

\* The types; and the pool's books: whoever waits is in its queue, once, and there
\* are never more clients than the pool may have.
TypeOK ==
    /\ MigrationTypeOK
    /\ nodeEnv \in {"development", "production"}
    /\ phase \in {"down", "migrating", "building", "listening", "up"}
    /\ server \in {"off", "open", "closing", "closed"}
    /\ shutdowns \in 0 .. MaxSignals /\ pool \in {"open", "ending"}
    /\ user \in [Users -> {"none", "waiting", "holding", "answered", "refused"} \cup Causes]
    /\ turns \in [Users -> 0 .. MaxTurns]
    /\ queue \in Seq(Users)
    /\ {queue[i] : i \in DOMAIN queue} = {u \in Users : user[u] = "waiting"}
    /\ \A i, j \in DOMAIN queue : queue[i] = queue[j] => i = j
    /\ out = Cardinality(Holders)
    /\ idle \in Nat /\ idle + out <= PoolSize
    /\ ended \in [cause : Causes \cup {"none"}, server : {"off", "open", "closing", "closed"}]

\* No shutdown, by one signal or by several, and nothing that a job does during it
\* cuts off a request that is being served: only the timer and faults do
\* (index.ts:42-43).
ShutdownCutsNobodyOff ==
    \A c \in Calls : user[c] \notin {"shutdown", "pool", "rejection", "migration"}

\* A process that exits with 0 had been told to, has answered everybody, and leaves
\* no statement of a job half done (index.ts:42-45).
ExitsClean ==
    [][ended' # ended /\ ended'.cause = "shutdown"
         => server = "closed" /\ InFlight = {} /\ Holders = {}]_vars

\* In development nobody is served on a schema that is not all there, however many
\* processes boot, fail and are started again at once (index.ts:15-17, 33).
ServesOnWholeSchema ==
    nodeEnv = "development" /\ server # "off" =>
        schema = WholeSchema /\ recorded = 1 .. Files

\* Once told, the process ends, whatever it is serving and whichever jobs run, and
\* without the help of the timer (index.ts:36-46).
ToldEnds == server = "closing" ~> phase = "down"

\* Whoever is let in is answered or cut off by the end of the process: nobody waits
\* for a client for ever, /readyz neither (client.ts:22-30).
CallsEnd == \A c \in Calls : c \in InFlight ~> c \notin InFlight

\* Whatever fails in between, a migration that is run again gets in every file up to
\* the first one with a statement that Postgres refuses.  This excepts all that is in
\* migrations/ today: 0001_init.sql:83-88 is refused every time, and the file with it
\* (migrate.ts:26-54).
MigrationsGetThrough ==
    LET acceptable == {f \in 1 .. Files : \A g \in 1 .. f : Of(g) \cap refused = {}}
    IN  \A r \in Runners \ {Self} : at[r] \in Running ~> acceptable \subseteq recorded

\* What Minimal-Ledger-Service-Documentation.html:269 says of index.ts, "implements
\* graceful shutdown on SIGTERM/SIGINT", and what the timer logs when it ends the
\* process, "Shutdown timeout exceeded" (index.ts:49): there was a shutdown.
TimerEndsShutdownsOnly == ended.cause = "timer" => ended.server \in {"closing", "closed"}
=============================================================================
