# Verification of the Minimal Ledger Service

TLA+ specifications of the ledger service in `src/`, the TLC configurations that
check them on small instances, and theorems about them that TLAPS has proved.
Paths below are relative to the service's own `src/` directory unless they say
otherwise; `transactions.service.ts` and the like name the file of that name in it.

## 1. The system

A Fastify process in front of one Postgres database. Clients create accounts and
post double-entry transactions; Postgres holds all state that lasts. Everything
that is hard about it happens between the statements of concurrent database
transactions (isolation level READ COMMITTED, the default) and between a client,
which retries, and a server, which may fail at any await.

| Component | State | Operations | Talks to |
| --- | --- | --- | --- |
| Domain rules (`domain/*.ts`) | none | normal-balance side, apply an entry, balance of a journal, per-currency double-entry check, parsing of amounts | called by services and jobs |
| Posting (`transactions.service.ts`, `repositories/*`) | tables `accounts`, `account_balances`, `transactions`, `entries`; locals of one call | `postTransaction`, `getTransaction` | domain rules, idempotency service, pool, metrics |
| Accounts (`accounts.service.ts`) | the same tables | `createAccount`, `getAccount`, `getBalance` | idempotency service, pool |
| Idempotency (`idempotency.plugin.ts`, `.service.ts`, `.repo.ts`) | table `idempotency_keys`; `request.idempotency` | preHandler hook (key demanded, `findCached`), `persist`, `cleanupExpired` | the routes pass on what the hook leaves; `persist` runs in the services' transactions; the cleanup runs on a timer |
| HTTP (`app.ts`, `http/*`) | none | routes, schemas, `errorHandler` | services |
| Balance verification (`jobs/balance-verification.ts`) | none | `verifyBalances` on a timer or from the command line | tables, metrics |
| Statements (`accounts.routes.ts`, `entries.repo.ts`) | the cursor the client keeps | keyset pages over `(posted_at, id)` | tables |
| Process lifecycle (`index.ts`, `config.ts`) | timers, server, pool | boot, signals, shutdown | all of the above |
| Migrations (`db/migrate.ts`, `migrations/`) | tables, constraints, the deferred trigger | apply once | database |
| Pool and health (`db/client.ts`, `health.routes.ts`) | 20 clients | `connect`, `/healthz`, `/readyz` | database |
| Metrics and logs (`observability/*`) | counters in process memory | `inc` | services, job |

What makes each of them correct:

* **Posting**: no lost or half-applied update; a balance is always what its
  journal implies; debits and credits agree per currency; nothing is posted to a
  frozen account however late the freeze; no deadlock; an answer tells the truth.
* **Idempotency**: work under one key is done once while the key lives; a replay
  is the answer of the same request; a key is on record if and only if its work
  is done; a client that retries gets there.
* **Verification, balance reads**: no drift is reported when there is none, and one
  that lasts is found; both figures of a balance were true while it was read.
* **Statements**: walking the pages shows every entry once, in order, and ends.
* **Lifecycle, pool, health**: the process ends when it is told to and only then,
  after what it was serving; nobody waits for a client for ever.
* **Migrations**: the schema is that of whole files, whoever migrates at once and
  whatever fails; what has been overtaken or has failed for once gets through when it
  is run again, by itself, and what the database refuses leaves nothing behind; nobody
  is served before all is through.

The hazards behind these, each at its line, are in `PROJECT.json`.

## 2. Modules

```
Problems                error codes and their statuses
LedgerDomain            pure rules
  |-- Ledger            abstract: the books change atomically
  |-- PostTransaction   postTransaction, statement by statement   (implements Ledger)
  |     |-- MCPostTransaction            instances for TLC
  |     `-- PostTransactionProofs        theorems   (also extends LedgerDomainProofs)
  |           `-- PostTransactionOutcomes      more: keys, answers, versions, waiting
  |-- BalanceReaders    verifyBalances, getBalance, createAccount over Ledger
  |     |-- MCBalanceReaders             an instance for TLC
  |     `-- BalanceReadersProofs         theorems   (also extends LedgerDomainProofs)
  `-- LedgerDomainProofs                 lemmas about journals
KeyedWork               abstract: work and its key at one instant
LedgerService           preHandler, handler, retries, crashes, cleanup   (implements KeyedWork)
  |-- MCLedgerService                    instances for TLC
  `-- LedgerServiceProofs                theorems
SchemaHistory           abstract: a file goes in at one instant
Migrations              migrate(), run by any number of processes   (implements SchemaHistory)
  |-- MigrationsProofs                   theorems
  `-- Lifecycle         a server: boot, pool, jobs, requests, shutdown
        |-- MCLifecycle                  instances for TLC
        `-- LifecycleProofs              theorems   (also extends MigrationsProofs)
Statement               the pages of GET /v1/accounts/:id/entries
  |-- MCStatement                        an instance for TLC
  `-- StatementProofs                    theorems
```

`PostTransaction`, `LedgerService` and `BalanceReaders` extend **`Problems`**, which
has the error codes of `domain/errors.ts` and the statuses that `errorHandler` gives
them, so that a model names the error the code throws and not a number.

**`LedgerDomain`** has the rules of `domain/account.ts` and
`domain/transaction.ts`. The sum of the amounts of a set of rows is written as
the number of minor units in it (`Units`, `Total`), which gives it a proof theory
(finite cardinalities) without any recursion. A JavaScript bigint has no width,
so `addAmounts` and `subtractAmounts` never raise and are `+` and `-`; the width
of the Postgres column is in `PostTransaction` (`Bigint`, `MaxBigint`).

**`Ledger`** is what the service promises: `Post` moves the balances of active
accounts of the right currency by what its balanced entries say, all at once, at
most once per transaction and per key on record; `Open` is `createAccount`.

**`PostTransaction`** is `postTransaction` as any number of concurrent calls run
it: one action per awaited statement, because each await lets another call, an
operator or a failure in.

| Action | Code |
| --- | --- |
| `Call` | `assertTransactionBalanced`, before the first await (`transactions.service.ts:59`) |
| `Begin` | a client of the pool, BEGIN, the snapshot of `SELECT ... FOR UPDATE` (61-64) |
| `LockRow` | one row lock, in the order of the ids (`accounts.repo.ts:39-44`) |
| `CheckAccounts` | missing, not active, wrong currency: the first bad one in order decides the error (67-88) |
| `ReadBalance` | one turn of the loop that builds `balanceDeltas` (91-102) |
| `InsertEntries` | the transaction and its entries (104-120) |
| `ReadVersion`, `UpdateBalance` | one turn of the loop with the version check (122-136) |
| `Persist` | the key, if there is one, and the counters (156-161) |
| `Commit` | the deferred trigger and the COMMIT |
| `Reply`, `LoseAcknowledgement` | the 201; or the connection breaks after the COMMIT and the caller gets a 500 |
| `StatementFails` | any statement inside the transaction fails: ROLLBACK, 500 |
| `SetStatus` | an operator's UPDATE of `accounts.status` (as `tests/integration/transactions.routes.test.ts:113` does it); it waits for the row lock |

The tables hold committed rows only. What a call has written and not committed
is in its own variables (`stagedBalances`; the entries and the key are implied by
`pc`), and the rows it has read FOR UPDATE are the locks it holds (`accountMap`).
`findByTransactionId` at line 138 reads the call's own rows back to format the
response and is left out, as are names, descriptions and timestamps. Account ids
are numbers in the order of the uuids and are taken in canonical form.

**`LedgerService`** is one level up: a request arrives (`Send`, `Retry`), the
preHandler demands and looks up the key (`Arrive`, `findCached`), the handler
does some work in one transaction that records the key last (`Begin`, `persist`,
`Commit`), and the answer goes out (`Reply`) or does not. Statements fail,
answers and acknowledgements are lost, the process crashes with everything in
flight, a COMMIT may arrive although its connection is gone (`orphans`), the
cleanup deletes old keys as time passes. What the work is does not matter here:
`createAccount` and `postTransaction` are both "work", and that a posting is
atomic is what `PostTransaction` shows. `HookApplies` says whether the preHandler
runs for the `/v1` routes: TRUE is the plugin's code as written, FALSE is how
`app.ts:63` registers it (see Findings). There is one clock (`now`). In the code there are
two: the cleanup's cutoff is by the `Date.now()` of the process
(`idempotency.service.ts:72`), and `created_at` is by the `now()` of Postgres. Their
difference is not modelled; by as much as the first runs ahead, a key lives shorter than
`KeysOutliveTtl` says.

**`KeyedWork`** is what that promises: work is done at one instant, under a key that
is not on record and that goes on record with it (`Do`); a record stays as it is until
its time is over (`Forget`). `LedgerService` implements it with its records
(`idempotencyKeys`) and its finished work (`done`), whether or not the hook applies:
without the hook no key gets to the handlers, and all work is work under `NoKey`.

**`BalanceReaders`** composes the readers of balances with `Ledger` itself: a
posting is one step, since `PostTransaction` implements it so. `StartVerify` lists
the accounts; `FindById`, `GetBalance` and `CompareJournal` or `AnswerBalance` are
the three statements each account goes through (`balance-verification.ts:31-54`,
`accounts.service.ts:93-110`), `Leave` is the end of a call, and in between come
postings, hand-written balances (`Skew`) and `createAccount`, statement by statement
(`InsertAccount`, `InsertBalance`, `CommitAccount`, `CreateFails`;
`accounts.service.ts:53-82`): its COMMIT is `Ledger`'s `Open`. `StatementFails` is a
500; `VerifierFails` is the unhandled rejection of a promise that
`balance-verification.ts:100` drops, which ends the process with everything in it;
its runs are "dead" until somebody starts the process again, which nobody has to.
The history variables `touched` and `seen` say what was written while a reader was
at work. Freezing an account changes nothing for a reader and is left out.

**`Migrations`** is `migrate()` (`db/migrate.ts`), run by any number of processes at
once with nothing but the database between them.

| Action | Code |
| --- | --- |
| `Start` | the pool and the client of a run (`migrate.ts:10-13`) |
| `LookForTracking`, `CreateTracking` | `CREATE TABLE IF NOT EXISTS` (16-21), which looks and then creates: of two at once the second fails |
| `ReadRecord` | one turn of the loop: on record, skipped; otherwise BEGIN (27-43) |
| `Apply` | one statement of the file (45-47): it waits for another's uncommitted one; it fails on a committed one, unless it may be made twice; or it is refused |
| `RecordFile`, `CommitFile` | `INSERT INTO schema_migrations`, COMMIT (48-49) |
| `Break` | a statement fails or the process dies: ROLLBACK, unless the COMMIT was on its way (51-59) |

A statement makes one object; what it is is of no account here. It cannot be made
twice, but for those that are `Replaceable`, such as the `CREATE OR REPLACE FUNCTION` of
`migrations/0001_init.sql:56`. The variable `refused`, chosen once and for all among the
`Doubtful` ones, says which statements the database refuses every time; the constraint
trigger of `0001_init.sql:83-88` is one of these (see Findings). A failure for once
is a `Break`.
**`SchemaHistory`** is what `migrate()` promises: the files go in one after the other,
each whole and with its record at one instant (`ApplyFile`), up to the first with a
statement that is refused, and nothing is taken back.
`Migrations` implements it, and so does `Lifecycle`, whose servers are runners.

**`Lifecycle`** extends it with one server process, the runner `Self`, from `main()`
to its end, and puts together all that takes clients from its pool.

| Action | Code |
| --- | --- |
| `Boot`, `Migrated`, `MigrationThrows` | up to and out of `migrate()`, which runs in development only (`index.ts:10-17`, 62-65) |
| `Build`, `Listen` | `buildApp` and the intervals; then `listen`, the timer `forceExit` and the signal handlers (19-60) |
| `Request` | a request of as many turns with a client as it has transactions and statements of its own; 503 while the server closes |
| `Fire` | an interval: the cleanup's, which nothing clears, or the verification's, which the signal clears (22-31, 36-40) |
| `Connect`, `Return` | a client of the pool, in the order of asking, and its release (`client.ts:22-30`) |
| `Expire` | an idle client is closed after a while |
| `Signal`, `Close`, `End`, `Drained` | the four statements of `shutdown()`, which runs again for each signal (36-46) |
| `ForceExit` | the timer (48-52) |
| `StatementFails`, `Die` | faults; an idle client's `error` event has no listener and ends the process too |

`Exit` is what every end of the process has in common: connections break, requests
are cut off with the cause of the end (`user[c]`), a migration's transaction is
rolled back. `ended` remembers the cause and what the server was doing.

**`Statement`** has one account, the transactions that post to it, and callers
that walk its pages (`Page`) with pages of any size. `posted_at` is when a
transaction began (`Begin`), and ids come in the order of the commits (`Commit`),
because both are drawn under the lock that `PostTransaction` shows is held until
then. A cursor has milliseconds (`encodeCursor`, `accounts.routes.ts:15-20`) and
the column has microseconds. Left out: a cursor that does not decode, which starts
again at the first page (`accounts.routes.ts:28-30`), and the 404 of an unknown account.
`listByAccount` puts the `ORDER BY` and the `LIMIT` by rank: row *i* of a page is the
one that has *i* - 1 newer ones.

In these modules a definition whose comment begins with "Mutant of" is a plausible
bug in the definition that follows it; it is used by no specification and serves
to show that the properties notice.

## 3. What TLC checks

| Run | Instance | Distinct states | Shows |
| --- | --- | --- | --- |
| `post_concurrent` | 3 postings; two legs, the reverse with one account named twice, and two other accounts, where only the key makes one wait; 1 key or none; no freezes; requests symmetric | 109,989 | `BalanceMatchesJournal`, `VersionCountsPostings`, `OptimisticCheckNeverFails`, `OnePostingPerKey`, `NoWaitCycle`; `LockInv` and `BooksInv`, the invariants of the proofs; `ImplementsLedger` |
| `post_refusals` | 2 postings; also unbalanced, two currencies, wrong currency, unknown account, beyond `MaxBigint`; an operator freezes, reopens, closes; the trigger in place | 6,516 | `TrialBalance`, `AnswerMatchesBooks`, `PostsOnlyToActiveAccounts`, `ImplementsLedger` |
| `post_progress` | 3 postings, 2 clients in the pool, fairness | 120,039 | `EveryCallIsAnswered` |
| `post_counter` | 2 postings | | a violation: see Findings |
| `service_retries` | 2 clients that retry, 1 key, 2 bodies, 2 faults, `Ttl` 1, `MaxTime` 3 | 419,321 | `KeysOutliveTtl`, `AnswersAreOfTheRequest`, `CachedWorkIsDone`, `WorkIsKeyed` |
| `service_settles` | the same with `Ttl` 0, `MaxTime` 1, fairness | 129,118 | `RetriesSettle` |
| `service_unhooked` | 2 requests, no faults, `HookApplies` FALSE | | a violation: see Findings |
| `readers` | 1 verifier, run after run, 1 caller, one of them at a time; 2 accounts and a creator of a third, 2 postings of amounts 1 and 2, one balance changed by hand by 1, one failure, fairness | 253,672 | `TypeOK`, `AnswersWereTrue`, `QuietAccountsAreJudgedRightly`, `RunsFindStandingDrift` |
| `readers_healthy` | 1 verifier, nothing changed by hand | | a violation: see Findings |
| `lifecycle` | a server and `npm run migrate` beside it, files of 1 and of 2 statements, the last of which is refused or not and the one before it may be made twice, 1 request of up to 2 turns, both jobs, a pool of 1 client, 2 signals, 1 fault, fairness | 180,545 | `TypeOK`, `SchemaIsWhole`, `OvertakenByTheRecord`, `ShutdownCutsNobodyOff`, `ServesOnWholeSchema`, `ExitsClean`, `FilesGoInOneByOne`, `ToldEnds`, `CallsEnd`, `MigrationsGetThrough` |
| `lifecycle_timer` | a server alone | | a violation: see Findings |
| `statement_walk` | 1 caller, pages of 1 or 2, 3 transactions with 1 or 2 entries, 2 ticks to a millisecond, `MaxTime` 2, fairness | 88,890 | `ShownInOrder`, `MissedOnlyBesidePageEnds`, `WalksEnd` |

**Bounds.** Two postings make every pairwise race (lost update, torn read,
waiting on a lock or on a key); a third adds a circle of three and a queue behind
a lock; the pool of two adds the wait for a client. Accounts 1 and 2 are a
debit-side and a credit-side account, 3 and 4 the same in another currency, 5 does not exist.
Amounts of 1 to 3 suffice to tell sums apart; `MaxBigint` is 3 or 4 so that both an
amount and an accumulated balance overflow. In `LedgerService` one shared key
makes every collision; `MaxTime` 3 with `Ttl` 1 lets a key expire and its
successor expire again; two faults allow a fault during the retry after a
fault. In `BalanceReaders` a posting of 1 can hide a change by hand of 1, and readers do
not influence each other, so one of each kind will do, one at a time
(`MaxReading`), before or after whatever the other did. In `Lifecycle` a pool of one
makes everybody wait for everybody; two turns make a request, or a verification, come
back for another client after a signal; the second signal arrives in every state of
the first shutdown; a file of two statements can break in its middle, or be refused
there after another has gone in, and of two files the second can find the first on
record; the one fault goes to any statement
of any process, or kills the server, which boots again as often as it likes. In
`Statement` ticks 0 and 1 share a millisecond and 2 begins the next; pages of 1
and 2 end inside and between transactions of two entries.
`MaxTime`, `MaxFaults`, `MaxSkews`, `MaxReading`, `MaxTurns` and `MaxSignals` are the
only bounds the guards know; the number
of calls is the number of `Requests`, since a transaction id is its request.
A call that is answered stops, so the runs do not check TLC's deadlock (but
`readers` and `lifecycle` do, since a verifier goes on and a server boots again);
`NoWaitCycle` and the liveness properties say what matters about waiting.

**Fairness.** `FairSpec` in `PostTransaction` has weak fairness for each call's
own steps (`Advance`): the event loop resumes a call whose statement has come
back, Postgres answers statements, and a lock or a client that is free is handed
out. Nothing obliges a caller to call, an operator to act, or a statement to
fail. With rows locked in order and a pool of clients that are always given back,
weak fairness per call is enough, since nobody re-enters a queue. `FairSpec` in
`LedgerService` adds that a client without an answer retries and that Postgres
notices a lost connection. In `BalanceReaders` only the statements of a run or a
call that has begun return or fail (`VerifyAccount`, `Report`, `ReadBalance`, `Leave`). No
run has to begin, since the interval is off by default (`config.ts:15`), and nothing
starts a process that has ended: neither the repository nor its `docker-compose.yml` has
a supervisor or a `restart:` policy. So `RunsFindStandingDrift` speaks of one run and of
accounts that nobody writes during it, and excepts the end of the process. That a drift is found
in the end does not hold: runs may never begin or always fail, and a posting that always
commits between the two reads can hide it for ever. In `Lifecycle` the event loop goes on
(`Main`, `Shutdown`, `Connect`), statements return (`Return`, `Migrate`), and
`npm run migrate` is run again when it has failed; that does not help a statement that
is refused, and `MigrationsGetThrough` promises only the files before the first
such one. Nothing obliges the timer, an
interval, a signal, a caller or a supervisor: `ToldEnds` holds without `forceExit`,
and `CallsEnd` because the queue is first come first served. In `Statement` a caller that has
begun a walk goes on with it.

## 4. What is proved

`LedgerDomainProofs`, `PostTransactionProofs` and `PostTransactionOutcomes` hold for
every chart of accounts, every set of requests, inputs and keys, every bigint width
and pool size, with and without the trigger. Assumed of the constants are only the
ASSUMEs of `LedgerDomain` and `PostTransaction`: ids are ordered numbers, inputs have
the shape that the schemas and `parsePostingEntries` let through, `NoKey` is not a key.

| Theorem | States |
| --- | --- |
| `TypeCorrect` | `Spec => []TypeOK` |
| `LocksProtectChecks` | `Spec => []LockInv` |
| `NoPostingToInactive` | `Spec => PostsOnlyToActiveAccounts` |
| `BooksStayConsistent` | `Spec => []BooksInv` |
| `BalancesAreCorrect` | `Spec => []BalanceMatchesJournal` |
| `VersionCheckIsRedundant` | `Spec => []OptimisticCheckNeverFails` |
| `PostingIsAtomic` | `Spec => ImplementsLedger` |
| `KeysArePostedOnce` | `Spec => []OnePostingPerKey` |
| `AnswersTellTheTruth` | `Spec => []AnswerMatchesBooks` |
| `VersionsCount` | `Spec => []VersionCountsPostings` |
| `WaitingEnds` | `Spec => []NoWaitCycle` |
| `JournalIsDoubleEntry` | `Spec => []Balanced(entries)` |
| `TrialBalanceHolds` | `Spec => []TrialBalance` |

The argument: `BalanceMatchesJournal` speaks of committed tables, and a COMMIT
replaces balances by what the call staged, so it is not inductive by itself. It
needs that what was staged is still the committed balance plus the call's own
legs (`StagedFollowsDeltas`, `DeltasFollowLegs`), at every statement; that
needs that nobody else has committed to the account since it was read
(`LocksExclude`, with `LocalsFollowPc`: only a holder of the lock has deltas for an
account); and the account's type in both sums must be the same one
(`LockedRowsAreCurrent`). `LockInv` collects what the locks give and is inductive
with `TypeOK`; `BooksInv` collects the arithmetic and is inductive with both.
`CommitEffect` is the step that matters: the sum over the legs of a call is the
difference it makes to the journal (`JournalBalanceOfDisjoint`,
`ApplyEntryIsJournalBalance`). In the same way `WritersAreChecked` carries the
checks of lines 67-88 to the COMMIT. With these a COMMIT maps to `Ledger`'s
`Post` and every other step to a stutter or to `SetStatus`.

`VersionCheckIsRedundant` says something about the design: since the version is read
again right before the update (line 123), and not with the balance (line 96), the
version check protects against nothing that the row lock does not already
exclude, and its error branch (lines 133-135) is dead code as long as every writer
of `account_balances` locks the account first.

`PostTransactionOutcomes` adds two invariants to these. `OutcomeInv` follows a call
beyond its transaction: what is posted of it is its rows if it is through and has not
been refused, and nothing otherwise (`AnswersOK`), and the transactions that name an
account are finitely many (`VersionsOK`), so that one more raises their number by
one, as the COMMIT does the version. `OutcomeKinds` sorts the steps by how little they
do to outcomes; only a COMMIT needs an argument. `WaitInv` says that the calls inside
transactions are finitely many and that each has locked lower ids than those it still
wants. In a circle of waiting calls everybody waits for a row lock: an update of a
staged row never waits (`UpdatesNeverWait`), and a call that waits for a key waits for
one that is committing, which waits for nobody. Everybody's next row is then locked by
somebody whose own next row is higher; among finitely many calls one has the fewest
above it, and there is one with fewer.

`TrialBalance` compares two totals over all accounts, each of which comes from the
journal (`BalancesAreCorrect`), which is double-entry in all (`JournalIsDoubleEntry`) and
in the currency of each account (`EntriesInCurrency`, an invariant too). A sum over
accounts would ask for an induction. `Column` has no sum: it is a set of rows, whose
`Total` is, as everywhere, how many minor units there are in it. So each account's
debits, credits and balance are finite sets, and `PartsCancel` carries what holds of
every account over to the whole: injections of the parts, put together, are an injection
of the whole (`CountByParts`). That is what stands in for the induction.

The other theorems are about modules of their own.

| Theorem | States |
| --- | --- |
| `ServiceTypeCorrect`, `KeysProtectWork`, `AnswersAreTrue`, `RecordsAreTrue`, `ServiceRefinesKeyedWork` | `LedgerService`: `TypeOK`, `KeysOutliveTtl`, `AnswersAreOfTheRequest`, `CachedWorkIsDone`, `WorkIsKeyed` |
| `MigrationsAreAtomic`, `FailuresAreOvertaken`, `MigrationsRefineHistory` | `Migrations`: `SchemaIsWhole`, `OvertakenByTheRecord`, `FilesGoInOneByOne` |
| `LifecycleTypeCorrect`, `ShutdownIsGraceful`, `DevelopmentServesWholeSchema`, `ServersMigrateAtomically`, `ServersRefineHistory`, `ShutdownDrains` | `Lifecycle`: `TypeOK`, `ShutdownCutsNobodyOff`, `ServesOnWholeSchema`, `SchemaIsWhole`, `FilesGoInOneByOne`, `ExitsClean` |
| `ReadersTypeCorrect`, `ReportsAreRight`, `AnswersAreTrue` | `BalanceReaders`: `TypeOK`, `QuietAccountsAreJudgedRightly`, `AnswersWereTrue` |
| `StatementTypeCorrect`, `StatementsAreInOrder`, `StatementsMissOnlyBesidePageEnds` | `Statement`: `TypeOK`, `ShownInOrder`, `MissedOnlyBesidePageEnds` |

*`LedgerService`*, for any keys, bodies, `Ttl`, clock and number of faults, with and
without the hook, and finitely many requests. `KeysOutliveTtl` speaks of pairs of
finished work; it is preserved because a key that is about to be committed is on
nobody's record and in nobody else's hands, lost connections included (`KeyInv`), so
that all earlier work under it must have lost its record, which the cleanup does only
after `Ttl` (`RecordInv`). `RequestOK` carries the key and the body from the header to
the answer. `ServiceInv` is the conjunction, and inductive. For `WorkIsKeyed` a COMMIT, of
a living connection or of a lost one, has to be a `Do` of `KeyedWork`: that its key is on
nobody's record is `KeyInv`, and that its work is new is `IdInv` (no id stands for two
pieces of work, done, lost or in hand), inductive beside `ServiceInv`. The cleanup maps
to `Forget` and every other step to a stutter.

*`Migrations`*, for any runners, files and statements and any number of faults: each
runner has all files before its own on record and has made a beginning of its own
(`RunnerOK`), which nobody else has made at the same time, since one waits for the
other, and of which nothing is refused; so what a COMMIT publishes is the whole of the next file (`MigrationInv`). The same
fact makes a COMMIT, or a break in which the COMMIT got through, an `ApplyFile` of
`SchemaHistory`, and every other step a stutter.

*`Lifecycle`*, for any number of requests, of overlapping jobs, of signals and of
runners, and a pool of any size. `LifecycleInv` is `MigrationInv` with: where the
process is (`MainInv`: the pool ends only after the server has closed), that every file
is on record past `migrate()` (`SchemaInv`; it stays so, since records are never taken
back), that nobody is served without a server (`UserInv`), that the queue is exactly
those who wait, once each (`QueueInv`), and that the pool's count is the number of
those who hold a client (`BooksInv`). `ShutdownCutsNobodyOff` follows since every exit
that a shutdown or a rejection causes needs a pool that is ending.

*`BalanceReaders`*, for any number of creators, postings, overlapping runs and calls, any
books and any changes by hand. A reader knows nothing for certain of what it has read,
since anything may commit before its next statement; `ReadersInv` says what is left. Of
a caller (`CallerOK`): the balance it holds is one of the figures it saw, and the latest
it saw are the current ones, so that the two parts of its answer come from two moments
of the call, in this order. Of a verifier (`VerifierOK`): of accounts that nobody has
touched since it began, it has judged rightly those it is done with, says nothing of the
others, and the balance it holds is current. `TablesInv` and `CreatingInv` (ids being
created are new and differ) are what these need of the tables; `RecordKeeps` is the
argument that what a committed write adds to `touched` and `seen` keeps them true.
Assumed are the shapes of inputs, of the opening chart and of the amounts changed by
hand (the named ASSUMEs of the module).

*`Statement`*, for any transactions and callers, pages of any sizes and a clock of any
resolution. `PageOfRows` is what one page guarantees: rows after the cursor only, in
order, and none left out that is newer than one shown, as ranks are distinct and without
gaps (`RowsAreRanked`). `StatementInv` adds where a walk stands (`CallerOK`): everything
shown is behind the cursor, and what was there at the beginning has been shown, is still
before the cursor, or follows the end of a page within its millisecond
(`MillisecondOrder`). Entries that commit meanwhile may sort behind the cursor, and the
invariant says nothing of them. Assumed is that pages and milliseconds are not empty.

Only model-checked are the liveness properties: `EveryCallIsAnswered`, `RetriesSettle`,
`RunsFindStandingDrift`, `ToldEnds`, `CallsEnd`, `MigrationsGetThrough` and `WalksEnd`. Proofs
under fairness go through ENABLED, which is beyond the provers. Every invariant and every
refinement that a passing run checks is a theorem. The properties of the runs that
expect a violation are false, and the runs show it.

## 5. Findings

* **The idempotency hook does not apply** (`app.ts:63`). The plugin is registered
  without `fastify-plugin`, so its preHandler lives in a context of its own and
  never runs for the `/v1` routes. `service_unhooked` shows the same request
  answered with two different pieces of work, against
  `tests/integration/idempotency.test.ts:23`. The `400` for a missing key
  (`tests/integration/accounts.routes.test.ts:43`) is not given either.
* **The counter of posted transactions counts rollbacks**
  (`transactions.service.ts:160` against `observability/metrics.ts:24`).
  `post_counter` has a call that increments it and then fails at the COMMIT.
* **Healthy books are reported as drifted** (`balance-verification.ts:37,42`, against
  the repository's `README.md:102`). In `readers_healthy` a posting commits between the
  two reads of an account.
* **The timer that forces the exit is armed at boot** (`index.ts:48`). A server
  that listens keeps the event loop alive, so `unref()` makes no difference, and after
  `shutdownTimeoutMs` (25 s) the timer ends a process that nobody has told to end and cuts
  off what it serves, although it says "Shutdown timeout exceeded" and
  `docs/Minimal-Ledger-Service-Documentation.html:269` says that the module
  "implements graceful shutdown on SIGTERM/SIGINT". `lifecycle_timer` boots, listens, and
  is ended by it.

Two more disagreements with the documents, which no run of its own shows:

* **The shipped migration never gets in** (`migrations/0001_init.sql:83-88`). The file ends with a
  constraint trigger with `REFERENCING` and `FOR EACH STATEMENT`, which Postgres's grammar
  does not have for constraint triggers. `migrate.ts:43-54` rolls the whole file back, every
  time, although the repository's `README.md:36` has `migrate` "Apply SQL migrations from
  `migrations/`". That it is refused is a fact about Postgres and no result of
  these models, which take it as given (`refused`) and show what comes of it: nothing of
  the file stays (`SchemaIsWhole`), no later file goes in (`FilesGoInOneByOne`), no server
  in development listens (`ServesOnWholeSchema`), and running it again does not help
  (`MigrationsGetThrough` excepts it). In `PostTransaction` whether the trigger exists, for
  instance after a correction of the file, is a constant (`TriggerInstalled`), and everything
  about postings holds with and without it.
* **A shutdown may end with 1 before the pool is drained** (`index.ts:43,54`), although
  `docs/Minimal-Ledger-Service-Documentation.html:269` says "graceful shutdown on
  SIGTERM/SIGINT with pool drain". A second signal calls `pool.end()` again, which
  rejects; and a cleanup that fires, or a verification that asks for its next client, is
  rejected while the pool is ending. In `Lifecycle` these are the exits with the causes "pool"
  and "rejection". No property forbids them: requests are over by then
  (`ShutdownCutsNobodyOff`), a job's statement may not be, and `ExitsClean` is about the
  exit with 0 only.

The models also show, where no document says otherwise:

* `/readyz` never answers `503`, which `health.routes.ts:20` has for it:
  `checkDbConnectivity` waits for a client without limit and throws instead of returning
  false (`client.ts:22-30`), which is a `500`.
* A verification whose statement fails ends the whole process, and what it has found is lost
  (`balance-verification.ts:100`); `RunsFindStandingDrift` has to except it.
* Of two processes that migrate an empty database at once one fails, in `CREATE TABLE
  IF NOT EXISTS` or on the other's objects; a second try gets through, as far as the
  database accepts the files.

No document promises it in so many words, but `MissedOnlyBesidePageEnds` needs its
exception: a page that ends between two entries of one millisecond, such as
the two legs of one transaction on the same account, makes the walk skip the second
(`accounts.routes.ts:17` against `entries.repo.ts:32`). The cursor is below every
entry of its own millisecond that is not at its very beginning.

## 6. Not modelled, and the plan

Worth doing next: routes told apart in `LedgerService`. The hash covers the body and not the
route (`idempotency.service.ts:31`), so one body that has the fields of both routes, sent to
both under one key, is answered with the other's response. No document says what should
come of it.

Left out for good:

* `getAccount` and `getTransaction`: one or two reads of committed rows that never change
  (but for an account's status), with nothing between them that could matter.
* The validation of the configuration (`config.ts`): its numbers are the constants of
  the models.
* Parsing and formatting of strings (`parseAmount`, `canonicalize`, `encodeCursor` but for
  its loss of microseconds, the problem documents): the models start from the results.
* Swagger, log lines, HTTP metrics, the wording of reports: nothing reads them.
* `scripts/generate-project-pdf.mjs`, which is not part of the service.
