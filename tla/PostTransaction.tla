-------------------------- MODULE PostTransaction ---------------------------
(***************************************************************************)
(* TransactionsService.postTransaction (transactions.service.ts:54-167) as *)
(* concurrent calls run it against Postgres at READ COMMITTED: one action  *)
(* per statement, because every await is a point where another call, an    *)
(* operator or a failure gets in.                                          *)
(*                                                                         *)
(* The tables hold what is committed.  What a transaction has written and  *)
(* not committed is private to its request: accountMap is both the rows    *)
(* it has read and, since it read them FOR UPDATE, the account row locks   *)
(* it holds; stagedBalances are its updated balance rows; its entry rows   *)
(* are in from "versioning" on, its idempotency key from "committing" on.  *)
(* A commit publishes all of it, a rollback drops it, and both release     *)
(* every lock.                                                             *)
(***************************************************************************)
EXTENDS LedgerDomain, Problems

CONSTANTS
    Requests,          \* calls of the API; also the ids of the transactions they post
    Inputs,            \* the entry lists a caller may ask to post
    Keys,              \* idempotency keys
    NoKey,             \* request.idempotency is undefined
    Chart,             \* the accounts that exist at the start, id |-> row
    StatusChanges,     \* the <<account, status>> an operator may set by hand
    MaxBigint,         \* the largest value of a Postgres bigint
    PoolSize,          \* clients of the connection pool (client.ts: max 20)
    TriggerInstalled   \* whether entries_balanced_check exists in the database

\* The schemas of the route demand two legs at least.
ASSUME InputsAreEntries ==
    /\ Inputs \subseteq Seq(EntryInput)
    /\ \A i \in Inputs : Len(i) >= 2
ASSUME NoKeyIsNotAKey == NoKey \notin Keys
ASSUME ChartHoldsAccounts ==
    /\ DOMAIN Chart \subseteq Accounts
    /\ \A a \in DOMAIN Chart : Chart[a] \in AccountRow
ASSUME StatusChangesAreTyped == StatusChanges \subseteq Accounts \X AccountStatuses
ASSUME LimitsArePositive == MaxBigint \in Nat \ {0} /\ PoolSize \in Nat \ {0}
ASSUME TriggerInstalledIsBoolean == TriggerInstalled \in BOOLEAN

VARIABLES
    \* Tables, as committed.
    accounts,          \* id |-> row
    balances,          \* id |-> [balance, version]   (account_balances)
    transactions,      \* ids
    entries,           \* rows
    idempotencyKeys,   \* key |-> [requestHash, txn]  (txn stands for response_body)
    \* A call.
    pc,                \* the statement it awaits next
    input,             \* its entries
    idempotency,       \* its key; the hash of its body is its input
    response,          \* request |-> [status, txn] for each request answered
    \* The locals of its database transaction.
    found,             \* the account ids its SELECT has found, to lock in order
    accountMap,        \* the account rows it has locked and read
    cursor,            \* the leg of the read loop
    balanceDeltas,     \* account |-> the balance it will write
    version,           \* the version it has just read
    stagedBalances,    \* account |-> the balance row it has written
    \* Process memory.
    postedTotal        \* counter ledger_transactions_posted_total

tables == <<accounts, balances, transactions, entries, idempotencyKeys>>
call == <<input, idempotency, response>>
locals == <<found, accountMap, cursor, balanceDeltas, version, stagedBalances>>
vars == <<tables, pc, call, locals, postedTotal>>

BalanceRow == [balance : Int, version : Nat]
KeyRow == [requestHash : Inputs, txn : Requests]
Bigint == -(MaxBigint + 1) .. MaxBigint

\* Waiting points that lie between BEGIN and COMMIT.
InTransaction == {"locking", "reading", "inserting", "versioning", "updating",
                  "persisting", "committing"}

Init ==
    /\ accounts = Chart
    /\ balances = [a \in DOMAIN Chart |-> [balance |-> 0, version |-> 0]]
    /\ transactions = {}
    /\ entries = {}
    /\ idempotencyKeys = NoRows
    /\ pc = [r \in Requests |-> "idle"]
    /\ input = [r \in Requests |-> <<>>]
    /\ idempotency = [r \in Requests |-> NoKey]
    /\ response = NoRows
    /\ found = [r \in Requests |-> {}]
    /\ accountMap = [r \in Requests |-> NoRows]
    /\ cursor = [r \in Requests |-> 1]
    /\ balanceDeltas = [r \in Requests |-> NoRows]
    /\ version = [r \in Requests |-> 0]
    /\ stagedBalances = [r \in Requests |-> NoRows]
    /\ postedTotal = 0

-----------------------------------------------------------------------------
(* The ends of a database transaction and of a call.                       *)

Goto(r, label) == pc' = [pc EXCEPT ![r] = label]

Answer(r, status) ==
    /\ Goto(r, "done")
    /\ response' = Put(response, r, [status |-> status, txn |-> r])
    /\ UNCHANGED <<input, idempotency>>

\* Mutant of ReleaseAll: the row locks outlive the transaction.
ReleaseAllButLocks(r) ==
    /\ cursor' = [cursor EXCEPT ![r] = 1]
    /\ balanceDeltas' = [balanceDeltas EXCEPT ![r] = NoRows]
    /\ version' = [version EXCEPT ![r] = 0]
    /\ stagedBalances' = [stagedBalances EXCEPT ![r] = NoRows]
    /\ UNCHANGED <<found, accountMap>>

\* The callback's locals go out of scope and the server releases the locks.
ReleaseAll(r) ==
    /\ found' = [found EXCEPT ![r] = {}]
    /\ accountMap' = [accountMap EXCEPT ![r] = NoRows]
    /\ cursor' = [cursor EXCEPT ![r] = 1]
    /\ balanceDeltas' = [balanceDeltas EXCEPT ![r] = NoRows]
    /\ version' = [version EXCEPT ![r] = 0]
    /\ stagedBalances' = [stagedBalances EXCEPT ![r] = NoRows]

\* An error leaves the callback of db.transaction: ROLLBACK, and errorHandler
\* turns the error into a status.
Rollback(r, status) ==
    /\ Answer(r, status)
    /\ ReleaseAll(r)
    /\ UNCHANGED <<tables, postedTotal>>

-----------------------------------------------------------------------------
(* The call, up to its first statement.                                    *)

\* assertTransactionBalanced runs before the first await.
Call(r, i, key) ==
    /\ pc[r] = "idle"
    /\ input' = [input EXCEPT ![r] = i]
    /\ idempotency' = [idempotency EXCEPT ![r] = key]
    /\ IF Balanced(EntryRows(r, i))
         THEN /\ Goto(r, "queued")
              /\ UNCHANGED response
         ELSE /\ Goto(r, "done")
              /\ response' = Put(response, r, [status |-> StatusOf("unbalanced_transaction"), txn |-> r])
    /\ UNCHANGED <<tables, locals, postedTotal>>

\* db.transaction gets a client of the pool; BEGIN; then the SELECT of
\* findByIdsForUpdate takes its snapshot, which decides the rows it will lock.
Begin(r) ==
    /\ pc[r] = "queued"
    /\ Cardinality({q \in Requests : pc[q] \in InTransaction}) < PoolSize
    /\ found' = [found EXCEPT ![r] = AccountsOf(input[r]) \cap DOMAIN accounts]
    /\ Goto(r, "locking")
    /\ UNCHANGED <<tables, call, accountMap, cursor, balanceDeltas, version,
                   stagedBalances, postedTotal>>

-----------------------------------------------------------------------------
(* Row locks.                                                              *)

LockedByOther(r, a) == \E q \in Requests \ {r} : a \in DOMAIN accountMap[q]

StagedByOther(r, a) == \E q \in Requests \ {r} : a \in DOMAIN stagedBalances[q]

\* Mutant of KeyInsertedByOther: no unique index on the key.
NobodyInsertsKey(r) == FALSE

\* An uncommitted insert of the same key makes this insert wait for its outcome.
KeyInsertedByOther(r) ==
    \E q \in Requests \ {r} : pc[q] = "committing" /\ idempotency[q] = idempotency[r]

\* Mutant of NextToLock: without the ORDER BY.
AnyToLock(r) == found[r] \ DOMAIN accountMap[r]

\* ORDER BY id FOR UPDATE: sorted, then locked row by row.
NextToLock(r) ==
    {a \in found[r] \ DOMAIN accountMap[r] :
        \A b \in found[r] \ DOMAIN accountMap[r] : a <= b}

\* Mutant of LockRow: without the FOR UPDATE.
ReadRow(r) ==
    /\ pc[r] = "locking"
    /\ \E a \in NextToLock(r) :
         accountMap' = [accountMap EXCEPT ![r] = Put(@, a, accounts[a])]
    /\ UNCHANGED <<tables, pc, call, found, cursor, balanceDeltas, version,
                   stagedBalances, postedTotal>>

\* Once it has the lock it reads the row as last committed.
LockRow(r) ==
    /\ pc[r] = "locking"
    /\ \E a \in NextToLock(r) :
         /\ ~LockedByOther(r, a)
         /\ accountMap' = [accountMap EXCEPT ![r] = Put(@, a, accounts[a])]
    /\ UNCHANGED <<tables, pc, call, found, cursor, balanceDeltas, version,
                   stagedBalances, postedTotal>>

-----------------------------------------------------------------------------
(* The checks under the locks.                                             *)

Missing(r) == AccountsOf(input[r]) \ DOMAIN accountMap[r]

\* Mutant of NotActive: frozen accounts pass.
Closed(r) == {a \in DOMAIN accountMap[r] : accountMap[r][a].status = "CLOSED"}

NotActive(r) == {a \in DOMAIN accountMap[r] : accountMap[r][a].status # "ACTIVE"}

\* Mutant of CurrencyMismatch: the legs are only checked against each other.
AnyCurrency(r) == FALSE

CurrencyMismatch(r) ==
    \E i \in DOMAIN input[r] :
        LET leg == input[r][i] IN
        /\ leg.account \in DOMAIN accountMap[r]
        /\ accountMap[r][leg.account].currency # leg.currency

\* The ids are tried in order and the first bad one names the error.
CheckAccounts(r) ==
    /\ pc[r] = "locking"
    /\ found[r] \subseteq DOMAIN accountMap[r]
    /\ IF \E a \in Missing(r) : \A b \in NotActive(r) : a < b
         THEN Rollback(r, StatusOf("account_not_found"))
       ELSE IF NotActive(r) # {}
         THEN Rollback(r, StatusOf("account_frozen"))
       ELSE IF CurrencyMismatch(r)
         THEN Rollback(r, StatusOf("currency_mismatch"))
       ELSE /\ Goto(r, "reading")
            /\ UNCHANGED <<tables, call, locals, postedTotal>>

-----------------------------------------------------------------------------
(* The writes, private until the commit.                                   *)

\* balanceRow?.balance ?? 0n
CurrentBalance(a) == IF a \in DOMAIN balances THEN balances[a].balance ELSE 0

\* Mutant of RunningBalance: every leg starts from the table.
CommittedBalance(r, a) == CurrentBalance(a)

\* The balance is read for every leg, but only the first leg on an account uses
\* it; the next ones start from the running delta.
RunningBalance(r, a) ==
    IF a \in DOMAIN balanceDeltas[r] THEN balanceDeltas[r][a] ELSE CurrentBalance(a)

\* One turn of the read loop.
ReadBalance(r) ==
    LET leg == input[r][cursor[r]]
        next == ApplyEntryToBalance(accountMap[r][leg.account].type,
                                    RunningBalance(r, leg.account),
                                    leg.direction, leg.amount)
    IN
    /\ pc[r] = "reading"
    /\ cursor[r] <= Len(input[r])
    /\ balanceDeltas' = [balanceDeltas EXCEPT ![r] = Put(@, leg.account, next)]
    /\ cursor' = [cursor EXCEPT ![r] = @ + 1]
    /\ UNCHANGED <<tables, pc, call, found, accountMap, version, stagedBalances,
                   postedTotal>>

\* transactionsRepo.insert and entriesRepo.insertMany: nobody else sees either.
InsertEntries(r) ==
    /\ pc[r] = "reading"
    /\ cursor[r] > Len(input[r])
    /\ IF \E i \in DOMAIN input[r] : input[r][i].amount \notin Bigint
         THEN Rollback(r, StatusOf("internal_error"))
         ELSE /\ Goto(r, "versioning")
              /\ UNCHANGED <<tables, call, locals, postedTotal>>

\* The update loop follows the insertion order of balanceDeltas: the accounts
\* in the order in which the legs first name them.
NextToUpdate(r) ==
    {input[r][i].account : i \in
        {i \in DOMAIN input[r] :
            /\ input[r][i].account \notin DOMAIN stagedBalances[r]
            /\ \A j \in DOMAIN input[r] :
                 j < i => input[r][j].account \in DOMAIN stagedBalances[r]}}

ReadVersion(r) ==
    /\ pc[r] = "versioning"
    /\ \E a \in NextToUpdate(r) :
         IF a \notin DOMAIN balances
           THEN Rollback(r, StatusOf("account_not_found"))
           ELSE /\ version' = [version EXCEPT ![r] = balances[a].version]
                /\ Goto(r, "updating")
                /\ UNCHANGED <<tables, call, found, accountMap, cursor,
                               balanceDeltas, stagedBalances, postedTotal>>

\* WHERE version = expectedVersion: no row means a lost race.
OptimisticConflict(r, a) ==
    a \notin DOMAIN balances \/ balances[a].version # version[r]

\* Mutant of UpdatedRow: the version stays.
RowOfSameVersion(r, a) == [balance |-> balanceDeltas[r][a], version |-> version[r]]

UpdatedRow(r, a) == [balance |-> balanceDeltas[r][a], version |-> version[r] + 1]

\* Mutant of UpdateBalance: run on the pool instead of on the transaction, so
\* that it commits by itself.
UpdateBalanceAtOnce(r) ==
    /\ pc[r] = "updating"
    /\ \E a \in NextToUpdate(r) :
         LET staged == Put(stagedBalances[r], a, UpdatedRow(r, a)) IN
         /\ ~OptimisticConflict(r, a)
         /\ balances' = [balances EXCEPT ![a] = UpdatedRow(r, a)]
         /\ stagedBalances' = [stagedBalances EXCEPT ![r] = staged]
         /\ Goto(r, IF AccountsOf(input[r]) \subseteq DOMAIN staged
                      THEN "persisting" ELSE "versioning")
    /\ UNCHANGED <<accounts, transactions, entries, idempotencyKeys, call, found,
                   accountMap, cursor, balanceDeltas, version, postedTotal>>

UpdateBalance(r) ==
    /\ pc[r] = "updating"
    /\ \E a \in NextToUpdate(r) :
         /\ ~StagedByOther(r, a)
         /\ IF OptimisticConflict(r, a) \/ balanceDeltas[r][a] \notin Bigint
              THEN Rollback(r, StatusOf("internal_error"))
              ELSE LET staged == Put(stagedBalances[r], a, UpdatedRow(r, a)) IN
                   /\ stagedBalances' = [stagedBalances EXCEPT ![r] = staged]
                   /\ Goto(r, IF AccountsOf(input[r]) \subseteq DOMAIN staged
                                THEN "persisting" ELSE "versioning")
                   /\ UNCHANGED <<tables, call, found, accountMap, cursor,
                                  balanceDeltas, version, postedTotal>>

\* idempotencyService.persist, when the request has a key; the counters follow
\* it and precede the COMMIT.
Persist(r) ==
    /\ pc[r] = "persisting"
    /\ idempotency[r] # NoKey => ~KeyInsertedByOther(r)
    /\ IF idempotency[r] \in DOMAIN idempotencyKeys
         THEN Rollback(r, StatusOf("internal_error"))
         ELSE /\ postedTotal' = postedTotal + 1
              /\ Goto(r, "committing")
              /\ UNCHANGED <<tables, call, locals>>

\* The deferred trigger, then everything at once.
Commit(r) ==
    /\ pc[r] = "committing"
    /\ IF TriggerInstalled /\ ~Balanced(EntryRows(r, input[r]))
         THEN Rollback(r, StatusOf("double_entry_violation"))
         ELSE /\ transactions' = transactions \cup {r}
              /\ entries' = entries \cup EntryRows(r, input[r])
              /\ balances' = [a \in DOMAIN balances |->
                                IF a \in DOMAIN stagedBalances[r]
                                  THEN stagedBalances[r][a] ELSE balances[a]]
              /\ idempotencyKeys' =
                   IF idempotency[r] = NoKey THEN idempotencyKeys
                   ELSE Put(idempotencyKeys, idempotency[r],
                            [requestHash |-> input[r], txn |-> r])
              /\ Goto(r, "committed")
              /\ ReleaseAll(r)
              /\ UNCHANGED <<accounts, call, postedTotal>>

\* Mutant of Reply: the status of a route that sets none.
ReplyOk(r) ==
    /\ pc[r] = "committed"
    /\ Answer(r, 200)
    /\ UNCHANGED <<tables, locals, postedTotal>>

\* The answer after the commit.  When the connection breaks before the
\* acknowledgement arrives, db.transaction rejects all the same.
Reply(r) ==
    /\ pc[r] = "committed"
    /\ Answer(r, 201)
    /\ UNCHANGED <<tables, locals, postedTotal>>

\* Mutant of LoseAcknowledgement: every database error is taken for a conflict.
ReportConflict(r) ==
    /\ pc[r] = "committed"
    /\ Answer(r, StatusOf("idempotency_conflict"))
    /\ UNCHANGED <<tables, locals, postedTotal>>

LoseAcknowledgement(r) ==
    /\ pc[r] = "committed"
    /\ Answer(r, StatusOf("internal_error"))
    /\ UNCHANGED <<tables, locals, postedTotal>>

\* Any statement may fail: connection lost, server restart, statement timeout.
StatementFails(r) ==
    /\ pc[r] \in InTransaction
    /\ Rollback(r, StatusOf("internal_error"))

\* Mutant of SetStatus: what FOR UPDATE would have held off is not.
SetStatusAtOnce(a, status) ==
    /\ a \in DOMAIN accounts
    /\ accounts[a].status # status
    /\ accounts' = [accounts EXCEPT ![a].status = status]
    /\ UNCHANGED <<balances, transactions, entries, idempotencyKeys,
                   pc, call, locals, postedTotal>>

\* An operator's UPDATE of accounts.status, in a transaction of its own; it
\* waits for the row lock.
SetStatus(a, status) ==
    /\ a \in DOMAIN accounts
    /\ accounts[a].status # status
    /\ \A q \in Requests : a \notin DOMAIN accountMap[q]
    /\ accounts' = [accounts EXCEPT ![a].status = status]
    /\ UNCHANGED <<balances, transactions, entries, idempotencyKeys,
                   pc, call, locals, postedTotal>>

-----------------------------------------------------------------------------

\* The steps a call takes by itself: what the event loop and Postgres owe it.
Advance(r) ==
    \/ Begin(r)
    \/ LockRow(r)
    \/ CheckAccounts(r)
    \/ ReadBalance(r)
    \/ InsertEntries(r)
    \/ ReadVersion(r)
    \/ UpdateBalance(r)
    \/ Persist(r)
    \/ Commit(r)
    \/ Reply(r)

Fail(r) == StatementFails(r) \/ LoseAcknowledgement(r)

Next ==
    \/ \E r \in Requests :
         \/ \E i \in Inputs, k \in Keys \cup {NoKey} : Call(r, i, k)
         \/ Advance(r)
         \/ Fail(r)
    \/ \E change \in StatusChanges : SetStatus(change[1], change[2])

Spec == Init /\ [][Next]_vars

\* A call that can go on does; nothing makes a caller call or a statement fail.
FairSpec == Spec /\ \A r \in Requests : WF_vars(Advance(r))

-----------------------------------------------------------------------------
(* What holds of every reachable state.                                    *)

Labels == InTransaction \cup {"idle", "queued", "committed", "done"}

EntryRowType == [txn : Requests, line : Nat \ {0}, account : Accounts,
                 direction : Directions, amount : Nat \ {0}, currency : Currencies]

TablesOK ==
    /\ DOMAIN accounts = DOMAIN Chart
    /\ \A a \in DOMAIN accounts : accounts[a] \in AccountRow
    /\ DOMAIN balances = DOMAIN Chart
    /\ \A a \in DOMAIN balances : balances[a] \in BalanceRow
    /\ transactions \subseteq Requests
    /\ entries \subseteq EntryRowType
    /\ DOMAIN idempotencyKeys \subseteq Keys
    /\ \A k \in DOMAIN idempotencyKeys : idempotencyKeys[k] \in KeyRow

CallsOK ==
    /\ pc \in [Requests -> Labels]
    /\ input \in [Requests -> Inputs \cup {<<>>}]
    /\ \A r \in Requests : pc[r] # "idle" => input[r] \in Inputs
    /\ idempotency \in [Requests -> Keys \cup {NoKey}]
    /\ DOMAIN response \subseteq Requests
    /\ \A r \in DOMAIN response :
         response[r] \in [status : {201, 404, 409, 422, 500}, txn : Requests]

LocalsOK ==
    /\ found \in [Requests -> SUBSET DOMAIN Chart]
    /\ DOMAIN accountMap = Requests
    /\ DOMAIN balanceDeltas = Requests
    /\ DOMAIN stagedBalances = Requests
    /\ \A r \in Requests :
         /\ DOMAIN accountMap[r] \subseteq DOMAIN Chart
         /\ \A a \in DOMAIN accountMap[r] : accountMap[r][a] \in AccountRow
         /\ DOMAIN balanceDeltas[r] \subseteq Accounts
         /\ \A a \in DOMAIN balanceDeltas[r] : balanceDeltas[r][a] \in Int
         /\ DOMAIN stagedBalances[r] \subseteq Accounts
         /\ \A a \in DOMAIN stagedBalances[r] : stagedBalances[r][a] \in BalanceRow
    /\ cursor \in [Requests -> Nat \ {0}]
    /\ version \in [Requests -> Nat]

\* Types of the tables, the calls and the locals; a call's input is one of the
\* accepted ones from the moment it is made.
TypeOK ==
    /\ TablesOK
    /\ CallsOK
    /\ LocalsOK
    /\ postedTotal \in Nat

\* The materialised balance of every account is the one its journal implies:
\* no interleaving of postings loses, repeats or half-applies an update
\* (transactions.service.ts:90-136 against :112-120).
BalanceMatchesJournal ==
    \A a \in DOMAIN balances :
        balances[a].balance = JournalBalance(accounts[a].type, OfAccount(entries, a))

\* A column of the trial balance: what the balance of each account of a currency
\* puts on that side.  A balance below zero stands in the other column: an amount
\* below zero has no units.
Column(c, side) ==
    {[account |-> a,
      amount |-> IF NormalBalanceSide(accounts[a].type) = side
                   THEN balances[a].balance ELSE -balances[a].balance] :
        a \in {b \in DOMAIN balances : accounts[b].currency = c}}

\* In each currency the columns of debit and of credit balances have the same
\* total: the check of the legs, the check of their currencies and the balance
\* updates agree with one another (transaction.ts:21-40, transactions.service.ts:80-136).
TrialBalance ==
    \A c \in Currencies : Total(Column(c, "DEBIT")) = Total(Column(c, "CREDIT"))

\* A balance row's version counts the committed transactions that name the
\* account, once each however many legs they have (accounts.repo.ts:59-77).
VersionCountsPostings ==
    \A a \in DOMAIN balances :
        balances[a].version = Cardinality({row.txn : row \in OfAccount(entries, a)})

\* The row locks already exclude what the version check looks for: when a call
\* comes to update a balance row nobody else has an uncommitted update of it and
\* its version has not moved (transactions.service.ts:122-136).
OptimisticCheckNeverFails ==
    \A r \in Requests : pc[r] = "updating" =>
        \A a \in NextToUpdate(r) : ~StagedByOther(r, a) /\ ~OptimisticConflict(r, a)

\* A caller told 201 has all of its entries in the books, and one told that the
\* request was refused has none of them (error-handler.ts:35-61).
AnswerMatchesBooks ==
    \A r \in DOMAIN response :
        LET posted == {row \in entries : row.txn = response[r].txn} IN
        /\ response[r].status = 201 => posted = EntryRows(response[r].txn, input[r])
        /\ response[r].status \in {StatusOf(code) : code \in Refusals} => posted = {}

\* A key is on record exactly when its posting is in the books, with that
\* posting's request, and no key has two (transactions.service.ts:156-158).
OnePostingPerKey ==
    /\ \A k \in DOMAIN idempotencyKeys :
         LET record == idempotencyKeys[k] IN
         /\ record.txn \in transactions
         /\ idempotency[record.txn] = k
         /\ input[record.txn] = record.requestHash
    /\ \A r \in transactions : idempotency[r] # NoKey =>
         /\ idempotency[r] \in DOMAIN idempotencyKeys
         /\ idempotencyKeys[idempotency[r]].txn = r

\* Whom a call waits for, on a row lock or on an uncommitted key.
WaitsFor(r) ==
    {q \in Requests \ {r} :
        \/ pc[r] = "locking" /\ NextToLock(r) \cap DOMAIN accountMap[q] # {}
        \/ pc[r] = "updating" /\ NextToUpdate(r) \cap DOMAIN stagedBalances[q] # {}
        \/ /\ pc[r] = "persisting" /\ pc[q] = "committing"
           /\ idempotency[r] # NoKey /\ idempotency[q] = idempotency[r]}

\* No circle of calls waits for itself: rows are locked in the order of their
\* ids before anything else is (accounts.repo.ts:32-45), and the key comes last.
NoWaitCycle ==
    \A circle \in SUBSET Requests :
        circle # {} => \E r \in circle : WaitsFor(r) \cap circle = {}

-----------------------------------------------------------------------------
(* Why the books are right: what the locks and the locals guarantee.       *)

\* Waiting points at which the accounts have passed the checks.
Writing == InTransaction \ {"locking"}

\* The entry rows that the read loop has been through.
ReadRows(r) == {EntryRow(r, input[r], i) : i \in {j \in DOMAIN input[r] : j < cursor[r]}}

\* Nobody else holds a locked row.
LocksExclude ==
    \A q, r \in Requests : q # r => DOMAIN accountMap[q] \cap DOMAIN accountMap[r] = {}

\* A row read under its lock stays what it was.
LockedRowsAreCurrent ==
    \A r \in Requests : \A a \in DOMAIN accountMap[r] : accountMap[r][a] = accounts[a]

\* Locals exist only from the statement that sets them to the end of the transaction.
LocalsFollowPc ==
    \A r \in Requests :
        /\ pc[r] \notin InTransaction => DOMAIN accountMap[r] = {}
        /\ pc[r] \notin Writing => DOMAIN balanceDeltas[r] = {} /\ cursor[r] = 1
        /\ pc[r] \notin Writing \ {"reading"} => DOMAIN stagedBalances[r] = {}

\* The checks hold of every leg from the moment they pass to the commit.
WritersAreChecked ==
    \A r \in Requests :
        /\ pc[r] \in InTransaction \cup {"queued"} => Balanced(EntryRows(r, input[r]))
        /\ pc[r] \in Writing => \A i \in DOMAIN input[r] :
             LET leg == input[r][i] IN
             /\ leg.account \in DOMAIN accountMap[r]
             /\ accountMap[r][leg.account].status = "ACTIVE"
             /\ accountMap[r][leg.account].currency = leg.currency

\* A key about to be committed is new and is inserted by one call only.
InsertedKeysAreNew ==
    \A r \in Requests : pc[r] = "committing" /\ idempotency[r] # NoKey =>
        /\ idempotency[r] \notin DOMAIN idempotencyKeys
        /\ ~KeyInsertedByOther(r)

LockInv ==
    /\ LocksExclude
    /\ LockedRowsAreCurrent
    /\ LocalsFollowPc
    /\ WritersAreChecked
    /\ InsertedKeysAreNew

\* The running deltas are the committed balances plus the legs read so far.
DeltasFollowLegs(r) ==
    pc[r] \in Writing =>
        /\ cursor[r] <= Len(input[r]) + 1
        /\ pc[r] # "reading" => cursor[r] = Len(input[r]) + 1
        /\ IsFiniteSet(Units(ReadRows(r)))
        /\ DOMAIN balanceDeltas[r] = {row.account : row \in ReadRows(r)}
        /\ \A a \in DOMAIN balanceDeltas[r] :
             balanceDeltas[r][a] = balances[a].balance
               + JournalBalance(accounts[a].type, OfAccount(ReadRows(r), a))

\* The staged rows hold the deltas, one version up, for all accounts in the end.
StagedFollowsDeltas(r) ==
    /\ \A a \in DOMAIN stagedBalances[r] :
         /\ a \in DOMAIN balanceDeltas[r]
         /\ stagedBalances[r][a].balance = balanceDeltas[r][a]
         /\ stagedBalances[r][a].version = balances[a].version + 1
    /\ pc[r] = "updating" => \A a \in NextToUpdate(r) : version[r] = balances[a].version
    /\ pc[r] \in {"persisting", "committing"} =>
         AccountsOf(input[r]) \subseteq DOMAIN stagedBalances[r]

\* The journal holds the rows of the transactions that are committed.
JournalHoldsTransactions ==
    /\ \A row \in entries : row.txn \in transactions
    /\ \A r \in transactions : pc[r] \in {"committed", "done"}
    /\ IsFiniteSet(Units(entries))

BooksInv ==
    /\ \A r \in Requests : DeltasFollowLegs(r) /\ StagedFollowsDeltas(r)
    /\ JournalHoldsTransactions
    /\ BalanceMatchesJournal

-----------------------------------------------------------------------------
(* What no step does, and what must happen.                                *)

\* A transaction never enters the books while one of its accounts is missing,
\* frozen or closed, or in another currency: what was checked under the lock
\* still holds at the commit (transactions.service.ts:64-88).
PostsOnlyToActiveAccounts ==
    [][\A r \in transactions' \ transactions : \A row \in EntryRows(r, input[r]) :
         /\ row.account \in DOMAIN accounts
         /\ accounts[row.account].status = "ACTIVE"
         /\ accounts[row.account].currency = row.currency]_vars

\* Every call is answered.
EveryCallIsAnswered ==
    \A r \in Requests : pc[r] # "idle" ~> r \in DOMAIN response

\* The books as a reader of the tables sees them change atomically.
Books == INSTANCE Ledger WITH
    books <- accounts,
    balance <- [a \in DOMAIN balances |-> balances[a].balance],
    journal <- entries,
    keys <- [k \in DOMAIN idempotencyKeys |-> idempotencyKeys[k].txn]

\* postTransaction implements the atomic ledger.
ImplementsLedger == Books!Spec

\* What the help text of ledger_transactions_posted_total says it counts
\* (metrics.ts:24), whenever no call is between its increment and its COMMIT.
CounterCountsPostings ==
    (\A r \in Requests : pc[r] # "committing") => postedTotal = Cardinality(transactions)
=============================================================================
