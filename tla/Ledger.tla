------------------------------- MODULE Ledger -------------------------------
(***************************************************************************)
(* What the service promises of its books, with none of the machinery: a   *)
(* posting happens at one instant, to accounts that are active and of the  *)
(* right currency at that instant, for entries that balance, at most once  *)
(* per transaction and at most once per idempotency key that is on record, *)
(* and it moves the balance of each account it names by exactly what its   *)
(* entries say.  PostTransaction, with its locks, staged writes, rollbacks *)
(* and retries, is shown to implement this module.                         *)
(***************************************************************************)
EXTENDS LedgerDomain

CONSTANTS
    Requests,   \* calls of the API; also the ids of the transactions they post
    Inputs,     \* the entry lists a caller may ask to post
    Keys,       \* idempotency keys
    NoKey,      \* a request that carries no key
    Chart       \* the accounts that exist at the start, id |-> row

VARIABLES
    books,      \* id |-> row of each account
    balance,    \* id |-> signed balance of each account
    journal,    \* the entries of every posted transaction
    keys        \* key on record |-> the transaction it stands for

ledgerVars == <<books, balance, journal, keys>>

Init ==
    /\ books = Chart
    /\ balance = [a \in DOMAIN Chart |-> 0]
    /\ journal = {}
    /\ keys = NoRows

Post(txn, input, key) ==
    LET rows == EntryRows(txn, input) IN
    /\ \A row \in journal : row.txn # txn
    /\ key \notin DOMAIN keys
    /\ Balanced(rows)
    /\ \A row \in rows : /\ row.account \in DOMAIN books
                         /\ books[row.account].status = "ACTIVE"
                         /\ books[row.account].currency = row.currency
    /\ journal' = journal \cup rows
    /\ balance' = [a \in DOMAIN balance |->
                     balance[a] + JournalBalance(books[a].type, OfAccount(rows, a))]
    /\ keys' = IF key = NoKey THEN keys ELSE Put(keys, key, txn)
    /\ UNCHANGED books

\* An account is opened, with the balance of an empty journal.
Open(a, type, currency) ==
    /\ a \notin DOMAIN books
    /\ books' = Put(books, a, [type |-> type, currency |-> currency, status |-> "ACTIVE"])
    /\ balance' = Put(balance, a, 0)
    /\ UNCHANGED <<journal, keys>>

\* An operator freezes, closes or reopens an account.
SetStatus(a, status) ==
    /\ a \in DOMAIN books
    /\ books' = [books EXCEPT ![a].status = status]
    /\ UNCHANGED <<balance, journal, keys>>

Next ==
    \/ \E r \in Requests, i \in Inputs, k \in Keys \cup {NoKey} : Post(r, i, k)
    \/ \E a \in Accounts, t \in AccountTypes, c \in Currencies : Open(a, t, c)
    \/ \E a \in Accounts, s \in AccountStatuses : SetStatus(a, s)

Spec == Init /\ [][Next]_ledgerVars
=============================================================================
