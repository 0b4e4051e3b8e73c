---------------------------- MODULE LedgerDomain ----------------------------
(***************************************************************************)
(* The pure rules of the ledger (src/src/domain): normal-balance sides,    *)
(* what one entry does to the balance of an account, the balance that a    *)
(* journal implies, and the per-currency double-entry check.               *)
(*                                                                         *)
(* Amounts are unbounded integers, as a JavaScript bigint is: addAmounts   *)
(* and subtractAmounts (money.ts:43-63) raise only when a sum wraps, which *)
(* a bigint never does, so they are + and -.  The width of a Postgres      *)
(* bigint matters where a value is stored: see PostTransaction.            *)
(***************************************************************************)
EXTENDS Integers, Sequences, FiniteSets

CONSTANTS
    Accounts,    \* account ids; uuids are ordered as bytes, so numbers here
    Currencies   \* the keys of CURRENCIES

ASSUME AccountsAreOrdered == Accounts \subseteq Nat

AccountTypes == {"ASSET", "LIABILITY", "EQUITY", "INCOME", "EXPENSE"}
AccountStatuses == {"ACTIVE", "FROZEN", "CLOSED"}
Directions == {"DEBIT", "CREDIT"}

AccountRow == [type : AccountTypes, currency : Currencies, status : AccountStatuses]

\* One leg of a request that parsePostingEntries has accepted: the amount is
\* positive and the currency is known.
EntryInput == [account : Accounts, direction : Directions,
               amount : Nat \ {0}, currency : Currencies]

\* The row of table entries that leg i of input becomes in transaction txn.
EntryRow(txn, input, i) ==
    [txn |-> txn, line |-> i, account |-> input[i].account,
     direction |-> input[i].direction, amount |-> input[i].amount,
     currency |-> input[i].currency]

EntryRows(txn, input) == {EntryRow(txn, input, i) : i \in DOMAIN input}

-----------------------------------------------------------------------------

NormalBalanceSide(type) == IF type \in {"ASSET", "EXPENSE"} THEN "DEBIT" ELSE "CREDIT"

ApplyEntryToBalance(type, current, direction, amount) ==
    IF direction = NormalBalanceSide(type) THEN current + amount ELSE current - amount

BalanceFromJournal(type, debits, credits) ==
    IF NormalBalanceSide(type) = "DEBIT" THEN debits - credits ELSE credits - debits

-----------------------------------------------------------------------------

\* An amount is a whole number of minor units, so the sum of the amounts of a
\* set of rows is the number of minor units in them.  (Said this way, and not
\* with a fold, a total has a proof theory: that of finite cardinalities.)
Units(rows) == UNION {{row} \X (1 .. row.amount) : row \in rows}

Total(rows) == Cardinality(Units(rows))

On(rows, direction) == {row \in rows : row.direction = direction}
OfAccount(rows, a) == {row \in rows : row.account = a}
InCurrency(rows, c) == {row \in rows : row.currency = c}

\* SUM(CASE WHEN direction = ...) over the rows, read as a signed balance.
JournalBalance(type, rows) ==
    BalanceFromJournal(type, Total(On(rows, "DEBIT")), Total(On(rows, "CREDIT")))

\* assertTransactionBalanced, and the loop of the database trigger.
Balanced(rows) ==
    \A c \in {row.currency : row \in rows} :
        Total(On(InCurrency(rows, c), "DEBIT")) = Total(On(InCurrency(rows, c), "CREDIT"))

AccountsOf(input) == {input[i].account : i \in DOMAIN input}

\* Map.set of JavaScript, and the insertion of a row under its primary key.
Put(map, key, value) ==
    [k \in DOMAIN map \cup {key} |-> IF k = key THEN value ELSE map[k]]

NoRows == [k \in {} |-> 0]
=============================================================================
