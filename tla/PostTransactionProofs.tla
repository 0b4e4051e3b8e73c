----------------------- MODULE PostTransactionProofs ------------------------
(***************************************************************************)
(* Proofs about PostTransaction, for any number of calls, accounts, keys   *)
(* and entry lists.  Three layers, each using the ones before it: types,   *)
(* then what the row locks guarantee (LockInv), then what they are for     *)
(* (BooksInv, hence BalanceMatchesJournal and the refinement of Ledger).   *)
(***************************************************************************)
EXTENDS PostTransaction, LedgerDomainProofs

USE DEF Goto, Labels, InTransaction

-----------------------------------------------------------------------------
(* Facts about single operators.                                           *)

\* Every leg of an accepted input is a typed entry.
LEMMA LegType ==
  ASSUME NEW i \in Inputs
  PROVE  /\ DOMAIN i = 1 .. Len(i) /\ Len(i) \in Nat /\ Len(i) >= 2
         /\ \A j \in DOMAIN i : i[j] \in EntryInput
  BY InputsAreEntries

\* The rows of an accepted input are typed rows.
LEMMA EntryRowsType ==
  ASSUME NEW i \in Inputs, NEW r \in Requests
  PROVE  EntryRows(r, i) \subseteq EntryRowType
<1>1. \A j \in DOMAIN i : j \in Nat \ {0} /\ i[j] \in EntryInput
  BY LegType
<1> QED BY <1>1 DEF EntryRows, EntryRow, EntryRowType, EntryInput

\* An account row comes from an input's leg only.
LEMMA NextToUpdateType ==
  ASSUME NEW r \in Requests, input[r] \in Inputs
  PROVE  NextToUpdate(r) \subseteq AccountsOf(input[r])
  BY DEF NextToUpdate, AccountsOf

\* The accounts of an accepted input are account ids.
LEMMA AccountsOfType ==
  ASSUME NEW i \in Inputs
  PROVE  AccountsOf(i) \subseteq Accounts
  BY LegType DEF AccountsOf, EntryInput

-----------------------------------------------------------------------------
(* Types.                                                                  *)

\* The types hold at the start.
LEMMA TypeInit == Init => TypeOK
<1> SUFFICES ASSUME Init PROVE TypeOK
  OBVIOUS
<1>1. TablesOK
  BY ChartHoldsAccounts DEF Init, TablesOK, NoRows, BalanceRow
<1>2. CallsOK
  BY DEF Init, CallsOK, NoRows
<1>3. LocalsOK
  BY DEF Init, LocalsOK, NoRows
<1> QED BY <1>1, <1>2, <1>3 DEF TypeOK, Init

\* The end of a transaction leaves typed locals.
LEMMA ReleaseAllType ==
  ASSUME LocalsOK, NEW r \in Requests, ReleaseAll(r)
  PROVE  LocalsOK'
  BY DEF LocalsOK, ReleaseAll, NoRows

\* What errors are answered with.
LEMMA StatusType ==
  /\ StatusOf("account_not_found") = 404
  /\ StatusOf("account_frozen") = 409
  /\ StatusOf("unbalanced_transaction") = 422
  /\ StatusOf("currency_mismatch") = 422
  /\ StatusOf("double_entry_violation") = 422
  /\ StatusOf("internal_error") = 500
  BY DEF StatusOf, NotFound, Conflict, BadRequest, Unprocessable

\* A rollback keeps the types.
LEMMA RollbackType ==
  ASSUME TypeOK, NEW r \in Requests, NEW status \in {404, 409, 422, 500},
         pc[r] # "idle", Rollback(r, status)
  PROVE  TypeOK'
<1>1. TablesOK'
  BY DEF TypeOK, TablesOK, Rollback, tables
<1>2. CallsOK'
  BY DEF TypeOK, CallsOK, Rollback, Answer, Put
<1>3. LocalsOK'
  BY ReleaseAllType DEF TypeOK, Rollback
<1> QED BY <1>1, <1>2, <1>3 DEF TypeOK, Rollback

\* Every step keeps the types.
LEMMA TypeStep == TypeOK /\ [Next]_vars => TypeOK'
<1> SUFFICES ASSUME TypeOK, [Next]_vars PROVE TypeOK'
  OBVIOUS
<1> USE DEF TypeOK
<1>1. ASSUME NEW r \in Requests, NEW i \in Inputs, NEW k \in Keys \cup {NoKey},
             Call(r, i, k)
      PROVE  TypeOK'
  <2>1. CallsOK'
    BY StatusType, <1>1 DEF CallsOK, Call, Put
  <2> QED BY <1>1, <2>1 DEF Call, TablesOK, tables, LocalsOK, locals
<1>2. ASSUME NEW r \in Requests, Begin(r) PROVE TypeOK'
  BY <1>2 DEF Begin, TablesOK, tables, CallsOK, call, LocalsOK
<1>3. ASSUME NEW r \in Requests, LockRow(r) PROVE TypeOK'
  <2>1. LocalsOK'
    BY <1>3 DEF LockRow, NextToLock, LocalsOK, TablesOK, Put
  <2> QED BY <1>3, <2>1 DEF LockRow, TablesOK, tables, CallsOK, call
<1>4. ASSUME NEW r \in Requests, CheckAccounts(r) PROVE TypeOK'
  <2>1. CASE \E status \in {404, 409, 422, 500} : Rollback(r, status)
    BY <1>4, <2>1, RollbackType, StatusType DEF CheckAccounts
  <2>2. CASE Goto(r, "reading") /\ UNCHANGED <<tables, call, locals, postedTotal>>
    BY <1>4, <2>2 DEF CheckAccounts, TablesOK, tables, CallsOK, call, LocalsOK, locals
  <2> QED BY StatusType, <1>4, <2>1, <2>2 DEF CheckAccounts
<1>5. ASSUME NEW r \in Requests, ReadBalance(r) PROVE TypeOK'
  <2> DEFINE leg == input[r][cursor[r]]
             running == RunningBalance(r, leg.account)
             next == ApplyEntryToBalance(accountMap[r][leg.account].type, running,
                                         leg.direction, leg.amount)
  <2>1. leg \in EntryInput
    <3>1. input[r] \in Inputs
      BY <1>5 DEF ReadBalance, CallsOK
    <3>2. cursor[r] \in DOMAIN input[r]
      BY <1>5, <3>1, LegType DEF ReadBalance, LocalsOK
    <3> QED BY <3>1, <3>2, LegType
  <2>2. leg.account \in Accounts /\ leg.amount \in Nat
    BY <2>1 DEF EntryInput
  <2>3. running \in Int
    BY DEF RunningBalance, LocalsOK, TablesOK, CurrentBalance, BalanceRow
  <2>4. next \in Int
    BY <2>2, <2>3 DEF ApplyEntryToBalance
  <2>5. /\ balanceDeltas' = [balanceDeltas EXCEPT ![r] = Put(balanceDeltas[r], leg.account, next)]
        /\ cursor' = [cursor EXCEPT ![r] = cursor[r] + 1]
    BY <1>5 DEF ReadBalance
  <2> HIDE DEF leg, running, next
  <2>6. LocalsOK'
    <3>1. cursor' \in [Requests -> Nat \ {0}]
      BY <2>5 DEF LocalsOK
    <3>2. ASSUME NEW q \in Requests
          PROVE  /\ DOMAIN balanceDeltas'[q] \subseteq Accounts
                 /\ \A a \in DOMAIN balanceDeltas'[q] : balanceDeltas'[q][a] \in Int
      <4>1. CASE q = r
        <5>1. balanceDeltas'[q] = Put(balanceDeltas[r], leg.account, next)
          BY <2>5, <4>1 DEF LocalsOK
        <5>2. /\ DOMAIN balanceDeltas[r] \subseteq Accounts
              /\ \A a \in DOMAIN balanceDeltas[r] : balanceDeltas[r][a] \in Int
          BY DEF LocalsOK
        <5>3. leg.account \in Accounts
          BY <2>2
        <5> QED BY <5>1, <5>2, <5>3, <2>4, PutType
      <4>2. CASE q # r
        BY <2>5, <4>2 DEF LocalsOK
      <4> QED BY <4>1, <4>2
    <3>3. DOMAIN balanceDeltas' = Requests
      BY <2>5 DEF LocalsOK
    <3> QED BY <1>5, <3>1, <3>2, <3>3 DEF ReadBalance, LocalsOK
  <2> QED BY <1>5, <2>6 DEF ReadBalance, TablesOK, tables, CallsOK, call
<1>6. ASSUME NEW r \in Requests, InsertEntries(r) PROVE TypeOK'
  <2>1. CASE Rollback(r, StatusOf("internal_error"))
    BY <1>6, <2>1, RollbackType, StatusType DEF InsertEntries
  <2>2. CASE Goto(r, "versioning") /\ UNCHANGED <<tables, call, locals, postedTotal>>
    BY <1>6, <2>2 DEF InsertEntries, TablesOK, tables, CallsOK, call, LocalsOK, locals
  <2> QED BY <1>6, <2>1, <2>2 DEF InsertEntries
<1>7. ASSUME NEW r \in Requests, ReadVersion(r) PROVE TypeOK'
  <2>1. CASE Rollback(r, StatusOf("account_not_found"))
    BY <1>7, <2>1, RollbackType, StatusType DEF ReadVersion
  <2>2. CASE ~Rollback(r, StatusOf("account_not_found"))
    <3>1. PICK a \in DOMAIN balances :
            /\ version' = [version EXCEPT ![r] = balances[a].version]
            /\ Goto(r, "updating")
            /\ UNCHANGED <<tables, call, found, accountMap, cursor, balanceDeltas,
                           stagedBalances, postedTotal>>
      BY <1>7, <2>2 DEF ReadVersion
    <3>2. balances[a].version \in Nat
      BY DEF TablesOK, BalanceRow
    <3>3. LocalsOK'
      BY <3>1, <3>2 DEF LocalsOK
    <3> QED BY <1>7, <3>1, <3>3 DEF ReadVersion, TablesOK, tables, CallsOK, call
  <2> QED BY <2>1, <2>2
<1>8. ASSUME NEW r \in Requests, UpdateBalance(r) PROVE TypeOK'
  <2>1. CASE Rollback(r, StatusOf("internal_error"))
    BY <1>8, <2>1, RollbackType, StatusType DEF UpdateBalance
  <2>2. CASE ~Rollback(r, StatusOf("internal_error"))
    <3>1. PICK a \in NextToUpdate(r) :
            LET row == [balance |-> balanceDeltas[r][a], version |-> version[r] + 1]
                staged == Put(stagedBalances[r], a, row)
            IN /\ balanceDeltas[r][a] \in Bigint
               /\ stagedBalances' = [stagedBalances EXCEPT ![r] = staged]
               /\ Goto(r, IF AccountsOf(input[r]) \subseteq DOMAIN staged
                            THEN "persisting" ELSE "versioning")
               /\ UNCHANGED <<tables, call, found, accountMap, cursor,
                              balanceDeltas, version, postedTotal>>
      BY <1>8, <2>2 DEF UpdateBalance, UpdatedRow
    <3>2. a \in Accounts
      <4>1. input[r] \in Inputs
        BY <1>8 DEF UpdateBalance, CallsOK
      <4> QED BY <3>1, <4>1, NextToUpdateType, AccountsOfType
    <3>3. [balance |-> balanceDeltas[r][a], version |-> version[r] + 1] \in BalanceRow
      BY <3>1, LimitsArePositive DEF Bigint, BalanceRow, LocalsOK
    <3>4. LocalsOK'
      BY <3>1, <3>2, <3>3 DEF LocalsOK, Put
    <3> QED BY <1>8, <3>1, <3>4 DEF UpdateBalance, TablesOK, tables, CallsOK, call
  <2> QED BY <2>1, <2>2
<1>9. ASSUME NEW r \in Requests, Persist(r) PROVE TypeOK'
  <2>1. CASE Rollback(r, StatusOf("internal_error"))
    BY <1>9, <2>1, RollbackType, StatusType DEF Persist
  <2>2. CASE ~Rollback(r, StatusOf("internal_error"))
    <3>1. /\ pc[r] = "persisting"
          /\ postedTotal' = postedTotal + 1
          /\ Goto(r, "committing")
          /\ UNCHANGED <<tables, call, locals>>
      BY <1>9, <2>2 DEF Persist
    <3>2. postedTotal' \in Nat
      BY <3>1
    <3> QED BY <3>1, <3>2 DEF TablesOK, tables, CallsOK, call, LocalsOK, locals
  <2> QED BY <2>1, <2>2
<1>10. ASSUME NEW r \in Requests, Commit(r) PROVE TypeOK'
  <2>1. CASE Rollback(r, StatusOf("double_entry_violation"))
    BY <1>10, <2>1, RollbackType, StatusType DEF Commit
  <2>2. CASE ~Rollback(r, StatusOf("double_entry_violation"))
    <3>1. input[r] \in Inputs
      BY <1>10 DEF Commit, CallsOK
    <3>2. EntryRows(r, input[r]) \subseteq EntryRowType
      BY <3>1, EntryRowsType
    <3> DEFINE record == [requestHash |-> input[r], txn |-> r]
    <3>3. TablesOK'
      <4>1. /\ transactions' = transactions \cup {r}
            /\ entries' = entries \cup EntryRows(r, input[r])
            /\ balances' = [a \in DOMAIN balances |->
                              IF a \in DOMAIN stagedBalances[r]
                                THEN stagedBalances[r][a] ELSE balances[a]]
            /\ idempotencyKeys' = IF idempotency[r] = NoKey THEN idempotencyKeys
                                  ELSE Put(idempotencyKeys, idempotency[r], record)
            /\ accounts' = accounts
        BY <1>10, <2>2 DEF Commit
      <4>2. record \in KeyRow
        BY <3>1 DEF KeyRow
      <4> HIDE DEF record
      <4>3. /\ DOMAIN idempotencyKeys' \subseteq Keys
            /\ \A k \in DOMAIN idempotencyKeys' : idempotencyKeys'[k] \in KeyRow
        <5>1. CASE idempotency[r] = NoKey
          BY <4>1, <5>1 DEF TablesOK
        <5>2. CASE idempotency[r] # NoKey
          <6>1. idempotency[r] \in Keys
            BY <5>2 DEF CallsOK
          <6>2. /\ DOMAIN idempotencyKeys \subseteq Keys
                /\ \A k \in DOMAIN idempotencyKeys : idempotencyKeys[k] \in KeyRow
            BY DEF TablesOK
          <6>3. idempotencyKeys' = Put(idempotencyKeys, idempotency[r], record)
            BY <4>1, <5>2
          <6> QED BY <4>2, <6>1, <6>2, <6>3, PutType
        <5> QED BY <5>1, <5>2
      <4>4. DOMAIN balances' = DOMAIN Chart /\ \A a \in DOMAIN balances' : balances'[a] \in BalanceRow
        BY <4>1 DEF TablesOK, LocalsOK
      <4> QED BY <3>2, <4>1, <4>3, <4>4 DEF TablesOK
    <3>4. LocalsOK'
      BY <1>10, <2>2, ReleaseAllType DEF Commit
    <3> QED BY <1>10, <2>2, <3>3, <3>4 DEF Commit, CallsOK, call
  <2> QED BY <2>1, <2>2
<1>11. ASSUME NEW r \in Requests, Reply(r) \/ LoseAcknowledgement(r) PROVE TypeOK'
  <2>1. CallsOK'
    BY StatusType, <1>11 DEF Reply, LoseAcknowledgement, Answer, CallsOK, Put
  <2> QED BY <1>11, <2>1
          DEF Reply, LoseAcknowledgement, TablesOK, tables, LocalsOK, locals
<1>12. ASSUME NEW r \in Requests, StatementFails(r) PROVE TypeOK'
  BY <1>12, RollbackType, StatusType DEF StatementFails
<1>13. ASSUME NEW change \in StatusChanges, SetStatus(change[1], change[2]) PROVE TypeOK'
  <2>1. change[2] \in AccountStatuses
    BY StatusChangesAreTyped
  <2>2. TablesOK'
    BY <1>13, <2>1 DEF SetStatus, TablesOK, AccountRow
  <2> QED BY <1>13, <2>2 DEF SetStatus, CallsOK, call, LocalsOK, locals
<1>14. CASE UNCHANGED vars
  BY <1>14 DEF vars, TablesOK, tables, CallsOK, call, LocalsOK, locals
<1> QED BY <1>1, <1>2, <1>3, <1>4, <1>5, <1>6, <1>7, <1>8, <1>9, <1>10, <1>11,
           <1>12, <1>13, <1>14 DEF Next, Advance, Fail

\* postTransaction keeps every table, call and local within its type.
THEOREM TypeCorrect == Spec => []TypeOK
  BY TypeInit, TypeStep, PTL DEF Spec

-----------------------------------------------------------------------------
(* Locks.                                                                  *)

\* The locks hold of the initial state, where nobody holds any.
LEMMA LockInit == Init => LockInv
<1> SUFFICES ASSUME Init PROVE LockInv
  OBVIOUS
<1>1. LocksExclude /\ LockedRowsAreCurrent
  BY DEF Init, LocksExclude, LockedRowsAreCurrent, NoRows
<1>2. LocalsFollowPc
  BY DEF Init, LocalsFollowPc, Writing, NoRows
<1>3. WritersAreChecked /\ InsertedKeysAreNew
  BY DEF Init, WritersAreChecked, InsertedKeysAreNew, Writing
<1> QED BY <1>1, <1>2, <1>3 DEF LockInv

\* Releasing everything at the end of a transaction keeps them, whatever
\* becomes of the keys.
LEMMA EndKeepsLocks ==
  ASSUME TypeOK, LockInv, NEW r \in Requests, ReleaseAll(r),
         NEW label \in {"committed", "done"}, Goto(r, label),
         UNCHANGED <<accounts, input>>
  PROVE  LocksExclude' /\ LockedRowsAreCurrent' /\ LocalsFollowPc' /\ WritersAreChecked'
<1> USE DEF TypeOK, LockInv, CallsOK, LocalsOK
<1>1. /\ accountMap'[r] = NoRows
      /\ \A q \in Requests \ {r} : accountMap'[q] = accountMap[q] /\ pc'[q] = pc[q]
      /\ pc'[r] = label
  BY DEF ReleaseAll
<1>2. LocksExclude'
  BY <1>1 DEF LocksExclude, NoRows
<1>3. LockedRowsAreCurrent'
  BY <1>1 DEF LockedRowsAreCurrent, NoRows
<1>4. LocalsFollowPc'
  BY DEF ReleaseAll, LocalsFollowPc, Writing, NoRows
<1>5. WritersAreChecked'
  BY <1>1 DEF WritersAreChecked, Writing
<1> QED BY <1>2, <1>3, <1>4, <1>5

\* A rollback keeps the lock invariant.
LEMMA RollbackKeepsLocks ==
  ASSUME TypeOK, LockInv, NEW r \in Requests, NEW status, Rollback(r, status)
  PROVE  LockInv'
<1>1. LocksExclude' /\ LockedRowsAreCurrent' /\ LocalsFollowPc' /\ WritersAreChecked'
  BY EndKeepsLocks DEF Rollback, Answer, tables
<1>2. InsertedKeysAreNew'
  BY DEF LockInv, TypeOK, CallsOK, InsertedKeysAreNew, KeyInsertedByOther,
         Rollback, Answer, tables
<1> QED BY <1>1, <1>2 DEF LockInv

\* Moving on between statements, with the locks as they are, keeps it too.
LEMMA MovingOnKeepsLocks ==
  ASSUME TypeOK, LockInv, NEW r \in Requests,
         pc[r] \in Writing, NEW label \in Writing \ {"reading", "committing"}, Goto(r, label),
         UNCHANGED <<tables, input, idempotency, accountMap, cursor, balanceDeltas>>,
         \A q \in Requests \ {r} : stagedBalances'[q] = stagedBalances[q]
  PROVE  LockInv'
<1> USE DEF TypeOK, LockInv, CallsOK, LocalsOK, tables
<1>1. LocksExclude' /\ LockedRowsAreCurrent'
  BY DEF LocksExclude, LockedRowsAreCurrent
<1>2. LocalsFollowPc'
  BY DEF LocalsFollowPc, Writing
<1>3. WritersAreChecked'
  BY DEF WritersAreChecked, Writing
<1>4. InsertedKeysAreNew'
  BY DEF InsertedKeysAreNew, KeyInsertedByOther
<1> QED BY <1>1, <1>2, <1>3, <1>4

\* Every step keeps the lock invariant.
LEMMA LockStep == TypeOK /\ LockInv /\ [Next]_vars => LockInv'
<1> SUFFICES ASSUME TypeOK, LockInv, [Next]_vars PROVE LockInv'
  OBVIOUS
<1>t. /\ DOMAIN pc = Requests
      /\ DOMAIN input = Requests
      /\ DOMAIN idempotency = Requests
      /\ DOMAIN accountMap = Requests
      /\ DOMAIN balanceDeltas = Requests
      /\ DOMAIN stagedBalances = Requests
      /\ DOMAIN cursor = Requests
  BY DEF TypeOK, CallsOK, LocalsOK
<1>l. LocksExclude /\ LockedRowsAreCurrent /\ LocalsFollowPc /\ WritersAreChecked /\ InsertedKeysAreNew
  BY DEF LockInv
<1>f. ASSUME UNCHANGED <<accounts, accountMap>>
      PROVE  LocksExclude' /\ LockedRowsAreCurrent'
  BY <1>f, <1>l DEF LocksExclude, LockedRowsAreCurrent
<1>1. ASSUME NEW r \in Requests, NEW i \in Inputs, NEW k \in Keys \cup {NoKey},
             Call(r, i, k)
      PROVE  LockInv'
  <2>1. /\ UNCHANGED <<tables, locals>>
        /\ pc[r] = "idle" /\ pc'[r] \in {"queued", "done"}
        /\ pc'[r] = "queued" => Balanced(EntryRows(r, i))
        /\ input'[r] = i
        /\ \A q \in Requests \ {r} : /\ pc'[q] = pc[q] /\ input'[q] = input[q]
                                     /\ idempotency'[q] = idempotency[q]
    BY <1>1, <1>t DEF Call
  <2>2. LocksExclude' /\ LockedRowsAreCurrent'
    BY <2>1, <1>f DEF tables, locals
  <2>3. LocalsFollowPc'
    BY <2>1, <1>l DEF locals, LocalsFollowPc, Writing
  <2>4. WritersAreChecked'
    BY <2>1, <1>l DEF locals, WritersAreChecked, Writing
  <2>5. InsertedKeysAreNew'
    BY <2>1, <1>l DEF tables, InsertedKeysAreNew, KeyInsertedByOther
  <2> QED BY <2>2, <2>3, <2>4, <2>5 DEF LockInv
<1>2. ASSUME NEW r \in Requests, Begin(r) PROVE LockInv'
  <2>1. LocksExclude' /\ LockedRowsAreCurrent'
    BY <1>2, <1>f DEF Begin, tables
  <2>2. LocalsFollowPc'
    BY <1>2, <1>t, <1>l DEF Begin, LocalsFollowPc, Writing
  <2>3. WritersAreChecked' /\ InsertedKeysAreNew'
    BY <1>2, <1>t, <1>l DEF Begin, tables, call, WritersAreChecked, Writing,
                            InsertedKeysAreNew, KeyInsertedByOther
  <2> QED BY <2>1, <2>2, <2>3 DEF LockInv
<1>3. ASSUME NEW r \in Requests, LockRow(r) PROVE LockInv'
  <2>1. PICK a : /\ ~LockedByOther(r, a)
                 /\ accountMap' = [accountMap EXCEPT ![r] = Put(accountMap[r], a, accounts[a])]
    BY <1>3 DEF LockRow
  <2>2. /\ pc[r] = "locking"
        /\ UNCHANGED <<tables, pc, call, found, cursor, balanceDeltas, version,
                       stagedBalances, postedTotal>>
    BY <1>3 DEF LockRow
  <2>3. /\ accountMap'[r] = Put(accountMap[r], a, accounts[a])
        /\ \A q \in Requests \ {r} : accountMap'[q] = accountMap[q]
    BY <2>1, <1>t
  <2>4. /\ DOMAIN accountMap'[r] = DOMAIN accountMap[r] \cup {a}
        /\ \A b \in DOMAIN accountMap[r] \cup {a} :
             accountMap'[r][b] = IF b = a THEN accounts[a] ELSE accountMap[r][b]
    BY <2>3 DEF Put
  <2>5. LocksExclude'
    BY <2>1, <2>3, <2>4, <1>l DEF LocksExclude, LockedByOther
  <2>6. LockedRowsAreCurrent'
    BY <2>2, <2>3, <2>4, <1>l DEF LockedRowsAreCurrent, tables
  <2>7. LocalsFollowPc'
    BY <2>2, <2>3, <1>l DEF LocalsFollowPc, Writing
  <2>8. WritersAreChecked' /\ InsertedKeysAreNew'
    BY <2>2, <2>3, <1>l DEF tables, call, WritersAreChecked, Writing, InsertedKeysAreNew,
                            KeyInsertedByOther
  <2> QED BY <2>5, <2>6, <2>7, <2>8 DEF LockInv
<1>4. ASSUME NEW r \in Requests, CheckAccounts(r) PROVE LockInv'
  <2>1. CASE \E status \in {404, 409, 422} : Rollback(r, status)
    BY StatusType, <2>1, RollbackKeepsLocks
  <2>2. CASE ~\E status \in {404, 409, 422} : Rollback(r, status)
    <3>1. /\ pc[r] = "locking" /\ Goto(r, "reading")
          /\ UNCHANGED <<tables, call, locals, postedTotal>>
          /\ ~\E a \in Missing(r) : \A b \in NotActive(r) : a < b
          /\ NotActive(r) = {} /\ ~CurrencyMismatch(r)
      BY StatusType, <1>4, <2>2 DEF CheckAccounts
    <3>2. \A i \in DOMAIN input[r] :
            /\ input[r][i].account \in DOMAIN accountMap[r]
            /\ accountMap[r][input[r][i].account].status = "ACTIVE"
            /\ accountMap[r][input[r][i].account].currency = input[r][i].currency
      <4>1. Missing(r) = {}
        BY <3>1
      <4>2. AccountsOf(input[r]) \subseteq DOMAIN accountMap[r]
        BY <4>1 DEF Missing
      <4>3. \A i \in DOMAIN input[r] : input[r][i].account \in DOMAIN accountMap[r]
        BY <4>2 DEF AccountsOf
      <4> QED BY <3>1, <4>3 DEF NotActive, CurrencyMismatch
    <3>3. LocksExclude' /\ LockedRowsAreCurrent'
      BY <3>1, <1>f DEF locals, tables
    <3>4. LocalsFollowPc'
      BY <3>1, <1>t, <1>l DEF locals, LocalsFollowPc, Writing
    <3>5. WritersAreChecked'
      BY <3>1, <3>2, <1>t, <1>l DEF locals, call, WritersAreChecked, Writing
    <3>6. InsertedKeysAreNew'
      BY <3>1, <1>t, <1>l DEF call, tables, InsertedKeysAreNew, KeyInsertedByOther
    <3> QED BY <3>3, <3>4, <3>5, <3>6 DEF LockInv
  <2> QED BY <2>1, <2>2
<1>5. ASSUME NEW r \in Requests, ReadBalance(r) PROVE LockInv'
  <2>1. /\ pc[r] = "reading"
        /\ UNCHANGED <<tables, pc, call, found, accountMap, version, stagedBalances,
                       postedTotal>>
        /\ \A q \in Requests \ {r} : /\ balanceDeltas'[q] = balanceDeltas[q]
                                     /\ cursor'[q] = cursor[q]
    BY <1>5, <1>t DEF ReadBalance
  <2>2. LocksExclude' /\ LockedRowsAreCurrent'
    BY <2>1, <1>f DEF tables
  <2>3. LocalsFollowPc'
    BY <2>1, <1>l DEF LocalsFollowPc, Writing
  <2>4. WritersAreChecked' /\ InsertedKeysAreNew'
    BY <2>1, <1>l DEF tables, call, WritersAreChecked, Writing, InsertedKeysAreNew,
                      KeyInsertedByOther
  <2> QED BY <2>2, <2>3, <2>4 DEF LockInv
<1>6. ASSUME NEW r \in Requests, InsertEntries(r) PROVE LockInv'
  <2>1. CASE Rollback(r, StatusOf("internal_error"))
    BY <2>1, RollbackKeepsLocks
  <2>2. CASE ~Rollback(r, StatusOf("internal_error"))
    <3>1. /\ pc[r] = "reading" /\ Goto(r, "versioning")
          /\ UNCHANGED <<tables, call, locals>>
      BY <1>6, <2>2 DEF InsertEntries
    <3> QED BY <3>1, MovingOnKeepsLocks DEF Writing, call, locals
  <2> QED BY <2>1, <2>2
<1>7. ASSUME NEW r \in Requests, ReadVersion(r) PROVE LockInv'
  <2>1. CASE Rollback(r, StatusOf("account_not_found"))
    BY <2>1, RollbackKeepsLocks
  <2>2. CASE ~Rollback(r, StatusOf("account_not_found"))
    <3>1. /\ pc[r] = "versioning" /\ Goto(r, "updating")
          /\ UNCHANGED <<tables, call, accountMap, cursor, balanceDeltas, stagedBalances>>
      BY <1>7, <2>2 DEF ReadVersion
    <3> QED BY <3>1, MovingOnKeepsLocks DEF Writing, call
  <2> QED BY <2>1, <2>2
<1>8. ASSUME NEW r \in Requests, UpdateBalance(r) PROVE LockInv'
  <2>1. CASE Rollback(r, StatusOf("internal_error"))
    BY <2>1, RollbackKeepsLocks
  <2>2. CASE ~Rollback(r, StatusOf("internal_error"))
    <3>1. PICK label \in {"persisting", "versioning"} : Goto(r, label)
      BY <1>8, <2>2 DEF UpdateBalance
    <3>2. /\ pc[r] = "updating"
          /\ UNCHANGED <<tables, call, accountMap, cursor, balanceDeltas>>
          /\ \A q \in Requests \ {r} : stagedBalances'[q] = stagedBalances[q]
      BY <1>8, <2>2, <1>t DEF UpdateBalance
    <3>3. pc[r] \in Writing /\ label \in Writing \ {"reading", "committing"}
      BY <3>2 DEF Writing
    <3>4. UNCHANGED <<tables, input, idempotency, accountMap, cursor, balanceDeltas>>
      BY <3>2 DEF call
    <3> QED BY <3>1, <3>2, <3>3, <3>4, MovingOnKeepsLocks
  <2> QED BY <2>1, <2>2
<1>9. ASSUME NEW r \in Requests, Persist(r) PROVE LockInv'
  <2>1. CASE Rollback(r, StatusOf("internal_error"))
    BY <2>1, RollbackKeepsLocks
  <2>2. CASE ~Rollback(r, StatusOf("internal_error"))
    <3>1. /\ pc[r] = "persisting" /\ Goto(r, "committing")
          /\ UNCHANGED <<tables, call, locals>>
          /\ idempotency[r] # NoKey => ~KeyInsertedByOther(r)
          /\ idempotency[r] \notin DOMAIN idempotencyKeys
      BY <1>9, <2>2 DEF Persist
    <3>2. LocksExclude' /\ LockedRowsAreCurrent'
      BY <3>1, <1>f DEF locals, tables
    <3>3. LocalsFollowPc'
      BY <3>1, <1>t, <1>l DEF locals, LocalsFollowPc, Writing
    <3>4. WritersAreChecked'
      BY <3>1, <1>t, <1>l DEF locals, call, WritersAreChecked, Writing
    <3>5. InsertedKeysAreNew'
      BY <3>1, <1>t, <1>l DEF call, tables, InsertedKeysAreNew, KeyInsertedByOther
    <3> QED BY <3>2, <3>3, <3>4, <3>5 DEF LockInv
  <2> QED BY <2>1, <2>2
<1>10. ASSUME NEW r \in Requests, Commit(r) PROVE LockInv'
  <2>1. CASE Rollback(r, StatusOf("double_entry_violation"))
    BY <2>1, RollbackKeepsLocks
  <2>2. CASE ~Rollback(r, StatusOf("double_entry_violation"))
    <3>1. /\ pc[r] = "committing" /\ Goto(r, "committed") /\ ReleaseAll(r)
          /\ UNCHANGED <<accounts, call>>
      BY <1>10, <2>2 DEF Commit
    <3>2. LocksExclude' /\ LockedRowsAreCurrent' /\ LocalsFollowPc' /\ WritersAreChecked'
      BY <3>1, EndKeepsLocks DEF call
    <3>3. \A k \in DOMAIN idempotencyKeys' :
            k \in DOMAIN idempotencyKeys \/ (k = idempotency[r] /\ k # NoKey)
      <4>1. CASE idempotency[r] = NoKey
        BY <1>10, <2>2, <4>1 DEF Commit
      <4>2. CASE idempotency[r] # NoKey
        <5>1. PICK record :
                idempotencyKeys' = Put(idempotencyKeys, idempotency[r], record)
          BY <1>10, <2>2, <4>2 DEF Commit
        <5>2. DOMAIN idempotencyKeys' = DOMAIN idempotencyKeys \cup {idempotency[r]}
          BY <5>1 DEF Put
        <5> QED BY <4>2, <5>2
      <4> QED BY <4>1, <4>2
    <3>4. InsertedKeysAreNew'
      BY <3>1, <3>3, <1>t, <1>l DEF call, InsertedKeysAreNew, KeyInsertedByOther
    <3> QED BY <3>2, <3>4 DEF LockInv
  <2> QED BY <2>1, <2>2
<1>11. ASSUME NEW r \in Requests, Reply(r) \/ LoseAcknowledgement(r) PROVE LockInv'
  <2>1. /\ pc[r] = "committed" /\ Goto(r, "done")
        /\ UNCHANGED <<tables, locals, input, idempotency>>
    BY <1>11 DEF Reply, LoseAcknowledgement, Answer
  <2>2. LocksExclude' /\ LockedRowsAreCurrent'
    BY <2>1, <1>f DEF locals, tables
  <2>3. LocalsFollowPc'
    BY <2>1, <1>t, <1>l DEF locals, LocalsFollowPc, Writing
  <2>4. WritersAreChecked' /\ InsertedKeysAreNew'
    BY <2>1, <1>t, <1>l DEF locals, tables, WritersAreChecked, Writing,
                            InsertedKeysAreNew, KeyInsertedByOther
  <2> QED BY <2>2, <2>3, <2>4 DEF LockInv
<1>12. ASSUME NEW r \in Requests, StatementFails(r) PROVE LockInv'
  BY <1>12, RollbackKeepsLocks DEF StatementFails
<1>13. ASSUME NEW change \in StatusChanges, SetStatus(change[1], change[2]) PROVE LockInv'
  <2> DEFINE c == change[1]
  <2>1. /\ \A q \in Requests : c \notin DOMAIN accountMap[q]
        /\ UNCHANGED <<idempotencyKeys, pc, call, locals>>
        /\ accounts' = [accounts EXCEPT ![c].status = change[2]]
    BY <1>13 DEF SetStatus
  <2>2. \A r \in Requests : \A a \in DOMAIN accountMap[r] : a # c /\ a \in DOMAIN accounts
    BY <2>1 DEF TypeOK, TablesOK, LocalsOK
  <2>3. LockedRowsAreCurrent'
    BY <2>1, <2>2, <1>l DEF LockedRowsAreCurrent, locals
  <2>4. LocksExclude' /\ LocalsFollowPc' /\ WritersAreChecked' /\ InsertedKeysAreNew'
    BY <2>1, <1>l DEF locals, call, LocksExclude, LocalsFollowPc, WritersAreChecked,
                      Writing, InsertedKeysAreNew, KeyInsertedByOther
  <2> QED BY <2>3, <2>4 DEF LockInv
<1>14. CASE UNCHANGED vars
  <2>1. LocksExclude' /\ LockedRowsAreCurrent'
    BY <1>14, <1>f DEF vars, tables, locals
  <2>2. LocalsFollowPc' /\ WritersAreChecked' /\ InsertedKeysAreNew'
    BY <1>14, <1>l DEF vars, tables, call, locals, LocalsFollowPc, WritersAreChecked,
                       Writing, InsertedKeysAreNew, KeyInsertedByOther
  <2> QED BY <2>1, <2>2 DEF LockInv
<1> QED BY <1>1, <1>2, <1>3, <1>4, <1>5, <1>6, <1>7, <1>8, <1>9, <1>10, <1>11,
           <1>12, <1>13, <1>14 DEF Next, Advance, Fail

\* What an account row says when a posting has locked it is what it says until
\* the posting ends, and all the checks made on it keep holding.
THEOREM LocksProtectChecks == Spec => []LockInv
  BY TypeCorrect, LockInit, LockStep, PTL DEF Spec

\* The tables change by a commit or by an operator, and in no other way.
LEMMA StepKinds ==
  ASSUME [Next]_vars
  PROVE  \/ UNCHANGED tables
         \/ \E r \in Requests : Commit(r) /\ ~Rollback(r, StatusOf("double_entry_violation"))
         \/ \E change \in StatusChanges : SetStatus(change[1], change[2])
<1>1. ASSUME NEW r \in Requests, NEW status, Rollback(r, status)
      PROVE  UNCHANGED tables
  BY <1>1 DEF Rollback
<1>2. ASSUME NEW r \in Requests, NEW i \in Inputs, NEW k \in Keys \cup {NoKey}, Call(r, i, k)
      PROVE  UNCHANGED tables
  BY <1>2 DEF Call
<1>3. ASSUME NEW r \in Requests,
             Begin(r) \/ LockRow(r) \/ ReadBalance(r) \/ Reply(r) \/ LoseAcknowledgement(r)
      PROVE  UNCHANGED tables
  BY <1>3 DEF Begin, LockRow, ReadBalance, Reply, LoseAcknowledgement
<1>4. ASSUME NEW r \in Requests, CheckAccounts(r) \/ InsertEntries(r) \/ StatementFails(r)
      PROVE  UNCHANGED tables
  BY <1>4, <1>1 DEF CheckAccounts, InsertEntries, StatementFails
<1>5. ASSUME NEW r \in Requests, ReadVersion(r) \/ UpdateBalance(r) \/ Persist(r)
      PROVE  UNCHANGED tables
  BY <1>5, <1>1 DEF ReadVersion, UpdateBalance, Persist
<1>6. CASE UNCHANGED vars
  BY <1>6 DEF vars
<1> QED BY <1>1, <1>2, <1>3, <1>4, <1>5, <1>6 DEF Next, Advance, Fail

\* A transaction enters the books by its commit.
LEMMA OnlyCommitPosts ==
  ASSUME [Next]_vars, NEW r \in transactions' \ transactions
  PROVE  r \in Requests /\ pc[r] = "committing"
  BY StepKinds DEF tables, SetStatus, Commit

\* No posting ever reaches the books on an account that is missing, frozen,
\* closed or in another currency at that moment.
THEOREM NoPostingToInactive == Spec => PostsOnlyToActiveAccounts
<1> DEFINE Post ==
      \A r \in transactions' \ transactions : \A row \in EntryRows(r, input[r]) :
         /\ row.account \in DOMAIN accounts
         /\ accounts[row.account].status = "ACTIVE"
         /\ accounts[row.account].currency = row.currency
<1>1. ASSUME TypeOK, LockInv, [Next]_vars PROVE Post
  <2>1. SUFFICES ASSUME NEW r \in transactions' \ transactions,
                        NEW i \in DOMAIN input[r]
                 PROVE  /\ input[r][i].account \in DOMAIN accounts
                        /\ accounts[input[r][i].account].status = "ACTIVE"
                        /\ accounts[input[r][i].account].currency = input[r][i].currency
    BY DEF EntryRows, EntryRow
  <2>2. r \in Requests /\ pc[r] \in Writing
    BY <1>1, OnlyCommitPosts DEF Writing
  <2>3. /\ input[r][i].account \in DOMAIN accountMap[r]
        /\ accountMap[r][input[r][i].account].status = "ACTIVE"
        /\ accountMap[r][input[r][i].account].currency = input[r][i].currency
    BY <1>1, <2>2 DEF LockInv, WritersAreChecked
  <2>4. accountMap[r][input[r][i].account] = accounts[input[r][i].account]
    BY <1>1, <2>2, <2>3 DEF LockInv, LockedRowsAreCurrent
  <2>5. input[r][i].account \in DOMAIN accounts
    BY <1>1, <2>2, <2>3 DEF TypeOK, TablesOK, LocalsOK
  <2> QED BY <2>3, <2>4, <2>5
<1> QED BY <1>1, TypeCorrect, LocksProtectChecks, PTL DEF Spec, PostsOnlyToActiveAccounts

-----------------------------------------------------------------------------
(* Books.                                                                  *)

\* The update loop has one account to turn to.
LEMMA NextToUpdateUnique ==
  ASSUME NEW r \in Requests, input[r] \in Inputs,
         NEW a \in NextToUpdate(r), NEW b \in NextToUpdate(r)
  PROVE  a = b
<1>1. PICK i \in DOMAIN input[r] :
        /\ input[r][i].account = a /\ a \notin DOMAIN stagedBalances[r]
        /\ \A k \in DOMAIN input[r] : k < i => input[r][k].account \in DOMAIN stagedBalances[r]
  BY DEF NextToUpdate
<1>2. PICK j \in DOMAIN input[r] :
        /\ input[r][j].account = b /\ b \notin DOMAIN stagedBalances[r]
        /\ \A k \in DOMAIN input[r] : k < j => input[r][k].account \in DOMAIN stagedBalances[r]
  BY DEF NextToUpdate
<1>3. i \in Int /\ j \in Int
  BY LegType
<1> QED BY <1>1, <1>2, <1>3

\* When the read loop is through, it has read all the rows that will be inserted.
LEMMA AllRowsRead ==
  ASSUME NEW r \in Requests, input[r] \in Inputs, cursor[r] = Len(input[r]) + 1
  PROVE  /\ ReadRows(r) = EntryRows(r, input[r])
         /\ {row.account : row \in ReadRows(r)} = AccountsOf(input[r])
<1>1. \A i \in DOMAIN input[r] : i < cursor[r]
  BY LegType
<1>2. ReadRows(r) = EntryRows(r, input[r])
  BY <1>1 DEF ReadRows, EntryRows
<1>3. {row.account : row \in EntryRows(r, input[r])} = AccountsOf(input[r])
  <2>1. \A i : EntryRow(r, input[r], i).account = input[r][i].account
    BY DEF EntryRow
  <2>2. {row.account : row \in EntryRows(r, input[r])} \subseteq AccountsOf(input[r])
    BY <2>1 DEF EntryRows, AccountsOf
  <2>3. ASSUME NEW i \in DOMAIN input[r]
        PROVE  input[r][i].account \in {row.account : row \in EntryRows(r, input[r])}
    <3>1. EntryRow(r, input[r], i) \in EntryRows(r, input[r])
      BY DEF EntryRows
    <3> QED BY <2>1, <3>1
  <2> QED BY <2>2, <2>3 DEF AccountsOf
<1> QED BY <1>2, <1>3

\* The accounts a transaction has deltas for are locked by it.
LEMMA DeltasAreLocked ==
  ASSUME TypeOK, LockInv, NEW r \in Requests, DeltasFollowLegs(r)
  PROVE  DOMAIN balanceDeltas[r] \subseteq DOMAIN accountMap[r]
<1>1. CASE pc[r] \in Writing
  <2>1. DOMAIN balanceDeltas[r] = {row.account : row \in ReadRows(r)}
    BY <1>1 DEF DeltasFollowLegs
  <2>2. \A row \in ReadRows(r) : \E i \in DOMAIN input[r] : row.account = input[r][i].account
    BY DEF ReadRows, EntryRow
  <2>3. \A i \in DOMAIN input[r] : input[r][i].account \in DOMAIN accountMap[r]
    BY <1>1 DEF LockInv, WritersAreChecked
  <2> QED BY <2>1, <2>2, <2>3
<1>2. CASE pc[r] \notin Writing
  BY <1>2 DEF LockInv, LocalsFollowPc
<1> QED BY <1>1, <1>2

\* A step that leaves a call's locals, and the balances and types of the
\* accounts it is working on, leaves what is known of them.
LEMMA BooksFrame ==
  ASSUME TypeOK, NEW q \in Requests, DeltasFollowLegs(q), StagedFollowsDeltas(q),
         pc'[q] = pc[q], input'[q] = input[q], cursor'[q] = cursor[q],
         balanceDeltas'[q] = balanceDeltas[q], stagedBalances'[q] = stagedBalances[q],
         version'[q] = version[q],
         \A a \in DOMAIN balanceDeltas[q] :
            balances'[a] = balances[a] /\ accounts'[a].type = accounts[a].type
  PROVE  DeltasFollowLegs(q)' /\ StagedFollowsDeltas(q)'
<1>1. ReadRows(q)' = ReadRows(q)
  BY DEF ReadRows
<1>2. NextToUpdate(q)' = NextToUpdate(q)
  BY DEF NextToUpdate
<1>3. DeltasFollowLegs(q)'
  BY <1>1 DEF DeltasFollowLegs, Writing
<1>4. pc[q] = "updating" => NextToUpdate(q) \subseteq DOMAIN balanceDeltas[q]
  <2>1. SUFFICES ASSUME pc[q] = "updating" PROVE NextToUpdate(q) \subseteq DOMAIN balanceDeltas[q]
    OBVIOUS
  <2>2. input[q] \in Inputs
    BY <2>1 DEF TypeOK, CallsOK
  <2>3. DOMAIN balanceDeltas[q] = AccountsOf(input[q])
    BY <2>1, <2>2, AllRowsRead DEF DeltasFollowLegs, Writing
  <2> QED BY <2>2, <2>3, NextToUpdateType
<1>5. StagedFollowsDeltas(q)'
  <2>1. \A a \in DOMAIN stagedBalances'[q] :
          /\ a \in DOMAIN balanceDeltas'[q]
          /\ stagedBalances'[q][a].balance = balanceDeltas'[q][a]
          /\ stagedBalances'[q][a].version = balances'[a].version + 1
    BY DEF StagedFollowsDeltas
  <2>2. pc'[q] = "updating" => \A a \in NextToUpdate(q)' : version'[q] = balances'[a].version
    BY <1>2, <1>4 DEF StagedFollowsDeltas
  <2>3. pc'[q] \in {"persisting", "committing"} =>
          AccountsOf(input'[q]) \subseteq DOMAIN stagedBalances'[q]
    BY DEF StagedFollowsDeltas
  <2> QED BY <2>1, <2>2, <2>3 DEF StagedFollowsDeltas
<1> QED BY <1>3, <1>5

\* Outside the writing statements nothing is claimed of the locals.
LEMMA NothingStaged ==
  ASSUME NEW r \in Requests, pc[r] \notin Writing, DOMAIN stagedBalances[r] = {}
  PROVE  DeltasFollowLegs(r) /\ StagedFollowsDeltas(r)
  BY DEF DeltasFollowLegs, StagedFollowsDeltas, Writing

\* While only private state changes, the journal keeps matching the balances.
LEMMA TablesFrame ==
  ASSUME TypeOK, JournalHoldsTransactions, BalanceMatchesJournal,
         UNCHANGED <<balances, transactions, entries>>,
         \A a \in DOMAIN balances : accounts'[a].type = accounts[a].type,
         \A r \in transactions : pc[r] \in {"committed", "done"} => pc'[r] \in {"committed", "done"}
  PROVE  JournalHoldsTransactions' /\ BalanceMatchesJournal'
<1>1. JournalHoldsTransactions'
  BY DEF JournalHoldsTransactions
<1>2. BalanceMatchesJournal'
  BY DEF BalanceMatchesJournal
<1> QED BY <1>1, <1>2

\* A rollback leaves the books as they are.
LEMMA RollbackKeepsBooks ==
  ASSUME TypeOK, BooksInv, NEW r \in Requests, NEW status,
         pc[r] \in InTransaction, Rollback(r, status)
  PROVE  BooksInv'
<1>t. /\ DOMAIN pc = Requests /\ DOMAIN cursor = Requests /\ DOMAIN version = Requests
      /\ DOMAIN balanceDeltas = Requests /\ DOMAIN stagedBalances = Requests
  BY DEF TypeOK, CallsOK, LocalsOK
<1>1. /\ UNCHANGED <<tables, input>> /\ ReleaseAll(r) /\ Goto(r, "done")
  BY DEF Rollback, Answer
<1>2. DeltasFollowLegs(r)' /\ StagedFollowsDeltas(r)'
  BY <1>t, <1>1 DEF ReleaseAll, NoRows, DeltasFollowLegs, StagedFollowsDeltas, Writing
<1>3. ASSUME NEW q \in Requests, q # r
      PROVE  DeltasFollowLegs(q)' /\ StagedFollowsDeltas(q)'
  <2>1. /\ pc'[q] = pc[q] /\ input'[q] = input[q] /\ cursor'[q] = cursor[q]
        /\ balanceDeltas'[q] = balanceDeltas[q] /\ stagedBalances'[q] = stagedBalances[q]
        /\ version'[q] = version[q]
    BY <1>t, <1>1, <1>3 DEF ReleaseAll
  <2>2. balances' = balances /\ accounts' = accounts
    BY <1>1 DEF tables
  <2> QED BY <2>1, <2>2, BooksFrame DEF BooksInv
<1>4. JournalHoldsTransactions' /\ BalanceMatchesJournal'
  BY <1>t, <1>1, TablesFrame DEF tables, BooksInv
<1> QED BY <1>2, <1>3, <1>4 DEF BooksInv

\* A step of r that touches no table, and leaves r's own deltas and staged rows
\* in order, keeps the books.
LEMMA PrivateStepKeepsBooks ==
  ASSUME TypeOK, BooksInv, NEW r \in Requests,
         UNCHANGED tables,
         \A q \in Requests \ {r} :
            /\ pc'[q] = pc[q] /\ input'[q] = input[q] /\ cursor'[q] = cursor[q]
            /\ balanceDeltas'[q] = balanceDeltas[q] /\ stagedBalances'[q] = stagedBalances[q]
            /\ version'[q] = version[q],
         pc[r] \notin {"committed", "done"} \/ pc'[r] \in {"committed", "done"},
         DeltasFollowLegs(r)', StagedFollowsDeltas(r)'
  PROVE  BooksInv'
<1>1. ASSUME NEW q \in Requests, q # r
      PROVE  DeltasFollowLegs(q)' /\ StagedFollowsDeltas(q)'
  <2>1. balances' = balances /\ accounts' = accounts
    BY DEF tables
  <2> QED BY <1>1, <2>1, BooksFrame DEF BooksInv
<1>2. JournalHoldsTransactions' /\ BalanceMatchesJournal'
  <2>1. \A q \in transactions : q \in Requests
    BY DEF TypeOK, TablesOK
  <2> QED BY <2>1, TablesFrame DEF tables, BooksInv
<1> QED BY <1>1, <1>2 DEF BooksInv

\* One turn of the read loop adds one leg to the deltas and to the rows read.
LEMMA ReadBalanceKeepsBooks ==
  ASSUME TypeOK, LockInv, BooksInv, NEW r \in Requests, ReadBalance(r)
  PROVE  BooksInv'
<1> DEFINE c == cursor[r]
           leg == input[r][c]
           a == leg.account
           row == EntryRow(r, input[r], c)
           type == accountMap[r][a].type
           running == RunningBalance(r, a)
           next == ApplyEntryToBalance(type, running, leg.direction, leg.amount)
<1>t. /\ DOMAIN pc = Requests /\ DOMAIN cursor = Requests
      /\ DOMAIN balanceDeltas = Requests /\ c \in Nat \ {0}
  BY DEF TypeOK, CallsOK, LocalsOK
<1>1. /\ pc[r] = "reading" /\ c <= Len(input[r])
      /\ balanceDeltas' = [balanceDeltas EXCEPT ![r] = Put(balanceDeltas[r], a, next)]
      /\ cursor' = [cursor EXCEPT ![r] = c + 1]
      /\ UNCHANGED <<tables, pc, call, found, accountMap, version, stagedBalances,
                     postedTotal>>
  BY DEF ReadBalance
<1>2. input[r] \in Inputs /\ c \in DOMAIN input[r] /\ leg \in EntryInput
  <2>1. input[r] \in Inputs
    BY <1>1 DEF TypeOK, CallsOK
  <2> QED BY <1>t, <1>1, <2>1, LegType
<1>3. /\ leg.direction \in Directions /\ leg.amount \in Nat
      /\ row.account = a /\ row.direction = leg.direction /\ row.amount = leg.amount
      /\ row.line = c
  BY <1>2 DEF EntryInput, EntryRow
<1>4. a \in DOMAIN accounts /\ a \in DOMAIN balances /\ type = accounts[a].type
  <2>1. a \in DOMAIN accountMap[r]
    BY <1>1, <1>2 DEF LockInv, WritersAreChecked, Writing
  <2> QED BY <2>1 DEF LockInv, LockedRowsAreCurrent, TypeOK, TablesOK, LocalsOK
<1>5. balances[a].balance \in Int
  BY <1>4 DEF TypeOK, TablesOK, BalanceRow
<1> HIDE DEF type, running, next, row, leg, c, a
<1>6. ReadRows(r)' = ReadRows(r) \cup {row} /\ row \notin ReadRows(r)
  <2>1. cursor'[r] = c + 1 /\ input' = input
    BY <1>t, <1>1 DEF call
  <2>2. DOMAIN input[r] \subseteq Int
    BY <1>2, LegType
  <2>3. {j \in DOMAIN input[r] : j < c + 1} = {j \in DOMAIN input[r] : j < c} \cup {c}
    BY <1>2, <1>t, <2>2
  <2>4. ReadRows(r)' = {EntryRow(r, input[r], i) : i \in {j \in DOMAIN input[r] : j < c + 1}}
    BY <2>1 DEF ReadRows
  <2>5. ReadRows(r) = {EntryRow(r, input[r], i) : i \in {j \in DOMAIN input[r] : j < c}}
    BY DEF ReadRows, c
  <2>6. \A i : EntryRow(r, input[r], i).line = i
    BY DEF EntryRow
  <2>7. ~ c < c
    BY <1>t
  <2> QED BY <2>3, <2>4, <2>5, <2>6, <2>7, <1>3 DEF row
<1>7. /\ IsFiniteSet(Units(ReadRows(r))) /\ IsFiniteSet(Units({row}))
      /\ IsFiniteSet(Units(ReadRows(r)'))
  <2>1. IsFiniteSet(Units(ReadRows(r)))
    BY <1>1 DEF BooksInv, DeltasFollowLegs, Writing
  <2>2. IsFiniteSet(Units({row}))
    BY <1>3, UnitsOfFew
  <2>3. ReadRows(r) \cap {row} = {}
    BY <1>6
  <2> QED BY <2>1, <2>2, <2>3, <1>6, TotalOfDisjoint
<1>8. running = balances[a].balance + JournalBalance(type, OfAccount(ReadRows(r), a))
  <2>1. CASE a \in DOMAIN balanceDeltas[r]
    BY <1>1, <1>4, <2>1 DEF running, RunningBalance, BooksInv, DeltasFollowLegs, Writing
  <2>2. CASE a \notin DOMAIN balanceDeltas[r]
    <3>1. DOMAIN balanceDeltas[r] = {x.account : x \in ReadRows(r)}
      BY <1>1 DEF BooksInv, DeltasFollowLegs, Writing
    <3>2. OfAccount(ReadRows(r), a) = {}
      BY <2>2, <3>1 DEF OfAccount
    <3>3. running = balances[a].balance
      BY <1>4, <2>2 DEF running, RunningBalance, CurrentBalance
    <3> QED BY <1>5, <3>2, <3>3, JournalBalanceOfNone
  <2> QED BY <2>1, <2>2
<1>9. next = balances[a].balance + JournalBalance(type, OfAccount(ReadRows(r)', a))
  <2> DEFINE S == OfAccount(ReadRows(r), a)
  <2>1. OfAccount(ReadRows(r)', a) = S \cup {row} /\ S \cap {row} = {} /\ S \subseteq ReadRows(r)
    BY <1>3, <1>6 DEF OfAccount
  <2>2. IsFiniteSet(Units(S))
    BY <2>1, <1>7, UnitsOfSubset
  <2> HIDE DEF S
  <2>3. JournalBalance(type, S) \in Int /\ JournalBalance(type, {row}) \in Int
    BY <2>2, <1>7, JournalBalanceType
  <2>4. JournalBalance(type, S \cup {row}) = JournalBalance(type, S) + JournalBalance(type, {row})
    BY <2>1, <2>2, <1>7, JournalBalanceOfDisjoint
  <2>5. running \in Int /\ running = balances[a].balance + JournalBalance(type, S)
    BY <1>5, <1>8, <2>3 DEF S
  <2>6. next = running + JournalBalance(type, {row})
    BY <2>5, <1>3, ApplyEntryIsJournalBalance DEF next
  <2> QED BY <1>5, <2>1, <2>3, <2>4, <2>5, <2>6
<1>10. DeltasFollowLegs(r)'
  <2>1. /\ cursor'[r] = c + 1 /\ pc'[r] = "reading" /\ input' = input
        /\ balances' = balances /\ accounts' = accounts
        /\ balanceDeltas'[r] = Put(balanceDeltas[r], a, next)
    BY <1>t, <1>1 DEF call, tables
  <2>2. cursor'[r] <= Len(input'[r]) + 1
    BY <1>t, <1>1, <1>2, <2>1, LegType
  <2>3. DOMAIN balanceDeltas'[r] = DOMAIN balanceDeltas[r] \cup {a}
    BY <2>1 DEF Put
  <2>4. DOMAIN balanceDeltas[r] = {x.account : x \in ReadRows(r)}
    BY <1>1 DEF BooksInv, DeltasFollowLegs, Writing
  <2>5. DOMAIN balanceDeltas'[r] = {x.account : x \in ReadRows(r)'}
    BY <2>3, <2>4, <1>6, <1>3
  <2>6. ASSUME NEW b \in DOMAIN balanceDeltas'[r]
        PROVE  balanceDeltas'[r][b] = balances[b].balance
                 + JournalBalance(accounts[b].type, OfAccount(ReadRows(r)', b))
    <3>1. CASE b = a
      BY <1>4, <1>9, <2>1, <3>1 DEF Put
    <3>2. CASE b # a
      <4>1. b \in DOMAIN balanceDeltas[r] /\ balanceDeltas'[r][b] = balanceDeltas[r][b]
        BY <2>1, <2>3, <3>2 DEF Put
      <4>2. OfAccount(ReadRows(r)', b) = OfAccount(ReadRows(r), b)
        BY <1>3, <1>6, <3>2 DEF OfAccount
      <4> QED BY <1>1, <4>1, <4>2 DEF BooksInv, DeltasFollowLegs, Writing
    <3> QED BY <3>1, <3>2
  <2> QED BY <1>7, <2>1, <2>2, <2>5, <2>6 DEF DeltasFollowLegs
<1>11. StagedFollowsDeltas(r)'
  <2>1. DOMAIN stagedBalances'[r] = {} /\ pc'[r] = "reading"
    BY <1>1 DEF LockInv, LocalsFollowPc, Writing
  <2> QED BY <2>1 DEF StagedFollowsDeltas
<1> QED
  <2>1. /\ UNCHANGED tables
        /\ \A q \in Requests \ {r} :
             /\ pc'[q] = pc[q] /\ input'[q] = input[q] /\ cursor'[q] = cursor[q]
             /\ balanceDeltas'[q] = balanceDeltas[q] /\ stagedBalances'[q] = stagedBalances[q]
             /\ version'[q] = version[q]
        /\ pc[r] \notin {"committed", "done"}
    BY <1>t, <1>1 DEF call
  <2> QED BY <2>1, <1>10, <1>11, PrivateStepKeepsBooks

\* What a commit that succeeds does to the tables.
LEMMA CommitEffect ==
  ASSUME TypeOK, LockInv, BooksInv, NEW r \in Requests, Commit(r), ~Rollback(r, StatusOf("double_entry_violation"))
  PROVE  LET rows == EntryRows(r, input[r]) IN
         /\ pc[r] = "committing" /\ Goto(r, "committed") /\ ReleaseAll(r)
         /\ UNCHANGED <<accounts, call>>
         /\ transactions' = transactions \cup {r}
         /\ entries' = entries \cup rows
         /\ entries \cap rows = {} /\ IsFiniteSet(Units(rows))
         /\ DOMAIN balances' = DOMAIN balances
         /\ \A a \in DOMAIN balances :
              /\ balances'[a].balance =
                   balances[a].balance + JournalBalance(accounts[a].type, OfAccount(rows, a))
              /\ a \notin DOMAIN accountMap[r] => balances'[a] = balances[a]
<1> DEFINE rows == EntryRows(r, input[r])
<1>1. /\ pc[r] = "committing" /\ Goto(r, "committed") /\ ReleaseAll(r)
      /\ UNCHANGED <<accounts, call>>
      /\ transactions' = transactions \cup {r}
      /\ entries' = entries \cup rows
      /\ balances' = [a \in DOMAIN balances |->
                        IF a \in DOMAIN stagedBalances[r]
                          THEN stagedBalances[r][a] ELSE balances[a]]
  BY DEF Commit
<1>2. input[r] \in Inputs /\ cursor[r] = Len(input[r]) + 1
  BY <1>1 DEF TypeOK, CallsOK, BooksInv, DeltasFollowLegs, Writing
<1>3. rows = ReadRows(r) /\ AccountsOf(input[r]) = {row.account : row \in rows}
  BY <1>2, AllRowsRead
<1>4. IsFiniteSet(Units(rows))
  BY <1>1, <1>3 DEF BooksInv, DeltasFollowLegs, Writing
<1>5. entries \cap rows = {}
  <2>1. r \notin transactions
    BY <1>1 DEF BooksInv, JournalHoldsTransactions
  <2>2. \A row \in rows : row.txn = r
    BY DEF EntryRows, EntryRow
  <2> QED BY <2>1, <2>2 DEF BooksInv, JournalHoldsTransactions
<1>6. /\ DOMAIN balanceDeltas[r] = AccountsOf(input[r])
      /\ DOMAIN stagedBalances[r] = AccountsOf(input[r])
  BY <1>1, <1>3 DEF BooksInv, DeltasFollowLegs, StagedFollowsDeltas, Writing
<1>7. ASSUME NEW a \in DOMAIN balances
      PROVE  /\ balances'[a].balance =
                  balances[a].balance + JournalBalance(accounts[a].type, OfAccount(rows, a))
             /\ a \notin DOMAIN accountMap[r] => balances'[a] = balances[a]
  <2>1. CASE a \in DOMAIN stagedBalances[r]
    <3>1. balances'[a].balance = balanceDeltas[r][a]
      BY <1>1, <2>1 DEF BooksInv, StagedFollowsDeltas
    <3>2. a \in DOMAIN accountMap[r]
      BY <1>6, <2>1, DeltasAreLocked DEF BooksInv
    <3>3. balanceDeltas[r][a] =
            balances[a].balance + JournalBalance(accounts[a].type, OfAccount(rows, a))
      BY <1>1, <1>3, <1>6, <2>1 DEF BooksInv, DeltasFollowLegs, Writing
    <3> QED BY <3>1, <3>2, <3>3
  <2>2. CASE a \notin DOMAIN stagedBalances[r]
    <3>1. OfAccount(rows, a) = {}
      BY <1>3, <1>6, <2>2 DEF OfAccount
    <3>2. balances'[a] = balances[a] /\ balances[a].balance \in Int
      BY <1>1, <2>2 DEF TypeOK, TablesOK, BalanceRow
    <3> QED BY <3>1, <3>2, JournalBalanceOfNone
  <2> QED BY <2>1, <2>2
<1> QED BY <1>1, <1>4, <1>5, <1>7

\* A commit moves each balance by what the rows it adds to the journal imply.
LEMMA CommitKeepsBooks ==
  ASSUME TypeOK, LockInv, BooksInv, NEW r \in Requests, Commit(r)
  PROVE  BooksInv'
<1>1. CASE Rollback(r, StatusOf("double_entry_violation"))
  <2>1. pc[r] \in InTransaction
    BY DEF Commit
  <2> QED BY <1>1, <2>1, RollbackKeepsBooks
<1>2. CASE ~Rollback(r, StatusOf("double_entry_violation"))
  <2> DEFINE rows == EntryRows(r, input[r])
  <2>1. /\ pc[r] = "committing" /\ Goto(r, "committed") /\ ReleaseAll(r)
        /\ UNCHANGED <<accounts, call>>
        /\ transactions' = transactions \cup {r}
        /\ entries' = entries \cup rows
        /\ entries \cap rows = {} /\ IsFiniteSet(Units(rows))
        /\ DOMAIN balances' = DOMAIN balances
    BY <1>2, CommitEffect
  <2>2. \A a \in DOMAIN balances :
          /\ balances'[a].balance =
               balances[a].balance + JournalBalance(accounts[a].type, OfAccount(rows, a))
          /\ a \notin DOMAIN accountMap[r] => balances'[a] = balances[a]
    BY <1>2, CommitEffect
  <2>3. \A row \in rows : row.txn = r
    BY DEF EntryRows, EntryRow
  <2>t. /\ DOMAIN pc = Requests /\ DOMAIN cursor = Requests /\ DOMAIN version = Requests
        /\ DOMAIN balanceDeltas = Requests /\ DOMAIN stagedBalances = Requests
        /\ transactions \subseteq Requests
    BY DEF TypeOK, TablesOK, CallsOK, LocalsOK
  <2> HIDE DEF rows
  <2>4. DeltasFollowLegs(r)' /\ StagedFollowsDeltas(r)'
    BY <2>t, <2>1 DEF ReleaseAll, NoRows, DeltasFollowLegs, StagedFollowsDeltas, Writing
  <2>5. ASSUME NEW q \in Requests, q # r
        PROVE  DeltasFollowLegs(q)' /\ StagedFollowsDeltas(q)'
    <3>1. DOMAIN balanceDeltas[q] \cap DOMAIN accountMap[r] = {}
      BY <2>5, DeltasAreLocked DEF LockInv, LocksExclude, BooksInv
    <3>2. DOMAIN balanceDeltas[q] \subseteq DOMAIN balances
      BY DeltasAreLocked DEF BooksInv, TypeOK, TablesOK, LocalsOK
    <3>3. /\ pc'[q] = pc[q] /\ input'[q] = input[q] /\ cursor'[q] = cursor[q]
          /\ balanceDeltas'[q] = balanceDeltas[q] /\ stagedBalances'[q] = stagedBalances[q]
          /\ version'[q] = version[q]
      BY <2>t, <2>1, <2>5 DEF ReleaseAll, call
    <3>4. \A a \in DOMAIN balanceDeltas[q] :
            balances'[a] = balances[a] /\ accounts'[a].type = accounts[a].type
      BY <2>1, <2>2, <3>1, <3>2
    <3> QED BY <3>3, <3>4, BooksFrame DEF BooksInv
  <2>6. JournalHoldsTransactions'
    <3>1. IsFiniteSet(Units(entries'))
      BY <2>1, TotalOfDisjoint DEF BooksInv, JournalHoldsTransactions
    <3>2. \A q \in transactions' : pc'[q] \in {"committed", "done"}
      BY <2>t, <2>1 DEF BooksInv, JournalHoldsTransactions
    <3>3. \A row \in entries' : row.txn \in transactions'
      BY <2>1, <2>3 DEF BooksInv, JournalHoldsTransactions
    <3> QED BY <3>1, <3>2, <3>3 DEF JournalHoldsTransactions
  <2>7. BalanceMatchesJournal'
    <3>1. SUFFICES ASSUME NEW a \in DOMAIN balances
                   PROVE  balances'[a].balance =
                            JournalBalance(accounts[a].type, OfAccount(entries', a))
      BY <2>1 DEF BalanceMatchesJournal
    <3> DEFINE S == OfAccount(entries, a)
               T == OfAccount(rows, a)
               type == accounts[a].type
    <3>2. OfAccount(entries', a) = S \cup T /\ S \cap T = {} /\ S \subseteq entries /\ T \subseteq rows
      BY <2>1 DEF OfAccount
    <3>3. IsFiniteSet(Units(S)) /\ IsFiniteSet(Units(T))
      BY <2>1, <3>2, UnitsOfSubset DEF BooksInv, JournalHoldsTransactions
    <3>4. balances[a].balance = JournalBalance(type, S)
      BY DEF BooksInv, BalanceMatchesJournal
    <3>5. balances'[a].balance = balances[a].balance + JournalBalance(type, T)
      BY <2>2
    <3> HIDE DEF S, T, type
    <3>6. JournalBalance(type, S \cup T) = JournalBalance(type, S) + JournalBalance(type, T)
      BY <3>2, <3>3, JournalBalanceOfDisjoint
    <3> QED BY <3>2, <3>4, <3>5, <3>6 DEF type
  <2> QED BY <2>4, <2>5, <2>6, <2>7 DEF BooksInv
<1> QED BY <1>1, <1>2

\* Nothing is written at the start.
LEMMA BooksInit == Init => BooksInv
<1> SUFFICES ASSUME Init PROVE BooksInv
  OBVIOUS
<1>1. ASSUME NEW r \in Requests PROVE DeltasFollowLegs(r) /\ StagedFollowsDeltas(r)
  BY DEF Init, NoRows, DeltasFollowLegs, StagedFollowsDeltas, Writing
<1>2. JournalHoldsTransactions
  BY UnitsOfFew DEF Init, JournalHoldsTransactions
<1>3. BalanceMatchesJournal
  <2>1. SUFFICES ASSUME NEW a \in DOMAIN balances
                 PROVE  balances[a].balance =
                          JournalBalance(accounts[a].type, OfAccount(entries, a))
    BY DEF BalanceMatchesJournal
  <2>2. OfAccount(entries, a) = {}
    BY DEF Init, OfAccount
  <2>3. balances[a].balance = 0
    BY DEF Init
  <2> QED BY <2>2, <2>3, JournalBalanceOfNone
<1> QED BY <1>1, <1>2, <1>3 DEF BooksInv

\* The version read is that of the one account that is next.
LEMMA ReadVersionKeepsBooks ==
  ASSUME TypeOK, LockInv, BooksInv, NEW r \in Requests, ReadVersion(r)
  PROVE  BooksInv'
<1>1. CASE Rollback(r, StatusOf("account_not_found"))
  BY <1>1, RollbackKeepsBooks DEF ReadVersion
<1>2. CASE ~Rollback(r, StatusOf("account_not_found"))
  <2>t. DOMAIN pc = Requests /\ DOMAIN version = Requests
    BY DEF TypeOK, CallsOK, LocalsOK
  <2>1. PICK a \in NextToUpdate(r) :
          /\ pc[r] = "versioning" /\ Goto(r, "updating")
          /\ version' = [version EXCEPT ![r] = balances[a].version]
          /\ UNCHANGED <<tables, call, found, accountMap, cursor, balanceDeltas,
                         stagedBalances, postedTotal>>
    BY <1>2 DEF ReadVersion
  <2>2. DeltasFollowLegs(r)'
    <3>1. ReadRows(r)' = ReadRows(r)
      BY <2>1 DEF ReadRows, call
    <3> QED BY <2>t, <2>1, <3>1 DEF BooksInv, DeltasFollowLegs, Writing, call, tables
  <2>3. StagedFollowsDeltas(r)'
    <3>1. input[r] \in Inputs
      BY <2>1 DEF TypeOK, CallsOK
    <3>2. NextToUpdate(r)' = NextToUpdate(r)
      BY <2>1 DEF NextToUpdate, call
    <3>3. \A b \in NextToUpdate(r) : b = a
      BY <3>1, NextToUpdateUnique
    <3>4. version'[r] = balances[a].version /\ pc'[r] = "updating" /\ balances' = balances
      BY <2>t, <2>1 DEF tables
    <3>5. \A b \in NextToUpdate(r)' : version'[r] = balances'[b].version
      BY <3>2, <3>3, <3>4
    <3> QED BY <2>1, <3>4, <3>5 DEF BooksInv, StagedFollowsDeltas, tables
  <2>4. \A q \in Requests \ {r} :
          /\ pc'[q] = pc[q] /\ input'[q] = input[q] /\ cursor'[q] = cursor[q]
          /\ balanceDeltas'[q] = balanceDeltas[q] /\ stagedBalances'[q] = stagedBalances[q]
          /\ version'[q] = version[q]
    BY <2>t, <2>1 DEF call
  <2> QED BY <2>1, <2>2, <2>3, <2>4, PrivateStepKeepsBooks
<1> QED BY <1>1, <1>2

\* The staged row is the delta, one version up.
LEMMA UpdateBalanceKeepsBooks ==
  ASSUME TypeOK, LockInv, BooksInv, NEW r \in Requests, UpdateBalance(r)
  PROVE  BooksInv'
<1>1. CASE Rollback(r, StatusOf("internal_error"))
  BY <1>1, RollbackKeepsBooks DEF UpdateBalance
<1>2. CASE ~Rollback(r, StatusOf("internal_error"))
  <2>t. /\ DOMAIN pc = Requests /\ DOMAIN stagedBalances = Requests
        /\ input[r] \in Inputs
    BY DEF UpdateBalance, TypeOK, CallsOK, LocalsOK
  <2>1. PICK a \in NextToUpdate(r) :
          LET row == [balance |-> balanceDeltas[r][a], version |-> version[r] + 1]
              staged == Put(stagedBalances[r], a, row)
          IN /\ pc[r] = "updating"
             /\ stagedBalances' = [stagedBalances EXCEPT ![r] = staged]
             /\ Goto(r, IF AccountsOf(input[r]) \subseteq DOMAIN staged
                          THEN "persisting" ELSE "versioning")
             /\ UNCHANGED <<tables, call, found, accountMap, cursor,
                            balanceDeltas, version, postedTotal>>
    BY <1>2 DEF UpdateBalance, UpdatedRow
  <2> DEFINE row == [balance |-> balanceDeltas[r][a], version |-> version[r] + 1]
             staged == Put(stagedBalances[r], a, row)
  <2>2. /\ row.balance = balanceDeltas[r][a] /\ row.version = balances[a].version + 1
    BY <2>1 DEF BooksInv, StagedFollowsDeltas
  <2>3. a \in DOMAIN balanceDeltas[r]
    BY <2>t, <2>1, AllRowsRead, NextToUpdateType DEF BooksInv, DeltasFollowLegs, Writing
  <2>4. /\ pc[r] = "updating"
        /\ stagedBalances'[r] = staged
        /\ pc'[r] = IF AccountsOf(input[r]) \subseteq DOMAIN staged
                      THEN "persisting" ELSE "versioning"
        /\ input' = input /\ cursor' = cursor /\ balanceDeltas' = balanceDeltas
        /\ balances' = balances /\ accounts' = accounts
    BY <2>t, <2>1 DEF call, tables
  <2> HIDE DEF row
  <2>5. /\ DOMAIN staged = DOMAIN stagedBalances[r] \cup {a}
        /\ staged[a] = row
        /\ \A b \in DOMAIN stagedBalances[r] : b # a => staged[b] = stagedBalances[r][b]
    BY DEF Put
  <2>6. \A q \in Requests \ {r} :
          /\ pc'[q] = pc[q] /\ input'[q] = input[q] /\ cursor'[q] = cursor[q]
          /\ balanceDeltas'[q] = balanceDeltas[q] /\ stagedBalances'[q] = stagedBalances[q]
          /\ version'[q] = version[q]
    BY <2>1 DEF call
  <2> HIDE DEF staged
  <2>7. DeltasFollowLegs(r)'
    <3>1. ReadRows(r)' = ReadRows(r)
      BY <2>4 DEF ReadRows
    <3> QED BY <2>4, <3>1 DEF BooksInv, DeltasFollowLegs, Writing
  <2>8. StagedFollowsDeltas(r)'
    <3>1. ASSUME NEW b \in DOMAIN staged
          PROVE  /\ b \in DOMAIN balanceDeltas[r]
                 /\ staged[b].balance = balanceDeltas[r][b]
                 /\ staged[b].version = balances[b].version + 1
      BY <2>2, <2>3, <2>5 DEF BooksInv, StagedFollowsDeltas
    <3> QED BY <2>4, <3>1 DEF StagedFollowsDeltas
  <2> QED BY <2>1, <2>6, <2>7, <2>8, PrivateStepKeepsBooks
<1> QED BY <1>1, <1>2

\* Every step keeps the books.
LEMMA BooksStep == TypeOK /\ LockInv /\ BooksInv /\ [Next]_vars => BooksInv'
<1> SUFFICES ASSUME TypeOK, LockInv, BooksInv, [Next]_vars PROVE BooksInv'
  OBVIOUS
<1>t. /\ DOMAIN pc = Requests /\ DOMAIN input = Requests /\ DOMAIN cursor = Requests
      /\ DOMAIN accountMap = Requests
  BY DEF TypeOK, CallsOK, LocalsOK
<1>l. LocalsFollowPc
  BY DEF LockInv
<1>1. ASSUME NEW r \in Requests, NEW i \in Inputs, NEW k \in Keys \cup {NoKey},
             Call(r, i, k)
      PROVE  BooksInv'
  <2>1. /\ UNCHANGED <<tables, locals>>
        /\ pc[r] = "idle" /\ pc'[r] \in {"queued", "done"}
        /\ \A q \in Requests \ {r} : pc'[q] = pc[q] /\ input'[q] = input[q]
    BY <1>1, <1>t DEF Call
  <2>2. DeltasFollowLegs(r)' /\ StagedFollowsDeltas(r)'
    BY <2>1, <1>l DEF locals, LocalsFollowPc, DeltasFollowLegs, StagedFollowsDeltas, Writing
  <2> QED BY <2>1, <2>2, PrivateStepKeepsBooks DEF locals
<1>2. ASSUME NEW r \in Requests, Begin(r) \/ LockRow(r) PROVE BooksInv'
  <2>1. /\ UNCHANGED <<tables, call, cursor, balanceDeltas, version, stagedBalances>>
        /\ pc[r] \in {"queued", "locking"} /\ pc'[r] = "locking"
        /\ \A q \in Requests \ {r} : pc'[q] = pc[q]
    BY <1>2, <1>t DEF Begin, LockRow
  <2>2. DeltasFollowLegs(r)' /\ StagedFollowsDeltas(r)'
    BY <2>1, <1>l DEF LocalsFollowPc, DeltasFollowLegs, StagedFollowsDeltas, Writing
  <2> QED BY <2>1, <2>2, PrivateStepKeepsBooks DEF call
<1>3. ASSUME NEW r \in Requests, CheckAccounts(r) PROVE BooksInv'
  <2>1. CASE \E status \in {404, 409, 422} : Rollback(r, status)
    BY StatusType, <1>3, <2>1, RollbackKeepsBooks DEF CheckAccounts
  <2>2. CASE ~\E status \in {404, 409, 422} : Rollback(r, status)
    <3>1. /\ UNCHANGED <<tables, call, locals>>
          /\ pc[r] = "locking" /\ pc'[r] = "reading"
          /\ \A q \in Requests \ {r} : pc'[q] = pc[q]
      BY StatusType, <1>3, <1>t, <2>2 DEF CheckAccounts
    <3>2. cursor[r] = 1 /\ DOMAIN balanceDeltas[r] = {} /\ DOMAIN stagedBalances[r] = {}
      BY <3>1, <1>l DEF LocalsFollowPc, Writing
    <3>3. input[r] \in Inputs
      BY <3>1 DEF TypeOK, CallsOK
    <3>4. \A j \in DOMAIN input[r] : ~ j < 1
      BY <3>3, LegType
    <3>5. ReadRows(r)' = {}
      BY <3>1, <3>2, <3>4 DEF ReadRows, call, locals
    <3>6. 1 <= Len(input[r]) + 1
      BY <3>3, LegType
    <3>7. DeltasFollowLegs(r)'
      BY <3>1, <3>2, <3>5, <3>6, UnitsOfFew DEF DeltasFollowLegs, locals, call
    <3>8. StagedFollowsDeltas(r)'
      BY <3>1, <3>2 DEF StagedFollowsDeltas, locals
    <3> QED BY <3>1, <3>7, <3>8, PrivateStepKeepsBooks DEF locals, call
  <2> QED BY <2>1, <2>2
<1>4. ASSUME NEW r \in Requests, ReadBalance(r) PROVE BooksInv'
  BY <1>4, ReadBalanceKeepsBooks
<1>5. ASSUME NEW r \in Requests, InsertEntries(r) PROVE BooksInv'
  <2>1. CASE Rollback(r, StatusOf("internal_error"))
    BY <1>5, <2>1, RollbackKeepsBooks DEF InsertEntries
  <2>2. CASE ~Rollback(r, StatusOf("internal_error"))
    <3>1. /\ UNCHANGED <<tables, call, locals>>
          /\ pc[r] = "reading" /\ pc'[r] = "versioning" /\ cursor[r] > Len(input[r])
          /\ \A q \in Requests \ {r} : pc'[q] = pc[q]
      BY <1>5, <1>t, <2>2 DEF InsertEntries
    <3>2. input[r] \in Inputs /\ cursor[r] \in Nat
      BY <3>1 DEF TypeOK, CallsOK, LocalsOK
    <3>3. cursor[r] = Len(input[r]) + 1
      BY <3>1, <3>2, LegType DEF BooksInv, DeltasFollowLegs, Writing
    <3>4. ReadRows(r)' = ReadRows(r)
      BY <3>1 DEF ReadRows, call, locals
    <3>5. DeltasFollowLegs(r)'
      BY <3>1, <3>3, <3>4 DEF BooksInv, DeltasFollowLegs, Writing, call, locals, tables
    <3>6. StagedFollowsDeltas(r)'
      BY <3>1 DEF BooksInv, StagedFollowsDeltas, locals, tables
    <3> QED BY <3>1, <3>5, <3>6, PrivateStepKeepsBooks DEF locals, call
  <2> QED BY <2>1, <2>2
<1>6. ASSUME NEW r \in Requests, ReadVersion(r) PROVE BooksInv'
  BY <1>6, ReadVersionKeepsBooks
<1>7. ASSUME NEW r \in Requests, UpdateBalance(r) PROVE BooksInv'
  BY <1>7, UpdateBalanceKeepsBooks
<1>8. ASSUME NEW r \in Requests, Persist(r) PROVE BooksInv'
  <2>1. CASE Rollback(r, StatusOf("internal_error"))
    BY <1>8, <2>1, RollbackKeepsBooks DEF Persist
  <2>2. CASE ~Rollback(r, StatusOf("internal_error"))
    <3>1. /\ UNCHANGED <<tables, call, locals>>
          /\ pc[r] = "persisting" /\ pc'[r] = "committing"
          /\ \A q \in Requests \ {r} : pc'[q] = pc[q]
      BY <1>8, <1>t, <2>2 DEF Persist
    <3>2. ReadRows(r)' = ReadRows(r)
      BY <3>1 DEF ReadRows, call, locals
    <3>3. DeltasFollowLegs(r)'
      BY <3>1, <3>2 DEF BooksInv, DeltasFollowLegs, Writing, call, locals, tables
    <3>4. StagedFollowsDeltas(r)'
      BY <3>1 DEF BooksInv, StagedFollowsDeltas, locals, tables, call
    <3> QED BY <3>1, <3>3, <3>4, PrivateStepKeepsBooks DEF locals, call
  <2> QED BY <2>1, <2>2
<1>9. ASSUME NEW r \in Requests, Commit(r) PROVE BooksInv'
  BY <1>9, CommitKeepsBooks
<1>10. ASSUME NEW r \in Requests, Reply(r) \/ LoseAcknowledgement(r) PROVE BooksInv'
  <2>1. /\ UNCHANGED <<tables, locals, input>>
        /\ pc[r] = "committed" /\ pc'[r] = "done"
        /\ \A q \in Requests \ {r} : pc'[q] = pc[q]
    BY <1>10, <1>t DEF Reply, LoseAcknowledgement, Answer
  <2>2. DeltasFollowLegs(r)' /\ StagedFollowsDeltas(r)'
    BY <2>1, <1>l DEF locals, LocalsFollowPc, DeltasFollowLegs, StagedFollowsDeltas, Writing
  <2> QED BY <2>1, <2>2, PrivateStepKeepsBooks DEF locals
<1>11. ASSUME NEW r \in Requests, StatementFails(r) PROVE BooksInv'
  BY <1>11, RollbackKeepsBooks DEF StatementFails
<1>12. ASSUME NEW change \in StatusChanges, SetStatus(change[1], change[2]) PROVE BooksInv'
  <2>1. /\ UNCHANGED <<balances, transactions, entries, pc, call, locals>>
        /\ accounts' = [accounts EXCEPT ![change[1]].status = change[2]]
    BY <1>12 DEF SetStatus
  <2>2. \A a \in DOMAIN accounts : accounts'[a].type = accounts[a].type
    BY <2>1 DEF TypeOK, TablesOK, AccountRow
  <2>3. ASSUME NEW q \in Requests PROVE DeltasFollowLegs(q)' /\ StagedFollowsDeltas(q)'
    <3>1. DOMAIN balanceDeltas[q] \subseteq DOMAIN accounts
      BY DeltasAreLocked DEF BooksInv, TypeOK, TablesOK, LocalsOK
    <3> QED BY <2>1, <2>2, <3>1, BooksFrame DEF BooksInv, call, locals
  <2>4. JournalHoldsTransactions' /\ BalanceMatchesJournal'
    BY <2>1, <2>2, TablesFrame DEF BooksInv, TypeOK, TablesOK
  <2> QED BY <2>3, <2>4 DEF BooksInv
<1>13. CASE UNCHANGED vars
  <2>1. UNCHANGED <<tables, pc, call, locals>>
    BY <1>13 DEF vars
  <2>2. ASSUME NEW q \in Requests PROVE DeltasFollowLegs(q)' /\ StagedFollowsDeltas(q)'
    BY <2>1, BooksFrame DEF BooksInv, tables, call, locals
  <2>3. JournalHoldsTransactions' /\ BalanceMatchesJournal'
    BY <2>1, TablesFrame DEF BooksInv, tables
  <2> QED BY <2>2, <2>3 DEF BooksInv
<1> QED BY <1>1, <1>2, <1>3, <1>4, <1>5, <1>6, <1>7, <1>8, <1>9, <1>10, <1>11,
           <1>12, <1>13 DEF Next, Advance, Fail

\* What a transaction has read, staged and written stays consistent with the
\* tables at every statement of every interleaving.
THEOREM BooksStayConsistent == Spec => []BooksInv
  BY TypeCorrect, LocksProtectChecks, BooksInit, BooksStep, PTL DEF Spec

\* In every reachable state the materialised balance of every account is the
\* one its journal implies.
THEOREM BalancesAreCorrect == Spec => []BalanceMatchesJournal
<1>1. BooksInv => BalanceMatchesJournal
  BY DEF BooksInv
<1> QED BY <1>1, BooksStayConsistent, PTL

\* When a posting comes to update a balance row, nobody else is updating it and
\* its version has not moved: the version check cannot fail.
THEOREM VersionCheckIsRedundant == Spec => []OptimisticCheckNeverFails
<1>1. ASSUME TypeOK, LockInv, BooksInv PROVE OptimisticCheckNeverFails
  <2>1. SUFFICES ASSUME NEW r \in Requests, pc[r] = "updating", NEW a \in NextToUpdate(r)
                 PROVE  ~StagedByOther(r, a) /\ ~OptimisticConflict(r, a)
    BY DEF OptimisticCheckNeverFails
  <2>2. input[r] \in Inputs
    BY <1>1, <2>1 DEF TypeOK, CallsOK
  <2>3. a \in DOMAIN balanceDeltas[r]
    BY <1>1, <2>1, <2>2, AllRowsRead, NextToUpdateType DEF BooksInv, DeltasFollowLegs, Writing
  <2>4. a \in DOMAIN accountMap[r]
    BY <1>1, <2>3, DeltasAreLocked DEF BooksInv
  <2>5. ~StagedByOther(r, a)
    <3>1. ASSUME NEW q \in Requests \ {r}, a \in DOMAIN stagedBalances[q]
          PROVE  FALSE
      <4>1. a \in DOMAIN accountMap[q]
        BY <1>1, <3>1, DeltasAreLocked DEF BooksInv, StagedFollowsDeltas
      <4> QED BY <1>1, <2>4, <4>1 DEF LockInv, LocksExclude
    <3> QED BY <3>1 DEF StagedByOther
  <2>6. ~OptimisticConflict(r, a)
    <3>1. a \in DOMAIN balances
      BY <1>1, <2>4 DEF TypeOK, TablesOK, LocalsOK
    <3> QED BY <1>1, <2>1, <3>1 DEF BooksInv, StagedFollowsDeltas, OptimisticConflict
  <2> QED BY <2>5, <2>6
<1> QED BY <1>1, TypeCorrect, LocksProtectChecks, BooksStayConsistent, PTL

-----------------------------------------------------------------------------
(* The refinement of Ledger.                                               *)

\* The ledger and the code speak of the same rules.
LEMMA SameRules ==
  /\ Books!NoRows = NoRows
  /\ Books!AccountStatuses = AccountStatuses
  /\ \A t, i : Books!EntryRows(t, i) = EntryRows(t, i)
  /\ \A S : Books!Balanced(S) <=> Balanced(S)
  /\ \A S, a : Books!OfAccount(S, a) = OfAccount(S, a)
  /\ \A t, S : Books!JournalBalance(t, S) = JournalBalance(t, S)
  /\ \A m, k, v : Books!Put(m, k, v) = Put(m, k, v)
<1>1. Books!NoRows = NoRows
  BY DEF Books!NoRows, NoRows
<1>2. Books!AccountStatuses = AccountStatuses
  BY DEF Books!AccountStatuses, AccountStatuses
<1>3. \A t, i, j : Books!EntryRow(t, i, j) = EntryRow(t, i, j)
  BY DEF Books!EntryRow, EntryRow
<1>4. \A t, i : Books!EntryRows(t, i) = EntryRows(t, i)
  BY <1>3 DEF Books!EntryRows, EntryRows
<1>5. \A S : Books!Total(S) = Total(S)
  BY DEF Books!Total, Total, Books!Units, Units, Books!Cardinality, Cardinality
<1>6. \A S, d : Books!On(S, d) = On(S, d)
  BY DEF Books!On, On
<1>7. \A S, c : Books!InCurrency(S, c) = InCurrency(S, c)
  BY DEF Books!InCurrency, InCurrency
<1>8. \A S : Books!Balanced(S) <=> Balanced(S)
  BY <1>5, <1>6, <1>7 DEF Books!Balanced, Balanced
<1>9. \A S, a : Books!OfAccount(S, a) = OfAccount(S, a)
  BY DEF Books!OfAccount, OfAccount
<1>10. \A t, d, c : Books!BalanceFromJournal(t, d, c) = BalanceFromJournal(t, d, c)
  BY DEF Books!BalanceFromJournal, BalanceFromJournal, Books!NormalBalanceSide,
         NormalBalanceSide
<1>11. \A t, S : Books!JournalBalance(t, S) = JournalBalance(t, S)
  BY <1>5, <1>6, <1>10 DEF Books!JournalBalance, JournalBalance
<1>12. \A m, k, v : Books!Put(m, k, v) = Put(m, k, v)
  BY DEF Books!Put, Put
<1> QED BY <1>1, <1>2, <1>4, <1>8, <1>9, <1>11, <1>12

\* A commit is the atomic posting of the ledger.
LEMMA CommitIsPost ==
  ASSUME TypeOK, LockInv, BooksInv, NEW r \in Requests, Commit(r), ~Rollback(r, StatusOf("double_entry_violation")),
         NEW i \in Inputs, NEW k \in Keys \cup {NoKey}, i = input[r], k = idempotency[r]
  PROVE  Books!Post(r, i, k)
<1> DEFINE rows == EntryRows(r, i)
<1>1. /\ pc[r] = "committing" /\ UNCHANGED <<accounts, call>>
      /\ entries' = entries \cup rows
      /\ DOMAIN balances' = DOMAIN balances
  BY CommitEffect
<1>2. \A a \in DOMAIN balances :
        balances'[a].balance =
          balances[a].balance + JournalBalance(accounts[a].type, OfAccount(rows, a))
  BY CommitEffect
<1>3. \A row \in entries : row.txn # r
  BY <1>1 DEF BooksInv, JournalHoldsTransactions
<1>4. k \notin DOMAIN idempotencyKeys
  BY <1>1, NoKeyIsNotAKey DEF LockInv, InsertedKeysAreNew, TypeOK, TablesOK
<1>5. Balanced(rows)
  BY <1>1 DEF LockInv, WritersAreChecked
<1>6. ASSUME NEW row \in rows
      PROVE  /\ row.account \in DOMAIN accounts
             /\ accounts[row.account].status = "ACTIVE"
             /\ accounts[row.account].currency = row.currency
  <2>1. PICK n \in DOMAIN i : row.account = i[n].account /\ row.currency = i[n].currency
    BY DEF EntryRows, EntryRow
  <2>2. /\ row.account \in DOMAIN accountMap[r]
        /\ accountMap[r][row.account].status = "ACTIVE"
        /\ accountMap[r][row.account].currency = row.currency
    BY <1>1, <2>1 DEF LockInv, WritersAreChecked, Writing
  <2> QED BY <2>2 DEF LockInv, LockedRowsAreCurrent, TypeOK, TablesOK, LocalsOK
<1>7. [x \in DOMAIN idempotencyKeys' |-> idempotencyKeys'[x].txn] =
        IF k = NoKey THEN [x \in DOMAIN idempotencyKeys |-> idempotencyKeys[x].txn]
        ELSE Put([x \in DOMAIN idempotencyKeys |-> idempotencyKeys[x].txn], k, r)
  <2>1. CASE k = NoKey
    BY <2>1 DEF Commit
  <2>2. CASE k # NoKey
    <3>1. idempotencyKeys' = Put(idempotencyKeys, k, [requestHash |-> input[r], txn |-> r])
      BY <2>2 DEF Commit
    <3> QED BY <2>2, <3>1 DEF Put
  <2> QED BY <2>1, <2>2
<1>8. [a \in DOMAIN balances' |-> balances'[a].balance] =
        [a \in DOMAIN [b \in DOMAIN balances |-> balances[b].balance] |->
           [b \in DOMAIN balances |-> balances[b].balance][a]
             + JournalBalance(accounts[a].type, OfAccount(rows, a))]
  BY <1>1, <1>2
<1>9. k \notin DOMAIN [x \in DOMAIN idempotencyKeys |-> idempotencyKeys[x].txn]
  BY <1>4
<1>10. Books!EntryRows(r, i) = rows
  BY SameRules
<1> HIDE DEF rows
<1> QED BY <1>1, <1>3, <1>5, <1>6, <1>7, <1>8, <1>9, <1>10, SameRules DEF Books!Post

\* postTransaction, with all its statements, waits and failures, implements the
\* ledger that posts atomically.
THEOREM PostingIsAtomic == Spec => ImplementsLedger
<1>1. Init => Books!Init
  BY SameRules DEF Init, Books!Init, NoRows
<1>2. ASSUME TypeOK, LockInv, BooksInv, [Next]_vars
      PROVE  Books!Next \/ UNCHANGED Books!ledgerVars
  <2>1. CASE UNCHANGED tables
    BY <2>1 DEF tables, Books!ledgerVars
  <2>2. CASE \E r \in Requests : Commit(r) /\ ~Rollback(r, StatusOf("double_entry_violation"))
    <3>1. PICK r \in Requests : Commit(r) /\ ~Rollback(r, StatusOf("double_entry_violation"))
      BY <2>2
    <3>2. PICK i \in Inputs, k \in Keys \cup {NoKey} : i = input[r] /\ k = idempotency[r]
      BY <1>2, <3>1 DEF Commit, TypeOK, CallsOK
    <3>3. Books!Post(r, i, k)
      BY <1>2, <3>1, <3>2, CommitIsPost
    <3>4. \E q \in Requests, j \in Inputs, l \in Keys \cup {NoKey} : Books!Post(q, j, l)
      BY <3>3
    <3> QED BY <3>4 DEF Books!Next
  <2>3. CASE \E change \in StatusChanges : SetStatus(change[1], change[2])
    <3>1. PICK change \in StatusChanges : SetStatus(change[1], change[2])
      BY <2>3
    <3>2. change[1] \in Accounts /\ change[2] \in AccountStatuses
      BY StatusChangesAreTyped
    <3>3. Books!SetStatus(change[1], change[2])
      BY <3>1 DEF SetStatus, Books!SetStatus
    <3> QED BY <3>2, <3>3, SameRules DEF Books!Next
  <2> QED BY <1>2, <2>1, <2>2, <2>3, StepKinds
<1> QED BY <1>1, <1>2, TypeCorrect, LocksProtectChecks, BooksStayConsistent, PTL
       DEF Spec, ImplementsLedger, Books!Spec
=============================================================================
