----------------------- MODULE PostTransactionOutcomes -------------------------
(***************************************************************************)
(* More proofs about PostTransaction, on top of the layers of              *)
(* PostTransactionProofs: what a caller and a reader of the tables find    *)
(* when a call is over (keys, answers, versions), that no circle of calls  *)
(* waits for itself, and that the books as a whole balance.                *)
(***************************************************************************)
EXTENDS PostTransactionProofs, WellFoundedInduction

-----------------------------------------------------------------------------
(* The kinds of steps, as far as outcomes go.                              *)

\* Nothing happens to the books, the calls and those that are through.
Private ==
    /\ UNCHANGED <<balances, transactions, entries, idempotencyKeys, call>>
    /\ \A q \in Requests : pc'[q] # pc[q] =>
         pc[q] \in InTransaction \cup {"queued"} /\ pc'[q] \in InTransaction

\* A call ends without anything in the books.
GivesUp(r) == \E status \in {404, 409, 422, 500} :
    /\ pc[r] \in InTransaction \cup {"queued"}
    /\ Rollback(r, status)

Posts(r) == Commit(r) /\ ~Rollback(r, StatusOf("double_entry_violation"))

LEMMA OutcomeKinds ==
  ASSUME TypeOK, [Next]_vars
  PROVE  \/ Private
         \/ \E r \in Requests : GivesUp(r) \/ Posts(r) \/ Reply(r) \/ LoseAcknowledgement(r)
         \/ \E r \in Requests, i \in Inputs, k \in Keys \cup {NoKey} : Call(r, i, k)
<1> USE DEF Goto, InTransaction, GivesUp, Private
<1>t. DOMAIN pc = Requests
  BY DEF TypeOK, CallsOK
<1>1. ASSUME NEW r \in Requests, Begin(r) \/ LockRow(r) \/ ReadBalance(r) PROVE Private
  BY <1>1, <1>t DEF Begin, LockRow, ReadBalance, tables, call
<1>2. ASSUME NEW r \in Requests, CheckAccounts(r) PROVE Private \/ GivesUp(r)
  BY <1>2, <1>t, StatusType DEF CheckAccounts, tables, call
<1>3. ASSUME NEW r \in Requests, InsertEntries(r) PROVE Private \/ GivesUp(r)
  BY <1>3, <1>t, StatusType DEF InsertEntries, tables, call
<1>4. ASSUME NEW r \in Requests, ReadVersion(r) PROVE Private \/ GivesUp(r)
  BY <1>4, <1>t, StatusType DEF ReadVersion, tables, call
<1>5. ASSUME NEW r \in Requests, UpdateBalance(r) PROVE Private \/ GivesUp(r)
  BY <1>5, <1>t, StatusType DEF UpdateBalance, tables, call
<1>6. ASSUME NEW r \in Requests, Persist(r) PROVE Private \/ GivesUp(r)
  BY <1>6, <1>t, StatusType DEF Persist, tables, call
<1>7. ASSUME NEW r \in Requests, Commit(r) PROVE Posts(r) \/ GivesUp(r)
  BY <1>7, StatusType DEF Commit, Posts
<1>8. ASSUME NEW r \in Requests, StatementFails(r) PROVE GivesUp(r)
  BY <1>8, StatusType DEF StatementFails
<1>9. ASSUME NEW a, NEW status, SetStatus(a, status) PROVE Private
  BY <1>9 DEF SetStatus
<1>10. CASE UNCHANGED vars
  BY <1>10 DEF vars, tables
<1> QED
  BY <1>1, <1>2, <1>3, <1>4, <1>5, <1>6, <1>7, <1>8, <1>9, <1>10 DEF Next, Advance, Fail

-----------------------------------------------------------------------------
(* Keys, answers and versions.                                             *)

Posted(r) == {row \in entries : row.txn = r}

\* The answers are those of calls that are over, and a posting whose answer is on
\* its way is in the books.
AnswersOK ==
    /\ \A r \in DOMAIN response : pc[r] = "done" /\ response[r].txn = r
    /\ \A r \in Requests : pc[r] = "committed" => Posted(r) = EntryRows(r, input[r])

VersionsOK == IsFiniteSet(transactions) /\ VersionCountsPostings

OutcomeInv == OnePostingPerKey /\ AnswersOK /\ AnswerMatchesBooks /\ VersionsOK

LEMMA OutcomeInit == Init => OutcomeInv
<1> SUFFICES ASSUME Init PROVE OutcomeInv
  OBVIOUS
<1>1. OnePostingPerKey
  BY DEF Init, OnePostingPerKey, NoRows
<1>2. AnswersOK /\ AnswerMatchesBooks
  BY DEF Init, AnswersOK, AnswerMatchesBooks, NoRows
<1>3. VersionsOK
  <2>1. \A a : {row.txn : row \in OfAccount(entries, a)} = {}
    BY DEF Init, OfAccount
  <2> QED BY <2>1, FS_EmptySet DEF Init, VersionsOK, VersionCountsPostings
<1> QED BY <1>1, <1>2, <1>3 DEF OutcomeInv

\* A call that is not yet through has nothing in the books.
LEMMA NothingPosted ==
  ASSUME BooksInv, NEW r \in Requests, pc[r] \notin {"committed", "done"}
  PROVE  r \notin transactions /\ Posted(r) = {}
  BY DEF BooksInv, JournalHoldsTransactions, Posted

LEMMA PrivateKeepsOutcomes ==
  ASSUME TypeOK, OutcomeInv, Private
  PROVE  OutcomeInv'
<1>1. UNCHANGED <<balances, transactions, entries, idempotencyKeys, input, idempotency, response>>
  BY DEF Private, call
<1>2. \A r \in Requests : pc[r] \in {"done", "committed"} \/ pc'[r] \in {"done", "committed"}
        => pc'[r] = pc[r]
  BY DEF Private, InTransaction
<1>3. AnswersOK'
  BY <1>1, <1>2 DEF OutcomeInv, AnswersOK, Posted, TypeOK, CallsOK
<1>4. OnePostingPerKey' /\ AnswerMatchesBooks' /\ VersionsOK'
  BY <1>1 DEF OutcomeInv, OnePostingPerKey, AnswerMatchesBooks, VersionsOK, VersionCountsPostings
<1> QED BY <1>3, <1>4 DEF OutcomeInv

\* An answer that is right when it is given.
LEMMA AnswerKeepsOutcomes ==
  ASSUME TypeOK, OutcomeInv, NEW r \in Requests, NEW status, Answer(r, status),
         UNCHANGED <<balances, transactions, entries, idempotencyKeys>>,
         pc[r] # "done",
         status = 201 => Posted(r) = EntryRows(r, input[r]),
         status \in {StatusOf(code) : code \in Refusals} => Posted(r) = {}
  PROVE  OutcomeInv'
<1>1. /\ pc' = [pc EXCEPT ![r] = "done"] /\ UNCHANGED <<input, idempotency>>
      /\ response' = Put(response, r, [status |-> status, txn |-> r])
  BY DEF Answer, Goto
<1>2. /\ DOMAIN response' = DOMAIN response \cup {r}
      /\ response'[r] = [status |-> status, txn |-> r]
      /\ \A q \in DOMAIN response : q # r /\ response'[q] = response[q]
  BY <1>1 DEF Put, OutcomeInv, AnswersOK
<1>3. AnswersOK'
  BY <1>1, <1>2 DEF OutcomeInv, AnswersOK, Posted, TypeOK, CallsOK
<1>4. AnswerMatchesBooks'
  <2>1. \A q \in DOMAIN response' : response'[q].status = 201 =>
          Posted(response'[q].txn) = EntryRows(response'[q].txn, input[q])
    BY <1>2 DEF OutcomeInv, AnswerMatchesBooks, Posted
  <2>2. \A q \in DOMAIN response' : response'[q].status \in {StatusOf(code) : code \in Refusals} =>
          Posted(response'[q].txn) = {}
    BY <1>2 DEF OutcomeInv, AnswerMatchesBooks, Posted
  <2> QED BY <1>1, <2>1, <2>2 DEF AnswerMatchesBooks, Posted
<1>5. OnePostingPerKey' /\ VersionsOK'
  BY <1>1 DEF OutcomeInv, OnePostingPerKey, VersionsOK, VersionCountsPostings
<1> QED BY <1>3, <1>4, <1>5 DEF OutcomeInv

LEMMA GivesUpKeepsOutcomes ==
  ASSUME TypeOK, BooksInv, OutcomeInv, NEW r \in Requests, GivesUp(r)
  PROVE  OutcomeInv'
<1>1. PICK status \in {404, 409, 422, 500} :
        pc[r] \in InTransaction \cup {"queued"} /\ Rollback(r, status)
  BY DEF GivesUp
<1>2. Posted(r) = {} /\ pc[r] # "done"
  BY <1>1, NothingPosted DEF InTransaction
<1> QED BY <1>1, <1>2, AnswerKeepsOutcomes DEF Rollback, tables

\* A posting that has committed and gets its 201, or a 500 in its place.
LEMMA EndKeepsOutcomes ==
  ASSUME TypeOK, OutcomeInv, NEW r \in Requests, Reply(r) \/ LoseAcknowledgement(r)
  PROVE  OutcomeInv'
<1>1. pc[r] = "committed" /\ UNCHANGED tables
  BY DEF Reply, LoseAcknowledgement
<1>2. Posted(r) = EntryRows(r, input[r])
  BY <1>1 DEF OutcomeInv, AnswersOK
<1>3. PICK status \in {201, 500} : Answer(r, status)
  BY StatusType DEF Reply, LoseAcknowledgement
<1>4. \A code \in Refusals : StatusOf(code) \in {400, 404, 409, 422}
  BY DEF StatusOf, Refusals, NotFound, Conflict, BadRequest, Unprocessable
<1>5. status \notin {StatusOf(code) : code \in Refusals}
  BY <1>3, <1>4
<1> QED BY <1>1, <1>2, <1>3, <1>5, AnswerKeepsOutcomes DEF tables

LEMMA CallKeepsOutcomes ==
  ASSUME TypeOK, BooksInv, OutcomeInv, NEW r \in Requests, NEW i \in Inputs,
         NEW k \in Keys \cup {NoKey}, Call(r, i, k)
  PROVE  OutcomeInv'
<1>1. /\ pc[r] = "idle" /\ UNCHANGED <<balances, transactions, entries, idempotencyKeys>>
      /\ input' = [input EXCEPT ![r] = i] /\ idempotency' = [idempotency EXCEPT ![r] = k]
  BY DEF Call, tables
<1>2. r \notin transactions /\ Posted(r) = {} /\ r \notin DOMAIN response
  BY <1>1, NothingPosted DEF OutcomeInv, AnswersOK
<1>3. \A q \in Requests \ {r} : input'[q] = input[q] /\ idempotency'[q] = idempotency[q]
  BY <1>1 DEF TypeOK, CallsOK
<1>4. OnePostingPerKey'
  BY <1>1, <1>2, <1>3 DEF OutcomeInv, OnePostingPerKey, TypeOK, TablesOK
<1>5. VersionsOK'
  BY <1>1 DEF OutcomeInv, VersionsOK, VersionCountsPostings
<1>6. CASE pc' = [pc EXCEPT ![r] = "queued"] /\ UNCHANGED response
  <2>1. AnswersOK'
    BY <1>1, <1>2, <1>3, <1>6 DEF OutcomeInv, AnswersOK, Posted, TypeOK, CallsOK
  <2>2. AnswerMatchesBooks'
    BY <1>1, <1>2, <1>3, <1>6 DEF OutcomeInv, AnswersOK, AnswerMatchesBooks, TypeOK, CallsOK
  <2> QED BY <1>4, <1>5, <2>1, <2>2 DEF OutcomeInv
<1>7. CASE /\ pc' = [pc EXCEPT ![r] = "done"]
           /\ response' = Put(response, r, [status |-> StatusOf("unbalanced_transaction"), txn |-> r])
  <2>1. /\ DOMAIN response' = DOMAIN response \cup {r}
        /\ response'[r] = [status |-> 422, txn |-> r]
        /\ \A q \in DOMAIN response : q # r /\ response'[q] = response[q]
    BY <1>2, <1>7, StatusType DEF Put
  <2>2. AnswersOK'
    BY <1>1, <1>2, <1>3, <1>7, <2>1 DEF OutcomeInv, AnswersOK, Posted, TypeOK, CallsOK
  <2>3. \A q \in DOMAIN response' : response'[q].status = 201 =>
          Posted(response'[q].txn) = EntryRows(response'[q].txn, input'[q])
    BY <1>3, <2>1 DEF OutcomeInv, AnswerMatchesBooks, Posted, TypeOK, CallsOK
  <2>4. \A q \in DOMAIN response' : response'[q].status \in {StatusOf(code) : code \in Refusals} =>
          Posted(response'[q].txn) = {}
    BY <1>2, <2>1 DEF OutcomeInv, AnswerMatchesBooks, Posted
  <2>5. AnswerMatchesBooks'
    BY <1>1, <2>3, <2>4 DEF AnswerMatchesBooks, Posted
  <2> QED BY <1>4, <1>5, <2>2, <2>5 DEF OutcomeInv
<1> QED BY <1>6, <1>7 DEF Call, Goto

\* A commit brings one posting, with its key and one more version for each of its
\* accounts.
LEMMA PostsKeepsOutcomes ==
  ASSUME TypeOK, LockInv, BooksInv, OutcomeInv, NEW r \in Requests, Posts(r)
  PROVE  OutcomeInv'
<1> DEFINE rows == EntryRows(r, input[r])
           key == idempotency[r]
           record == [requestHash |-> input[r], txn |-> r]
<1>1. /\ pc[r] = "committing" /\ pc' = [pc EXCEPT ![r] = "committed"]
      /\ UNCHANGED <<input, idempotency, response>>
      /\ transactions' = transactions \cup {r} /\ entries' = entries \cup rows
      /\ DOMAIN balances' = DOMAIN balances
  BY CommitEffect DEF Posts, Goto, call
<1>2. /\ balances' = [a \in DOMAIN balances |->
                        IF a \in DOMAIN stagedBalances[r] THEN stagedBalances[r][a] ELSE balances[a]]
      /\ idempotencyKeys' = IF key = NoKey THEN idempotencyKeys ELSE Put(idempotencyKeys, key, record)
  BY DEF Posts, Commit
<1>3. r \notin transactions /\ Posted(r) = {}
  BY <1>1, NothingPosted
<1>4. /\ key \in Keys \cup {NoKey} /\ DOMAIN idempotencyKeys \subseteq Keys
      /\ (key # NoKey => key \notin DOMAIN idempotencyKeys)
  BY <1>1 DEF TypeOK, TablesOK, CallsOK, LockInv, InsertedKeysAreNew
<1>5. \A row \in rows : row.txn = r
  BY DEF EntryRows, EntryRow
<1>6. OnePostingPerKey'
  <2>1. CASE key = NoKey
    BY <1>1, <1>2, <2>1 DEF OutcomeInv, OnePostingPerKey
  <2>2. CASE key # NoKey
    <3>1. /\ DOMAIN idempotencyKeys' = DOMAIN idempotencyKeys \cup {key}
          /\ idempotencyKeys'[key] = record
          /\ \A k \in DOMAIN idempotencyKeys : k # key /\ idempotencyKeys'[k] = idempotencyKeys[k]
      BY <1>2, <1>4, <2>2 DEF Put
    <3> QED BY <1>1, <3>1 DEF OutcomeInv, OnePostingPerKey
  <2> QED BY <2>1, <2>2
<1>7. /\ Posted(r)' = rows
      /\ \A q : q # r => Posted(q)' = Posted(q)
  BY <1>1, <1>3, <1>5 DEF Posted
<1>8. AnswersOK'
  BY <1>1, <1>7 DEF OutcomeInv, AnswersOK, TypeOK, CallsOK
<1>9. AnswerMatchesBooks'
  <2>1. SUFFICES ASSUME NEW q \in DOMAIN response
                 PROVE  LET posted == {row \in entries' : row.txn = response[q].txn} IN
                        /\ response[q].status = 201 => posted = EntryRows(response[q].txn, input[q])
                        /\ response[q].status \in {StatusOf(code) : code \in Refusals} => posted = {}
    BY <1>1 DEF AnswerMatchesBooks
  <2>2. response[q].txn # r
    BY <1>1 DEF OutcomeInv, AnswersOK
  <2>3. {row \in entries' : row.txn = response[q].txn} = {row \in entries : row.txn = response[q].txn}
    BY <1>1, <1>5, <2>2
  <2> QED BY <2>3 DEF OutcomeInv, AnswerMatchesBooks
<1>10. VersionCountsPostings'
  <2>1. /\ input[r] \in Inputs /\ cursor[r] = Len(input[r]) + 1
    BY <1>1 DEF TypeOK, CallsOK, BooksInv, DeltasFollowLegs, Writing, InTransaction
  <2>2. /\ rows = ReadRows(r) /\ AccountsOf(input[r]) = {row.account : row \in rows}
    BY <2>1, AllRowsRead
  <2>3. DOMAIN stagedBalances[r] = {row.account : row \in rows}
    <3>1. DeltasFollowLegs(r) /\ StagedFollowsDeltas(r)
      BY DEF BooksInv
    <3>2. DOMAIN balanceDeltas[r] = {row.account : row \in rows}
      BY <1>1, <2>2, <3>1 DEF DeltasFollowLegs, Writing, InTransaction
    <3>3. DOMAIN stagedBalances[r] \subseteq DOMAIN balanceDeltas[r]
          /\ AccountsOf(input[r]) \subseteq DOMAIN stagedBalances[r]
      BY <1>1, <3>1 DEF StagedFollowsDeltas
    <3> QED BY <2>2, <3>2, <3>3
  <2>4. SUFFICES ASSUME NEW a \in DOMAIN balances
                 PROVE  balances'[a].version = Cardinality({row.txn : row \in OfAccount(entries', a)})
    BY <1>1 DEF VersionCountsPostings
  <2> DEFINE before == {row.txn : row \in OfAccount(entries, a)}
  <2>5. before \subseteq transactions /\ balances[a].version = Cardinality(before)
    BY DEF BooksInv, JournalHoldsTransactions, OfAccount, OutcomeInv, VersionsOK, VersionCountsPostings
  <2>6. IsFiniteSet(before) /\ r \notin before
    BY <1>3, <2>5, FS_Subset DEF OutcomeInv, VersionsOK
  <2>7. CASE a \in DOMAIN stagedBalances[r]
    <3>1. {row.txn : row \in OfAccount(entries', a)} = before \cup {r}
      BY <1>1, <1>5, <2>3, <2>7 DEF OfAccount
    <3>2. balances'[a].version = balances[a].version + 1
      BY <1>2, <2>7 DEF BooksInv, StagedFollowsDeltas
    <3> HIDE DEF before
    <3> QED BY <2>5, <2>6, <3>1, <3>2, FS_AddElement
  <2>8. CASE a \notin DOMAIN stagedBalances[r]
    <3>1. OfAccount(entries', a) = OfAccount(entries, a)
      BY <1>1, <2>3, <2>8 DEF OfAccount
    <3>2. balances'[a] = balances[a]
      BY <1>2, <2>8
    <3> QED BY <2>5, <3>1, <3>2
  <2> QED BY <2>7, <2>8
<1>11. VersionsOK'
  BY <1>1, <1>10, FS_AddElement DEF OutcomeInv, VersionsOK
<1> QED BY <1>6, <1>8, <1>9, <1>11 DEF OutcomeInv

LEMMA OutcomeStep == TypeOK /\ LockInv /\ BooksInv /\ OutcomeInv /\ [Next]_vars => OutcomeInv'
  BY OutcomeKinds, PrivateKeepsOutcomes, GivesUpKeepsOutcomes, EndKeepsOutcomes, CallKeepsOutcomes,
     PostsKeepsOutcomes

LEMMA OutcomesHold == Spec => []OutcomeInv
  BY TypeCorrect, LocksProtectChecks, BooksStayConsistent, OutcomeInit, OutcomeStep, PTL DEF Spec

\* A key is on record exactly when its posting is in the books, with that posting's
\* request, and no key has two (transactions.service.ts:156-158).
THEOREM KeysArePostedOnce == Spec => []OnePostingPerKey
<1>1. OutcomeInv => OnePostingPerKey
  BY DEF OutcomeInv
<1> QED BY <1>1, OutcomesHold, PTL

\* A caller told 201 has all of its entries in the books, and one that was refused
\* has none (error-handler.ts:35-61).
THEOREM AnswersTellTheTruth == Spec => []AnswerMatchesBooks
<1>1. OutcomeInv => AnswerMatchesBooks
  BY DEF OutcomeInv
<1> QED BY <1>1, OutcomesHold, PTL

\* A balance row's version counts the postings that name its account, once each
\* (accounts.repo.ts:59-77).
THEOREM VersionsCount == Spec => []VersionCountsPostings
<1>1. OutcomeInv => VersionCountsPostings
  BY DEF OutcomeInv, VersionsOK
<1> QED BY <1>1, OutcomesHold, PTL

-----------------------------------------------------------------------------
(* Waiting.                                                                *)

Busy == {r \in Requests : pc[r] \in InTransaction}

\* Rows are locked from the lowest id up, by finitely many calls at a time.
WaitInv ==
    /\ IsFiniteSet(Busy)
    /\ \A r \in Requests : pc[r] = "locking" =>
         \A a \in DOMAIN accountMap[r], b \in found[r] \ DOMAIN accountMap[r] : a < b

LEMMA WaitInit == Init => WaitInv
<1> SUFFICES ASSUME Init PROVE WaitInv
  OBVIOUS
<1>1. Busy = {}
  BY DEF Init, Busy, InTransaction
<1> QED BY <1>1, FS_EmptySet DEF Init, WaitInv

\* Only Begin lets a call into a transaction, and only LockRow adds a lock.
LEMMA WaitKinds ==
  ASSUME TypeOK, [Next]_vars
  PROVE  \/ \E r \in Requests : Begin(r) \/ LockRow(r)
         \/ \A q \in Requests :
              /\ pc'[q] \in InTransaction => pc[q] \in InTransaction
              /\ pc'[q] = "locking" => /\ pc[q] = "locking"
                                      /\ accountMap'[q] = accountMap[q]
                                      /\ found'[q] = found[q]
<1> DEFINE Still == \A q \in Requests :
      /\ pc'[q] \in InTransaction => pc[q] \in InTransaction
      /\ pc'[q] = "locking" => /\ pc[q] = "locking"
                              /\ accountMap'[q] = accountMap[q]
                              /\ found'[q] = found[q]
<1> USE DEF InTransaction, Goto, locals, ReleaseAll
<1>t. /\ DOMAIN pc = Requests
      /\ DOMAIN accountMap = Requests /\ DOMAIN found = Requests
  BY DEF TypeOK, CallsOK, LocalsOK
<1>0. ASSUME NEW r \in Requests, NEW status, Rollback(r, status) PROVE Still
  BY <1>0, <1>t DEF Rollback, Answer
<1>1. ASSUME NEW r \in Requests, NEW i, NEW k, Call(r, i, k) PROVE Still
  BY <1>1, <1>t DEF Call
<1>2. ASSUME NEW r \in Requests, CheckAccounts(r) PROVE Still
  BY <1>2, <1>0, <1>t DEF CheckAccounts
<1>3. ASSUME NEW r \in Requests, ReadBalance(r) PROVE Still
  BY <1>3, <1>t DEF ReadBalance
<1>4. ASSUME NEW r \in Requests, InsertEntries(r) PROVE Still
  BY <1>4, <1>0, <1>t DEF InsertEntries
<1>5. ASSUME NEW r \in Requests, ReadVersion(r) PROVE Still
  BY <1>5, <1>0, <1>t DEF ReadVersion
<1>6. ASSUME NEW r \in Requests, UpdateBalance(r) PROVE Still
  BY <1>6, <1>0, <1>t DEF UpdateBalance
<1>7. ASSUME NEW r \in Requests, Persist(r) PROVE Still
  BY <1>7, <1>0, <1>t DEF Persist
<1>8. ASSUME NEW r \in Requests, Commit(r) PROVE Still
  BY <1>8, <1>0, <1>t DEF Commit
<1>9. ASSUME NEW r \in Requests, Reply(r) \/ LoseAcknowledgement(r) PROVE Still
  BY <1>9, <1>t DEF Reply, LoseAcknowledgement, Answer
<1>10. ASSUME NEW r \in Requests, StatementFails(r) PROVE Still
  BY <1>10, <1>0 DEF StatementFails
<1>11. ASSUME NEW a, NEW status, SetStatus(a, status) PROVE Still
  BY <1>11 DEF SetStatus
<1>12. CASE UNCHANGED vars
  BY <1>12 DEF vars
<1> QED
  BY <1>1, <1>2, <1>3, <1>4, <1>5, <1>6, <1>7, <1>8, <1>9, <1>10, <1>11, <1>12 DEF Next, Advance, Fail

LEMMA WaitStep == TypeOK /\ LockInv /\ WaitInv /\ [Next]_vars => WaitInv'
<1> SUFFICES ASSUME TypeOK, LockInv, WaitInv, [Next]_vars PROVE WaitInv'
  OBVIOUS
<1>t. /\ DOMAIN pc = Requests
      /\ DOMAIN accountMap = Requests /\ DOMAIN found = Requests
  BY DEF TypeOK, CallsOK, LocalsOK
<1>n. \A r \in Requests : found[r] \subseteq Nat
  <2>1. found \in [Requests -> SUBSET DOMAIN Chart]
    BY DEF TypeOK, LocalsOK
  <2> QED BY <2>1, ChartHoldsAccounts, AccountsAreOrdered
<1>1. ASSUME NEW r \in Requests, Begin(r) PROVE WaitInv'
  <2>1. Busy' \subseteq Busy \cup {r}
    BY <1>1, <1>t DEF Begin, Goto, Busy
  <2>2. DOMAIN accountMap[r] = {}
    BY <1>1 DEF LockInv, LocalsFollowPc, Begin, InTransaction
  <2>3. IsFiniteSet(Busy \cup {r})
    BY FS_AddElement DEF WaitInv
  <2> QED BY <1>1, <1>t, <2>1, <2>2, <2>3, FS_Subset DEF WaitInv, Begin, Goto
<1>2. ASSUME NEW r \in Requests, LockRow(r) PROVE WaitInv'
  <2>1. Busy' = Busy
    BY <1>2 DEF LockRow, Busy
  <2>2. PICK a \in NextToLock(r) : accountMap' = [accountMap EXCEPT ![r] = Put(@, a, accounts[a])]
    BY <1>2 DEF LockRow
  <2>3. DOMAIN accountMap'[r] = DOMAIN accountMap[r] \cup {a}
    BY <1>t, <2>2 DEF Put
  <2>4. \A b \in found[r] \ DOMAIN accountMap'[r] : a < b
    BY <1>n, <2>2, <2>3 DEF NextToLock
  <2> QED BY <1>2, <1>t, <2>1, <2>2, <2>3, <2>4 DEF WaitInv, LockRow
<1>3. CASE \A q \in Requests :
        /\ pc'[q] \in InTransaction => pc[q] \in InTransaction
        /\ pc'[q] = "locking" => /\ pc[q] = "locking"
                                /\ accountMap'[q] = accountMap[q]
                                /\ found'[q] = found[q]
  <2>1. Busy' \subseteq Busy
    BY <1>3 DEF Busy
  <2> QED BY <1>3, <2>1, FS_Subset DEF WaitInv
<1> QED BY <1>1, <1>2, <1>3, WaitKinds

\* The staged rows of a call are locked by it, so no other updates them.
LEMMA UpdatesNeverWait ==
  ASSUME TypeOK, LockInv, BooksInv, NEW r \in Requests, NEW q \in Requests \ {r},
         pc[r] = "updating"
  PROVE  NextToUpdate(r) \cap DOMAIN stagedBalances[q] = {}
<1>1. DOMAIN stagedBalances[q] \subseteq DOMAIN accountMap[q]
  BY DeltasAreLocked DEF BooksInv, StagedFollowsDeltas
<1>2. NextToUpdate(r) \subseteq DOMAIN accountMap[r]
  BY LegType DEF LockInv, WritersAreChecked, Writing, InTransaction, NextToUpdate, TypeOK, CallsOK
<1> QED BY <1>1, <1>2 DEF LockInv, LocksExclude

\* Who waits for the row that another holds has locked only lower ones, and the
\* other, if it waits too, waits for a higher one.
LEMMA NoCircle == TypeOK /\ LockInv /\ BooksInv /\ WaitInv => NoWaitCycle
<1> SUFFICES ASSUME TypeOK, LockInv, BooksInv, WaitInv,
                    NEW circle \in SUBSET Requests, circle # {},
                    \A r \in circle : WaitsFor(r) \cap circle # {}
             PROVE  FALSE
  BY DEF NoWaitCycle
<1>1. \A r \in circle : pc[r] \in {"locking", "updating", "persisting"}
  BY DEF WaitsFor
<1>2. ASSUME NEW r \in circle PROVE pc[r] = "locking"
  <2>1. PICK q \in circle \ {r} : q \in WaitsFor(r)
    BY <1>2 DEF WaitsFor
  <2>2. pc[q] # "committing"
    BY <1>1
  <2>3. pc[r] = "updating" => NextToUpdate(r) \cap DOMAIN stagedBalances[q] = {}
    BY UpdatesNeverWait
  <2> QED BY <2>1, <2>2, <2>3 DEF WaitsFor
<1> DEFINE above(r) == {q \in circle : \E a \in NextToLock(r), b \in NextToLock(q) : a < b}
<1>3. \A r \in circle : NextToLock(r) \subseteq Nat
  BY ChartHoldsAccounts, AccountsAreOrdered DEF TypeOK, LocalsOK, NextToLock
<1>4. \A r \in circle : \A a, b \in NextToLock(r) : a = b
  BY <1>3 DEF NextToLock
<1>5. \A r \in circle : \E q \in circle : q \in above(r)
  <2> SUFFICES ASSUME NEW r \in circle PROVE \E q \in circle : q \in above(r)
    OBVIOUS
  <2>1. PICK q \in circle : NextToLock(r) \cap DOMAIN accountMap[q] # {}
    BY <1>2 DEF WaitsFor
  <2>2. PICK a \in NextToLock(r) : a \in DOMAIN accountMap[q]
    BY <2>1
  <2>3. PICK b : b \in NextToLock(q)
    BY <1>2 DEF WaitsFor
  <2>4. a < b
    BY <1>2, <2>2, <2>3 DEF WaitInv, NextToLock
  <2> QED BY <2>2, <2>3, <2>4
<1>6. IsFiniteSet(circle)
  <2>1. circle \subseteq Busy
    BY <1>2 DEF Busy, InTransaction
  <2> QED BY <2>1, FS_Subset DEF WaitInv
<1>7. PICK r \in circle : \A q \in circle : ~(above(q) \subseteq above(r) /\ above(q) # above(r))
  <2> DEFINE sets == {above(q) : q \in circle}
  <2>1. \A q \in circle : above(q) \in SUBSET circle
    OBVIOUS
  <2> HIDE DEF above
  <2>2. sets \subseteq FiniteSubsetsOf(circle) /\ sets # {}
    <3>1. FiniteSubsetsOf(circle) = SUBSET circle
      BY <1>6, FS_FiniteSubsetsOfFinite
    <3> QED BY <2>1, <3>1
  <2>3. \E T \in sets : \A U \in sets : <<U, T>> \notin StrictSubsetOrdering(circle)
    <3> HIDE DEF sets
    <3> QED BY <2>2, FS_StrictSubsetOrderingWellFounded, WFMin
  <2>4. PICK r \in circle : \A q \in circle : <<above(q), above(r)>> \notin StrictSubsetOrdering(circle)
    BY <2>3
  <2> QED BY <2>4, <2>1 DEF StrictSubsetOrdering
<1>8. PICK q \in circle : q \in above(r)
  BY <1>5
<1>9. above(q) \subseteq above(r)
  BY <1>3, <1>4, <1>8
<1>10. q \notin above(q)
  BY <1>3, <1>4
<1> HIDE DEF above
<1> QED BY <1>7, <1>8, <1>9, <1>10

LEMMA WaitsHold == Spec => []WaitInv
  BY TypeCorrect, LocksProtectChecks, WaitInit, WaitStep, PTL DEF Spec

\* No circle of calls waits for itself, whatever the accounts and keys they name:
\* rows are locked in the order of their ids before anything else is, and the key
\* comes last (accounts.repo.ts:32-45).
THEOREM WaitingEnds == Spec => []NoWaitCycle
  BY TypeCorrect, LocksProtectChecks, BooksStayConsistent, WaitsHold, NoCircle, PTL

-----------------------------------------------------------------------------
(* The journal as a whole.                                                 *)

\* In a currency that no row is in, nothing is owed.
LEMMA BalancedEverywhere ==
  ASSUME NEW S, Balanced(S), NEW c
  PROVE  Total(On(InCurrency(S, c), "DEBIT")) = Total(On(InCurrency(S, c), "CREDIT"))
<1>1. CASE c \in {row.currency : row \in S}
  BY <1>1 DEF Balanced
<1>2. CASE c \notin {row.currency : row \in S}
  <2>1. On(InCurrency(S, c), "DEBIT") = {} /\ On(InCurrency(S, c), "CREDIT") = {}
    BY <1>2 DEF On, InCurrency
  <2> QED BY <2>1
<1> QED BY <1>1, <1>2

LEMMA BalancedOfDisjoint ==
  ASSUME NEW S, NEW T, S \cap T = {}, IsFiniteSet(Units(S)), IsFiniteSet(Units(T)),
         Balanced(S), Balanced(T)
  PROVE  Balanced(S \cup T)
<1>1. SUFFICES ASSUME NEW c
               PROVE  Total(On(InCurrency(S \cup T, c), "DEBIT")) =
                      Total(On(InCurrency(S \cup T, c), "CREDIT"))
  BY DEF Balanced
<1> DEFINE of(rows, d) == On(InCurrency(rows, c), d)
<1>2. ASSUME NEW d PROVE Total(of(S \cup T, d)) = Total(of(S, d)) + Total(of(T, d))
  <2>1. /\ of(S \cup T, d) = of(S, d) \cup of(T, d)
        /\ of(S, d) \cap of(T, d) = {}
        /\ of(S, d) \subseteq S /\ of(T, d) \subseteq T
    BY DEF On, InCurrency
  <2> HIDE DEF of
  <2>2. IsFiniteSet(Units(of(S, d))) /\ IsFiniteSet(Units(of(T, d)))
    BY <2>1, UnitsOfSubset
  <2> QED BY <2>1, <2>2, TotalOfDisjoint
<1> QED BY <1>2, BalancedEverywhere

LEMMA JournalStep ==
  ASSUME TypeOK, LockInv, BooksInv, [Next]_vars, Balanced(entries)
  PROVE  Balanced(entries)'
<1>1. CASE entries' = entries
  BY <1>1
<1>2. ASSUME NEW r \in Requests, Posts(r) PROVE Balanced(entries)'
  <2> DEFINE rows == EntryRows(r, input[r])
  <2>1. pc[r] = "committing" /\ entries' = entries \cup rows
    BY <1>2 DEF Posts, Commit
  <2>2. Balanced(rows)
    BY <2>1 DEF LockInv, WritersAreChecked, InTransaction
  <2>3. entries \cap rows = {}
    BY <2>1 DEF BooksInv, JournalHoldsTransactions, EntryRows, EntryRow
  <2>4. IsFiniteSet(Units(entries)) /\ IsFiniteSet(Units(rows))
    <3>1. input[r] \in Inputs /\ cursor[r] = Len(input[r]) + 1
      BY <2>1 DEF TypeOK, CallsOK, BooksInv, DeltasFollowLegs, Writing, InTransaction
    <3> QED BY <2>1, <3>1, AllRowsRead
            DEF BooksInv, JournalHoldsTransactions, DeltasFollowLegs, Writing, InTransaction
  <2> HIDE DEF rows
  <2> QED BY <2>1, <2>2, <2>3, <2>4, BalancedOfDisjoint
<1>3. \/ entries' = entries
      \/ \E r \in Requests : Posts(r)
  BY StepKinds DEF tables, SetStatus, Posts
<1> QED BY <1>1, <1>2, <1>3

\* The whole journal is double-entry: in each currency as much is debited as credited,
\* over all the transactions ever posted, with and without the trigger of the
\* database (transaction.ts:21-40, 0001_init.sql:56-88).
THEOREM JournalIsDoubleEntry == Spec => []Balanced(entries)
<1>1. Init => Balanced(entries)
  BY DEF Init, Balanced
<1>2. TypeOK /\ LockInv /\ BooksInv /\ [Next]_vars /\ Balanced(entries) => Balanced(entries)'
  BY JournalStep
<1> QED BY <1>1, <1>2, TypeCorrect, LocksProtectChecks, BooksStayConsistent, PTL DEF Spec

-----------------------------------------------------------------------------
(* The trial balance.                                                      *)

\* Every entry is in the currency of its account.
EntriesInCurrency ==
    \A row \in entries :
        /\ row.account \in DOMAIN accounts
        /\ accounts[row.account].currency = row.currency

LEMMA CurrencyStep ==
  ASSUME TypeOK, LockInv, BooksInv, [Next]_vars, EntriesInCurrency
  PROVE  EntriesInCurrency'
<1>1. CASE UNCHANGED tables
  BY <1>1 DEF tables, EntriesInCurrency
<1>2. ASSUME NEW r \in Requests, Posts(r) PROVE EntriesInCurrency'
  <2> DEFINE rows == EntryRows(r, input[r])
  <2>1. pc[r] = "committing" /\ entries' = entries \cup rows /\ UNCHANGED accounts
    BY <1>2 DEF Posts, Commit
  <2>2. PICK i \in Inputs, k \in Keys \cup {NoKey} : i = input[r] /\ k = idempotency[r]
    BY <2>1 DEF TypeOK, CallsOK
  <2>3. Books!Post(r, i, k)
    BY <1>2, <2>2, CommitIsPost DEF Posts
  <2>4. \A row \in rows : /\ row.account \in DOMAIN accounts
                          /\ accounts[row.account].currency = row.currency
    BY <2>2, <2>3, SameRules DEF Books!Post
  <2> HIDE DEF rows
  <2> QED BY <2>1, <2>4 DEF EntriesInCurrency
<1>3. ASSUME NEW a, NEW status, SetStatus(a, status) PROVE EntriesInCurrency'
  <2>1. /\ DOMAIN accounts' = DOMAIN accounts /\ UNCHANGED entries
        /\ \A b \in DOMAIN accounts : accounts'[b].currency = accounts[b].currency
    <3>1. accounts' = [accounts EXCEPT ![a].status = status] /\ UNCHANGED entries
      BY <1>3 DEF SetStatus
    <3>2. \A b \in DOMAIN accounts : accounts[b] \in AccountRow
      BY DEF TypeOK, TablesOK
    <3> QED BY <3>1, <3>2 DEF AccountRow
  <2> QED BY <2>1 DEF EntriesInCurrency
<1> QED BY <1>1, <1>2, <1>3, StepKinds DEF Posts

\* Account by account the journal accounts for the balance, and in all it is
\* double-entry; so the balances are.
LEMMA BalancesCancel ==
  ASSUME TypeOK, BooksInv, Balanced(entries), EntriesInCurrency, NEW c
  PROVE  Total(Column(c, "DEBIT")) = Total(Column(c, "CREDIT"))
<1> DEFINE A == {b \in DOMAIN balances : accounts[b].currency = c}
           journal(a, side) == On(OfAccount(entries, a), side)
           line(a, side) ==
             [account |-> a, amount |-> IF NormalBalanceSide(accounts[a].type) = side
                                          THEN balances[a].balance ELSE -balances[a].balance]
           D == [a \in A |-> Units(journal(a, "DEBIT"))]
           C == [a \in A |-> Units(journal(a, "CREDIT"))]
           P == [a \in A |-> Units({line(a, "DEBIT")})]
           N == [a \in A |-> Units({line(a, "CREDIT")})]
<1>1. ASSUME NEW a \in A
      PROVE  /\ IsFiniteSet(D[a]) /\ IsFiniteSet(C[a]) /\ IsFiniteSet(P[a]) /\ IsFiniteSet(N[a])
             /\ Cardinality(D[a]) + Cardinality(N[a]) = Cardinality(C[a]) + Cardinality(P[a])
             /\ Cardinality(P[a]) <= Cardinality(D[a]) /\ Cardinality(N[a]) <= Cardinality(C[a])
  <2> DEFINE d == Total(journal(a, "DEBIT"))
             k == Total(journal(a, "CREDIT"))
             b == balances[a].balance
  <2>1. journal(a, "DEBIT") \subseteq entries /\ journal(a, "CREDIT") \subseteq entries
    BY DEF On, OfAccount
  <2>2. IsFiniteSet(D[a]) /\ IsFiniteSet(C[a]) /\ d \in Nat /\ k \in Nat
    BY <2>1, UnitsOfSubset DEF BooksInv, JournalHoldsTransactions
  <2>3. b = BalanceFromJournal(accounts[a].type, d, k)
    BY DEF BooksInv, BalanceMatchesJournal, JournalBalance
  <2>4. Cardinality(D[a]) = d /\ Cardinality(C[a]) = k
    BY DEF Total
  <2> HIDE DEF d, k, D, C, b
  <2>5. /\ line(a, "DEBIT").amount = d - k
        /\ line(a, "CREDIT").amount = k - d
    BY <2>2, <2>3 DEF BalanceFromJournal, NormalBalanceSide, b
  <2> HIDE DEF line
  <2>6. /\ IsFiniteSet(P[a]) /\ Cardinality(P[a]) = IF d - k > 0 THEN d - k ELSE 0
        /\ IsFiniteSet(N[a]) /\ Cardinality(N[a]) = IF k - d > 0 THEN k - d ELSE 0
    <3>1. d - k \in Int /\ k - d \in Int
      BY <2>2
    <3> QED BY <2>5, <3>1, UnitsOfSigned DEF Total
  <2> HIDE DEF P, N
  <2> QED BY <2>2, <2>4, <2>6
<1>2. ASSUME NEW side
      PROVE  /\ UNION {Units(journal(a, side)) : a \in A} = Units(On(InCurrency(entries, c), side))
             /\ UNION {Units({line(a, side)}) : a \in A} = Units(Column(c, side))
  <2>1. On(InCurrency(entries, c), side) = UNION {journal(a, side) : a \in A}
    BY DEF On, InCurrency, OfAccount, EntriesInCurrency, TypeOK, TablesOK
  <2>2. UNION {Units(journal(a, side)) : a \in A} = Units(UNION {journal(a, side) : a \in A})
    BY DEF Units
  <2>3. Column(c, side) = {line(a, side) : a \in A}
    BY DEF Column
  <2> HIDE DEF line
  <2>4. UNION {Units({line(a, side)}) : a \in A} = Units({line(a, side) : a \in A})
    BY DEF Units
  <2> QED BY <2>1, <2>2, <2>3, <2>4
<1>3. /\ Whole(A, D) = Units(On(InCurrency(entries, c), "DEBIT"))
      /\ Whole(A, C) = Units(On(InCurrency(entries, c), "CREDIT"))
      /\ Whole(A, P) = Units(Column(c, "DEBIT"))
      /\ Whole(A, N) = Units(Column(c, "CREDIT"))
  BY <1>2 DEF Whole
<1>4. /\ IsFiniteSet(Whole(A, D)) /\ IsFiniteSet(Whole(A, C))
      /\ Cardinality(Whole(A, D)) = Cardinality(Whole(A, C))
  <2>1. /\ On(InCurrency(entries, c), "DEBIT") \subseteq entries
        /\ On(InCurrency(entries, c), "CREDIT") \subseteq entries
    BY DEF On, InCurrency
  <2>2. /\ IsFiniteSet(Units(On(InCurrency(entries, c), "DEBIT")))
        /\ IsFiniteSet(Units(On(InCurrency(entries, c), "CREDIT")))
    BY <2>1, UnitsOfSubset DEF BooksInv, JournalHoldsTransactions
  <2> QED BY <1>3, <2>2, BalancedEverywhere DEF Total
<1>5. \A a, b \in A : a # b => D[a] \cap D[b] = {} /\ C[a] \cap C[b] = {}
  BY DEF Units, On, OfAccount
<1>6. \A a, b \in A : a # b => P[a] \cap P[b] = {} /\ N[a] \cap N[b] = {}
  BY DEF Units
<1>7. \A a, b \in A : D[a] \cap N[b] = {} /\ C[a] \cap P[b] = {}
  <2>1. ASSUME NEW row \in entries, NEW a, NEW side PROVE row # line(a, side)
    <3>1. "line" \in DOMAIN row
      BY DEF TypeOK, TablesOK, EntryRowType
    <3>2. "line" \notin DOMAIN line(a, side)
      OBVIOUS
    <3> QED BY <3>1, <3>2
  <2> HIDE DEF line
  <2> QED BY <2>1 DEF Units, On, OfAccount
<1> HIDE DEF A, D, C, P, N
<1>8. Cardinality(Whole(A, P)) = Cardinality(Whole(A, N))
  <2>1. \A a \in A : /\ IsFiniteSet(D[a]) /\ IsFiniteSet(C[a])
                     /\ IsFiniteSet(P[a]) /\ IsFiniteSet(N[a])
    BY <1>1
  <2>2. \A a \in A :
           Cardinality(D[a]) + Cardinality(N[a]) = Cardinality(C[a]) + Cardinality(P[a])
    BY <1>1
  <2>3. \A a \in A : /\ Cardinality(P[a]) <= Cardinality(D[a])
                     /\ Cardinality(N[a]) <= Cardinality(C[a])
    BY <1>1
  <2>4. Cancelling(A, D, C, P, N)
    BY <1>4, <1>5, <1>6, <1>7, <2>1, <2>2, <2>3 DEF Cancelling
  <2> QED BY <2>4, PartsCancel
<1> QED BY <1>3, <1>8 DEF Total

\* In each currency the debit and the credit balances have the same total: what the
\* legs, their currencies and the balance updates are checked for agrees
\* (transaction.ts:21-40, transactions.service.ts:80-136).
THEOREM TrialBalanceHolds == Spec => []TrialBalance
<1>1. Init => EntriesInCurrency
  BY DEF Init, EntriesInCurrency
<1>2. TypeOK /\ LockInv /\ BooksInv /\ [Next]_vars /\ EntriesInCurrency => EntriesInCurrency'
  BY CurrencyStep
<1>3. TypeOK /\ BooksInv /\ Balanced(entries) /\ EntriesInCurrency => TrialBalance
  BY BalancesCancel DEF TrialBalance
<1> QED BY <1>1, <1>2, <1>3, TypeCorrect, LocksProtectChecks, BooksStayConsistent,
           JournalIsDoubleEntry, PTL DEF Spec
=============================================================================
