------------------------- MODULE BalanceReadersProofs -------------------------
(***************************************************************************)
(* Proofs about BalanceReaders, for any number of postings, of creators,   *)
(* of overlapping runs of the job and of calls, and any books: what a      *)
(* reader that takes its three statements one after another, with anything *)
(* committed in between, can still rely on.                                *)
(***************************************************************************)
EXTENDS BalanceReaders, LedgerDomainProofs, SequenceTheorems

Labels == {"idle", "account", "balance", "journal", "reporting", "answered", "gone", "dead"}
AtWork == {"account", "balance", "journal"}

Answer == [status : Int, balance : Int, journal_balance : Int]

\* What Figures may be.
FigureSet == {<<>>} \cup (Int \X Int)

\* An account and its balance come and stay together, and every sum is finite.
TablesInv ==
    /\ DOMAIN books \subseteq Accounts /\ DOMAIN balance = DOMAIN books
    /\ \A a \in DOMAIN books : balance[a] \in Int
    /\ IsFiniteSet(Units(journal))

InFlight(k) == creating[k].at \in {"balance", "committing"}

\* The ids of the accounts that are being created are new, and differ.
CreatingInv ==
    /\ creating \in [Creators -> [at : {"none", "balance", "committing", "done"}, id : Int,
                                  type : AccountTypes \cup {"none"},
                                  currency : Currencies \cup {"none"}]]
    /\ \A k \in Creators : InFlight(k) => creating[k].id \in Accounts \ DOMAIN books
    /\ \A k, l \in Creators : InFlight(k) /\ InFlight(l) /\ k # l => creating[k].id # creating[l].id

ReaderTypes ==
    /\ pc \in [Readers -> Labels]
    /\ accountIds \in [Readers -> SUBSET Accounts]
    /\ accountId \in [Readers -> Int]
    /\ materialised \in [Readers -> Int]
    /\ DOMAIN drifts = Readers
    /\ response \in [Readers -> Answer]
    /\ touched \in [Readers -> SUBSET Accounts]
    /\ seen \in [Readers -> Seq(FigureSet)]

ReaderOK(r) ==
    /\ DOMAIN drifts[r] \subseteq DOMAIN books
    /\ pc[r] \in {"balance", "journal"} => accountId[r] \in accountIds[r] \cap DOMAIN books
    /\ response[r].status \in {0, 200, 404, 500}

\* The answer of a caller, against what it saw.
Truthful(c) ==
    /\ response[c].status = 404 => seen[c][1] = <<>>
    /\ response[c].status = 200 =>
         \E i, j \in {n \in DOMAIN seen[c] : seen[c][n] # <<>>} :
            /\ i <= j
            /\ seen[c][i][1] = response[c].balance
            /\ seen[c][j][2] = response[c].journal_balance

\* A caller reads one account, whose latest figures are the last it saw; the balance
\* that it holds is one of those it saw.
CallerOK(c) ==
    /\ pc[c] \notin {"reporting", "dead"}
    /\ pc[c] # "answered" => response[c] = Nothing
    /\ pc[c] \in AtWork =>
         /\ seen[c] # <<>>
         /\ \E a \in Accounts : /\ accountIds[c] = {a}
                                /\ seen[c][Len(seen[c])] = Figures(a)
                                /\ seen[c][1] # <<>> => a \in DOMAIN books
    /\ pc[c] = "journal" =>
         \E i \in DOMAIN seen[c] : seen[c][i] # <<>> /\ seen[c][i][1] = materialised[c]
    /\ pc[c] = "answered" => Truthful(c)

Judged(v, a) ==
    /\ a \in DOMAIN drifts[v] <=> Drifted(a)
    /\ a \in DOMAIN drifts[v] => drifts[v][a] = balance[a] - Implied(a)

\* Of the accounts that nobody touched, a verifier has judged rightly those it is done
\* with, and nothing is said yet of the others; of such a one its balance is current.
VerifierOK(v) ==
    /\ pc[v] \notin {"answered", "gone"}
    /\ pc[v] \in {"idle", "dead"} => drifts[v] = NoRows
    /\ pc[v] = "reporting" => accountIds[v] = {}
    /\ pc[v] \notin {"idle", "dead"} =>
         /\ accountIds[v] \subseteq DOMAIN books
         /\ \A a \in DOMAIN books \ touched[v] :
              /\ a \in accountIds[v] => a \notin DOMAIN drifts[v]
              /\ a \notin accountIds[v] => Judged(v, a)
    /\ pc[v] = "journal" /\ accountId[v] \notin touched[v] =>
         materialised[v] = balance[accountId[v]]

OK(r) ==
    /\ ReaderOK(r)
    /\ r \in Callers => CallerOK(r)
    /\ r \in Verifiers => VerifierOK(r)

\* The inductive invariant.
ReadersInv ==
    /\ TablesInv
    /\ CreatingInv
    /\ ReaderTypes
    /\ \A r \in Readers : OK(r)

-----------------------------------------------------------------------------
(* Figures, and the rules of Ledger.                                       *)

LEMMA FiguresType ==
    ASSUME TablesInv, NEW a
    PROVE  /\ Figures(a) \in FigureSet
           /\ Figures(a) # <<>> <=> a \in DOMAIN books
           /\ a \in DOMAIN books => /\ Figures(a) = <<balance[a], Implied(a)>>
                                   /\ balance[a] \in Int /\ Implied(a) \in Int
<1>1. CASE a \in DOMAIN books
  <2>1. Figures(a) = <<balance[a], Implied(a)>>
    BY <1>1 DEF TablesInv, Figures
  <2>2. OfAccount(journal, a) \subseteq journal
    BY DEF OfAccount
  <2>3. Implied(a) \in Int
    BY <2>2, UnitsOfSubset, JournalBalanceType DEF TablesInv, Implied
  <2>4. balance[a] \in Int
    BY <1>1 DEF TablesInv
  <2>5. Figures(a) \in Int \X Int /\ Figures(a) # <<>>
    BY <2>1, <2>3, <2>4
  <2>6. QED
    BY <1>1, <2>1, <2>3, <2>4, <2>5 DEF FigureSet
<1>2. CASE a \notin DOMAIN books
  BY <1>2 DEF Figures, FigureSet
<1>3. QED
  BY <1>1, <1>2

\* Ledger reads the rules of LedgerDomain as this module does.
LEMMA SameRules ==
    /\ Books!NoRows = NoRows
    /\ \A t, i : Books!EntryRows(t, i) = EntryRows(t, i)
    /\ \A S, a : Books!OfAccount(S, a) = OfAccount(S, a)
    /\ \A t, S : Books!JournalBalance(t, S) = JournalBalance(t, S)
    /\ \A m, k, v : Books!Put(m, k, v) = Put(m, k, v)
<1>1. Books!NoRows = NoRows
  BY DEF Books!NoRows, NoRows
<1>2. \A t, i, j : Books!EntryRow(t, i, j) = EntryRow(t, i, j)
  BY DEF Books!EntryRow, EntryRow
<1>3. \A t, i : Books!EntryRows(t, i) = EntryRows(t, i)
  BY <1>2 DEF Books!EntryRows, EntryRows
<1>4. \A S : Books!Total(S) = Total(S)
  BY DEF Books!Total, Total, Books!Units, Units, Books!Cardinality, Cardinality
<1>5. \A S, d : Books!On(S, d) = On(S, d)
  BY DEF Books!On, On
<1>6. \A S, a : Books!OfAccount(S, a) = OfAccount(S, a)
  BY DEF Books!OfAccount, OfAccount
<1>7. \A t, d, c : Books!BalanceFromJournal(t, d, c) = BalanceFromJournal(t, d, c)
  BY DEF Books!BalanceFromJournal, BalanceFromJournal, Books!NormalBalanceSide,
         NormalBalanceSide
<1>8. \A t, S : Books!JournalBalance(t, S) = JournalBalance(t, S)
  BY <1>4, <1>5, <1>7 DEF Books!JournalBalance, JournalBalance
<1>9. \A m, k, v : Books!Put(m, k, v) = Put(m, k, v)
  BY DEF Books!Put, Put
<1>10. QED
  BY <1>1, <1>3, <1>6, <1>8, <1>9

LEMMA Statuses == StatusOf("account_not_found") = 404 /\ StatusOf("internal_error") = 500
BY DEF StatusOf, NotFound, Conflict, BadRequest, Unprocessable

LEMMA ReadersInit ==
    ASSUME Init
    PROVE  ReadersInv
<1>1. /\ books = Chart /\ balance = [a \in DOMAIN Chart |-> 0] /\ journal = {}
  BY DEF Init, Books!Init
<1>2. TablesInv
  BY <1>1, ChartHoldsAccounts, UnitsOfFew DEF TablesInv
<1>3. CreatingInv
  BY DEF Init, CreatingInv, InFlight, NotCreating, NoAccount
<1>4. ReaderTypes
  BY EmptySeq DEF Init, ReaderTypes, Answer, Labels, NoAccount, Nothing
<1>5. ASSUME NEW r \in Readers PROVE OK(r)
  <2>1. pc[r] = "idle" /\ response[r] = Nothing /\ drifts[r] = NoRows
    BY DEF Init
  <2>2. DOMAIN NoRows = {} /\ Nothing.status = 0
    BY DEF NoRows, Nothing
  <2>3. QED
    BY <2>1, <2>2 DEF OK, ReaderOK, CallerOK, VerifierOK, AtWork
<1>6. QED
  BY <1>2, <1>3, <1>4, <1>5 DEF ReadersInv

-----------------------------------------------------------------------------
(* Steps of the readers: they leave the tables and one another alone.      *)

Same(q) ==
    /\ pc'[q] = pc[q] /\ accountIds'[q] = accountIds[q] /\ accountId'[q] = accountId[q]
    /\ materialised'[q] = materialised[q] /\ drifts'[q] = drifts[q]
    /\ response'[q] = response[q] /\ touched'[q] = touched[q] /\ seen'[q] = seen[q]

LEMMA FiguresStay ==
    ASSUME UNCHANGED tables
    PROVE  \A a : Figures(a)' = Figures(a) /\ Implied(a)' = Implied(a)
BY DEF tables, Figures, Implied

LEMMA OthersStay ==
    ASSUME UNCHANGED tables, NEW q \in Readers, OK(q), Same(q)
    PROVE  OK(q)'
<1>1. UNCHANGED <<books, balance, journal, keys>>
  BY DEF tables
<1>2. ReaderOK(q)'
  BY <1>1 DEF OK, ReaderOK, Same
<1>3. q \in Callers => CallerOK(q)'
  <2>1. SUFFICES ASSUME q \in Callers PROVE CallerOK(q)'
    OBVIOUS
  <2>2. CallerOK(q)
    BY <2>1 DEF OK
  <2>3. Truthful(q)' <=> Truthful(q)
    BY DEF Truthful, Same
  <2>4. \A a : Figures(a)' = Figures(a)
    BY FiguresStay
  <2>5. QED
    BY <1>1, <2>2, <2>3, <2>4 DEF CallerOK, Same, Nothing
<1>4. q \in Verifiers => VerifierOK(q)'
  <2>1. SUFFICES ASSUME q \in Verifiers PROVE VerifierOK(q)'
    OBVIOUS
  <2>2. VerifierOK(q)
    BY <2>1 DEF OK
  <2>3. \A a : Judged(q, a)' <=> Judged(q, a)
    BY <1>1, FiguresStay DEF Judged, Drifted, Same
  <2>4. QED
    BY <1>1, <2>2, <2>3 DEF VerifierOK, Same
<1>5. QED
  BY <1>2, <1>3, <1>4 DEF OK

\* So a step of one reader need only be looked at for that reader.
LEMMA OneReader ==
    ASSUME ReadersInv, UNCHANGED <<tables, creating>>, NEW r \in Readers,
           \A q \in Readers : q # r => Same(q),
           ReaderTypes', OK(r)'
    PROVE  ReadersInv'
<1>1. TablesInv'
  BY DEF ReadersInv, TablesInv, tables
<1>2. CreatingInv'
  BY DEF ReadersInv, CreatingInv, InFlight, tables
<1>3. \A q \in Readers : OK(q)'
  BY OthersStay DEF ReadersInv
<1>4. QED
  BY <1>1, <1>2, <1>3 DEF ReadersInv

LEMMA KindsDiffer ==
    /\ \A v \in Verifiers : v \in Readers /\ v \notin Callers
    /\ \A c \in Callers : c \in Readers /\ c \notin Verifiers
    /\ \A r \in Readers : r \in Verifiers \/ r \in Callers
BY ReadersDiffer DEF Readers

\* An answer keeps its type when its status is set.
LEMMA AnswerType ==
    ASSUME NEW answer \in Answer, NEW status \in Int
    PROVE  [answer EXCEPT !.status = status] \in Answer
BY DEF Answer

\* A verifier that begins has everything before it.
LEMMA StartVerifyKeeps ==
    ASSUME ReadersInv, NEW v, StartVerify(v)
    PROVE  ReadersInv'
<1>1. /\ v \in Verifiers /\ v \in Readers /\ v \notin Callers /\ pc[v] \in {"idle", "dead"}
      /\ UNCHANGED <<tables, creating, accountId, materialised, drifts, response, history>>
      /\ accountIds' = [accountIds EXCEPT ![v] = DOMAIN books]
      /\ pc' = [pc EXCEPT ![v] = IF DOMAIN books = {} THEN "reporting" ELSE "account"]
  BY KindsDiffer DEF StartVerify, Goto
<1>2. UNCHANGED books
  BY <1>1 DEF tables
<1>3. TablesInv /\ ReaderTypes /\ OK(v)
  BY <1>1 DEF ReadersInv
<1>4. ReaderTypes'
  BY <1>1, <1>3 DEF ReaderTypes, TablesInv, Labels, history
<1>5. /\ accountIds'[v] = DOMAIN books /\ drifts'[v] = NoRows
      /\ pc'[v] \in {"reporting", "account"} /\ (pc'[v] = "reporting" => DOMAIN books = {})
  BY <1>1, <1>3 DEF ReaderTypes, OK, VerifierOK
<1>6. ReaderOK(v)'
  BY <1>1, <1>2, <1>3, <1>5 DEF OK, ReaderOK, NoRows
<1>7. VerifierOK(v)'
  BY <1>2, <1>5 DEF VerifierOK, NoRows
<1>8. \A q \in Readers : q # v => Same(q)
  BY <1>1, <1>3 DEF Same, ReaderTypes, history
<1>9. QED
  BY <1>1, <1>4, <1>6, <1>7, <1>8, OneReader DEF OK

\* A caller begins with the figures of its account.
LEMMA StartBalanceKeeps ==
    ASSUME ReadersInv, NEW c, StartBalance(c)
    PROVE  ReadersInv'
<1>1. /\ c \in Callers /\ c \in Readers /\ c \notin Verifiers /\ pc[c] = "idle"
      /\ UNCHANGED <<tables, creating, accountId, materialised, drifts, response, touched>>
      /\ pc' = [pc EXCEPT ![c] = "account"]
  BY KindsDiffer DEF StartBalance, Goto
<1>2. PICK a \in Accounts : /\ accountIds' = [accountIds EXCEPT ![c] = {a}]
                            /\ seen' = [seen EXCEPT ![c] = <<Figures(a)>>]
  BY DEF StartBalance
<1>3. TablesInv /\ ReaderTypes /\ OK(c)
  BY <1>1 DEF ReadersInv
<1>4. Figures(a) \in FigureSet /\ (Figures(a) # <<>> <=> a \in DOMAIN books)
  BY <1>3, FiguresType
<1>5. <<Figures(a)>> \in Seq(FigureSet) /\ <<Figures(a)>> # <<>>
      /\ Len(<<Figures(a)>>) = 1 /\ <<Figures(a)>>[1] = Figures(a)
  BY <1>4
<1>6. ReaderTypes'
  BY <1>1, <1>2, <1>3, <1>5 DEF ReaderTypes, Labels
<1>7. /\ pc'[c] = "account" /\ accountIds'[c] = {a} /\ seen'[c] = <<Figures(a)>>
      /\ response'[c] = Nothing /\ drifts'[c] = drifts[c]
  BY <1>1, <1>2, <1>3 DEF ReaderTypes, OK, CallerOK
<1>8. Figures(a)' = Figures(a) /\ books' = books
  BY <1>1, FiguresStay DEF tables
<1>9. ReaderOK(c)'
  BY <1>1, <1>3, <1>7, <1>8 DEF OK, ReaderOK
<1>10. CallerOK(c)'
  BY <1>4, <1>5, <1>7, <1>8 DEF CallerOK, AtWork, Nothing
<1>11. \A q \in Readers : q # c => Same(q)
  BY <1>1, <1>2, <1>3 DEF Same, ReaderTypes
<1>12. QED
  BY <1>1, <1>6, <1>9, <1>10, <1>11, OneReader DEF OK

\* An account that is missing when a caller asks for it was missing when the call came;
\* no verifier misses one.
LEMMA FindByIdKeeps ==
    ASSUME ReadersInv, NEW r \in Readers, FindById(r)
    PROVE  ReadersInv'
<1>1. /\ pc[r] = "account"
      /\ UNCHANGED <<tables, creating, materialised, drifts, history>>
  BY DEF FindById
<1>2. PICK a \in accountIds[r] :
         IF a \in DOMAIN books
           THEN /\ accountId' = [accountId EXCEPT ![r] = a]
                /\ Goto(r, "balance")
                /\ UNCHANGED <<accountIds, response>>
           ELSE Missing(r, a) /\ UNCHANGED accountId
  BY DEF FindById
<1>3. TablesInv /\ ReaderTypes /\ OK(r)
  BY DEF ReadersInv
<1>4. books' = books /\ (\A b : Figures(b)' = Figures(b) /\ Implied(b)' = Implied(b))
      /\ balance' = balance
  BY <1>1, FiguresStay DEF tables
<1>5. a \in Accounts /\ a \in Int
  BY <1>3, AccountsAreOrdered DEF ReaderTypes
<1>6. CASE a \in DOMAIN books
  <2>1. /\ accountId' = [accountId EXCEPT ![r] = a]
        /\ pc' = [pc EXCEPT ![r] = "balance"]
        /\ UNCHANGED <<accountIds, response>>
    BY <1>2, <1>6 DEF Goto
  <2>2. ReaderTypes'
    BY <1>1, <1>3, <1>5, <2>1 DEF ReaderTypes, Labels, history
  <2>3. /\ accountId'[r] = a /\ pc'[r] = "balance" /\ drifts'[r] = drifts[r]
        /\ accountIds'[r] = accountIds[r] /\ response'[r] = response[r]
        /\ seen'[r] = seen[r] /\ touched'[r] = touched[r]
    BY <1>1, <1>3, <2>1 DEF ReaderTypes, history
  <2>4. ReaderOK(r)'
    BY <1>3, <1>4, <1>6, <2>3 DEF OK, ReaderOK
  <2>5. r \in Callers => CallerOK(r)'
    BY <1>1, <1>3, <1>4, <2>3 DEF OK, CallerOK, AtWork, Nothing
  <2>6. r \in Verifiers => VerifierOK(r)'
    BY <1>1, <1>3, <1>4, <2>3 DEF OK, VerifierOK, Judged, Drifted
  <2>7. \A q \in Readers : q # r => Same(q)
    BY <1>1, <1>3, <2>1 DEF Same, ReaderTypes, history
  <2>8. QED
    BY <1>1, <2>2, <2>4, <2>5, <2>6, <2>7, OneReader DEF OK
<1>7. CASE a \notin DOMAIN books
  <2>1. r \in Callers /\ r \notin Verifiers
    BY <1>1, <1>3, <1>7, KindsDiffer DEF OK, VerifierOK
  <2>2. /\ pc' = [pc EXCEPT ![r] = "answered"]
        /\ response' = [response EXCEPT ![r].status = 404]
        /\ UNCHANGED <<accountIds, accountId>>
    BY <1>2, <1>7, <2>1, Statuses DEF Missing, Goto
  <2>3. ReaderTypes'
    <3>1. response \in [Readers -> Answer] /\ response[r] \in Answer
      BY <1>3 DEF ReaderTypes
    <3> DEFINE answer == [response[r] EXCEPT !.status = 404]
    <3>2. answer \in Answer /\ response' = [response EXCEPT ![r] = answer]
      BY <2>2, <3>1, AnswerType
    <3> HIDE DEF answer
    <3>3. response' \in [Readers -> Answer]
      BY <3>1, <3>2
    <3>4. QED
      BY <1>1, <1>3, <2>2, <3>3 DEF ReaderTypes, Labels, history
  <2>4. /\ pc'[r] = "answered" /\ response'[r].status = 404 /\ drifts'[r] = drifts[r]
        /\ seen'[r] = seen[r]
    BY <1>1, <1>3, <2>2 DEF ReaderTypes, history
  <2>5. ReaderOK(r)'
    BY <1>3, <1>4, <2>4 DEF OK, ReaderOK
  <2>6. seen[r][1] = <<>>
    BY <1>1, <1>3, <1>7, <2>1 DEF OK, CallerOK, AtWork
  <2>7. CallerOK(r)'
    BY <2>4, <2>6 DEF CallerOK, Truthful, AtWork
  <2>8. \A q \in Readers : q # r => Same(q)
    BY <1>1, <1>3, <2>2 DEF Same, ReaderTypes, history
  <2>9. QED
    BY <1>1, <2>1, <2>3, <2>5, <2>7, <2>8, OneReader DEF OK
<1>8. QED
  BY <1>6, <1>7

\* The balance read is there, and the current one.
LEMMA GetBalanceKeeps ==
    ASSUME ReadersInv, NEW r \in Readers, GetBalance(r)
    PROVE  ReadersInv'
<1> DEFINE a == accountId[r]
<1>1. TablesInv /\ ReaderTypes /\ OK(r)
  BY DEF ReadersInv
<1>2. pc[r] = "balance" /\ UNCHANGED <<tables, creating, accountId, drifts, history>>
  BY DEF GetBalance
<1>3. a \in accountIds[r] /\ a \in DOMAIN books /\ a \in DOMAIN balance /\ balance[a] \in Int
  BY <1>1, <1>2 DEF OK, ReaderOK, TablesInv
<1>4. /\ materialised' = [materialised EXCEPT ![r] = balance[a]]
      /\ pc' = [pc EXCEPT ![r] = "journal"]
      /\ UNCHANGED <<accountIds, response>>
  BY <1>3 DEF GetBalance, Goto
<1>5. books' = books /\ balance' = balance
      /\ (\A b : Figures(b)' = Figures(b) /\ Implied(b)' = Implied(b))
  BY <1>2, FiguresStay DEF tables
<1>6. ReaderTypes'
  BY <1>1, <1>2, <1>3, <1>4 DEF ReaderTypes, Labels, history
<1>7. /\ accountId'[r] = a /\ pc'[r] = "journal" /\ drifts'[r] = drifts[r]
      /\ accountIds'[r] = accountIds[r] /\ response'[r] = response[r]
      /\ seen'[r] = seen[r] /\ touched'[r] = touched[r] /\ materialised'[r] = balance[a]
  BY <1>1, <1>2, <1>4 DEF ReaderTypes, history
<1>8. ReaderOK(r)'
  BY <1>1, <1>3, <1>5, <1>7 DEF OK, ReaderOK
<1>9. ASSUME r \in Callers PROVE CallerOK(r)'
  <2>1. CallerOK(r) /\ pc[r] \in AtWork
    BY <1>1, <1>2, <1>9 DEF OK, AtWork
  <2>2. /\ seen[r] # <<>> /\ accountIds[r] = {a} /\ seen[r][Len(seen[r])] = Figures(a)
    BY <1>3, <2>1 DEF CallerOK
  <2>3. Figures(a) = <<balance[a], Implied(a)>> /\ Figures(a) # <<>>
    BY <1>1, <1>3, FiguresType
  <2>4. seen[r] \in Seq(FigureSet) /\ Len(seen[r]) \in DOMAIN seen[r]
    <3>1. seen[r] \in Seq(FigureSet)
      BY <1>1 DEF ReaderTypes
    <3>2. QED
      BY <2>2, <3>1, EmptySeq, LenProperties
  <2>5. \E i \in DOMAIN seen[r] : seen[r][i] # <<>> /\ seen[r][i][1] = balance[a]
    <3>1. seen[r][Len(seen[r])] # <<>> /\ seen[r][Len(seen[r])][1] = balance[a]
      BY <2>2, <2>3
    <3>2. QED
      BY <2>4, <3>1
  <2>6. QED
    BY <1>5, <1>7, <2>1, <2>5 DEF CallerOK, AtWork, Nothing
<1>10. r \in Verifiers => VerifierOK(r)'
  BY <1>1, <1>2, <1>5, <1>7 DEF OK, VerifierOK, Judged, Drifted
<1>11. \A q \in Readers : q # r => Same(q)
  BY <1>1, <1>2, <1>4 DEF Same, ReaderTypes, history
<1>12. QED
  BY <1>2, <1>6, <1>8, <1>9, <1>10, <1>11, OneReader DEF OK

\* What nobody touched since the run began is judged by figures that are current.
LEMMA CompareJournalKeeps ==
    ASSUME ReadersInv, NEW v, CompareJournal(v)
    PROVE  ReadersInv'
<1> DEFINE a == accountId[v]
           delta == materialised[v] - Implied(a)
           differs == Differs(materialised[v], Implied(a))
<1>1. /\ v \in Verifiers /\ v \in Readers /\ v \notin Callers /\ pc[v] = "journal"
      /\ UNCHANGED <<tables, creating, accountId, materialised, response, history>>
      /\ drifts' = IF differs THEN [drifts EXCEPT ![v] = Put(@, a, delta)] ELSE drifts
      /\ accountIds' = [accountIds EXCEPT ![v] = @ \ {a}]
      /\ pc' = [pc EXCEPT ![v] = IF accountIds[v] = {a} THEN "reporting" ELSE "account"]
  BY KindsDiffer DEF CompareJournal, NextAccount, Goto
<1>2. TablesInv /\ ReaderTypes /\ OK(v)
  BY <1>1 DEF ReadersInv
<1>3. VerifierOK(v) /\ ReaderOK(v)
  BY <1>1, <1>2 DEF OK
<1>4. a \in accountIds[v] /\ a \in DOMAIN books
  BY <1>1, <1>3 DEF ReaderOK
<1>5. books' = books /\ balance' = balance
      /\ (\A b : Figures(b)' = Figures(b) /\ Implied(b)' = Implied(b))
  BY <1>1, FiguresStay DEF tables
<1>6. /\ DOMAIN drifts'[v] = IF differs THEN DOMAIN drifts[v] \cup {a} ELSE DOMAIN drifts[v]
      /\ \A b \in DOMAIN drifts[v] : b # a => drifts'[v][b] = drifts[v][b]
      /\ differs => drifts'[v][a] = delta
  <2>1. drifts'[v] = IF differs THEN Put(drifts[v], a, delta) ELSE drifts[v]
    BY <1>1, <1>2 DEF ReaderTypes
  <2> DEFINE put == Put(drifts[v], a, delta)
  <2>2. /\ DOMAIN put = DOMAIN drifts[v] \cup {a}
        /\ \A b \in DOMAIN drifts[v] \cup {a} : put[b] = IF b = a THEN delta ELSE drifts[v][b]
    BY DEF Put
  <2>3. drifts'[v] = IF differs THEN put ELSE drifts[v]
    BY <2>1
  <2> HIDE DEF put, delta, differs
  <2>4. QED
    BY <2>2, <2>3
<1>7. /\ accountIds'[v] = accountIds[v] \ {a} /\ touched'[v] = touched[v]
      /\ pc'[v] = IF accountIds[v] = {a} THEN "reporting" ELSE "account"
      /\ response'[v] = response[v]
  BY <1>1, <1>2 DEF ReaderTypes, history
<1>8. ReaderTypes'
  BY <1>1, <1>2 DEF ReaderTypes, Labels, history
<1>9. ReaderOK(v)'
  BY <1>3, <1>4, <1>5, <1>6, <1>7 DEF ReaderOK
<1>10. ASSUME NEW b \in DOMAIN books \ touched[v]
       PROVE  /\ b \in accountIds'[v] => b \notin DOMAIN drifts'[v]
              /\ b \notin accountIds'[v] =>
                   /\ b \in DOMAIN drifts'[v] <=> Drifted(b)
                   /\ b \in DOMAIN drifts'[v] => drifts'[v][b] = balance[b] - Implied(b)
  <2>1. /\ b \in accountIds[v] => b \notin DOMAIN drifts[v]
        /\ b \notin accountIds[v] =>
             /\ b \in DOMAIN drifts[v] <=> Drifted(b)
             /\ b \in DOMAIN drifts[v] => drifts[v][b] = balance[b] - Implied(b)
    BY <1>1, <1>3 DEF VerifierOK, Judged
  <2>2. CASE b = a
    <3>1. materialised[v] = balance[a]
      BY <1>1, <1>3, <2>2 DEF VerifierOK
    <3>2. differs <=> Drifted(a)
      BY <3>1 DEF Differs, Drifted
    <3>3. QED
      BY <1>4, <1>6, <1>7, <2>1, <2>2, <3>1, <3>2
  <2>3. CASE b # a
    BY <1>6, <1>7, <2>1, <2>3
  <2>4. QED
    BY <2>2, <2>3
<1> HIDE DEF differs, delta
<1>11. VerifierOK(v)'
  <2>1. accountIds'[v] \subseteq DOMAIN books
    BY <1>1, <1>3, <1>7 DEF VerifierOK
  <2>2. pc'[v] \in {"reporting", "account"} /\ (pc'[v] = "reporting" => accountIds'[v] = {})
    BY <1>7
  <2>3. QED
    BY <1>5, <1>7, <1>10, <2>1, <2>2 DEF VerifierOK, Judged, Drifted
<1>12. \A q \in Readers : q # v => Same(q)
  BY <1>1, <1>2 DEF Same, ReaderTypes, history
<1>13. QED
  BY <1>1, <1>8, <1>9, <1>11, <1>12, OneReader DEF OK

\* The journal is read last: its sum is current, the balance may be of any time since.
LEMMA AnswerBalanceKeeps ==
    ASSUME ReadersInv, NEW c, AnswerBalance(c)
    PROVE  ReadersInv'
<1> DEFINE a == accountId[c]
           answer == [status |-> 200, balance |-> materialised[c], journal_balance |-> Implied(a)]
<1>1. /\ c \in Callers /\ c \in Readers /\ c \notin Verifiers /\ pc[c] = "journal"
      /\ UNCHANGED <<tables, creating, accountIds, accountId, materialised, drifts, history>>
      /\ response' = [response EXCEPT ![c] = answer]
      /\ pc' = [pc EXCEPT ![c] = "answered"]
  BY KindsDiffer DEF AnswerBalance, Goto
<1>2. TablesInv /\ ReaderTypes /\ ReaderOK(c) /\ CallerOK(c)
  BY <1>1 DEF ReadersInv, OK
<1>3. a \in accountIds[c] /\ a \in DOMAIN books
  BY <1>1, <1>2 DEF ReaderOK
<1>4. Figures(a) = <<balance[a], Implied(a)>> /\ Figures(a) # <<>> /\ Implied(a) \in Int
  BY <1>2, <1>3, FiguresType
<1>5. /\ seen[c] # <<>> /\ seen[c][Len(seen[c])] = Figures(a)
      /\ \E i \in DOMAIN seen[c] : seen[c][i] # <<>> /\ seen[c][i][1] = materialised[c]
  BY <1>1, <1>2, <1>3 DEF CallerOK, AtWork
<1>6. DOMAIN seen[c] = 1 .. Len(seen[c]) /\ Len(seen[c]) \in Nat \ {0}
  <2>1. seen[c] \in Seq(FigureSet)
    BY <1>1, <1>2 DEF ReaderTypes
  <2>2. QED
    BY <1>5, <2>1, EmptySeq, LenProperties
<1>7. PICK i \in DOMAIN seen[c] : seen[c][i] # <<>> /\ seen[c][i][1] = materialised[c]
  BY <1>5
<1>8. LET j == Len(seen[c])
      IN  /\ j \in DOMAIN seen[c] /\ seen[c][j] # <<>> /\ i <= j
          /\ seen[c][j][2] = Implied(a)
  BY <1>4, <1>5, <1>6
<1>9. answer \in Answer /\ answer.status = 200 /\ answer.balance = materialised[c]
      /\ answer.journal_balance = Implied(a)
  <2>1. materialised[c] \in Int
    BY <1>1, <1>2 DEF ReaderTypes
  <2>2. QED
    BY <1>4, <2>1 DEF Answer
<1> HIDE DEF answer
<1>10. ReaderTypes'
  BY <1>1, <1>2, <1>9 DEF ReaderTypes, Labels, history
<1>11. /\ response'[c] = answer /\ pc'[c] = "answered" /\ seen'[c] = seen[c]
       /\ drifts'[c] = drifts[c] /\ books' = books
  BY <1>1, <1>2 DEF ReaderTypes, history, tables
<1>12. ReaderOK(c)'
  BY <1>2, <1>9, <1>11 DEF ReaderOK
<1>13. Truthful(c)'
  BY <1>7, <1>8, <1>9, <1>11 DEF Truthful
<1>14. CallerOK(c)'
  BY <1>11, <1>13 DEF CallerOK, AtWork
<1>15. \A q \in Readers : q # c => Same(q)
  BY <1>1, <1>2 DEF Same, ReaderTypes, history
<1>16. QED
  BY <1>1, <1>10, <1>12, <1>14, <1>15, OneReader DEF OK

LEMMA LeaveKeeps ==
    ASSUME ReadersInv, NEW c \in Readers, Leave(c)
    PROVE  ReadersInv'
<1>1. TablesInv /\ ReaderTypes /\ OK(c)
  BY DEF ReadersInv
<1>2. /\ pc[c] = "answered"
      /\ pc' = [pc EXCEPT ![c] = "gone"]
      /\ accountIds' = [accountIds EXCEPT ![c] = {}]
      /\ accountId' = [accountId EXCEPT ![c] = NoAccount]
      /\ materialised' = [materialised EXCEPT ![c] = 0]
      /\ response' = [response EXCEPT ![c] = Nothing]
      /\ seen' = [seen EXCEPT ![c] = <<>>]
      /\ UNCHANGED <<tables, creating, drifts, touched>>
  BY DEF Leave, Goto
<1>3. c \notin Verifiers
  BY <1>1, <1>2 DEF OK, VerifierOK
<1>4. <<>> \in Seq(FigureSet) /\ Nothing \in Answer /\ NoAccount \in Int /\ Nothing.status = 0
  BY EmptySeq DEF Nothing, Answer, NoAccount
<1>5. ReaderTypes'
  BY <1>1, <1>2, <1>4 DEF ReaderTypes, Labels
<1>6. pc'[c] = "gone" /\ response'[c] = Nothing /\ drifts'[c] = drifts[c] /\ books' = books
  BY <1>1, <1>2 DEF ReaderTypes, tables
<1>7. ReaderOK(c)'
  BY <1>1, <1>4, <1>6 DEF OK, ReaderOK
<1>8. CallerOK(c)'
  BY <1>6 DEF CallerOK, AtWork, Nothing
<1>9. \A q \in Readers : q # c => Same(q)
  BY <1>1, <1>2 DEF Same, ReaderTypes
<1>10. QED
  BY <1>2, <1>3, <1>5, <1>7, <1>8, <1>9, OneReader DEF OK

LEMMA ReportKeeps ==
    ASSUME ReadersInv, NEW v, Report(v)
    PROVE  ReadersInv'
<1>1. /\ v \in Verifiers /\ v \in Readers /\ v \notin Callers
      /\ pc' = [pc EXCEPT ![v] = "idle"]
      /\ accountId' = [accountId EXCEPT ![v] = NoAccount]
      /\ materialised' = [materialised EXCEPT ![v] = 0]
      /\ drifts' = [drifts EXCEPT ![v] = NoRows]
      /\ touched' = [touched EXCEPT ![v] = {}]
      /\ UNCHANGED <<tables, creating, accountIds, response, seen>>
  BY KindsDiffer DEF Report, Goto
<1>2. TablesInv /\ ReaderTypes /\ OK(v)
  BY <1>1 DEF ReadersInv
<1>3. ReaderTypes'
  BY <1>1, <1>2 DEF ReaderTypes, Labels, NoAccount
<1>4. pc'[v] = "idle" /\ drifts'[v] = NoRows /\ response'[v] = response[v] /\ DOMAIN NoRows = {}
  BY <1>1, <1>2 DEF ReaderTypes, NoRows
<1>5. ReaderOK(v)'
  BY <1>2, <1>4 DEF OK, ReaderOK
<1>6. VerifierOK(v)'
  BY <1>4 DEF VerifierOK, NoRows
<1>7. \A q \in Readers : q # v => Same(q)
  BY <1>1, <1>2 DEF Same, ReaderTypes
<1>8. QED
  BY <1>1, <1>3, <1>5, <1>6, <1>7, OneReader DEF OK

LEMMA StatementFailsKeeps ==
    ASSUME ReadersInv, NEW c, StatementFails(c)
    PROVE  ReadersInv'
<1> DEFINE answer == [response[c] EXCEPT !.status = 500]
<1>1. /\ c \in Callers /\ c \in Readers /\ c \notin Verifiers
      /\ pc' = [pc EXCEPT ![c] = "answered"]
      /\ response' = [response EXCEPT ![c].status = 500]
      /\ UNCHANGED <<tables, creating, accountIds, accountId, materialised, drifts, history>>
  BY KindsDiffer, Statuses DEF StatementFails, Goto
<1>2. TablesInv /\ ReaderTypes /\ OK(c)
  BY <1>1 DEF ReadersInv
<1>3. response \in [Readers -> Answer] /\ response[c] \in Answer
  BY <1>1, <1>2 DEF ReaderTypes
<1>4. answer \in Answer /\ response' = [response EXCEPT ![c] = answer] /\ answer.status = 500
  <2>1. response[c] \in [status : Int, balance : Int, journal_balance : Int]
    BY <1>3 DEF Answer
  <2>2. answer.status = 500
    BY <2>1
  <2>3. QED
    BY <1>1, <1>3, <2>2, AnswerType
<1> HIDE DEF answer
<1>5. response' \in [Readers -> Answer] /\ response'[c] = answer
      /\ \A q \in Readers : q # c => response'[q] = response[q]
  BY <1>1, <1>3, <1>4
<1>6. ReaderTypes'
  BY <1>1, <1>2, <1>5 DEF ReaderTypes, Labels, history
<1>7. pc'[c] = "answered" /\ drifts'[c] = drifts[c] /\ books' = books
  BY <1>1, <1>2 DEF ReaderTypes, tables
<1>8. ReaderOK(c)'
  BY <1>2, <1>4, <1>5, <1>7 DEF OK, ReaderOK
<1>9. CallerOK(c)'
  BY <1>4, <1>5, <1>7 DEF CallerOK, Truthful, AtWork
<1>10. \A q \in Readers : q # c => Same(q)
  BY <1>1, <1>2, <1>5 DEF Same, ReaderTypes, history
<1>11. QED
  BY <1>1, <1>6, <1>8, <1>9, <1>10, OneReader DEF OK

\* The end of the process ends every run and every call, and says nothing untrue.
LEMMA VerifierFailsKeeps ==
    ASSUME ReadersInv, NEW v, VerifierFails(v)
    PROVE  ReadersInv'
<1>1. /\ UNCHANGED <<tables, response, seen>>
      /\ pc' = [r \in Readers |->
                  IF r \in Verifiers THEN "dead" ELSE IF r \in Reading THEN "answered" ELSE pc[r]]
      /\ accountIds' = [r \in Readers |-> IF r \in Verifiers THEN {} ELSE accountIds[r]]
      /\ accountId' = [r \in Readers |-> NoAccount]
      /\ materialised' = [r \in Readers |-> 0]
      /\ drifts' = [r \in Readers |-> NoRows]
      /\ touched' = [r \in Readers |-> {}]
  BY DEF VerifierFails
<1>2. TablesInv /\ ReaderTypes
  BY DEF ReadersInv
<1>3. TablesInv'
  BY <1>1, <1>2 DEF TablesInv, tables
<1>4. CreatingInv'
  <2> DEFINE done == [NotCreating EXCEPT !.at = "done"]
  <2>1. creating' = [k \in Creators |-> IF InFlight(k) THEN done ELSE creating[k]]
    BY DEF VerifierFails, InFlight
  <2>2. done = [at |-> "done", id |-> NoAccount, type |-> "none", currency |-> "none"]
    BY DEF NotCreating
  <2> HIDE DEF done
  <2>3. CreatingInv
    BY DEF ReadersInv
  <2>4. \A k \in Creators : ~InFlight(k)'
    BY <2>1, <2>2 DEF InFlight
  <2>5. creating' \in [Creators -> [at : {"none", "balance", "committing", "done"}, id : Int,
                                   type : AccountTypes \cup {"none"},
                                   currency : Currencies \cup {"none"}]]
    BY <2>1, <2>2, <2>3 DEF CreatingInv, NoAccount
  <2>6. QED
    BY <2>4, <2>5 DEF CreatingInv
<1>5. ReaderTypes'
  BY <1>1, <1>2 DEF ReaderTypes, Labels, NoAccount
<1>6. ASSUME NEW r \in Readers PROVE OK(r)'
  <2>1. OK(r) /\ DOMAIN NoRows = {} /\ response' = response /\ seen' = seen
    BY <1>1 DEF ReadersInv, NoRows
  <2>2. ReaderOK(r)'
    BY <1>1, <2>1 DEF OK, ReaderOK, Reading
  <2>3. ASSUME r \in Verifiers PROVE VerifierOK(r)'
    BY <1>1, <2>3 DEF VerifierOK, NoRows
  <2>4. ASSUME r \in Callers PROVE CallerOK(r)'
    <3>1. CallerOK(r) /\ pc'[r] = IF r \in Reading THEN "answered" ELSE pc[r]
      BY <1>1, <2>1, <2>4, KindsDiffer DEF OK
    <3>2. CASE pc[r] = "answered"
      <4>1. Truthful(r)' /\ pc'[r] = "answered"
        BY <2>1, <3>1, <3>2 DEF CallerOK, Truthful
      <4>2. QED
        BY <4>1 DEF CallerOK, AtWork
    <3>3. CASE pc[r] # "answered"
      <4>1. response'[r] = Nothing /\ Nothing.status = 0
        BY <2>1, <3>1, <3>3 DEF CallerOK, Nothing
      <4>2. pc'[r] \in {"idle", "answered", "gone"}
        <5>1. pc[r] \in {"idle", "gone"} \/ r \in Reading
          BY <3>1 DEF Reading, CallerOK
        <5>2. QED
          BY <3>1, <5>1
      <4>3. QED
        BY <4>1, <4>2 DEF CallerOK, Truthful, AtWork, Nothing
    <3>4. QED
      BY <3>2, <3>3
  <2>5. QED
    BY <2>2, <2>3, <2>4 DEF OK
<1>7. QED
  BY <1>3, <1>4, <1>5, <1>6 DEF ReadersInv

-----------------------------------------------------------------------------
(* Steps of the writers: the histories keep up with the tables.            *)

FiguresTyped == \A a \in Accounts : Figures(a) \in FigureSet

FiguresPlain ==
    \A a \in DOMAIN books : Figures(a) = <<balance[a], Implied(a)>> /\ Figures(a) # <<>>

LEMMA FiguresNow == TablesInv => FiguresTyped /\ FiguresPlain
BY FiguresType DEF FiguresTyped, FiguresPlain

LEMMA FiguresThen == TablesInv' => FiguresTyped' /\ FiguresPlain'
BY FiguresNow, PTL

LEMMA RecordKeeps ==
    ASSUME ReadersInv, TablesInv', DOMAIN books \subseteq DOMAIN books', Record
    PROVE  ReaderTypes' /\ \A r \in Readers : OK(r)'
<1> DEFINE changed == {a \in Accounts : Figures(a)' # Figures(a)}
           Watched(c) == CHOOSE a \in accountIds[c] : TRUE
           Serving(r) == r \in Callers /\ pc[r] \in {"account", "balance", "journal"}
<1>1. /\ TablesInv /\ ReaderTypes /\ FiguresTyped /\ FiguresPlain /\ FiguresTyped' /\ FiguresPlain'
      /\ \A r \in Readers : OK(r)
  BY FiguresNow, FiguresThen DEF ReadersInv
<1>2. /\ UNCHANGED <<pc, accountIds, accountId, materialised, drifts, response>>
      /\ touched' = [r \in Readers |->
                       IF r \in Verifiers \cap Reading THEN touched[r] \cup changed ELSE touched[r]]
      /\ seen' = [r \in Readers |->
                    IF Serving(r) /\ Watched(r) \in changed
                      THEN Append(seen[r], Figures(Watched(r))') ELSE seen[r]]
  BY DEF Record, reading
<1>3. changed \subseteq Accounts /\ \A a \in Accounts \ changed : Figures(a)' = Figures(a)
  OBVIOUS
<1>4. ASSUME NEW c \in Callers, Serving(c)
      PROVE  \E a \in Accounts :
               /\ accountIds[c] = {a}
               /\ seen[c] # <<>> /\ seen[c][Len(seen[c])] = Figures(a)
               /\ seen[c][1] # <<>> => a \in DOMAIN books
               /\ seen'[c] = IF a \in changed THEN Append(seen[c], Figures(a)') ELSE seen[c]
  <2>1. CallerOK(c) /\ c \in Readers
    BY <1>1, KindsDiffer DEF OK
  <2>2. PICK a \in Accounts : /\ accountIds[c] = {a}
                              /\ seen[c][Len(seen[c])] = Figures(a)
                              /\ seen[c][1] # <<>> => a \in DOMAIN books
    BY <1>4, <2>1 DEF CallerOK, AtWork
  <2>3. seen[c] # <<>>
    BY <1>4, <2>1 DEF CallerOK, AtWork
  <2>4. Watched(c) = a /\ Figures(Watched(c))' = Figures(a)'
    <3>1. accountIds[c] = {a} /\ accountIds'[c] = {a}
      BY <1>2, <2>2
    <3>2. (CHOOSE b \in {a} : TRUE) = a
      OBVIOUS
    <3>3. QED
      BY <3>1, <3>2
  <2> HIDE DEF changed, Watched
  <2>5. seen'[c] = IF a \in changed THEN Append(seen[c], Figures(a)') ELSE seen[c]
    BY <1>2, <1>4, <2>1, <2>4
  <2>6. QED
    BY <2>2, <2>3, <2>5
<1>5. ASSUME NEW r \in Readers, ~Serving(r) PROVE seen'[r] = seen[r]
  BY <1>2, <1>5
<1>6. ASSUME NEW r \in Readers
      PROVE  touched'[r] = IF r \in Verifiers \cap Reading THEN touched[r] \cup changed ELSE touched[r]
  BY <1>2
<1>7. touched' \in [Readers -> SUBSET Accounts] /\ DOMAIN seen' = Readers
  <2>1. \A r \in Readers : touched[r] \subseteq Accounts
    BY <1>1 DEF ReaderTypes
  <2> HIDE DEF changed
  <2>2. QED
    BY <1>2, <1>3, <2>1
<1>8. changed \subseteq Accounts
  OBVIOUS
<1> HIDE DEF changed
<1>9. ASSUME NEW r \in Readers PROVE seen'[r] \in Seq(FigureSet)
  <2>1. seen[r] \in Seq(FigureSet)
    BY <1>1 DEF ReaderTypes
  <2>2. ASSUME NEW a \in Accounts PROVE Append(seen[r], Figures(a)') \in Seq(FigureSet)
    <3>1. Figures(a)' \in FigureSet
      BY <1>1 DEF FiguresTyped
    <3>2. QED
      BY <2>1, <3>1, AppendProperties
  <2>3. QED
    BY <1>4, <1>5, <2>1, <2>2
<1>10. ReaderTypes'
  <2>1. seen' \in [Readers -> Seq(FigureSet)]
    <3>1. seen' = [r \in Readers |-> seen'[r]]
      BY <1>2
    <3>2. QED
      BY <1>9, <3>1
  <2>2. QED
    BY <1>1, <1>2, <1>7, <2>1 DEF ReaderTypes
<1>11. ASSUME NEW r \in Readers PROVE ReaderOK(r)'
  BY <1>1, <1>2 DEF OK, ReaderOK
<1>12. ASSUME NEW c \in Callers PROVE CallerOK(c)'
  <2>1. CallerOK(c) /\ c \in Readers
    BY <1>1, KindsDiffer DEF OK
  <2>2. CASE ~Serving(c)
    <3>1. seen'[c] = seen[c]
      BY <1>5, <2>1, <2>2
    <3>2. response'[c] = response[c]
      BY <1>2
    <3>3. Truthful(c) => Truthful(c)'
      BY <3>1, <3>2 DEF Truthful
    <3>4. QED
      BY <1>2, <2>1, <2>2, <3>1, <3>2, <3>3 DEF CallerOK, AtWork, Nothing
  <2>3. CASE Serving(c)
    <3>1. PICK a \in Accounts :
               /\ accountIds[c] = {a}
               /\ seen[c] # <<>> /\ seen[c][Len(seen[c])] = Figures(a)
               /\ seen[c][1] # <<>> => a \in DOMAIN books
               /\ seen'[c] = IF a \in changed THEN Append(seen[c], Figures(a)') ELSE seen[c]
      BY <1>4, <2>3
    <3>2. seen[c] \in Seq(FigureSet) /\ Figures(a)' \in FigureSet
      BY <1>1, <2>1 DEF ReaderTypes, FiguresTyped
    <3>3. Len(seen[c]) \in Nat \ {0} /\ DOMAIN seen[c] = 1 .. Len(seen[c])
      BY <3>1, <3>2, EmptySeq, LenProperties
    <3>4. /\ seen'[c] # <<>> /\ seen'[c][Len(seen'[c])] = Figures(a)'
          /\ \A i \in DOMAIN seen[c] : i \in DOMAIN seen'[c] /\ seen'[c][i] = seen[c][i]
      <4>1. CASE a \in changed
        <5> DEFINE longer == Append(seen[c], Figures(a)')
        <5>1. /\ longer \in Seq(FigureSet) /\ Len(longer) = Len(seen[c]) + 1
              /\ \A i \in 1 .. Len(seen[c]) : longer[i] = seen[c][i]
              /\ longer[Len(seen[c]) + 1] = Figures(a)'
          BY <3>2, AppendProperties
        <5>2. DOMAIN longer = 1 .. Len(seen[c]) + 1
          BY <5>1, LenProperties
        <5>3. longer # <<>>
          BY <3>3, <5>1, EmptySeq
        <5>4. seen'[c] = longer
          BY <3>1, <4>1
        <5> HIDE DEF longer
        <5>5. QED
          BY <3>3, <5>1, <5>2, <5>3, <5>4
      <4>2. CASE a \notin changed
        <5>1. Figures(a)' = Figures(a)
          BY <1>3, <4>2
        <5>2. QED
          BY <3>1, <4>2, <5>1
      <4>3. QED
        BY <4>1, <4>2
    <3>5. seen'[c][1] = seen[c][1]
      BY <3>3, <3>4
    <3>6. pc[c] = "journal" =>
            \E i \in DOMAIN seen'[c] : seen'[c][i] # <<>> /\ seen'[c][i][1] = materialised[c]
      BY <2>1, <3>4 DEF CallerOK
    <3>7. /\ pc'[c] = pc[c] /\ accountIds'[c] = {a} /\ response'[c] = response[c]
          /\ materialised'[c] = materialised[c] /\ pc[c] \notin {"reporting", "answered", "dead"}
          /\ response[c] = Nothing
      BY <1>2, <2>1, <2>3, <3>1 DEF CallerOK
    <3>8. seen'[c][1] # <<>> => a \in DOMAIN books'
      BY <3>1, <3>5
    <3>9. QED
      BY <3>4, <3>6, <3>7, <3>8 DEF CallerOK, Nothing
  <2>4. QED
    BY <2>2, <2>3
<1>13. ASSUME NEW v \in Verifiers PROVE VerifierOK(v)'
  <2>1. VerifierOK(v) /\ ReaderOK(v) /\ v \in Readers
    BY <1>1, KindsDiffer DEF OK
  <2>2. ASSUME NEW a \in DOMAIN books' \ touched'[v], pc[v] \notin {"idle", "dead"}
        PROVE  /\ a \in DOMAIN books \ touched[v]
               /\ balance'[a] = balance[a] /\ Implied(a)' = Implied(a)
    <3>1. a \in Accounts \ changed /\ a \notin touched[v]
      <4>1. v \in Verifiers \cap Reading
        BY <2>1, <2>2 DEF VerifierOK, Reading
      <4>2. QED
        BY <1>1, <1>6, <2>1, <2>2, <4>1 DEF TablesInv
    <3>2. Figures(a)' = Figures(a)
      BY <1>3, <3>1
    <3>3. Figures(a)' = <<balance'[a], Implied(a)'>> /\ Figures(a)' # <<>>
      BY <1>1 DEF FiguresPlain
    <3>4. a \in DOMAIN books
      BY <1>1, <3>2, <3>3, FiguresType
    <3>5. Figures(a) = <<balance[a], Implied(a)>>
      BY <1>1, <3>4 DEF FiguresPlain
    <3>6. <<balance'[a], Implied(a)'>> = <<balance[a], Implied(a)>>
      BY <3>2, <3>3, <3>5
    <3>7. balance'[a] = balance[a] /\ Implied(a)' = Implied(a)
      BY <3>6
    <3>8. QED
      BY <3>1, <3>4, <3>7
  <2>3. /\ pc'[v] = pc[v] /\ accountIds'[v] = accountIds[v] /\ drifts'[v] = drifts[v]
        /\ accountId'[v] = accountId[v] /\ materialised'[v] = materialised[v]
    BY <1>2
  <2>4. pc[v] \notin {"idle", "dead"} => accountIds[v] \subseteq DOMAIN books'
    BY <2>1 DEF VerifierOK
  <2>5. pc[v] \notin {"idle", "dead"} => \A a \in DOMAIN books' \ touched'[v] :
              /\ a \in accountIds[v] => a \notin DOMAIN drifts[v]
              /\ a \notin accountIds[v] =>
                   /\ a \in DOMAIN drifts[v] <=> balance'[a] # Implied(a)'
                   /\ a \in DOMAIN drifts[v] => drifts[v][a] = balance'[a] - Implied(a)'
    BY <2>1, <2>2 DEF VerifierOK, Judged, Drifted
  <2>6. pc[v] = "journal" /\ accountId[v] \notin touched'[v] =>
          materialised[v] = balance'[accountId[v]]
    BY <2>1, <2>2 DEF VerifierOK, ReaderOK
  <2>7. QED
    BY <2>1, <2>3, <2>4, <2>5, <2>6 DEF VerifierOK, Judged, Drifted, NoRows
<1>14. QED
  BY <1>10, <1>11, <1>12, <1>13 DEF OK

LEMMA PostKeeps ==
    ASSUME ReadersInv, Post
    PROVE  ReadersInv'
<1>1. PICK t \in Requests, i \in Inputs : Books!Post(t, i, NoKey)
  BY DEF Post
<1> DEFINE rows == EntryRows(t, i)
<1>2. /\ books' = books /\ creating' = creating /\ Record
      /\ journal' = journal \cup rows
      /\ balance' = [a \in DOMAIN balance |->
                       balance[a] + JournalBalance(books[a].type, OfAccount(rows, a))]
  BY <1>1, SameRules DEF Post, Books!Post
<1>3. IsFiniteSet(Units(rows))
  BY InputsAreEntries, UnitsOfInput
<1> HIDE DEF rows
<1>4. TablesInv'
  <2>1. TablesInv
    BY DEF ReadersInv
  <2>2. ASSUME NEW a \in DOMAIN books PROVE balance'[a] \in Int
    <3>1. OfAccount(rows, a) \subseteq rows
      BY DEF OfAccount
    <3>2. JournalBalance(books[a].type, OfAccount(rows, a)) \in Int
      BY <1>3, <3>1, UnitsOfSubset, JournalBalanceType
    <3>3. balance[a] \in Int /\ a \in DOMAIN balance
      BY <2>1 DEF TablesInv
    <3>4. QED
      BY <1>2, <3>2, <3>3
  <2>3. IsFiniteSet(Units(journal'))
    <3>1. Units(journal \cup rows) = Units(journal) \cup Units(rows)
      BY DEF Units
    <3>2. QED
      BY <1>2, <1>3, <2>1, <3>1, FS_Union DEF TablesInv
  <2>4. Units(journal)' = Units(journal')
    OBVIOUS
  <2>5. QED
    BY <1>2, <2>1, <2>2, <2>3, <2>4 DEF TablesInv
<1>5. CreatingInv'
  BY <1>2 DEF ReadersInv, CreatingInv, InFlight
<1>6. QED
  BY <1>2, <1>4, <1>5, RecordKeeps DEF ReadersInv

LEMMA SkewKeeps ==
    ASSUME ReadersInv, Skew
    PROVE  ReadersInv'
<1>1. PICK a \in DOMAIN balance, by \in Skews : balance' = [balance EXCEPT ![a] = @ + by]
  BY DEF Skew
<1>2. UNCHANGED <<books, journal, creating>> /\ Record
  BY DEF Skew
<1>3. TablesInv'
  BY <1>1, <1>2, SkewsAreAmounts DEF ReadersInv, TablesInv, Units
<1>4. CreatingInv'
  BY <1>2 DEF ReadersInv, CreatingInv, InFlight
<1>5. QED
  BY <1>2, <1>3, <1>4, RecordKeeps DEF ReadersInv

\* A creator that has not committed is seen by nobody.
LEMMA Unseen ==
    ASSUME ReadersInv, UNCHANGED <<tables, reading, history>>, CreatingInv'
    PROVE  ReadersInv'
<1>1. TablesInv' /\ ReaderTypes'
  BY DEF ReadersInv, TablesInv, ReaderTypes, tables, reading, history
<1>2. \A r \in Readers : Same(r)
  BY DEF Same, reading, history
<1>3. \A r \in Readers : OK(r)'
  BY <1>2, OthersStay DEF ReadersInv
<1>4. QED
  BY <1>1, <1>3 DEF ReadersInv

LEMMA InsertAccountKeeps ==
    ASSUME ReadersInv, NEW k \in Creators, InsertAccount(k)
    PROVE  ReadersInv'
<1>1. PICK a \in Accounts \ (DOMAIN books \cup {creating[l].id : l \in Creators}), o \in Opening :
        creating' = [creating EXCEPT ![k] =
                       [at |-> "balance", id |-> a, type |-> o[1], currency |-> o[2]]]
  BY DEF InsertAccount
<1>2. UNCHANGED <<tables, reading, history>> /\ books' = books
  BY DEF InsertAccount, tables
<1>3. CreatingInv /\ a \in Int /\ o[1] \in AccountTypes /\ o[2] \in Currencies
  BY AccountsAreOrdered, OpeningIsTyped DEF ReadersInv
<1>4. /\ creating'[k] = [at |-> "balance", id |-> a, type |-> o[1], currency |-> o[2]]
      /\ \A l \in Creators : l # k => creating'[l] = creating[l]
  BY <1>1, <1>3 DEF CreatingInv
<1>5. creating' \in [Creators -> [at : {"none", "balance", "committing", "done"}, id : Int,
                                 type : AccountTypes \cup {"none"},
                                 currency : Currencies \cup {"none"}]]
  BY <1>1, <1>3 DEF CreatingInv
<1>6. \A l \in Creators : creating[l].id # a
  OBVIOUS
<1>7. CreatingInv'
  BY <1>2, <1>3, <1>4, <1>5, <1>6 DEF CreatingInv, InFlight
<1>8. QED
  BY <1>2, <1>7, Unseen

LEMMA InsertBalanceKeeps ==
    ASSUME ReadersInv, NEW k \in Creators, InsertBalance(k)
    PROVE  ReadersInv'
<1> DEFINE row == [creating[k] EXCEPT !.at = "committing"]
<1>1. CreatingInv /\ InFlight(k) /\ UNCHANGED <<tables, reading, history>> /\ books' = books
      /\ creating' = [creating EXCEPT ![k].at = "committing"]
  BY DEF ReadersInv, InsertBalance, InFlight, tables
<1>2. creating[k] \in [at : {"none", "balance", "committing", "done"}, id : Int,
                       type : AccountTypes \cup {"none"}, currency : Currencies \cup {"none"}]
  BY <1>1 DEF CreatingInv
<1>3. row.id = creating[k].id
      /\ row \in [at : {"none", "balance", "committing", "done"}, id : Int,
                  type : AccountTypes \cup {"none"}, currency : Currencies \cup {"none"}]
  BY <1>2
<1>4. creating' = [creating EXCEPT ![k] = row]
  BY <1>1
<1> HIDE DEF row
<1>5. creating' \in [Creators -> [at : {"none", "balance", "committing", "done"}, id : Int,
                                 type : AccountTypes \cup {"none"},
                                 currency : Currencies \cup {"none"}]]
  BY <1>1, <1>3, <1>4 DEF CreatingInv
<1>6. creating'[k].id = creating[k].id /\ \A l \in Creators : l # k => creating'[l] = creating[l]
  BY <1>1, <1>3, <1>4 DEF CreatingInv
<1>7. CreatingInv'
  BY <1>1, <1>5, <1>6 DEF CreatingInv, InFlight
<1>8. QED
  BY <1>1, <1>7, Unseen

\* A creator that is done leaves the ids of the others alone.
LEMMA CreatedIs ==
    ASSUME CreatingInv, NEW k \in Creators, Created(k)
    PROVE  /\ creating' \in [Creators -> [at : {"none", "balance", "committing", "done"}, id : Int,
                                          type : AccountTypes \cup {"none"},
                                          currency : Currencies \cup {"none"}]]
           /\ creating'[k].at = "done"
           /\ \A l \in Creators : l # k => creating'[l] = creating[l]
<1> DEFINE done == [NotCreating EXCEPT !.at = "done"]
<1>1. creating' = [creating EXCEPT ![k] = done]
  BY DEF Created
<1>2. done = [at |-> "done", id |-> NoAccount, type |-> "none", currency |-> "none"]
  BY DEF NotCreating
<1> HIDE DEF done
<1>3. QED
  BY <1>1, <1>2 DEF CreatingInv, NoAccount

LEMMA CreateFailsKeeps ==
    ASSUME ReadersInv, NEW k \in Creators, CreateFails(k)
    PROVE  ReadersInv'
<1>1. CreatingInv /\ UNCHANGED <<tables, reading, history>> /\ books' = books /\ Created(k)
  BY DEF ReadersInv, CreateFails, tables
<1>2. CreatingInv'
  BY <1>1, CreatedIs DEF CreatingInv, InFlight
<1>3. QED
  BY <1>1, <1>2, Unseen

LEMMA CommitAccountKeeps ==
    ASSUME ReadersInv, NEW k \in Creators, CommitAccount(k)
    PROVE  ReadersInv'
<1> DEFINE a == creating[k].id
           row == [type |-> creating[k].type, currency |-> creating[k].currency, status |-> "ACTIVE"]
<1>1. /\ InFlight(k) /\ Record /\ Created(k) /\ journal' = journal
      /\ books' = Put(books, a, row) /\ balance' = Put(balance, a, 0)
  BY SameRules DEF CommitAccount, Books!Open, InFlight
<1>2. TablesInv /\ CreatingInv
  BY DEF ReadersInv
<1>3. a \in Accounts \ DOMAIN books
  BY <1>1, <1>2 DEF CreatingInv
<1>4. DOMAIN books' = DOMAIN books \cup {a} /\ DOMAIN balance' = DOMAIN balance \cup {a}
      /\ \A b \in DOMAIN balance \cup {a} : balance'[b] = IF b = a THEN 0 ELSE balance[b]
  BY <1>1 DEF Put
<1>5. TablesInv'
  BY <1>1, <1>2, <1>3, <1>4 DEF TablesInv, Units
<1>6. CreatingInv'
  <2>1. ASSUME NEW l \in Creators, InFlight(l)'
        PROVE  l # k /\ creating'[l] = creating[l] /\ InFlight(l)
    BY <1>1, <1>2, <2>1, CreatedIs DEF InFlight
  <2>2. \A l \in Creators : InFlight(l)' => creating'[l].id \in Accounts \ DOMAIN books'
    BY <1>1, <1>2, <1>4, <2>1 DEF CreatingInv
  <2>3. \A l, m \in Creators : InFlight(l)' /\ InFlight(m)' /\ l # m => creating'[l].id # creating'[m].id
    BY <1>2, <2>1 DEF CreatingInv
  <2>4. QED
    BY <1>1, <1>2, <2>2, <2>3, CreatedIs DEF CreatingInv
<1>7. QED
  BY <1>1, <1>4, <1>5, <1>6, RecordKeeps DEF ReadersInv

-----------------------------------------------------------------------------
(* The theorems.                                                           *)

LEMMA ReadersInvHolds == Spec => []ReadersInv
<1>1. ASSUME ReadersInv, [Next]_vars PROVE ReadersInv'
  <2>1. ASSUME NEW r \in Readers, Read(r) \/ StatementFails(r) \/ VerifierFails(r)
        PROVE  ReadersInv'
    BY <1>1, <2>1, StartVerifyKeeps, StartBalanceKeeps, FindByIdKeeps, GetBalanceKeeps,
       CompareJournalKeeps, AnswerBalanceKeeps, LeaveKeeps, ReportKeeps, StatementFailsKeeps,
       VerifierFailsKeeps
    DEF Read, ReadBalance, VerifyAccount
  <2>2. ASSUME NEW k \in Creators,
               InsertAccount(k) \/ InsertBalance(k) \/ CommitAccount(k) \/ CreateFails(k)
        PROVE  ReadersInv'
    BY <1>1, <2>2, InsertAccountKeeps, InsertBalanceKeeps, CommitAccountKeeps, CreateFailsKeeps
  <2>3. CASE UNCHANGED vars
    <3>1. CreatingInv'
      BY <1>1, <2>3 DEF ReadersInv, CreatingInv, InFlight, vars, tables
    <3>2. QED
      BY <1>1, <2>3, <3>1, Unseen DEF vars
  <2>4. QED
    BY <1>1, <2>1, <2>2, <2>3, PostKeeps, SkewKeeps DEF Next
<1>2. QED
  BY <1>1, ReadersInit, PTL DEF Spec

\* The tables and the readers keep their types; an account and its balance come
\* together, and a reader reads no account that does not exist.
THEOREM ReadersTypeCorrect == Spec => []TypeOK
<1>1. ReadersInv => TypeOK
  BY DEF ReadersInv, TablesInv, CreatingInv, InFlight, ReaderTypes, OK, ReaderOK, Labels, TypeOK
<1>2. QED
  BY <1>1, ReadersInvHolds, PTL

\* Whatever is posted, opened, skewed or reported in the meantime, by however many
\* runs, a report judges rightly every account that nobody wrote during its run
\* (balance-verification.ts:31-54).
THEOREM ReportsAreRight == Spec => []QuietAccountsAreJudgedRightly
<1>1. ReadersInv => QuietAccountsAreJudgedRightly
  <2>1. ASSUME ReadersInv, NEW v \in Verifiers, pc[v] = "reporting",
               NEW a \in DOMAIN books \ touched[v]
        PROVE  Judged(v, a)
    <3>1. VerifierOK(v)
      BY <2>1, KindsDiffer DEF ReadersInv, OK
    <3>2. QED
      BY <2>1, <3>1 DEF VerifierOK
  <2>2. QED
    BY <2>1 DEF QuietAccountsAreJudgedRightly, Judged
<1>2. QED
  BY <1>1, ReadersInvHolds, PTL

\* The two figures of an answer are never invented, nor the journal's older than the
\* balance's, and no account that was there is answered 404 (accounts.service.ts:93-110).
THEOREM AnswersAreTrue == Spec => []AnswersWereTrue
<1>1. ReadersInv => AnswersWereTrue
  BY KindsDiffer DEF ReadersInv, OK, CallerOK, Truthful, AnswersWereTrue
<1>2. QED
  BY <1>1, ReadersInvHolds, PTL
=============================================================================
