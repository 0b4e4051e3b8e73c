---------------------------- MODULE BalanceReaders -----------------------------
(***************************************************************************)
(* The two that read balances: verifyBalances (the job, on its interval or *)
(* from the command line), which compares every materialised balance with  *)
(* its journal, and GET /v1/accounts/:id/balance, which shows both.  Each  *)
(* takes an account through the same three statements, outside of any      *)
(* transaction, while postings commit between them.                        *)
(*                                                                         *)
(* Postings are those of Ledger, one step each, which PostTransaction is   *)
(* shown to implement.  Somebody may also write a balance by hand, as      *)
(* tests/integration/balance-verification.test.ts does.                    *)
(***************************************************************************)
EXTENDS LedgerDomain, Problems

CONSTANTS
    Requests, Inputs, Keys, NoKey, Chart,   \* as in Ledger
    Creators,    \* calls of createAccount
    Opening,     \* <<type, currency>> of the accounts they may open
    Verifiers,   \* runs of verifyBalances that may overlap
    Callers,     \* calls of GET /v1/accounts/:id/balance
    Skews,       \* by how much a balance may be changed by hand
    MaxSkews,    \* how often
    MaxReading,  \* bound on the readers at work at once: they share nothing
    MaxFaults    \* how often a statement may fail, or the process die

ASSUME ReadersDiffer == Verifiers \cap Callers = {}
ASSUME InputsAreEntries == Inputs \subseteq Seq(EntryInput)
ASSUME ChartHoldsAccounts == DOMAIN Chart \subseteq Accounts
ASSUME OpeningIsTyped == Opening \subseteq AccountTypes \X Currencies
ASSUME SkewsAreAmounts == Skews \subseteq Int

Readers == Verifiers \cup Callers

VARIABLES
    books, balance, journal, keys,   \* the committed tables, as in Ledger
    creating,      \* where each creator is, and the row it has inserted
    pc,            \* where each reader is
    accountIds,    \* the accounts it has still to read
    accountId,     \* the one it is reading
    materialised,  \* its balance, once read
    drifts,        \* account |-> delta, found so far by a verifier
    response,      \* what a caller was told
    skews, faults, \* how many there have been
    touched,       \* history: the accounts written during a verifier's run
    seen           \* history: the figures of a caller's account during its call

tables == <<books, balance, journal, keys>>
reading == <<pc, accountIds, accountId, materialised, drifts, response>>
history == <<touched, seen>>
vars == <<tables, creating, reading, skews, faults, history>>

Books == INSTANCE Ledger

Implied(a) == JournalBalance(books[a].type, OfAccount(journal, a))
Drifted(a) == balance[a] # Implied(a)

\* Both figures of an account, or nothing of one that does not exist.
Figures(a) == IF a \in DOMAIN books \cap DOMAIN balance THEN <<balance[a], Implied(a)>> ELSE <<>>

\* Those at work.  A verifier whose process has ended is dead.
Reading == {r \in Readers : pc[r] \notin {"idle", "dead", "gone"}}

NoAccount == -1
NotCreating == [at |-> "none", id |-> NoAccount, type |-> "none", currency |-> "none"]
Nothing == [status |-> 0, balance |-> 0, journal_balance |-> 0]

Init ==
    /\ Books!Init
    /\ creating = [k \in Creators |-> NotCreating]
    /\ pc = [r \in Readers |-> "idle"]
    /\ accountIds = [r \in Readers |-> {}]
    /\ accountId = [r \in Readers |-> NoAccount]
    /\ materialised = [r \in Readers |-> 0]
    /\ drifts = [r \in Readers |-> NoRows]
    /\ response = [r \in Readers |-> Nothing]
    /\ skews = 0 /\ faults = 0
    /\ touched = [r \in Readers |-> {}]
    /\ seen = [r \in Readers |-> <<>>]

-----------------------------------------------------------------------------
(* What readers do.                                                        *)

Goto(r, label) == pc' = [pc EXCEPT ![r] = label]

\* The scheduler, or the command line: listAllAccountIds.  After a rejection it
\* takes somebody who starts the process anew.
StartVerify(v) ==
    /\ v \in Verifiers /\ pc[v] \in {"idle", "dead"} /\ Cardinality(Reading) < MaxReading
    /\ accountIds' = [accountIds EXCEPT ![v] = DOMAIN books]
    /\ Goto(v, IF DOMAIN books = {} THEN "reporting" ELSE "account")
    /\ UNCHANGED <<tables, creating, accountId, materialised, drifts, response, skews, faults, history>>

\* A caller asks for the balance of some account, which may not exist.
StartBalance(c) ==
    /\ c \in Callers /\ pc[c] = "idle" /\ Cardinality(Reading) < MaxReading
    /\ \E a \in Accounts :
         /\ accountIds' = [accountIds EXCEPT ![c] = {a}]
         /\ seen' = [seen EXCEPT ![c] = <<Figures(a)>>]
    /\ Goto(c, "account")
    /\ UNCHANGED <<tables, creating, accountId, materialised, drifts, response, skews, faults, touched>>

\* The accounts a verifier has still to read, after this one.
NextAccount(v, a) ==
    /\ accountIds' = [accountIds EXCEPT ![v] = @ \ {a}]
    /\ Goto(v, IF accountIds[v] = {a} THEN "reporting" ELSE "account")

\* No row: a verifier passes over the account, a caller is answered 404.
Missing(r, a) ==
    IF r \in Verifiers
      THEN NextAccount(r, a) /\ UNCHANGED response
      ELSE /\ Goto(r, "answered")
           /\ response' = [response EXCEPT ![r].status = StatusOf("account_not_found")]
           /\ UNCHANGED accountIds

\* findById.  The row tells the type, which never changes.
FindById(r) ==
    /\ pc[r] = "account"
    /\ \E a \in accountIds[r] :
         IF a \in DOMAIN books
           THEN /\ accountId' = [accountId EXCEPT ![r] = a]
                /\ Goto(r, "balance")
                /\ UNCHANGED <<accountIds, response>>
           ELSE Missing(r, a) /\ UNCHANGED accountId
    /\ UNCHANGED <<tables, creating, materialised, drifts, skews, faults, history>>

\* getBalance.
GetBalance(r) ==
    /\ pc[r] = "balance"
    /\ IF accountId[r] \in DOMAIN balance
         THEN /\ materialised' = [materialised EXCEPT ![r] = balance[accountId[r]]]
              /\ Goto(r, "journal")
              /\ UNCHANGED <<accountIds, response>>
         ELSE Missing(r, accountId[r]) /\ UNCHANGED materialised
    /\ UNCHANGED <<tables, creating, accountId, drifts, skews, faults, history>>

Differs(is, implied) == implied # is

\* sumJournalByAccount, and what a verifier makes of it: the next account.
CompareJournal(v) ==
    /\ v \in Verifiers /\ pc[v] = "journal"
    /\ LET a == accountId[v]
           delta == materialised[v] - Implied(a)
       IN  /\ drifts' = IF Differs(materialised[v], Implied(a))
                          THEN [drifts EXCEPT ![v] = Put(@, a, delta)] ELSE drifts
           /\ NextAccount(v, a)
    /\ UNCHANGED <<tables, creating, accountId, materialised, response, skews, faults, history>>

\* sumJournalByAccount, and the answer to a caller.
AnswerBalance(c) ==
    /\ c \in Callers /\ pc[c] = "journal"
    /\ response' = [response EXCEPT ![c] =
                      [status |-> 200, balance |-> materialised[c],
                       journal_balance |-> Implied(accountId[c])]]
    /\ Goto(c, "answered")
    /\ UNCHANGED <<tables, creating, accountIds, accountId, materialised, drifts, skews, faults, history>>

\* The answer is out, and nothing is left of the call.
Leave(c) ==
    /\ pc[c] = "answered"
    /\ Goto(c, "gone")
    /\ accountIds' = [accountIds EXCEPT ![c] = {}]
    /\ accountId' = [accountId EXCEPT ![c] = NoAccount]
    /\ materialised' = [materialised EXCEPT ![c] = 0]
    /\ response' = [response EXCEPT ![c] = Nothing]
    /\ seen' = [seen EXCEPT ![c] = <<>>]
    /\ UNCHANGED <<tables, creating, drifts, skews, faults, touched>>

\* The journal is read first, and the balance after it.
SumJournalFirst(c) ==
    /\ pc[c] = "balance"
    /\ materialised' = [materialised EXCEPT ![c] = Implied(accountId[c])]
    /\ Goto(c, "journal")
    /\ UNCHANGED <<tables, creating, accountIds, accountId, drifts, response, skews, faults, history>>

AnswerBalanceLast(c) ==
    /\ c \in Callers /\ pc[c] = "journal"
    /\ response' = [response EXCEPT ![c] =
                      [status |-> 200, balance |-> balance[accountId[c]],
                       journal_balance |-> materialised[c]]]
    /\ Goto(c, "answered")
    /\ UNCHANGED <<tables, creating, accountIds, accountId, materialised, drifts, skews, faults, history>>

\* Mutant of ReadBalance: the two sums in the other order.
ReadJournalFirst(c) ==
    c \in Callers /\ (FindById(c) \/ SumJournalFirst(c) \/ AnswerBalanceLast(c))

\* AccountsService.getBalance.
ReadBalance(c) == c \in Callers /\ (FindById(c) \/ GetBalance(c) \/ AnswerBalance(c))

\* The body of the loop in verifyBalances.
VerifyAccount(v) == v \in Verifiers /\ (FindById(v) \/ GetBalance(v) \/ CompareJournal(v))

\* Mutant of Report: a list of drifts that the runs share.
ReportOn(v) ==
    /\ v \in Verifiers /\ pc[v] = "reporting"
    /\ Goto(v, "idle")
    /\ accountId' = [accountId EXCEPT ![v] = NoAccount]
    /\ materialised' = [materialised EXCEPT ![v] = 0]
    /\ touched' = [touched EXCEPT ![v] = {}]
    /\ UNCHANGED <<tables, creating, accountIds, drifts, response, skews, faults, seen>>

\* The counter, the log line and the report; the locals go, and the interval
\* comes round again.
Report(v) ==
    /\ v \in Verifiers /\ pc[v] = "reporting"
    /\ Goto(v, "idle")
    /\ accountId' = [accountId EXCEPT ![v] = NoAccount]
    /\ materialised' = [materialised EXCEPT ![v] = 0]
    /\ drifts' = [drifts EXCEPT ![v] = NoRows]
    /\ touched' = [touched EXCEPT ![v] = {}]
    /\ UNCHANGED <<tables, creating, accountIds, response, skews, faults, seen>>

\* A statement of a call fails: the error handler answers 500.
StatementFails(c) ==
    /\ c \in Callers /\ pc[c] \in {"account", "balance", "journal"} /\ faults < MaxFaults
    /\ faults' = faults + 1
    /\ Goto(c, "answered")
    /\ response' = [response EXCEPT ![c].status = StatusOf("internal_error")]
    /\ UNCHANGED <<tables, creating, accountIds, accountId, materialised, drifts, skews, history>>

\* Mutant of VerifierFails: the rejection is swallowed, and the process goes on.
FailsInSilence(v) ==
    /\ v \in Verifiers /\ pc[v] # "reporting" /\ faults < MaxFaults
    /\ faults' = faults + 1
    /\ Goto(v, "idle")
    /\ accountIds' = [accountIds EXCEPT ![v] = {}]
    /\ drifts' = [drifts EXCEPT ![v] = NoRows]
    /\ touched' = [touched EXCEPT ![v] = {}]
    /\ UNCHANGED <<tables, creating, accountId, materialised, response, skews, seen>>

\* A statement of a verifier fails.  Nobody waits for its promise, and an
\* unhandled rejection ends the process with all that it was doing.
VerifierFails(v) ==
    /\ v \in Verifiers /\ pc[v] # "reporting" /\ faults < MaxFaults
    /\ faults' = faults + 1
    /\ pc' = [r \in Readers |->
                IF r \in Verifiers THEN "dead"
                ELSE IF r \in Reading THEN "answered" ELSE pc[r]]
    /\ accountIds' = [r \in Readers |-> IF r \in Verifiers THEN {} ELSE accountIds[r]]
    /\ accountId' = [r \in Readers |-> NoAccount]
    /\ materialised' = [r \in Readers |-> 0]
    /\ drifts' = [r \in Readers |-> NoRows]
    /\ touched' = [r \in Readers |-> {}]
    /\ creating' = [k \in Creators |-> IF creating[k].at \in {"balance", "committing"}
                                       THEN [NotCreating EXCEPT !.at = "done"] ELSE creating[k]]
    /\ UNCHANGED <<tables, response, skews, seen>>

-----------------------------------------------------------------------------
(* What is written meanwhile.                                              *)

\* The histories, after a step that changed the tables.
Record ==
    LET changed == {a \in Accounts : Figures(a)' # Figures(a)}
        Watched(c) == CHOOSE a \in accountIds[c] : TRUE
    IN  /\ UNCHANGED <<reading, faults>>
        /\ touched' = [r \in Readers |->
             IF r \in Verifiers \cap Reading THEN touched[r] \cup changed ELSE touched[r]]
        /\ seen' = [r \in Readers |->
             IF r \in Callers /\ pc[r] \in {"account", "balance", "journal"}
                  /\ Watched(r) \in changed
               THEN Append(seen[r], Figures(Watched(r))') ELSE seen[r]]

\* postTransaction commits.
Post ==
    /\ \E t \in Requests, i \in Inputs : Books!Post(t, i, NoKey)
    /\ Record
    /\ UNCHANGED <<creating, skews>>

\* insertAccount, under an id that is new; nobody sees the row yet.
InsertAccount(k) ==
    /\ creating[k].at = "none"
    /\ \E a \in Accounts \ (DOMAIN books \cup {creating[l].id : l \in Creators}), o \in Opening :
         creating' = [creating EXCEPT ![k] =
                        [at |-> "balance", id |-> a, type |-> o[1], currency |-> o[2]]]
    /\ UNCHANGED <<tables, reading, skews, faults, history>>

\* insertBalance.  (persist follows: see LedgerService.)
InsertBalance(k) ==
    /\ creating[k].at = "balance"
    /\ creating' = [creating EXCEPT ![k].at = "committing"]
    /\ UNCHANGED <<tables, reading, skews, faults, history>>

Created(k) == creating' = [creating EXCEPT ![k] = [NotCreating EXCEPT !.at = "done"]]

\* Mutant of CommitAccount: the balance is left to the first posting.
CommitBare(k) ==
    /\ creating[k].at = "committing"
    /\ books' = Put(books, creating[k].id, [type |-> creating[k].type,
                       currency |-> creating[k].currency, status |-> "ACTIVE"])
    /\ Created(k)
    /\ UNCHANGED <<balance, journal, keys, skews>>
    /\ Record

\* The COMMIT: the account and its balance are there.
CommitAccount(k) ==
    /\ creating[k].at = "committing"
    /\ Books!Open(creating[k].id, creating[k].type, creating[k].currency)
    /\ Created(k)
    /\ UNCHANGED skews
    /\ Record

\* A statement of createAccount fails: ROLLBACK, and 500.
CreateFails(k) ==
    /\ creating[k].at \in {"none", "balance", "committing"} /\ faults < MaxFaults
    /\ faults' = faults + 1
    /\ Created(k)
    /\ UNCHANGED <<tables, reading, skews, history>>

\* Somebody writes a balance by hand.
Skew ==
    /\ skews < MaxSkews
    /\ skews' = skews + 1
    /\ \E a \in DOMAIN balance, by \in Skews :
         balance' = [balance EXCEPT ![a] = @ + by]
    /\ UNCHANGED <<books, journal, keys, creating>>
    /\ Record

-----------------------------------------------------------------------------

Read(r) ==
    \/ StartVerify(r) \/ VerifyAccount(r) \/ Report(r)
    \/ StartBalance(r) \/ ReadBalance(r) \/ Leave(r)

Next ==
    \/ \E r \in Readers : Read(r) \/ StatementFails(r) \/ VerifierFails(r)
    \/ \E k \in Creators : InsertAccount(k) \/ InsertBalance(k) \/ CommitAccount(k) \/ CreateFails(k)
    \/ Post \/ Skew

Spec == Init /\ [][Next]_vars

\* The statements of a run or a call that has begun return, or fail.  No run has to
\* begin (the interval is off by default, config.ts:15), and nobody has to start a
\* process that has ended.
FairSpec ==
    /\ Spec
    /\ \A v \in Verifiers : WF_vars(VerifyAccount(v) \/ Report(v))
    /\ \A c \in Callers : WF_vars(ReadBalance(c) \/ Leave(c))

-----------------------------------------------------------------------------
(* What can be relied on.                                                  *)

\* The tables and the readers keep their types; an account and its balance come
\* together, and a reader reads no account that does not exist.
TypeOK ==
    /\ DOMAIN balance = DOMAIN books
    /\ \A k \in Creators : creating[k].at \in {"balance", "committing"} =>
         creating[k].id \in Accounts \ DOMAIN books
    /\ \A r \in Readers :
         /\ pc[r] \in {"idle", "account", "balance", "journal", "reporting", "answered", "gone", "dead"}
         /\ accountIds[r] \subseteq Accounts
         /\ pc[r] \in {"balance", "journal"} => accountId[r] \in accountIds[r] \cap DOMAIN books
         /\ materialised[r] \in Int
         /\ DOMAIN drifts[r] \subseteq DOMAIN books
         /\ response[r].status \in {0, 200, 404, 500}

\* Of the accounts that nobody wrote during a run, the report names those whose
\* balance is not their journal's, all of them and no others, and by how much:
\* whatever was opened, posted or reported before (balance-verification.ts:31-54).
QuietAccountsAreJudgedRightly ==
    \A v \in Verifiers : pc[v] = "reporting" =>
        \A a \in DOMAIN books \ touched[v] :
            /\ a \in DOMAIN drifts[v] <=> Drifted(a)
            /\ a \in DOMAIN drifts[v] => drifts[v][a] = balance[a] - Implied(a)

\* Both figures of an answer are figures the account had during the call, and the
\* journal's is no older than the balance's; an account that was there when the call
\* came is found (accounts.service.ts:93-110).
AnswersWereTrue ==
    \A c \in Callers : pc[c] = "answered" =>
        /\ response[c].status = 404 => seen[c][1] = <<>>
        /\ response[c].status = 200 =>
             \E i, j \in {n \in DOMAIN seen[c] : seen[c][n] # <<>>} :
                /\ i <= j
                /\ seen[c][i][1] = response[c].balance
                /\ seen[c][j][2] = response[c].journal_balance

\* A run that has an account still to read, whose balance has come apart from its
\* journal and which nobody writes while the run lasts, gets to a report that names
\* it, unless the process ends: nothing that is found is lost with the process going
\* on.  With the process it is lost, and so is every later run, until somebody
\* starts it again (balance-verification.ts:31-58, 99-101).
RunsFindStandingDrift ==
    \A v \in Verifiers, a \in Accounts :
        a \in accountIds[v] /\ a \in DOMAIN books /\ Drifted(a) /\ a \notin touched[v]
          ~> \/ pc[v] = "reporting" /\ a \in DOMAIN drifts[v]
             \/ a \in touched[v]
             \/ pc[v] = "dead"

\* What README.md:102 says of the job: "Emits JSON with drifts: [] when healthy."
HealthyBooksPass ==
    \A v \in Verifiers :
        pc[v] = "reporting" /\ (\A a \in DOMAIN books : ~Drifted(a)) => DOMAIN drifts[v] = {}
=============================================================================
