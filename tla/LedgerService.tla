--------------------------- MODULE LedgerService ----------------------------
(***************************************************************************)
(* The POST routes as a client that retries sees them: the preHandler of   *)
(* idempotency.plugin.ts, the handler and its database transaction, the    *)
(* hourly cleanup of old keys, failing statements, lost acknowledgements   *)
(* and crashes of the process.                                             *)
(*                                                                         *)
(* createAccount and postTransaction are the same thing here: work done in *)
(* one transaction that also records the key.  What work a transaction     *)
(* does, and that it is done atomically, is the business of                *)
(* PostTransaction, whose calls carry the key this module hands them.      *)
(***************************************************************************)
EXTENDS Integers, FiniteSets, Problems

CONSTANTS
    Requests,      \* requests, each of which its client sends until it is answered
    Keys,          \* values of the Idempotency-Key header
    NoKey,         \* no header, or a blank one; and an undefined request.idempotency
    Bodies,        \* request bodies; canonicalize makes equal hashes of equal ones only
    HookApplies,   \* whether the preHandler runs for the /v1 routes
    Ttl,           \* idempotencyTtlHours
    MaxTime,       \* bound on the clock
    MaxFaults      \* bound on failing statements, lost answers and crashes

ASSUME NoKeyIsNoHeader == NoKey \notin Keys
ASSUME RequestsAreFinite == IsFiniteSet(Requests)
ASSUME HookAppliesIsBoolean == HookApplies \in BOOLEAN
ASSUME BoundsAreNatural == Ttl \in Nat /\ MaxTime \in Nat /\ MaxFaults \in Nat

VARIABLES
    \* Tables, as committed.
    idempotencyKeys,   \* key |-> [requestHash, id, createdAt]  (id for the response)
    done,              \* transactions: [id, key, body, begun, committed]
    \* A request.
    pc,                \* the statement it awaits next
    key, body,         \* its header and body
    idempotency,       \* request.idempotency, which the handler passes on
    txn,               \* its database transaction: [id, key, body, begun]
    response,          \* [status, id]; status 0 is a broken connection
    \* Its surroundings.
    now,               \* hours, by the one clock of Postgres and of the process
    faults,            \* faults so far
    orphans            \* transactions whose COMMIT was sent by a connection now lost

tables == <<idempotencyKeys, done>>
request == <<key, body, idempotency>>
world == <<now, faults, orphans>>
vars == <<tables, pc, request, txn, response, world>>

NoTxn == [id |-> <<>>, key |-> NoKey, body |-> NoKey, begun |-> 0]
NoAnswer == [status |-> 0, id |-> <<>>]
NoRecords == [k \in {} |-> 0]

\* Labels at which a request is being served, and those inside its transaction.
InTransaction == {"writing", "committing"}
InFlight == {"lookup", "handler", "committed"} \cup InTransaction

\* Refusals: a client that gets one does not send the request again.
Refused == {StatusOf(code) : code \in Refusals}

Init ==
    /\ idempotencyKeys = NoRecords
    /\ done = {}
    /\ pc = [r \in Requests |-> "idle"]
    /\ key = [r \in Requests |-> NoKey]
    /\ body = [r \in Requests |-> NoKey]
    /\ idempotency = [r \in Requests |-> NoKey]
    /\ txn = [r \in Requests |-> NoTxn]
    /\ response = [r \in Requests |-> NoAnswer]
    /\ now = 0
    /\ faults = 0
    /\ orphans = {}

Goto(r, label) == pc' = [pc EXCEPT ![r] = label]

\* The locals of the handler end with the answer.
Answer(r, status, id) ==
    /\ Goto(r, "answered")
    /\ txn' = [txn EXCEPT ![r] = NoTxn]
    /\ response' = [response EXCEPT ![r] = [status |-> status, id |-> id]]

-----------------------------------------------------------------------------
(* The preHandler.                                                         *)

\* A request reaches the server: the key is demanded of every POST, and taken
\* up, where the hook applies; the handler goes without one where it does not.
Arrive(r) ==
    IF ~HookApplies
      THEN /\ Goto(r, "handler")
           /\ idempotency' = [idempotency EXCEPT ![r] = NoKey]
           /\ UNCHANGED <<txn, response>>
    ELSE IF key'[r] = NoKey
      THEN /\ Answer(r, StatusOf("idempotency_key_required"), <<>>)
           /\ UNCHANGED idempotency
    ELSE /\ Goto(r, "lookup")
         /\ idempotency' = [idempotency EXCEPT ![r] = key'[r]]
         /\ UNCHANGED <<txn, response>>

Send(r, k, b) ==
    /\ pc[r] = "idle"
    /\ key' = [key EXCEPT ![r] = k]
    /\ body' = [body EXCEPT ![r] = b]
    /\ Arrive(r)
    /\ UNCHANGED <<tables, world>>

\* A client without an answer, or with a 500, sends the same request again.
Retry(r) ==
    /\ pc[r] = "answered"
    /\ response[r].status \in {0, 500}
    /\ UNCHANGED <<key, body>>
    /\ Arrive(r)
    /\ UNCHANGED <<tables, world>>

\* Mutant of findCached: the hash is not compared.
findCachedByKey(r) ==
    /\ pc[r] = "lookup"
    /\ IF idempotency[r] \notin DOMAIN idempotencyKeys
         THEN Goto(r, "handler") /\ UNCHANGED <<txn, response>>
         ELSE Answer(r, 201, idempotencyKeys[idempotency[r]].id)
    /\ UNCHANGED <<tables, request, world>>

\* Mutant of findCached: the record is never found.
findNothing(r) ==
    /\ pc[r] = "lookup"
    /\ Goto(r, "handler")
    /\ UNCHANGED <<tables, request, txn, response, world>>

\* A statement of its own: nothing holds the answer until the handler begins.
findCached(r) ==
    /\ pc[r] = "lookup"
    /\ IF idempotency[r] \notin DOMAIN idempotencyKeys
         THEN Goto(r, "handler") /\ UNCHANGED <<txn, response>>
       ELSE IF idempotencyKeys[idempotency[r]].requestHash # body[r]
         THEN Answer(r, StatusOf("idempotency_conflict"), <<>>)
       ELSE Answer(r, 201, idempotencyKeys[idempotency[r]].id)
    /\ UNCHANGED <<tables, request, world>>

-----------------------------------------------------------------------------
(* The handler.                                                            *)

\* The body does not parse, or the service refuses it, for one of its reasons:
\* whatever has been done is rolled back and nothing is recorded under the key.
Refuse(r) ==
    /\ pc[r] \in {"handler", "writing"}
    /\ Answer(r, StatusOf("unbalanced_transaction"), <<>>)
    /\ UNCHANGED <<tables, request, world>>

\* The id that the handler makes up is new (uuidv7).
NewId(r) ==
    LET used == {t.id[2] : t \in {t \in done \cup orphans : t.id[1] = r}} IN
    CHOOSE n \in 1 .. Cardinality(used) + 1 : n \notin used

\* now() is the time of the BEGIN throughout the transaction.
Begin(r) ==
    /\ pc[r] = "handler"
    /\ txn' = [txn EXCEPT ![r] = [id |-> <<r, NewId(r)>>, key |-> idempotency[r],
                                 body |-> body[r], begun |-> now]]
    /\ Goto(r, "writing")
    /\ UNCHANGED <<tables, request, response, world>>

\* An uncommitted insert of the same key makes this one wait for its outcome.
InsertedByOther(r) ==
    \/ \E q \in Requests \ {r} : pc[q] = "committing" /\ txn[q].key = txn[r].key
    \/ \E t \in orphans : t.key = txn[r].key

\* The row that persist has written for transaction t.
Record(t) == [requestHash |-> t.body, id |-> t.id, createdAt |-> t.begun]

\* Mutant of persist: on the pool, where it commits by itself.
persistAtOnce(r) ==
    /\ pc[r] = "writing"
    /\ txn[r].key \in Keys \ DOMAIN idempotencyKeys
    /\ idempotencyKeys' = [k \in DOMAIN idempotencyKeys \cup {txn[r].key} |->
                             IF k = txn[r].key THEN Record(txn[r]) ELSE idempotencyKeys[k]]
    /\ Goto(r, "committing")
    /\ UNCHANGED <<done, request, txn, response, world>>

\* Mutant of persist: an upsert, which does not fail on a key that is on record.
persistOver(r) ==
    /\ pc[r] = "writing"
    /\ txn[r].key # NoKey => ~InsertedByOther(r)
    /\ Goto(r, "committing")
    /\ UNCHANGED <<tables, request, txn, response, world>>

\* The work is done, the key goes in last; without one there is nothing to do.
persist(r) ==
    /\ pc[r] = "writing"
    /\ txn[r].key # NoKey => ~InsertedByOther(r)
    /\ IF txn[r].key \in DOMAIN idempotencyKeys
         THEN Answer(r, StatusOf("internal_error"), <<>>)
         ELSE Goto(r, "committing") /\ UNCHANGED <<txn, response>>
    /\ UNCHANGED <<tables, request, world>>

\* What the COMMIT of t makes visible.
Publish(t) ==
    /\ done' = done \cup {[id |-> t.id, key |-> t.key, body |-> t.body,
                           begun |-> t.begun, committed |-> now]}
    /\ idempotencyKeys' =
         IF t.key = NoKey THEN idempotencyKeys
         ELSE [k \in DOMAIN idempotencyKeys \cup {t.key} |->
                 IF k = t.key THEN Record(t) ELSE idempotencyKeys[k]]

Commit(r) ==
    /\ pc[r] = "committing"
    /\ Publish(txn[r])
    /\ Goto(r, "committed")
    /\ UNCHANGED <<request, txn, response, world>>

\* Mutant of Reply: the status of a route that sets none.
ReplyOk(r) ==
    /\ pc[r] = "committed"
    /\ Answer(r, 200, txn[r].id)
    /\ UNCHANGED <<tables, request, world>>

Reply(r) ==
    /\ pc[r] = "committed"
    /\ Answer(r, 201, txn[r].id)
    /\ UNCHANGED <<tables, request, world>>

-----------------------------------------------------------------------------
(* Cleanup, time and faults.                                               *)

\* Mutant of cleanupExpired: an hour too early.
cleanupEarly ==
    /\ idempotencyKeys' = [k \in {k \in DOMAIN idempotencyKeys :
                                    idempotencyKeys[k].createdAt >= now} |->
                             idempotencyKeys[k]]
    /\ idempotencyKeys' # idempotencyKeys
    /\ UNCHANGED <<done, pc, request, txn, response, world>>

\* deleteOlderThan(now - ttl).
cleanupExpired ==
    /\ idempotencyKeys' = [k \in {k \in DOMAIN idempotencyKeys :
                                    idempotencyKeys[k].createdAt >= now - Ttl} |->
                             idempotencyKeys[k]]
    /\ idempotencyKeys' # idempotencyKeys
    /\ UNCHANGED <<done, pc, request, txn, response, world>>

Tick ==
    /\ now < MaxTime
    /\ now' = now + 1
    /\ UNCHANGED <<tables, pc, request, txn, response, faults, orphans>>

Fault ==
    /\ faults < MaxFaults
    /\ faults' = faults + 1
    /\ UNCHANGED <<tables, request, now>>

\* The connections of these requests are gone.  The server rolls back what they
\* had not committed; a COMMIT that was on its way may still arrive.
Disconnect(dropped) ==
    \E sent \in SUBSET {r \in dropped : pc[r] = "committing"} :
        orphans' = orphans \cup {txn[r] : r \in sent}

\* A statement fails, or the acknowledgement of the COMMIT is lost.
StatementFails(r) ==
    /\ pc[r] \in {"lookup", "committed"} \cup InTransaction
    /\ Answer(r, StatusOf("internal_error"), <<>>)
    /\ Disconnect({r})
    /\ Fault

\* The answer does not reach the client.
LoseAnswer(r) ==
    /\ pc[r] = "answered" /\ response[r].status # 0
    /\ Answer(r, 0, <<>>)
    /\ UNCHANGED orphans
    /\ Fault

\* The process dies with all it was serving, and another takes its place.
Crash ==
    LET dropped == {r \in Requests : pc[r] \in InFlight} IN
    /\ dropped # {}
    /\ pc' = [r \in Requests |-> IF r \in dropped THEN "answered" ELSE pc[r]]
    /\ response' = [r \in Requests |-> IF r \in dropped THEN NoAnswer ELSE response[r]]
    /\ txn' = [r \in Requests |-> IF r \in dropped THEN NoTxn ELSE txn[r]]
    /\ Disconnect(dropped)
    /\ Fault

\* The server gets to the COMMIT of a lost connection, or to the loss of it.
OrphanCommits(t) ==
    /\ Publish(t)
    /\ orphans' = orphans \ {t}
    /\ UNCHANGED <<pc, request, txn, response, now, faults>>

OrphanAborts(t) ==
    /\ orphans' = orphans \ {t}
    /\ UNCHANGED <<tables, pc, request, txn, response, now, faults>>

-----------------------------------------------------------------------------

Serve(r) ==
    \/ findCached(r)
    \/ Begin(r)
    \/ persist(r)
    \/ Commit(r)
    \/ Reply(r)

Next ==
    \/ \E r \in Requests :
         \/ \E k \in Keys \cup {NoKey}, b \in Bodies : Send(r, k, b)
         \/ Retry(r)
         \/ Serve(r)
         \/ Refuse(r)
         \/ StatementFails(r)
         \/ LoseAnswer(r)
    \/ cleanupExpired
    \/ Tick
    \/ Crash
    \/ \E t \in orphans : OrphanCommits(t) \/ OrphanAborts(t)

Spec == Init /\ [][Next]_vars

\* A request that can go on does, its client does not give up, and the server
\* notices a lost connection; time, the cleanup and faults owe nothing.
FairSpec ==
    /\ Spec
    /\ \A r \in Requests : WF_vars(Serve(r)) /\ WF_vars(Retry(r))
    /\ WF_vars(\E t \in orphans : OrphanCommits(t) \/ OrphanAborts(t))

-----------------------------------------------------------------------------
(* What holds of every reachable state.                                    *)

Ids == Requests \X (Nat \ {0})
TxnType == [id : Ids, key : Keys \cup {NoKey}, body : Bodies, begun : 0 .. MaxTime]

\* Types of the tables, the requests and their transactions.
TypeOK ==
    /\ DOMAIN idempotencyKeys \subseteq Keys
    /\ \A k \in DOMAIN idempotencyKeys :
         idempotencyKeys[k] \in [requestHash : Bodies, id : Ids, createdAt : 0 .. MaxTime]
    /\ done \subseteq [id : Ids, key : Keys \cup {NoKey}, body : Bodies,
                       begun : 0 .. MaxTime, committed : 0 .. MaxTime]
    /\ pc \in [Requests -> InFlight \cup {"idle", "answered"}]
    /\ key \in [Requests -> Keys \cup {NoKey}]
    /\ body \in [Requests -> Bodies \cup {NoKey}]
    /\ idempotency \in [Requests -> Keys \cup {NoKey}]
    /\ txn \in [Requests -> TxnType \cup {NoTxn}]
    /\ response \in [Requests -> [status : {0, 201, 500} \cup Refused, id : Ids \cup {<<>>}]]
    /\ now \in 0 .. MaxTime
    /\ faults \in 0 .. MaxFaults
    /\ orphans \subseteq TxnType

\* Work is not done twice under one key before the key has had its full time on
\* record: whatever retries, duplicates and crashes there are, the second piece
\* of work commits more than Ttl after the first began (idempotency.service.ts:57-74).
KeysOutliveTtl ==
    \A v, w \in done : v # w /\ v.key = w.key /\ v.key # NoKey =>
        v.committed > w.begun + Ttl \/ w.committed > v.begun + Ttl

\* A 201 stands for work that is done, and that was done for this key and this
\* body, by this request or by the one it repeats (idempotency.plugin.ts:36-43).
AnswersAreOfTheRequest ==
    \A r \in Requests : response[r].status = 201 =>
        \E w \in done :
            /\ w.id = response[r].id
            /\ w.body = body[r]
            /\ HookApplies => w.key = key[r]

\* A key on record stands for work that is in the tables: a response is never
\* cached for work rolled back (README.md:11).
CachedWorkIsDone ==
    \A k \in DOMAIN idempotencyKeys :
        \E w \in done :
            /\ w.id = idempotencyKeys[k].id
            /\ w.key = k
            /\ w.body = idempotencyKeys[k].requestHash

\* The keys and the work as a reader of the tables sees them.
Promise == INSTANCE KeyedWork WITH record <- idempotencyKeys, work <- done

\* Every commit, that of a lost connection too, finds its key off the record and puts
\* it there, under an id of its own, and only time takes it away: lookup, work and
\* record are one atomic step (idempotency.plugin.ts:36-43, idempotency.service.ts:57-74).
WorkIsKeyed == Promise!Spec

\* However often it fails and is retried, a request comes to its
\* work or to a refusal for good: the retry of a request that was done finds the
\* record, and does not fail on it again (idempotency.plugin.ts:36-43).
RetriesSettle ==
    \A r \in Requests : pc[r] # "idle" ~>
        [](pc[r] = "answered" /\ response[r].status \in {201} \cup Refused)

\* What tests/integration/idempotency.test.ts:11-23 expects: the same request
\* under the same key within its time gets the same answer.
ReplaysAreIdentical ==
    \A q, r \in Requests :
        /\ response[q].status = 201 /\ response[r].status = 201
        /\ key[q] = key[r] /\ key[q] # NoKey /\ body[q] = body[r] /\ now <= Ttl
        => response[q].id = response[r].id
=============================================================================
