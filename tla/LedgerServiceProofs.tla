-------------------------- MODULE LedgerServiceProofs ---------------------------
(***************************************************************************)
(* Proofs about LedgerService, for any set of requests, keys and bodies,   *)
(* any time a key lives, any number of faults, and whether or not the hook *)
(* applies.                                                                *)
(***************************************************************************)
EXTENDS LedgerService, FiniteSetTheorems, TLAPS

Labels == InFlight \cup {"idle", "answered"}
Statuses == {0, 201, 500} \cup Refused
DoneType == [id : Ids, key : Keys \cup {NoKey}, body : Bodies,
             begun : 0 .. MaxTime, committed : 0 .. MaxTime]

\* The tables, and what may still become part of them.
TablesOK ==
    /\ DOMAIN idempotencyKeys \subseteq Keys
    /\ \A k \in DOMAIN idempotencyKeys :
         idempotencyKeys[k] \in [requestHash : Bodies, id : Ids, createdAt : 0 .. MaxTime]
    /\ done \subseteq DoneType /\ IsFiniteSet(done)

WorldOK ==
    /\ now \in 0 .. MaxTime /\ faults \in 0 .. MaxFaults
    /\ orphans \subseteq TxnType /\ IsFiniteSet(orphans)

Shapes ==
    /\ pc \in [Requests -> Labels]
    /\ key \in [Requests -> Keys \cup {NoKey}]
    /\ body \in [Requests -> Bodies \cup {NoKey}]
    /\ idempotency \in [Requests -> Keys \cup {NoKey}]
    /\ txn \in [Requests -> TxnType \cup {NoTxn}]
    /\ response \in [Requests -> [status : Statuses, id : Ids \cup {<<>>}]]

\* Work of r that is done, under this id.
Done(r, id) == \E w \in done :
    w.id = id /\ w.body = body[r] /\ (HookApplies => w.key = key[r])

\* What the handler of a request knows of it.
RequestOK(r) ==
    /\ pc[r] # "idle" => body[r] \in Bodies
    /\ pc[r] \in InFlight => idempotency[r] = IF HookApplies THEN key[r] ELSE NoKey
    /\ pc[r] \in InTransaction \cup {"committed"} =>
         txn[r] \in TxnType /\ txn[r].key = idempotency[r] /\ txn[r].body = body[r]
    /\ pc[r] = "committed" => Done(r, txn[r].id)
    /\ response[r].status = 201 => pc[r] = "answered" /\ Done(r, response[r].id)

\* Those who have passed persist, or whose COMMIT is on its way, have their key to
\* themselves, and it is not on record.
KeyInv ==
    /\ \A r \in Requests : pc[r] = "committing" /\ txn[r].key # NoKey =>
        /\ txn[r].key \notin DOMAIN idempotencyKeys
        /\ \A q \in Requests \ {r} : pc[q] = "committing" => txn[q].key # txn[r].key
        /\ \A t \in orphans : t.key # txn[r].key
    /\ \A t \in orphans : t.key # NoKey =>
        /\ t.key \notin DOMAIN idempotencyKeys
        /\ \A u \in orphans : u.key = t.key => u = t

\* Work under a key has its record, or is older than a record may become.
RecordInv ==
    \A v \in done : v.key # NoKey =>
        \/ v.key \in DOMAIN idempotencyKeys /\ idempotencyKeys[v.key].createdAt = v.begun
        \/ v.begun + Ttl < now

Requested == Shapes /\ \A r \in Requests : RequestOK(r)
Recorded == TablesOK /\ RecordInv /\ KeysOutliveTtl /\ CachedWorkIsDone

\* The inductive invariant.
ServiceInv == Recorded /\ Requested /\ KeyInv /\ WorldOK

LEMMA ServiceInvSuffices ==
    ASSUME ServiceInv
    PROVE  TypeOK /\ KeysOutliveTtl /\ AnswersAreOfTheRequest /\ CachedWorkIsDone
<1>1. TypeOK
  BY DEF ServiceInv, Recorded, Requested, TablesOK, WorldOK, Shapes, TypeOK, DoneType, Labels, Statuses
<1>2. AnswersAreOfTheRequest
  BY DEF ServiceInv, Requested, RequestOK, Done, AnswersAreOfTheRequest
<1>3. QED
  BY <1>1, <1>2 DEF ServiceInv, Recorded

\* The statuses that the model names.
LEMMA StatusesNamed ==
    /\ \A code \in Refusals : StatusOf(code) \in Refused /\ StatusOf(code) # 201
    /\ StatusOf("idempotency_key_required") \in Statuses \ {201}
    /\ StatusOf("idempotency_conflict") \in Statuses \ {201}
    /\ StatusOf("unbalanced_transaction") \in Statuses \ {201}
    /\ StatusOf("internal_error") \in Statuses \ {201}
<1>1. \A code \in Refusals : StatusOf(code) \in Refused
  BY DEF Refused
<1>2. \A code \in Refusals : StatusOf(code) # 201
  BY DEF StatusOf, Refusals, NotFound, Conflict, BadRequest, Unprocessable
<1>3. {"idempotency_key_required", "idempotency_conflict", "unbalanced_transaction"} \subseteq Refusals
  BY DEF Refusals, NotFound, Conflict, BadRequest, Unprocessable
<1>4. StatusOf("internal_error") = 500
  BY DEF StatusOf, NotFound, Conflict, BadRequest, Unprocessable
<1>5. QED
  BY <1>1, <1>2, <1>3, <1>4 DEF Statuses

LEMMA InitInv == Init => ServiceInv
<1>1. SUFFICES ASSUME Init PROVE ServiceInv
  OBVIOUS
<1>2. Recorded
  BY <1>1, FS_EmptySet
  DEF Init, NoRecords, Recorded, TablesOK, RecordInv, KeysOutliveTtl, CachedWorkIsDone
<1>3. Requested
  BY <1>1 DEF Init, Requested, Shapes, RequestOK, Labels, InFlight, InTransaction, Statuses, NoAnswer
<1>4. KeyInv /\ WorldOK
  BY <1>1, FS_EmptySet, BoundsAreNatural DEF Init, KeyInv, WorldOK
<1>5. QED
  BY <1>2, <1>3, <1>4 DEF ServiceInv

-----------------------------------------------------------------------------
(* One request moves.                                                      *)

Others(r) == \A q \in Requests \ {r} :
    /\ pc'[q] = pc[q] /\ key'[q] = key[q] /\ body'[q] = body[q]
    /\ idempotency'[q] = idempotency[q] /\ txn'[q] = txn[q] /\ response'[q] = response[q]

LEMMA OneRequestMoves ==
    ASSUME Requested, NEW r \in Requests, Shapes', Others(r), RequestOK(r)', done \subseteq done'
    PROVE  Requested'
<1>1. ASSUME NEW q \in Requests \ {r} PROVE RequestOK(q)'
  <2>1. RequestOK(q)
    BY DEF Requested
  <2>2. \A id : Done(q, id) => Done(q, id)'
    BY DEF Done, Others
  <2>3. QED
    BY <2>1, <2>2 DEF RequestOK, Others
<1>2. QED
  BY <1>1 DEF Requested

\* It does not get to where its key is on its way to the record.
LEMMA NoOneCommits ==
    ASSUME KeyInv, NEW r \in Requests, Others(r), pc'[r] # "committing",
           DOMAIN idempotencyKeys' \subseteq DOMAIN idempotencyKeys, orphans' \subseteq orphans
    PROVE  KeyInv'
BY DEF KeyInv, Others

\* It is answered.
LEMMA AnswerKeeps ==
    ASSUME Requested, NEW r \in Requests, NEW status \in Statuses, NEW id \in Ids \cup {<<>>},
           Answer(r, status, id), UNCHANGED request, pc[r] # "idle",
           status = 201 => Done(r, id), done \subseteq done'
    PROVE  Requested' /\ Others(r) /\ pc'[r] = "answered"
<1>1. /\ pc' = [pc EXCEPT ![r] = "answered"] /\ txn' = [txn EXCEPT ![r] = NoTxn]
      /\ response' = [response EXCEPT ![r] = [status |-> status, id |-> id]]
      /\ UNCHANGED <<key, body, idempotency>>
  BY DEF Answer, Goto, request
<1>2. Shapes' /\ Others(r)
  BY <1>1 DEF Requested, Shapes, Others, Labels
<1>3. pc'[r] = "answered" /\ response'[r] = [status |-> status, id |-> id]
  BY <1>1 DEF Requested, Shapes
<1>4. status = 201 => Done(r, id)'
  BY <1>1 DEF Done
<1>5. body'[r] \in Bodies
  BY <1>1 DEF Requested, RequestOK
<1>6. RequestOK(r)'
  BY <1>3, <1>4, <1>5 DEF RequestOK, InFlight, InTransaction
<1>7. QED
  BY <1>2, <1>3, <1>6, OneRequestMoves

LEMMA TablesStay ==
    ASSUME ServiceInv, UNCHANGED <<tables, now>>
    PROVE  Recorded' /\ done \subseteq done' /\ DOMAIN idempotencyKeys' = DOMAIN idempotencyKeys
BY DEF ServiceInv, Recorded, TablesOK, RecordInv, KeysOutliveTtl, CachedWorkIsDone, tables

LEMMA WorldStays ==
    ASSUME ServiceInv, UNCHANGED world
    PROVE  WorldOK'
BY DEF ServiceInv, WorldOK, world

\* A refusal or a failure that leaves everything else alone.
LEMMA TurnedAway ==
    ASSUME ServiceInv, NEW r \in Requests, NEW status \in Statuses \ {201}, pc[r] # "idle",
           Answer(r, status, <<>>), UNCHANGED <<tables, request, world>>
    PROVE  ServiceInv'
<1>1. Recorded' /\ done \subseteq done' /\ DOMAIN idempotencyKeys' = DOMAIN idempotencyKeys /\ WorldOK'
  BY TablesStay, WorldStays DEF world
<1>2. Requested' /\ Others(r) /\ pc'[r] = "answered"
  BY <1>1, AnswerKeeps DEF ServiceInv
<1>3. KeyInv'
  BY <1>1, <1>2, NoOneCommits DEF ServiceInv, world
<1>4. QED
  BY <1>1, <1>2, <1>3 DEF ServiceInv

\* It goes on to another statement before its transaction's end.
LEMMA GoesOn ==
    ASSUME ServiceInv, NEW r \in Requests, Shapes', Others(r), RequestOK(r)',
           pc'[r] # "committing", UNCHANGED <<tables, world>>
    PROVE  ServiceInv'
<1>1. Recorded' /\ done \subseteq done' /\ DOMAIN idempotencyKeys' = DOMAIN idempotencyKeys /\ WorldOK'
  BY TablesStay, WorldStays DEF world
<1>2. Requested'
  BY <1>1, OneRequestMoves DEF ServiceInv
<1>3. KeyInv'
  BY <1>1, NoOneCommits DEF ServiceInv, world
<1>4. QED
  BY <1>1, <1>2, <1>3 DEF ServiceInv

-----------------------------------------------------------------------------
(* The preHandler.                                                         *)

\* A request comes in, for the first time or again.
LEMMA ArriveKeeps ==
    ASSUME ServiceInv, NEW r \in Requests, Arrive(r), UNCHANGED <<tables, world>>,
           key' \in [Requests -> Keys \cup {NoKey}], body' \in [Requests -> Bodies \cup {NoKey}],
           \A q \in Requests \ {r} : key'[q] = key[q] /\ body'[q] = body[q],
           body'[r] \in Bodies, response[r].status # 201
    PROVE  ServiceInv'
<1>0. Shapes
  BY DEF ServiceInv, Requested
<1>1. CASE ~HookApplies
  <2>1. /\ pc' = [pc EXCEPT ![r] = "handler"] /\ idempotency' = [idempotency EXCEPT ![r] = NoKey]
        /\ UNCHANGED <<txn, response>>
    BY <1>1 DEF Arrive, Goto
  <2>2. Shapes' /\ Others(r)
    BY <1>0, <2>1 DEF Shapes, Others, Labels, InFlight
  <2>3. pc'[r] = "handler" /\ idempotency'[r] = NoKey /\ response'[r] = response[r]
    BY <1>0, <2>1 DEF Shapes
  <2>4. RequestOK(r)'
    BY <1>1, <2>3 DEF RequestOK, InTransaction
  <2>5. QED
    BY <2>2, <2>3, <2>4, GoesOn
<1>2. CASE HookApplies /\ key'[r] = NoKey
  <2>1. /\ pc' = [pc EXCEPT ![r] = "answered"] /\ txn' = [txn EXCEPT ![r] = NoTxn]
        /\ response' = [response EXCEPT ![r] =
                          [status |-> StatusOf("idempotency_key_required"), id |-> <<>>]]
        /\ UNCHANGED idempotency
    BY <1>2 DEF Arrive, Answer, Goto
  <2>2. Shapes' /\ Others(r)
    BY <1>0, <2>1, StatusesNamed DEF Shapes, Others, Labels
  <2>3. pc'[r] = "answered" /\ response'[r].status # 201
    BY <1>0, <2>1, StatusesNamed DEF Shapes
  <2>4. RequestOK(r)'
    BY <2>3 DEF RequestOK, InFlight, InTransaction
  <2>5. QED
    BY <2>2, <2>3, <2>4, GoesOn
<1>3. CASE HookApplies /\ key'[r] # NoKey
  <2>1. /\ pc' = [pc EXCEPT ![r] = "lookup"] /\ idempotency' = [idempotency EXCEPT ![r] = key'[r]]
        /\ UNCHANGED <<txn, response>>
    BY <1>3 DEF Arrive, Goto
  <2>2. Shapes' /\ Others(r)
    BY <1>0, <2>1 DEF Shapes, Others, Labels, InFlight
  <2>3. pc'[r] = "lookup" /\ idempotency'[r] = key'[r] /\ response'[r] = response[r]
    BY <1>0, <2>1 DEF Shapes
  <2>4. RequestOK(r)'
    BY <1>3, <2>3 DEF RequestOK, InTransaction
  <2>5. QED
    BY <2>2, <2>3, <2>4, GoesOn
<1>4. QED
  BY <1>1, <1>2, <1>3

LEMMA SendKeeps ==
    ASSUME ServiceInv, NEW r \in Requests, NEW k \in Keys \cup {NoKey}, NEW b \in Bodies, Send(r, k, b)
    PROVE  ServiceInv'
<1>1. /\ pc[r] = "idle" /\ key' = [key EXCEPT ![r] = k] /\ body' = [body EXCEPT ![r] = b]
      /\ Arrive(r) /\ UNCHANGED <<tables, world>>
  BY DEF Send
<1>2. RequestOK(r) /\ Shapes
  BY DEF ServiceInv, Requested
<1>3. response[r].status # 201
  BY <1>1, <1>2 DEF RequestOK
<1>4. /\ key' \in [Requests -> Keys \cup {NoKey}] /\ body' \in [Requests -> Bodies \cup {NoKey}]
      /\ \A q \in Requests \ {r} : key'[q] = key[q] /\ body'[q] = body[q]
      /\ body'[r] \in Bodies
  BY <1>1, <1>2 DEF Shapes
<1>5. QED
  BY <1>1, <1>3, <1>4, ArriveKeeps

LEMMA RetryKeeps ==
    ASSUME ServiceInv, NEW r \in Requests, Retry(r)
    PROVE  ServiceInv'
<1>1. RequestOK(r) /\ Shapes
  BY DEF ServiceInv, Requested
<1>2. pc[r] = "answered" /\ response[r].status \in {0, 500} /\ UNCHANGED <<key, body, tables, world>>
      /\ Arrive(r)
  BY DEF Retry
<1>3. body[r] \in Bodies
  BY <1>1, <1>2 DEF RequestOK
<1>4. QED
  BY <1>1, <1>2, <1>3, ArriveKeeps DEF Shapes

LEMMA findCachedKeeps ==
    ASSUME ServiceInv, NEW r \in Requests, findCached(r)
    PROVE  ServiceInv'
<1> DEFINE k == idempotency[r]
<1>1. RequestOK(r) /\ Shapes /\ pc[r] = "lookup" /\ UNCHANGED <<tables, request, world>>
  BY DEF ServiceInv, Requested, findCached
<1>2. CASE k \notin DOMAIN idempotencyKeys
  <2>1. pc' = [pc EXCEPT ![r] = "handler"] /\ UNCHANGED <<txn, response, key, body, idempotency>>
    BY <1>2 DEF findCached, Goto, request
  <2>2. Shapes' /\ Others(r) /\ pc'[r] = "handler"
    BY <1>1, <2>1 DEF Shapes, Others, Labels, InFlight
  <2>3. RequestOK(r)'
    BY <1>1, <2>1, <2>2 DEF RequestOK, InFlight, InTransaction
  <2>4. QED
    BY <1>1, <2>2, <2>3, GoesOn
<1>3. CASE k \in DOMAIN idempotencyKeys /\ idempotencyKeys[k].requestHash # body[r]
  <2>1. Answer(r, StatusOf("idempotency_conflict"), <<>>)
    BY <1>3 DEF findCached
  <2>2. QED
    BY <1>1, <2>1, StatusesNamed, TurnedAway
<1>4. CASE k \in DOMAIN idempotencyKeys /\ idempotencyKeys[k].requestHash = body[r]
  <2>1. Answer(r, 201, idempotencyKeys[k].id)
    BY <1>4 DEF findCached
  <2>2. idempotencyKeys[k].id \in Ids /\ 201 \in Statuses
    BY <1>4 DEF ServiceInv, Recorded, TablesOK, Statuses
  <2>3. PICK w \in done : w.id = idempotencyKeys[k].id /\ w.key = k
                          /\ w.body = idempotencyKeys[k].requestHash
    BY <1>4 DEF ServiceInv, Recorded, CachedWorkIsDone
  <2>4. HookApplies => k = key[r]
    BY <1>1 DEF RequestOK, InFlight
  <2>5. Done(r, idempotencyKeys[k].id)
    BY <1>4, <2>3, <2>4 DEF Done
  <2>6. Recorded' /\ done \subseteq done' /\ DOMAIN idempotencyKeys' = DOMAIN idempotencyKeys /\ WorldOK'
    BY <1>1, TablesStay, WorldStays DEF world
  <2>7. Requested' /\ Others(r) /\ pc'[r] = "answered"
    BY <1>1, <2>1, <2>2, <2>5, <2>6, AnswerKeeps DEF ServiceInv
  <2>8. KeyInv'
    BY <1>1, <2>6, <2>7, NoOneCommits DEF ServiceInv, world
  <2>9. QED
    BY <2>6, <2>7, <2>8 DEF ServiceInv
<1>5. QED
  BY <1>2, <1>3, <1>4

-----------------------------------------------------------------------------
(* The handler.                                                            *)

LEMMA RefuseKeeps ==
    ASSUME ServiceInv, NEW r \in Requests, Refuse(r)
    PROVE  ServiceInv'
BY StatusesNamed, TurnedAway DEF Refuse

\* There is always a number that is not in use.
LEMMA NewIdIsNew ==
    ASSUME ServiceInv, NEW r \in Requests
    PROVE  /\ NewId(r) \in Nat \ {0}
           /\ \A t \in done \cup orphans : t.id # <<r, NewId(r)>>
<1> DEFINE mine == {t \in done \cup orphans : t.id[1] = r}
           used == {t.id[2] : t \in mine}
           number == [t \in mine |-> t.id[2]]
<1>1. IsFiniteSet(done \cup orphans)
  BY FS_Union DEF ServiceInv, Recorded, TablesOK, WorldOK
<1>2. IsFiniteSet(mine)
  BY <1>1, FS_Subset
<1>3. number \in Surjection(mine, used)
  BY DEF Surjection
<1>4. IsFiniteSet(used)
  BY <1>2, <1>3, FS_Surjection
<1>5. Cardinality(used) \in Nat
  BY <1>4, FS_CardinalityType
<1> DEFINE c == Cardinality(used)
<1>6. \E n \in 1 .. c + 1 : n \notin used
  <2>1. SUFFICES ASSUME 1 .. c + 1 \in SUBSET used PROVE FALSE
    OBVIOUS
  <2>2. Cardinality(1 .. c + 1) <= c
    BY <1>4, <2>1, FS_Subset
  <2>3. Cardinality(1 .. c + 1) = c + 1
    <3>1. 1 \in Int /\ c + 1 \in Int /\ ~(1 > c + 1) /\ (c + 1) - 1 + 1 = c + 1
      BY <1>5
    <3>2. QED
      BY <3>1, FS_Interval
  <2>4. QED
    BY <1>5, <2>2, <2>3
<1>7. NewId(r) = CHOOSE n \in 1 .. c + 1 : n \notin used
  BY DEF NewId
<1> HIDE DEF c, used
<1>8. NewId(r) \in 1 .. c + 1 /\ NewId(r) \notin used
  BY <1>6, <1>7
<1>9. c \in Nat
  BY <1>5 DEF c
<1>10. \A t \in done \cup orphans : t.id # <<r, NewId(r)>>
  <2>1. \A t \in done \cup orphans : t.id[1] = r => t.id[2] \in used
    BY DEF used
  <2>2. QED
    BY <1>8, <2>1
<1>11. QED
  BY <1>8, <1>9, <1>10

LEMMA BeginKeeps ==
    ASSUME ServiceInv, NEW r \in Requests, Begin(r)
    PROVE  ServiceInv'
<1> DEFINE t == [id |-> <<r, NewId(r)>>, key |-> idempotency[r], body |-> body[r], begun |-> now]
<1>1. RequestOK(r) /\ Shapes /\ pc[r] = "handler"
  BY DEF ServiceInv, Requested, Begin
<1>2. /\ txn' = [txn EXCEPT ![r] = t] /\ pc' = [pc EXCEPT ![r] = "writing"]
      /\ UNCHANGED <<tables, key, body, idempotency, response, world>>
  BY DEF Begin, Goto, request
<1>3. body[r] \in Bodies /\ idempotency[r] \in Keys \cup {NoKey} /\ now \in 0 .. MaxTime
  BY <1>1 DEF RequestOK, Shapes, ServiceInv, WorldOK
<1>4. t \in TxnType
  BY <1>3, NewIdIsNew DEF TxnType, Ids
<1>5. t.key = idempotency[r] /\ t.body = body[r]
  OBVIOUS
<1> HIDE DEF t
<1>6. Shapes' /\ Others(r) /\ pc'[r] = "writing" /\ txn'[r] = t
  BY <1>1, <1>2, <1>4 DEF Shapes, Others, Labels, InFlight, InTransaction
<1>7. RequestOK(r)'
  BY <1>1, <1>2, <1>3, <1>4, <1>5, <1>6 DEF RequestOK, InFlight, InTransaction
<1>8. QED
  BY <1>2, <1>6, <1>7, GoesOn

LEMMA persistKeeps ==
    ASSUME ServiceInv, NEW r \in Requests, persist(r)
    PROVE  ServiceInv'
<1>1. RequestOK(r) /\ Shapes /\ pc[r] = "writing" /\ UNCHANGED <<tables, request, world>>
      /\ (txn[r].key # NoKey => ~InsertedByOther(r))
  BY DEF ServiceInv, Requested, persist
<1>2. CASE txn[r].key \in DOMAIN idempotencyKeys
  <2>1. Answer(r, StatusOf("internal_error"), <<>>)
    BY <1>2 DEF persist
  <2>2. QED
    BY <1>1, <2>1, StatusesNamed, TurnedAway
<1>3. CASE txn[r].key \notin DOMAIN idempotencyKeys
  <2>1. /\ pc' = [pc EXCEPT ![r] = "committing"]
        /\ UNCHANGED <<txn, response, key, body, idempotency>>
    BY <1>1, <1>3 DEF persist, Goto, request
  <2>2. Shapes' /\ Others(r) /\ pc'[r] = "committing"
    BY <1>1, <2>1 DEF Shapes, Others, Labels, InFlight, InTransaction
  <2>3. RequestOK(r)'
    BY <1>1, <2>1, <2>2 DEF RequestOK, InFlight, InTransaction
  <2>4. Recorded' /\ done \subseteq done' /\ WorldOK' /\ UNCHANGED <<idempotencyKeys, orphans>>
    BY <1>1, TablesStay, WorldStays DEF world, tables
  <2>5. Requested'
    BY <2>2, <2>3, <2>4, OneRequestMoves DEF ServiceInv
  <2>6. txn[r].key # NoKey =>
          /\ \A q \in Requests \ {r} : pc[q] = "committing" => txn[q].key # txn[r].key
          /\ \A t \in orphans : t.key # txn[r].key
    BY <1>1 DEF InsertedByOther
  <2>7. KeyInv'
    <3>1. KeyInv
      BY DEF ServiceInv
    <3>2. \A q \in Requests : pc'[q] = "committing" <=> q = r \/ pc[q] = "committing"
      BY <1>1, <2>1 DEF Shapes
    <3>3. ASSUME NEW p \in Requests, pc'[p] = "committing", txn[p].key # NoKey
          PROVE  /\ txn[p].key \notin DOMAIN idempotencyKeys
                 /\ \A q \in Requests \ {p} : pc'[q] = "committing" => txn[q].key # txn[p].key
                 /\ \A t \in orphans : t.key # txn[p].key
      <4>1. CASE p = r
        BY <1>3, <2>6, <3>2, <3>3, <4>1
      <4>2. CASE p # r
        BY <2>6, <3>1, <3>2, <3>3, <4>2 DEF KeyInv
      <4>3. QED
        BY <4>1, <4>2
    <3>4. QED
      BY <2>1, <2>4, <3>1, <3>3 DEF KeyInv
  <2>8. QED
    BY <2>4, <2>5, <2>7 DEF ServiceInv
<1>4. QED
  BY <1>2, <1>3

\* What a COMMIT makes visible: the work, and its key, which nobody has put on record
\* in the meantime; so all earlier work under it is older than a record may become.
LEMMA PublishKeeps ==
    ASSUME ServiceInv, NEW t \in TxnType, Publish(t), UNCHANGED now,
           t.key # NoKey => t.key \notin DOMAIN idempotencyKeys
    PROVE  /\ Recorded' /\ done \subseteq done'
           /\ DOMAIN idempotencyKeys' = IF t.key = NoKey THEN DOMAIN idempotencyKeys
                                        ELSE DOMAIN idempotencyKeys \cup {t.key}
           /\ \E w \in done' : w.id = t.id /\ w.key = t.key /\ w.body = t.body
<1> DEFINE w == [id |-> t.id, key |-> t.key, body |-> t.body, begun |-> t.begun, committed |-> now]
<1>1. done' = done \cup {w}
  BY DEF Publish
<1>2. /\ t.id \in Ids /\ t.key \in Keys \cup {NoKey} /\ t.body \in Bodies /\ t.begun \in 0 .. MaxTime
      /\ now \in 0 .. MaxTime
  BY DEF TxnType, ServiceInv, WorldOK
<1>3. w \in DoneType
  BY <1>2 DEF DoneType
<1>4. /\ w.id = t.id /\ w.key = t.key /\ w.body = t.body /\ w.begun = t.begun /\ w.committed = now
  OBVIOUS
<1> HIDE DEF w
<1>5. CASE t.key = NoKey
  <2>1. idempotencyKeys' = idempotencyKeys
    BY <1>5 DEF Publish
  <2>2. TablesOK'
    BY <1>1, <1>3, <2>1, FS_AddElement DEF ServiceInv, Recorded, TablesOK
  <2>3. RecordInv' /\ KeysOutliveTtl' /\ CachedWorkIsDone'
    BY <1>1, <1>4, <1>5, <2>1
    DEF ServiceInv, Recorded, RecordInv, KeysOutliveTtl, CachedWorkIsDone
  <2>4. QED
    BY <1>1, <1>4, <1>5, <2>1, <2>2, <2>3 DEF Recorded
<1>6. CASE t.key # NoKey
  <2>0. t.key \in Keys /\ t.key \notin DOMAIN idempotencyKeys
    BY <1>2, <1>6
  <2>1. /\ DOMAIN idempotencyKeys' = DOMAIN idempotencyKeys \cup {t.key}
        /\ idempotencyKeys'[t.key] = Record(t)
        /\ \A k \in DOMAIN idempotencyKeys : idempotencyKeys'[k] = idempotencyKeys[k]
    BY <1>6, <2>0 DEF Publish
  <2>2. Record(t) \in [requestHash : Bodies, id : Ids, createdAt : 0 .. MaxTime]
        /\ Record(t).createdAt = t.begun /\ Record(t).id = t.id /\ Record(t).requestHash = t.body
    BY <1>2 DEF Record
  <2>3. TablesOK'
    BY <1>1, <1>3, <2>0, <2>1, <2>2, FS_AddElement DEF ServiceInv, Recorded, TablesOK
  <2>4. RecordInv'
    BY <1>1, <1>4, <2>0, <2>1, <2>2 DEF ServiceInv, Recorded, RecordInv
  <2>5. CachedWorkIsDone'
    BY <1>1, <1>4, <2>1, <2>2 DEF ServiceInv, Recorded, CachedWorkIsDone
  <2>6. \A v \in done : v.key = t.key => v.begun + Ttl < now
    BY <1>6, <2>0 DEF ServiceInv, Recorded, RecordInv
  <2>7. \A v \in done : v.key = t.key => w.committed > v.begun + Ttl
    <3>1. ASSUME NEW v \in done, v.key = t.key PROVE w.committed > v.begun + Ttl
      <4>1. v.begun + Ttl < now /\ v.begun \in 0 .. MaxTime
        BY <2>6, <3>1 DEF ServiceInv, Recorded, TablesOK, DoneType
      <4>2. QED
        BY <1>2, <1>4, <4>1, BoundsAreNatural
    <3>2. QED
      BY <3>1
  <2>8. KeysOutliveTtl'
    BY <1>1, <1>4, <2>7 DEF ServiceInv, Recorded, KeysOutliveTtl
  <2>9. QED
    BY <1>1, <1>4, <1>6, <2>1, <2>3, <2>4, <2>5, <2>8 DEF Recorded
<1>7. QED
  BY <1>5, <1>6

LEMMA CommitKeeps ==
    ASSUME ServiceInv, NEW r \in Requests, Commit(r)
    PROVE  ServiceInv'
<1>1. /\ pc[r] = "committing" /\ Publish(txn[r]) /\ pc' = [pc EXCEPT ![r] = "committed"]
      /\ UNCHANGED <<key, body, idempotency, txn, response, world>>
  BY DEF Commit, Goto, request
<1>2. RequestOK(r) /\ Shapes /\ KeyInv
  BY DEF ServiceInv, Requested
<1>3. txn[r] \in TxnType /\ txn[r].key = idempotency[r] /\ txn[r].body = body[r]
      /\ (txn[r].key # NoKey => txn[r].key \notin DOMAIN idempotencyKeys)
  BY <1>1, <1>2 DEF RequestOK, InTransaction, KeyInv
<1>4. /\ Recorded' /\ done \subseteq done'
      /\ DOMAIN idempotencyKeys' = IF txn[r].key = NoKey THEN DOMAIN idempotencyKeys
                                   ELSE DOMAIN idempotencyKeys \cup {txn[r].key}
      /\ \E w \in done' : w.id = txn[r].id /\ w.key = txn[r].key /\ w.body = txn[r].body
  BY <1>1, <1>3, PublishKeeps DEF world
<1>5. Shapes' /\ Others(r) /\ pc'[r] = "committed"
  BY <1>1, <1>2 DEF Shapes, Others, Labels, InFlight
<1>6. Done(r, txn[r].id)'
  BY <1>1, <1>2, <1>3, <1>4 DEF Done, RequestOK, InFlight, InTransaction
<1>7. RequestOK(r)'
  BY <1>1, <1>2, <1>5, <1>6 DEF RequestOK, InFlight, InTransaction
<1>8. Requested'
  BY <1>4, <1>5, <1>7, OneRequestMoves DEF ServiceInv
<1>9. WorldOK'
  BY <1>1, WorldStays
<1>10. KeyInv'
  <2>1. \A q \in Requests : pc'[q] = "committing" => q # r /\ pc[q] = "committing"
    BY <1>1, <1>2 DEF Shapes
  <2>2. QED
    BY <1>1, <1>2, <1>4, <2>1 DEF KeyInv, world
<1>11. QED
  BY <1>4, <1>8, <1>9, <1>10 DEF ServiceInv

LEMMA ReplyKeeps ==
    ASSUME ServiceInv, NEW r \in Requests, Reply(r)
    PROVE  ServiceInv'
<1>1. pc[r] = "committed" /\ Answer(r, 201, txn[r].id) /\ UNCHANGED <<tables, request, world>>
  BY DEF Reply
<1>2. RequestOK(r)
  BY DEF ServiceInv, Requested
<1>3. Done(r, txn[r].id) /\ txn[r].id \in Ids /\ 201 \in Statuses
  BY <1>1, <1>2 DEF RequestOK, InTransaction, TxnType, Statuses
<1>4. Recorded' /\ done \subseteq done' /\ DOMAIN idempotencyKeys' = DOMAIN idempotencyKeys /\ WorldOK'
  BY <1>1, TablesStay, WorldStays DEF world
<1>5. Requested' /\ Others(r) /\ pc'[r] = "answered"
  BY <1>1, <1>3, <1>4, AnswerKeeps DEF ServiceInv
<1>6. KeyInv'
  BY <1>1, <1>4, <1>5, NoOneCommits DEF ServiceInv, world
<1>7. QED
  BY <1>4, <1>5, <1>6 DEF ServiceInv

-----------------------------------------------------------------------------
(* Cleanup, time and faults.                                               *)

LEMMA cleanupExpiredKeeps ==
    ASSUME ServiceInv, cleanupExpired
    PROVE  ServiceInv'
<1>1. /\ DOMAIN idempotencyKeys' = {k \in DOMAIN idempotencyKeys :
                                      idempotencyKeys[k].createdAt >= now - Ttl}
      /\ \A k \in DOMAIN idempotencyKeys' : idempotencyKeys'[k] = idempotencyKeys[k]
      /\ UNCHANGED <<done, pc, key, body, idempotency, txn, response, world>>
  BY DEF cleanupExpired, request
<1>2. TablesOK' /\ KeysOutliveTtl' /\ CachedWorkIsDone'
  BY <1>1 DEF ServiceInv, Recorded, TablesOK, KeysOutliveTtl, CachedWorkIsDone
<1>3. ASSUME NEW v \in done, v.key # NoKey
      PROVE  \/ v.key \in DOMAIN idempotencyKeys' /\ idempotencyKeys'[v.key].createdAt = v.begun
             \/ v.begun + Ttl < now
  <2>1. v.begun \in 0 .. MaxTime /\ now \in 0 .. MaxTime /\ Ttl \in Nat /\ MaxTime \in Nat
    BY BoundsAreNatural DEF ServiceInv, Recorded, TablesOK, DoneType, WorldOK
  <2>2. CASE v.begun + Ttl < now
    BY <2>2
  <2>3. CASE v.key \in DOMAIN idempotencyKeys /\ idempotencyKeys[v.key].createdAt = v.begun
             /\ ~(v.begun + Ttl < now)
    <3>1. v.begun >= now - Ttl
      BY <2>1, <2>3
    <3>2. v.key \in DOMAIN idempotencyKeys'
      BY <1>1, <2>3, <3>1
    <3>3. QED
      BY <1>1, <2>3, <3>2
  <2>4. QED
    BY <1>3, <2>2, <2>3 DEF ServiceInv, Recorded, RecordInv
<1>4. RecordInv'
  BY <1>1, <1>3 DEF RecordInv, world
<1>5. Requested' /\ KeyInv' /\ WorldOK'
  BY <1>1 DEF ServiceInv, Requested, Shapes, RequestOK, Done, KeyInv, WorldOK, world
<1>6. QED
  BY <1>2, <1>4, <1>5 DEF ServiceInv, Recorded

LEMMA TickKeeps ==
    ASSUME ServiceInv, Tick
    PROVE  ServiceInv'
<1>1. /\ now < MaxTime /\ now' = now + 1
      /\ UNCHANGED <<idempotencyKeys, done, pc, key, body, idempotency, txn, response, faults, orphans>>
  BY DEF Tick, tables, request
<1>2. now \in 0 .. MaxTime /\ MaxTime \in Nat /\ Ttl \in Nat
  BY BoundsAreNatural DEF ServiceInv, WorldOK
<1>3. RecordInv'
  <2>1. ASSUME NEW v \in done, v.begun + Ttl < now PROVE v.begun + Ttl < now'
    <3>1. v.begun \in 0 .. MaxTime
      BY DEF ServiceInv, Recorded, TablesOK, DoneType
    <3>2. QED
      BY <1>1, <1>2, <2>1, <3>1
  <2>2. QED
    BY <1>1, <2>1 DEF ServiceInv, Recorded, RecordInv
<1>4. TablesOK' /\ KeysOutliveTtl' /\ CachedWorkIsDone'
  BY <1>1 DEF ServiceInv, Recorded, TablesOK, KeysOutliveTtl, CachedWorkIsDone
<1>5. Requested' /\ KeyInv'
  BY <1>1 DEF ServiceInv, Requested, Shapes, RequestOK, Done, KeyInv
<1>6. WorldOK'
  BY <1>1, <1>2 DEF ServiceInv, WorldOK
<1>7. QED
  BY <1>3, <1>4, <1>5, <1>6 DEF ServiceInv, Recorded

LEMMA FaultCounts ==
    ASSUME ServiceInv, Fault
    PROVE  Recorded' /\ done \subseteq done' /\ UNCHANGED <<idempotencyKeys, request>>
           /\ now' \in 0 .. MaxTime /\ faults' \in 0 .. MaxFaults
<1>1. faults' \in 0 .. MaxFaults
  BY BoundsAreNatural DEF ServiceInv, WorldOK, Fault
<1>2. QED
  BY <1>1, TablesStay DEF ServiceInv, WorldOK, Fault, tables

\* The COMMITs of lost connections have been through persist, and keep their keys.
LEMMA DisconnectKeeps ==
    ASSUME ServiceInv, NEW dropped \in SUBSET Requests, Disconnect(dropped), UNCHANGED idempotencyKeys,
           \A r \in dropped : pc'[r] # "committing",
           \A r \in Requests \ dropped : pc'[r] = pc[r] /\ txn'[r] = txn[r]
    PROVE  KeyInv' /\ orphans' \subseteq TxnType /\ IsFiniteSet(orphans')
<1>1. PICK sent \in SUBSET {r \in dropped : pc[r] = "committing"} :
         orphans' = orphans \cup {txn[r] : r \in sent}
  BY DEF Disconnect
<1> DEFINE late == {txn[r] : r \in sent}
<1>2. sent \in SUBSET Requests /\ IsFiniteSet(sent)
  BY RequestsAreFinite, FS_Subset
<1>3. [r \in sent |-> txn[r]] \in Surjection(sent, late)
  BY DEF Surjection
<1>4. IsFiniteSet(late)
  BY <1>2, <1>3, FS_Surjection
<1>5. ASSUME NEW r \in sent PROVE txn[r] \in TxnType
  BY <1>2 DEF ServiceInv, Requested, RequestOK, InTransaction
<1>6. orphans' \subseteq TxnType /\ IsFiniteSet(orphans')
  BY <1>1, <1>4, <1>5, FS_Union DEF ServiceInv, WorldOK
<1>7. KeyInv /\ \A r \in sent : pc[r] = "committing"
  BY DEF ServiceInv
<1>8. \A r \in Requests : pc'[r] = "committing" =>
         r \notin dropped /\ pc[r] = "committing" /\ txn'[r] = txn[r]
  OBVIOUS
<1>9. ASSUME NEW r \in Requests, pc'[r] = "committing", txn'[r].key # NoKey
      PROVE  /\ txn'[r].key \notin DOMAIN idempotencyKeys'
             /\ \A q \in Requests \ {r} : pc'[q] = "committing" => txn'[q].key # txn'[r].key
             /\ \A t \in orphans' : t.key # txn'[r].key
  <2>1. r \notin dropped /\ pc[r] = "committing" /\ txn'[r] = txn[r]
    BY <1>8, <1>9
  <2>2. /\ txn[r].key \notin DOMAIN idempotencyKeys
        /\ \A q \in Requests \ {r} : pc[q] = "committing" => txn[q].key # txn[r].key
        /\ \A t \in orphans : t.key # txn[r].key
    BY <1>7, <1>9, <2>1 DEF KeyInv
  <2>3. \A t \in late : t.key # txn[r].key
    BY <1>2, <1>7, <2>1, <2>2
  <2>4. \A t \in orphans' : t.key # txn'[r].key
    BY <1>1, <2>1, <2>2, <2>3
  <2>5. QED
    BY <1>8, <2>1, <2>2, <2>4
<1>10. ASSUME NEW t \in orphans', t.key # NoKey
       PROVE  /\ t.key \notin DOMAIN idempotencyKeys'
              /\ \A u \in orphans' : u.key = t.key => u = t
  <2>1. CASE t \in orphans
    <3>1. ASSUME NEW r \in sent, txn[r].key = t.key PROVE FALSE
      BY <1>2, <1>7, <1>10, <2>1, <3>1 DEF KeyInv
    <3>2. QED
      BY <1>1, <1>7, <1>10, <2>1, <3>1 DEF KeyInv
  <2>2. CASE t \in late
    <3>1. PICK r \in sent : t = txn[r]
      BY <2>2
    <3>2. ASSUME NEW q \in sent, txn[q].key = t.key PROVE q = r
      BY <1>2, <1>7, <1>10, <3>1, <3>2 DEF KeyInv
    <3>3. \A u \in orphans : u.key # t.key
      BY <1>2, <1>7, <1>10, <3>1 DEF KeyInv
    <3>4. t.key \notin DOMAIN idempotencyKeys
      BY <1>2, <1>7, <1>10, <3>1 DEF KeyInv
    <3>5. QED
      BY <1>1, <3>1, <3>2, <3>3, <3>4
  <2>3. QED
    BY <1>1, <2>1, <2>2
<1>11. QED
  BY <1>6, <1>9, <1>10 DEF KeyInv

LEMMA StatementFailsKeeps ==
    ASSUME ServiceInv, NEW r \in Requests, StatementFails(r)
    PROVE  ServiceInv'
<1>1. pc[r] # "idle" /\ Answer(r, StatusOf("internal_error"), <<>>) /\ Disconnect({r}) /\ Fault
  BY DEF StatementFails, InTransaction
<1>2. Recorded' /\ done \subseteq done' /\ UNCHANGED <<idempotencyKeys, request>>
      /\ now' \in 0 .. MaxTime /\ faults' \in 0 .. MaxFaults
  BY <1>1, FaultCounts
<1>3. Requested' /\ Others(r) /\ pc'[r] = "answered"
  BY <1>1, <1>2, StatusesNamed, AnswerKeeps DEF ServiceInv
<1>4. KeyInv' /\ orphans' \subseteq TxnType /\ IsFiniteSet(orphans')
  BY <1>1, <1>2, <1>3, DisconnectKeeps DEF Others
<1>5. QED
  BY <1>2, <1>3, <1>4 DEF ServiceInv, WorldOK

LEMMA LoseAnswerKeeps ==
    ASSUME ServiceInv, NEW r \in Requests, LoseAnswer(r)
    PROVE  ServiceInv'
<1>1. pc[r] # "idle" /\ Answer(r, 0, <<>>) /\ UNCHANGED orphans /\ Fault /\ 0 \in Statuses
  BY DEF LoseAnswer, Statuses
<1>2. Recorded' /\ done \subseteq done' /\ UNCHANGED <<idempotencyKeys, request>>
      /\ now' \in 0 .. MaxTime /\ faults' \in 0 .. MaxFaults
  BY <1>1, FaultCounts
<1>3. Requested' /\ Others(r) /\ pc'[r] = "answered"
  BY <1>1, <1>2, AnswerKeeps DEF ServiceInv
<1>4. KeyInv'
  BY <1>1, <1>2, <1>3, NoOneCommits DEF ServiceInv
<1>5. QED
  BY <1>1, <1>2, <1>3, <1>4 DEF ServiceInv, WorldOK

LEMMA CrashKeeps ==
    ASSUME ServiceInv, Crash
    PROVE  ServiceInv'
<1> DEFINE dropped == {r \in Requests : pc[r] \in InFlight}
<1>1. /\ pc' = [r \in Requests |-> IF r \in dropped THEN "answered" ELSE pc[r]]
      /\ response' = [r \in Requests |-> IF r \in dropped THEN NoAnswer ELSE response[r]]
      /\ txn' = [r \in Requests |-> IF r \in dropped THEN NoTxn ELSE txn[r]]
      /\ Disconnect(dropped) /\ Fault
  BY DEF Crash
<1>2. Recorded' /\ done \subseteq done' /\ UNCHANGED <<idempotencyKeys, request>>
      /\ now' \in 0 .. MaxTime /\ faults' \in 0 .. MaxFaults
  BY <1>1, FaultCounts
<1>3. Shapes /\ \A r \in Requests : RequestOK(r)
  BY DEF ServiceInv, Requested
<1>4. Shapes'
  BY <1>1, <1>2, <1>3 DEF Shapes, Labels, NoAnswer, Statuses, request
<1>5. ASSUME NEW r \in Requests PROVE RequestOK(r)'
  <2>1. \A id : Done(r, id) => Done(r, id)'
    BY <1>2 DEF Done, request
  <2>2. CASE r \in dropped
    BY <1>1, <1>2, <1>3, <2>2 DEF RequestOK, NoAnswer, InFlight, InTransaction, request
  <2>3. CASE r \notin dropped
    BY <1>1, <1>2, <1>3, <2>1, <2>3 DEF RequestOK, request
  <2>4. QED
    BY <2>2, <2>3
<1>6. KeyInv' /\ orphans' \subseteq TxnType /\ IsFiniteSet(orphans')
  <2>1. \A r \in dropped : pc'[r] # "committing"
    BY <1>1
  <2>2. \A r \in Requests \ dropped : pc'[r] = pc[r] /\ txn'[r] = txn[r]
    BY <1>1
  <2>3. dropped \in SUBSET Requests /\ UNCHANGED idempotencyKeys
    BY <1>2
  <2>4. QED
    BY <1>1, <2>1, <2>2, <2>3, DisconnectKeeps
<1>7. QED
  BY <1>2, <1>4, <1>5, <1>6 DEF ServiceInv, Requested, WorldOK

LEMMA OrphanKeeps ==
    ASSUME ServiceInv, NEW t \in orphans, OrphanCommits(t) \/ OrphanAborts(t)
    PROVE  ServiceInv'
<1>1. /\ orphans' = orphans \ {t} /\ t \in TxnType
      /\ UNCHANGED <<pc, key, body, idempotency, txn, response, now, faults>>
  BY DEF OrphanCommits, OrphanAborts, ServiceInv, WorldOK, request
<1>2. WorldOK'
  BY <1>1, FS_RemoveElement DEF ServiceInv, WorldOK
<1>3. CASE OrphanAborts(t)
  <2>1. Recorded' /\ UNCHANGED tables
    BY <1>1, <1>3, TablesStay DEF OrphanAborts
  <2>2. Requested' /\ KeyInv'
    BY <1>1, <2>1 DEF ServiceInv, Requested, Shapes, RequestOK, Done, KeyInv, tables
  <2>3. QED
    BY <1>2, <2>1, <2>2 DEF ServiceInv
<1>4. CASE OrphanCommits(t)
  <2>1. t.key # NoKey => t.key \notin DOMAIN idempotencyKeys
    BY DEF ServiceInv, KeyInv
  <2>2. /\ Recorded' /\ done \subseteq done'
        /\ DOMAIN idempotencyKeys' = IF t.key = NoKey THEN DOMAIN idempotencyKeys
                                     ELSE DOMAIN idempotencyKeys \cup {t.key}
    BY <1>1, <1>4, <2>1, PublishKeeps DEF OrphanCommits
  <2>3. Requested'
    <3>1. ASSUME NEW r \in Requests PROVE RequestOK(r)'
      <4>1. RequestOK(r) /\ \A id : Done(r, id) => Done(r, id)'
        BY <1>1, <2>2 DEF ServiceInv, Requested, Done
      <4>2. QED
        BY <1>1, <4>1 DEF RequestOK
    <3>2. QED
      BY <1>1, <3>1 DEF ServiceInv, Requested, Shapes
  <2>4. KeyInv'
    BY <1>1, <2>2 DEF ServiceInv, KeyInv
  <2>5. QED
    BY <1>2, <2>2, <2>3, <2>4 DEF ServiceInv
<1>5. QED
  BY <1>3, <1>4

LEMMA StutterKeeps ==
    ASSUME ServiceInv, UNCHANGED vars
    PROVE  ServiceInv'
<1>1. Recorded' /\ UNCHANGED <<tables, pc, request, txn, response, world>>
  BY TablesStay DEF vars, world
<1>2. QED
  BY <1>1 DEF ServiceInv, Requested, Shapes, RequestOK, Done, KeyInv, WorldOK, tables, request, world

LEMMA StepKeeps ==
    ASSUME ServiceInv, [Next]_vars
    PROVE  ServiceInv'
BY SendKeeps, RetryKeeps, findCachedKeeps, BeginKeeps, persistKeeps, CommitKeeps, ReplyKeeps,
   RefuseKeeps, StatementFailsKeeps, LoseAnswerKeeps, cleanupExpiredKeeps, TickKeeps, CrashKeeps,
   OrphanKeeps, StutterKeeps DEF Next, Serve

-----------------------------------------------------------------------------
(* The theorems.                                                           *)

LEMMA ServiceInvHolds == Spec => []ServiceInv
BY InitInv, StepKeeps, PTL DEF Spec

\* The types of the tables, the requests and their transactions.
THEOREM ServiceTypeCorrect == Spec => []TypeOK
BY ServiceInvHolds, ServiceInvSuffices, PTL

\* Work is done once under a key for as long as the key is kept, whatever retries,
\* crashes and lost acknowledgements there are (idempotency.service.ts:57-74).
THEOREM KeysProtectWork == Spec => []KeysOutliveTtl
BY ServiceInvHolds, ServiceInvSuffices, PTL

\* A 201 is the answer to work done for this key and this body
\* (idempotency.plugin.ts:36-43).
THEOREM AnswersAreTrue == Spec => []AnswersAreOfTheRequest
BY ServiceInvHolds, ServiceInvSuffices, PTL

\* No response is on record for work rolled back (README.md:11).
THEOREM RecordsAreTrue == Spec => []CachedWorkIsDone
BY ServiceInvHolds, ServiceInvSuffices, PTL

-----------------------------------------------------------------------------
(* The refinement of KeyedWork.                                            *)

\* No id stands for two pieces of work, whether done, on its way over a lost connection
\* or still being done; and none began in the future.
IdInv ==
    /\ \A r \in Requests : pc[r] \in InTransaction =>
        /\ txn[r].id[1] = r /\ txn[r].begun <= now
        /\ \A w \in done \cup orphans : w.id # txn[r].id
    /\ \A t \in orphans : t.begun <= now /\ \A w \in done : w.id # t.id
    /\ \A t, u \in orphans : t # u => t.id # u.id

\* Nobody begins, and nothing is done.
LEMMA IdsStay ==
    ASSUME ServiceInv, IdInv, UNCHANGED done, orphans' \subseteq orphans, now' \in Int, now <= now',
           \A q \in Requests : pc'[q] \in InTransaction =>
               pc[q] \in InTransaction /\ txn'[q] = txn[q]
    PROVE  IdInv'
<1>1. /\ now \in Int
      /\ \A q \in Requests : pc[q] \in InTransaction => txn[q].begun \in Int
      /\ \A t \in orphans : t.begun \in Int
  BY BoundsAreNatural DEF ServiceInv, WorldOK, Requested, RequestOK, TxnType
<1>2. ASSUME NEW q \in Requests, pc'[q] \in InTransaction
      PROVE  /\ txn'[q].id[1] = q /\ txn'[q].begun <= now'
             /\ \A w \in done' \cup orphans' : w.id # txn'[q].id
  <2>1. txn'[q] = txn[q] /\ txn[q].begun <= now /\ txn[q].begun \in Int
    BY <1>1, <1>2 DEF IdInv
  <2>2. txn'[q].begun <= now'
    BY <1>1, <2>1
  <2>3. QED
    BY <1>2, <2>2 DEF IdInv
<1>3. ASSUME NEW t \in orphans' PROVE t.begun <= now' /\ \A w \in done' : w.id # t.id
  <2>1. t \in orphans /\ t.begun <= now /\ t.begun \in Int
    BY <1>1 DEF IdInv
  <2>2. t.begun <= now'
    BY <1>1, <2>1
  <2>3. QED
    BY <2>1, <2>2 DEF IdInv
<1>4. QED
  BY <1>2, <1>3 DEF IdInv

\* One piece of work that was on its way is done.
LEMMA DoneOnce ==
    ASSUME ServiceInv, IdInv, NEW t \in TxnType, Publish(t), UNCHANGED now,
           t.key # NoKey => t.key \notin DOMAIN idempotencyKeys,
           t.begun <= now, \A w \in done : w.id # t.id,
           orphans' \subseteq orphans, \A u \in orphans' : u.id # t.id,
           \A q \in Requests : pc'[q] \in InTransaction =>
               pc[q] \in InTransaction /\ txn'[q] = txn[q] /\ txn[q].id # t.id
    PROVE  IdInv' /\ Promise!Next
<1> DEFINE w == [id |-> t.id, key |-> t.key, body |-> t.body, begun |-> t.begun, committed |-> now]
<1>1. done' = done \cup {w} /\ w.id = t.id
  BY DEF Publish
<1>2. IdInv'
  BY <1>1 DEF IdInv
<1>3. t.key \notin DOMAIN idempotencyKeys
  BY NoKeyIsNoHeader DEF ServiceInv, Recorded, TablesOK
<1>4. Promise!Do(w)
  BY <1>1, <1>3 DEF Publish, Record, Promise!Do, Promise!RecordOf
<1>5. QED
  BY <1>1, <1>2, <1>4 DEF Promise!Next

LEMMA CommitIsDo ==
    ASSUME ServiceInv, IdInv, NEW r \in Requests, Commit(r)
    PROVE  IdInv' /\ Promise!Next
<1>1. /\ pc[r] = "committing" /\ Publish(txn[r]) /\ pc' = [pc EXCEPT ![r] = "committed"]
      /\ UNCHANGED <<txn, now, orphans>>
  BY DEF Commit, Goto, world
<1>2. Shapes /\ txn[r] \in TxnType
      /\ (txn[r].key # NoKey => txn[r].key \notin DOMAIN idempotencyKeys)
  BY <1>1 DEF ServiceInv, Requested, RequestOK, InTransaction, KeyInv
<1>3. \A q \in Requests : pc'[q] \in InTransaction => q # r /\ pc[q] \in InTransaction
  BY <1>1, <1>2 DEF Shapes, InTransaction
<1>4. txn[r].begun <= now /\ \A w \in done \cup orphans : w.id # txn[r].id
  BY <1>1 DEF IdInv, InTransaction
<1>5. \A q \in Requests : pc'[q] \in InTransaction => txn[q].id # txn[r].id
  BY <1>1, <1>3 DEF IdInv, InTransaction
<1>6. QED
  BY <1>1, <1>2, <1>3, <1>4, <1>5, DoneOnce

LEMMA OrphanCommitIsDo ==
    ASSUME ServiceInv, IdInv, NEW t \in orphans, OrphanCommits(t)
    PROVE  IdInv' /\ Promise!Next
<1>1. Publish(t) /\ orphans' = orphans \ {t} /\ UNCHANGED <<pc, txn, now>>
  BY DEF OrphanCommits
<1>2. t \in TxnType /\ (t.key # NoKey => t.key \notin DOMAIN idempotencyKeys)
  BY DEF ServiceInv, WorldOK, KeyInv
<1>3. /\ t.begun <= now /\ \A w \in done : w.id # t.id
      /\ \A u \in orphans' : u.id # t.id
      /\ \A q \in Requests : pc[q] \in InTransaction => txn[q].id # t.id
  BY <1>1 DEF IdInv
<1>4. QED
  BY <1>1, <1>2, <1>3, DoneOnce

\* Connections are lost, and what was being committed over them becomes an orphan.
LEMMA DisconnectKeepsIds ==
    ASSUME ServiceInv, IdInv, NEW dropped \in SUBSET Requests, Disconnect(dropped),
           UNCHANGED <<done, now>>,
           \A r \in dropped : pc'[r] \notin InTransaction,
           \A r \in Requests \ dropped : pc'[r] = pc[r] /\ txn'[r] = txn[r]
    PROVE  IdInv'
<1>1. PICK sent \in SUBSET {r \in dropped : pc[r] = "committing"} :
         orphans' = orphans \cup {txn[r] : r \in sent}
  BY DEF Disconnect
<1>2. ASSUME NEW r \in sent
      PROVE  /\ r \in Requests /\ r \in dropped /\ txn[r].id[1] = r /\ txn[r].begun <= now
             /\ \A w \in done \cup orphans : w.id # txn[r].id
  BY DEF IdInv, InTransaction
<1>3. ASSUME NEW q \in Requests, pc'[q] \in InTransaction
      PROVE  /\ txn'[q].id[1] = q /\ txn'[q].begun <= now'
             /\ \A w \in done' \cup orphans' : w.id # txn'[q].id
  <2>1. q \notin dropped /\ pc[q] \in InTransaction /\ txn'[q] = txn[q]
    BY <1>3
  <2>2. /\ txn[q].id[1] = q /\ txn[q].begun <= now
        /\ \A w \in done \cup orphans : w.id # txn[q].id
    BY <2>1 DEF IdInv
  <2>3. \A r \in sent : txn[r].id # txn[q].id
    BY <1>2, <2>1, <2>2
  <2>4. QED
    BY <1>1, <2>1, <2>2, <2>3
<1>4. ASSUME NEW t \in orphans' PROVE t.begun <= now' /\ \A w \in done' : w.id # t.id
  BY <1>1, <1>2 DEF IdInv
<1>5. ASSUME NEW t \in orphans', NEW u \in orphans', t # u PROVE t.id # u.id
  BY <1>1, <1>2, <1>5 DEF IdInv
<1>6. QED
  BY <1>3, <1>4, <1>5 DEF IdInv

\* What is left of the steps neither does work nor touches a key.
Quiet == IdInv' /\ UNCHANGED <<idempotencyKeys, done, now>>

LEMMA RequestStepsAreQuiet ==
    ASSUME ServiceInv, IdInv, NEW r \in Requests,
           \/ \E k \in Keys \cup {NoKey}, b \in Bodies : Send(r, k, b)
           \/ Retry(r) \/ findCached(r) \/ persist(r) \/ Reply(r) \/ Refuse(r) \/ LoseAnswer(r)
    PROVE  Quiet
<1>1. Shapes /\ now \in Int
  BY BoundsAreNatural DEF ServiceInv, Requested, WorldOK
<1>2. UNCHANGED <<idempotencyKeys, done, now, orphans>>
  BY DEF Send, Retry, findCached, persist, Reply, Refuse, LoseAnswer, Fault, tables, world
<1>3. \A q \in Requests \ {r} : pc'[q] = pc[q] /\ txn'[q] = txn[q]
  BY <1>1 DEF Shapes, Send, Retry, Arrive, findCached, persist, Reply, Refuse, LoseAnswer, Answer, Goto
<1>4. pc'[r] \in InTransaction => pc[r] \in InTransaction /\ txn'[r] = txn[r]
  BY <1>1
  DEF Shapes, Send, Retry, Arrive, findCached, persist, Reply, Refuse, LoseAnswer, Answer, Goto, InTransaction
<1>5. QED
  BY <1>1, <1>2, <1>3, <1>4, IdsStay DEF Quiet

LEMMA BeginIsQuiet ==
    ASSUME ServiceInv, IdInv, NEW r \in Requests, Begin(r)
    PROVE  Quiet
<1> DEFINE t == [id |-> <<r, NewId(r)>>, key |-> idempotency[r], body |-> body[r], begun |-> now]
<1>1. /\ Shapes /\ txn' = [txn EXCEPT ![r] = t] /\ pc' = [pc EXCEPT ![r] = "writing"]
      /\ UNCHANGED <<idempotencyKeys, done, now, orphans>>
  BY DEF ServiceInv, Requested, Begin, Goto, tables, world
<1>2. /\ t.id[1] = r /\ t.begun <= now
      /\ \A w \in done \cup orphans : w.id # t.id
  BY NewIdIsNew, BoundsAreNatural DEF ServiceInv, WorldOK
<1> HIDE DEF t
<1>3. txn'[r] = t /\ \A q \in Requests \ {r} : pc'[q] = pc[q] /\ txn'[q] = txn[q]
  BY <1>1 DEF Shapes
<1>4. QED
  BY <1>1, <1>2, <1>3 DEF IdInv, Quiet

LEMMA FailuresAreQuiet ==
    ASSUME ServiceInv, IdInv, Crash \/ \E r \in Requests : StatementFails(r)
    PROVE  Quiet
<1>1. Shapes /\ UNCHANGED <<idempotencyKeys, done, now>>
  BY DEF ServiceInv, Requested, Crash, StatementFails, Fault, tables
<1>2. ASSUME NEW r \in Requests, StatementFails(r) PROVE Quiet
  <2>1. /\ pc' = [pc EXCEPT ![r] = "answered"] /\ txn' = [txn EXCEPT ![r] = NoTxn]
        /\ Disconnect({r})
    BY <1>2 DEF StatementFails, Answer, Goto
  <2>2. \A q \in Requests \ {r} : pc'[q] = pc[q] /\ txn'[q] = txn[q]
    BY <1>1, <2>1 DEF Shapes
  <2>3. \A q \in {r} : pc'[q] \notin InTransaction
    BY <1>1, <2>1 DEF Shapes, InTransaction
  <2>4. QED
    BY <1>1, <2>1, <2>2, <2>3, DisconnectKeepsIds DEF Quiet
<1>3. CASE Crash
  <2> DEFINE dropped == {r \in Requests : pc[r] \in InFlight}
  <2>1. /\ pc' = [r \in Requests |-> IF r \in dropped THEN "answered" ELSE pc[r]]
        /\ txn' = [r \in Requests |-> IF r \in dropped THEN NoTxn ELSE txn[r]]
        /\ Disconnect(dropped)
    BY <1>3 DEF Crash
  <2>2. \A r \in dropped : pc'[r] \notin InTransaction
    BY <2>1 DEF InTransaction
  <2>3. \A r \in Requests \ dropped : pc'[r] = pc[r] /\ txn'[r] = txn[r]
    BY <2>1
  <2>4. dropped \in SUBSET Requests
    OBVIOUS
  <2> HIDE DEF dropped
  <2>5. QED
    BY <1>1, <2>1, <2>2, <2>3, <2>4, DisconnectKeepsIds DEF Quiet
<1>4. QED
  BY <1>2, <1>3

LEMMA CleanupIsForget ==
    ASSUME ServiceInv, IdInv, cleanupExpired
    PROVE  IdInv' /\ Promise!Next
<1> DEFINE kept == {k \in DOMAIN idempotencyKeys : idempotencyKeys[k].createdAt >= now - Ttl}
<1>1. /\ idempotencyKeys' = [k \in kept |-> idempotencyKeys[k]]
      /\ UNCHANGED <<done, pc, txn, now, orphans>>
  BY DEF cleanupExpired, world
<1>2. now \in Int /\ Ttl \in Int /\ \A k \in DOMAIN idempotencyKeys : idempotencyKeys[k].createdAt \in Int
  BY BoundsAreNatural DEF ServiceInv, WorldOK, Recorded, TablesOK
<1>3. \A k \in DOMAIN idempotencyKeys \ kept : idempotencyKeys[k].createdAt + Ttl < now
  BY <1>2
<1>4. kept \in SUBSET DOMAIN idempotencyKeys
  OBVIOUS
<1> HIDE DEF kept
<1>5. Promise!Forget(kept)
  BY <1>1, <1>3 DEF Promise!Forget
<1>6. IdInv'
  BY <1>1, <1>2, IdsStay
<1>7. QED
  BY <1>4, <1>5, <1>6 DEF Promise!Next

LEMMA TickIsPass ==
    ASSUME ServiceInv, IdInv, Tick
    PROVE  IdInv' /\ Promise!Next
<1>1. now' = now + 1 /\ UNCHANGED <<idempotencyKeys, done, pc, txn, orphans>>
  BY DEF Tick, tables
<1>2. now \in Int
  BY BoundsAreNatural DEF ServiceInv, WorldOK
<1>3. IdInv'
  BY <1>1, <1>2, IdsStay
<1>4. QED
  BY <1>1, <1>3 DEF Promise!Next, Promise!Pass

LEMMA StepIsKeyed ==
    ASSUME ServiceInv, IdInv, [Next]_vars
    PROVE  IdInv' /\ [Promise!Next]_<<idempotencyKeys, done, now>>
<1>1. ASSUME NEW t \in orphans, OrphanAborts(t) PROVE Quiet
  <2>1. /\ orphans' \subseteq orphans /\ UNCHANGED <<idempotencyKeys, done, pc, txn, now>>
        /\ now \in Int
    BY <1>1, BoundsAreNatural DEF OrphanAborts, tables, ServiceInv, WorldOK
  <2>2. QED
    BY <2>1, IdsStay DEF Quiet
<1>2. CASE UNCHANGED vars
  BY <1>2 DEF vars, tables, world, IdInv
<1>3. CASE Next
  <2>1. Quiet \/ (IdInv' /\ Promise!Next)
    BY <1>1, <1>3, CommitIsDo, OrphanCommitIsDo, RequestStepsAreQuiet, BeginIsQuiet,
       FailuresAreQuiet, CleanupIsForget, TickIsPass DEF Next, Serve
  <2>2. QED
    BY <2>1 DEF Quiet
<1>4. QED
  BY <1>2, <1>3

\* The POST routes, with their lookup and their record in two transactions, and with
\* retries, crashes and lost acknowledgements in between, keep the promise of the key:
\* work under a key that is not on record, and the record with it, at one instant
\* (idempotency.plugin.ts:36-43, idempotency.service.ts:57-74).
THEOREM ServiceRefinesKeyedWork == Spec => WorkIsKeyed
<1>1. Init => IdInv /\ Promise!Init
  BY DEF Init, IdInv, InTransaction, NoRecords, Promise!Init
<1>2. ServiceInv /\ IdInv /\ [Next]_vars => IdInv' /\ [Promise!Next]_Promise!keyedVars
  BY StepIsKeyed DEF Promise!keyedVars
<1>3. QED
  BY <1>1, <1>2, ServiceInvHolds, PTL DEF Spec, WorkIsKeyed, Promise!Spec
=============================================================================
