------------------------------- MODULE KeyedWork -------------------------------
(***************************************************************************)
(* What an Idempotency-Key promises, with none of the machinery: work is   *)
(* done at one instant, under a key that is not on record at that instant  *)
(* and that goes on record with it, and the record stays as it is until    *)
(* its time is over.  LedgerService, which looks the key up in one         *)
(* transaction and records it in another, with retries, crashes and lost   *)
(* acknowledgements in between, is shown to implement this module.         *)
(***************************************************************************)
EXTENDS Integers

CONSTANTS
    NoKey,    \* work of a request that has no key
    Ttl       \* how long a key is kept

VARIABLES
    record,   \* key |-> [requestHash, id, createdAt]
    work,     \* all that was ever done: [id, key, body, begun, committed]
    now       \* hours

keyedVars == <<record, work, now>>

Init ==
    /\ record = [k \in {} |-> 0]
    /\ work = {}
    /\ now = 0

RecordOf(w) == [requestHash |-> w.body, id |-> w.id, createdAt |-> w.begun]

\* One more piece of work, w: new, begun before now, and under a key that is not on
\* record at this instant.
Do(w) ==
    /\ \A v \in work : v.id # w.id
    /\ w.begun <= now /\ w.committed = now
    /\ w.key \notin DOMAIN record
    /\ work' = work \cup {w}
    /\ record' = IF w.key = NoKey THEN record
                 ELSE [k \in DOMAIN record \cup {w.key} |->
                         IF k = w.key THEN RecordOf(w) ELSE record[k]]
    /\ UNCHANGED now

\* Keys whose time is over are forgotten, all or some.
Forget(kept) ==
    /\ \A k \in DOMAIN record \ kept : record[k].createdAt + Ttl < now
    /\ record' = [k \in kept |-> record[k]]
    /\ UNCHANGED <<work, now>>

Pass == now' = now + 1 /\ UNCHANGED <<record, work>>

Next ==
    \/ \E w \in work' : Do(w)
    \/ \E kept \in SUBSET DOMAIN record : Forget(kept)
    \/ Pass

Spec == Init /\ [][Next]_keyedVars
=============================================================================
