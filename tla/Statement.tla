------------------------------- MODULE Statement -------------------------------
(***************************************************************************)
(* GET /v1/accounts/:id/entries: a caller walks the statement of one       *)
(* account page by page, newest entry first, sending back the cursor of    *)
(* each page for the next, while postings to the account go on.            *)
(*                                                                         *)
(* Two orders meet here.  posted_at is the time at which a transaction     *)
(* began; the serial id is drawn when its entries are inserted, under the  *)
(* lock on the account, which only its COMMIT releases: the ids of an      *)
(* account come in the order of the commits, its posted_at need not.       *)
(* Postgres keeps microseconds, and a cursor, a JavaScript date written as *)
(* an ISO string, milliseconds.                                            *)
(***************************************************************************)
EXTENDS Integers, FiniteSets, SequencesExt

CONSTANTS
    Txns,        \* transactions that post to the account
    MaxLegs,     \* entries one of them may have on it
    Walkers,     \* callers
    Limits,      \* page sizes they ask for
    TicksPerMs,  \* ticks of the clock of Postgres in a millisecond
    MaxTime

ASSUME PagesAreNotEmpty == Limits \subseteq Nat \ {0} /\ TicksPerMs \in Nat \ {0}
ASSUME BoundsAreNumbers == MaxLegs \in Nat /\ MaxTime \in Nat

VARIABLES
    clock,     \* the time, in ticks
    postedAt,  \* when each transaction in progress or committed began
    entries,   \* the committed entries of the account
    nextId,    \* the serial
    walk,      \* where each caller is: before, walking, at the end
    cursor,    \* what it was given for the next page
    shown,     \* the entries it was shown, in order
    before,    \* history: the entries there were when it began
    pageEnds   \* history: the last entries of its full pages

books == <<clock, postedAt, entries, nextId>>
caller == <<walk, cursor, shown, before, pageEnds>>
vars == <<books, caller>>

NoCursor == [ms |-> -1, id |-> -1]

Init ==
    /\ clock = 0
    /\ postedAt = [t \in {} |-> 0]
    /\ entries = {}
    /\ nextId = 1
    /\ walk = [w \in Walkers |-> "before"]
    /\ cursor = [w \in Walkers |-> NoCursor]
    /\ shown = [w \in Walkers |-> <<>>]
    /\ before = [w \in Walkers |-> {}]
    /\ pageEnds = [w \in Walkers |-> {}]

-----------------------------------------------------------------------------
(* Postings.                                                               *)

Tick ==
    /\ clock < MaxTime
    /\ clock' = clock + 1
    /\ UNCHANGED <<postedAt, entries, nextId, caller>>

\* BEGIN: from here on now() stands still for this transaction.
Begin(t) ==
    /\ t \notin DOMAIN postedAt
    /\ postedAt' = [u \in DOMAIN postedAt \cup {t} |-> IF u = t THEN clock ELSE postedAt[u]]
    /\ UNCHANGED <<clock, entries, nextId, caller>>

\* insertMany and the COMMIT, one step to the account under its lock.  (A rollback
\* leaves a gap in the ids, and that is all.)
Commit(t) ==
    /\ t \in DOMAIN postedAt
    /\ \A e \in entries : e.txn # t
    /\ \E legs \in 1 .. MaxLegs :
         /\ entries' = entries \cup
              {[txn |-> t, postedAt |-> postedAt[t], id |-> nextId + i] : i \in 0 .. legs - 1}
         /\ nextId' = nextId + legs
    /\ UNCHANGED <<clock, postedAt, caller>>

-----------------------------------------------------------------------------
(* The query.                                                              *)

\* Comparison of rows (posted_at, id), as in the ORDER BY.
Precedes(p, q) == p.postedAt < q.postedAt \/ (p.postedAt = q.postedAt /\ p.id < q.id)

\* What toISOString keeps of a time.
Millisecond(time) == time \div TicksPerMs

\* Mutant of encodeCursor: rounded to the nearest millisecond.
RoundedCursor(e) == [ms |-> (e.postedAt + TicksPerMs - 1) \div TicksPerMs, id |-> e.id]

encodeCursor(e) == [ms |-> Millisecond(e.postedAt), id |-> e.id]

\* Mutant of IsAfterCursor: the last entry of a page begins the next.
IsFromCursor(e, c) ==
    \/ c = NoCursor
    \/ e.postedAt < c.ms * TicksPerMs
    \/ e.postedAt = c.ms * TicksPerMs /\ e.id <= c.id

\* The condition on (posted_at, id), the cursor read back as a timestamp.
IsAfterCursor(e, c) ==
    \/ c = NoCursor
    \/ e.postedAt < c.ms * TicksPerMs
    \/ e.postedAt = c.ms * TicksPerMs /\ e.id < c.id

NewerThan(e, rows) == {f \in rows : Precedes(e, f)}

\* listByAccount: row i of the answer is the one with i - 1 newer ones.
listByAccount(limit, c) ==
    LET matching == {e \in entries : IsAfterCursor(e, c)}
        n == Cardinality(matching)
    IN  [i \in 1 .. IF n < limit THEN n ELSE limit |->
           CHOOSE e \in matching : Cardinality(NewerThan(e, matching)) = i - 1]

\* Mutant of NextCursor: only a page beyond its limit has a next.
CursorBeyondLimit(rows, limit, c) ==
    IF Len(rows) > limit THEN encodeCursor(Last(rows)) ELSE NoCursor

\* Mutant of NextCursor: an empty page hands back the cursor it was asked with.
KeepCursor(rows, limit, c) == IF rows # <<>> THEN encodeCursor(Last(rows)) ELSE c

\* next_cursor: an exactly full page has one, even if it is the last.
NextCursor(rows, limit, c) ==
    IF Len(rows) = limit THEN encodeCursor(Last(rows)) ELSE NoCursor

\* One request, of any limit, and its answer.  (The account exists.)
Page(w) ==
    /\ walk[w] # "end"
    /\ \E limit \in Limits :
         LET rows == listByAccount(limit, cursor[w])
             next == NextCursor(rows, limit, cursor[w])
         IN  /\ shown' = [shown EXCEPT ![w] = @ \o rows]
             /\ cursor' = [cursor EXCEPT ![w] = next]
             /\ walk' = [walk EXCEPT ![w] = IF next = NoCursor THEN "end" ELSE "walking"]
             /\ pageEnds' = IF next = NoCursor \/ rows = <<>> THEN pageEnds
                            ELSE [pageEnds EXCEPT ![w] = @ \cup {Last(rows)}]
    /\ before' = IF walk[w] = "before" THEN [before EXCEPT ![w] = entries] ELSE before
    /\ UNCHANGED books

-----------------------------------------------------------------------------

Next ==
    \/ Tick
    \/ \E t \in Txns : Begin(t) \/ Commit(t)
    \/ \E w \in Walkers : Page(w)

Spec == Init /\ [][Next]_vars

\* A caller that has begun a walk asks for the next page.
FairSpec == Spec /\ \A w \in Walkers : WF_vars(walk[w] = "walking" /\ Page(w))

-----------------------------------------------------------------------------

\* A caller has a cursor exactly while it walks, never one beyond the present, and
\* it has been shown nothing but committed entries.
TypeOK ==
    /\ \A e \in entries : e.postedAt \in 0 .. clock /\ e.id \in 1 .. nextId - 1
    /\ \A w \in Walkers :
         /\ walk[w] \in {"before", "walking", "end"}
         /\ cursor[w] # NoCursor <=> walk[w] = "walking"
         /\ cursor[w] # NoCursor => cursor[w].ms \in 0 .. Millisecond(clock)
         /\ Range(shown[w]) \cup before[w] \cup pageEnds[w] \subseteq entries

\* What a caller is shown goes strictly back in time, from page to page as well
\* as within one: no entry twice and none out of its place, whatever commits
\* between the pages (entries.repo.ts:29-41).
ShownInOrder ==
    \A w \in Walkers : \A i, j \in DOMAIN shown[w] :
        i < j => Precedes(shown[w][j], shown[w][i])

\* An entry that was there when the walk began is missing from the finished walk
\* only if it follows the last entry of some page within the same millisecond,
\* which the cursor of that page cannot tell apart (accounts.routes.ts:15-29, 151-154).
MissedOnlyBesidePageEnds ==
    \A w \in Walkers : walk[w] = "end" =>
        \A e \in before[w] \ Range(shown[w]) :
            \E last \in pageEnds[w] :
                /\ Precedes(e, last)
                /\ Millisecond(e.postedAt) = Millisecond(last.postedAt)

\* A walk comes to an end: no cursor leads back to where it was taken, and the
\* postings that go on do not keep it going (accounts.routes.ts:151-156).
WalksEnd ==
    \A w \in Walkers : walk[w] = "walking" ~> walk[w] = "end"
=============================================================================
