---------------------------- MODULE StatementProofs ----------------------------
(***************************************************************************)
(* Proofs about Statement, for any number of transactions and of callers,  *)
(* any page sizes and any resolution of the clock: what one page holds, and *)
(* what a walk through the pages shows and may miss.                       *)
(***************************************************************************)
EXTENDS Statement, TLAPS, FiniteSetTheorems, SequenceTheorems

Row == [txn : Txns, postedAt : Nat, id : Nat]

\* The rows of the account: the ids tell them apart, and none is from the future.
RowsInv ==
    /\ clock \in Nat
    /\ nextId \in Nat \ {0}
    /\ entries \subseteq Row
    /\ IsFiniteSet(entries)
    /\ DOMAIN postedAt \subseteq Txns
    /\ \A t \in DOMAIN postedAt : postedAt[t] \in 0 .. clock
    /\ \A e \in entries : e.postedAt \in 0 .. clock /\ e.id \in 1 .. nextId - 1
    /\ \A e, f \in entries : e.id = f.id => e = f

\* Whether an entry follows the last one of a page within its millisecond.
Excused(w, e) ==
    \E last \in pageEnds[w] :
        Precedes(e, last) /\ Millisecond(e.postedAt) = Millisecond(last.postedAt)

\* A caller that walks has everything it was shown behind its cursor, and whatever
\* else was there when it began it has before it, or has lost to a page end.
CallerOK(w) ==
    /\ cursor[w] # NoCursor <=> walk[w] = "walking"
    /\ cursor[w] # NoCursor => cursor[w].ms \in 0 .. Millisecond(clock)
    /\ walk[w] = "before" => shown[w] = <<>> /\ before[w] = {}
    /\ \A i, j \in DOMAIN shown[w] : i < j => Precedes(shown[w][j], shown[w][i])
    /\ walk[w] = "walking" =>
         \A i \in DOMAIN shown[w] : ~IsAfterCursor(shown[w][i], cursor[w])
    /\ \A e \in before[w] : \/ e \in Range(shown[w])
                            \/ Excused(w, e)
                            \/ walk[w] = "walking" /\ IsAfterCursor(e, cursor[w])

CallersInv ==
    /\ walk \in [Walkers -> {"before", "walking", "end"}]
    /\ cursor \in [Walkers -> [ms : Int, id : Int]]
    /\ shown \in [Walkers -> Seq(entries)]
    /\ before \in [Walkers -> SUBSET entries]
    /\ pageEnds \in [Walkers -> SUBSET entries]
    /\ \A w \in Walkers : CallerOK(w)

\* The inductive invariant.
StatementInv == RowsInv /\ CallersInv

-----------------------------------------------------------------------------
(* Times and cursors.                                                      *)

LEMMA LaterMillisecondBegins ==
    ASSUME NEW m \in Nat, NEW n \in Nat, NEW t \in Nat, m > n, NEW x \in Nat, m * t <= x
    PROVE  (n + 1) * t <= x
<1>1. PICK k \in Nat : m = (n + 1) + k
  <2>1. m - (n + 1) \in Nat /\ m = (n + 1) + (m - (n + 1))
    OBVIOUS
  <2>2. QED
    BY <2>1
<1>2. m * t = (n + 1) * t + k * t
  BY <1>1
<1>3. k * t \in Nat /\ (n + 1) * t \in Int
  OBVIOUS
<1> DEFINE rest == k * t
           until == (n + 1) * t
<1>4. rest \in Nat /\ until \in Int /\ until + rest <= x
  BY <1>2, <1>3
<1> HIDE DEF rest, until
<1>5. until <= x
  BY <1>4
<1>6. QED
  BY <1>5 DEF until

\* A time lies in its millisecond, and a later one in no earlier millisecond.
LEMMA MillisecondBounds ==
    ASSUME NEW x \in Nat
    PROVE  /\ Millisecond(x) \in Nat
           /\ Millisecond(x) * TicksPerMs <= x
           /\ x < (Millisecond(x) + 1) * TicksPerMs
BY PagesAreNotEmpty DEF Millisecond

LEMMA MillisecondOrder ==
    ASSUME NEW x \in Nat, NEW y \in Nat, x <= y
    PROVE  /\ Millisecond(x) <= Millisecond(y)
           /\ Millisecond(y) * TicksPerMs <= x => Millisecond(x) = Millisecond(y)
<1>1. PICK m \in Nat : m = Millisecond(x) /\ m * TicksPerMs <= x /\ x < (m + 1) * TicksPerMs
  BY MillisecondBounds
<1>2. PICK n \in Nat : n = Millisecond(y) /\ n * TicksPerMs <= y /\ y < (n + 1) * TicksPerMs
  BY MillisecondBounds
<1>3. PICK t \in Nat : t = TicksPerMs
  BY PagesAreNotEmpty
<1> DEFINE untilM == (m + 1) * t
           untilN == (n + 1) * t
<1>4. untilM \in Int /\ untilN \in Int /\ x < untilM /\ y < untilN
  BY <1>1, <1>2, <1>3
<1>5. m > n => untilN <= x
  BY <1>1, <1>3, LaterMillisecondBegins
<1>6. n * t <= x /\ n > m => untilM <= x
  BY LaterMillisecondBegins
<1> HIDE DEF untilM, untilN
<1>7. m <= n /\ (n * t <= x => m = n)
  BY <1>4, <1>5, <1>6
<1>8. QED
  BY <1>1, <1>2, <1>3, <1>7

\* Precedes orders the rows of the account.
LEMMA PrecedesOrders ==
    ASSUME RowsInv
    PROVE  /\ \A e \in entries : ~Precedes(e, e)
           /\ \A e, f \in entries : e # f => Precedes(e, f) \/ Precedes(f, e)
           /\ \A e, f, g \in entries : Precedes(e, f) /\ Precedes(f, g) => Precedes(e, g)
BY DEF RowsInv, Row, Precedes

-----------------------------------------------------------------------------
(* One page.                                                               *)

\* By how many newer ones it has, a set of rows is numbered from 0 up, the newest first.
LEMMA RowsAreRanked ==
    ASSUME RowsInv, NEW S \in SUBSET entries
    PROVE  /\ Cardinality(S) \in Nat
           /\ \A e \in S : Cardinality(NewerThan(e, S)) \in 0 .. Cardinality(S) - 1
           /\ \A e, f \in S : Precedes(f, e) =>
                Cardinality(NewerThan(e, S)) < Cardinality(NewerThan(f, S))
           /\ \A k \in 0 .. Cardinality(S) - 1 : \E e \in S : Cardinality(NewerThan(e, S)) = k
<1>1. IsFiniteSet(S) /\ Cardinality(S) \in Nat
  BY FS_Subset, FS_CardinalityType DEF RowsInv
<1>2. ASSUME NEW e \in S
      PROVE  /\ IsFiniteSet(NewerThan(e, S))
             /\ Cardinality(NewerThan(e, S)) \in 0 .. Cardinality(S) - 1
  <2>1. NewerThan(e, S) \in SUBSET (S \ {e})
    BY PrecedesOrders DEF NewerThan
  <2>2. IsFiniteSet(S \ {e}) /\ Cardinality(S \ {e}) = Cardinality(S) - 1
    BY <1>1, FS_RemoveElement
  <2>3. IsFiniteSet(NewerThan(e, S)) /\ Cardinality(NewerThan(e, S)) <= Cardinality(S) - 1
    BY <2>1, <2>2, FS_Subset
  <2>4. Cardinality(NewerThan(e, S)) \in Nat
    BY <2>3, FS_CardinalityType
  <2>5. QED
    BY <1>1, <2>3, <2>4
<1>3. ASSUME NEW e \in S, NEW f \in S, Precedes(f, e)
      PROVE  Cardinality(NewerThan(e, S)) < Cardinality(NewerThan(f, S))
  <2>1. NewerThan(e, S) \in SUBSET NewerThan(f, S)
    BY <1>3, PrecedesOrders DEF NewerThan
  <2>2. e \in NewerThan(f, S) /\ e \notin NewerThan(e, S)
    BY <1>3, PrecedesOrders DEF NewerThan
  <2>3. Cardinality(NewerThan(e, S)) <= Cardinality(NewerThan(f, S))
    BY <1>2, <2>1, FS_Subset
  <2>4. Cardinality(NewerThan(e, S)) # Cardinality(NewerThan(f, S))
    BY <1>2, <2>1, <2>2, FS_Subset
  <2>5. QED
    BY <1>1, <1>2, <2>3, <2>4
<1>4. ASSUME NEW k \in 0 .. Cardinality(S) - 1
      PROVE  \E e \in S : Cardinality(NewerThan(e, S)) = k
  <2> DEFINE N == 0 .. Cardinality(S) - 1
             rank == [e \in S |-> Cardinality(NewerThan(e, S))]
  <2>1. rank \in [S -> N]
    BY <1>2
  <2>2. \A e, f \in S : rank[e] = rank[f] => e = f
    <3>1. SUFFICES ASSUME NEW e \in S, NEW f \in S, rank[e] = rank[f], e # f PROVE FALSE
      OBVIOUS
    <3>2. Precedes(e, f) \/ Precedes(f, e)
      BY <3>1, PrecedesOrders
    <3>3. rank[e] \in Int /\ rank[f] \in Int /\ (rank[e] < rank[f] \/ rank[f] < rank[e])
      BY <1>2, <1>3, <3>2
    <3>4. QED
      BY <3>1, <3>3
  <2>3. rank \in Injection(S, N)
    BY <2>1, <2>2 DEF Injection, IsInjective
  <2>4. IsFiniteSet(N) /\ Cardinality(N) = Cardinality(S)
    <3>1. 0 \in Int /\ Cardinality(S) - 1 \in Int
      BY <1>1
    <3>2. QED
      BY <1>1, <3>1, FS_Interval
  <2> HIDE DEF N, rank
  <2>5. rank \in Surjection(S, N)
    BY <2>3, <2>4, FS_Injection
  <2>6. k \in N
    BY DEF N
  <2>7. PICK e \in S : rank[e] = k
    BY <2>5, <2>6 DEF Surjection
  <2>8. QED
    BY <2>7 DEF rank
<1>5. QED
  BY <1>1, <1>2, <1>3, <1>4

\* A page is in order, holds rows after the cursor only, and leaves out none of them
\* that is newer than one it holds: none at all if it is not full.
LEMMA PageOfRows ==
    ASSUME RowsInv, NEW limit \in Nat \ {0}, NEW c,
           NEW S, S = {e \in entries : IsAfterCursor(e, c)},
           NEW rows, rows = listByAccount(limit, c)
    PROVE  /\ rows \in Seq(S) /\ Len(rows) <= limit
           /\ \A i, j \in DOMAIN rows : i < j => Precedes(rows[j], rows[i])
           /\ Len(rows) < limit => S \subseteq Range(rows)
           /\ Len(rows) = limit => \A e \in S \ Range(rows) : Precedes(e, Last(rows))
<1> DEFINE n == Cardinality(S)
           m == IF n < limit THEN n ELSE limit
           rank(e) == Cardinality(NewerThan(e, S))
<1>1. /\ n \in Nat
      /\ \A e \in S : rank(e) \in 0 .. n - 1
      /\ \A e, f \in S : Precedes(f, e) => rank(e) < rank(f)
      /\ \A k \in 0 .. n - 1 : \E e \in S : rank(e) = k
  BY RowsAreRanked
<1>2. rows = [i \in 1 .. m |-> CHOOSE e \in S : rank(e) = i - 1]
  BY DEF listByAccount
<1>3. m \in Nat /\ m <= n /\ m <= limit /\ (m < limit => m = n)
  BY <1>1
<1> HIDE DEF m, n, rank
<1>4. ASSUME NEW i \in 1 .. m PROVE rows[i] \in S /\ rank(rows[i]) = i - 1
  <2>1. i - 1 \in 0 .. n - 1
    BY <1>1, <1>3
  <2>2. PICK e \in S : rank(e) = i - 1
    BY <1>1, <2>1
  <2>3. QED
    BY <1>2, <2>2
<1>5. rows \in Seq(S) /\ DOMAIN rows = 1 .. m /\ Len(rows) = m
  <2>1. rows \in [1 .. m -> S]
    BY <1>2, <1>4
  <2>2. rows \in Seq(S)
    BY <1>3, <2>1, SeqDef
  <2>3. QED
    BY <1>3, <2>1, <2>2, LenProperties
<1>6. ASSUME NEW e \in S, NEW f \in S, rank(e) < rank(f) PROVE Precedes(f, e)
  <2>1. e # f
    BY <1>1, <1>6
  <2>2. Precedes(e, f) \/ Precedes(f, e)
    BY <2>1, PrecedesOrders
  <2>3. rank(e) \in Int /\ rank(f) \in Int
    BY <1>1
  <2>4. QED
    BY <1>1, <1>6, <2>2, <2>3
<1>7. ASSUME NEW i \in DOMAIN rows, NEW j \in DOMAIN rows, i < j
      PROVE  Precedes(rows[j], rows[i])
  <2>1. rank(rows[i]) < rank(rows[j])
    BY <1>4, <1>5, <1>7
  <2>2. QED
    BY <1>4, <1>5, <1>6, <2>1
<1>8. ASSUME NEW e \in S \ Range(rows) PROVE rank(e) >= m
  <2>1. SUFFICES ASSUME rank(e) < m PROVE FALSE
    BY <1>1, <1>3
  <2>2. rank(e) \in Int /\ rank(e) >= 0
    BY <1>1
  <2> DEFINE i == rank(e) + 1
  <2>3. i \in 1 .. m
    BY <1>3, <2>1, <2>2
  <2>4. rank(rows[i]) = rank(e) /\ rows[i] \in S
    BY <1>4, <2>2, <2>3
  <2>5. rows[i] # e
    BY <1>5, <2>3 DEF Range
  <2>6. rank(rows[i]) < rank(e) \/ rank(e) < rank(rows[i])
    BY <1>1, <2>4, <2>5, PrecedesOrders
  <2>7. QED
    BY <2>2, <2>4, <2>6
<1>9. ASSUME Len(rows) < limit, NEW e \in S PROVE e \in Range(rows)
  BY <1>1, <1>3, <1>5, <1>8, <1>9
<1>10. ASSUME Len(rows) = limit, NEW e \in S \ Range(rows) PROVE Precedes(e, Last(rows))
  <2>1. m = limit /\ m \in 1 .. m /\ Last(rows) = rows[m]
    BY <1>3, <1>5, <1>10 DEF Last
  <2>2. rows[m] \in S /\ rank(rows[m]) < rank(e)
    BY <1>1, <1>4, <1>8, <2>1
  <2>3. QED
    BY <1>6, <2>1, <2>2
<1>11. QED
  BY <1>3, <1>5, <1>7, <1>9, <1>10

-----------------------------------------------------------------------------
(* The steps.                                                              *)

LEMMA StatementInit ==
    ASSUME Init
    PROVE  StatementInv
<1>1. RowsInv
  BY FS_EmptySet DEF Init, RowsInv
<1>2. \A w \in Walkers : CallerOK(w)
  BY DEF Init, CallerOK, NoCursor
<1>3. NoCursor \in [ms : Int, id : Int]
  BY DEF NoCursor
<1>4. CallersInv
  BY <1>2, <1>3, EmptySeq DEF Init, CallersInv
<1>5. QED
  BY <1>1, <1>4 DEF StatementInv

\* A caller is where it was as long as time does not run backwards.
LEMMA CallersStay ==
    ASSUME StatementInv, UNCHANGED caller, entries \subseteq entries',
           clock' \in Nat, clock <= clock'
    PROVE  CallersInv'
<1>1. Millisecond(clock) \in Nat /\ Millisecond(clock') \in Nat
      /\ Millisecond(clock) <= Millisecond(clock')
  BY MillisecondBounds, MillisecondOrder DEF StatementInv, RowsInv
<1>2. ASSUME NEW w \in Walkers PROVE CallerOK(w)'
  <2>1. CallerOK(w)
    BY DEF StatementInv, CallersInv
  <2>2. \A e : Excused(w, e)' <=> Excused(w, e)
    BY DEF Excused, Precedes, Millisecond, caller
  <2>3. cursor[w] # NoCursor => cursor'[w].ms \in 0 .. Millisecond(clock')
    BY <1>1, <2>1 DEF CallerOK, caller
  <2>4. QED
    BY <2>1, <2>2, <2>3 DEF CallerOK, Precedes, IsAfterCursor, Millisecond, NoCursor, caller
<1>3. shown' \in [Walkers -> Seq(entries')]
  BY SeqMonotonic DEF StatementInv, CallersInv, caller
<1>4. QED
  BY <1>2, <1>3 DEF StatementInv, CallersInv, caller

LEMMA TickKeeps ==
    ASSUME StatementInv, Tick
    PROVE  StatementInv'
<1>1. clock \in Nat /\ clock' = clock + 1
  BY DEF StatementInv, RowsInv, Tick
<1>2. RowsInv'
  BY <1>1 DEF StatementInv, RowsInv, Tick
<1>3. CallersInv'
  BY <1>1, CallersStay DEF Tick
<1>4. QED
  BY <1>2, <1>3 DEF StatementInv

LEMMA BeginKeeps ==
    ASSUME StatementInv, NEW t \in Txns, Begin(t)
    PROVE  StatementInv'
<1>1. RowsInv'
  BY DEF StatementInv, RowsInv, Begin
<1>2. CallersInv'
  BY CallersStay DEF StatementInv, RowsInv, Begin
<1>3. QED
  BY <1>1, <1>2 DEF StatementInv

LEMMA CommitKeeps ==
    ASSUME StatementInv, NEW t \in Txns, Commit(t)
    PROVE  StatementInv'
<1>1. t \in DOMAIN postedAt /\ UNCHANGED <<clock, postedAt, caller>>
  BY DEF Commit
<1>2. PICK legs \in 1 .. MaxLegs :
        /\ entries' = entries \cup
             {[txn |-> t, postedAt |-> postedAt[t], id |-> nextId + i] : i \in 0 .. legs - 1}
        /\ nextId' = nextId + legs
  BY DEF Commit
<1> DEFINE row(i) == [txn |-> t, postedAt |-> postedAt[t], id |-> nextId + i]
           Legs == 0 .. legs - 1
           new == {row(i) : i \in Legs}
           numbered == [i \in Legs |-> row(i)]
<1>3. legs \in Nat \ {0}
  BY BoundsAreNumbers
<1>4. IsFiniteSet(new)
  <2>1. IsFiniteSet(Legs)
    <3>1. 0 \in Int /\ legs - 1 \in Int
      BY <1>3
    <3>2. QED
      BY <3>1, FS_Interval
  <2>2. numbered \in Surjection(Legs, new)
    BY DEF Surjection
  <2>3. QED
    BY <2>1, <2>2, FS_Surjection
<1>5. /\ clock \in Nat /\ nextId \in Nat \ {0} /\ postedAt[t] \in 0 .. clock
      /\ entries \subseteq Row /\ IsFiniteSet(entries)
      /\ \A e \in entries : e.postedAt \in 0 .. clock /\ e.id \in 1 .. nextId - 1
  BY <1>1 DEF StatementInv, RowsInv
<1>6. ASSUME NEW e \in new
      PROVE  /\ e \in Row /\ e.postedAt \in 0 .. clock
             /\ e.id \in nextId .. nextId + legs - 1
             /\ \A f \in new : e.id = f.id => e = f
  BY <1>3, <1>5 DEF Row
<1>7. IsFiniteSet(entries')
  BY <1>2, <1>4, <1>5, FS_Union
<1>8. nextId' \in Nat \ {0} /\ entries' \subseteq Row
  BY <1>2, <1>3, <1>5, <1>6
<1>9. \A e \in entries' : e.postedAt \in 0 .. clock /\ e.id \in 1 .. nextId' - 1
  BY <1>2, <1>3, <1>5, <1>6
<1>10. \A e, f \in entries' : e.id = f.id => e = f
  <2>1. \A e, f \in entries : e.id = f.id => e = f
    BY DEF StatementInv, RowsInv
  <2>2. \A e \in entries, f \in new : e.id # f.id
    BY <1>3, <1>5, <1>6
  <2>3. QED
    BY <1>2, <1>6, <2>1, <2>2
<1>11. RowsInv'
  BY <1>1, <1>5, <1>7, <1>8, <1>9, <1>10 DEF StatementInv, RowsInv
<1>12. CallersInv'
  BY <1>1, <1>2, <1>5, CallersStay
<1>13. QED
  BY <1>11, <1>12 DEF StatementInv

\* The order of the rows and a cursor: past the cursor of a row is past the row, and
\* what comes after the row is past its cursor unless it shares its millisecond.
LEMMA CursorOfRow ==
    ASSUME RowsInv, NEW last \in entries, NEW e \in entries
    PROVE  /\ encodeCursor(last) \in [ms : Int, id : Int]
           /\ encodeCursor(last) # NoCursor
           /\ encodeCursor(last).ms \in 0 .. Millisecond(clock)
           /\ e = last \/ Precedes(last, e) => ~IsAfterCursor(e, encodeCursor(last))
           /\ Precedes(e, last) => \/ IsAfterCursor(e, encodeCursor(last))
                                  \/ Millisecond(e.postedAt) = Millisecond(last.postedAt)
<1> DEFINE ms == Millisecond(last.postedAt)
           start == ms * TicksPerMs
<1>1. /\ last.postedAt \in Nat /\ last.id \in Nat \ {0} /\ last.postedAt <= clock
      /\ e.postedAt \in Nat /\ e.id \in Nat \ {0} /\ clock \in Nat
  BY DEF RowsInv, Row
<1>2. ms \in Nat /\ start <= last.postedAt /\ start \in Int /\ Millisecond(clock) \in Nat
  BY <1>1, MillisecondBounds, PagesAreNotEmpty
<1>3. ms <= Millisecond(clock)
  BY <1>1, MillisecondOrder
<1>4. encodeCursor(last) = [ms |-> ms, id |-> last.id]
  BY DEF encodeCursor
<1>5. e.postedAt <= last.postedAt /\ start <= e.postedAt => Millisecond(e.postedAt) = ms
  BY <1>1, MillisecondOrder
<1> HIDE DEF ms
<1>6. encodeCursor(last) \in [ms : Int, id : Int]
  BY <1>1, <1>2, <1>4
<1>7. encodeCursor(last) # NoCursor
  BY <1>1, <1>2, <1>4 DEF NoCursor
<1>8. IsAfterCursor(e, encodeCursor(last)) <=>
        e.postedAt < start \/ (e.postedAt = start /\ e.id < last.id)
  BY <1>4, <1>7 DEF IsAfterCursor
<1> HIDE DEF start
<1>9. e = last \/ Precedes(last, e) => ~IsAfterCursor(e, encodeCursor(last))
  BY <1>1, <1>2, <1>8 DEF Precedes
<1>10. Precedes(e, last) => IsAfterCursor(e, encodeCursor(last)) \/ Millisecond(e.postedAt) = ms
  BY <1>1, <1>2, <1>5, <1>8 DEF Precedes
<1>11. QED
  BY <1>2, <1>3, <1>4, <1>6, <1>7, <1>9, <1>10 DEF ms

\* Of two rows on different sides of a cursor, the one past it is the older.
LEMMA CursorSeparates ==
    ASSUME RowsInv, NEW e \in entries, NEW f \in entries, NEW c \in [ms : Int, id : Int],
           IsAfterCursor(e, c), ~IsAfterCursor(f, c)
    PROVE  Precedes(e, f)
<1> DEFINE start == c.ms * TicksPerMs
<1>1. e.postedAt \in Nat /\ e.id \in Nat /\ f.postedAt \in Nat /\ f.id \in Nat
  BY DEF RowsInv, Row
<1>2. start \in Int /\ c.id \in Int
  BY PagesAreNotEmpty
<1>3. c # NoCursor
  BY DEF IsAfterCursor
<1>4. e.postedAt < start \/ (e.postedAt = start /\ e.id < c.id)
  BY <1>3 DEF IsAfterCursor
<1>5. ~(f.postedAt < start) /\ ~(f.postedAt = start /\ f.id < c.id)
  BY DEF IsAfterCursor
<1> HIDE DEF start
<1>6. QED
  BY <1>1, <1>2, <1>4, <1>5 DEF Precedes

\* What a page does to the caller that asked for it.
LEMMA PageKeepsCaller ==
    ASSUME StatementInv, NEW w \in Walkers, Page(w)
    PROVE  /\ walk'[w] \in {"walking", "end"}
           /\ cursor'[w] \in [ms : Int, id : Int]
           /\ shown'[w] \in Seq(entries)
           /\ before'[w] \subseteq entries /\ pageEnds'[w] \subseteq entries
           /\ CallerOK(w)'
<1>0. /\ RowsInv /\ CallerOK(w)
      /\ walk \in [Walkers -> {"before", "walking", "end"}]
      /\ cursor \in [Walkers -> [ms : Int, id : Int]]
      /\ shown \in [Walkers -> Seq(entries)]
      /\ before \in [Walkers -> SUBSET entries]
      /\ pageEnds \in [Walkers -> SUBSET entries]
  BY DEF StatementInv, CallersInv
<1>1. walk[w] # "end" /\ UNCHANGED <<clock, entries>>
  BY DEF Page, books
<1>2. PICK limit \in Limits :
        LET rows == listByAccount(limit, cursor[w])
            next == NextCursor(rows, limit, cursor[w])
        IN  /\ shown' = [shown EXCEPT ![w] = @ \o rows]
            /\ cursor' = [cursor EXCEPT ![w] = next]
            /\ walk' = [walk EXCEPT ![w] = IF next = NoCursor THEN "end" ELSE "walking"]
            /\ pageEnds' = IF next = NoCursor \/ rows = <<>> THEN pageEnds
                           ELSE [pageEnds EXCEPT ![w] = @ \cup {Last(rows)}]
  BY DEF Page
<1> DEFINE c == cursor[w]
           S == {e \in entries : IsAfterCursor(e, c)}
           rows == listByAccount(limit, c)
           full == Len(rows) = limit
<1>3. limit \in Nat \ {0}
  BY PagesAreNotEmpty
<1>4. /\ rows \in Seq(S) /\ Len(rows) <= limit
      /\ \A i, j \in DOMAIN rows : i < j => Precedes(rows[j], rows[i])
      /\ Len(rows) < limit => S \subseteq Range(rows)
      /\ full => \A e \in S \ Range(rows) : Precedes(e, Last(rows))
  BY <1>0, <1>3, PageOfRows
<1>5. rows \in Seq(entries) /\ Len(rows) \in Nat /\ DOMAIN rows = 1 .. Len(rows)
      /\ \A i \in DOMAIN rows : rows[i] \in S
  <2>1. S \subseteq entries
    OBVIOUS
  <2>2. QED
    BY <1>4, <2>1, SeqMonotonic, LenProperties, ElementOfSeq
<1>6. /\ shown'[w] = shown[w] \o rows
      /\ cursor'[w] = IF full THEN encodeCursor(Last(rows)) ELSE NoCursor
      /\ walk'[w] = IF cursor'[w] = NoCursor THEN "end" ELSE "walking"
      /\ pageEnds'[w] = IF cursor'[w] = NoCursor \/ rows = <<>> THEN pageEnds[w]
                        ELSE pageEnds[w] \cup {Last(rows)}
  BY <1>0, <1>2 DEF NextCursor
<1>7. before'[w] = IF walk[w] = "before" THEN entries ELSE before[w]
  BY <1>0 DEF Page
<1> HIDE DEF rows, S
<1>8. full => rows # <<>> /\ Last(rows) \in S /\ Last(rows) = rows[Len(rows)]
               /\ Len(rows) \in DOMAIN rows
  BY <1>3, <1>5 DEF Last
<1>9. full => /\ encodeCursor(Last(rows)) \in [ms : Int, id : Int]
              /\ encodeCursor(Last(rows)) # NoCursor
              /\ encodeCursor(Last(rows)).ms \in 0 .. Millisecond(clock)
  BY <1>0, <1>8, CursorOfRow DEF S
<1>10. /\ cursor'[w] \in [ms : Int, id : Int]
       /\ walk'[w] = IF full THEN "walking" ELSE "end"
       /\ cursor'[w] # NoCursor <=> full
       /\ pageEnds'[w] = IF full THEN pageEnds[w] \cup {Last(rows)} ELSE pageEnds[w]
  <2>1. NoCursor \in [ms : Int, id : Int]
    BY DEF NoCursor
  <2>2. QED
    BY <1>6, <1>8, <1>9, <2>1
<1>11. /\ shown[w] \in Seq(entries) /\ Len(shown[w]) \in Nat
       /\ DOMAIN shown[w] = 1 .. Len(shown[w])
       /\ \A i \in DOMAIN shown[w] : shown[w][i] \in entries
  <2>1. shown[w] \in Seq(entries)
    BY <1>0
  <2>2. QED
    BY <2>1, LenProperties, ElementOfSeq
<1> DEFINE p == Len(shown[w])
           q == Len(rows)
<1>a. /\ p \in Nat /\ q \in Nat /\ DOMAIN shown[w] = 1 .. p /\ DOMAIN rows = 1 .. q
      /\ q <= limit /\ (q < limit => S \subseteq Range(rows)) /\ (full <=> q = limit)
  BY <1>4, <1>5, <1>11
<1>b. \A i \in 1 .. p + q : i > p => i - p \in 1 .. q /\ i \in p + 1 .. p + q
  BY <1>a
<1>12. /\ shown'[w] \in Seq(entries)
       /\ DOMAIN shown'[w] = 1 .. p + q
       /\ \A i \in 1 .. p : shown'[w][i] = shown[w][i]
       /\ \A i \in p + 1 .. p + q :
            shown'[w][i] = rows[i - p] /\ i - p \in 1 .. q
  <2>1. /\ shown'[w] \in Seq(entries)
        /\ Len(shown'[w]) = p + q
        /\ \A i \in 1 .. p + q : shown'[w][i] =
              IF i <= p THEN shown[w][i] ELSE rows[i - p]
    BY <1>5, <1>6, <1>11, ConcatProperties
  <2>2. DOMAIN shown'[w] = 1 .. Len(shown'[w])
    BY <2>1, LenProperties
  <2> HIDE DEF p, q
  <2>3. \A i \in p + 1 .. p + q : i \in 1 .. p + q /\ ~(i <= p) /\ i - p \in 1 .. q
    BY <1>a
  <2>4. \A i \in 1 .. p : i \in 1 .. p + q /\ i <= p
    BY <1>a
  <2>5. QED
    BY <2>1, <2>2, <2>3, <2>4 DEF p, q
<1> HIDE DEF p, q
<1>13. \A x : x \in Range(shown'[w]) <=> x \in Range(shown[w]) \/ x \in Range(rows)
  <2>1. ASSUME NEW i \in 1 .. p
        PROVE  i \in 1 .. p + q /\ shown'[w][i] = shown[w][i]
    BY <1>a, <1>b, <1>12
  <2>2. ASSUME NEW i \in 1 .. q
        PROVE  p + i \in 1 .. p + q /\ shown'[w][p + i] = rows[i]
    <3>1. /\ p + i \in p + 1 .. p + q
          /\ p + i \in 1 .. p + q
          /\ (p + i) - p = i
      BY <1>a
    <3>2. QED
      BY <1>12, <3>1
  <2>3. ASSUME NEW i \in 1 .. p + q
        PROVE  \/ \E j \in 1 .. p : shown'[w][i] = shown[w][j]
               \/ \E j \in 1 .. q : shown'[w][i] = rows[j]
    BY <1>a, <1>b, <1>12
  <2>4. \A x : /\ x \in Range(shown'[w]) <=> \E i \in 1 .. p + q : x = shown'[w][i]
               /\ x \in Range(shown[w]) <=> \E i \in 1 .. p : x = shown[w][i]
               /\ x \in Range(rows) <=> \E i \in 1 .. q : x = rows[i]
    BY <1>a, <1>12 DEF Range
  <2>5. QED
    BY <2>1, <2>2, <2>3, <2>4
<1>14. /\ CallerOK(w)
       /\ walk[w] \in {"before", "walking"}
       /\ walk[w] = "before" => c = NoCursor /\ shown[w] = <<>>
  BY <1>0, <1>1 DEF CallerOK
<1>15. ASSUME NEW i \in 1 .. p, NEW e \in S PROVE Precedes(e, shown[w][i])
  <2>1. walk[w] = "walking"
    BY <1>a, <1>11, <1>14
  <2>2. ~IsAfterCursor(shown[w][i], c)
    BY <1>a, <1>14, <2>1 DEF CallerOK
  <2>3. QED
    BY <1>0, <1>a, <1>11, <2>2, CursorSeparates DEF S
<1>16. \A i, j \in 1 .. p + q : i < j => Precedes(shown'[w][j], shown'[w][i])
  <2>1. SUFFICES ASSUME NEW i \in 1 .. p + q, NEW j \in 1 .. p + q, i < j
                 PROVE  Precedes(shown'[w][j], shown'[w][i])
    OBVIOUS
  <2>2. CASE j <= p
    <3>1. i \in 1 .. p /\ j \in 1 .. p
      BY <1>a, <1>b, <1>12, <2>1, <2>2
    <3>2. QED
      BY <1>a, <1>12, <1>14, <2>1, <3>1 DEF CallerOK
  <2>3. CASE i <= p /\ j > p
    <3>1. i \in 1 .. p /\ j \in p + 1 .. p + q
      BY <1>a, <1>12, <2>1, <2>3
    <3>2. shown'[w][i] = shown[w][i] /\ shown'[w][j] = rows[j - p] /\ rows[j - p] \in S
      BY <1>5, <1>a, <1>12, <3>1
    <3>3. QED
      BY <1>a, <1>15, <3>1, <3>2
  <2>4. CASE i > p
    <3>1. /\ i - p \in 1 .. q /\ shown'[w][i] = rows[i - p]
          /\ j - p \in 1 .. q /\ shown'[w][j] = rows[j - p]
          /\ i - p < j - p
      BY <1>a, <1>b, <1>12, <2>1, <2>4
    <3>2. QED
      BY <1>4, <1>a, <3>1
  <2>5. QED
    BY <1>a, <1>b, <1>12, <2>1, <2>2, <2>3, <2>4
<1>17. ASSUME full, NEW i \in 1 .. p + q
       PROVE  ~IsAfterCursor(shown'[w][i], cursor'[w])
  <2>1. shown'[w][i] \in entries
    BY <1>a, <1>b, <1>12
  <2>2. shown'[w][i] = Last(rows) \/ Precedes(Last(rows), shown'[w][i])
    <3>1. CASE i <= p
      BY <1>8, <1>a, <1>12, <1>15, <1>17, <3>1
    <3>2. CASE i > p
      <4>1. i - p \in 1 .. q /\ shown'[w][i] = rows[i - p]
        BY <1>a, <1>b, <1>12, <3>2
      <4>2. QED
        BY <1>4, <1>a, <1>8, <1>17, <4>1
    <3>3. QED
      BY <1>a, <1>b, <1>12, <3>1, <3>2
  <2>3. Last(rows) \in entries /\ cursor'[w] = encodeCursor(Last(rows))
    BY <1>6, <1>8, <1>17 DEF S
  <2>4. \A e \in entries : e = Last(rows) \/ Precedes(Last(rows), e) =>
           ~IsAfterCursor(e, encodeCursor(Last(rows)))
    BY <1>0, <2>3, CursorOfRow
  <2>5. QED
    BY <2>1, <2>2, <2>3, <2>4
<1>18. ASSUME NEW e \in before'[w]
       PROVE  \/ e \in Range(shown'[w])
              \/ Excused(w, e)'
              \/ full /\ IsAfterCursor(e, cursor'[w])
  <2>1. e \in entries
    BY <1>0, <1>7
  <2>2. \/ e \in Range(shown[w])
        \/ Excused(w, e)
        \/ e \in S
    BY <1>7, <1>14, <2>1 DEF CallerOK, IsAfterCursor, S
  <2>3. Excused(w, e) => Excused(w, e)'
    BY <1>10 DEF Excused, Precedes, Millisecond
  <2>4. CASE e \in S /\ e \notin Range(rows)
    <3>1. full
      BY <1>3, <1>a, <2>4
    <3>2. Precedes(e, Last(rows))
      BY <1>4, <2>4, <3>1
    <3>3. CASE Millisecond(e.postedAt) = Millisecond(Last(rows).postedAt)
      <4>1. Last(rows) \in pageEnds'[w]
        BY <1>10, <3>1
      <4>2. Excused(w, e)'
        BY <3>2, <3>3, <4>1 DEF Excused, Precedes, Millisecond
      <4>3. QED
        BY <4>2
    <3>4. CASE Millisecond(e.postedAt) # Millisecond(Last(rows).postedAt)
      BY <1>6, <1>8, <2>1, <3>1, <3>2, <3>4, <1>0, CursorOfRow DEF S
    <3>5. QED
      BY <3>3, <3>4
  <2>5. QED
    BY <1>13, <2>2, <2>3, <2>4
<1>19. CallerOK(w)'
  <2>1. Millisecond(clock)' = Millisecond(clock)
    BY <1>1 DEF Millisecond
  <2>2. \A e, d : IsAfterCursor(e, d)' <=> IsAfterCursor(e, d)
    BY DEF IsAfterCursor, NoCursor
  <2>3. cursor'[w] # NoCursor => cursor'[w].ms \in 0 .. Millisecond(clock)
    BY <1>6, <1>9, <1>10
  <2>4. walk'[w] # "before" /\ (walk'[w] = "walking" <=> full)
    BY <1>10
  <2>5. QED
    BY <1>10, <1>12, <1>16, <1>17, <1>18, <2>1, <2>3, <2>4 DEF CallerOK
<1>20. before'[w] \subseteq entries
  BY <1>0, <1>7
<1>21. pageEnds'[w] \subseteq entries
  BY <1>0, <1>8, <1>10 DEF S
<1>22. QED
  BY <1>10, <1>12, <1>19, <1>20, <1>21

\* Another caller notices nothing of it.
LEMMA PageKeeps ==
    ASSUME StatementInv, NEW w \in Walkers, Page(w)
    PROVE  StatementInv'
<1>1. UNCHANGED books
  BY DEF Page
<1>2. RowsInv'
  BY <1>1 DEF StatementInv, RowsInv, books
<1>3. ASSUME NEW v \in Walkers, v # w PROVE CallerOK(v)'
  <2>1. /\ walk'[v] = walk[v] /\ cursor'[v] = cursor[v] /\ shown'[v] = shown[v]
        /\ before'[v] = before[v] /\ pageEnds'[v] = pageEnds[v]
    BY <1>3 DEF Page, StatementInv, CallersInv
  <2>2. CallerOK(v) /\ clock' = clock
    BY <1>1 DEF StatementInv, CallersInv, books
  <2>3. QED
    BY <2>1, <2>2 DEF CallerOK, Excused, Precedes, IsAfterCursor, NoCursor, Millisecond
<1>4. /\ walk'[w] \in {"walking", "end"}
      /\ cursor'[w] \in [ms : Int, id : Int]
      /\ shown'[w] \in Seq(entries)
      /\ before'[w] \subseteq entries /\ pageEnds'[w] \subseteq entries
      /\ CallerOK(w)'
  BY PageKeepsCaller
<1>5. entries' = entries
  BY <1>1 DEF books
<1>6. walk' \in [Walkers -> {"before", "walking", "end"}]
  BY <1>4 DEF Page, StatementInv, CallersInv
<1>7. cursor' \in [Walkers -> [ms : Int, id : Int]]
  BY <1>4 DEF Page, StatementInv, CallersInv
<1>8. shown' \in [Walkers -> Seq(entries)]
  BY <1>4 DEF Page, StatementInv, CallersInv
<1>9. before' \in [Walkers -> SUBSET entries]
  BY <1>4 DEF Page, StatementInv, CallersInv
<1>10. pageEnds' \in [Walkers -> SUBSET entries]
  BY <1>4 DEF Page, StatementInv, CallersInv
<1>11. CallersInv'
  BY <1>3, <1>4, <1>5, <1>6, <1>7, <1>8, <1>9, <1>10 DEF CallersInv
<1>12. QED
  BY <1>2, <1>11 DEF StatementInv

LEMMA StatementInvHolds == Spec => []StatementInv
<1>1. ASSUME StatementInv, [Next]_vars PROVE StatementInv'
  <2>1. CASE Next
    BY <1>1, <2>1, TickKeeps, BeginKeeps, CommitKeeps, PageKeeps DEF Next
  <2>2. CASE UNCHANGED vars
    <3>1. RowsInv'
      BY <1>1, <2>2 DEF StatementInv, RowsInv, vars, books
    <3>2. CallersInv'
      BY <1>1, <2>2, CallersStay DEF StatementInv, RowsInv, vars, books
    <3>3. QED
      BY <3>1, <3>2 DEF StatementInv
  <2>3. QED
    BY <1>1, <2>1, <2>2
<1>2. QED
  BY <1>1, StatementInit, PTL DEF Spec

-----------------------------------------------------------------------------
(* The theorems.                                                           *)

\* A caller has a cursor exactly while it walks, never one beyond the present, and
\* it has been shown nothing but committed entries.
THEOREM StatementTypeCorrect == Spec => []TypeOK
<1>1. ASSUME StatementInv PROVE TypeOK
  <2>1. ASSUME NEW w \in Walkers PROVE Range(shown[w]) \subseteq entries
    <3>1. shown[w] \in Seq(entries)
      BY <1>1 DEF StatementInv, CallersInv
    <3>2. QED
      BY <3>1, LenProperties, ElementOfSeq DEF Range
  <2>2. QED
    BY <1>1, <2>1 DEF StatementInv, RowsInv, CallersInv, CallerOK, TypeOK
<1>2. QED
  BY <1>1, StatementInvHolds, PTL

\* Whatever commits between the pages and of whatever size they are, what a caller is
\* shown goes strictly back in time (entries.repo.ts:29-41).
THEOREM StatementsAreInOrder == Spec => []ShownInOrder
<1>1. StatementInv => ShownInOrder
  BY DEF StatementInv, CallersInv, CallerOK, ShownInOrder
<1>2. QED
  BY <1>1, StatementInvHolds, PTL

\* A walk that has come to its end has shown every entry that was there when it began,
\* but for those beside a page end in one millisecond (accounts.routes.ts:15-29, 151-154).
THEOREM StatementsMissOnlyBesidePageEnds == Spec => []MissedOnlyBesidePageEnds
<1>1. StatementInv => MissedOnlyBesidePageEnds
  BY DEF StatementInv, CallersInv, CallerOK, Excused, MissedOnlyBesidePageEnds
<1>2. QED
  BY <1>1, StatementInvHolds, PTL
=============================================================================
