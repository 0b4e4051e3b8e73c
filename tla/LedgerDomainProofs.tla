------------------------- MODULE LedgerDomainProofs -------------------------
(***************************************************************************)
(* Lemmas about the rules of LedgerDomain: how the total of a set of rows, *)
(* and the balance it implies, grow with the set; and how totals compare   *)
(* when they compare part by part, which stands for sums over accounts.    *)
(***************************************************************************)
EXTENDS LedgerDomain, TLAPS, FiniteSetTheorems, FunctionTheorems

\* A row of amount n has n minor units.
LEMMA UnitsOfRow ==
  ASSUME NEW row, NEW n \in Nat
  PROVE  /\ IsFiniteSet({row} \X (1 .. n))
         /\ Cardinality({row} \X (1 .. n)) = n
<1> DEFINE R == {row}
           I == 1 .. n
<1>1. IsFiniteSet(R) /\ Cardinality(R) = 1
  BY FS_Singleton
<1>2. IsFiniteSet(I) /\ Cardinality(I) = n
  BY FS_Interval
<1> HIDE DEF R, I
<1>3. IsFiniteSet(R \X I) /\ Cardinality(R \X I) = 1 * n
  BY <1>1, <1>2, FS_Product
<1>4. 1 * n = n
  OBVIOUS
<1> QED BY <1>3, <1>4 DEF R, I

\* Of fewer rows the units are fewer.
LEMMA UnitsOfSubset ==
  ASSUME NEW S, NEW T, T \subseteq S, IsFiniteSet(Units(S))
  PROVE  IsFiniteSet(Units(T)) /\ Total(T) \in Nat
<1>1. Units(T) \in SUBSET Units(S)
  BY DEF Units
<1>2. IsFiniteSet(Units(T))
  BY <1>1, FS_Subset
<1> QED BY <1>2, FS_CardinalityType DEF Total

\* Rows that are apart have units that are apart, so their totals add up.
LEMMA TotalOfDisjoint ==
  ASSUME NEW S, NEW T, S \cap T = {},
         IsFiniteSet(Units(S)), IsFiniteSet(Units(T))
  PROVE  /\ IsFiniteSet(Units(S \cup T))
         /\ Total(S \cup T) = Total(S) + Total(T)
<1>1. Units(S \cup T) = Units(S) \cup Units(T)
  BY DEF Units
<1>2. Units(S) \cap Units(T) = {}
  BY DEF Units
<1>3. Cardinality(Units(S) \cap Units(T)) = 0
  BY <1>2, FS_EmptySet
<1>4. Cardinality(Units(S)) \in Nat /\ Cardinality(Units(T)) \in Nat
  BY FS_CardinalityType
<1>5. /\ IsFiniteSet(Units(S) \cup Units(T))
      /\ Cardinality(Units(S) \cup Units(T)) =
           Cardinality(Units(S)) + Cardinality(Units(T)) - Cardinality(Units(S) \cap Units(T))
  BY FS_Union
<1>6. Cardinality(Units(S) \cup Units(T)) = Cardinality(Units(S)) + Cardinality(Units(T))
  BY <1>3, <1>4, <1>5
<1> QED BY <1>1, <1>5, <1>6 DEF Total

\* The units of no rows and of one row.
LEMMA UnitsOfFew ==
  /\ IsFiniteSet(Units({})) /\ Total({}) = 0
  /\ \A row : row.amount \in Nat =>
       IsFiniteSet(Units({row})) /\ Total({row}) = row.amount
<1>1. Units({}) = {}
  BY DEF Units
<1>2. IsFiniteSet(Units({})) /\ Total({}) = 0
  BY <1>1, FS_EmptySet DEF Total
<1>3. ASSUME NEW row, row.amount \in Nat
      PROVE  IsFiniteSet(Units({row})) /\ Total({row}) = row.amount
  <2>1. Units({row}) = {row} \X (1 .. row.amount)
    BY DEF Units
  <2>2. PICK n \in Nat : n = row.amount
    BY <1>3
  <2>3. IsFiniteSet({row} \X (1 .. n)) /\ Cardinality({row} \X (1 .. n)) = n
    BY UnitsOfRow
  <2> QED BY <2>1, <2>2, <2>3 DEF Total
<1> QED BY <1>2, <1>3

\* The rows of an accepted input have finitely many units.
LEMMA UnitsOfInput ==
  ASSUME NEW txn, NEW input \in Seq(EntryInput)
  PROVE  IsFiniteSet(Units(EntryRows(txn, input)))
<1> DEFINE n == Len(input)
           J == 1 .. n
           of == [j \in J |-> {EntryRow(txn, input, j)} \X (1 .. input[j].amount)]
           Parts == {of[j] : j \in J}
<1>1. n \in Nat /\ DOMAIN input = J /\ \A j \in J : input[j].amount \in Nat
  <2>1. n \in Nat /\ DOMAIN input = J
    OBVIOUS
  <2>2. \A j \in J : input[j] \in EntryInput
    OBVIOUS
  <2> QED BY <2>1, <2>2 DEF EntryInput
<1>2. IsFiniteSet(J)
  BY <1>1, FS_Interval
<1>3. of \in Surjection(J, Parts)
  BY DEF Surjection
<1>4. IsFiniteSet(Parts)
  BY <1>2, <1>3, FS_Surjection
<1>5. ASSUME NEW j \in J PROVE IsFiniteSet(of[j])
  BY <1>1, UnitsOfRow
<1>6. Units(EntryRows(txn, input)) = UNION Parts
  <2>1. \A j \in J : EntryRow(txn, input, j).amount = input[j].amount
    BY DEF EntryRow
  <2> QED BY <1>1, <2>1 DEF Units, EntryRows
<1> HIDE DEF Parts, of
<1>7. \A part \in Parts : IsFiniteSet(part)
  BY <1>5 DEF Parts
<1> QED BY <1>4, <1>6, <1>7, FS_UNION

-----------------------------------------------------------------------------

\* The balance that rows imply is an integer when they have finitely many units.
LEMMA JournalBalanceType ==
  ASSUME NEW type, NEW S, IsFiniteSet(Units(S))
  PROVE  JournalBalance(type, S) \in Int
<1>1. On(S, "DEBIT") \subseteq S /\ On(S, "CREDIT") \subseteq S
  BY DEF On
<1>2. Total(On(S, "DEBIT")) \in Nat /\ Total(On(S, "CREDIT")) \in Nat
  BY <1>1, UnitsOfSubset
<1> QED BY <1>2 DEF JournalBalance, BalanceFromJournal

\* Rows that are apart contribute to a balance independently.
LEMMA JournalBalanceOfDisjoint ==
  ASSUME NEW type, NEW S, NEW T, S \cap T = {},
         IsFiniteSet(Units(S)), IsFiniteSet(Units(T))
  PROVE  JournalBalance(type, S \cup T) = JournalBalance(type, S) + JournalBalance(type, T)
<1>1. ASSUME NEW d
      PROVE  /\ Total(On(S, d)) \in Nat
             /\ Total(On(T, d)) \in Nat
             /\ Total(On(S \cup T, d)) = Total(On(S, d)) + Total(On(T, d))
  <2>1. On(S, d) \subseteq S /\ On(T, d) \subseteq T
    BY DEF On
  <2>2. On(S \cup T, d) = On(S, d) \cup On(T, d)
    BY DEF On
  <2>3. On(S, d) \cap On(T, d) = {}
    BY <2>1
  <2>4. /\ IsFiniteSet(Units(On(S, d))) /\ Total(On(S, d)) \in Nat
        /\ IsFiniteSet(Units(On(T, d))) /\ Total(On(T, d)) \in Nat
    BY <2>1, UnitsOfSubset
  <2> QED BY <2>2, <2>3, <2>4, TotalOfDisjoint
<1>2. /\ Total(On(S, "DEBIT")) \in Nat /\ Total(On(S, "CREDIT")) \in Nat
      /\ Total(On(T, "DEBIT")) \in Nat /\ Total(On(T, "CREDIT")) \in Nat
      /\ Total(On(S \cup T, "DEBIT")) = Total(On(S, "DEBIT")) + Total(On(T, "DEBIT"))
      /\ Total(On(S \cup T, "CREDIT")) = Total(On(S, "CREDIT")) + Total(On(T, "CREDIT"))
  BY <1>1
<1> QED BY <1>2 DEF JournalBalance, BalanceFromJournal

\* No rows, no balance.
LEMMA JournalBalanceOfNone ==
  ASSUME NEW type
  PROVE  JournalBalance(type, {}) = 0
<1>1. On({}, "DEBIT") = {} /\ On({}, "CREDIT") = {}
  BY DEF On
<1> QED BY <1>1, UnitsOfFew DEF JournalBalance, BalanceFromJournal

\* One row contributes what applyEntryToBalance adds or takes.
LEMMA ApplyEntryIsJournalBalance ==
  ASSUME NEW type, NEW current \in Int, NEW row,
         row.direction \in Directions, row.amount \in Nat
  PROVE  ApplyEntryToBalance(type, current, row.direction, row.amount) =
           current + JournalBalance(type, {row})
<1>1. Total({row}) = row.amount /\ Total({}) = 0
  BY UnitsOfFew
<1>2. CASE row.direction = "DEBIT"
  <2>1. On({row}, "DEBIT") = {row} /\ On({row}, "CREDIT") = {}
    BY <1>2 DEF On
  <2> QED BY <1>1, <1>2, <2>1
      DEF JournalBalance, BalanceFromJournal, ApplyEntryToBalance, NormalBalanceSide
<1>3. CASE row.direction = "CREDIT"
  <2>1. On({row}, "CREDIT") = {row} /\ On({row}, "DEBIT") = {}
    BY <1>3 DEF On
  <2>2. JournalBalance(type, {row}) =
          IF NormalBalanceSide(type) = "DEBIT" THEN 0 - row.amount ELSE row.amount - 0
    BY <1>1, <2>1 DEF JournalBalance, BalanceFromJournal
  <2>3. ApplyEntryToBalance(type, current, row.direction, row.amount) =
          IF NormalBalanceSide(type) = "DEBIT" THEN current - row.amount ELSE current + row.amount
    BY <1>3 DEF ApplyEntryToBalance, NormalBalanceSide
  <2> QED BY <2>2, <2>3
<1> QED BY <1>2, <1>3 DEF Directions

-----------------------------------------------------------------------------
(* Comparing totals part by part.                                          *)

\* Of a row whose amount is below zero there are no units.
LEMMA UnitsOfSigned ==
  ASSUME NEW row, row.amount \in Int
  PROVE  /\ IsFiniteSet(Units({row}))
         /\ Total({row}) = IF row.amount > 0 THEN row.amount ELSE 0
<1>1. CASE row.amount > 0
  BY <1>1, UnitsOfFew
<1>2. CASE ~(row.amount > 0)
  <2>1. Units({row}) = {}
    BY <1>2 DEF Units
  <2> QED BY <1>2, <2>1, FS_EmptySet DEF Total
<1> QED BY <1>1, <1>2

\* A finite set maps one-to-one into one that is no smaller.
LEMMA InjectionOfSize ==
  ASSUME NEW S, NEW T, IsFiniteSet(S), IsFiniteSet(T), Cardinality(S) <= Cardinality(T)
  PROVE  \E f : f \in Injection(S, T)
<1> DEFINE m == Cardinality(S)
           n == Cardinality(T)
<1>1. m \in Nat /\ n \in Nat /\ m <= n
  BY FS_CardinalityType
<1>2. ExistsBijection(1 .. m, S) /\ ExistsBijection(1 .. n, T)
  BY FS_CardinalityType
<1> HIDE DEF m, n
<1>3. ExistsBijection(S, 1 .. m)
  BY <1>2, Fun_ExistsBijSymmetric
<1>4. ExistsInjection(S, 1 .. m) /\ ExistsInjection(1 .. n, T)
  BY <1>2, <1>3, Fun_ExistsBijEquiv
<1>5. ExistsInjection(1 .. m, 1 .. n)
  BY <1>1, Fun_NatInjLeq
<1>6. ExistsInjection(S, T)
  BY <1>4, <1>5, Fun_ExistsInjTransitive
<1> QED BY <1>6 DEF ExistsInjection

\* Sets that are apart add up.
LEMMA CountOfDisjoint ==
  ASSUME NEW S, NEW T, IsFiniteSet(S), IsFiniteSet(T), S \cap T = {}
  PROVE  IsFiniteSet(S \cup T) /\ Cardinality(S \cup T) = Cardinality(S) + Cardinality(T)
<1>1. Cardinality(S \cap T) = 0
  BY FS_EmptySet
<1>2. /\ IsFiniteSet(S \cup T)
      /\ Cardinality(S \cup T) = Cardinality(S) + Cardinality(T) - Cardinality(S \cap T)
  BY FS_Union
<1>3. Cardinality(S) \in Nat /\ Cardinality(T) \in Nat
  BY FS_CardinalityType
<1> QED BY <1>1, <1>2, <1>3

\* All the parts F[a] together.
Whole(A, F) == UNION {F[a] : a \in A}

\* What is no larger in any part is no larger in all, if the larger parts are apart.
LEMMA CountByParts ==
  ASSUME NEW A, NEW F, NEW G,
         \A a \in A : /\ IsFiniteSet(F[a]) /\ IsFiniteSet(G[a])
                      /\ Cardinality(F[a]) <= Cardinality(G[a]),
         \A a, b \in A : a # b => G[a] \cap G[b] = {},
         IsFiniteSet(Whole(A, G))
  PROVE  /\ IsFiniteSet(Whole(A, F))
         /\ Cardinality(Whole(A, F)) <= Cardinality(Whole(A, G))
<1> DEFINE U == Whole(A, F)
           V == Whole(A, G)
           map(a) == CHOOSE f : f \in Injection(F[a], G[a])
           part(x) == CHOOSE a \in A : x \in F[a]
           h == [x \in U |-> map(part(x))[x]]
<1>1. ASSUME NEW a \in A PROVE map(a) \in Injection(F[a], G[a])
  <2>1. \E f : f \in Injection(F[a], G[a])
    BY InjectionOfSize
  <2> QED BY <2>1
<1>2. ASSUME NEW x \in U PROVE part(x) \in A /\ x \in F[part(x)]
  BY DEF Whole
<1> HIDE DEF map, part
<1>3. ASSUME NEW x \in U PROVE h[x] \in G[part(x)] /\ h[x] \in V
  <2>1. map(part(x)) \in [F[part(x)] -> G[part(x)]]
    BY <1>1, <1>2 DEF Injection
  <2>2. map(part(x))[x] \in G[part(x)]
    BY <1>2, <2>1
  <2> QED BY <1>2, <2>2 DEF Whole
<1>4. ASSUME NEW x \in U, NEW y \in U, h[x] = h[y] PROVE x = y
  <2>1. part(x) = part(y)
    BY <1>2, <1>3, <1>4
  <2>2. map(part(x))[x] = map(part(x))[y]
    BY <1>4, <2>1
  <2>3. \A u, v \in F[part(x)] : map(part(x))[u] = map(part(x))[v] => u = v
    BY <1>1, <1>2 DEF Injection, IsInjective
  <2> QED BY <1>2, <2>1, <2>2, <2>3
<1>5. h \in Injection(U, V)
  BY <1>3, <1>4 DEF Injection, IsInjective
<1> HIDE DEF U, V, h
<1>6. IsFiniteSet(U) /\ Cardinality(U) <= Cardinality(V)
  BY <1>5, FS_Injection DEF V
<1> QED BY <1>6 DEF U, V

\* In every part D and N together are as many as C and P, neither P nor N being the
\* larger share, and D and C are as many in all.
Cancelling(A, D, C, P, N) ==
  /\ \A a \in A : IsFiniteSet(D[a]) /\ IsFiniteSet(C[a]) /\ IsFiniteSet(P[a]) /\ IsFiniteSet(N[a])
  /\ \A a \in A : Cardinality(D[a]) + Cardinality(N[a]) = Cardinality(C[a]) + Cardinality(P[a])
  /\ \A a \in A : Cardinality(P[a]) <= Cardinality(D[a]) /\ Cardinality(N[a]) <= Cardinality(C[a])
  /\ \A a, b \in A : a # b => D[a] \cap D[b] = {} /\ C[a] \cap C[b] = {}
  /\ \A a, b \in A : a # b => P[a] \cap P[b] = {} /\ N[a] \cap N[b] = {}
  /\ \A a, b \in A : D[a] \cap N[b] = {} /\ C[a] \cap P[b] = {}
  /\ IsFiniteSet(Whole(A, D)) /\ IsFiniteSet(Whole(A, C))
  /\ Cardinality(Whole(A, D)) = Cardinality(Whole(A, C))

\* Then so are P and N.
LEMMA PartsCancel ==
  ASSUME NEW A, NEW D, NEW C, NEW P, NEW N, Cancelling(A, D, C, P, N)
  PROVE  Cardinality(Whole(A, P)) = Cardinality(Whole(A, N))
<1> USE DEF Cancelling
<1> DEFINE F1 == [a \in A |-> D[a] \cup N[a]]
           F2 == [a \in A |-> C[a] \cup P[a]]
<1>1. IsFiniteSet(Whole(A, P))
  BY CountByParts
<1>2. IsFiniteSet(Whole(A, N))
  BY CountByParts
<1>3. /\ Whole(A, F1) = Whole(A, D) \cup Whole(A, N)
      /\ Whole(A, F2) = Whole(A, C) \cup Whole(A, P)
  BY DEF Whole
<1>4. /\ Whole(A, D) \cap Whole(A, N) = {}
      /\ Whole(A, C) \cap Whole(A, P) = {}
  BY DEF Whole
<1>5. ASSUME NEW a \in A
      PROVE  /\ IsFiniteSet(F1[a]) /\ IsFiniteSet(F2[a])
             /\ Cardinality(F1[a]) = Cardinality(F2[a])
             /\ Cardinality(F1[a]) \in Nat
  <2>1. /\ IsFiniteSet(D[a] \cup N[a])
        /\ Cardinality(D[a] \cup N[a]) = Cardinality(D[a]) + Cardinality(N[a])
    BY CountOfDisjoint
  <2>2. /\ IsFiniteSet(C[a] \cup P[a])
        /\ Cardinality(C[a] \cup P[a]) = Cardinality(C[a]) + Cardinality(P[a])
    BY CountOfDisjoint
  <2> QED BY <2>1, <2>2, FS_CardinalityType
<1>6. \A a, b \in A : a # b => F1[a] \cap F1[b] = {} /\ F2[a] \cap F2[b] = {}
  OBVIOUS
<1> HIDE DEF F1, F2
<1>7. /\ IsFiniteSet(Whole(A, F1))
      /\ Cardinality(Whole(A, F1)) =
           Cardinality(Whole(A, D)) + Cardinality(Whole(A, N))
  BY <1>2, <1>3, <1>4, CountOfDisjoint
<1>8. /\ IsFiniteSet(Whole(A, F2))
      /\ Cardinality(Whole(A, F2)) =
           Cardinality(Whole(A, C)) + Cardinality(Whole(A, P))
  BY <1>1, <1>3, <1>4, CountOfDisjoint
<1>9. Cardinality(Whole(A, F1)) <= Cardinality(Whole(A, F2))
  BY <1>5, <1>6, <1>8, CountByParts
<1>10. Cardinality(Whole(A, F2)) <= Cardinality(Whole(A, F1))
  BY <1>5, <1>6, <1>7, CountByParts
<1>11. /\ Cardinality(Whole(A, D)) \in Nat
       /\ Cardinality(Whole(A, P)) \in Nat
       /\ Cardinality(Whole(A, N)) \in Nat
  BY <1>1, <1>2, FS_CardinalityType
<1> QED BY <1>7, <1>8, <1>9, <1>10, <1>11

-----------------------------------------------------------------------------

\* Put sets one key and leaves the others.
LEMMA PutValues ==
  ASSUME NEW map, NEW key, NEW value
  PROVE  /\ DOMAIN Put(map, key, value) = DOMAIN map \cup {key}
         /\ \A k \in DOMAIN map \cup {key} :
              Put(map, key, value)[k] = IF k = key THEN value ELSE map[k]
  BY DEF Put

\* Put keeps keys and values within their types.
LEMMA PutType ==
  ASSUME NEW map, NEW key, NEW value, NEW K, NEW V,
         DOMAIN map \subseteq K, \A k \in DOMAIN map : map[k] \in V,
         key \in K, value \in V
  PROVE  /\ DOMAIN Put(map, key, value) \subseteq K
         /\ \A k \in DOMAIN Put(map, key, value) : Put(map, key, value)[k] \in V
  BY DEF Put
=============================================================================
