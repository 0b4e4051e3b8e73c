------------------------- MODULE MCPostTransaction --------------------------
(***************************************************************************)
(* Small instances of PostTransaction for TLC.  Account 1 is a debit-side  *)
(* and account 2 a credit-side account in USD, accounts 3 and 4 are the    *)
(* same in EUR, and account 5 has never been created.                      *)
(***************************************************************************)
EXTENDS PostTransaction, TLC

MCChart ==
    <<[type |-> "ASSET", currency |-> "USD", status |-> "ACTIVE"],
      [type |-> "LIABILITY", currency |-> "USD", status |-> "ACTIVE"],
      [type |-> "ASSET", currency |-> "EUR", status |-> "ACTIVE"],
      [type |-> "LIABILITY", currency |-> "EUR", status |-> "ACTIVE"]>>

Leg(a, dir, n, cur) == [account |-> a, direction |-> dir, amount |-> n, currency |-> cur]

\* The ordinary posting, and its reverse with the accounts named the other way.
Deposit == <<Leg(1, "DEBIT", 2, "USD"), Leg(2, "CREDIT", 2, "USD")>>
Withdraw == <<Leg(2, "DEBIT", 1, "USD"), Leg(1, "CREDIT", 1, "USD")>>
\* The other way in two legs, the second of which must see the first.
Split == <<Leg(2, "DEBIT", 1, "USD"), Leg(1, "CREDIT", 3, "USD"), Leg(2, "DEBIT", 2, "USD")>>
\* Accounts that the others leave alone: only the key can stand in its way.
Elsewhere == <<Leg(3, "DEBIT", 1, "EUR"), Leg(4, "CREDIT", 1, "EUR")>>
\* Two currencies, each balanced by itself.
Exchange == <<Leg(3, "DEBIT", 1, "EUR"), Leg(2, "DEBIT", 1, "USD"),
              Leg(1, "CREDIT", 1, "USD"), Leg(3, "CREDIT", 1, "EUR")>>
\* The refused ones.
OneSided == <<Leg(1, "DEBIT", 1, "USD"), Leg(2, "CREDIT", 2, "USD")>>
ToNowhere == <<Leg(1, "DEBIT", 1, "USD"), Leg(5, "CREDIT", 1, "USD")>>
WrongCurrency == <<Leg(1, "DEBIT", 1, "USD"), Leg(3, "CREDIT", 1, "USD")>>
TooLarge == <<Leg(1, "DEBIT", MaxBigint + 1, "USD"), Leg(2, "CREDIT", MaxBigint + 1, "USD")>>

Moves == {Deposit, Split, Elsewhere}
AllInputs == {Deposit, Split, Exchange, OneSided, ToNowhere, WrongCurrency, TooLarge}
TwoMoves == {Deposit, Withdraw}

NoChanges == {}
FreezeOne == {<<1, "FROZEN">>, <<1, "ACTIVE">>, <<2, "CLOSED">>}

Symmetry == Permutations(Requests)
=============================================================================
