-------------------------- MODULE MCBalanceReaders ---------------------------
(***************************************************************************)
(* A small instance of BalanceReaders for TLC: a debit-side and a          *)
(* credit-side account, and a third that may be opened at any time.        *)
(***************************************************************************)
EXTENDS BalanceReaders, TLC

MCChart ==
    <<[type |-> "ASSET", currency |-> "USD", status |-> "ACTIVE"],
      [type |-> "LIABILITY", currency |-> "USD", status |-> "ACTIVE"]>>

MCOpening == {<<"ASSET", "USD">>}

Leg(a, dir, n) == [account |-> a, direction |-> dir, amount |-> n, currency |-> "USD"]

\* By 1, so that a posting can hide what the hand did, and by 2 the other way.
MCInputs == {<<Leg(1, "DEBIT", 1), Leg(2, "CREDIT", 1)>>,
             <<Leg(2, "DEBIT", 2), Leg(1, "CREDIT", 2)>>}

MCSkews == {-1, 1}
NoSkews == {}
=============================================================================
