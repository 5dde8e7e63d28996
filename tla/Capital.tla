------------------------------ MODULE Capital ------------------------------
(***************************************************************************)
(* What the buying-power reservation of ADR-0021 promises, as an abstract  *)
(* machine: one pot of cash, and for every order the part of it the order  *)
(* holds.  Reserving checks the cash that nobody holds; spending turns a   *)
(* hold into a debit; releasing gives a hold back.  Ledger (one writer at  *)
(* a time) implements it; NoOverCommit of LedgerSessions says of committed *)
(* rows, between several database sessions, what Solvent says here.        *)
(***************************************************************************)
EXTENDS Naturals, FiniteSets, Sums

CONSTANTS
    Orders,     \* the orders of one portfolio
    MaxUsd      \* the largest amount the numeric(14,6) columns can hold

VARIABLES
    cash,       \* latest cash_ledger balance
    hold        \* reservation of each open BUY order, 0 for any other order

Usd == 0..MaxUsd

\* sum(reserved_notional_usd)
Total(h) == Tally(h, MaxUsd)

Init ==
    /\ cash = 0
    /\ hold = [o \in Orders |-> 0]

Receive(n) ==
    /\ cash + n <= MaxUsd
    /\ cash' = cash + n
    /\ UNCHANGED hold

Reserve(o, r) ==
    /\ hold[o] = 0
    /\ Total(hold) + r <= cash
    /\ hold' = [hold EXCEPT ![o] = r]
    /\ UNCHANGED cash

\* A debit n out of o's hold; what is left of the hold is kept or given back.
Spend(o, n, left) ==
    /\ n + left <= hold[o]
    /\ n <= cash
    /\ cash' = cash - n
    /\ hold' = [hold EXCEPT ![o] = left]

Release(o) ==
    /\ hold' = [hold EXCEPT ![o] = 0]
    /\ UNCHANGED cash

Next ==
    \/ \E n \in Usd : Receive(n)
    \/ \E o \in Orders :
        \/ \E r \in Usd : Reserve(o, r)
        \/ \E n \in Usd, left \in Usd : Spend(o, n, left)
        \/ Release(o)

Spec == Init /\ [][Next]_<<cash, hold>>
-----------------------------------------------------------------------------
TypeOK ==
    /\ cash \in Usd
    /\ hold \in [Orders -> Usd]

\* The reservations never exceed the cash: portfolio_available_cash >= 0.
Solvent == Total(hold) <= cash
=============================================================================
