---------------------------- MODULE MCReconcile ----------------------------
(***************************************************************************)
(* A BUY and a SELL of the ledger in one symbol, a manual BUY of it, and a *)
(* BUY of the ledger in a symbol that has since been excluded.             *)
(***************************************************************************)
EXTENDS Reconcile
CONSTANTS b1, s1, x1, m1, AAPL, XOM
MCOrders == {b1, s1, x1}
MCManual == {m1}
MCSymbols == {AAPL, XOM}
MCExcluded == {XOM}
MCTerms == [o \in {b1, s1, x1, m1} |->
    IF o = b1 THEN [symbol |-> AAPL, side |-> "buy", qty |-> 2]
    ELSE IF o = s1 THEN [symbol |-> AAPL, side |-> "sell", qty |-> 1]
    ELSE [symbol |-> IF o = x1 THEN XOM ELSE AAPL, side |-> "buy", qty |-> 1]]
MCClosings == {"CANCELLED", "REJECTED"}
MCOpening == [s \in MCSymbols |-> IF s = AAPL THEN 1 ELSE 0]
=============================================================================
