------------------------------ MODULE MCLedger ------------------------------
(* Two interchangeable orders in one symbol, for TLC. *)
EXTENDS Ledger, TLC
CONSTANTS o1, o2, AAPL
MCOrders == {o1, o2}
MCSymbols == {AAPL}
MCPrices == {1, 2}
MCBuffers == {0, 1}
MCSplitRatios == {<<2, 1>>}
OrderSymmetry == Permutations(MCOrders)
=============================================================================
