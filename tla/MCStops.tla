------------------------------ MODULE MCStops ------------------------------
(* One position of two shares over two sessions, for TLC. *)
EXTENDS Stops
CONSTANT AAPL
MCOne == {AAPL}
MCFour == 1..4
=============================================================================
