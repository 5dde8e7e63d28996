----------------------------- MODULE MCScoring -----------------------------
(* Two symbols with up to two headlines each; the weights of scanner.yaml. *)
EXTENDS Scoring
MCSymbols == {1, 2}
MCVerdicts == {5, 10}
MCWeight == [technical |-> 8, intraday |-> 1, catalyst |-> 1]
=============================================================================
