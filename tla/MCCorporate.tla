---------------------------- MODULE MCCorporate ----------------------------
(* A splits, is renamed to B, and B splits; a fourth day lets a window pass. *)
EXTENDS Corporate
MCSymbols == {"A", "B"}
MCSplits == { [symbol |-> "A", ex |-> 1, ratio |-> 2], [symbol |-> "B", ex |-> 3, ratio |-> 3] }
MCChanges == { [old |-> "A", new |-> "B", date |-> 2] }
=============================================================================
