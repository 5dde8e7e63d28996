------------------------------ MODULE MCLaunch ------------------------------
(* SEC and TAF rates in force from the first day, a CAT rate that
   lapses after the first. *)
EXTENDS Launch
MCAmended == {"sec"}
MCFiles == [mode |-> "PAPER", liveEnabled |-> FALSE, rest |-> 0,
            fees |-> [sec |-> {[from |-> 1, to |-> OpenEnded, rate |-> 1]},
                      taf |-> {[from |-> 1, to |-> OpenEnded, rate |-> 2]},
                      cat |-> {[from |-> 1, to |-> 1, rate |-> 3]}]]
=============================================================================
