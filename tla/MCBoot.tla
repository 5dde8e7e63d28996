------------------------------- MODULE MCBoot -------------------------------
(***************************************************************************)
(* Deployments of one experiment: the first release, with and without the  *)
(* right to write the policy, a code fix justified as phase 2, new         *)
(* versions justified as phase 2 or as phase 3, a version string reused    *)
(* for other content, and a DRY_RUN onto the PAPER experiment.             *)
(***************************************************************************)
EXTENDS Boot
CONSTANTS llm, vti

MCPortfolios == {llm, vti}

NoChange == [sequence |-> 1, valid |-> FALSE, declares |-> "none"]
First == [mode |-> "PAPER", enforce |-> TRUE, version |-> "v1", content |-> "x",
          code |-> "a", change |-> NoChange]
Fix == [First EXCEPT !.code = "b",
            !.change = [sequence |-> 2, valid |-> TRUE, declares |-> "none"]]
Release(n) == [First EXCEPT !.version = "v2", !.content = "y", !.code = "b",
            !.change = [sequence |-> n, valid |-> TRUE, declares |-> "v2"]]
Relabelled == [Fix EXCEPT !.content = "z"]
DryRun == [First EXCEPT !.mode = "DRY_RUN", !.enforce = FALSE]
Unenforced == [First EXCEPT !.enforce = FALSE]

MCBuilds == {First, Fix, Release(2), Release(3), Relabelled, DryRun, Unenforced}
=============================================================================
