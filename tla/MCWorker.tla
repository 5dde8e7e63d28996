------------------------------ MODULE MCWorker ------------------------------
(***************************************************************************)
(* Two sessions around a holiday, the second a half-day: the events in     *)
(* their real order on a coarser clock, without the corporate actions and  *)
(* the first verification, which are to the loop what the re-arm and the   *)
(* final verification are.                                                 *)
(***************************************************************************)
EXTENDS Worker, TLC

MCOpenAt == (0 :> 3) @@ (2 :> 23)
MCCloseAt == (0 :> 8) @@ (2 :> 27)
MCFromOpen == [stop_rearm |-> -2, preopen_scan |-> -1, post_open_verify_2 |-> 1]
MCFromClose == [daily_reviews |-> 1]

\* Two companies of one default-deny industry, both allowlisted, one also denied.
MCSymbols == {"HEI", "BA"}
MCSic == [HEI |-> 3724, BA |-> 3724]
MCDenylist == {"BA"}
MCAllowlist == {"HEI", "BA"}
MCDefaultDeny == {3721, 3724}
MCDeny == {1311}
MCUniverseExclude == {6770}
MCDomains == {"bars_quotes"}
=============================================================================
