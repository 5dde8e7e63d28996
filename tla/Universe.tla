------------------------------ MODULE Universe ------------------------------
(***************************************************************************)
(* Who may be traded: the ethical screen over a denylist of symbols and    *)
(* the SIC codes behind them, and the decisions of the universe builder,   *)
(* of which the first failure counts.                                      *)
(***************************************************************************)

CONSTANTS
    Symbols,
    Sic,                    \* the SIC code EDGAR gives each symbol
    Denylist, Allowlist,    \* symbols: config/exclusions.yaml
    DenySics, UniverseExcludeSics, DefaultDenySics  \* codes: config/sic_backstop.yaml

Statuses == {"eligible", "excluded_ethical", "excluded_universe",
             "needs_ethical_review", "excluded_floor"}

ASSUME UniverseAssumption ==
    /\ Symbols \subseteq DOMAIN Sic
    /\ Denylist \subseteq Symbols /\ Allowlist \subseteq Symbols

\* Mutant: the allowlist exempts from the whole screen.
ScreenAllowlistFirst(s) ==
    IF s \in Allowlist THEN "eligible"
    ELSE IF s \in Denylist \/ Sic[s] \in DenySics THEN "excluded_ethical"
    ELSE IF Sic[s] \in UniverseExcludeSics THEN "excluded_universe"
    ELSE IF Sic[s] \in DefaultDenySics THEN "needs_ethical_review"
    ELSE "eligible"

\* ExclusionScreen.screen, for a symbol whose SIC is known.
Screen(s) ==
    IF s \in Denylist \/ Sic[s] \in DenySics THEN "excluded_ethical"
    ELSE IF Sic[s] \in UniverseExcludeSics THEN "excluded_universe"
    ELSE IF Sic[s] \in DefaultDenySics /\ s \notin Allowlist THEN "needs_ethical_review"
    ELSE "eligible"

\* Mutant: the screen comes after the floors have decided.
ClassifyUnscreened(s, known, floors) ==
    IF s \notin known THEN "excluded_universe"
    ELSE IF s \in floors THEN "eligible" ELSE Screen(s)

\* classify: what is known of a symbol (tradable, of common-stock shape, an EDGAR
\* answer with a recent 10-K and a SIC); the exclusion screen; the floors.
Classify(s, known, floors) ==
    IF s \notin known THEN "excluded_universe"
    ELSE IF Screen(s) # "eligible" THEN Screen(s)
    ELSE IF s \notin floors THEN "excluded_floor" ELSE "eligible"

\* What the specification (4.4) lets through: on no list and behind no denied or
\* excluded code; behind a default-deny code only when allowlisted.
MayBeTraded(s) ==
    /\ s \notin Denylist
    /\ Sic[s] \notin DenySics \cup UniverseExcludeSics
    /\ Sic[s] \in DefaultDenySics => s \in Allowlist
=============================================================================
