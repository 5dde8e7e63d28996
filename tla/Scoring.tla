------------------------------ MODULE Scoring ------------------------------
(***************************************************************************)
(* The scoring stage of a scan: the headlines of each symbol are judged by *)
(* Jev, a paid outside service, or by the keyword rule that stands in for  *)
(* it; the signals become a composite score; the best are stored together  *)
(* with the records of the calls.  Jev answers, fails, or answers what the *)
(* code cannot read, at every headline; the worker may die between any two.*)
(* Worker has the stages before this one, each as a single step.           *)
(***************************************************************************)
EXTENDS Integers, Sequences, FiniteSets, Sums

CONSTANTS
    Eligible,       \* the eligible symbols, as numbers in alphabetical order
    MaxHeadlines,   \* max_headlines_per_symbol
    Full,           \* a signal of 1.0
    Verdicts,       \* the probabilities Jev may answer, 0..Full
    KeywordStrength, Threshold,
    Weight,         \* of each signal
    Overbought, Earnings,   \* the penalties, in the unit of Whole
    Whole,          \* a score of 1.0; every sum of weights divides Whole \div Full
    MaxCandidates,  \* top_n
    MaxCalls        \* bound: no scan begins after so many answers of Jev

Signals == {"technical", "intraday", "catalyst"}

Total(v) == v["technical"] + v["intraday"] + v["catalyst"]
WeightOf(S) == Total([k \in Signals |-> IF k \in S THEN Weight[k] ELSE 0])

ASSUME ScoringAssumption ==
    /\ Eligible \subseteq Nat /\ IsFiniteSet(Eligible) /\ MaxHeadlines \in Nat \ {0} /\ MaxCandidates \in Nat \ {0}
    /\ Threshold \in 1..Full /\ KeywordStrength \in Threshold..Full /\ Verdicts \subseteq 0..Full
    /\ Weight \in [Signals -> Nat \ {0}] /\ Full \in Nat /\ Whole \in Nat \ {0} /\ Whole % Full = 0
    /\ \A S \in SUBSET Signals : "technical" \in S => (Whole \div Full) % WeightOf(S) = 0

\* scanner.yaml: a full technical signal is worth more than the earnings penalty.
ASSUME RankingAssumption ==
    /\ Overbought \in Nat \ {0} /\ Earnings \in Nat \ {0}
    /\ Earnings * WeightOf(Signals) < Weight["technical"] * Whole

VARIABLES
    classifier,     \* scanner.yaml: "jev" or "keyword"
    key,            \* TYPESAFE_API_KEY is set: JevClient.available
    stage,          \* "idle", "judging" or "down"
    headlines,      \* how many each symbol has, the first MaxHeadlines
    facts,          \* what else was gathered; chosen where the scores first read it
    todo,           \* the symbols still to be judged
    at,             \* the classify call in hand
    signal,         \* catalyst_strength of the symbols that are done
    calls,          \* the LLMCalls of the scan
    unavailable,    \* unavailable["catalyst"] is set
    byJev, byRule,  \* history: verdicts of this scan by either judge
    row,            \* the newest stored scan
    llmCalls,       \* rows of llm_calls
    answered        \* external: requests Jev has answered

config == <<classifier, key>>
judged == <<headlines, facts, todo, at, signal, calls, unavailable, byJev, byRule>>
scoringVars == <<config, stage, judged, row, llmCalls, answered>>

None == -1
NoCall == [symbol |-> None, left |-> 0, useJev |-> FALSE, down |-> FALSE, calls |-> 0, strength |-> 0]
NoRow == [candidates |-> <<>>, unavailable |-> FALSE, calls |-> 0, byJev |-> 0, byRule |-> 0]

\* The technical signals are one; an intraday setup is found or not.
Facts == [technical : {0, Full}, intraday : {None, Full}, overbought : BOOLEAN, earnings : BOOLEAN]
NoFacts == [s \in Eligible |-> [technical |-> 0, intraday |-> None, overbought |-> FALSE, earnings |-> FALSE]]

\* Nothing judged yet.
Afresh ==
    /\ facts' = NoFacts
    /\ todo' = Eligible /\ at' = NoCall /\ signal' = [s \in Eligible |-> None]
    /\ calls' = 0 /\ unavailable' = FALSE /\ byJev' = 0 /\ byRule' = 0

-----------------------------------------------------------------------------
ScoringInit ==
    /\ classifier \in {"jev", "keyword"} /\ key \in BOOLEAN
    /\ stage = "idle"
    /\ headlines = [s \in Eligible |-> 0] /\ facts = NoFacts
    /\ todo = {} /\ at = NoCall /\ signal = [s \in Eligible |-> None]
    /\ calls = 0 /\ unavailable = FALSE /\ byJev = 0 /\ byRule = 0
    /\ row = NoRow /\ llmCalls = 0 /\ answered = 0

\* The inputs of a scan are gathered.
StartScan ==
    /\ stage = "idle" /\ answered < MaxCalls
    /\ stage' = "judging" /\ headlines' \in [Eligible -> 0..MaxHeadlines] /\ Afresh
    /\ UNCHANGED <<config, row, llmCalls, answered>>

\* classify begins; a symbol without headlines has no catalyst signal.
ClassifySymbol(s) ==
    /\ stage = "judging" /\ at = NoCall /\ s \in todo
    /\ IF headlines[s] = 0
       THEN todo' = todo \ {s} /\ UNCHANGED at
       ELSE /\ at' = [NoCall EXCEPT !.symbol = s, !.left = headlines[s],
                                    !.useJev = classifier = "jev" /\ key,
                                    !.down = classifier = "jev" /\ ~key]
            /\ UNCHANGED todo
    /\ UNCHANGED <<config, stage, headlines, facts, signal, calls, unavailable, byJev, byRule,
                   row, llmCalls, answered>>

\* The strength is the greatest among the material headlines.
Stronger(strength, m) == IF m >= Threshold /\ m > strength THEN m ELSE strength

\* JevClient.judge returns, and its call is recorded.
JevAnswers(m) ==
    /\ at.left > 0 /\ at.useJev
    /\ answered' = answered + 1 /\ byJev' = byJev + 1
    /\ at' = [at EXCEPT !.left = @ - 1, !.calls = @ + 1, !.strength = Stronger(@, m)]
    /\ UNCHANGED <<config, stage, headlines, facts, todo, signal, calls, unavailable, byRule,
                   row, llmCalls>>

\* KeywordRule.judge: a word was found, or none.
RuleJudges ==
    /\ at.left > 0 /\ ~at.useJev
    /\ byRule' = byRule + 1
    /\ \E m \in {0, KeywordStrength} : at' = [at EXCEPT !.left = @ - 1, !.strength = Stronger(@, m)]
    /\ UNCHANGED <<config, stage, headlines, facts, todo, signal, calls, unavailable, byJev,
                   row, llmCalls, answered>>

\* Mutant: the symbol is begun again without Jev.
JevFailsAndRestarts ==
    /\ at.left > 0 /\ at.useJev
    /\ at' = [NoCall EXCEPT !.symbol = at.symbol, !.left = headlines[at.symbol], !.down = TRUE]
    /\ UNCHANGED <<config, stage, headlines, facts, todo, signal, calls, unavailable, byJev, byRule,
                   row, llmCalls, answered>>

\* JevUnavailable: the rule judges this headline and the rest of the symbol's; the
\* next symbol tries Jev again.
JevFails ==
    /\ at.left > 0 /\ at.useJev
    /\ at' = [at EXCEPT !.useJev = FALSE, !.down = TRUE]
    /\ UNCHANGED <<config, stage, headlines, facts, todo, signal, calls, unavailable, byJev, byRule,
                   row, llmCalls, answered>>

\* The scan in hand is gone, with its calls, and so is the worker.
Abandon ==
    /\ stage' = "down"
    /\ Afresh /\ headlines' = [s \in Eligible |-> 0]
    /\ UNCHANGED <<config, row, llmCalls>>

\* An answer without one of the four questions raises a KeyError that nobody catches.
JevAnswersUnreadably ==
    /\ at.left > 0 /\ at.useJev
    /\ answered' = answered + 1
    /\ Abandon

\* Mutant: a symbol Jev has judged clears what the one before it noted.
ClassifiedAnew ==
    /\ at.symbol # None /\ at.left = 0
    /\ signal' = [signal EXCEPT ![at.symbol] = at.strength]
    /\ calls' = calls + at.calls /\ unavailable' = at.down
    /\ todo' = todo \ {at.symbol} /\ at' = NoCall
    /\ UNCHANGED <<config, stage, headlines, facts, byJev, byRule, row, llmCalls, answered>>

\* classify returns to Scanner.run.
Classified ==
    /\ at.symbol # None /\ at.left = 0
    /\ signal' = [signal EXCEPT ![at.symbol] = at.strength]
    /\ calls' = calls + at.calls /\ unavailable' = (unavailable \/ at.down)
    /\ todo' = todo \ {at.symbol} /\ at' = NoCall
    /\ UNCHANGED <<config, stage, headlines, facts, byJev, byRule, row, llmCalls, answered>>

-----------------------------------------------------------------------------
Value(s, f) == [technical |-> f[s].technical, intraday |-> f[s].intraday, catalyst |-> signal[s]]
Available(s, f) == { k \in Signals : Value(s, f)[k] # None }

\* The sum of the weighted values of the available signals.
Gained(s, f) ==
    Total([k \in Signals |-> IF k \in Available(s, f) THEN Weight[k] * Value(s, f)[k] ELSE 0])

\* Mutant: a signal that is not available counts as zero.
WeightedOverAll(s, f) == (Gained(s, f) * (Whole \div Full)) \div WeightOf(Signals)

\* composite_scores: the mean over the available signals, in units of which Whole is 1.0 ...
Weighted(s, f) == (Gained(s, f) * (Whole \div Full)) \div WeightOf(Available(s, f))

\* ... less the penalties, clamped.
Penalty(s, f) ==
    (IF f[s].overbought THEN Overbought ELSE 0)
        + (IF f[s].earnings /\ signal[s] \in {None, 0} THEN Earnings ELSE 0)

Composite(s, f) == IF Penalty(s, f) > Weighted(s, f) THEN 0 ELSE Weighted(s, f) - Penalty(s, f)

Before(s, t, score) == score[s] > score[t] \/ (score[s] = score[t] /\ s < t)
Place(s, score) == 1 + Cardinality({ t \in Eligible : Before(t, s, score) })

Ranked(score) ==
    [i \in { Place(s, score) : s \in Eligible } \cap 1..MaxCandidates |->
        CHOOSE s \in Eligible : Place(s, score) = i]

\* Scanner.run ends; run_and_persist stores the scan and its calls in one transaction.
Store ==
    /\ stage = "judging" /\ todo = {} /\ at = NoCall
    /\ facts' \in [Eligible -> Facts]
    /\ \E score \in {[s \in Eligible |-> Composite(s, facts')]} :
          row' = [candidates |-> Ranked(score), unavailable |-> unavailable, calls |-> calls,
                  byJev |-> byJev, byRule |-> byRule]
    /\ llmCalls' = llmCalls + calls /\ calls' = 0
    /\ stage' = "idle" /\ headlines' = [s \in Eligible |-> 0]
    /\ UNCHANGED <<config, todo, at, signal, unavailable, byJev, byRule, answered>>

\* Anything else raises, the transaction included, or the process dies.
DieJudging ==
    /\ stage = "judging"
    /\ Abandon /\ UNCHANGED answered

RestartWorker ==
    /\ stage = "down"
    /\ stage' = "idle"
    /\ UNCHANGED <<config, judged, row, llmCalls, answered>>

ScoringNext ==
    \/ StartScan \/ RuleJudges \/ JevFails \/ JevAnswersUnreadably \/ Classified
    \/ \E s \in Eligible : ClassifySymbol(s)
    \/ \E m \in Verdicts : JevAnswers(m)
    \/ Store \/ DieJudging \/ RestartWorker

ScoringSpec == ScoringInit /\ [][ScoringNext]_scoringVars

-----------------------------------------------------------------------------
\* The symbols classify has been called for.
Begun == (Eligible \ todo) \cup ({at.symbol} \ {None})

\* Whatever fails between two headlines, a headline is judged once, by one judge or the
\* other; a scan has one call for each verdict that says Jev gave it, in hand and when
\* it is stored; and no answer is recorded twice.  An answer to a scan that is never
\* stored is not recorded at all (runner.py:133), which ADR-0023:31 does not want.
CallsMatchVerdicts ==
    /\ stage = "judging" =>
          /\ byJev + byRule + at.left = Tally([s \in Begun |-> headlines[s]], MaxHeadlines)
          /\ calls + at.calls = byJev
    /\ row.calls = row.byJev
    /\ llmCalls + calls + at.calls <= answered

\* ADR-0023: a scan says that its catalysts are the keyword rule's exactly when Jev
\* was to judge and the rule judged a headline of any of its symbols.
FallbackIsMarked == row.unavailable = (classifier = "jev" /\ row.byRule > 0)

\* s has every available signal at its best and no mark against it.
Perfect(s, f) ==
    /\ \A k \in Available(s, f) : Value(s, f)[k] = Full
    /\ ~f[s].overbought /\ ~(f[s].earnings /\ signal[s] = None)

\* s is at least as good as t in all that either has, and better in something.
Dominates(s, t, f) ==
    /\ Available(s, f) = Available(t, f)
    /\ \A k \in Available(s, f) : Value(s, f)[k] >= Value(t, f)[k]
    /\ \E k \in Available(s, f) : Value(s, f)[k] > Value(t, f)[k]
    /\ ~f[s].overbought /\ (f[s].earnings => f[t].earnings)

Fair(ranked, f) ==
    \A s \in Eligible, i \in DOMAIN ranked :
        LET t == ranked[i] IN
        ~(\E j \in 1..i : ranked[j] = s) =>
            ~Dominates(s, t, f) /\ (Perfect(s, f) => Perfect(t, f))

\* A stored candidate is not dominated by a symbol behind it or left out, and what
\* nobody could know of a symbol does not count against it (ADR-0008, step 3): a
\* perfect one gives way to perfect ones only.
RankingIsFair == [][stage = "judging" /\ stage' = "idle" => Fair(row'.candidates, facts')]_scoringVars
=============================================================================
