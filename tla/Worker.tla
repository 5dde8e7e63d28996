------------------------------- MODULE Worker -------------------------------
(***************************************************************************)
(* The scheduler's loop and the scans it runs: one event at a time, each   *)
(* job awaited before the next event is looked for.  A scan refreshes the  *)
(* source registry, pulls the daily bars, builds the universe once per     *)
(* session date, gathers the rest, scores and stores.  Time passes while a *)
(* job runs; any request may fail, and what a job raises ends the worker.  *)
(* The other jobs are in Stops and Corporate and are opaque here.          *)
(***************************************************************************)
EXTENDS Timeline, Universe, FiniteSets

CONSTANTS
    Domains,        \* domains of the source registry
    TopN,           \* scan_top_n
    MaxJob,         \* bound: ticks from an event's time to the end of its job
    MaxLives        \* bound: starts of the worker

ASSUME WorkerAssumption ==
    /\ "bars_quotes" \in Domains /\ TopN \in Nat /\ MaxJob \in Nat
    /\ MaxLives \in Nat \ {0}

VARIABLES
    clock,
    worker,         \* what the process is doing
    since,          \* when this life of it began
    next,           \* the event it waits for or is at
    last,           \* the last event whose job is over, and when it was
    registry,       \* SourceRegistry.last: the domains down, and when it was asked
    cache,          \* ScanRunner._universe_cache
    work,           \* the scan in hand: entries_halted and daily
    instruments,    \* the instruments table: the status of each symbol
    scan,           \* the newest row of scans (no code reads an older one)
    lives

memory == <<registry, cache, work>>
vars == <<clock, worker, since, next, last, registry, cache, work, instruments, scan, lives>>

Stages == {"refreshing", "gathering", "scoring"}
Busy == {"at a job"} \cup Stages
ScanJobs == {"preopen_scan", "intraday_scan"}

\* Jobs nobody has registered.
Unregistered == DOMAIN OffsetsFromClose

NoEvent == [at |-> -1, name |-> "none"]
NoWork == [halted |-> FALSE, daily |-> {}]
NoScan == [at |-> -1, candidates |-> {}, halted |-> FALSE, stamped |-> -1]

\* A registry never refreshed holds no stamp: every domain counts as down.
Unasked == [at |-> -1, down |-> Domains]
NoCache == [day |-> -1, members |-> [s \in {} |-> "eligible"]]

-----------------------------------------------------------------------------
Init ==
    /\ clock = 0 /\ since = 0 /\ lives = 1
    /\ worker = "looking" /\ next = NoEvent /\ last = [event |-> NoEvent, until |-> -1]
    /\ registry = Unasked /\ cache = NoCache /\ work = NoWork
    /\ instruments = [s \in Symbols |-> "none"]
    /\ scan = NoScan

\* Time passes: tick by tick while a job runs; for a worker that sleeps until the
\* event's time (asyncio.sleep), and for one that is down to the time of the next
\* event, since nothing else looks at the clock in between.
Tick ==
    /\ \/ worker \in Busy /\ clock < next.at + MaxJob /\ clock' = clock + 1
       \/ worker = "asleep" /\ clock < next.at /\ clock' = next.at
       \/ worker = "down" /\ Due(clock) # {} /\ clock' = NextEvent(clock).at
    /\ UNCHANGED <<worker, since, next, last, memory, instruments, scan, lives>>

\* The job's time at the event is over.
Ended == last' = [event |-> next, until |-> clock]

\* What was only in memory is gone.
Lose == registry' = Unasked /\ cache' = NoCache /\ work' = NoWork

\* run_once: sleep until the next event, or LookupError at the calendar's end.
Look ==
    /\ worker = "looking"
    /\ \/ /\ Due(clock) # {}
          /\ next' = NextEvent(clock) /\ worker' = "asleep" /\ UNCHANGED memory
       \/ /\ Due(clock) = {}
          /\ worker' = "down" /\ Lose /\ UNCHANGED next
    /\ UNCHANGED <<clock, since, last, instruments, scan, lives>>

\* The event has come; an event without a job is only logged.  A scan first
\* asks the registry, as it was left by the scan before, what is halted.  The sleep
\* is taken to last until the event's time: run_once computes it once and does not
\* read the clock again, so a wall clock that is set back meanwhile is left out.
Wake ==
    /\ worker = "asleep" /\ clock >= next.at
    /\ \/ /\ next.name \in Unregistered
          /\ worker' = "looking" /\ Ended /\ UNCHANGED work
       \/ /\ next.name \in ScanJobs
          /\ worker' = "refreshing"
          /\ work' = [NoWork EXCEPT !.halted = "bars_quotes" \in registry.down]
          /\ UNCHANGED last
       \/ /\ next.name \notin Unregistered \cup ScanJobs
          /\ worker' = "at a job" /\ UNCHANGED <<last, work>>
    /\ UNCHANGED <<clock, since, next, registry, cache, instruments, scan, lives>>

\* Another job returns.
JobEnds ==
    /\ worker = "at a job"
    /\ worker' = "looking" /\ Ended
    /\ UNCHANGED <<clock, since, next, memory, instruments, scan, lives>>

\* SourceRegistry.refresh: a health check that raises counts as down, so the
\* refresh itself never raises.
Refresh ==
    /\ worker = "refreshing"
    /\ \E down \in SUBSET Domains : registry' = [at |-> clock, down |-> down]
    /\ worker' = "gathering"
    /\ UNCHANGED <<clock, since, next, last, cache, work, instruments, scan, lives>>

\* Mutant: the table is written anew.
Rewritten(members) == members

\* upsert_instruments: a symbol that is no longer listed keeps its row.
Upserted(members) ==
    [s \in Symbols |-> IF s \in DOMAIN members THEN members[s] ELSE instruments[s]]

\* Mutant: a universe once built is good for ever.
CachedForEver(d) == cache # NoCache

\* The universe was built on this session date.
Cached(d) == cache.day = d

\* What may come back: the symbols with daily bars enough to score, and the companies
\* of a list EDGAR answered for (one whose request fails is left out).
Pulls == SUBSET Symbols
Answers(listed) == SUBSET listed

\* build_universe: from the listed assets (asked a second time), what EDGAR answered
\* and the bars just pulled.
BuildUniverse(daily) ==
    \E listed \in SUBSET Symbols : \E known \in Answers(listed) : \E floors \in SUBSET (daily \cap known) :
        LET members == [s \in listed |-> Classify(s, known, floors)]
        IN  /\ cache' = [day |-> Day(next.at), members |-> members]
            /\ instruments' = Upserted(members)

\* gather up to the universe: the daily bars; then the cached universe or a new one.
Gather ==
    /\ worker = "gathering"
    /\ \E daily \in Pulls :
          /\ work' = [work EXCEPT !.daily = daily]
          /\ \/ Cached(Day(next.at)) /\ UNCHANGED <<cache, instruments>>
             \/ ~Cached(Day(next.at)) /\ BuildUniverse(daily)
    /\ worker' = "scoring"
    /\ UNCHANGED <<clock, since, next, last, registry, scan, lives>>

\* Scanner.run scores the eligible symbols that have bars in this pull.
Scored == {s \in DOMAIN cache.members : cache.members[s] = "eligible"} \cap work.daily

\* The candidates: the TopN with the best scores.
Best(S) == {b \in SUBSET S : Cardinality(b) = IF Cardinality(S) < TopN THEN Cardinality(S) ELSE TopN}

\* persist_scan: now and the session date are the event's, the source status is the
\* registry's; the memberships it stores are those of the cache.
Row(candidates) == [at |-> next.at, candidates |-> candidates, halted |-> work.halted,
                    stamped |-> registry.at]

\* The rest of gather and Scanner.run: bars, quotes, headlines, earnings (whose
\* failure is caught), judgements (a keyword rule stands in for them), the scores.
\* Then the scan and its judgement calls are stored in one transaction.
ScoreAndStore ==
    /\ worker = "scoring"
    /\ \E best \in Best(Scored) : scan' = Row(best)
    /\ worker' = "looking" /\ Ended /\ work' = NoWork
    /\ UNCHANGED <<clock, since, next, registry, cache, instruments, lives>>

\* A job raises, and with it run_forever; or the process dies.
Die ==
    /\ worker \in {"looking", "asleep"} \cup Busy
    /\ worker' = "down" /\ Lose
    /\ IF worker \in Busy THEN Ended ELSE UNCHANGED last
    /\ UNCHANGED <<clock, since, next, instruments, scan, lives>>

\* The host starts the worker again.
Restart ==
    /\ worker = "down" /\ lives < MaxLives
    /\ worker' = "looking" /\ since' = clock /\ lives' = lives + 1
    /\ Lose
    /\ UNCHANGED <<clock, next, last, instruments, scan>>

Next == Tick \/ Look \/ Wake \/ JobEnds \/ Refresh \/ Gather \/ ScoreAndStore
        \/ Die \/ Restart

Spec == Init /\ [][Next]_vars

-----------------------------------------------------------------------------
TypeOK ==
    /\ clock \in Nat /\ since \in 0..clock /\ lives \in 1..MaxLives
    /\ worker \in {"looking", "asleep", "down"} \cup Busy
    /\ {next, last.event} \subseteq Events \cup {NoEvent} /\ last.until \in -1..clock
    /\ registry.at \in -1..clock /\ registry.down \in SUBSET Domains
    /\ DOMAIN cache.members \subseteq Symbols
    /\ work \in [halted : BOOLEAN, daily : SUBSET Symbols]
    /\ instruments \in [Symbols -> Statuses \cup {"none"}]
    /\ scan.at <= clock /\ scan.stamped <= clock /\ scan.candidates \subseteq Symbols

\* Jobs are taken up in the order of their events and each once: neither the loop,
\* which looks again as soon as a job returns, nor a restarted worker goes back to
\* an event that has been taken up. (Scheduler.next_event, run_once)
NoEventTwice == [][worker = "asleep" /\ worker' # "asleep" /\ worker' # "down"
                        => last.event.at < next.at]_vars

\* The only events that pass a living worker by are those whose time came while the
\* job of an earlier event was still running: none is slept through, none is
\* lost over a holiday, and none is left out of a half-day. (next_event, plan_session)
MissedOnlyBehindAJob ==
    worker = "asleep" =>
        \A e \in Events \ {next} : since < e.at /\ e.at <= clock => e.at <= last.until

\* A candidate that is stored passed the exclusion screen, and the universe it was
\* chosen from is the one the instruments table was given on the same session date,
\* also when the scan ran from the cache, late, or after a restart.
\* (ScanRunner.universe, classify, Scanner.run, persist_scan)
CandidatesAreOfTheDay ==
    [][scan' # scan =>
        /\ cache.day = Day(scan'.at)
        /\ \A s \in DOMAIN cache.members : instruments[s] = cache.members[s]
        /\ \A s \in scan'.candidates : MayBeTraded(s) /\ instruments[s] = "eligible"]_vars
=============================================================================
