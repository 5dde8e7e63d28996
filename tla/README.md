# Verification of the retirement-investment bot

TLA+ models of the trading worker under `src/tradeagent` and of the database
under `supabase/migrations`: modules, TLC configurations that check them on small
instances, and TLAPS proofs that hold for every value of the constants. Paths
below are relative to the repository's `src/` directory. `PROJECT.json` maps each
definition to the lines it translates.

## 1. The system

A single worker process boots, reconciles its virtual ledger with a paper
account at Alpaca, and then runs jobs at fixed offsets from the session's open and
close. All state is in PostgreSQL; much of the safety is in triggers.

| Component | State | Operations | Interacts with |
|---|---|---|---|
| Order state machine (`0007_invariants.sql`) | `orders.status` | `transition_order`, guarded by `orders_validate_transition` | every writer of orders |
| Capital reservation (`0009_capital_reservation.sql`, ADR-0021) | `orders.reserved_notional_usd`, latest `cash_ledger` balance | reserve on insert, consume on fill, release on a terminal status; advisory lock per portfolio | ledger, sessions |
| Virtual ledger (`execution/ledger_apply.py`, `persistence/db.py`) | orders, fills, lots, positions, cash_ledger | `record_order`, `transition_order`, `apply_fill`, `apply_split`, `ensure_initial_equity` | reconciliation, stops, corporate actions |
| Database sessions | locks, uncommitted rows | the same, statement by statement | PostgreSQL |
| Reconciliation (`execution/reconcile.py`) | `reconciliations`, the watermark | `reconcile`: replay, compare, refresh, verdict | broker, ledger, boot |
| Protective stops (`execution/stops.py`) | `stop_coverage`, protective orders | `rearm`, `verify_post_open` | scheduler, broker, ledger |
| Boot, phases and versions (`ops/boot.py`, `versioning/`) | experiments, registries, `experiment_phases`, `halts` | `boot`, `ensure_phase`, `register_all` | policy, reconciliation |
| Broker policy (`execution/broker_policy.py`) | `broker_policy_checks`, the account's configuration | `enforce_broker_policy` | boot |
| Corporate actions (`execution/corporate.py`) | lots, `lot_events`, positions | `apply_corporate_actions` | scheduler, ledger |
| Scheduler and jobs (`ops/scheduler.py`, `ops/jobs.py`) | none (the clock) | `next_event`, `run_forever` | every job |
| Scan runner, source registry, scanner | `scans`, `candidates`, health stamps, the day's universe | `run_and_persist`, `refresh`, `composite_scores` | data adapters |
| Judgement classifier (`scanner/signals/catalyst.py`, `adapters/typesafe/jev.py`) | `llm_calls`, the scan in hand | `classify`, `judge` | scanner, an outside model |
| Universe and exclusions (`universe/builder.py`, `exclusions.py`) | `instruments` | `classify`, `screen` | scan runner |
| Fees (`fees.py`) | none (pure) | `row_on`, `for_buy`, `for_sell` | ledger |
| Configuration and command line (`config/loader.py`, `execution/broker_factory.py`, `cli.py`) | the process's settings and broker | `load_settings`, `make_broker`, `boot-check`, `run` | boot, the environment |
| Trading calendar | none (pure) | sessions, settlement | scheduler |
| Adapters (Alpaca, EDGAR, Finnhub, classifier) | none | HTTP | outside services |

What is hard here:

* **Concurrency.** Two database sessions (an old and a new deployment, a job and an
  operator) can write the same portfolio. Two kinds of locks (advisory, row) are
  taken in different orders by different callers.
* **Reads across awaits.** A reconciliation reads activities, positions, open
  orders and single orders one after the other while the broker fills and closes.
* **Transactions around broker calls.** A job's rows are rolled back by a crash; the
  orders it submitted are not.
* **Projections.** Positions, lots, reservations and balances are stored, not
  derived; each must agree with the fills whatever order things happened in.
* **Deployments in any order.** Phases record what was in force; versions come, go
  and come back; one connection carries everything and nothing commits.
* **Overrides.** The mode comes from a file or from the environment; the experiment's name, the
  broker, the fees and the versions follow from it at different places, over restarts.
* **Partial failure.** The paid judge of headlines may fail at any of them.

What makes each component correct:

* **Capital reservation**: open BUY orders never hold more than the cash, and every fill of an order
  the broker works fits its reservation, whatever was filled, cancelled or refreshed before.
* **Ledger**: the balance is the equity plus every booked fill once; lots add up to positions; a BUY is
  FILLED only with all its fills booked.
* **Sessions**: no over-commitment, no lost update and no reopened order between two sessions, and no
  transaction that waits for ever.
* **Reconciliation**: nothing unbooked falls behind the watermark; a worker that runs has replayed all
  it fetched; a halt has a cause outside the reconciliation; a boot ends.
* **Stops**: after the final verification every open position with a level has a verified live stop or a new
  exit; an exit is not doubled; no worker runs beside an order the database does not know.
* **Corporate actions**: after the job, ledger and broker hold the same shares under the same symbols, and a
  level a position has is at today's prices; what the re-arm leaves where there is a level fits the position; a boot comes up unless something is really different.
* **Boot**: phases form a chain in which each link has a record of its own; a running worker is what the open
  phase records; a halt leaves nothing but itself, and is not lost.
* **Worker and scans**: an event is taken up once and missed only behind a job that overran; a stored scan
  has the universe of its own date and no candidate the screen excludes; a stored scan
  has one call for each verdict of the paid judge, and says when the rule stood in (what a scan that is never stored
  has paid for is not recorded, section 6); nobody ranks behind a symbol that is worse or equal in everything.
* **Launch**: a worker runs in the mode its experiment was recorded with, through that mode's broker, over
  shares of its own; a fill is charged the fees of its day.

## 2. Modules

| Module | Models | Promise |
|---|---|---|
| `OrderStates` | the transition table and the groups of statuses | (used by all) |
| `Sums` | finite sums and products by counting, so that modules with proofs need no recursion | (lemmas in `Sums_proofs`) |
| `Capital` | abstract: cash and what each order holds of it (ADR-0021) | `Solvent` |
| `Ledger` | one committed transaction per action, broker as environment | implements `Capital` |
| `LedgerSessions` | the transactions of `Ledger` taken apart into statements, with locks | `NoOverCommit` and others under interleaving |
| `Reconcile` | one boot's reconciliation as a sequence of broker reads in one transaction | replay or halt |
| `Stops` | re-arm and verification jobs, each one transaction around broker calls | coverage after the final verification |
| `Corporate` | the daily corporate-actions job, the re-arm after it, the broker's overnight adjustment, market and stops, boots in between | ledger, stops and broker agree after the jobs |
| `Timeline` | the calendar, the events of a session and the next one due | (used by `Worker`) |
| `Universe` | the decisions about one symbol: lists, industries, history, floors | (used by `Worker`) |
| `Worker` | the scheduler's loop, the scans it runs, failures and restarts | which events are missed; what a stored scan rests on |
| `Scoring` | the judging of headlines, the composite score, the ranking and what is stored | calls match verdicts, fallbacks marked, ranking fair |
| `Fees` | fee schedules: the row in force and the lines of a fill | (used by `Launch`) |
| `Launch` | a process from its environment to a running worker, over deployments and days | mode, broker, shares and fees are the right ones |
| `Boot` | the steps of `boot` on one connection, the halts, seven deployments | phases are a justified chain |

`Boot`, `Reconcile`, `Stops`, `Corporate` and `Launch` each contain what they need of their neighbours' behaviour
(a boot's outcome, a reconciliation against a broker at rest) and name the module that takes it apart.
`MC*` modules give the constants their values; `M_proofs` holds the proofs about module `M`. `Ledger_proofs` also proves
that `Ledger` implements `Capital`; `Worker_proofs` has the proofs about `Scoring` (the inside of a scan) and
`Launch_proofs` those about `Boot` (the inside of a boot), whose definitions carry their own names
(`ScoringSpec`, `BootSpec`, ...) for that.

How state corresponds to code:

* **Ledger.** `order`, `applied`, `position`, `cash` are the rows of `orders`, `fills`,
  `positions` with `lots`, and `cash_ledger`. `broker` and `activity` are what Alpaca
  has; `activity` is what `activities_since` returns. `RecordBuy`/`RecordSell` are
  `record_order` with its insert triggers, `DecideOrder`, `SubmitOrder` and
  `RefreshOrder` the callers of `transition_order`, `ReplayFill` one turn of
  the replay loop of `reconcile` with the whole of `apply_fill`. A statement that
  raises is a disabled action, because its transaction leaves no trace.
* **LedgerSessions.** `row`, `booked`, `balance` are committed; `txn[s]` has the
  session's own versions, its place in the statement list and what it read earlier;
  `holder` is the advisory lock and `owner` the row locks. Raises are explicit here
  (`Abort`), so are deadlock victims and lost connections.
* **Reconcile.** `saved` is the ledger as committed, `work` as the boot transaction
  sees it, `next..upto` the activities fetched, `refresh` the orders to ask for.
  `Fall` is every way the transaction rolls back.
* **Stops.** `job` is a running `rearm` or `verify_post_open` (the position in hand,
  the set of orders still to look at, the oldest first, the status seen last); `ledger` is its view, `saved`
  what is committed. `Tick` is the calendar; a missed event is not run later, as
  `next_event` looks strictly after now.
* **Corporate.** `held` is what the broker holds by symbol and `market` its prices, both adjusted in the night;
  `position` the ledger's open positions, with `applied` for their `split_adjust` lot events, `level` for
  `working_invalidation_price` (`NoLevel` for NULL: a position that a replayed fill opens has none, and nothing under
  `src` gives it one) and `stop` for the protective order: the symbol of its row (`name`), and
  where, for how much and at which level the broker works it. `fill` and `booked` are the fills a boot has
  still to replay. `ApplyCorporateActions` and `Rearm` are whole jobs; what the night does to an open stop of a
  split symbol (kept, adjusted or cancelled) is left open.
* **Worker.** `worker` is where the process stands: looking for the next event, asleep until it, in
  one of the stages of a scan (`refreshing`, `gathering`, `scoring`), at another job, or down. `clock` moves
  while it works and jumps while it sleeps. `registry`, `cache` and `work` are lost by `Die` and
  `Restart`; `instruments` and `scan` are tables. `PlanSession`, `Due` and `NextEvent` of `Timeline` are
  `plan_session` and `next_event`. Every request of a scan that is not caught is a `Die` in its stage.
* **Scoring.** `at` is the `classify` call in hand, `calls`, `unavailable` and `signal` the locals of
  `Scanner.run`, `row` and `llmCalls` what is stored, `answered` the requests the service has answered. The facts that are not headlines are chosen where the
  scores first read them (`Store`); scores are integers, `Whole` being 1.0, that every weight divides.
* **Launch.** `files` is the image deployed, `env`, `settings` and `broker` what a process made of it,
  `experiments` the table. `inForce` and `due` are kept day by day beside the code's own look-up, so that
  `RowOn` is compared with what was in force and not with itself. `fills` is the account, `booked` what
  the ledger charged for each fill. A boot is one step that commits at its end; `Boot` takes it apart.
* **Boot.** `view` is the database as the connection sees it, `point` the savepoint
  the main transaction goes back to, `saved` what is committed (and stays empty:
  section 6).

## 3. Runs

| Run | Question | Expected |
|---|---|---|
| `ledger` | do reservations, lots and cash stay explained, and is `Capital` implemented, over every mix of orders, fills, cancels and a split | pass |
| `sessions` | can two sessions over-commit, lose an update, reopen an order or block for ever | pass |
| `reconcile` | can a fill be skipped by the watermark, or a halt be of the code's own making | pass |
| `reconcile_stranded` | can the ledger close an order whose fill is still outstanding | violated |
| `stops` | is every position covered after the final verification; can the re-arm double an exit; does a worker run beside an order it does not know | pass |
| `boot` | is a running worker what the open phase records, is a halt without trace | pass |
| `boot_unsaved` | does a recorded halt survive the process | violated |
| `corporate` | does the ledger hold what the broker holds after each day's job, do the stops fit after the re-arm, and which boots halt | pass |
| `corporate_late` | the same for a position opened after the ex date | violated |
| `worker` | which events does the loop miss and why; with whose universe and screen is a scan stored | pass |
| `scan` | is every headline judged once and every verdict of a stored scan matched by a call, are fallbacks marked, is the ranking fair | pass |
| `launch` | in which mode, over whose shares and at whose rates does a worker run | pass |

Bounds, and why they are enough:

* `ledger`: two interchangeable orders of at most two shares in one symbol, equity 4,
  prices 1 and 2, a reservation buffer of 0 or 1, a fee of 1, a 2:1 split, four
  activities. Two orders are needed for competing reservations and for a SELL that
  consumes another order's lots; two shares for a partial fill; equity 4 so that two
  buys do not fit. About 70,000 states.
* `sessions`: two sessions (a deadlock, a lost update and a double booking
  need two), three orders, three fills of one order (one partial, one last, one to
  race), equity 5 with two buys of which only one fits. Deadlock is checked.
* `reconcile`: two boots, a BUY of 2 and a SELL of 1 in one symbol, an order in a
  symbol that was excluded later, one manual order, nobody trading more than two shares
  (`MaxShares`, which only bounds the sums). Two boots let a repair or a
  rollback of the first meet the second.
* `stops`: one position of two shares, four orders, two sessions. Two shares for a
  partial fill of a stop, four orders for the re-arm and both verifications of a
  session and the next session's.
* `corporate`: two symbols; a 2:1 split of the first on day 1, its rename on day 2, a 3:1 split
  under the new name on day 3; announcements up to a day late, a window of two days (seven in
  the code) and four days, so that a window passes; a price of 12 that may fall to the level of 6, both
  divisible by every ratio; positions that start with that level or without one; three fills, of one share or of a
  stop. About 540,000 states.
* `worker`: two sessions around a holiday, the second a half-day with one scan less; events in their
  real order, one of each kind; jobs of up to two ticks, enough for the pre-open scan to reach the
  verification and for a scan to reach the next one; one restart; two companies of one default-deny
  industry, both allowlisted and one also denied, so that the order of the lists matters. About 3 million states.
* `scan`: two symbols with up to two headlines each, so that a failure falls within a symbol and between
  two; two paid answers (no scan begins after them), one of them material; one candidate stored, so that
  one symbol is left out; weights 8, 1 and 1 for eight technical signals, setup and catalyst. About 130,000 states.
* `launch`: three days, one deployment, two experiments and three fills; schedules with a rate that has
  lapsed (CAT), one that is amended or ended (SEC) and one that stays (TAF). Two experiments are what a name
  can be wrong between; three fills a purchase, its sale and another; amendments are deployed before they apply, as a
  rate published afterwards is not in any earlier file. Days pass and orders fill only while no process is on its way
  up: a boot reads the account in one step here and `Reconcile` is about the one that does not. About 1.5 million states.
* `boot`: seven deployments (first, code fix, two releases with different records, a
  reused version string, another mode, enforcement off) and four boots, so that a
  release can be rolled back and come again.

## 4. Fairness

* `LedgerSessions`: strong fairness of the statements of each session, since a waiter
  of an advisory or row lock gets its turn (PostgreSQL's lock queues are first come,
  first served), and weak fairness of the deadlock detector. Beginning a
  transaction and losing the connection are never forced.
* `Reconcile`: weak fairness of the boot's own steps: the coroutine runs on when the
  awaited call returns, and the HTTP client has a timeout. The broker and restarts
  are not forced.
* `Stops`, `Boot`, `Worker`, `Corporate`, `Scoring` and `Launch` have only safety properties and no fairness.

## 5. Proofs

The theorems hold for every value of the constants that the named assumptions allow: any number of orders,
sessions, fills, positions, deployments and boots, any calendar. Each inductive invariant was first checked by TLC as an invariant
of the component's run (`Shares` of `Corporate` apart, which says that a trail of numbers exists); the theorems about `Init` and the steps carry it, and what the runs check follows from it.

`Sums_proofs` has what the others cite about `Tally`: it is a natural number, it is monotone, it changes by
one entry's change, and taking an element in or out changes it by that element. Since `Tally` counts a set of
units, these are facts about cardinalities and need no induction. `LeastNatural` (a nonempty set of
naturals has a least element) is there too; the scheduler's choice of the next event rests on it.
`Multiplied` counts the ways to choose, so that the product over a disjoint union is the product of the products by a
bijection, which is what two jobs that apply a split each come to.

* **Boot** (second half of `Launch_proofs`). `BootInv`: types, and both the connection's and the savepoint's phases are a
  justified chain. The savepoint must be in it because a halt goes back to it. `BootTypeCorrect` and
  `BootPhasesJustified` follow. For `BootUpMeansInForce` a second invariant, `Progress`, says at each step of a
  boot what the steps before it have established: nothing on the way undoes it, the account's owner included,
  who does not touch the configuration between the check and the boot's end. `BootHaltLeavesNoTrace` is read
  off the steps. Assumption: deployments are records of the declared type.
* **Ledger** (`Ledger_proofs`). `Solvent` alone is not inductive: that a booked fill fits the cash rests on
  its being inside the order's reservation (`FillsAffordable`), which rests on the reservation still
  being there when the fill is booked (`FilledMeansBooked`), which rests on the
  broker and the ledger agreeing about who works what (`BrokerStory`), and on a BUY
  being fully reserved until it is at the broker (`FullyReserved`); `LedgerInv` is their conjunction. From it:
  `LedgerTypeCorrect`, `LedgerFillsAffordable`, `LedgerFilledMeansBooked`, and
  `LedgerImplementsCapital`, each step mapped to a step of `Capital` or a stutter
  with `cash <- Balance` and `hold <- HoldOf`. `LedgerSolvent` rests on that mapping: no step of `Capital` lets the
  holds exceed the cash (`CapStepSolvent`). `LedgerCashExplained` needs `CashInv` on top: before there is cash there is no BUY, hence no shares,
  hence no SELL, so no fill is booked before the opening row; and no SELL's proceeds exceed the column, so
  the sums lose nothing. `LedgerLotsBackPosition` follows the running totals of the lots: a sale leaves the total
  that the first-in lots no longer cover, and a split multiplies each running total. It is stated under `WholeSplits` (every
  ratio multiplies), since of a split with a fraction it is false (section 6).
  Assumptions: `LedgerAssumption` (finitely many orders, positive prices, a SELL's fee at most its smallest price).
* **LedgerSessions** (`LedgerSessions_proofs`). `SessionsInv` says of the tables that they explain each other
  (`Committed`), of the locks that who writes cash or fills holds the portfolio's (`Locks`), and of each
  session that its own versions of rows and balance are the committed ones plus its own work (`Sound`), where a
  fill in hand counts differently before and after the reservation is consumed and before and after it is
  paid. `Sound` takes the committed tables as arguments, so that what another session's commit does to it is
  one lemma. `SessionsTypeCorrect`, `SessionsLockDiscipline`, `SessionsFillsPaidOnce`, `SessionsHoldExplained`
  and `SessionsClosedStaysClosed` follow. `SessionsNoOverCommit` needs `MoneyInv` as well: the holder of the
  portfolio lock can pay for all it sees (`Budget`), a session without the lock can only have lowered what its
  rows hold (`Lower`), and what is still to be booked fits what was granted (`Fits`, `Ready`). Assumptions:
  `SessionsAssumption`, and `AffordableAssumption`: the fills of an order together fit its reservation, only the
  replay of the last one moves it to FILLED, and a session replays an order's fills oldest first. The first two are what
  `LedgerFillsAffordable` and `LedgerFilledMeansBooked` prove of the same transactions one at a time; the
  third is the order in which `activities_since` answers and `reconcile` replays.
* **Reconcile** (`Reconcile_proofs`). `ReconcileInv`: what the broker's words and fills have to do with each
  other, that both versions of the ledger (committed, and the boot's) book fills of known orders only, that
  neither side is ever short of a symbol, that what lies before `next` is booked as long as nothing is
  unexplained, and that a quiet boot finds nothing to halt for. `ReconcileTypeCorrect`,
  `ReconcileNothingBehindWatermark`, `ReconcileRunningMeansReplayed`, `ReconcileHaltIsExplained` follow, for
  any log and any failures between the reads. Assumption: `ReconcileAssumption` (quantities within `MaxShares`, manual
  orders are not the ledger's).
* **Stops** (`Stops_proofs`). `StopsInv`: each row, as committed and as the job sees it, matches its order at the broker
  (one that is open there is a working row of the same position, and no fill is booked that was not made), in
  both versions of the ledger because a crash goes back to the committed one; a process that is up knows every
  order the broker works; a re-arm has still to look at every sibling that is working, which is why its
  submit doubles none; a position the final verification is done with is covered already; and the ids that are
  left suffice for the positions that are left. `StopsTypeCorrect`, `StopsUpKnowsItsOrders`,
  `StopsRearmNeverDoubles`, `StopsFinalVerificationCovers` follow. Assumption: `StopsAssumption` (finitely many positions and orders).
* **Worker** (`Worker_proofs`). `WorkerInv`: at every point of the loop, which events of this life it has seen,
  and that the one it waits for is the first to come; and that the cached universe is what the `instruments` table was
  last given, screened, with a scan that scores having that of its own date. That the first event
  within thirty days is the first of all (`NextIsFirst`) and that days follow the order of times
  (`DayMonotone`) are lemmas. `WorkerTypeCorrect`, `WorkerMissesOnlyBehindAJob`, `WorkerNoEventTwice`,
  `WorkerCandidatesAreOfTheDay` follow. Assumptions: `WorkerAssumption` and `TimelineAssumption` (an event lies on
  its session's day, and no two events have the same time).
* **Launch** (`Launch_proofs`). `LaunchInv`: the look-up `RowOn` in the files agrees with the account of the rates kept
  day by day, today and on every day gone (`Rated`); a process has the files' fees as long as it lives and the
  broker of its mode (`Configured`); an experiment has one mode, and whatever trades under its name is PAPER (`Registered`);
  what is booked is a prefix of the account, priced (`Charged`). The lemmas about the look-up say that a rate
  deployed for later changes no day before it, and another end of the row in force no day up to then.
  `LaunchFeesAreThoseOfTheDay`, `LaunchRunsWhatItRecorded`, `LaunchRunsOverItsOwnShares` follow; the last needs `Registered` where
  a boot compares nothing: an experiment that only observes has no shares of its own, so an account without shares has
  none of anybody. Assumption: `LaunchAssumption` (at most one row of a schedule starts on a day, none ends before it starts).
* **Scoring** (second half of `Worker_proofs`). `ScoringInv`: for which judge the headlines of the symbols begun have
  been counted, and that a failed call is remembered until the scan is stored; `ScoringCallsMatchVerdicts` and
  `ScoringFallbackIsMarked` are conjuncts of it. `ScoringRankingIsFair` needs only that a strength is a signal or none
  yet (`Strengths`): a symbol that is at least as good in everything available and better in one thing has the
  greater mean, a perfect one has the whole, and no penalty turns that round. The hard case is that both are
  penalised for earnings: the clamp at zero must not make them equal, or the alphabet would decide. Assumptions:
  `ScoringAssumption` (weights are positive, `Whole` is divided by all that the scores divide it by) and
  `RankingAssumption` (a full technical signal is worth more than the earnings penalty, as in `scanner.yaml`, so
  that a symbol that leads by one is not clamped).
* **Corporate** (`Corporate_proofs`). Four invariants, each resting on those before it. `StopsFit`: a stop that nothing
  has touched covers its position at its level. `Placed`: where a chain of renames has led every symbol (`Names`), that no two positions are about the
  same shares (`Rows`), that the broker holds only what trades (`Listings`), and that a level a position
  has, over the splits it has still to go through, is today's low (`Levels`); `NoLevel` is carried along by every step
  and promises nothing. `Shares`:
  what a symbol's position comes to through its splits, followed by the fills that are not booked, is what the broker
  holds, as long as no fill is from before a split or a rename. `InTime`: a worker that is up has no action
  behind it that its next job cannot still fetch, which rests on actions being announced in time (`Announced`) and on
  a boot not coming up over one it missed. `CorporateTypeCorrect` and `CorporateRearmFits` follow from the first two,
  `CorporateBootComesUp` from `Shares` along the recursive function `After` of the replay (the positions after each fill, by
  the least fill where they would differ), and `CorporateJobAligns` from all of them. Assumptions: `CorporateAssumption`, and `ActionsAssumption`
  about the exchange and not the code: a symbol splits at most once a day and while it trades under its name, is taken once and given
  up once, and a name just taken is kept for longer than a window. (`PricesAssumption` is about the run: it keeps a
  price from being rounded to the 0 that stands for NULL. No proof uses it.)

The theorems state every invariant and action property that a passing run checks. Only model-checked are:

* Liveness (`EveryTransactionEnds`, `EveryBootEnds`), which is beyond the prover.
* What the runs `reconcile_stranded`, `boot_unsaved` and `corporate_late` refute.

## 6. What the runs found

1. `apply_corporate_actions` does not compare the ex date with the day a position was
   opened: a purchase on or after the ex date is scaled by the next job (`corporate_late`).
2. `reconcile` closes an order the broker no longer lists without looking for fills
   made since the activities were read; every later boot then raises on the fill
   (`reconcile_stranded`).
3. `connect` leaves a transaction open and nothing commits it, so halts (and all else)
   are lost with the process (`boot_unsaved`). `Reconcile`, `Stops`, `LedgerSessions`, `Corporate` and `Launch`
   model the transactions as the code's callers intend them, each one committing at its
   end, so that their own questions can be asked.

Noted and not runs, by module:

* `LedgerSessions`: `apply_fill` looks for a known fill before the lock and not after it, so two
sessions that replay one fill end in a unique violation and not in a skip (the outcome `unique` of
`LedgerSessions`).
* `Ledger`: `apply_split` rounds a position and each of its lots to nine places separately, so a reverse split can
  leave lots that do not add up in the last place (`ledger` splits 2:1, which is exact). ADR-0002 speaks of a check of
  positions, lots and cash; the code checks the chain of the cash ledger, which its trigger already guarantees.
* `Stops`: a job that dies after a submit leaves an order no row knows, and its next run makes a new
  `client_order_id`; specification line 409 says that all in-flight state is in the database. `UpKnowsItsOrders` says
  what is left of it: no worker runs until somebody has dealt with the order. `verify_post_open` cancels
  nothing before it submits an exit: a stop that is still pending at the final verification gets a second exit next
  to it, where specification 8.3 (`SPEC-v2.3.md:379`, again at 592) has siblings cancelled before any new exit. The
  re-arm does not do this (`RearmNeverDoubles`): it takes a pending sibling for the stop.
* `Corporate`: no code under `src` sets `working_invalidation_price`. A position that a replayed fill opens therefore
  has no level: the re-arm notes `NO_INVALIDATION_LEVEL` and places nothing, and the verification passes it over without
  a row. `RearmFits` and `FinalVerificationCovers` are about positions with a level, as the tests insert them
  (`tests/test_slice3_stops.py`). A split of a new symbol that is announced only when the position has moved on to the next name is never
  applied, since a job asks for the symbols it finds open (`jobs.py:176`), though `docs/spec/SPEC-v2.3.md:609` wants it done before the pre-open
  scan (`SplitLost`); a boot can book a fill from before a split and agree by coincidence, with the shares right and
  the level wrong, which `mixed` remembers; a boot between the broker's overnight adjustment and the pre-open job halts, as section 8.6 step 5
  asks when no replay produces a quantity; a worker that was down at the jobs of a window halts at every boot from then on;
  a fill of an order whose row has the symbol before a rename raises at every boot.
* `Worker`: an event whose time comes while a job runs is never run, so a pre-open scan that takes thirteen
  minutes skips both verifications, which specification line 375 calls mandatory; `entries_halted` of a scan is the status
  of the scan before it, and the first scan of a process is stored as halted; a failing news or filings
  request ends the worker, where specification 5.2 wants a degraded scan; a symbol of the deny list that Alpaca no longer lists
  is not flagged (ADR-0006).
* `Scoring`: the records of paid calls are inserted when the scan is stored (`runner.py:133-137`), so a scan that
  raises after an answer (one without one of the four questions is a `KeyError` nobody catches, `catalyst.py:107-118`) and a
  process that dies while it judges leave requests without a row, where ADR-0023 (line 31) says that every request is
  an `llm_calls` row and `jev.py:1` that every call is accounted. `CallsMatchVerdicts` promises nothing for such a scan:
  `answered` may exceed what is recorded. A symbol whose only headlines are immaterial has a catalyst of 0.0 and not of None, so finding
  them lowers its score (ADR-0008 step 3 says what is unavailable takes its weight along); a tie goes to the
  symbol first in the alphabet and not to dollar volume (step 4); `unavailable["catalyst"]` is never looked up, since the
  signal is named `catalyst_strength` (the scan's own list has it); `opening_range` takes the first bar of the UTC day.
* `Fees`: a row that has lapsed hides an earlier open-ended one, whatever the docstring of `row_on` says of
  "the latest row whose ..."; a SELL on a day without a rate raises at every boot.
* `Launch`: LIVE in the file with DRY_RUN in the environment is accepted, where `load_settings` speaks of "a LIVE value in
  either place"; `LiveLockedOutError` of `make_broker` is not the `LiveLockedOut` that `main` turns into exit code 3 (and
  cannot be reached after it); without `EXPERIMENT_ID` a change of rates starts a new experiment instead of a phase
  (ADR-0012), which halts as long as the old one holds shares; `config_version` changes with `EXECUTION_MODE`
  although no key of a file did (ADR-0019); an entry of another experiment that is still open at the broker
  is known to the database, so a new experiment comes up and the order may fill under it (`RunsOverItsOwnShares` is about shares held at
  the boot); DRY_RUN without keys passes `boot-check`, blind, and not `run`, which needs them for the calendar;
  `probe-fractional-stop` is offered by the parser and missing from the dispatch; `cmd_run` registers no jobs, and no code
  under `src` sends an entry yet (`Submit` is external).

## 7. Modelling decisions

* A BUY is assumed never to be filled above the price its reservation was computed
  with (the overfill buffer of specification 3.4). Nothing in the code enforces it at the broker.
* Average cost, fee rows, settlement dates, lot events and free texts are left out.
  Fees are one constant, the customer-debited sum of a SELL fill.
* A simulated order is never FILLED: that takes a reconstructed fill, and nothing makes one yet.
* The five version registries move together in `Boot`; the five policy fields are one Boolean.
* In `Stops` the boot's reconciliation happens against a broker that holds still
  (`Reconcile` is about one that does not), and an order's quantity is not compared
  with the position's, as in the code; `Corporate` has the quantities and levels.
* `Worker` takes the scoring of a scan as one step with any choice of the best; `Scoring` takes it apart and
  has neither the clock nor the universe.
* `Corporate` takes the days of actions and the names from the exchange as `ActionsAssumption` says; a symbol that is
  split on the day of its rename is left out.
* A split's ratio divides the prices of `Corporate`, so that no rounding hides a wrong level, and none becomes 0.
* A position of `Corporate` has a level only if it starts with one: who sets levels is code that is still to come.
* `Worker` takes a sleep to last until the event's time on the wall clock. `run_once` sleeps by the event loop's
  monotonic clock and does not look again, so a wall clock that is set back meanwhile lets it wake before that time
  and take the same event once more; `NoEventTwice` holds for a clock that nobody sets back.

## 8. Not modelled, and the plan

Not modelled: HTTP, retries and rate limits of the adapters; what the language model is asked; the
technical indicators and the regime, which are statistics over bars; the validation of single configuration
keys; settlement dates; the fractional-stop probe, a manual script; domain models and analytics tables that no code
writes.

Possible extensions, most important first:

1. A refinement of `Capital` by `LedgerSessions`. It is not one step to one step: `apply_fill` consumes a reservation
   and pays in two statements of a transaction, so that it would have to be stated of the committed rows, for which
   `MoneyInv` has most of what is needed. `SessionsNoOverCommit` is what it would promise.
2. Splits with a fraction in `Corporate`, with the rounding of `Ledger`.
3. The days of `Timeline` loaded sixty at a time, as `cli.py` does.
