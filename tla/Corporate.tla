----------------------------- MODULE Corporate -----------------------------
(***************************************************************************)
(* Splits and symbol changes, and the stops of the positions they change.  *)
(* The broker adjusts what it holds, and the feed its prices, in the night *)
(* before the ex date; the worker applies the same action to the ledger's  *)
(* open positions in a daily job before the open, and then re-arms their   *)
(* stops.  Fills are booked by the reconciliation of a boot, which halts   *)
(* when the ledger and the broker hold different quantities.  Reconcile    *)
(* and Stops take a boot and a re-arm apart; here each is one step.        *)
(***************************************************************************)
EXTENDS Sums, Integers, Sequences

CONSTANTS
    Symbols,
    Splits,         \* a set of [symbol, ex, ratio], forward splits
    Changes,        \* a set of [old, new, date]
    Window,         \* days a job looks back (7)
    Lateness,       \* days after its date an action may be announced at the latest
    High, Low,      \* the price of a share on day 0, and the price stops are set at
    MaxQty, MaxFills, MaxDay

ASSUME CorporateAssumption ==
    /\ "none" \notin Symbols /\ IsFiniteSet(Symbols) /\ IsFiniteSet(Splits)
    /\ Splits \subseteq [symbol : Symbols, ex : Nat \ {0}, ratio : Nat \ {0, 1}]
    /\ Changes \subseteq [old : Symbols, new : Symbols, date : Nat \ {0}]
    /\ Window \in Nat /\ Lateness \in 0..Window
    /\ High \in Nat /\ Low \in 1..(High - 1)
    /\ MaxQty \in Nat /\ MaxFills \in Nat /\ MaxDay \in Nat

\* External: a symbol has one split a day, on a day it trades; it is taken once and
\* given up once, and a name that was just taken is kept for longer than a window.
ASSUME ActionsAssumption ==
    /\ \A a, b \in Splits : a.symbol = b.symbol /\ a.ex = b.ex => a = b
    /\ \A c, e \in Changes : c.old = e.old \/ c.new = e.new => c = e
    /\ \A c, e \in Changes : c.new = e.old => c.date + Window < e.date
    /\ \A c \in Changes, a \in Splits :
          (c.old = a.symbol => a.ex < c.date) /\ (c.new = a.symbol => c.date < a.ex)

\* The product of the ratios of some splits.
Factor(splits) == Multiplied([a \in splits |-> a.ratio])

\* Prices are whole in every unit they are quoted in, so that none is ever 0.
ASSUME PricesAssumption == Low % Factor(Splits) = 0 /\ High % Factor(Splits) = 0

VARIABLES
    day,
    stage,          \* "early" until the job, "rearming" until the re-arm, then "open"
    name,           \* external: what the shares called s are called today
    known,          \* external: the actions announced
    held,           \* external: the broker's position in each symbol
    market,         \* external: the last close of each symbol, and what Low is today
    fill,           \* external: the broker's fills, oldest first
    booked,         \* how many of them are in the ledger
    position,       \* positions: the open position of each symbol
    process,        \* "up", "down" or "halted"
    mixed           \* history: a fill was booked whose shares had since been split or renamed

outside == <<name, known, held, market, fill>>
vars == <<day, stage, outside, booked, position, process, mixed>>

\* The level of an order to sell at market.
AtMarket == -1

\* working_invalidation_price is NULL: nothing in the code sets it, so a position
\* has a level if it was given one from outside; NULL stays NULL when it is scaled.
NoLevel == 0

\* The protective order of a position: the symbol of its row; where, for how much
\* and at which level the broker works it; which fills were booked and which splits
\* applied when it was armed, and whether its symbol has been split since.
NoStop == [name |-> "none", at |-> "none", qty |-> 0, level |-> 0,
           booked |-> 0, applied |-> {}, split |-> FALSE]

\* applied stands for the split_adjust lot_events of the position's lots, by key.
Flat == [qty |-> 0, level |-> NoLevel, opened |-> 0, applied |-> {}, stop |-> NoStop]

IsOpen(p) == p.qty > 0
Live(t) == t.qty > 0

Date(a) == IF a \in Splits THEN a.ex ELSE a.date

\* The symbol trades on day d.
Started(s, d) == \A c \in Changes : c.new = s => c.date <= d
Ended(s, d) == \E c \in Changes : c.old = s /\ c.date <= d
Listed(s, d) == Started(s, d) /\ ~Ended(s, d)

\* What the night before day d does to the shares of s, and to its name.
Ratio(s, d) ==
    LET due == { a \in Splits : a.symbol = s /\ a.ex = d }
    IN  IF due = {} THEN 1 ELSE (CHOOSE a \in due : TRUE).ratio

NewName(s, d) ==
    LET due == { c \in Changes : c.old = s /\ c.date = d }
    IN  IF due = {} THEN s ELSE (CHOOSE c \in due : TRUE).new

Before(s, d) == IF \E c \in Changes : c.new = s /\ c.date = d
                THEN (CHOOSE c \in Changes : c.new = s /\ c.date = d).old ELSE s

\* What the night leaves of an order: a market order expires, a stop goes on, and
\* when its symbol is split the broker keeps, adjusts or cancels it.
Overnight(t, d) ==
    LET r == Ratio(t.at, d)
        kept == [t EXCEPT !.at = NewName(t.at, d)]
    IN  IF ~Live(t) \/ t.level = AtMarket THEN {NoStop}
        ELSE IF r = 1 THEN {kept}
        ELSE {[kept EXCEPT !.split = TRUE], NoStop,
              [kept EXCEPT !.qty = @ * r, !.level = @ \div r, !.split = TRUE]}

\* What the broker has set aside for the open sells in s.
Reserved(s) == Cardinality(UNION { {x} \X (1..position[x].stop.qty) :
                                   x \in { y \in Symbols : position[y].stop.at = s } })

-----------------------------------------------------------------------------
Init ==
    /\ day = 0 /\ stage = "open"
    /\ name = [s \in Symbols |-> s] /\ known = {}
    /\ held \in [Symbols -> 0..MaxQty]
    /\ \A s \in Symbols : held[s] > 0 => Listed(s, 0)
    /\ market = [s \in Symbols |-> [close |-> High, low |-> Low]]
    /\ fill = <<>> /\ booked = 0
    /\ \E level \in [Symbols -> {NoLevel, Low}] :
          position = [s \in Symbols |->
            IF held[s] = 0 THEN Flat
            ELSE [Flat EXCEPT !.qty = held[s], !.level = level[s]]]
    /\ process = "up" /\ mixed = FALSE

\* External: the next session day; broker and feed have adjusted overnight.
NewDay ==
    LET d == day + 1 IN
    /\ stage = "open" /\ day < MaxDay
    /\ \A a \in Splits \cup Changes : Date(a) + Lateness <= d => a \in known
    /\ day' = d /\ stage' = "early"
    /\ name' = [s \in Symbols |-> NewName(name[s], d)]
    /\ held' = [s \in Symbols |->
            IF NewName(s, d) # s THEN 0
            ELSE held[s] * Ratio(s, d)
                 + (IF Before(s, d) = s THEN 0 ELSE held[Before(s, d)] * Ratio(Before(s, d), d))]
    /\ market' = [s \in Symbols |->
            LET b == Before(s, d) IN
            [close |-> market[b].close \div Ratio(b, d), low |-> market[b].low \div Ratio(b, d)]]
    /\ \E t \in [Symbols -> UNION { Overnight(position[s].stop, d) : s \in Symbols }] :
          /\ \A s \in Symbols : t[s] \in Overnight(position[s].stop, d)
          /\ position' = [s \in Symbols |-> [position[s] EXCEPT !.stop = t[s]]]
    /\ UNCHANGED <<known, fill, booked, process, mixed>>

\* External: an action appears in GET /v1/corporate-actions.
Announce(a) ==
    /\ a \notin known
    /\ known' = known \cup {a}
    /\ UNCHANGED <<day, stage, name, held, market, fill, booked, position, process, mixed>>

\* External: the price of s falls to the level.
Fall(s) ==
    /\ stage = "open" /\ Listed(s, day) /\ market[s].close > market[s].low
    /\ market' = [market EXCEPT ![s].close = market[s].low]
    /\ UNCHANGED <<day, stage, name, known, held, fill, booked, position, process, mixed>>

\* External: an order in s is filled, q > 0 a BUY, q < 0 a SELL of shares no
\* other order is working.
BrokerFill(s, q) ==
    /\ stage = "open" /\ Listed(s, day) /\ q # 0 /\ held[s] + q >= Reserved(s)
    /\ Len(fill) < MaxFills
    /\ held' = [held EXCEPT ![s] = @ + q]
    /\ fill' = Append(fill, [symbol |-> s, at |-> s, qty |-> q, day |-> day])
    /\ UNCHANGED <<day, stage, name, known, market, booked, position, process, mixed>>

\* External: the protective order of the position in s is filled.
StopFires(s) ==
    LET t == position[s].stop IN
    /\ stage = "open" /\ Live(t) /\ t.qty <= held[t.at]
    /\ t.level = AtMarket \/ market[t.at].close <= t.level
    /\ Len(fill) < MaxFills
    /\ held' = [held EXCEPT ![t.at] = @ - t.qty]
    /\ fill' = Append(fill, [symbol |-> t.name, at |-> t.at, qty |-> -t.qty, day |-> day])
    /\ position' = [position EXCEPT ![s].stop = NoStop]
    /\ UNCHANGED <<day, stage, name, known, market, booked, process, mixed>>

-----------------------------------------------------------------------------
\* for_symbols: the announced actions of the open symbols with a date in the window.
Fetched(s, d) == d \in (day - Window)..day /\ IsOpen(position[s])

\* Mutant: every fetch applies a split again.
ScaleAgain(p, s) ==
    LET due == { a \in Splits \cap known : a.symbol = s /\ Fetched(s, a.ex) }
    IN  [p EXCEPT !.qty = @ * Factor(due),
                  !.level = @ \div Factor(due),
                  !.applied = @ \cup due]

\* Mutant: the shares are scaled and the levels are not.
ScaleSharesOnly(p, s) ==
    LET due == { a \in Splits \cap known :
                    a.symbol = s /\ Fetched(s, a.ex) /\ a \notin p.applied }
    IN  [p EXCEPT !.qty = @ * Factor(due), !.applied = @ \cup due]

\* The first loop of apply_corporate_actions with apply_split, for the position in
\* s: each split that has left no lot event is applied and leaves one.
ScaleOnce(p, s) ==
    LET due == { a \in Splits \cap known :
                    a.symbol = s /\ Fetched(s, a.ex) /\ a \notin p.applied }
    IN  [p EXCEPT !.qty = @ * Factor(due),
                  !.level = @ \div Factor(due),
                  !.applied = @ \cup due]

\* The second loop, over the symbols the positions had before it.
DueChanges == { c \in Changes \cap known : Fetched(c.old, c.date) }

\* change_symbol: the position goes on under the new symbol with its lots and its
\* orders, whose rows keep the old one.
ChangeSymbols(pos) ==
    [s \in Symbols |->
        IF \E c \in DueChanges : c.old = s THEN Flat
        ELSE LET from == { c \in DueChanges : c.new = s }
             IN  IF from = {} THEN pos[s] ELSE pos[(CHOOSE c \in from : TRUE).old]]

\* The job: one fetch and one transaction.  (A symbol that is already open makes
\* change_symbol raise, positions_one_open_per_symbol, and the worker dies.)
ApplyCorporateActions ==
    /\ stage = "early" /\ process = "up"
    /\ \A c \in DueChanges : ~IsOpen(position[c.new])
    /\ position' = ChangeSymbols([s \in Symbols |-> ScaleOnce(position[s], s)])
    /\ stage' = "rearming"
    /\ UNCHANGED <<day, outside, booked, process, mixed>>

\* The order a re-arm places for the position in s.
Order(s, level) ==
    [name |-> s, at |-> s, qty |-> position[s].qty, level |-> level,
     booked |-> booked, applied |-> position[s].applied, split |-> FALSE]

\* Mutant: a gap is told from the price the stop was first set at.
RearmedAtLow(s) ==
    LET p == position[s]
    IN  IF ~IsOpen(p) \/ p.level = NoLevel \/ Live(p.stop) THEN p
        ELSE IF market[s].close <= Low THEN [p EXCEPT !.stop = Order(s, AtMarket)]
        ELSE [p EXCEPT !.stop = Order(s, p.level)]

\* rearm, for the position in s: without a level no order is placed (the incident
\* NO_INVALIDATION_LEVEL); a live order is confirmed whatever it covers; else a gap
\* is sold at market and anything else gets a stop.
Rearmed(s) ==
    LET p == position[s]
    IN  IF ~IsOpen(p) \/ p.level = NoLevel \/ Live(p.stop) THEN p
        ELSE IF market[s].close <= p.level THEN [p EXCEPT !.stop = Order(s, AtMarket)]
        ELSE [p EXCEPT !.stop = Order(s, p.level)]

\* The broker takes a sell of shares it holds and nothing else is selling.
Accepted(s) ==
    Rearmed(s) = position[s] \/ (Listed(s, day) /\ position[s].qty + Reserved(s) <= held[s])

\* The job stop_rearm.  A sell the broker refuses raises, and the worker dies.
Rearm ==
    /\ stage = "rearming" /\ process = "up"
    /\ \/ /\ \A s \in Symbols : Accepted(s)
          /\ position' = [s \in Symbols |-> Rearmed(s)]
          /\ UNCHANGED process
       \/ /\ \E s \in Symbols : ~Accepted(s)
          /\ process' = "down" /\ UNCHANGED position
    /\ stage' = "open"
    /\ UNCHANGED <<day, outside, booked, mixed>>

\* next_event looks strictly after now: a worker that is not up when a job is
\* due never runs it that day.
MissJob ==
    /\ stage \in {"early", "rearming"} /\ process # "up"
    /\ stage' = IF stage = "early" THEN "rearming" ELSE "open"
    /\ UNCHANGED <<day, outside, booked, position, process, mixed>>

\* The process dies, in a job's transaction or out of it, or is replaced.
Stop ==
    /\ process = "up"
    /\ process' = "down"
    /\ UNCHANGED <<day, stage, outside, booked, position, mixed>>

\* cmd_run has returned after a halt; the host starts it again.
Restart ==
    /\ process = "halted"
    /\ process' = "down"
    /\ UNCHANGED <<day, stage, outside, booked, position, mixed>>

-----------------------------------------------------------------------------
\* Mutant: a SELL leaves an empty position open.
BookedNeverCloses(p, f) ==
    IF ~IsOpen(p) THEN [Flat EXCEPT !.qty = f.qty, !.opened = f.day]
    ELSE [p EXCEPT !.qty = @ + f.qty]

\* apply_fill on the position its order's symbol finds.  A position it opens has no
\* level; the order of one it closes is done.
Booked(p, f) ==
    IF ~IsOpen(p) THEN [Flat EXCEPT !.qty = f.qty, !.opened = f.day]
    ELSE IF p.qty + f.qty = 0 THEN Flat
    ELSE [p EXCEPT !.qty = @ + f.qty]

\* One fill more: the positions, and whether every SELL found its shares.
WithFill(last, f) ==
    LET p == last.position[f.symbol]
    IN  [ok |-> last.ok /\ p.qty + f.qty >= 0,
         position |-> [last.position EXCEPT ![f.symbol] = Booked(p, f)]]

\* The replay of a boot, fill by fill.
After[n \in booked..Len(fill)] ==
    IF n = booked THEN [ok |-> TRUE, position |-> position]
    ELSE WithFill(After[n - 1], fill[n])

Replayed == After[Len(fill)]

Agrees == \A s \in Symbols : Replayed.position[s].qty = held[s]

\* The shares of the fill are as they were, and its order's row has their name.
Fresh(f) ==
    /\ f.symbol = f.at /\ ~Ended(f.at, day)
    /\ \A a \in Splits : a.symbol = f.at => a.ex \notin (f.day + 1)..day

AllFresh == \A n \in (booked + 1)..Len(fill) : Fresh(fill[n])

\* A boot: a SELL without its shares raises, a difference of quantity halts, and
\* both roll the replay back.
Boot ==
    /\ process = "down" /\ Replayed.ok
    /\ \/ /\ Agrees
          /\ process' = "up" /\ position' = Replayed.position /\ booked' = Len(fill)
          /\ mixed' = (mixed \/ ~AllFresh)
       \/ /\ ~Agrees
          /\ process' = "halted"
          /\ UNCHANGED <<position, booked, mixed>>
    /\ UNCHANGED <<day, stage, outside>>

Next ==
    \/ NewDay
    \/ \E a \in Splits \cup Changes : Announce(a)
    \/ \E s \in Symbols : Fall(s) \/ StopFires(s)
    \/ \E s \in Symbols, q \in -MaxQty..MaxQty : BrokerFill(s, q)
    \/ ApplyCorporateActions \/ Rearm \/ MissJob \/ Stop \/ Restart \/ Boot

Spec == Init /\ [][Next]_vars

-----------------------------------------------------------------------------
Stops == {NoStop} \cup [name : Symbols, at : Symbols, qty : Nat \ {0}, level : Nat \cup {AtMarket},
                        booked : 0..MaxFills, applied : SUBSET Splits, split : BOOLEAN]
Positions == [qty : Nat, level : Nat, opened : 0..MaxDay, applied : SUBSET Splits, stop : Stops]
Fills == [symbol : Symbols, at : Symbols, qty : Int \ {0}, day : 0..MaxDay]

\* Type invariant.  A position row that is not open is closed for good, with its
\* orders; a stop at the broker has a quantity and is worked under some symbol.
TypeOK ==
    /\ day \in 0..MaxDay /\ stage \in {"early", "rearming", "open"}
    /\ name \in [Symbols -> Symbols] /\ known \subseteq Splits \cup Changes
    /\ held \in [Symbols -> Nat] /\ market \in [Symbols -> [close : 0..High, low : 0..Low]]
    /\ fill \in Seq(Fills) /\ Len(fill) <= MaxFills /\ booked \in 0..Len(fill)
    /\ process \in {"up", "down", "halted"} /\ mixed \in BOOLEAN
    /\ position \in [Symbols -> Positions]
    /\ \A s \in Symbols : IsOpen(position[s]) \/ position[s] = Flat

\* The ledger has every fill, and the feed every action in effect.
Settled == booked = Len(fill) /\ \A a \in (Splits \cup Changes) \ known : Date(a) > day

\* A split of the shares now called s since the position in them was opened, applied
\* or not.
Since(p, s) == { a \in Splits : name[a.symbol] = name[s] /\ a.ex \in (p.opened + 1)..day }

\* A split that was applied though it came before the position was opened.
OpenedAfterSplit(p) == \E a \in p.applied : a.ex <= p.opened

\* A split under a name the position has only from today's job on: nobody asked for it.
SplitWaits(s) ==
    \E c \in DueChanges, a \in Splits : c.new = s /\ a.symbol = s /\ a.ex <= day

\* A split under a name the position no longer has: nobody will ask for it again.
SplitLost(p, s) == \E a \in Since(p, s) \ p.applied : a.symbol # s

\* The position of the shares now called s had no level before the job.
WithoutLevel(s) ==
    \E x \in Symbols : name[x] = name[s] /\ IsOpen(position[x]) /\ position[x].level = NoLevel

\* After the job the ledger holds what the broker holds, symbol by symbol, and a
\* level that was there is at today's prices, however late the announcements,
\* whatever was renamed on the way and however often a worker was replaced: step 1 of
\* ADR-0013.  The three exceptions are splits the job cannot get right; and a boot that
\* booked fills from before an action and agreed all the same did so by coincidence.
JobAligns ==
    [][ApplyCorporateActions /\ Settled /\ ~mixed =>
          \A s \in Symbols :
             LET p == position'[s] IN
             \/ IsOpen(p) /\ (OpenedAfterSplit(p) \/ SplitWaits(s) \/ SplitLost(p, s))
             \/ /\ p.qty = held[s]
                /\ IsOpen(p) => p.level = market[s].low \/ (p.level = NoLevel /\ WithoutLevel(s))]_vars

\* The splits of the shares since they were bought are in the ledger, and no others,
\* under the name the shares have now.
Carried(p, s) == Listed(s, day) /\ p.applied = Since(p, s)

\* Nothing happened to the shares since the order was armed.
Untouched(p) == p.stop.booked = booked /\ p.stop.applied = p.applied /\ ~p.stop.split

\* The re-arm sells at market only what has fallen through its level, in today's
\* prices, and leaves a position that has a level with an order for all of it, at market
\* or at that level, unless the shares were split or a fill was booked after a stop
\* that is still live was armed: that one is confirmed as it stands (stops.py:133).
RearmFits ==
    [][Rearm /\ process' = "up" =>
          \A s \in Symbols :
             LET p == position'[s] IN
             IsOpen(p) /\ p.level # NoLevel =>
                /\ Untouched(p) => p.stop.qty = p.qty /\ p.stop.level \in {AtMarket, p.level}
                /\ (p.stop.level = AtMarket /\ ~Live(position[s].stop) /\ Carried(p, s))
                      => market[s].close <= market[s].low]_vars

\* A boot comes up whatever the order of jobs, fills, stops and restarts before it:
\* it halts or raises only over an action the ledger's positions have not been
\* through, or a fill from before one (reconcile.py:119, db.py:609).
BootComesUp ==
    process = "down" /\ ~mixed /\ AllFresh
                     /\ (\A s \in Symbols : IsOpen(position[s]) => Carried(position[s], s))
        => Replayed.ok /\ Agrees

\* "shares after = shares before * ratio": a split is applied to shares bought
\* before it.  Violated: the job never looks at the day a position was opened.
SplitScalesSharesBefore ==
    [][ApplyCorporateActions =>
          \A s \in Symbols, a \in Splits :
             a \in ScaleOnce(position[s], s).applied \ position[s].applied
                 => position[s].opened < a.ex]_vars
=============================================================================
