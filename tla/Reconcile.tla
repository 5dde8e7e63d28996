----------------------------- MODULE Reconcile -----------------------------
(***************************************************************************)
(* The boot-time reconciliation: replay the broker's fills into the        *)
(* ledger, compare positions and open orders, and agree, repair or halt.   *)
(* The broker is read several times, across awaits, and keeps moving in    *)
(* between; everything the reconciliation writes is one transaction, which *)
(* a halt, an exception or a crash rolls back.  Positions are the sums of  *)
(* the booked fills here: Ledger shows what a fill does to them.           *)
(***************************************************************************)
EXTENDS Integers, Sequences, FiniteSets, FiniteSetsExt, OrderStates, Sums

CONSTANTS
    Orders,         \* the ledger's broker orders, all submitted
    Manual,         \* orders somebody placed at the broker by hand
    Symbols,
    Excluded,       \* symbols whose universe_status is excluded_ethical
    Terms,          \* [Orders \cup Manual -> [symbol, side, qty]]
    MaxShares,      \* bound: shares of an order
    Opening,        \* [Symbols -> Nat]: what broker and ledger both held at first
    Closings,       \* ways an order ends unfilled: CANCELLED, EXPIRED, REJECTED
    MaxBoots

AllOrders == Orders \cup Manual

ASSUME ReconcileAssumption ==
    /\ MaxShares \in Nat
    /\ Orders \cap Manual = {} /\ Excluded \subseteq Symbols
    /\ Terms \in [AllOrders -> [symbol : Symbols, side : {"buy", "sell"}, qty : 1..MaxShares]]
    /\ Opening \in [Symbols -> Nat]
    /\ Closings \subseteq {"CANCELLED", "EXPIRED", "REJECTED"}

VARIABLES
    broker,         \* external: what the broker has of each order
    activity,       \* external: its FILL activities, in time order
    saved,          \* the ledger, committed
    work,           \* the ledger as the boot transaction sees it
    pc,             \* where the boot stands
    next, upto,     \* activities fetched and not yet replayed: next..upto
    refresh,        \* ledger-open orders the broker no longer lists as open
    unexplained,    \* rep.unexplained is not empty
    still,          \* history: the broker has not moved since this boot began
    boots

process == <<work, pc, next, upto, refresh, unexplained>>
vars == <<broker, activity, saved, process, still, boots>>

Reading == {"activities", "replay", "positions", "orders", "refresh"}

\* Activities have distinct times, so a time is a position in the log; mark is
\* last_reconciled_event_at.
Ledger == [status : [Orders -> Statuses], booked : SUBSET Nat, mark : Nat]

\* The shares of s that some of a log's fills bought, or sold.
Of(log, s, side, fills) ==
    { i \in fills : Terms[log[i].order].symbol = s /\ Terms[log[i].order].side = side }
Shares(log, s, side, fills) ==
    Tally([i \in Of(log, s, side, fills) |-> log[i].qty], MaxShares)

\* Shares of s after the given fills.
QtyAfter(s, fills) ==
    Opening[s] + Shares(activity, s, "buy", fills) - Shares(activity, s, "sell", fills)

LedgerQty(s) == QtyAfter(s, work.booked)
BrokerQty(s) == QtyAfter(s, DOMAIN activity)

-----------------------------------------------------------------------------
Init ==
    /\ broker = [o \in AllOrders |->
            [status |-> IF o \in Orders THEN "open" ELSE "absent", leaves |-> Terms[o].qty]]
    /\ activity = <<>>
    /\ saved = [status |-> [o \in Orders |-> "SUBMITTED"], booked |-> {}, mark |-> 0]
    /\ work = saved
    /\ pc = "down"
    /\ next = 1 /\ upto = 0
    /\ refresh = {}
    /\ unexplained = FALSE
    /\ still = TRUE
    /\ boots = 0

\* External: an order is placed by hand.
PlaceManually(o) ==
    /\ broker[o].status = "absent"
    /\ broker' = [broker EXCEPT ![o].status = "open"]
    /\ still' = FALSE
    /\ UNCHANGED <<activity, saved, process, boots>>

\* External: part of an open order is filled; the account cannot be short.
BrokerFill(o, q) ==
    /\ broker[o].status = "open" /\ q <= broker[o].leaves
    /\ Terms[o].side = "sell" => q <= BrokerQty(Terms[o].symbol)
    /\ broker' = [broker EXCEPT ![o] =
            [status |-> IF q = @.leaves THEN "filled" ELSE "open", leaves |-> @.leaves - q]]
    /\ activity' = Append(activity, [order |-> o, qty |-> q, leaves |-> broker[o].leaves - q])
    /\ still' = FALSE
    /\ UNCHANGED <<saved, process, boots>>

\* External: what is left of an open order is cancelled, expires or is rejected.
BrokerClose(o, how) ==
    /\ broker[o].status = "open"
    /\ how = "REJECTED" => broker[o].leaves = Terms[o].qty
    /\ broker' = [broker EXCEPT ![o].status = how]
    /\ still' = FALSE
    /\ UNCHANGED <<activity, saved, process, boots>>

-----------------------------------------------------------------------------
\* boot reaches reconcile with a transaction of its own.
StartBoot ==
    /\ pc = "down" /\ boots < MaxBoots
    /\ pc' = "activities"
    /\ work' = saved
    /\ refresh' = {} /\ unexplained' = FALSE
    /\ still' = TRUE /\ boots' = boots + 1
    /\ UNCHANGED <<broker, activity, saved, next, upto>>

\* activities_since(last_reconciled_event_at): strictly after it, oldest first.
FetchActivities ==
    /\ pc = "activities"
    /\ pc' = "replay"
    /\ next' = work.mark + 1 /\ upto' = Len(activity)
    /\ UNCHANGED <<broker, activity, saved, work, refresh, unexplained, still, boots>>

\* A statement raised, a halt was raised, or the process died: all is rolled back.
Fall(to) ==
    /\ pc' = to
    /\ work' = saved
    /\ UNCHANGED <<broker, activity, saved, next, upto, refresh, unexplained, still, boots>>

\* The ledger after apply_fill and the transition that follows it.
Replayed(led, i) ==
    LET o == activity[i].order
        target == IF activity[i].leaves = 0 THEN "FILLED" ELSE "PARTIALLY_FILLED"
    IN  [led EXCEPT !.booked = @ \cup {i},
            !.mark = Max({@, i}),
            !.status[o] = IF @ \in WorkingStatuses THEN target ELSE @]

\* apply_fill accepts the fill: the order is active and the position covers it.
Accepts(led, i) ==
    LET o == activity[i].order  s == Terms[o].symbol IN
    /\ led.status[o] \in FillStatuses
    /\ Terms[o].side = "sell" => activity[i].qty <= QtyAfter(s, led.booked)

\* Mutant: every fill is committed as it is replayed.
ReplayAndCommit ==
    /\ pc = "replay" /\ next <= upto
    /\ \/ /\ activity[next].order \in Manual
          /\ unexplained' = TRUE
          /\ next' = next + 1
          /\ UNCHANGED <<saved, work>>
       \/ /\ activity[next].order \in Orders /\ Accepts(work, next)
          /\ work' = Replayed(work, next)
          /\ saved' = work'
          /\ next' = next + 1
          /\ UNCHANGED unexplained
    /\ UNCHANGED <<broker, activity, pc, upto, refresh, still, boots>>

\* Mutant: an unknown order is asked for again.
ReplayAskingAgain ==
    /\ pc = "replay" /\ next <= upto
    /\ unexplained' = (unexplained \/ activity[next].order \in Manual)
    /\ IF activity[next].order \in Orders /\ Accepts(work, next)
       THEN work' = Replayed(work, next) /\ next' = next + 1
       ELSE UNCHANGED <<work, next>>
    /\ UNCHANGED <<broker, activity, saved, pc, upto, refresh, still, boots>>

\* One activity: an unknown order is unexplained, a known one is booked and its
\* order advanced.  (Everything after mark is unbooked, so the idempotent skip
\* of apply_fill is for LedgerSessions.)
Replay ==
    /\ pc = "replay" /\ next <= upto
    /\ \/ /\ activity[next].order \in Manual
          /\ unexplained' = TRUE
          /\ next' = next + 1
          /\ UNCHANGED <<broker, activity, saved, work, pc, upto, refresh, still, boots>>
       \/ /\ activity[next].order \in Orders /\ Accepts(work, next)
          /\ work' = Replayed(work, next)
          /\ next' = next + 1
          /\ UNCHANGED <<broker, activity, saved, pc, upto, refresh, unexplained, still, boots>>
       \/ /\ activity[next].order \in Orders /\ ~Accepts(work, next)
          /\ Fall("down")

\* Mutant: the ledger's positions are read before the replay.
ComparePositionsStale ==
    /\ pc = "replay" /\ next > upto
    /\ pc' = "orders"
    /\ unexplained' = \/ unexplained
                      \/ \E s \in Symbols :
                            \/ BrokerQty(s) > 0 /\ s \in Excluded
                            \/ QtyAfter(s, saved.booked) # BrokerQty(s)
    /\ UNCHANGED <<broker, activity, saved, work, next, upto, refresh, still, boots>>

\* Positions: a held excluded name or any difference of quantity is unexplained.
ComparePositions ==
    /\ pc = "replay" /\ next > upto
    /\ pc' = "orders"
    /\ unexplained' = \/ unexplained
                      \/ \E s \in Symbols :
                            \/ BrokerQty(s) > 0 /\ s \in Excluded
                            \/ LedgerQty(s) # BrokerQty(s)
    /\ UNCHANGED <<broker, activity, saved, work, next, upto, refresh, still, boots>>

\* Open orders: one the ledger does not know is unexplained; one the ledger has
\* open and the broker does not is asked for.
CompareOpenOrders ==
    /\ pc = "orders"
    /\ pc' = "refresh"
    /\ unexplained' = (unexplained \/ \E o \in Manual : broker[o].status = "open")
    /\ refresh' = { o \in Orders : work.status[o] \in WorkingStatuses
                                   /\ broker[o].status # "open" }
    /\ UNCHANGED <<broker, activity, saved, work, next, upto, still, boots>>

\* Mutant: the broker's word is stored as it comes.
RefreshUnmapped(o) ==
    /\ pc = "refresh" /\ o \in refresh
    /\ work' = [work EXCEPT !.status[o] = broker[o].status]
    /\ refresh' = refresh \ {o}
    /\ UNCHANGED <<broker, activity, saved, pc, next, upto, unexplained, still, boots>>

\* order_status of one of them (never open again): closed unfilled is repaired, filled without an
\* activity is unexplained, an illegal transition raises.
RefreshOne(o) ==
    LET now == broker[o].status IN
    /\ pc = "refresh" /\ o \in refresh
    /\ \/ /\ now \in Closings /\ MayMove(work.status[o], now)
          /\ work' = [work EXCEPT !.status[o] = now]
          /\ refresh' = refresh \ {o}
          /\ UNCHANGED <<broker, activity, saved, pc, next, upto, unexplained, still, boots>>
       \/ /\ now \in Closings /\ ~MayMove(work.status[o], now)
          /\ Fall("down")
       \/ /\ now = "filled"
          /\ unexplained' = TRUE
          /\ refresh' = refresh \ {o}
          /\ UNCHANGED <<broker, activity, saved, work, pc, next, upto, still, boots>>

\* Mutant: a repair is looked at before what is unexplained.
VerdictRepairedFirst ==
    /\ pc = "refresh" /\ refresh = {}
    /\ \/ unexplained /\ work = saved /\ Fall("halted")
       \/ /\ ~unexplained \/ work # saved
          /\ saved' = work
          /\ pc' = "up"
          /\ UNCHANGED <<broker, activity, work, next, upto, refresh, unexplained, still, boots>>

\* Anything unexplained halts the boot, and the halt rolls the replay back.
Verdict ==
    /\ pc = "refresh" /\ refresh = {}
    /\ \/ /\ unexplained
          /\ Fall("halted")
       \/ /\ ~unexplained
          /\ saved' = work
          /\ pc' = "up"
          /\ UNCHANGED <<broker, activity, work, next, upto, refresh, unexplained, still, boots>>

\* The process dies, is redeployed, or has halted and is started again.
Restart == pc # "down" /\ Fall("down")

BootStep ==
    \/ FetchActivities \/ Replay \/ ComparePositions \/ CompareOpenOrders
    \/ (\E o \in Orders : RefreshOne(o)) \/ Verdict

BrokerStep ==
    \E o \in AllOrders :
        \/ o \in Manual /\ PlaceManually(o)
        \/ \E q \in 1..Terms[o].qty : BrokerFill(o, q)
        \/ \E how \in Closings : BrokerClose(o, how)

Next == BrokerStep \/ StartBoot \/ BootStep \/ Restart

Spec == Init /\ [][Next]_vars /\ WF_vars(BootStep)

-----------------------------------------------------------------------------
TypeOK ==
    /\ \A o \in AllOrders :
          /\ broker[o].status \in {"absent", "open", "filled"} \cup Closings
          /\ broker[o].leaves \in 0..Terms[o].qty
    /\ saved \in Ledger /\ work \in Ledger
    /\ pc \in Reading \cup {"down", "up", "halted"}
    /\ upto <= Len(activity)
    /\ refresh \subseteq Orders /\ unexplained \in BOOLEAN /\ still \in BOOLEAN
    /\ \A s \in Symbols : BrokerQty(s) >= 0 /\ LedgerQty(s) >= 0

\* The watermark never passes a fill that is not in the ledger: what a boot does
\* not fetch is booked, whatever halted, raised or crashed on the way.
NothingBehindWatermark == \A i \in 1..saved.mark : i \in saved.booked

\* SPEC 8.6, replay or halt: a process that runs has booked every fill the broker
\* had made when the boot fetched them, and none of them was a manual trade.
RunningMeansReplayed ==
    pc = "up" => \A i \in 1..upto : i \in saved.booked /\ activity[i].order \in Orders

\* A halt is never the reconciliation's own doing: without a manual trade, a held
\* excluded name, or a broker that moved under the boot's reads, the boot agrees
\* (or raises, on the fill ClosedMeansBooked is about).
HaltIsExplained ==
    pc = "halted" =>
        \/ ~still
        \/ \E o \in Manual : broker[o].status # "absent"
        \/ \E s \in Excluded : BrokerQty(s) > 0

\* A boot that gets going ends, one way or another.
EveryBootEnds == pc \in Reading ~> pc \notin Reading

\* SPEC 8.6 step 4: a fill that arrived while the worker was down is repaired by
\* replay, so the ledger must never have closed an order with a fill outstanding
\* (apply_fill refuses a fill of a closed order).
ClosedMeansBooked ==
    \A i \in DOMAIN activity :
        activity[i].order \in Orders /\ saved.status[activity[i].order] \in Closings
            => i \in saved.booked
=============================================================================
