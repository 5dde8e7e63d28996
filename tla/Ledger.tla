------------------------------- MODULE Ledger -------------------------------
(***************************************************************************)
(* The virtual ledger of one broker-facing portfolio: orders with their    *)
(* reservations, broker fills, the position and lot projections, and the   *)
(* chained cash ledger.  Every action is one committed transaction of      *)
(* Database / apply_fill together with the triggers the statements fire;   *)
(* a statement that raises rolls its transaction back, so a raise is a     *)
(* guard.  (LedgerSessions takes the transactions apart.)                  *)
(***************************************************************************)
EXTENDS Integers, Sequences, FiniteSets, OrderStates, Sums

CONSTANTS
    Orders,         \* client order ids
    Symbols,
    Equity,         \* portfolios.equity_start_usd
    MaxUsd,         \* width of the numeric(14,6) money columns
    MaxQty,         \* largest order quantity enumerated
    MaxShares,      \* width of the numeric(18,9) quantity columns
    Prices,         \* per-share prices a fill can have
    Buffers,        \* what a reservation may add to qty * price (market buys)
    SellFee,        \* customer-debited fees of one SELL fill (SEC 31, TAF)
    SplitRatios,    \* <<new, old>> rates of a split
    MaxActivities   \* bound on the broker activity log

ASSUME LedgerAssumption ==
    /\ IsFiniteSet(Orders)
    /\ MaxUsd \in Nat /\ MaxShares \in Nat /\ MaxQty \in 0..MaxShares
    /\ MaxActivities \in Nat
    /\ Equity \in 1..MaxUsd
    /\ Prices \subseteq Nat \ {0} /\ Buffers \subseteq Nat
    /\ SellFee \in Nat /\ \A p \in Prices : SellFee <= p
    /\ SplitRatios \subseteq (Nat \ {0}) \X (Nat \ {0})

VARIABLES
    order,      \* orders table, by client_order_id
    broker,     \* external: what the broker has of each order
    activity,   \* external: the broker's FILL activities, oldest first
    applied,    \* fills table: the activities booked (fills.broker_fill_id)
    position,   \* positions and lots: the open position of each symbol
    cash        \* cash_ledger, in id order

vars == <<order, broker, activity, applied, position, cash>>

-----------------------------------------------------------------------------
(* Rows.                                                                   *)

Usd == 0..MaxUsd

\* cap is the per-share price the reservation was computed with.
NoOrder == [status |-> "none", side |-> "none", symbol |-> "none",
            qty |-> 0, cap |-> 0, reserved |-> 0]

OrderRow == [status : Statuses \ {"none"}, side : {"buy", "sell"},
             symbol : Symbols, qty : 1..MaxQty, cap : Nat, reserved : Usd]

BrokerOrder == [status : {"absent", "working", "filled", "closed"},
                leaves : 0..MaxQty]

Activity == [order : Orders, qty : 1..MaxQty, price : Prices, leaves : 0..MaxQty]

Flat == [qty |-> 0, lots |-> <<>>]

CashRow == [kind : {"initial_equity", "buy", "sell"}, amount : Int, balance : Usd]

\* portfolio_cash_balance
Balance == IF cash = <<>> THEN 0 ELSE cash[Len(cash)].balance

\* What an order contributes to portfolio_reserved_cash.
HoldOf(row) ==
    IF row.side = "buy" /\ row.status \in OpenStatuses THEN row.reserved ELSE 0

Cap == INSTANCE Capital
       WITH cash <- Balance, hold <- [o \in Orders |-> HoldOf(order[o])]

\* portfolio_available_cash
Available == Balance - Cap!Total([o \in Orders |-> HoldOf(order[o])])

IsOpen(sym) == position[sym] # Flat

LotTotal(lots) == Tally(lots, MaxShares)

\* FIFO: lot i gives what the lots before it could not.
SellFifo(lots, q) ==
    [i \in 1..Len(lots) |->
        LET earlier == LotTotal(SubSeq(lots, 1, i - 1))
        IN  IF q <= earlier THEN lots[i]
            ELSE IF q >= earlier + lots[i] THEN 0
            ELSE earlier + lots[i] - q]

\* A numeric assigned to a numeric(18,9) column rounds half away from zero.
Scale(q, r) == (2 * q * r[1] + r[2]) \div (2 * r[2])

-----------------------------------------------------------------------------
Init ==
    /\ order = [o \in Orders |-> NoOrder]
    /\ broker = [o \in Orders |-> [status |-> "absent", leaves |-> 0]]
    /\ activity = <<>>
    /\ applied = {}
    /\ position = [s \in Symbols |-> Flat]
    /\ cash = <<>>

\* Mutant: the idempotency key is missing.
EnsureInitialEquityAgain ==
    /\ Balance + Equity \in Usd
    /\ cash' = Append(cash, [kind |-> "initial_equity", amount |-> Equity,
                             balance |-> Balance + Equity])
    /\ UNCHANGED <<order, broker, activity, applied, position>>

\* ensure_initial_equity: once per portfolio, by idempotency key.
EnsureInitialEquity ==
    /\ cash = <<>>
    /\ cash' = <<[kind |-> "initial_equity", amount |-> Equity, balance |-> Equity]>>
    /\ UNCHANGED <<order, broker, activity, applied, position>>

\* Mutant: the trigger compares with the balance, not with what is available.
RecordBuyOnBalance(o, s, q, p, r) ==
    /\ order[o] = NoOrder
    /\ r > 0 /\ r >= q * p
    /\ r <= Balance
    /\ order' = [order EXCEPT ![o] =
            [status |-> "PROPOSED", side |-> "buy", symbol |-> s,
             qty |-> q, cap |-> p, reserved |-> r]]
    /\ UNCHANGED <<broker, activity, applied, position, cash>>

\* record_order of a BUY with the insert trigger orders_reserve_capital.
RecordBuy(o, s, q, p, r) ==
    /\ order[o] = NoOrder
    /\ r > 0 /\ r >= q * p
    /\ r <= Available
    /\ order' = [order EXCEPT ![o] =
            [status |-> "PROPOSED", side |-> "buy", symbol |-> s,
             qty |-> q, cap |-> p, reserved |-> r]]
    /\ UNCHANGED <<broker, activity, applied, position, cash>>

\* record_order of a SELL: the trigger refuses any reservation.
RecordSell(o, s, q) ==
    /\ order[o] = NoOrder
    /\ order' = [order EXCEPT ![o] =
            [status |-> "PROPOSED", side |-> "sell", symbol |-> s,
             qty |-> q, cap |-> 0, reserved |-> 0]]
    /\ UNCHANGED <<broker, activity, applied, position, cash>>

\* An update of orders.status with the triggers orders_validate_transition and
\* orders_release_reservation: leaving the open statuses gives the hold back.
Moved(row, to) ==
    [row EXCEPT !.status = to,
                !.reserved = IF to \in OpenStatuses THEN @ ELSE 0]

\* transition_order while the broker does not have the order.  (A simulated
\* order is FILLED only with a reconstructed fill, which no code makes yet.)
DecideOrder(o, to) ==
    /\ order[o].status \notin WorkingStatuses
    /\ to \notin {"SUBMITTED", "FILLED"}
    /\ MayMove(order[o].status, to)
    /\ order' = [order EXCEPT ![o] = Moved(@, to)]
    /\ UNCHANGED <<broker, activity, applied, position, cash>>

\* Mutant: the refresh takes a filled BUY for booked.
RefreshOrderAnySide(o, to) ==
    /\ order[o].status \in WorkingStatuses
    /\ MayMove(order[o].status, to)
    /\ broker[o].status \in (IF to = "FILLED" THEN {"filled"} ELSE {"closed"})
    /\ to \in {"FILLED", "CANCELLED", "EXPIRED", "REJECTED"}
    /\ order' = [order EXCEPT ![o] = Moved(@, to)]
    /\ UNCHANGED <<broker, activity, applied, position, cash>>

\* transition_order to what the broker reports: by reconcile for any order the
\* broker closed unfilled, by the pre-open refresh of rearm for a protective
\* SELL, filled ones included.  Neither looks for fills not yet booked.
RefreshOrder(o, to) ==
    /\ order[o].status \in WorkingStatuses
    /\ MayMove(order[o].status, to)
    /\ \/ /\ to = "FILLED" /\ order[o].side = "sell"
          /\ broker[o].status = "filled"
       \/ /\ to \in {"CANCELLED", "EXPIRED", "REJECTED"}
          /\ broker[o].status = "closed"
    /\ order' = [order EXCEPT ![o] = Moved(@, to)]
    /\ UNCHANGED <<broker, activity, applied, position, cash>>

\* The same call after Broker.submit: from here the broker works the order.
SubmitOrder(o) ==
    /\ MayMove(order[o].status, "SUBMITTED")
    /\ order' = [order EXCEPT ![o] = Moved(@, "SUBMITTED")]
    /\ broker' = [broker EXCEPT ![o] = [status |-> "working", leaves |-> order[o].qty]]
    /\ UNCHANGED <<activity, applied, position, cash>>

\* External: the broker fills part of a working order, a BUY never above the
\* price its reservation was computed with.
BrokerFill(o, q, p) ==
    /\ broker[o].status = "working" /\ q \in 1..broker[o].leaves
    /\ order[o].side = "buy" => p <= order[o].cap
    /\ Len(activity) < MaxActivities
    /\ broker' = [broker EXCEPT ![o] =
            [status |-> IF q = @.leaves THEN "filled" ELSE "working",
             leaves |-> @.leaves - q]]
    /\ activity' = Append(activity,
            [order |-> o, qty |-> q, price |-> p, leaves |-> broker[o].leaves - q])
    /\ UNCHANGED <<order, applied, position, cash>>

\* External: the broker cancels, expires or rejects what is left of an order.
BrokerClose(o) ==
    /\ broker[o].status = "working"
    /\ broker' = [broker EXCEPT ![o] = [status |-> "closed", leaves |-> 0]]
    /\ UNCHANGED <<order, activity, applied, position, cash>>

\* Mutant: the position shrinks and its lots do not.
SoldWithoutLots(pos, q) ==
    IF pos.qty = q THEN Flat ELSE [pos EXCEPT !.qty = @ - q]

\* apply_fill, position part: a BUY opens the position or adds a lot to it, a
\* SELL consumes the lots oldest first and closes the position at zero.
Bought(pos, q) == [qty |-> pos.qty + q, lots |-> Append(pos.lots, q)]
Sold(pos, q) ==
    IF pos.qty = q THEN Flat
    ELSE [qty |-> pos.qty - q, lots |-> SellFifo(pos.lots, q)]

\* Mutant: only an open position is asked for.
SellOfOpenPosition(pos, q) == pos # Flat

\* apply_fill, the refusals SELL_WITHOUT_POSITION and SELL_EXCEEDS_POSITION, and
\* the column's qty >= 0.
SellCovered(pos, q) == pos # Flat /\ q <= LotTotal(pos.lots) /\ q <= pos.qty

\* Mutant: the reservation stays whole while the cash leaves.
ConsumeNothing(row, notional) == row

\* apply_fill, reservation part (fills_consume_reservation).
Consume(row, notional) ==
    IF row.side = "buy"
    THEN [row EXCEPT !.reserved = IF @ > notional THEN @ - notional ELSE 0]
    ELSE row

\* Mutant: every activity completes its order.
AfterAnyFill(row, remaining) ==
    IF row.status \in WorkingStatuses THEN Moved(row, "FILLED") ELSE row

\* reconcile: the status an activity leaves its order in.
AfterFill(row, remaining) ==
    LET target == IF remaining = 0 THEN "FILLED" ELSE "PARTIALLY_FILLED"
    IN  IF row.status \in WorkingStatuses /\ row.status # target
        THEN Moved(row, target) ELSE row

\* apply_fill, cash part: only customer-debited fees move cash.
FillAmount(row, a) ==
    IF row.side = "buy" THEN -(a.qty * a.price) ELSE a.qty * a.price - SellFee

\* One turn of reconcile's replay loop.  Activities come in time order and one
\* that is already booked is skipped; the guards are the checks that raise.
ReplayFill(i) ==
    LET a   == activity[i]
        row == order[a.order]
        pos == position[row.symbol]
        new == Balance + FillAmount(row, a)
    IN  /\ i \notin applied
        /\ \A j \in 1..(i - 1) : activity[j].order = a.order => j \in applied
        /\ row.status \in FillStatuses
        /\ row.side = "sell" => SellCovered(pos, a.qty)
        /\ new \in Usd
        /\ applied' = applied \cup {i}
        /\ position' = [position EXCEPT ![row.symbol] =
                IF row.side = "buy" THEN Bought(@, a.qty) ELSE Sold(@, a.qty)]
        /\ order' = [order EXCEPT ![a.order] =
                AfterFill(Consume(@, a.qty * a.price), a.leaves)]
        /\ cash' = Append(cash, [kind |-> row.side, amount |-> FillAmount(row, a),
                                 balance |-> new])
        /\ UNCHANGED <<broker, activity>>

\* apply_split: the position and each open lot are scaled, each rounded alone.
ApplySplit(s, r) ==
    /\ IsOpen(s)
    /\ Scale(position[s].qty, r) \in 1..MaxShares
    /\ position' = [position EXCEPT ![s] =
            [qty  |-> Scale(@.qty, r),
             lots |-> [i \in DOMAIN @.lots |-> Scale(@.lots[i], r)]]]
    /\ UNCHANGED <<order, broker, activity, applied, cash>>

Next ==
    \/ EnsureInitialEquity
    \/ \E o \in Orders, s \in Symbols, q \in 1..MaxQty :
        \/ \E p \in Prices, b \in Buffers :
              RecordBuy(o, s, q, p, q * p + b)
        \/ RecordSell(o, s, q)
    \/ \E o \in Orders :
        \/ \E to \in Statuses : DecideOrder(o, to) \/ RefreshOrder(o, to)
        \/ SubmitOrder(o)
        \/ BrokerClose(o)
        \/ \E q \in 1..MaxQty, p \in Prices : BrokerFill(o, q, p)
    \/ \E i \in 1..Len(activity) : ReplayFill(i)
    \/ \E s \in Symbols, r \in SplitRatios : ApplySplit(s, r)

Spec == Init /\ [][Next]_vars

-----------------------------------------------------------------------------
\* Every row of the ledger and of the broker fits its columns; in particular no
\* reservation, position, lot or balance is ever negative.
TypeOK ==
    /\ order \in [Orders -> OrderRow \cup {NoOrder}]
    /\ broker \in [Orders -> BrokerOrder]
    /\ activity \in Seq(Activity)
    /\ applied \subseteq DOMAIN activity
    /\ position \in [Symbols -> [qty : Nat, lots : Seq(Nat)]]
    /\ cash \in Seq(CashRow)

\* ADR-0021: whatever mix of reservations, partial fills, cancels and refreshes
\* has run, the open BUY orders together never hold more than the cash.
Solvent == Available >= 0

\* The fills of o the broker has made and the ledger has not, and their cost.
Pending(o) == { i \in DOMAIN activity \ applied : activity[i].order = o }
Notional(i) == activity[i].qty * activity[i].price
PendingCost(o) == Tally([i \in Pending(o) |-> Notional(i)], MaxUsd)

\* Every share a live BUY can still cost, filled or not, stays inside its
\* reservation, so booking its fills can never drive the cash below zero.
FillsAffordable ==
    \A o \in Orders :
        order[o].side = "buy" /\ order[o].status \in WorkingStatuses =>
            order[o].reserved >= broker[o].leaves * order[o].cap
                + PendingCost(o)

\* The ledger releases a BUY's reservation as FILLED only when the broker is
\* done with it and the last of its fills has been booked.
FilledMeansBooked ==
    \A o \in Orders :
        order[o].side = "buy" /\ order[o].status = "FILLED" =>
            broker[o].status = "filled" /\ Pending(o) = {}

\* Orders, broker and activities tell one story: the broker has exactly the
\* orders that were submitted, works only orders the ledger counts as working,
\* and reports a last fill once.
BrokerStory ==
    /\ \A o \in Orders :
        /\ broker[o].status = "absent" =>
              order[o].status \notin WorkingStatuses \cup {"FILLED"}
        /\ broker[o].status # "absent" =>
              order[o].status \notin {"none", "PROPOSED", "VALIDATED",
                  "PENDING_APPROVAL", "FILL_PENDING_RECONSTRUCTION"}
        /\ broker[o].status = "working" => order[o].status \in WorkingStatuses
        /\ broker[o].status = "filled" => broker[o].leaves = 0
    /\ \A i \in DOMAIN activity :
        /\ broker[activity[i].order].status # "absent"
        /\ activity[i].leaves = 0 =>
              /\ broker[activity[i].order].status = "filled"
              /\ \A j \in DOMAIN activity :
                    j > i => activity[j].order # activity[i].order

\* A BUY not yet at the broker holds its whole cost, and no BUY fill can be
\* larger than the money column.
FullyReserved ==
    /\ \A o \in Orders :
        order[o].side = "buy" /\ order[o].status \in OpenStatuses \ WorkingStatuses =>
            order[o].reserved >= order[o].qty * order[o].cap
    /\ \A i \in DOMAIN activity :
        order[activity[i].order].side = "buy" => Notional(i) <= MaxUsd

\* The inductive invariant that carries the refinement of Capital.
LedgerInv ==
    /\ TypeOK /\ BrokerStory /\ FullyReserved
    /\ FillsAffordable /\ FilledMeansBooked

\* The lots are the position: they add up to it, and a flat symbol has none.
LotsBackPosition ==
    \A s \in Symbols :
        /\ LotTotal(position[s].lots) = position[s].qty
        /\ position[s].qty = 0 => position[s].lots = <<>>

\* The balance is the opening equity less every booked BUY fill once, plus what
\* every booked SELL fill once brought in after its fee.
Booked(side) == { i \in applied : order[activity[i].order].side = side }
CashExplained ==
    cash # <<>> =>
        Balance = Equity - Tally([i \in Booked("buy") |-> Notional(i)], MaxUsd)
                         + Tally([i \in Booked("sell") |-> Notional(i) - SellFee], MaxUsd)

\* The projections implement the abstract reservation machine.
CapitalSpec == Cap!Spec
=============================================================================
