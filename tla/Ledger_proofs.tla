--------------------------- MODULE Ledger_proofs ---------------------------
(***************************************************************************)
(* Type correctness of the ledger, one lemma per table; then LedgerInv,    *)
(* under which every transaction is a step of Capital, so that the ledger  *)
(* never over-reserves; then the chain of the cash ledger.                 *)
(***************************************************************************)
EXTENDS Ledger, Sums_proofs, SequenceTheorems

\* Selling oldest lot first leaves lots that are still quantities.
LEMMA SellFifoType ==
    ASSUME NEW lots \in Seq(Nat), NEW q \in Nat
    PROVE  SellFifo(lots, q) \in Seq(Nat)
<1> DEFINE Earlier(i) == LotTotal(SubSeq(lots, 1, i - 1))
<1>1. ASSUME NEW i \in 1..Len(lots) PROVE Earlier(i) \in Nat
  <2>1. SubSeq(lots, 1, i - 1) \in Seq(Nat)
    BY SubSeqProperties
  <2>2. DOMAIN SubSeq(lots, 1, i - 1) = 1..Len(SubSeq(lots, 1, i - 1))
        /\ Len(SubSeq(lots, 1, i - 1)) \in Nat
    BY <2>1, LenProperties
  <2>3. IsFiniteSet(DOMAIN SubSeq(lots, 1, i - 1))
    BY <2>2, FS_Interval
  <2>4. MaxShares \in Nat
    BY LedgerAssumption
  <2>5. QED
    BY <2>3, <2>4, TallyType, Zenon DEF LotTotal
<1>2. ASSUME NEW i \in 1..Len(lots)
      PROVE  (IF q <= Earlier(i) THEN lots[i]
              ELSE IF q >= Earlier(i) + lots[i] THEN 0
              ELSE Earlier(i) + lots[i] - q) \in Nat
  <2>1. Earlier(i) \in Nat /\ lots[i] \in Nat
    BY <1>1
  <2> HIDE DEF Earlier
  <2>2. QED
    BY <2>1
<1>3. SellFifo(lots, q) = [i \in 1..Len(lots) |->
         IF q <= Earlier(i) THEN lots[i]
         ELSE IF q >= Earlier(i) + lots[i] THEN 0
         ELSE Earlier(i) + lots[i] - q]
  BY DEF SellFifo
<1> HIDE DEF Earlier
<1>4. SellFifo(lots, q) \in [1..Len(lots) -> Nat]
  BY <1>2, <1>3
<1>5. QED
  BY <1>4, LenProperties, SeqDef

\* A split keeps quantities quantities.
LEMMA ScaleType ==
    ASSUME NEW q \in Nat, NEW r \in SplitRatios
    PROVE  Scale(q, r) \in Nat
<1>1. r[1] \in Nat /\ r[2] \in Nat \ {0}
  BY LedgerAssumption
<1>2. 2 * q * r[1] + r[2] \in Nat /\ 2 * r[2] \in Nat \ {0}
  BY <1>1
<1>3. \A a \in Nat, b \in Nat \ {0} : a \div b \in Nat
  OBVIOUS
<1>4. QED
  BY <1>2, <1>3 DEF Scale

\* A row whose status moves stays a row.
LEMMA MovedType ==
    ASSUME NEW row \in OrderRow, NEW to \in Statuses \ {"none"}
    PROVE  Moved(row, to) \in OrderRow
<1>1. row.reserved \in Usd /\ 0 \in Usd
  BY LedgerAssumption DEF OrderRow, Usd
<1>2. QED
  BY <1>1 DEF Moved, OrderRow

\* Only rows have a legal next status, and none of them is "none".
LEMMA MoveFrom ==
    ASSUME NEW row \in OrderRow \cup {NoOrder}, NEW to, MayMove(row.status, to)
    PROVE  row \in OrderRow /\ to \in Statuses \ {"none"}
BY DEF MayMove, TransitionAllowed, NoOrder, OrderRow, Statuses

\* Consuming part of a reservation keeps a row a row.
LEMMA ConsumeType ==
    ASSUME NEW row \in OrderRow, NEW n \in Nat
    PROVE  Consume(row, n) \in OrderRow
<1>1. row.reserved \in Usd /\ MaxUsd \in Nat
  BY LedgerAssumption DEF OrderRow
<1>2. (IF row.reserved > n THEN row.reserved - n ELSE 0) \in Usd
  BY <1>1 DEF Usd
<1>3. QED
  BY <1>2 DEF Consume, OrderRow

\* Advancing the status after a fill keeps a row a row.
LEMMA AfterFillType ==
    ASSUME NEW row \in OrderRow, NEW left
    PROVE  AfterFill(row, left) \in OrderRow
<1>1. {"FILLED", "PARTIALLY_FILLED"} \subseteq Statuses \ {"none"}
  BY DEF Statuses
<1>2. /\ Moved(row, "FILLED") \in OrderRow
      /\ Moved(row, "PARTIALLY_FILLED") \in OrderRow
  BY <1>1, MovedType
<1>3. QED
  BY <1>2 DEF AfterFill

\* The balance of a well-typed cash ledger fits the money column.
LEMMA BalanceType ==
    ASSUME cash \in Seq(CashRow)
    PROVE  Balance \in Usd
<1>1. 0 \in Usd
  BY LedgerAssumption DEF Usd
<1>2. ASSUME cash # <<>> PROVE cash[Len(cash)] \in CashRow
  BY <1>2, EmptySeq, ElementOfSeq
<1>3. QED
  BY <1>1, <1>2 DEF Balance, CashRow

\* The row appended last is the balance.
LEMMA BalanceAppend ==
    ASSUME cash \in Seq(CashRow), NEW row \in CashRow, cash' = Append(cash, row)
    PROVE  cash' \in Seq(CashRow) /\ Balance' = row.balance
BY AppendProperties DEF Balance

\* Capital's sum over this module's orders is this module's sum.
LEMMA TotalIsTally ==
    ASSUME NEW h
    PROVE  Cap!Total(h) = Tally(h, MaxUsd)
<1> DEFINE U == Units(h, MaxUsd)
<1>1. Cap!Units(h, MaxUsd) = U
  BY DEF Units, Cap!Units
<1>2. Cap!Tally(h, MaxUsd) = Cap!Cardinality(U)
  BY <1>1 DEF Cap!Tally
<1> HIDE DEF U
<1>3. Cap!Cardinality(U) = Cardinality(U)
  BY DEF Cap!Cardinality, Cardinality
<1>4. QED
  BY <1>2, <1>3 DEF Cap!Total, Tally, U

\* What each order holds, as Capital sees it.
Holds == [o \in Orders |-> HoldOf(order[o])]

\* Every hold fits the column, and they add up to a number.
LEMMA HoldsType ==
    ASSUME order \in [Orders -> OrderRow \cup {NoOrder}]
    PROVE  Holds \in [Orders -> Usd] /\ Cap!Total(Holds) \in Nat
<1>1. 0 \in Usd /\ IsFiniteSet(Orders) /\ MaxUsd \in Nat
  BY LedgerAssumption DEF Usd
<1>2. \A row \in OrderRow \cup {NoOrder} : HoldOf(row) \in Usd
  BY <1>1 DEF HoldOf, OrderRow, NoOrder
<1>3. Holds \in [Orders -> Usd] /\ DOMAIN Holds = Orders
  BY <1>2 DEF Holds
<1>4. Tally(Holds, MaxUsd) \in Nat
  BY <1>1, <1>3, TallyType, Zenon
<1>5. QED
  BY <1>3, <1>4, TotalIsTally

\* What is available is an integer, and fits the column from above.
LEMMA AvailableType ==
    ASSUME TypeOK
    PROVE  Available \in Int /\ Available <= MaxUsd
<1>1. Balance \in 0..MaxUsd /\ MaxUsd \in Nat
  BY BalanceType, LedgerAssumption DEF TypeOK, Usd
<1>2. Cap!Total(Holds) \in Nat
  BY HoldsType DEF TypeOK
<1>3. Available = Balance - Cap!Total(Holds)
  BY DEF Available, Holds
<1>4. QED
  BY <1>1, <1>2, <1>3

\* What the broker reports of a fill.
LEMMA ActivityType ==
    ASSUME TypeOK, NEW i \in 1..Len(activity)
    PROVE  /\ i \in DOMAIN activity
           /\ activity[i] \in Activity /\ activity[i].order \in Orders
           /\ activity[i].qty \in Nat \ {0} /\ activity[i].price \in Nat \ {0}
           /\ Notional(i) \in Nat /\ Notional(i) >= activity[i].price
<1>1. activity \in Seq(Activity)
  BY DEF TypeOK
<1>2. activity[i] \in Activity /\ i \in DOMAIN activity
  BY <1>1, ElementOfSeq, LenProperties
<1>3. /\ activity[i].order \in Orders
      /\ activity[i].qty \in 1..MaxQty /\ activity[i].price \in Prices
  BY <1>2 DEF Activity
<1>4. activity[i].qty \in Nat \ {0}
  BY <1>3, LedgerAssumption
<1>5. activity[i].price \in Nat \ {0}
  BY <1>3, LedgerAssumption
<1>6. \A q, p \in Nat \ {0} : q * p \in Nat /\ q * p >= p
  OBVIOUS
<1>7. Notional(i) \in Nat /\ Notional(i) >= activity[i].price
  BY <1>4, <1>5, <1>6 DEF Notional
<1>8. QED
  BY <1>2, <1>3, <1>4, <1>5, <1>7

\* The rows of the order table keep their types.
LEMMA OrderTypeStep ==
    ASSUME TypeOK, [Next]_vars
    PROVE  order' \in [Orders -> OrderRow \cup {NoOrder}]
<1> DEFINE Rows == OrderRow \cup {NoOrder}
<1>1. order \in [Orders -> Rows]
  BY DEF TypeOK
<1>2. ASSUME NEW o \in Orders, NEW row \in Rows, order' = [order EXCEPT ![o] = row]
      PROVE  order' \in [Orders -> Rows]
  BY <1>1, <1>2
<1>3. ASSUME NEW o \in Orders, NEW to, MayMove(order[o].status, to),
             order' = [order EXCEPT ![o] = Moved(@, to)]
      PROVE  order' \in [Orders -> Rows]
  <2>1. order[o] \in OrderRow /\ to \in Statuses \ {"none"}
    BY <1>1, <1>3, MoveFrom
  <2>2. Moved(order[o], to) \in Rows
    BY <2>1, MovedType
  <2>3. QED
    BY <1>2, <1>3, <2>2
<1>4. ASSUME NEW o \in Orders, NEW s \in Symbols, NEW q \in 1..MaxQty,
             NEW p \in Prices, NEW b \in Buffers, RecordBuy(o, s, q, p, q * p + b)
      PROVE  order' \in [Orders -> Rows]
  <2>1. p \in Nat /\ q \in Nat /\ b \in Nat /\ MaxUsd \in Nat
    BY LedgerAssumption
  <2>2. q * p + b \in Nat /\ q * p + b <= MaxUsd
    BY <1>4, <2>1, AvailableType DEF RecordBuy
  <2> DEFINE row == [status |-> "PROPOSED", side |-> "buy", symbol |-> s,
                     qty |-> q, cap |-> p, reserved |-> q * p + b]
  <2>3. row \in Rows
    BY <2>1, <2>2 DEF OrderRow, Statuses, Usd
  <2>4. order' = [order EXCEPT ![o] = row]
    BY <1>4 DEF RecordBuy
  <2> HIDE DEF row
  <2>5. QED
    BY <1>2, <2>3, <2>4
<1>5. ASSUME NEW o \in Orders, NEW s \in Symbols, NEW q \in 1..MaxQty, RecordSell(o, s, q)
      PROVE  order' \in [Orders -> Rows]
  <2> DEFINE row == [status |-> "PROPOSED", side |-> "sell", symbol |-> s,
                     qty |-> q, cap |-> 0, reserved |-> 0]
  <2>1. row \in Rows
    BY LedgerAssumption DEF OrderRow, Statuses, Usd
  <2>2. order' = [order EXCEPT ![o] = row]
    BY <1>5 DEF RecordSell
  <2> HIDE DEF row
  <2>3. QED
    BY <1>2, <2>1, <2>2
<1>6. ASSUME NEW i \in 1..Len(activity), ReplayFill(i)
      PROVE  order' \in [Orders -> Rows]
  <2> DEFINE a == activity[i]
  <2>1. a \in Activity /\ a.order \in Orders
    BY ActivityType
  <2>2. order[a.order] \in OrderRow
    BY <1>1, <1>6, <2>1 DEF ReplayFill, FillStatuses, NoOrder
  <2>3. a.qty * a.price \in Nat
    BY ActivityType DEF Notional
  <2> DEFINE row == AfterFill(Consume(order[a.order], a.qty * a.price), a.leaves)
  <2>4. row \in Rows
    BY <2>2, <2>3, ConsumeType, AfterFillType
  <2>5. order' = [order EXCEPT ![a.order] = row]
    BY <1>6 DEF ReplayFill
  <2> HIDE DEF row, a
  <2>6. QED
    BY <1>2, <2>1, <2>4, <2>5
<1>7. ASSUME NEW o \in Orders, NEW to,
             DecideOrder(o, to) \/ RefreshOrder(o, to)
      PROVE  order' \in [Orders -> Rows]
  BY <1>3, <1>7 DEF DecideOrder, RefreshOrder
<1>8. ASSUME NEW o \in Orders, SubmitOrder(o)
      PROVE  order' \in [Orders -> Rows]
  BY <1>3, <1>8 DEF SubmitOrder
<1>9. CASE UNCHANGED order
  BY <1>1, <1>9
<1>10. QED
  BY <1>4, <1>5, <1>6, <1>7, <1>8, <1>9
     DEF Next, vars, EnsureInitialEquity, BrokerFill, BrokerClose, ApplySplit

\* Cash out for a BUY, in for a SELL: a fee never exceeds its fill.
LEMMA FillAmountType ==
    ASSUME TypeOK, NEW i \in 1..Len(activity), NEW row
    PROVE  /\ FillAmount(row, activity[i]) \in Int
           /\ row.side = "buy" => FillAmount(row, activity[i]) = -Notional(i)
           /\ row.side # "buy" => FillAmount(row, activity[i]) \in Nat
<1>1. /\ activity[i].price \in Prices
      /\ Notional(i) \in Nat /\ Notional(i) >= activity[i].price
  BY ActivityType DEF Activity
<1>2. SellFee \in Nat /\ SellFee <= activity[i].price /\ activity[i].price \in Nat
  BY <1>1, LedgerAssumption
<1>3. QED
  BY <1>1, <1>2 DEF FillAmount, Notional

\* The row a replayed fill appends to the cash ledger.
LEMMA ReplayRow ==
    ASSUME TypeOK, NEW i \in 1..Len(activity), ReplayFill(i)
    PROVE  \E row \in CashRow :
              /\ cash' = Append(cash, row)
              /\ row.balance = Balance + FillAmount(order[activity[i].order], activity[i])
<1> DEFINE r == order[activity[i].order]
           row == [kind |-> r.side, amount |-> FillAmount(r, activity[i]),
                   balance |-> Balance + FillAmount(r, activity[i])]
<1>1. r \in OrderRow
  BY ActivityType DEF ReplayFill, FillStatuses, NoOrder, TypeOK
<1>2. r.side \in {"buy", "sell"}
  BY <1>1 DEF OrderRow
<1>3. FillAmount(r, activity[i]) \in Int
  BY FillAmountType
<1>4. Balance + FillAmount(r, activity[i]) \in Usd
  BY DEF ReplayFill
<1>5. cash' = Append(cash, row)
  BY DEF ReplayFill
<1>6. row \in CashRow
  BY <1>2, <1>3, <1>4 DEF CashRow
<1>7. row.balance = Balance + FillAmount(r, activity[i])
  OBVIOUS
<1> HIDE DEF row, r
<1>8. QED
  BY <1>5, <1>6, <1>7 DEF r

\* The cash ledger keeps its type.
LEMMA CashTypeStep ==
    ASSUME TypeOK, [Next]_vars
    PROVE  cash' \in Seq(CashRow)
<1>1. cash \in Seq(CashRow)
  BY DEF TypeOK
<1>2. CASE EnsureInitialEquity
  <2> DEFINE row == [kind |-> "initial_equity", amount |-> Equity, balance |-> Equity]
  <2>1. row \in CashRow
    BY LedgerAssumption DEF CashRow, Usd
  <2>2. cash' = <<row>>
    BY <1>2 DEF EnsureInitialEquity
  <2> HIDE DEF row
  <2>3. QED
    BY <2>1, <2>2
<1>3. ASSUME NEW i \in 1..Len(activity), ReplayFill(i)
      PROVE  cash' \in Seq(CashRow)
  BY <1>1, <1>3, ReplayRow, AppendProperties
<1>4. CASE UNCHANGED cash
  BY <1>1, <1>4
<1>5. QED
  BY <1>2, <1>3, <1>4, ZenonT(60)
     DEF Next, vars, RecordBuy, RecordSell, DecideOrder, RefreshOrder,
         SubmitOrder, BrokerFill, BrokerClose, ApplySplit

\* Buying, selling and splitting keep positions and their lots well typed.
LEMMA PositionTypeStep ==
    ASSUME TypeOK, [Next]_vars
    PROVE  position' \in [Symbols -> [qty : Nat, lots : Seq(Nat)]]
<1> DEFINE Positions == [qty : Nat, lots : Seq(Nat)]
<1>1. position \in [Symbols -> Positions]
  BY DEF TypeOK
<1>2. ASSUME NEW s \in Symbols, NEW pos \in Positions, position' = [position EXCEPT ![s] = pos]
      PROVE  position' \in [Symbols -> Positions]
  BY <1>1, <1>2
<1>3. ASSUME NEW i \in 1..Len(activity), ReplayFill(i)
      PROVE  position' \in [Symbols -> Positions]
  <2> DEFINE a == activity[i]
             row == order[a.order]
             pos == position[row.symbol]
             new == IF row.side = "buy" THEN Bought(pos, a.qty) ELSE Sold(pos, a.qty)
  <2>1. row \in OrderRow /\ a.qty \in Nat
    BY <1>3, ActivityType DEF ReplayFill, FillStatuses, NoOrder, TypeOK
  <2>2. row.symbol \in Symbols /\ row.side \in {"buy", "sell"}
    BY <2>1 DEF OrderRow
  <2>3. pos \in Positions /\ pos.qty \in Nat /\ pos.lots \in Seq(Nat)
    BY <1>1, <2>2
  <2>4. row.side = "sell" => a.qty <= pos.qty
    BY <1>3 DEF ReplayFill, SellCovered
  <2>5. position' = [position EXCEPT ![row.symbol] = new]
    BY <1>3 DEF ReplayFill
  <2> HIDE DEF a, row, pos
  <2>6. Bought(pos, a.qty) \in Positions
    BY <2>1, <2>3, AppendProperties DEF Bought
  <2>7. row.side = "sell" => Sold(pos, a.qty) \in Positions
    <3>1. SellFifo(pos.lots, a.qty) \in Seq(Nat)
      BY <2>1, <2>3, SellFifoType
    <3>2. Flat \in Positions
      BY EmptySeq DEF Flat
    <3>3. QED
      BY <2>1, <2>3, <2>4, <3>1, <3>2 DEF Sold
  <2>8. new \in Positions
    BY <2>2, <2>6, <2>7
  <2> HIDE DEF new
  <2>9. QED
    BY <1>2, <2>2, <2>5, <2>8
<1>4. ASSUME NEW s \in Symbols, NEW r \in SplitRatios, ApplySplit(s, r)
      PROVE  position' \in [Symbols -> Positions]
  <2> DEFINE pos == position[s]
             lots == [j \in DOMAIN pos.lots |-> Scale(pos.lots[j], r)]
             new == [qty |-> Scale(pos.qty, r), lots |-> lots]
  <2>1. pos \in Positions /\ pos.qty \in Nat /\ pos.lots \in Seq(Nat)
    BY <1>1
  <2>2. position' = [position EXCEPT ![s] = new]
    BY <1>4 DEF ApplySplit
  <2> HIDE DEF pos
  <2>3. /\ DOMAIN pos.lots = 1..Len(pos.lots) /\ Len(pos.lots) \in Nat
        /\ \A j \in 1..Len(pos.lots) : pos.lots[j] \in Nat
    BY <2>1, LenProperties
  <2>4. \A j \in 1..Len(pos.lots) : Scale(pos.lots[j], r) \in Nat
    BY <2>3, ScaleType
  <2>5. lots \in [1..Len(pos.lots) -> Nat]
    BY <2>3, <2>4
  <2>6. lots \in Seq(Nat)
    BY <2>3, <2>5, SeqDef
  <2>7. Scale(pos.qty, r) \in Nat
    BY <2>1, ScaleType
  <2> HIDE DEF lots
  <2>8. new \in Positions
    BY <2>6, <2>7
  <2> HIDE DEF new
  <2>9. QED
    BY <1>2, <2>2, <2>8
<1>5. CASE UNCHANGED position
  BY <1>1, <1>5
<1>6. QED
  BY <1>3, <1>4, <1>5, ZenonT(60)
     DEF Next, vars, EnsureInitialEquity, RecordBuy, RecordSell, DecideOrder,
         RefreshOrder, SubmitOrder, BrokerFill, BrokerClose

\* What the broker has of each order, and its activity log, keep their types.
LEMMA BrokerTypeStep ==
    ASSUME TypeOK, [Next]_vars
    PROVE  /\ broker' \in [Orders -> BrokerOrder]
           /\ activity' \in Seq(Activity)
           /\ applied' \subseteq DOMAIN activity'
<1>1. /\ broker \in [Orders -> BrokerOrder]
      /\ activity \in Seq(Activity)
      /\ applied \subseteq DOMAIN activity
      /\ DOMAIN activity = 1..Len(activity) /\ Len(activity) \in Nat
  BY LenProperties DEF TypeOK
<1>2. ASSUME NEW o \in Orders, SubmitOrder(o)
      PROVE  broker' \in [Orders -> BrokerOrder]
  <2>1. order[o] \in OrderRow
    BY <1>2, MoveFrom DEF SubmitOrder, TypeOK
  <2>2. [status |-> "working", leaves |-> order[o].qty] \in BrokerOrder
    BY <2>1, LedgerAssumption DEF OrderRow, BrokerOrder
  <2>3. QED
    BY <1>1, <1>2, <2>2 DEF SubmitOrder
<1>3. ASSUME NEW o \in Orders, NEW q \in 1..MaxQty, NEW p \in Prices, BrokerFill(o, q, p)
      PROVE  /\ broker' \in [Orders -> BrokerOrder]
             /\ activity' \in Seq(Activity)
             /\ applied' \subseteq DOMAIN activity'
  <2>1. broker[o].leaves \in 0..MaxQty /\ MaxQty \in Nat
    BY <1>1, LedgerAssumption DEF BrokerOrder
  <2>2. q <= broker[o].leaves
    BY <1>3, <2>1 DEF BrokerFill
  <2> DEFINE left == broker[o].leaves - q
             new == [status |-> IF q = broker[o].leaves THEN "filled" ELSE "working",
                     leaves |-> left]
             act == [order |-> o, qty |-> q, price |-> p, leaves |-> left]
  <2>3. left \in 0..MaxQty
    BY <2>1, <2>2
  <2>4. broker' = [broker EXCEPT ![o] = new] /\ activity' = Append(activity, act)
    BY <1>3 DEF BrokerFill
  <2> HIDE DEF left
  <2>5. new \in BrokerOrder /\ act \in Activity
    BY <2>3 DEF BrokerOrder, Activity
  <2> HIDE DEF new, act
  <2>6. broker' \in [Orders -> BrokerOrder]
    BY <1>1, <2>4, <2>5
  <2>7. activity' \in Seq(Activity) /\ Len(activity') = Len(activity) + 1
    BY <1>1, <2>4, <2>5, AppendProperties
  <2>8. applied' = applied
    BY <1>3 DEF BrokerFill
  <2>9. QED
    BY <1>1, <2>6, <2>7, <2>8, LenProperties
<1>4. ASSUME NEW o \in Orders, BrokerClose(o)
      PROVE  broker' \in [Orders -> BrokerOrder]
  <2>1. [status |-> "closed", leaves |-> 0] \in BrokerOrder
    BY LedgerAssumption DEF BrokerOrder
  <2>2. QED
    BY <1>1, <1>4, <2>1 DEF BrokerClose
<1>5. ASSUME NEW i \in 1..Len(activity), ReplayFill(i)
      PROVE  /\ applied' \subseteq DOMAIN activity
             /\ UNCHANGED <<broker, activity>>
  BY <1>1, <1>5 DEF ReplayFill
<1>6. CASE UNCHANGED <<broker, activity, applied>>
  BY <1>1, <1>6
<1>7. QED
  BY <1>1, <1>2, <1>3, <1>4, <1>5, <1>6
     DEF Next, vars, EnsureInitialEquity, RecordBuy, RecordSell, DecideOrder,
         RefreshOrder, SubmitOrder, BrokerClose, ApplySplit

\* The empty database is well typed.
LEMMA LedgerTypeInit == Init => TypeOK
<1> SUFFICES ASSUME Init PROVE TypeOK
  OBVIOUS
<1>1. /\ order \in [Orders -> OrderRow \cup {NoOrder}]
      /\ cash \in Seq(CashRow) /\ activity \in Seq(Activity)
      /\ applied \subseteq DOMAIN activity
  BY DEF Init
<1>2. broker \in [Orders -> BrokerOrder]
  BY LedgerAssumption DEF Init, BrokerOrder
<1>3. position \in [Symbols -> [qty : Nat, lots : Seq(Nat)]]
  BY DEF Init, Flat
<1>4. QED
  BY <1>1, <1>2, <1>3 DEF TypeOK

\* Every table keeps its type, whatever transactions and broker events run.
THEOREM LedgerTypeCorrect == Spec => []TypeOK
<1>1. TypeOK /\ [Next]_vars => TypeOK'
  <2>1. SUFFICES ASSUME TypeOK, [Next]_vars PROVE TypeOK'
    OBVIOUS
  <2>2. QED
    BY <2>1, OrderTypeStep, CashTypeStep, PositionTypeStep, BrokerTypeStep DEF TypeOK
<1>2. QED
  BY <1>1, LedgerTypeInit, PTL DEF Spec

-----------------------------------------------------------------------------
\* A transaction that touches one order row, and leaves the broker alone.
LEMMA StoryOfRow ==
    ASSUME TypeOK, BrokerStory, NEW o \in Orders, NEW row,
           order' = [order EXCEPT ![o] = row],
           UNCHANGED <<broker, activity>>,
           \/ /\ order[o].status \in {"none", "PROPOSED", "VALIDATED",
                    "PENDING_APPROVAL", "FILL_PENDING_RECONSTRUCTION"}
              /\ row.status \notin WorkingStatuses \cup {"FILLED"}
           \/ /\ broker[o].status \in {"filled", "closed"}
              /\ row.status \in {"FILLED", "CANCELLED", "EXPIRED", "REJECTED",
                                 "PARTIALLY_FILLED"}
           \/ /\ broker[o].status # "absent"
              /\ row.status \in WorkingStatuses
           \/ row.status = order[o].status
    PROVE  BrokerStory'
<1>1. /\ \A p \in Orders \ {o} : order'[p] = order[p]
      /\ order'[o] = row
  BY DEF TypeOK
<1>2. /\ broker' = broker /\ activity' = activity
  OBVIOUS
<1>3. ASSUME NEW p \in Orders
      PROVE /\ broker[p].status = "absent" =>
                  order'[p].status \notin WorkingStatuses \cup {"FILLED"}
            /\ broker[p].status # "absent" =>
                  order'[p].status \notin {"none", "PROPOSED", "VALIDATED",
                      "PENDING_APPROVAL", "FILL_PENDING_RECONSTRUCTION"}
            /\ broker[p].status = "working" => order'[p].status \in WorkingStatuses
  BY <1>1 DEF BrokerStory, WorkingStatuses
<1>4. QED
  BY <1>2, <1>3 DEF BrokerStory

\* The broker's story survives every step.
LEMMA StoryStep ==
    ASSUME TypeOK, BrokerStory, FilledMeansBooked, [Next]_vars
    PROVE  BrokerStory'
<1>1. ASSUME NEW o \in Orders, NEW s \in Symbols, NEW q, NEW p, NEW r,
             RecordBuy(o, s, q, p, r) \/ RecordSell(o, s, q)
      PROVE  BrokerStory'
  <2>1. order[o].status = "none"
    BY <1>1 DEF RecordBuy, RecordSell, NoOrder
  <2> DEFINE buy  == [status |-> "PROPOSED", side |-> "buy", symbol |-> s,
                      qty |-> q, cap |-> p, reserved |-> r]
             sell == [status |-> "PROPOSED", side |-> "sell", symbol |-> s,
                      qty |-> q, cap |-> 0, reserved |-> 0]
  <2>2. /\ \/ order' = [order EXCEPT ![o] = buy]
           \/ order' = [order EXCEPT ![o] = sell]
        /\ UNCHANGED <<broker, activity>>
    BY <1>1 DEF RecordBuy, RecordSell
  <2>3. buy.status = "PROPOSED" /\ sell.status = "PROPOSED"
    OBVIOUS
  <2> HIDE DEF buy, sell
  <2>4. "PROPOSED" \notin WorkingStatuses \cup {"FILLED"}
    BY DEF WorkingStatuses
  <2>5. QED
    BY <2>1, <2>2, <2>3, <2>4, StoryOfRow
<1>2. ASSUME NEW o \in Orders, NEW to, DecideOrder(o, to) PROVE BrokerStory'
  <2>1. /\ order' = [order EXCEPT ![o] = Moved(order[o], to)]
        /\ UNCHANGED <<broker, activity>>
    BY <1>2 DEF DecideOrder
  <2>2. Moved(order[o], to).status = to
    BY <1>2, MoveFrom DEF DecideOrder, TypeOK, Moved, OrderRow
  <2>3. /\ order[o].status \in {"PROPOSED", "VALIDATED", "PENDING_APPROVAL",
                                "FILL_PENDING_RECONSTRUCTION"}
        /\ to \notin WorkingStatuses \cup {"FILLED"}
    BY <1>2 DEF DecideOrder, MayMove, TransitionAllowed, WorkingStatuses
  <2>4. QED
    BY <2>1, <2>2, <2>3, StoryOfRow
<1>3. ASSUME NEW o \in Orders, NEW to, RefreshOrder(o, to) PROVE BrokerStory'
  <2>1. /\ order' = [order EXCEPT ![o] = Moved(order[o], to)]
        /\ UNCHANGED <<broker, activity>>
    BY <1>3 DEF RefreshOrder
  <2>2. Moved(order[o], to).status = to
    BY <1>3, MoveFrom DEF RefreshOrder, TypeOK, Moved, OrderRow
  <2>3. /\ broker[o].status \in {"filled", "closed"}
        /\ to \in {"FILLED", "CANCELLED", "EXPIRED", "REJECTED"}
    BY <1>3 DEF RefreshOrder
  <2>4. QED
    BY <2>1, <2>2, <2>3, StoryOfRow
<1>4. ASSUME NEW o \in Orders, SubmitOrder(o) PROVE BrokerStory'
  <2>1. order[o].status \in {"VALIDATED", "PENDING_APPROVAL"}
    BY <1>4 DEF SubmitOrder, MayMove, TransitionAllowed
  <2>2. broker[o].status = "absent"
    BY <2>1 DEF BrokerStory
  <2>3. order[o] \in OrderRow
    BY <1>4, MoveFrom DEF SubmitOrder, TypeOK
  <2>4. /\ order'[o].status = "SUBMITTED"
        /\ \A p \in Orders \ {o} : order'[p] = order[p]
        /\ broker'[o].status = "working"
        /\ \A p \in Orders \ {o} : broker'[p] = broker[p]
        /\ activity' = activity
    BY <1>4, <2>3 DEF SubmitOrder, TypeOK, Moved, OrderRow
  <2>5. \A i \in DOMAIN activity : activity[i].order \in Orders \ {o}
    BY <2>2, ActivityType, LenProperties DEF BrokerStory, TypeOK
  <2>6. ASSUME NEW p \in Orders
        PROVE /\ broker'[p].status = "absent" =>
                    order'[p].status \notin WorkingStatuses \cup {"FILLED"}
              /\ broker'[p].status # "absent" =>
                    order'[p].status \notin {"none", "PROPOSED", "VALIDATED",
                        "PENDING_APPROVAL", "FILL_PENDING_RECONSTRUCTION"}
              /\ broker'[p].status = "working" => order'[p].status \in WorkingStatuses
              /\ broker'[p].status = "filled" => broker'[p].leaves = 0
    BY <2>4 DEF BrokerStory, WorkingStatuses
  <2>7. QED
    BY <2>4, <2>5, <2>6 DEF BrokerStory
<1>5. ASSUME NEW o \in Orders, NEW q \in 1..MaxQty, NEW p \in Prices, BrokerFill(o, q, p)
      PROVE  BrokerStory'
  <2> DEFINE left == broker[o].leaves - q
             act == [order |-> o, qty |-> q, price |-> p, leaves |-> left]
             n == Len(activity)
  <2>1. /\ broker[o].status = "working" /\ order' = order
        /\ broker'[o].leaves = left
        /\ broker'[o].status = (IF q = broker[o].leaves THEN "filled" ELSE "working")
        /\ \A x \in Orders \ {o} : broker'[x] = broker[x]
    BY <1>5 DEF BrokerFill, TypeOK
  <2>2. broker[o].leaves \in Nat /\ q \in Nat /\ q <= broker[o].leaves
    BY <1>5, LedgerAssumption DEF BrokerFill, TypeOK, BrokerOrder
  <2>3. left = 0 <=> q = broker[o].leaves
    BY <2>2
  <2>4. /\ n \in Nat /\ DOMAIN activity = 1..n /\ DOMAIN activity' = 1..(n + 1)
        /\ \A i \in 1..n : activity'[i] = activity[i]
        /\ activity'[n + 1] = act
    <3>1. activity \in Seq(Activity) /\ activity' = Append(activity, act)
      BY <1>5 DEF BrokerFill, TypeOK
    <3> HIDE DEF act
    <3>2. QED
      BY <3>1, LenProperties
  <2>5. \A i \in 1..n : activity[i].order \in Orders
    BY ActivityType
  <2>6. \A i \in 1..n : activity[i].leaves = 0 => activity[i].order # o
    BY <2>1, <2>4 DEF BrokerStory
  <2> HIDE DEF n
  <2>7. ASSUME NEW x \in Orders
        PROVE /\ broker'[x].status = "absent" =>
                    order'[x].status \notin WorkingStatuses \cup {"FILLED"}
              /\ broker'[x].status # "absent" =>
                    order'[x].status \notin {"none", "PROPOSED", "VALIDATED",
                        "PENDING_APPROVAL", "FILL_PENDING_RECONSTRUCTION"}
              /\ broker'[x].status = "working" => order'[x].status \in WorkingStatuses
              /\ broker'[x].status = "filled" => broker'[x].leaves = 0
    BY <2>1, <2>3 DEF BrokerStory
  <2>8. ASSUME NEW i \in DOMAIN activity'
        PROVE /\ broker'[activity'[i].order].status # "absent"
              /\ activity'[i].leaves = 0 =>
                    /\ broker'[activity'[i].order].status = "filled"
                    /\ \A j \in DOMAIN activity' :
                          j > i => activity'[j].order # activity'[i].order
    <3>1. CASE i \in 1..n
      <4>1. /\ broker[activity[i].order].status # "absent"
            /\ activity[i].leaves = 0 =>
                    /\ broker[activity[i].order].status = "filled"
                    /\ \A j \in 1..n :
                          j > i => activity[j].order # activity[i].order
        BY <2>4, <3>1 DEF BrokerStory
      <4>2. /\ activity'[i] = activity[i]
            /\ activity[i].order \in Orders
            /\ activity[i].leaves = 0 => activity[i].order # o
        BY <2>4, <2>5, <2>6, <3>1
      <4>3. broker'[activity'[i].order].status # "absent"
        BY <2>1, <4>1, <4>2
      <4>4. ASSUME activity'[i].leaves = 0, NEW j \in DOMAIN activity', j > i
            PROVE  activity'[j].order # activity'[i].order
        <5>1. CASE j \in 1..n
          BY <2>4, <4>1, <4>2, <4>4, <5>1
        <5>2. CASE j = n + 1
          BY <2>4, <4>2, <4>4, <5>2
        <5>3. QED
          BY <2>4, <5>1, <5>2
      <4>5. activity'[i].leaves = 0 => broker'[activity'[i].order].status = "filled"
        BY <2>1, <4>1, <4>2
      <4>6. QED
        BY <4>3, <4>4, <4>5
    <3>2. CASE i = n + 1
      <4>1. activity'[i] = act /\ act.order = o /\ act.leaves = left
        BY <2>4, <3>2
      <4> HIDE DEF act
      <4>2. broker'[o].status # "absent"
        BY <2>1
      <4>3. left = 0 => broker'[o].status = "filled"
        BY <2>1, <2>3
      <4>4. \A j \in DOMAIN activity' : ~(j > i)
        BY <2>4, <3>2
      <4>5. QED
        BY <4>1, <4>2, <4>3, <4>4
    <3>3. QED
      BY <2>4, <3>1, <3>2
  <2>9. QED
    BY <2>7, <2>8 DEF BrokerStory
<1>6. ASSUME NEW o \in Orders, BrokerClose(o) PROVE BrokerStory'
  <2>1. /\ broker[o].status = "working" /\ broker'[o].status = "closed"
        /\ \A x \in Orders \ {o} : broker'[x] = broker[x]
        /\ UNCHANGED <<order, activity>>
    BY <1>6 DEF BrokerClose, TypeOK
  <2>2. \A i \in DOMAIN activity : activity[i].order \in Orders
    BY ActivityType, LenProperties DEF TypeOK
  <2>3. QED
    BY <2>1, <2>2 DEF BrokerStory
<1>7. ASSUME NEW i \in 1..Len(activity), ReplayFill(i) PROVE BrokerStory'
  <2> DEFINE o == activity[i].order
             c == Consume(order[o], activity[i].qty * activity[i].price)
             row == AfterFill(c, activity[i].leaves)
  <2>1. /\ o \in Orders /\ order[o].status \in FillStatuses
        /\ order' = [order EXCEPT ![o] = row]
        /\ UNCHANGED <<broker, activity>>
    BY <1>7, ActivityType DEF ReplayFill
  <2>2. i \in DOMAIN activity
    BY ActivityType
  <2>3. /\ broker[o].status # "absent"
        /\ activity[i].leaves = 0 => broker[o].status = "filled"
    BY <2>2 DEF BrokerStory
  <2>4. order[o] \in OrderRow
    BY <2>1 DEF FillStatuses, NoOrder, TypeOK
  <2>5. c.status = order[o].status
    BY <2>4 DEF Consume, OrderRow
  <2>6. c \in OrderRow
    <3>1. Notional(i) \in Nat
      BY ActivityType
    <3>2. QED
      BY <2>4, <3>1, ConsumeType DEF Notional
  <2> HIDE DEF c
  <2>7. \/ row.status = order[o].status
        \/ activity[i].leaves = 0 /\ row.status = "FILLED"
        \/ row.status = "PARTIALLY_FILLED"
    BY <2>5, <2>6 DEF AfterFill, Moved, OrderRow
  <2> HIDE DEF row, o
  <2>8. QED
    BY <2>1, <2>3, <2>7, StoryOfRow DEF WorkingStatuses
<1>8. CASE UNCHANGED <<order, broker, activity>>
  BY <1>8 DEF BrokerStory
<1>9. QED
  BY <1>1, <1>2, <1>3, <1>4, <1>5, <1>6, <1>7, <1>8
     DEF Next, vars, EnsureInitialEquity, ApplySplit

-----------------------------------------------------------------------------
(* The money: what the open BUY orders hold covers what they can cost.     *)

\* The pending fills of an order and their costs form a finite function.
LEMMA PendingType ==
    ASSUME TypeOK, NEW o
    PROVE  IsFiniteSet(Pending(o)) /\ PendingCost(o) \in Nat
<1>1. IsFiniteSet(DOMAIN activity)
  <2>1. DOMAIN activity = 1..Len(activity) /\ Len(activity) \in Nat
    BY LenProperties DEF TypeOK
  <2>2. QED
    BY <2>1, FS_Interval
<1>2. Pending(o) \subseteq DOMAIN activity
  BY DEF Pending
<1>3. IsFiniteSet(Pending(o))
  BY <1>1, <1>2, FS_Subset, Zenon
<1> DEFINE f == [i \in Pending(o) |-> Notional(i)]
<1>4. DOMAIN f = Pending(o) /\ MaxUsd \in Nat
  BY LedgerAssumption
<1> HIDE DEF f
<1>5. Tally(f, MaxUsd) \in Nat
  BY <1>3, <1>4, TallyType, Zenon
<1>6. QED
  BY <1>3, <1>5 DEF PendingCost, f

\* A pending fill of a BUY is part of the pending cost.
LEMMA PendingSplit ==
    ASSUME TypeOK, FullyReserved, NEW o \in Orders, order[o].side = "buy",
           NEW i \in Pending(o)
    PROVE  Tally([j \in Pending(o) \ {i} |-> Notional(j)], MaxUsd)
             = PendingCost(o) - Notional(i)
<1> DEFINE f == [j \in Pending(o) |-> Notional(j)]
<1>1. \A j \in Pending(o) : Notional(j) \in 0..MaxUsd
  BY ActivityType, LenProperties, LedgerAssumption DEF Pending, FullyReserved, TypeOK
<1>2. f \in [Pending(o) -> 0..MaxUsd]
  BY <1>1
<1>3. \A j \in Pending(o) : f[j] = Notional(j)
  OBVIOUS
<1>4. [j \in Pending(o) \ {i} |-> f[j]] = [j \in Pending(o) \ {i} |-> Notional(j)]
  BY <1>3
<1>5. Tally(f, MaxUsd) = PendingCost(o)
  BY DEF PendingCost
<1> HIDE DEF f
<1>6. IsFiniteSet(Pending(o)) /\ MaxUsd \in Nat
  BY PendingType, LedgerAssumption
<1>7. Tally([j \in Pending(o) \ {i} |-> f[j]], MaxUsd) = Tally(f, MaxUsd) - f[i]
  BY <1>2, <1>6, TallyWithout
<1>8. QED
  BY <1>3, <1>4, <1>5, <1>7

\* A pending BUY fill belongs to a working order, and its reservation pays it.
LEMMA PendingIsPaid ==
    ASSUME LedgerInv, NEW i \in DOMAIN activity \ applied,
           order[activity[i].order].side = "buy",
           order[activity[i].order].status \in FillStatuses
    PROVE  /\ order[activity[i].order].status \in WorkingStatuses
           /\ order[activity[i].order].reserved \in Nat
           /\ order[activity[i].order].reserved >=
                broker[activity[i].order].leaves * order[activity[i].order].cap
                   + PendingCost(activity[i].order)
           /\ Notional(i) <= PendingCost(activity[i].order)
<1> DEFINE o == activity[i].order
<1> USE DEF LedgerInv
<1>1. i \in 1..Len(activity)
  BY LenProperties DEF TypeOK
<1>2. o \in Orders /\ i \in Pending(o) /\ Notional(i) \in Nat
  BY <1>1, ActivityType DEF Pending
<1>3. order[o] \in OrderRow
  BY <1>2 DEF TypeOK, NoOrder
<1>4. order[o].reserved \in Nat
  BY <1>3, LedgerAssumption DEF OrderRow, Usd
<1>5. order[o].status \in WorkingStatuses
  BY <1>1, <1>2 DEF BrokerStory, FilledMeansBooked, FillStatuses, WorkingStatuses
<1>6. order[o].reserved >= broker[o].leaves * order[o].cap + PendingCost(o)
  BY <1>2, <1>5 DEF FillsAffordable
<1> DEFINE rest == Tally([j \in Pending(o) \ {i} |-> Notional(j)], MaxUsd)
<1>7. rest = PendingCost(o) - Notional(i)
  BY <1>2, PendingSplit
<1>8. rest \in Nat
  <2>1. IsFiniteSet(Pending(o) \ {i}) /\ MaxUsd \in Nat
    BY PendingType, FS_RemoveElement, LedgerAssumption
  <2> DEFINE g == [j \in Pending(o) \ {i} |-> Notional(j)]
  <2>2. DOMAIN g = Pending(o) \ {i}
    OBVIOUS
  <2> HIDE DEF g
  <2>3. Tally(g, MaxUsd) \in Nat
    BY <2>1, <2>2, TallyType, Zenon
  <2>4. QED
    BY <2>3 DEF g
<1> HIDE DEF rest
<1>9. PendingCost(o) \in Nat
  BY PendingType
<1>10. Notional(i) <= PendingCost(o)
  BY <1>2, <1>7, <1>8, <1>9
<1>11. QED
  BY <1>4, <1>5, <1>6, <1>10

Money == FullyReserved /\ FillsAffordable /\ FilledMeansBooked

\* A transaction that touches one order row and nothing else of the order flow.
LEMMA MoneyOfRow ==
    ASSUME TypeOK, Money, NEW o \in Orders, NEW row,
           order' = [order EXCEPT ![o] = row],
           UNCHANGED <<broker, activity, applied>>,
           row.side = "buy" =>
              /\ row.status \in OpenStatuses \ WorkingStatuses =>
                    row.reserved >= row.qty * row.cap
              /\ row.status \in WorkingStatuses =>
                    row.reserved >= broker[o].leaves * row.cap + PendingCost(o)
              /\ row.status = "FILLED" =>
                    broker[o].status = "filled" /\ Pending(o) = {}
              /\ \/ order[o].side = "buy"
                 \/ \A i \in DOMAIN activity : activity[i].order # o
    PROVE  Money'
<1>1. /\ \A p \in Orders \ {o} : order'[p] = order[p]
      /\ order'[o] = row
      /\ \A p \in Orders : Pending(p)' = Pending(p) /\ PendingCost(p)' = PendingCost(p)
      /\ \A i \in DOMAIN activity : Notional(i)' = Notional(i)
  BY DEF TypeOK, Pending, PendingCost, Notional
<1>2. \A i \in DOMAIN activity : activity[i].order \in Orders
  BY ActivityType, LenProperties DEF TypeOK
<1>3. FullyReserved'
  BY <1>1, <1>2 DEF Money, FullyReserved
<1>4. FillsAffordable'
  BY <1>1 DEF Money, FillsAffordable
<1>5. FilledMeansBooked'
  BY <1>1 DEF Money, FilledMeansBooked
<1>6. QED
  BY <1>3, <1>4, <1>5 DEF Money

\* An order the broker does not have has no fills.
LEMMA AbsentHasNoFills ==
    ASSUME TypeOK, BrokerStory, NEW o \in Orders, broker[o].status = "absent"
    PROVE  /\ \A i \in DOMAIN activity : activity[i].order # o
           /\ Pending(o) = {} /\ PendingCost(o) = 0
<1>1. \A i \in DOMAIN activity : activity[i].order # o
  BY DEF BrokerStory
<1>2. Pending(o) = {}
  BY <1>1 DEF Pending
<1>3. PendingCost(o) = Tally([i \in {} |-> Notional(i)], MaxUsd)
  BY <1>2 DEF PendingCost
<1>4. [i \in {} |-> Notional(i)] = [i \in {} |-> 0]
  OBVIOUS
<1>5. Tally([i \in {} |-> 0], MaxUsd) = 0
  BY LedgerAssumption, TallyZero
<1>6. QED
  BY <1>1, <1>2, <1>3, <1>4, <1>5

\* A smaller price or a smaller quantity never costs more.
LEMMA CostOfPart ==
    ASSUME NEW q \in Nat, NEW k \in Nat, q <= k, NEW p \in Nat, NEW c \in Nat, p <= c
    PROVE  k * c >= (k - q) * c + q * p
<1>1. k * c = (k - q) * c + q * c
  OBVIOUS
<1>2. PICK d \in Nat : c = p + d
  <2>1. c - p \in Nat /\ c = p + (c - p)
    OBVIOUS
  <2>2. QED
    BY <2>1
<1>3. q * c = q * p + q * d /\ q * d \in Nat
  BY <1>2
<1>4. (k - q) \in Nat /\ (k - q) * c \in Nat /\ q * p \in Nat /\ k * c \in Nat
  OBVIOUS
<1>5. QED
  BY <1>1, <1>3, <1>4

\* The money conjuncts survive every transaction on the ledger's own rows.
LEMMA MoneyOfOwnRows ==
    ASSUME TypeOK, BrokerStory, Money, NEW o \in Orders,
           \/ \E s \in Symbols, q \in 1..MaxQty, p \in Prices, b \in Buffers :
                 RecordBuy(o, s, q, p, q * p + b)
           \/ \E s \in Symbols, q \in 1..MaxQty : RecordSell(o, s, q)
           \/ \E to \in Statuses : DecideOrder(o, to) \/ RefreshOrder(o, to)
    PROVE  Money'
<1>1. ASSUME NEW s \in Symbols, NEW q \in 1..MaxQty, NEW p, NEW r, RecordBuy(o, s, q, p, r)
      PROVE  Money'
  <2> DEFINE row == [status |-> "PROPOSED", side |-> "buy", symbol |-> s,
                     qty |-> q, cap |-> p, reserved |-> r]
  <2>1. /\ order' = [order EXCEPT ![o] = row]
        /\ UNCHANGED <<broker, activity, applied>>
        /\ r >= q * p /\ order[o].status = "none"
    BY <1>1 DEF RecordBuy, NoOrder
  <2>2. broker[o].status = "absent"
    BY <2>1 DEF BrokerStory
  <2>3. \A i \in DOMAIN activity : activity[i].order # o
    BY <2>2, AbsentHasNoFills
  <2>4. /\ row.status = "PROPOSED" /\ row.reserved >= row.qty * row.cap
        /\ "PROPOSED" \notin WorkingStatuses /\ "PROPOSED" # "FILLED"
    BY <2>1 DEF WorkingStatuses
  <2> HIDE DEF row
  <2>5. QED
    BY <2>1, <2>3, <2>4, MoneyOfRow
<1>2. ASSUME NEW s \in Symbols, NEW q \in 1..MaxQty, RecordSell(o, s, q)
      PROVE  Money'
  <2> DEFINE row == [status |-> "PROPOSED", side |-> "sell", symbol |-> s,
                     qty |-> q, cap |-> 0, reserved |-> 0]
  <2>1. /\ order' = [order EXCEPT ![o] = row]
        /\ UNCHANGED <<broker, activity, applied>>
    BY <1>2 DEF RecordSell
  <2>2. row.side # "buy"
    OBVIOUS
  <2> HIDE DEF row
  <2>3. QED
    BY <2>1, <2>2, MoneyOfRow
<1>3. ASSUME NEW to, DecideOrder(o, to) PROVE Money'
  <2> DEFINE row == Moved(order[o], to)
  <2>1. /\ order' = [order EXCEPT ![o] = row]
        /\ UNCHANGED <<broker, activity, applied>>
    BY <1>3 DEF DecideOrder
  <2>2. order[o] \in OrderRow
    BY <1>3, MoveFrom DEF DecideOrder, TypeOK
  <2>3. /\ row.status = to /\ row.side = order[o].side
        /\ row.qty = order[o].qty /\ row.cap = order[o].cap
        /\ to \in OpenStatuses => row.reserved = order[o].reserved
    BY <2>2 DEF Moved, OrderRow
  <2>4. /\ order[o].status \in OpenStatuses \ WorkingStatuses
        /\ to \notin WorkingStatuses \cup {"FILLED"}
    BY <1>3 DEF DecideOrder, MayMove, TransitionAllowed, WorkingStatuses, OpenStatuses
  <2>5. order[o].side = "buy" => order[o].reserved >= order[o].qty * order[o].cap
    BY <2>4 DEF Money, FullyReserved
  <2> HIDE DEF row
  <2>6. QED
    BY <2>1, <2>3, <2>4, <2>5, MoneyOfRow
<1>4. ASSUME NEW to, RefreshOrder(o, to) PROVE Money'
  <2> DEFINE row == Moved(order[o], to)
  <2>1. /\ order' = [order EXCEPT ![o] = row]
        /\ UNCHANGED <<broker, activity, applied>>
    BY <1>4 DEF RefreshOrder
  <2>2. order[o] \in OrderRow
    BY <1>4, MoveFrom DEF RefreshOrder, TypeOK
  <2>3. row.status = to /\ row.side = order[o].side
    BY <2>2 DEF Moved, OrderRow
  <2>4. /\ to \notin OpenStatuses \cup WorkingStatuses
        /\ to = "FILLED" => order[o].side = "sell"
    BY <1>4 DEF RefreshOrder, OpenStatuses, WorkingStatuses
  <2> HIDE DEF row
  <2>5. QED
    BY <2>1, <2>3, <2>4, MoneyOfRow
<1>5. QED
  BY <1>1, <1>2, <1>3, <1>4

\* The money conjuncts survive the submission of an order.
LEMMA MoneyOfSubmit ==
    ASSUME TypeOK, BrokerStory, Money, NEW o \in Orders, SubmitOrder(o)
    PROVE  Money'
<1>1. order[o].status \in {"VALIDATED", "PENDING_APPROVAL"}
  BY DEF SubmitOrder, MayMove, TransitionAllowed
<1>2. broker[o].status = "absent"
  BY <1>1 DEF BrokerStory
<1>3. /\ \A i \in DOMAIN activity : activity[i].order # o
      /\ Pending(o) = {} /\ PendingCost(o) = 0
  BY <1>2, AbsentHasNoFills
<1>4. order[o] \in OrderRow
  BY MoveFrom DEF SubmitOrder, TypeOK
<1>5. /\ order'[o].status = "SUBMITTED" /\ order'[o].side = order[o].side
      /\ order'[o].reserved = order[o].reserved /\ order'[o].cap = order[o].cap
      /\ broker'[o].leaves = order[o].qty
      /\ \A p \in Orders \ {o} : order'[p] = order[p] /\ broker'[p] = broker[p]
      /\ UNCHANGED <<activity, applied>>
  BY <1>4 DEF SubmitOrder, TypeOK, Moved, OrderRow, OpenStatuses
<1>6. /\ \A p \in Orders : Pending(p)' = Pending(p) /\ PendingCost(p)' = PendingCost(p)
      /\ \A i \in DOMAIN activity : Notional(i)' = Notional(i)
  BY <1>5 DEF Pending, PendingCost, Notional
<1>7. order[o].side = "buy" => order[o].reserved >= order[o].qty * order[o].cap
  BY <1>1 DEF Money, FullyReserved, OpenStatuses, WorkingStatuses
<1>8. order[o].qty * order[o].cap \in Nat
  BY <1>4, LedgerAssumption DEF OrderRow
<1>9. \A i \in DOMAIN activity : activity[i].order \in Orders
  BY ActivityType, LenProperties DEF TypeOK
<1>10. FullyReserved'
  BY <1>3, <1>5, <1>6, <1>9 DEF Money, FullyReserved, WorkingStatuses
<1>11. FillsAffordable'
  <2>1. ASSUME NEW p \in Orders, order'[p].side = "buy", order'[p].status \in WorkingStatuses
        PROVE  order'[p].reserved >= broker'[p].leaves * order'[p].cap + PendingCost(p)'
    <3>1. CASE p = o
      BY <1>3, <1>5, <1>6, <1>7, <1>8, <2>1, <3>1
    <3>2. CASE p # o
      BY <1>5, <1>6, <2>1, <3>2 DEF Money, FillsAffordable
    <3>3. QED
      BY <3>1, <3>2
  <2>2. QED
    BY <2>1 DEF FillsAffordable
<1>12. FilledMeansBooked'
  BY <1>5, <1>6 DEF Money, FilledMeansBooked
<1>13. QED
  BY <1>10, <1>11, <1>12 DEF Money

\* The money conjuncts survive a cancel, expiry or reject at the broker.
LEMMA MoneyOfClose ==
    ASSUME TypeOK, BrokerStory, Money, NEW o \in Orders, BrokerClose(o)
    PROVE  Money'
<1>1. /\ broker[o].status = "working" /\ broker'[o].leaves = 0
      /\ \A p \in Orders \ {o} : broker'[p] = broker[p]
      /\ UNCHANGED <<order, activity, applied>>
  BY DEF BrokerClose, TypeOK
<1>2. /\ \A p \in Orders : Pending(p)' = Pending(p) /\ PendingCost(p)' = PendingCost(p)
      /\ \A i \in DOMAIN activity : Notional(i)' = Notional(i)
  BY <1>1 DEF Pending, PendingCost, Notional
<1>3. order[o].status \in WorkingStatuses /\ order[o].status # "FILLED"
  BY <1>1 DEF BrokerStory, WorkingStatuses
<1>4. order[o] \in OrderRow
  BY <1>3 DEF TypeOK, NoOrder, WorkingStatuses
<1>5. /\ order[o].cap \in Nat /\ broker[o].leaves \in Nat /\ order[o].reserved \in Nat
      /\ PendingCost(o) \in Nat
  <2>1. order[o].cap \in Nat /\ order[o].reserved \in Nat
    BY <1>4, LedgerAssumption DEF OrderRow, Usd
  <2>2. broker[o].leaves \in Nat
    BY LedgerAssumption DEF TypeOK, BrokerOrder
  <2>3. QED
    BY <2>1, <2>2, PendingType
<1>6. broker[o].leaves * order[o].cap \in Nat /\ 0 * order[o].cap = 0
  BY <1>5
<1>7. FullyReserved'
  BY <1>1, <1>2 DEF Money, FullyReserved
<1>8. FillsAffordable'
  <2>1. ASSUME NEW p \in Orders, order[p].side = "buy", order[p].status \in WorkingStatuses
        PROVE  order[p].reserved >= broker'[p].leaves * order[p].cap + PendingCost(p)
    <3>1. order[p].reserved >= broker[p].leaves * order[p].cap + PendingCost(p)
      BY <2>1 DEF Money, FillsAffordable
    <3>2. CASE p = o
      BY <1>1, <1>5, <1>6, <3>1, <3>2
    <3>3. CASE p # o
      BY <1>1, <3>1, <3>3
    <3>4. QED
      BY <3>2, <3>3
  <2>2. QED
    BY <1>1, <1>2, <2>1 DEF FillsAffordable
<1>9. FilledMeansBooked'
  BY <1>1, <1>2, <1>3 DEF Money, FilledMeansBooked
<1>10. QED
  BY <1>7, <1>8, <1>9 DEF Money

\* The money conjuncts survive a fill: what leaves the open quantity becomes
\* pending cost, at a price inside the reservation's.
LEMMA MoneyOfBrokerFill ==
    ASSUME TypeOK, BrokerStory, Money, NEW o \in Orders,
           NEW q \in 1..MaxQty, NEW p \in Prices, BrokerFill(o, q, p)
    PROVE  Money'
<1>0. PICK n \in Nat : n = Len(activity)
  BY LenProperties DEF TypeOK
<1> DEFINE act == [order |-> o, qty |-> q, price |-> p, leaves |-> broker[o].leaves - q]
<1>1. /\ broker[o].status = "working" /\ broker'[o].leaves = broker[o].leaves - q
      /\ \A x \in Orders \ {o} : broker'[x] = broker[x]
      /\ UNCHANGED <<order, applied>>
      /\ activity' = Append(activity, act)
      /\ order[o].side = "buy" => p <= order[o].cap
  BY DEF BrokerFill, TypeOK
<1>2. /\ broker[o].leaves \in Nat /\ q \in Nat /\ q <= broker[o].leaves
      /\ p \in Nat /\ MaxUsd \in Nat
  <2>1. broker[o].leaves \in Nat
    BY LedgerAssumption DEF TypeOK, BrokerOrder
  <2>2. q \in 1..broker[o].leaves
    BY DEF BrokerFill
  <2>3. QED
    BY <2>1, <2>2, LedgerAssumption
<1>3. /\ n \in Nat /\ DOMAIN activity = 1..n /\ DOMAIN activity' = 1..(n + 1)
      /\ \A i \in 1..n : activity'[i] = activity[i]
      /\ activity'[n + 1].order = o
      /\ activity'[n + 1].qty = q /\ activity'[n + 1].price = p
  <2>1. activity \in Seq(Activity)
    BY DEF TypeOK
  <2>2. act.order = o /\ act.qty = q /\ act.price = p
    OBVIOUS
  <2> HIDE DEF act
  <2>3. QED
    BY <1>0, <1>1, <2>1, <2>2, LenProperties
<1>4. /\ applied \subseteq 1..n
      /\ \A i \in 1..n : activity[i].order \in Orders
  BY <1>0, <1>3, ActivityType DEF TypeOK
<1> HIDE DEF act
<1>5. /\ \A i \in 1..n : Notional(i)' = Notional(i)
      /\ Notional(n + 1)' = q * p
  BY <1>3 DEF Notional
<1>6. ASSUME NEW x \in Orders \ {o}
      PROVE  Pending(x)' = Pending(x) /\ PendingCost(x)' = PendingCost(x)
  <2>1. Pending(x)' = Pending(x) /\ Pending(x) \subseteq 1..n
    BY <1>1, <1>3, <1>4 DEF Pending
  <2>2. QED
    BY <1>5, <2>1 DEF PendingCost
<1>7. /\ Pending(o)' = Pending(o) \cup {n + 1} /\ Pending(o) \subseteq 1..n
      /\ n + 1 \notin Pending(o)
  BY <1>1, <1>3, <1>4 DEF Pending
<1>8. order[o].status \in WorkingStatuses
  BY <1>1 DEF BrokerStory
<1>9. order[o] \in OrderRow
  BY <1>8 DEF TypeOK, NoOrder, WorkingStatuses
<1>10. order[o].cap \in Nat /\ order[o].reserved \in Nat /\ order[o].reserved <= MaxUsd
  BY <1>9, LedgerAssumption DEF OrderRow, Usd
<1>11. PendingCost(o) \in Nat /\ IsFiniteSet(Pending(o))
  BY PendingType
<1>12. ASSUME order[o].side = "buy"
       PROVE  /\ q * p \in 0..MaxUsd
              /\ order[o].reserved >=
                    (broker[o].leaves - q) * order[o].cap + q * p + PendingCost(o)
  <2>1. order[o].reserved >= broker[o].leaves * order[o].cap + PendingCost(o)
    BY <1>8, <1>12 DEF Money, FillsAffordable
  <2>2. broker[o].leaves * order[o].cap >= (broker[o].leaves - q) * order[o].cap + q * p
    BY <1>1, <1>2, <1>10, <1>12, CostOfPart
  <2>3. /\ q * p \in Nat /\ broker[o].leaves * order[o].cap \in Nat
        /\ (broker[o].leaves - q) * order[o].cap \in Nat
    <3>1. broker[o].leaves - q \in Nat
      BY <1>2
    <3>2. \A a, b \in Nat : a * b \in Nat
      OBVIOUS
    <3>3. QED
      BY <1>2, <1>10, <3>1, <3>2
  <2> DEFINE A == q * p
             B == broker[o].leaves * order[o].cap
             C == (broker[o].leaves - q) * order[o].cap
  <2>4. /\ A \in Nat /\ B \in Nat /\ C \in Nat
        /\ order[o].reserved >= B + PendingCost(o) /\ B >= C + A
    BY <2>1, <2>2, <2>3
  <2> HIDE DEF A, B, C
  <2>5. A \in 0..MaxUsd /\ order[o].reserved >= C + A + PendingCost(o)
    BY <1>2, <1>10, <1>11, <2>4
  <2>6. QED
    BY <2>5 DEF A, C
<1>13. ASSUME order[o].side = "buy"
       PROVE  PendingCost(o)' = PendingCost(o) + q * p
  <2> DEFINE f == [j \in Pending(o)' |-> Notional(j)']
             S == Pending(o) \cup {n + 1}
  <2>1. \A j \in Pending(o) : Notional(j) \in 0..MaxUsd
    BY <1>13, <1>0, <1>3, <1>7, ActivityType, LedgerAssumption DEF Pending, Money, FullyReserved
  <2>2. \A j \in S : Notional(j)' \in 0..MaxUsd
    BY <1>5, <1>7, <1>12, <1>13, <2>1
  <2>3. f \in [S -> 0..MaxUsd] /\ f[n + 1] = q * p
    BY <1>5, <1>7, <2>2
  <2>4. [j \in S \ {n + 1} |-> f[j]] = [j \in Pending(o) |-> Notional(j)]
    BY <1>5, <1>7
  <2>5. PendingCost(o)' = Tally(f, MaxUsd)
    BY DEF PendingCost
  <2>6. IsFiniteSet(S) /\ n + 1 \in S
    BY <1>11, FS_AddElement
  <2>7. Tally(f, MaxUsd) \in Nat
    <3>1. DOMAIN f = S
      BY <2>3
    <3> HIDE DEF f, S
    <3>2. QED
      BY <1>2, <2>6, <3>1, TallyType, Zenon
  <2> HIDE DEF f, S
  <2>8. Tally([j \in S \ {n + 1} |-> f[j]], MaxUsd) = Tally(f, MaxUsd) - f[n + 1]
    BY <1>2, <2>3, <2>6, TallyWithout
  <2>9. PendingCost(o) = Tally(f, MaxUsd) - q * p
    BY <2>3, <2>4, <2>8 DEF PendingCost
  <2>10. q * p \in Nat
    BY <1>12, <1>13, <1>2
  <2> DEFINE a == q * p
             t == Tally(f, MaxUsd)
  <2> HIDE DEF a, t
  <2>11. PendingCost(o) = t - a /\ t \in Nat /\ a \in Nat /\ PendingCost(o)' = t
    BY <2>5, <2>7, <2>9, <2>10 DEF a, t
  <2>12. PendingCost(o)' = PendingCost(o) + a
    BY <2>11
  <2>13. QED
    BY <2>12 DEF a
<1>14. FullyReserved'
  <2>1. ASSUME NEW i \in DOMAIN activity', order[activity'[i].order].side = "buy"
        PROVE  Notional(i)' <= MaxUsd
    <3>1. CASE i \in 1..n
      BY <1>3, <1>5, <2>1, <3>1 DEF Money, FullyReserved
    <3>2. CASE i = n + 1
      BY <1>3, <1>5, <1>12, <2>1, <3>2
    <3>3. QED
      BY <1>3, <3>1, <3>2
  <2>2. QED
    BY <1>1, <2>1 DEF Money, FullyReserved
<1>15. FillsAffordable'
  <2>1. ASSUME NEW x \in Orders, order[x].side = "buy", order[x].status \in WorkingStatuses
        PROVE  order[x].reserved >= broker'[x].leaves * order[x].cap + PendingCost(x)'
    <3>1. CASE x # o
      BY <1>1, <1>6, <2>1, <3>1 DEF Money, FillsAffordable
    <3>2. CASE x = o
      <4> DEFINE C == (broker[o].leaves - q) * order[o].cap
                 A == q * p
      <4>1. /\ order[o].reserved >= C + A + PendingCost(o)
            /\ PendingCost(o)' = PendingCost(o) + A
            /\ A \in 0..MaxUsd
        BY <1>12, <1>13, <2>1, <3>2
      <4>2. C \in Int
        BY <1>2, <1>10
      <4>3. broker'[o].leaves * order[o].cap = C
        BY <1>1
      <4> HIDE DEF C, A
      <4>4. order[o].reserved >= C + PendingCost(o)'
        BY <1>2, <1>10, <1>11, <4>1, <4>2
      <4>5. QED
        BY <3>2, <4>3, <4>4
    <3>3. QED
      BY <3>1, <3>2
  <2>2. QED
    BY <1>1, <2>1 DEF FillsAffordable
<1>16. FilledMeansBooked'
  <2>1. order[o].status # "FILLED"
    BY <1>8 DEF WorkingStatuses
  <2>2. QED
    BY <1>1, <1>6, <2>1 DEF Money, FilledMeansBooked
<1>17. QED
  BY <1>14, <1>15, <1>16 DEF Money

\* What booking a fill of a BUY does to its row, its reservation and its
\* pending fills: the last fill releases what is left, any other keeps it.
LEMMA ReplayBuy ==
    ASSUME LedgerInv, NEW i \in 1..Len(activity), ReplayFill(i),
           NEW o, o = activity[i].order, order[o].side = "buy"
    PROVE  /\ o \in Orders /\ order[o] \in OrderRow
           /\ order[o].status \in WorkingStatuses
           /\ order'[o].side = "buy" /\ order'[o].cap = order[o].cap
           /\ \/ /\ order'[o].status = "FILLED" /\ order'[o].reserved = 0
                 /\ broker[o].status = "filled" /\ Pending(o)' = {}
              \/ /\ order'[o].status \in WorkingStatuses
                 /\ order'[o].reserved = order[o].reserved - Notional(i)
           /\ order[o].reserved \in Nat /\ Notional(i) \in Nat
           /\ Notional(i) <= order[o].reserved
           /\ PendingCost(o)' = PendingCost(o) - Notional(i)
<1> USE DEF LedgerInv
<1>1. /\ i \in DOMAIN activity /\ o \in Orders /\ Notional(i) \in Nat
      /\ order[o].status \in FillStatuses /\ i \notin applied
      /\ order' = [order EXCEPT ![o] =
            AfterFill(Consume(@, Notional(i)), activity[i].leaves)]
      /\ applied' = applied \cup {i} /\ UNCHANGED <<broker, activity>>
      /\ \A j \in 1..(i - 1) : activity[j].order = o => j \in applied
  BY ActivityType DEF ReplayFill, Notional
<1>2. order[o] \in OrderRow
  BY <1>1 DEF TypeOK, NoOrder, FillStatuses
<1>3. /\ order[o].status \in WorkingStatuses /\ order[o].reserved \in Nat
      /\ order[o].reserved >= broker[o].leaves * order[o].cap + PendingCost(o)
      /\ Notional(i) <= PendingCost(o)
  BY <1>1, PendingIsPaid
<1>4. Notional(i) <= order[o].reserved
  <2>1. broker[o].leaves \in Nat /\ order[o].cap \in Nat
    BY <1>1, <1>2, LedgerAssumption DEF TypeOK, BrokerOrder, OrderRow
  <2>2. broker[o].leaves * order[o].cap \in Nat
    BY <2>1
  <2>3. PendingCost(o) \in Nat
    BY PendingType
  <2>4. QED
    BY <1>1, <1>3, <2>2, <2>3
<1> DEFINE c == Consume(order[o], Notional(i))
<1>5. /\ c.status = order[o].status /\ c.side = "buy" /\ c.cap = order[o].cap
      /\ c.reserved = order[o].reserved - Notional(i)
      /\ c \in OrderRow
  <2>1. c \in OrderRow
    BY <1>1, <1>2, ConsumeType
  <2>2. QED
    BY <1>1, <1>2, <1>3, <1>4, <2>1 DEF Consume, OrderRow
<1> HIDE DEF c
<1>6. order'[o] = AfterFill(c, activity[i].leaves)
  BY <1>1 DEF TypeOK, c
<1>7. Pending(o)' = Pending(o) \ {i} /\ i \in Pending(o)
  BY <1>1 DEF Pending
<1>8. ASSUME activity[i].leaves = 0
      PROVE  /\ order'[o].status = "FILLED" /\ order'[o].reserved = 0
             /\ order'[o].side = "buy" /\ order'[o].cap = order[o].cap
             /\ broker[o].status = "filled" /\ Pending(o)' = {}
  <2>1. order'[o] = Moved(c, "FILLED")
    BY <1>3, <1>5, <1>6, <1>8 DEF AfterFill, WorkingStatuses
  <2>2. /\ order'[o].status = "FILLED" /\ order'[o].reserved = 0
        /\ order'[o].side = "buy" /\ order'[o].cap = order[o].cap
    BY <1>5, <2>1 DEF Moved, OrderRow, OpenStatuses
  <2>3. /\ broker[o].status = "filled"
        /\ \A j \in DOMAIN activity : j > i => activity[j].order # o
    BY <1>1, <1>8 DEF BrokerStory
  <2>4. Pending(o)' = {}
    <3>1. DOMAIN activity = 1..Len(activity) /\ Len(activity) \in Nat
      BY LenProperties DEF TypeOK
    <3>2. QED
      BY <1>1, <1>7, <2>3, <3>1 DEF Pending
  <2>5. QED
    BY <2>2, <2>3, <2>4
<1>9. ASSUME activity[i].leaves # 0
      PROVE  /\ order'[o].status \in WorkingStatuses
             /\ order'[o].reserved = order[o].reserved - Notional(i)
             /\ order'[o].side = "buy" /\ order'[o].cap = order[o].cap
  <2>1. order'[o] = c \/ order'[o] = Moved(c, "PARTIALLY_FILLED")
    BY <1>6, <1>9 DEF AfterFill
  <2>2. /\ order'[o].status \in WorkingStatuses
        /\ order'[o].reserved = order[o].reserved - Notional(i)
        /\ order'[o].side = "buy" /\ order'[o].cap = order[o].cap
    BY <1>3, <1>5, <2>1 DEF Moved, OrderRow, OpenStatuses, WorkingStatuses
  <2>3. QED
    BY <2>2
<1>10. PendingCost(o)' = PendingCost(o) - Notional(i)
  <2>1. \A j \in DOMAIN activity : Notional(j)' = Notional(j)
    BY <1>1 DEF Notional
  <2>2. Pending(o) \subseteq DOMAIN activity
    BY DEF Pending
  <2>3. PendingCost(o)' = Tally([j \in Pending(o) \ {i} |-> Notional(j)], MaxUsd)
    BY <1>7, <2>1, <2>2 DEF PendingCost
  <2>4. QED
    BY <1>1, <1>7, <2>3, PendingSplit
<1>11. QED
  BY <1>1, <1>2, <1>3, <1>4, <1>8, <1>9, <1>10

\* Booking a fill of a SELL leaves the order a SELL.
LEMMA ReplaySell ==
    ASSUME LedgerInv, NEW i \in 1..Len(activity), ReplayFill(i),
           NEW o, o = activity[i].order, order[o].side # "buy"
    PROVE  o \in Orders /\ order'[o].side = order[o].side /\ order[o].side = "sell"
<1> USE DEF LedgerInv
<1>1. /\ o \in Orders /\ Notional(i) \in Nat
      /\ order[o].status \in FillStatuses
      /\ order' = [order EXCEPT ![o] =
            AfterFill(Consume(@, Notional(i)), activity[i].leaves)]
  BY ActivityType DEF ReplayFill, Notional
<1>2. order[o] \in OrderRow
  BY <1>1 DEF TypeOK, NoOrder, FillStatuses
<1>3. order'[o] = AfterFill(order[o], activity[i].leaves)
  BY <1>1, <1>2 DEF TypeOK, Consume
<1>4. AfterFill(order[o], activity[i].leaves).side = order[o].side
  BY <1>2 DEF AfterFill, Moved, OrderRow
<1>5. QED
  BY <1>1, <1>2, <1>3, <1>4 DEF OrderRow

\* The money conjuncts survive the booking of a fill.
LEMMA MoneyOfReplay ==
    ASSUME LedgerInv, NEW i \in 1..Len(activity), ReplayFill(i)
    PROVE  Money'
<1> USE DEF LedgerInv
<1>1. PICK o : o = activity[i].order
  OBVIOUS
<1>2. /\ o \in Orders /\ i \in DOMAIN activity
      /\ \A x \in Orders \ {o} : order'[x] = order[x]
      /\ applied' = applied \cup {i} /\ UNCHANGED <<broker, activity>>
  BY <1>1, ActivityType DEF ReplayFill, TypeOK
<1>3. /\ \A x \in Orders \ {o} :
            Pending(x)' = Pending(x) /\ PendingCost(x)' = PendingCost(x)
      /\ \A j \in DOMAIN activity : Notional(j)' = Notional(j)
  <2>1. \A j \in DOMAIN activity : Notional(j)' = Notional(j)
    BY <1>2 DEF Notional
  <2>2. \A x \in Orders \ {o} : Pending(x)' = Pending(x)
    BY <1>1, <1>2 DEF Pending
  <2>3. \A x \in Orders \ {o} : PendingCost(x)' = PendingCost(x)
    BY <2>1, <2>2 DEF PendingCost, Pending
  <2>4. QED
    BY <2>1, <2>2, <2>3
<1>4. order'[o].side = order[o].side
  BY <1>1, ReplayBuy, ReplaySell
<1>5. \A j \in DOMAIN activity : activity[j].order \in Orders
  BY ActivityType, LenProperties DEF TypeOK
<1>6. ASSUME order[o].side = "buy"
      PROVE  /\ order'[o].cap = order[o].cap
             /\ \/ /\ order'[o].status = "FILLED"
                   /\ broker[o].status = "filled" /\ Pending(o)' = {}
                \/ /\ order'[o].status \in WorkingStatuses
                   /\ order'[o].reserved >=
                        broker[o].leaves * order[o].cap + PendingCost(o)'
  <2>1. /\ order'[o].cap = order[o].cap
        /\ \/ /\ order'[o].status = "FILLED"
              /\ broker[o].status = "filled" /\ Pending(o)' = {}
           \/ /\ order'[o].status \in WorkingStatuses
              /\ order'[o].reserved = order[o].reserved - Notional(i)
        /\ order[o].status \in WorkingStatuses /\ order[o] \in OrderRow
        /\ order[o].reserved \in Nat /\ Notional(i) \in Nat
        /\ PendingCost(o)' = PendingCost(o) - Notional(i)
    BY <1>1, <1>6, ReplayBuy
  <2>2. order[o].reserved >= broker[o].leaves * order[o].cap + PendingCost(o)
    BY <1>2, <1>6, <2>1 DEF FillsAffordable
  <2> DEFINE B == broker[o].leaves * order[o].cap
  <2>3. B \in Nat
    <3>1. order[o].cap \in Nat
      BY <2>1 DEF OrderRow
    <3>2. broker[o].leaves \in Nat
      BY <1>2, LedgerAssumption DEF TypeOK, BrokerOrder
    <3>3. QED
      BY <3>1, <3>2
  <2>4. PendingCost(o) \in Nat
    BY PendingType
  <2>5. order[o].reserved >= B + PendingCost(o)
    BY <2>2
  <2> HIDE DEF B
  <2>6. order[o].reserved - Notional(i) >= B + PendingCost(o)'
    BY <2>1, <2>3, <2>4, <2>5
  <2>7. QED
    BY <2>1, <2>6 DEF B
<1>7. FullyReserved'
  <2>1. \A j \in DOMAIN activity' :
          order'[activity'[j].order].side = "buy" => Notional(j)' <= MaxUsd
    BY <1>2, <1>3, <1>4, <1>5 DEF FullyReserved
  <2>2. ASSUME NEW x \in Orders, order'[x].side = "buy",
               order'[x].status \in OpenStatuses \ WorkingStatuses
        PROVE  order'[x].reserved >= order'[x].qty * order'[x].cap
    <3>1. x # o
      BY <1>4, <1>6, <2>2 DEF OpenStatuses
    <3>2. QED
      BY <1>2, <2>2, <3>1 DEF FullyReserved
  <2>3. QED
    BY <2>1, <2>2 DEF FullyReserved
<1>8. FillsAffordable'
  <2>1. ASSUME NEW x \in Orders, order'[x].side = "buy", order'[x].status \in WorkingStatuses
        PROVE  order'[x].reserved >= broker'[x].leaves * order'[x].cap + PendingCost(x)'
    <3>1. CASE x = o
      BY <1>2, <1>4, <1>6, <2>1, <3>1 DEF WorkingStatuses
    <3>2. CASE x # o
      BY <1>2, <1>3, <2>1, <3>2 DEF FillsAffordable
    <3>3. QED
      BY <3>1, <3>2
  <2>2. QED
    BY <2>1 DEF FillsAffordable
<1>9. FilledMeansBooked'
  <2>1. ASSUME NEW x \in Orders, order'[x].side = "buy", order'[x].status = "FILLED"
        PROVE  broker'[x].status = "filled" /\ Pending(x)' = {}
    <3>1. CASE x = o
      BY <1>2, <1>4, <1>6, <2>1, <3>1 DEF WorkingStatuses
    <3>2. CASE x # o
      BY <1>2, <1>3, <2>1, <3>2 DEF FilledMeansBooked
    <3>3. QED
      BY <3>1, <3>2
  <2>2. QED
    BY <2>1 DEF FilledMeansBooked
<1>10. QED
  BY <1>7, <1>8, <1>9 DEF Money

\* LedgerInv is inductive.
LEMMA LedgerInvStep == LedgerInv /\ [Next]_vars => LedgerInv'
<1>1. SUFFICES ASSUME LedgerInv, [Next]_vars PROVE LedgerInv'
  OBVIOUS
<1>2. TypeOK /\ BrokerStory /\ Money
  BY <1>1 DEF LedgerInv, Money
<1>3. TypeOK'
  BY <1>1, <1>2, OrderTypeStep, CashTypeStep, PositionTypeStep, BrokerTypeStep DEF TypeOK
<1>4. BrokerStory'
  BY <1>1, <1>2, StoryStep DEF Money
<1>5. Money'
  <2>1. CASE UNCHANGED <<order, broker, activity, applied>>
    BY <1>2, <2>1 DEF Money, FullyReserved, FillsAffordable, FilledMeansBooked,
                      Pending, PendingCost, Notional
  <2>2. QED
    BY <1>1, <1>2, <2>1, MoneyOfOwnRows, MoneyOfSubmit, MoneyOfClose,
       MoneyOfBrokerFill, MoneyOfReplay
       DEF Next, vars, EnsureInitialEquity, ApplySplit
<1>6. QED
  BY <1>3, <1>4, <1>5 DEF LedgerInv, Money

\* LedgerInv holds of the empty database.
LEMMA LedgerInvInit == Init => LedgerInv
<1>1. SUFFICES ASSUME Init PROVE LedgerInv
  OBVIOUS
<1>2. TypeOK
  BY <1>1, LedgerTypeInit
<1>3. BrokerStory /\ FullyReserved
  BY <1>1 DEF Init, BrokerStory, FullyReserved, NoOrder, WorkingStatuses
<1>4. FillsAffordable /\ FilledMeansBooked
  BY <1>1 DEF Init, FillsAffordable, FilledMeansBooked, NoOrder
<1>5. QED
  BY <1>2, <1>3, <1>4 DEF LedgerInv

\* The reservation of every BUY at the broker covers what its fills, booked or
\* not, can still cost (fills_consume_reservation against orders_release_...).
THEOREM LedgerFillsAffordable == Spec => []FillsAffordable
<1>1. LedgerInv => FillsAffordable
  BY DEF LedgerInv
<1>2. QED
  BY <1>1, LedgerInvInit, LedgerInvStep, PTL DEF Spec

\* A BUY is FILLED only when every one of its fills has been booked.
THEOREM LedgerFilledMeansBooked == Spec => []FilledMeansBooked
<1>1. LedgerInv => FilledMeansBooked
  BY DEF LedgerInv
<1>2. QED
  BY <1>1, LedgerInvInit, LedgerInvStep, PTL DEF Spec

-----------------------------------------------------------------------------
(* The refinement: every transaction is a step of Capital or changes       *)
(* neither the balance nor a reservation.                                  *)

CapStep == [Cap!Next]_<<Balance, Holds>>

\* One row of the order table changes one hold.
LEMMA HoldsOfRow ==
    ASSUME TypeOK, NEW o \in Orders, NEW row, order' = [order EXCEPT ![o] = row]
    PROVE  /\ Holds[o] = HoldOf(order[o])
           /\ Holds' = [Holds EXCEPT ![o] = HoldOf(row)]
           /\ HoldOf(row) = HoldOf(order[o]) => Holds' = Holds
<1>1. /\ order'[o] = row /\ \A p \in Orders \ {o} : order'[p] = order[p]
  BY DEF TypeOK
<1>2. Holds' = [p \in Orders |-> HoldOf(order'[p])]
  BY DEF Holds, HoldOf
<1>3. Holds = [p \in Orders |-> HoldOf(order[p])]
  BY DEF Holds
<1>4. \A p \in Orders : Holds'[p] = (IF p = o THEN HoldOf(row) ELSE Holds[p])
  BY <1>1, <1>2, <1>3
<1>5. Holds[o] = HoldOf(order[o])
  BY <1>3
<1>6. Holds' = [Holds EXCEPT ![o] = HoldOf(row)]
  BY <1>2, <1>3, <1>4
<1>7. HoldOf(row) = HoldOf(order[o]) => Holds' = Holds
  BY <1>2, <1>3, <1>4, <1>5
<1>8. QED
  BY <1>5, <1>6, <1>7

\* An order that changes status keeps its hold or gives all of it back.
LEMMA CapMoved ==
    ASSUME TypeOK, NEW o \in Orders, NEW to, MayMove(order[o].status, to),
           order' = [order EXCEPT ![o] = Moved(@, to)], UNCHANGED cash
    PROVE  CapStep
<1> DEFINE row == Moved(order[o], to)
<1>1. order[o] \in OrderRow
  BY MoveFrom DEF TypeOK
<1>2. order[o].status \in OpenStatuses
  BY DEF MayMove, TransitionAllowed, OpenStatuses
<1>3. HoldOf(row) = HoldOf(order[o]) \/ HoldOf(row) = 0
  BY <1>1, <1>2 DEF HoldOf, Moved, OrderRow
<1>4. /\ order' = [order EXCEPT ![o] = row]
      /\ Balance' = Balance
  BY DEF Balance
<1> HIDE DEF row
<1>5. Holds' = Holds \/ Holds' = [Holds EXCEPT ![o] = 0]
  <2>1. /\ Holds' = [Holds EXCEPT ![o] = HoldOf(row)]
        /\ HoldOf(row) = HoldOf(order[o]) => Holds' = Holds
    BY <1>4, HoldsOfRow
  <2>2. QED
    BY <1>3, <2>1
<1>6. CASE Holds' = Holds
  BY <1>4, <1>6 DEF CapStep
<1>7. CASE Holds' = [Holds EXCEPT ![o] = 0]
  <2>1. Cap!Release(o)
    BY <1>4, <1>7 DEF Cap!Release, Holds
  <2>2. QED
    BY <2>1 DEF CapStep, Cap!Next
<1>8. QED
  BY <1>5, <1>6, <1>7

\* A new BUY reserves what nobody holds; a new SELL holds nothing.
LEMMA CapRecord ==
    ASSUME TypeOK, NEW o \in Orders, NEW s \in Symbols, NEW q \in 1..MaxQty
    PROVE  /\ \A p \in Prices, b \in Buffers :
                 RecordBuy(o, s, q, p, q * p + b) => CapStep
           /\ RecordSell(o, s, q) => CapStep
<1>1. ASSUME NEW p \in Prices, NEW b \in Buffers, RecordBuy(o, s, q, p, q * p + b)
      PROVE  CapStep
  <2> DEFINE r == q * p + b
             row == [status |-> "PROPOSED", side |-> "buy", symbol |-> s,
                     qty |-> q, cap |-> p, reserved |-> r]
  <2>1. /\ order' = [order EXCEPT ![o] = row] /\ order[o] = NoOrder
        /\ r <= Available /\ r > 0 /\ Balance' = Balance
    BY <1>1 DEF RecordBuy, Balance
  <2>2. r \in Nat
    <3>1. p \in Nat /\ q \in Nat /\ b \in Nat
      BY LedgerAssumption
    <3>2. QED
      BY <3>1
  <2>3. HoldOf(row) = r /\ HoldOf(order[o]) = 0
    BY <2>1 DEF HoldOf, OpenStatuses, NoOrder
  <2> HIDE DEF row, r
  <2>4. Holds[o] = 0 /\ Holds' = [Holds EXCEPT ![o] = r]
    BY <2>1, <2>3, HoldsOfRow
  <2>5. Available = Balance - Cap!Total(Holds) /\ Cap!Total(Holds) \in Nat
        /\ Balance \in 0..MaxUsd /\ MaxUsd \in Nat
    BY HoldsType, BalanceType, LedgerAssumption DEF Available, Holds, TypeOK, Usd
  <2>6. Cap!Total(Holds) + r <= Balance /\ r \in 0..MaxUsd
    BY <2>1, <2>2, <2>5
  <2>7. Cap!Reserve(o, r)
    BY <2>1, <2>4, <2>6 DEF Cap!Reserve, Holds
  <2>8. QED
    BY <2>6, <2>7 DEF CapStep, Cap!Next, Cap!Usd
<1>2. ASSUME RecordSell(o, s, q) PROVE CapStep
  <2> DEFINE row == [status |-> "PROPOSED", side |-> "sell", symbol |-> s,
                     qty |-> q, cap |-> 0, reserved |-> 0]
  <2>1. /\ order' = [order EXCEPT ![o] = row] /\ order[o] = NoOrder
        /\ Balance' = Balance
    BY <1>2 DEF RecordSell, Balance
  <2>2. HoldOf(row) = 0 /\ HoldOf(order[o]) = 0
    BY <2>1 DEF HoldOf, NoOrder
  <2> HIDE DEF row
  <2>3. Holds' = Holds
    BY <2>1, <2>2, HoldsOfRow
  <2>4. QED
    BY <2>1, <2>3 DEF CapStep
<1>3. QED
  BY <1>1, <1>2

\* A booked BUY fill spends out of its own hold; a SELL brings cash in.
LEMMA CapReplay ==
    ASSUME LedgerInv, NEW i \in 1..Len(activity), ReplayFill(i)
    PROVE  CapStep
<1> USE DEF LedgerInv
<1>1. PICK o : o = activity[i].order
  OBVIOUS
<1>2. /\ o \in Orders
      /\ \A x \in Orders \ {o} : order'[x] = order[x]
      /\ Balance + FillAmount(order[o], activity[i]) \in 0..MaxUsd
  BY <1>1, ActivityType DEF ReplayFill, TypeOK, Usd
<1>3. Balance' = Balance + FillAmount(order[o], activity[i])
  <2>1. PICK row \in CashRow :
              /\ cash' = Append(cash, row)
              /\ row.balance = Balance + FillAmount(order[o], activity[i])
    BY <1>1, ReplayRow
  <2>2. QED
    BY <2>1, BalanceAppend DEF TypeOK
<1>4. Balance \in 0..MaxUsd /\ MaxUsd \in Nat
  BY BalanceType, LedgerAssumption DEF TypeOK, Usd
<1>5. order' = [order EXCEPT ![o] = order'[o]]
  BY <1>1 DEF ReplayFill, TypeOK
<1>6. /\ Holds[o] = HoldOf(order[o])
      /\ Holds' = [Holds EXCEPT ![o] = HoldOf(order'[o])]
      /\ HoldOf(order'[o]) = HoldOf(order[o]) => Holds' = Holds
  BY <1>2, <1>5, HoldsOfRow
<1>7. CASE order[o].side = "buy"
  <2>1. FillAmount(order[o], activity[i]) = -Notional(i)
    BY <1>7, FillAmountType
  <2>2. /\ order[o].status \in WorkingStatuses
        /\ order'[o].side = "buy"
        /\ \/ order'[o].status = "FILLED"
           \/ /\ order'[o].status \in WorkingStatuses
              /\ order'[o].reserved = order[o].reserved - Notional(i)
        /\ order[o].reserved \in Nat /\ Notional(i) \in Nat
        /\ Notional(i) <= order[o].reserved
        /\ order[o] \in OrderRow
    BY <1>1, <1>7, ReplayBuy
  <2>3. Holds[o] = order[o].reserved
    BY <1>6, <1>7, <2>2 DEF HoldOf, WorkingStatuses, OpenStatuses
  <2>4. PICK left \in Nat : left = HoldOf(order'[o])
                            /\ Notional(i) + left <= order[o].reserved
    <3>1. \/ HoldOf(order'[o]) = 0
          \/ HoldOf(order'[o]) = order[o].reserved - Notional(i)
      BY <2>2 DEF HoldOf, OpenStatuses, WorkingStatuses
    <3>2. QED
      BY <2>2, <3>1
  <2>5. order[o].reserved <= MaxUsd
    BY <2>2, LedgerAssumption DEF OrderRow, Usd
  <2>6. /\ Notional(i) \in 0..MaxUsd /\ left \in 0..MaxUsd
        /\ Notional(i) <= Balance /\ Balance' = Balance - Notional(i)
    <3>1. Notional(i) \in 0..MaxUsd /\ left \in 0..MaxUsd
      BY ONLY <1>4, <2>2, <2>4, <2>5
    <3>2. Balance' = Balance - Notional(i) /\ Balance - Notional(i) \in 0..MaxUsd
      BY ONLY <1>2, <1>3, <1>4, <2>1, <3>1
    <3>3. QED
      BY ONLY <1>4, <3>1, <3>2
  <2>7. Holds' = [Holds EXCEPT ![o] = left] /\ Notional(i) + left <= Holds[o]
    BY <1>6, <2>3, <2>4
  <2>8. Cap!Spend(o, Notional(i), left)
    BY <2>6, <2>7 DEF Cap!Spend, Holds
  <2>9. QED
    BY <1>2, <2>6, <2>8 DEF CapStep, Cap!Next, Cap!Usd
<1>8. CASE order[o].side # "buy"
  <2>1. order'[o].side = order[o].side
    BY <1>1, <1>8, ReplaySell
  <2>2. Holds' = Holds
    BY <1>6, <1>8, <2>1 DEF HoldOf
  <2>3. PICK n \in Nat : n = FillAmount(order[o], activity[i])
    BY <1>8, FillAmountType
  <2>4. n \in 0..MaxUsd /\ Balance + n <= MaxUsd /\ Balance' = Balance + n
    BY <1>2, <1>3, <1>4, <2>3
  <2>5. Cap!Receive(n)
    BY <2>2, <2>4 DEF Cap!Receive, Holds
  <2>6. QED
    BY <2>4, <2>5 DEF CapStep, Cap!Next, Cap!Usd
<1>9. QED
  BY <1>7, <1>8

\* The opening equity is cash received.
LEMMA CapEquity ==
    ASSUME TypeOK, EnsureInitialEquity
    PROVE  CapStep
<1>1. Balance = 0 /\ Holds' = Holds
  BY DEF EnsureInitialEquity, Balance, Holds
<1> DEFINE row == [kind |-> "initial_equity", amount |-> Equity, balance |-> Equity]
<1>2. cash' = <<row>> /\ row.balance = Equity
  BY DEF EnsureInitialEquity
<1> HIDE DEF row
<1>3. Balance' = Equity
  BY <1>2 DEF Balance
<1>4. Equity \in 0..MaxUsd /\ 0 + Equity = Equity /\ Equity <= MaxUsd
  BY LedgerAssumption
<1>5. Cap!Receive(Equity)
  BY <1>1, <1>3, <1>4 DEF Cap!Receive, Holds
<1>6. QED
  BY <1>4, <1>5 DEF CapStep, Cap!Next, Cap!Usd

\* Every step of the ledger is a step or a stutter of Capital.
LEMMA LedgerStepIsCapStep == LedgerInv /\ [Next]_vars => CapStep
<1>1. SUFFICES ASSUME LedgerInv, [Next]_vars PROVE CapStep
  OBVIOUS
<1>2. TypeOK
  BY <1>1 DEF LedgerInv
<1>3. CASE UNCHANGED <<order, cash>>
  <2>1. Balance' = Balance /\ Holds' = Holds
    BY <1>3 DEF Balance, Holds
  <2>2. QED
    BY <2>1 DEF CapStep
<1>4. ASSUME NEW o \in Orders, NEW to, DecideOrder(o, to) \/ RefreshOrder(o, to)
      PROVE  CapStep
  BY <1>2, <1>4, CapMoved DEF DecideOrder, RefreshOrder
<1>5. ASSUME NEW o \in Orders, SubmitOrder(o) PROVE CapStep
  BY <1>2, <1>5, CapMoved DEF SubmitOrder
<1>6. QED
  BY <1>1, <1>2, <1>3, <1>4, <1>5, CapRecord, CapReplay, CapEquity
     DEF Next, vars, BrokerFill, BrokerClose, ApplySplit

\* The ledger implements the reservation machine of ADR-0021.
THEOREM LedgerImplementsCapital == Spec => CapitalSpec
<1>1. Init => Cap!Init
  <2>1. SUFFICES ASSUME Init PROVE Cap!Init
    OBVIOUS
  <2>2. \A o \in Orders : HoldOf(order[o]) = 0
    BY <2>1 DEF Init, NoOrder, HoldOf
  <2>3. Balance = 0
    BY <2>1 DEF Init, Balance
  <2>4. QED
    BY <2>2, <2>3 DEF Cap!Init
<1>2. CapStep => [Cap!Next]_<<Balance, [o \in Orders |-> HoldOf(order[o])]>>
  BY DEF CapStep, Holds
<1>3. QED
  BY <1>1, <1>2, LedgerInvInit, LedgerInvStep, LedgerStepIsCapStep, PTL
     DEF Spec, CapitalSpec, Cap!Spec

\* ADR-0021: no step of Capital lets the holds exceed the cash.
LEMMA CapStepSolvent ==
    ASSUME TypeOK, TypeOK', Solvent, CapStep
    PROVE  Solvent'
<1> DEFINE h == Holds
           b == Balance
<1>1. IsFiniteSet(Orders) /\ MaxUsd \in Nat
  BY LedgerAssumption
<1>2. h \in [Orders -> 0..MaxUsd] /\ b \in Nat /\ h' \in [Orders -> 0..MaxUsd] /\ b' \in Nat
  <2>1. h \in [Orders -> 0..MaxUsd] /\ b \in Nat
    BY <1>1, HoldsType, BalanceType DEF TypeOK, Usd
  <2>2. \A row \in OrderRow \cup {NoOrder} : HoldOf(row) \in 0..MaxUsd
    BY <1>1 DEF HoldOf, OrderRow, NoOrder, Usd
  <2>3. h' \in [Orders -> 0..MaxUsd]
    BY <2>2 DEF TypeOK, Holds
  <2>4. cash' # <<>> => cash'[Len(cash')] \in CashRow
    BY EmptySeq, ElementOfSeq DEF TypeOK
  <2>5. b' \in Nat
    BY <1>1, <2>4 DEF Balance, CashRow, Usd
  <2> QED BY <2>1, <2>3, <2>5
<1>3. Tally(h, MaxUsd) \in Nat /\ Tally(h', MaxUsd) \in Nat
  BY <1>1, <1>2, TallyType, Zenon
<1>4. Available = b - Tally(h, MaxUsd) /\ Available' = b' - Tally(h', MaxUsd)
  <2>1. Available = b - Cap!Total(h) /\ Available' = b' - Cap!Total(h')
    BY DEF Available, Holds
  <2>2. Cap!Total(h) = Tally(h, MaxUsd) /\ Cap!Total(h') = Tally(h', MaxUsd)
    BY TotalIsTally
  <2> QED BY <2>1, <2>2
<1>5. SUFFICES Tally(h', MaxUsd) <= b'
  BY <1>2, <1>3, <1>4 DEF Solvent
<1>6. Tally(h, MaxUsd) <= b
  BY <1>2, <1>3, <1>4 DEF Solvent
<1>7. ASSUME NEW o \in Orders, NEW v \in 0..MaxUsd, h' = [h EXCEPT ![o] = v]
      PROVE  Tally(h', MaxUsd) = Tally(h, MaxUsd) - h[o] + v /\ h[o] \in Nat
  <2>1. h'[o] = v /\ \A y \in Orders \ {o} : h'[y] = h[y]
    BY <1>2, <1>7
  <2> HIDE DEF h
  <2>2. Tally(h', MaxUsd) = Tally(h, MaxUsd) - h[o] + h'[o]
    BY <1>1, <1>2, <2>1, TallyChange
  <2> QED BY <1>2, <2>1, <2>2
<1> HIDE DEF h, b
<1>8. ASSUME NEW n \in 0..MaxUsd, Cap!Receive(n) PROVE Tally(h', MaxUsd) <= b'
  <2>1. b' = b + n /\ h' = h
    BY <1>8 DEF Cap!Receive, h, b, Holds
  <2> QED BY <2>1, <1>2, <1>3, <1>6
<1>9. ASSUME NEW o \in Orders, NEW r \in 0..MaxUsd, Cap!Reserve(o, r)
      PROVE  Tally(h', MaxUsd) <= b'
  <2>1. b' = b /\ h' = [h EXCEPT ![o] = r] /\ h[o] = 0 /\ Cap!Total(h) + r <= b
    BY <1>9 DEF Cap!Reserve, h, b, Holds
  <2>2. Cap!Total(h) = Tally(h, MaxUsd)
    BY TotalIsTally
  <2>3. Tally(h', MaxUsd) = Tally(h, MaxUsd) - h[o] + r
    BY <2>1, <1>7
  <2> QED BY <2>1, <2>2, <2>3, <1>2, <1>3
<1>10. ASSUME NEW o \in Orders, NEW n \in 0..MaxUsd, NEW left \in 0..MaxUsd, Cap!Spend(o, n, left)
       PROVE  Tally(h', MaxUsd) <= b'
  <2>1. b' = b - n /\ h' = [h EXCEPT ![o] = left] /\ n + left <= h[o]
    BY <1>10 DEF Cap!Spend, h, b, Holds
  <2>2. Tally(h', MaxUsd) = Tally(h, MaxUsd) - h[o] + left /\ h[o] \in Nat
    BY <2>1, <1>7
  <2> QED BY <2>1, <2>2, <1>2, <1>3, <1>6
<1>11. ASSUME NEW o \in Orders, Cap!Release(o) PROVE Tally(h', MaxUsd) <= b'
  <2>1. b' = b /\ h' = [h EXCEPT ![o] = 0]
    BY <1>11 DEF Cap!Release, h, b, Holds
  <2>2. 0 \in 0..MaxUsd
    BY <1>1
  <2>3. Tally(h', MaxUsd) = Tally(h, MaxUsd) - h[o] + 0 /\ h[o] \in Nat
    BY <2>1, <2>2, <1>7
  <2> QED BY <2>1, <2>3, <1>2, <1>3, <1>6
<1>12. CASE UNCHANGED <<Balance, Holds>>
  BY <1>12, <1>6 DEF h, b
<1> QED
  BY <1>8, <1>9, <1>10, <1>11, <1>12 DEF CapStep, Cap!Next, Cap!Usd

\* ADR-0021 "must be impossible by construction": no interleaving of
\* reservations, fills, cancels and refreshes ever over-commits the cash.
THEOREM LedgerSolvent == Spec => []Solvent
<1>1. Init => Solvent
  <2> SUFFICES ASSUME Init PROVE Solvent
    OBVIOUS
  <2>1. Holds = [o \in Orders |-> 0] /\ Balance = 0
    BY DEF Init, NoOrder, HoldOf, Holds, Balance
  <2>2. Tally(Holds, MaxUsd) = 0
    BY <2>1, TallyZero, LedgerAssumption
  <2> QED BY <2>1, <2>2, TotalIsTally DEF Solvent, Available, Holds
<1>2. LedgerInv /\ LedgerInv' /\ [Next]_vars /\ Solvent => Solvent'
  BY LedgerStepIsCapStep, CapStepSolvent DEF LedgerInv
<1> QED
  BY <1>1, <1>2, LedgerInvInit, LedgerInvStep, PTL DEF Spec

-----------------------------------------------------------------------------
(* The cash ledger: what the booked fills have moved.                      *)

Costs == [i \in Booked("buy") |-> Notional(i)]
Proceeds == [i \in Booked("sell") |-> Notional(i) - SellFee]

\* Before the opening equity nothing can be bought, so nothing can be sold either;
\* and what a SELL brought in fits the money column.
CashInv ==
    /\ cash = <<>> =>
          /\ applied = {}
          /\ \A o \in Orders : order[o].side # "buy"
          /\ \A s \in Symbols : position[s] = Flat
    /\ \A i \in Booked("sell") : Notional(i) - SellFee <= MaxUsd
    /\ cash # <<>> => Balance = Equity - Tally(Costs, MaxUsd) + Tally(Proceeds, MaxUsd)

\* The sums are over numbers that fit the money column.
LEMMA BookedType ==
    ASSUME LedgerInv, CashInv
    PROVE  /\ Costs \in [Booked("buy") -> 0..MaxUsd]
           /\ Proceeds \in [Booked("sell") -> 0..MaxUsd]
           /\ IsFiniteSet(Booked("buy")) /\ IsFiniteSet(Booked("sell"))
           /\ Tally(Costs, MaxUsd) \in Nat /\ Tally(Proceeds, MaxUsd) \in Nat
<1>1. DOMAIN activity = 1..Len(activity) /\ Len(activity) \in Nat /\ applied \subseteq DOMAIN activity
  BY LenProperties DEF LedgerInv, TypeOK
<1>2. IsFiniteSet(Booked("buy")) /\ IsFiniteSet(Booked("sell"))
  <2>1. IsFiniteSet(DOMAIN activity)
    BY <1>1, FS_Interval
  <2>2. Booked("buy") \subseteq DOMAIN activity /\ Booked("sell") \subseteq DOMAIN activity
    BY <1>1 DEF Booked
  <2>. QED
    BY <2>1, <2>2, FS_Subset
<1>3. MaxUsd \in Nat
  BY LedgerAssumption
<1>4. \A i \in Booked("buy") : Notional(i) \in 0..MaxUsd
  BY <1>1, <1>3, ActivityType DEF Booked, LedgerInv, FullyReserved
<1>5. ASSUME NEW i \in Booked("sell") PROVE Notional(i) - SellFee \in 0..MaxUsd
  <2>1. i \in 1..Len(activity)
    BY <1>1 DEF Booked
  <2>2. FillAmount([side |-> "sell"], activity[i]) \in Nat
    BY <2>1, FillAmountType DEF LedgerInv
  <2>3. Notional(i) - SellFee \in Nat
    BY <2>2 DEF FillAmount, Notional
  <2>4. Notional(i) - SellFee <= MaxUsd
    BY DEF CashInv
  <2>. QED
    BY <1>3, <2>3, <2>4
<1>6. /\ Costs \in [Booked("buy") -> 0..MaxUsd] /\ DOMAIN Costs = Booked("buy")
      /\ Proceeds \in [Booked("sell") -> 0..MaxUsd] /\ DOMAIN Proceeds = Booked("sell")
  BY <1>4, <1>5 DEF Costs, Proceeds
<1>7. Tally(Costs, MaxUsd) \in Nat /\ Tally(Proceeds, MaxUsd) \in Nat
  BY <1>2, <1>3, <1>6, TallyType
<1>. QED
  BY <1>2, <1>6, <1>7

\* What the broker has reported, and the side of the order it is about, stays.
LEMMA StoryStays ==
    ASSUME LedgerInv, [Next]_vars, NEW i \in DOMAIN activity
    PROVE  /\ i \in DOMAIN activity' /\ activity'[i] = activity[i]
           /\ order'[activity[i].order].side = order[activity[i].order].side
<1>1. /\ activity \in Seq(Activity) /\ DOMAIN activity = 1..Len(activity)
      /\ order \in [Orders -> OrderRow \cup {NoOrder}]
  BY LenProperties DEF LedgerInv, TypeOK
<1>2. i \in DOMAIN activity' /\ activity'[i] = activity[i]
  <2>1. CASE UNCHANGED activity
    BY <2>1
  <2>2. ASSUME NEW o \in Orders, NEW q \in 1..MaxQty, NEW p \in Prices, BrokerFill(o, q, p)
        PROVE  i \in DOMAIN activity' /\ activity'[i] = activity[i]
    <3>1. PICK a : activity' = Append(activity, a)
      BY <2>2 DEF BrokerFill
    <3>. QED
      BY <1>1, <3>1
  <2>3. ASSUME NEW j, ReplayFill(j) PROVE UNCHANGED activity
    BY <2>3 DEF ReplayFill
  <2>4. \/ UNCHANGED activity
        \/ \E o \in Orders, q \in 1..MaxQty, p \in Prices : BrokerFill(o, q, p)
    BY <2>3
       DEF Next, vars, EnsureInitialEquity, RecordBuy, RecordSell, DecideOrder,
           RefreshOrder, SubmitOrder, BrokerClose, ApplySplit
  <2>. QED
    BY <2>1, <2>2, <2>4
<1>. DEFINE o == activity[i].order
<1>3. o \in Orders /\ order[o] # NoOrder
  <2>1. o \in Orders
    BY <1>1, ActivityType DEF LedgerInv
  <2>2. broker[o].status # "absent"
    BY DEF LedgerInv, BrokerStory
  <2>. QED
    BY <2>1, <2>2 DEF LedgerInv, BrokerStory, NoOrder
<1>. HIDE DEF o
<1>4. order'[o].side = order[o].side
  <2>1. CASE UNCHANGED order
    BY <2>1
  <2>2. ASSUME NEW x \in Orders, order[x] = NoOrder, NEW row,
               order' = [order EXCEPT ![x] = row]
        PROVE  order'[o].side = order[o].side
    BY <1>1, <1>3, <2>2
  <2>3. ASSUME NEW x \in Orders, NEW to, order' = [order EXCEPT ![x] = Moved(@, to)]
        PROVE  order'[o].side = order[o].side
    <3>1. Moved(order[o], to).side = order[o].side
      BY <1>1, <1>3 DEF Moved, OrderRow
    <3>. QED
      BY <1>1, <1>3, <2>3, <3>1
  <2>4. ASSUME NEW j \in 1..Len(activity), ReplayFill(j)
        PROVE  order'[o].side = order[o].side
    <3>. DEFINE x == activity[j].order
                n == activity[j].qty * activity[j].price
                left == activity[j].leaves
    <3>1. x \in Orders /\ order' = [order EXCEPT ![x] = AfterFill(Consume(@, n), left)]
      BY <2>4, ActivityType DEF ReplayFill, LedgerInv
    <3>. HIDE DEF x, n, left
    <3>2. AfterFill(Consume(order[o], n), left).side = order[o].side
      BY <1>1, <1>3 DEF AfterFill, Consume, Moved, OrderRow
    <3>. QED
      BY <1>1, <1>3, <3>1, <3>2
  <2>5. ASSUME NEW x \in Orders, NEW s, NEW q, NEW p, NEW r,
               RecordBuy(x, s, q, p, r) \/ RecordSell(x, s, q)
        PROVE  order'[o].side = order[o].side
    BY <2>2, <2>5 DEF RecordBuy, RecordSell
  <2>6. ASSUME NEW x \in Orders, NEW to,
               DecideOrder(x, to) \/ RefreshOrder(x, to) \/ SubmitOrder(x)
        PROVE  order'[o].side = order[o].side
    BY <2>3, <2>6 DEF DecideOrder, RefreshOrder, SubmitOrder
  <2>. QED
    BY <2>1, <2>4, <2>5, <2>6
       DEF Next, vars, EnsureInitialEquity, BrokerFill, BrokerClose, ApplySplit
<1>. QED
  BY <1>2, <1>4 DEF o

\* A step that books nothing leaves the sums alone.
LEMMA SumsStay ==
    ASSUME LedgerInv, [Next]_vars, applied' = applied
    PROVE  Costs' = Costs /\ Proceeds' = Proceeds /\ \A side : Booked(side)' = Booked(side)
<1>1. applied \subseteq DOMAIN activity
  BY DEF LedgerInv, TypeOK
<1>2. \A i \in applied : /\ Notional(i)' = Notional(i)
                         /\ order'[activity'[i].order].side = order[activity[i].order].side
  BY <1>1, StoryStays DEF Notional
<1>3. \A side : Booked(side)' = Booked(side)
  BY <1>2 DEF Booked
<1>4. \A side : Booked(side) \subseteq applied
  BY DEF Booked
<1>. QED
  BY <1>2, <1>3, <1>4 DEF Costs, Proceeds

\* A booked fill moves the balance and one of the sums alike.
LEMMA CashOfReplay ==
    ASSUME LedgerInv, CashInv, NEW i \in 1..Len(activity), ReplayFill(i)
    PROVE  CashInv'
<1>. DEFINE o == activity[i].order
            amount == FillAmount(order[o], activity[i])
<1>1. [Next]_vars
  BY DEF Next
<1>2. /\ i \notin applied /\ applied' = applied \cup {i} /\ applied \subseteq DOMAIN activity
      /\ i \in DOMAIN activity /\ TypeOK
      /\ o \in Orders /\ order[o] \in OrderRow /\ order[o].symbol \in Symbols
  <2>1. i \in DOMAIN activity /\ o \in Orders
    BY ActivityType DEF LedgerInv
  <2>2. order[o] \in OrderRow
    BY <2>1 DEF ReplayFill, FillStatuses, NoOrder, LedgerInv, TypeOK
  <2>. QED
    BY <2>1, <2>2 DEF ReplayFill, LedgerInv, TypeOK, OrderRow
<1>3. cash # <<>>
  <2>. SUFFICES ASSUME cash = <<>> PROVE FALSE
    OBVIOUS
  <2>1. order[o].side = "sell"
    BY <1>2 DEF CashInv, OrderRow
  <2>2. position[order[o].symbol] # Flat
    BY <2>1 DEF ReplayFill, SellCovered
  <2>. QED
    BY <1>2, <2>2 DEF CashInv
<1>4. PICK row \in CashRow : cash' = Append(cash, row) /\ row.balance = Balance + amount
  BY <1>2, ReplayRow
<1>5. Balance' = Balance + amount /\ cash' # <<>> /\ Balance + amount \in 0..MaxUsd
  <2>1. Balance + amount \in Usd
    BY DEF ReplayFill
  <2>. HIDE DEF amount
  <2>2. cash \in Seq(CashRow)
    BY <1>2 DEF TypeOK
  <2>3. Balance' = row.balance
    BY <1>4, <2>2, BalanceAppend
  <2>4. cash' # <<>>
    BY <1>4, <2>2
  <2>. QED
    BY <1>4, <2>1, <2>3, <2>4 DEF Usd
<1>6. \A j \in applied' : /\ Notional(j)' = Notional(j)
                          /\ order'[activity'[j].order].side = order[activity[j].order].side
  BY <1>1, <1>2, StoryStays DEF Notional
<1>7. /\ Booked("buy")' = Booked("buy") \cup (IF order[o].side = "buy" THEN {i} ELSE {})
      /\ Booked("sell")' = Booked("sell") \cup (IF order[o].side = "sell" THEN {i} ELSE {})
      /\ i \notin Booked("buy") /\ i \notin Booked("sell")
  BY <1>2, <1>6 DEF Booked
<1>8. /\ DOMAIN Costs' = Booked("buy")' /\ \A j \in Booked("buy")' : Costs'[j] = Notional(j)
      /\ DOMAIN Proceeds' = Booked("sell")'
      /\ \A j \in Booked("sell")' : Proceeds'[j] = Notional(j) - SellFee
  <2>1. Booked("buy")' \subseteq applied' /\ Booked("sell")' \subseteq applied'
    BY DEF Booked
  <2>. QED
    BY <1>6, <2>1 DEF Costs, Proceeds
<1>9. /\ Balance \in 0..MaxUsd /\ MaxUsd \in Nat /\ Notional(i) \in Nat /\ SellFee \in Nat
      /\ Equity \in Nat
  BY <1>2, BalanceType, ActivityType, LedgerAssumption DEF TypeOK, Usd
<1>10. CASE order[o].side = "buy"
  <2>1. amount = -Notional(i)
    BY <1>2, <1>10, FillAmountType
  <2>2. /\ Booked("buy")' = Booked("buy") \cup {i} /\ Booked("sell")' = Booked("sell")
    BY <1>7, <1>10
  <2>3. Proceeds' = Proceeds
    BY <1>8, <2>2 DEF Proceeds
  <2>4. Notional(i) \in 0..MaxUsd
    BY <1>2, <1>9, <1>10 DEF LedgerInv, FullyReserved
  <2>5. Grows(Costs, Costs', i, MaxUsd) /\ Costs'[i] = Notional(i)
    <3>1. \A j \in Booked("buy") : Costs[j] = Notional(j) /\ Notional(j) \in 0..MaxUsd
      BY BookedType DEF Costs
    <3>2. DOMAIN Costs = Booked("buy") /\ IsFiniteSet(Booked("buy"))
      BY BookedType
    <3>3. Costs \in [Booked("buy") -> 0..MaxUsd] /\ Costs' = [j \in Booked("buy")' |-> Costs'[j]]
      BY BookedType DEF Costs
    <3>. QED
      BY <1>7, <1>8, <1>9, <2>2, <2>4, <3>1, <3>2, <3>3 DEF Grows
  <2>6. Tally(Costs', MaxUsd) = Tally(Costs, MaxUsd) + Notional(i)
    BY <2>5, TallyAdd
  <2>7. Balance = Equity - Tally(Costs, MaxUsd) + Tally(Proceeds, MaxUsd)
    BY <1>3 DEF CashInv
  <2>8. Balance' = Equity - Tally(Costs', MaxUsd) + Tally(Proceeds', MaxUsd)
    <3>. DEFINE c == Tally(Costs, MaxUsd)
                d == Tally(Proceeds, MaxUsd)
                b == Balance
                e == Tally(Costs', MaxUsd)
                n == Notional(i)
    <3>1. /\ c \in Nat /\ d \in Nat /\ n \in Nat /\ Equity \in Nat
          /\ e = c + n /\ b = Equity - c + d /\ amount = -n
      BY <1>9, <2>1, <2>6, <2>7, BookedType
    <3>2. Balance' = b + amount
      BY <1>5
    <3>. HIDE DEF c, d, b, e, n, amount
    <3>3. b + amount = Equity - e + d
      BY <3>1
    <3>. QED
      BY <2>3, <3>2, <3>3 DEF d, e
  <2>9. \A j \in Booked("sell")' : Notional(j)' - SellFee <= MaxUsd
    BY <1>2, <1>6, <2>2 DEF CashInv, Booked
  <2>. QED
    BY <1>5, <2>8, <2>9 DEF CashInv
<1>11. CASE order[o].side = "sell"
  <2>1. amount = Notional(i) - SellFee /\ amount \in Nat
    BY <1>2, <1>11, FillAmountType DEF FillAmount, Notional
  <2>2. /\ Booked("sell")' = Booked("sell") \cup {i} /\ Booked("buy")' = Booked("buy")
    BY <1>7, <1>11
  <2>3. Costs' = Costs
    BY <1>8, <2>2 DEF Costs
  <2>4. Notional(i) - SellFee \in 0..MaxUsd
    <3>. DEFINE b == Balance
    <3>1. b \in 0..MaxUsd /\ MaxUsd \in Nat /\ amount \in Nat /\ b + amount \in 0..MaxUsd
      BY <1>5, <1>9, <2>1
    <3>. HIDE DEF b, amount
    <3>2. amount \in 0..MaxUsd
      BY <3>1
    <3>. QED
      BY <2>1, <3>2
  <2>5. Grows(Proceeds, Proceeds', i, MaxUsd) /\ Proceeds'[i] = Notional(i) - SellFee
    <3>1. \A j \in Booked("sell") :
              Proceeds[j] = Notional(j) - SellFee /\ Notional(j) - SellFee \in 0..MaxUsd
      BY BookedType DEF Proceeds
    <3>2. DOMAIN Proceeds = Booked("sell") /\ IsFiniteSet(Booked("sell"))
      BY BookedType
    <3>3. /\ Proceeds \in [Booked("sell") -> 0..MaxUsd]
          /\ Proceeds' = [j \in Booked("sell")' |-> Proceeds'[j]]
      BY BookedType DEF Proceeds
    <3>. QED
      BY <1>7, <1>8, <1>9, <2>2, <2>4, <3>1, <3>2, <3>3 DEF Grows
  <2>6. Tally(Proceeds', MaxUsd) = Tally(Proceeds, MaxUsd) + (Notional(i) - SellFee)
    BY <2>5, TallyAdd
  <2>7. Balance = Equity - Tally(Costs, MaxUsd) + Tally(Proceeds, MaxUsd)
    BY <1>3 DEF CashInv
  <2>8. Balance' = Equity - Tally(Costs', MaxUsd) + Tally(Proceeds', MaxUsd)
    <3>. DEFINE c == Tally(Costs, MaxUsd)
                d == Tally(Proceeds, MaxUsd)
                b == Balance
                e == Tally(Proceeds', MaxUsd)
    <3>1. /\ c \in Nat /\ d \in Nat /\ amount \in Nat /\ Equity \in Nat
          /\ e = d + amount /\ b = Equity - c + d
      BY <1>9, <2>1, <2>6, <2>7, BookedType
    <3>2. Balance' = b + amount
      BY <1>5
    <3>. HIDE DEF c, d, b, e, amount
    <3>3. b + amount = Equity - c + e
      BY <3>1
    <3>. QED
      BY <2>3, <3>2, <3>3 DEF c, e
  <2>9. \A j \in Booked("sell")' : Notional(j)' - SellFee <= MaxUsd
    <3>1. \A j \in Booked("sell") : Notional(j)' = Notional(j) /\ Notional(j) - SellFee <= MaxUsd
      BY <1>2, <1>6 DEF CashInv, Booked
    <3>2. Notional(i)' - SellFee <= MaxUsd
      BY <1>2, <1>6, <1>9, <2>4
    <3>. QED
      BY <2>2, <3>1, <3>2
  <2>. QED
    BY <1>5, <2>8, <2>9 DEF CashInv
<1>. QED
  BY <1>2, <1>10, <1>11 DEF OrderRow

LEMMA CashInvStep == LedgerInv /\ CashInv /\ [Next]_vars => CashInv'
<1>. SUFFICES ASSUME LedgerInv, CashInv, [Next]_vars PROVE CashInv'
  OBVIOUS
<1>1. ASSUME NEW i \in 1..Len(activity), ReplayFill(i) PROVE CashInv'
  BY <1>1, CashOfReplay
<1>2. ASSUME applied' = applied
      PROVE  /\ \A i \in Booked("sell")' : Notional(i)' - SellFee <= MaxUsd
             /\ Costs' = Costs /\ Proceeds' = Proceeds
  <2>1. /\ Costs' = Costs /\ Proceeds' = Proceeds
        /\ Booked("sell")' = Booked("sell") /\ Booked("sell") \subseteq DOMAIN activity
    BY <1>2, SumsStay DEF LedgerInv, TypeOK, Booked
  <2>2. \A i \in Booked("sell") : Notional(i)' = Notional(i)
    BY <2>1, StoryStays DEF Notional
  <2>. QED
    BY <2>1, <2>2 DEF CashInv
<1>3. CASE EnsureInitialEquity
  <2>1. applied' = applied /\ applied = {} /\ cash' # <<>>
    BY <1>3 DEF EnsureInitialEquity, CashInv
  <2>2. Balance' = Equity
    <3>. DEFINE row == [kind |-> "initial_equity", amount |-> Equity, balance |-> Equity]
    <3>1. cash' = <<row>> /\ row.balance = Equity
      BY <1>3 DEF EnsureInitialEquity
    <3>. HIDE DEF row
    <3>. QED
      BY <3>1 DEF Balance
  <2>3. Booked("buy") = {} /\ Booked("sell") = {}
    BY <2>1 DEF Booked
  <2>4. Tally(Costs, MaxUsd) = 0 /\ Tally(Proceeds, MaxUsd) = 0
    <3>1. Costs = [i \in {} |-> 0] /\ Proceeds = [i \in {} |-> 0]
      BY <2>3 DEF Costs, Proceeds
    <3>. QED
      BY <3>1, TallyZero, LedgerAssumption
  <2>5. Equity \in Nat
    BY LedgerAssumption
  <2>. QED
    BY <1>2, <2>1, <2>2, <2>4, <2>5 DEF CashInv
<1>4. ASSUME UNCHANGED <<cash, applied>>,
             cash = <<>> => /\ \A o \in Orders : order'[o].side # "buy"
                            /\ \A s \in Symbols : position'[s] = Flat
      PROVE  CashInv'
  <2>1. Balance' = Balance
    BY <1>4 DEF Balance
  <2>. QED
    BY <1>2, <1>4, <2>1 DEF CashInv
<1>5. ASSUME NEW o \in Orders, NEW s \in Symbols, NEW q \in 1..MaxQty,
             NEW p \in Prices, NEW b \in Buffers, RecordBuy(o, s, q, p, q * p + b)
      PROVE  CashInv'
  <2>1. cash # <<>>
    <3>1. Available = Balance - Cap!Total(Holds) /\ Cap!Total(Holds) \in Nat
      BY HoldsType DEF Available, Holds, LedgerInv, TypeOK
    <3>2. q * p + b \in Nat /\ q * p + b > 0 /\ q * p + b <= Available
      <4>1. q \in Nat /\ p \in Nat /\ b \in Nat
        BY LedgerAssumption
      <4>. QED
        BY <1>5, <4>1 DEF RecordBuy
    <3>. SUFFICES ASSUME cash = <<>> PROVE FALSE
      OBVIOUS
    <3>3. Balance = 0
      BY DEF Balance
    <3>. QED
      BY <3>1, <3>2, <3>3
  <2>. QED
    BY <1>4, <1>5, <2>1 DEF RecordBuy
<1>6. ASSUME NEW o \in Orders, NEW s, NEW q, RecordSell(o, s, q)
      PROVE  CashInv'
  BY <1>4, <1>6 DEF RecordSell, CashInv, LedgerInv, TypeOK
<1>7. ASSUME NEW o \in Orders, NEW to, order' = [order EXCEPT ![o] = Moved(@, to)],
             UNCHANGED <<cash, applied, position>>
      PROVE  CashInv'
  <2>1. \A x \in Orders : order'[x].side = order[x].side
    <3>1. Moved(order[o], to).side = order[o].side
      BY DEF Moved, OrderRow, NoOrder, LedgerInv, TypeOK
    <3>. QED
      BY <1>7, <3>1 DEF LedgerInv, TypeOK
  <2>. QED
    BY <1>4, <1>7, <2>1 DEF CashInv
<1>8. ASSUME NEW s \in Symbols, NEW r, ApplySplit(s, r)
      PROVE  CashInv'
  <2>1. cash # <<>>
    BY <1>8 DEF ApplySplit, IsOpen, CashInv
  <2>. QED
    BY <1>4, <1>8, <2>1 DEF ApplySplit
<1>9. ASSUME NEW o \in Orders, NEW to,
             DecideOrder(o, to) \/ RefreshOrder(o, to) \/ SubmitOrder(o)
      PROVE  CashInv'
  BY <1>7, <1>9 DEF DecideOrder, RefreshOrder, SubmitOrder
<1>10. CASE UNCHANGED <<order, cash, applied, position>>
  BY <1>4, <1>10 DEF CashInv
<1>. QED
  BY <1>1, <1>3, <1>5, <1>6, <1>8, <1>9, <1>10 DEF Next, vars, BrokerFill, BrokerClose

LEMMA CashInvInit == Init => CashInv
BY DEF Init, CashInv, Booked, NoOrder

\* The balance of the newest cash row is the opening equity less every booked BUY
\* fill once and plus every booked SELL fill once after its fee, however the fills
\* came in, partial, retried or interleaved with splits and refreshes.
THEOREM LedgerCashExplained == Spec => []CashExplained
<1>1. CashInv => CashExplained
  BY DEF CashInv, CashExplained, Costs, Proceeds
<1>. QED
  BY <1>1, CashInvInit, CashInvStep, LedgerInvInit, LedgerInvStep, PTL DEF Spec

-----------------------------------------------------------------------------
(***************************************************************************)
(* The lots add up to the position.  A sale and a split change every lot   *)
(* at once, so the sum is taken lot by lot: whatever grows with the lots   *)
(* from zero is their running sum, by least counterexample.                *)
(***************************************************************************)
Lot == 0..MaxShares

\* The first k lots together.
Running(lots, k) == LotTotal([i \in 1..k |-> lots[i]])

\* One lot more adds its shares.
LEMMA RunningStep ==
    ASSUME NEW lots \in Seq(Lot), NEW k \in Nat, k < Len(lots)
    PROVE  Running(lots, k + 1) = Running(lots, k) + lots[k + 1] /\ Running(lots, k) \in Nat
<1> DEFINE f == [i \in 1..k |-> lots[i]]
           g == [i \in 1..(k + 1) |-> lots[i]]
<1>1. MaxShares \in Nat /\ Len(lots) \in Nat /\ \A i \in 1..Len(lots) : lots[i] \in 0..MaxShares
  BY LedgerAssumption, LenProperties, ElementOfSeq DEF Lot
<1>2. IsFiniteSet(1..k)
  BY FS_Interval
<1>3. /\ f \in [1..k -> 0..MaxShares] /\ g \in [1..(k + 1) -> 0..MaxShares]
      /\ g[k + 1] = lots[k + 1] /\ \A i \in 1..k : g[i] = f[i]
      /\ DOMAIN f = 1..k /\ DOMAIN g = 1..(k + 1) /\ 1..(k + 1) = (1..k) \cup {k + 1}
      /\ k + 1 \notin 1..k
  BY <1>1
<1> HIDE DEF f, g
<1>4. Grows(f, g, k + 1, MaxShares)
  BY <1>1, <1>2, <1>3 DEF Grows
<1>5. Tally(g, MaxShares) = Tally(f, MaxShares) + g[k + 1]
  BY <1>4, TallyAdd
<1>6. Tally(f, MaxShares) \in Nat
  BY <1>1, <1>2, <1>3, TallyType, Zenon
<1> QED BY <1>3, <1>5, <1>6 DEF Running, LotTotal, f, g

\* No lot, no shares; all lots, their total.
LEMMA RunningEnds ==
    ASSUME NEW lots \in Seq(Lot)
    PROVE  /\ Running(lots, 0) = 0 /\ Running(lots, Len(lots)) = LotTotal(lots)
           /\ \A k \in 0..Len(lots) : Running(lots, k) \in Nat
<1>1. MaxShares \in Nat /\ Len(lots) \in Nat /\ lots = [i \in 1..Len(lots) |-> lots[i]]
  BY LedgerAssumption, LenProperties
<1>2. Running(lots, 0) = 0
  <2>1. Units([i \in 1..0 |-> lots[i]], MaxShares) = {}
    BY DEF Units
  <2> QED BY <2>1, FS_EmptySet DEF Running, LotTotal, Tally
<1>3. ASSUME NEW k \in 0..Len(lots) PROVE Running(lots, k) \in Nat
  <2>1. IsFiniteSet(1..k)
    BY FS_Interval
  <2>2. Tally([i \in 1..k |-> lots[i]], MaxShares) \in Nat
    <3>1. MaxShares \in Nat /\ DOMAIN [i \in 1..k |-> lots[i]] = 1..k
      BY <1>1
    <3> QED BY <2>1, <3>1, TallyType, Zenon
  <2> QED BY <2>2 DEF Running, LotTotal
<1> QED BY <1>1, <1>2, <1>3, Zenon DEF Running

\* What starts at zero and grows by each lot is the running sum.
LEMMA RunningIs ==
    ASSUME NEW lots \in Seq(Lot), NEW p,
           p[0] = 0,
           \A k \in 0..(Len(lots) - 1) : p[k + 1] = p[k] + lots[k + 1]
    PROVE  p[Len(lots)] = LotTotal(lots)
<1> DEFINE Wrong == { k \in 0..Len(lots) : p[k] # Running(lots, k) }
<1>1. Len(lots) \in Nat
  BY LenProperties
<1>2. Wrong = {}
  <2> SUFFICES ASSUME Wrong # {} PROVE FALSE
    OBVIOUS
  <2>1. Wrong \in SUBSET Nat
    BY <1>1
  <2>2. PICK m \in Wrong : \A n \in Wrong : m <= n
    <3> HIDE DEF Wrong
    <3> QED BY <2>1, LeastNatural
  <2>3. m \in 0..Len(lots) /\ p[m] # Running(lots, m) /\ m # 0
    BY <2>2, RunningEnds
  <2> DEFINE k == m - 1
  <2>4. k \in Nat /\ k < Len(lots) /\ k + 1 = m /\ k \in 0..Len(lots) /\ ~(m <= k)
        /\ k \in 0..(Len(lots) - 1)
    BY <1>1, <2>3
  <2>5. p[k] = Running(lots, k)
    BY <2>2, <2>4
  <2> HIDE DEF k
  <2>6. Running(lots, k + 1) = Running(lots, k) + lots[k + 1] /\ Running(lots, k) \in Nat
    BY <2>4, RunningStep
  <2>7. p[k + 1] = p[k] + lots[k + 1]
    BY <2>4, <2>5, <2>6
  <2> QED BY <2>3, <2>4, <2>5, <2>6, <2>7
<1>3. Len(lots) \in 0..Len(lots)
  BY <1>1
<1> QED BY <1>2, <1>3, RunningEnds

\* A lot is no larger than all of them.
LEMMA LotInTotal ==
    ASSUME NEW lots \in Seq(Lot), NEW i \in 1..Len(lots)
    PROVE  lots[i] \in Nat /\ lots[i] <= LotTotal(lots) /\ LotTotal(lots) \in Nat
<1>1. MaxShares \in Nat /\ Len(lots) \in Nat /\ lots \in [1..Len(lots) -> 0..MaxShares]
  BY LedgerAssumption, LenProperties DEF Lot
<1>2. IsFiniteSet(1..Len(lots))
  BY <1>1, FS_Interval
<1>3. lots[i] \in Nat /\ Tally(lots, MaxShares) \in Nat /\ lots[i] <= Tally(lots, MaxShares)
  BY <1>1, <1>2, TallyPart, Zenon
<1> QED BY <1>3 DEF LotTotal

\* A new lot is appended to the position's.
LEMMA LotsBought ==
    ASSUME NEW lots \in Seq(Lot), NEW q \in Lot
    PROVE  Append(lots, q) \in Seq(Lot) /\ LotTotal(Append(lots, q)) = LotTotal(lots) + q
<1> DEFINE new == Append(lots, q)
<1>1. /\ new \in Seq(Lot) /\ Len(new) = Len(lots) + 1 /\ new[Len(lots) + 1] = q
      /\ \A i \in 1..Len(lots) : new[i] = lots[i]
      /\ Len(lots) \in Nat
  BY AppendProperties, LenProperties
<1> HIDE DEF new
<1>2. Running(new, Len(lots) + 1) = Running(new, Len(lots)) + q
  BY <1>1, RunningStep
<1>3. Running(new, Len(lots)) = Running(lots, Len(lots))
  BY <1>1 DEF Running
<1>4. Running(new, Len(lots) + 1) = LotTotal(new)
  BY <1>1, RunningEnds
<1> QED BY <1>1, <1>2, <1>3, <1>4, RunningEnds DEF new

\* A sale takes its shares from the lots, oldest first, and no others.
LEMMA LotsSold ==
    ASSUME NEW lots \in Seq(Lot), NEW q \in Nat, q <= LotTotal(lots)
    PROVE  /\ SellFifo(lots, q) \in Seq(Lot)
           /\ LotTotal(SellFifo(lots, q)) = LotTotal(lots) - q
<1> DEFINE sold == SellFifo(lots, q)
           Left(n) == IF q <= n THEN n - q ELSE 0
           p == [k \in 0..Len(lots) |-> Left(Running(lots, k))]
<1>1. Len(lots) \in Nat /\ MaxShares \in Nat
      /\ \A i \in 1..Len(lots) : lots[i] \in 0..MaxShares /\ lots[i] \in Nat
  BY LenProperties, LedgerAssumption, ElementOfSeq DEF Lot
<1>2. ASSUME NEW i \in 1..Len(lots)
      PROVE  LotTotal(SubSeq(lots, 1, i - 1)) = Running(lots, i - 1)
             /\ Running(lots, i - 1) \in Nat
  <2>1. i - 1 \in 0..Len(lots) /\ i - 1 - 1 + 1 = i - 1
    BY <1>1
  <2>2. SubSeq(lots, 1, i - 1) = [j \in 1..(i - 1) |-> lots[j]]
    <3>1. SubSeq(lots, 1, i - 1) = [j \in 1..(i - 1) |-> lots[1 + j - 1]]
      BY <1>1, <2>1, SubSeqProperties
    <3>2. \A j \in 1..(i - 1) : 1 + j - 1 = j
      BY <2>1
    <3> QED BY <3>1, <3>2
  <2> QED BY <2>1, <2>2, RunningEnds DEF Running
<1>3. ASSUME NEW i \in 1..Len(lots)
      PROVE  sold[i] = (IF q <= Running(lots, i - 1) THEN lots[i]
                        ELSE IF q >= Running(lots, i - 1) + lots[i] THEN 0
                        ELSE Running(lots, i - 1) + lots[i] - q)
  BY <1>2 DEF SellFifo
<1>4. ASSUME NEW i \in 1..Len(lots) PROVE sold[i] \in Lot
  <2> DEFINE e == Running(lots, i - 1)
  <2>1. e \in Nat /\ lots[i] \in 0..MaxShares /\ MaxShares \in Nat
    BY <1>1, <1>2
  <2>2. sold[i] = (IF q <= e THEN lots[i] ELSE IF q >= e + lots[i] THEN 0 ELSE e + lots[i] - q)
    BY <1>3
  <2> DEFINE l == lots[i]
             x == sold[i]
  <2>3. l \in 0..MaxShares
        /\ x = (IF q <= e THEN l ELSE IF q >= e + l THEN 0 ELSE e + l - q)
    BY <2>1, <2>2
  <2> HIDE DEF e, l, x
  <2>4. x \in 0..MaxShares
    BY <2>1, <2>3
  <2> QED BY <2>4 DEF x, Lot
<1>5. sold \in Seq(Lot) /\ Len(sold) = Len(lots)
  <2>1. sold = [i \in 1..Len(lots) |-> sold[i]]
    BY DEF SellFifo
  <2> HIDE DEF sold
  <2>2. sold \in [1..Len(lots) -> Lot]
    BY <1>4, <2>1
  <2> QED BY <1>1, <2>2, SeqDef, LenProperties
<1> HIDE DEF sold
<1>6. ASSUME NEW k \in 0..(Len(sold) - 1)
      PROVE  p[k + 1] = p[k] + sold[k + 1]
  <2>1. k \in Nat /\ k < Len(lots) /\ k \in 0..Len(lots) /\ k + 1 \in 0..Len(lots)
        /\ k + 1 \in 1..Len(lots) /\ k + 1 - 1 = k
    BY <1>1, <1>5
  <2>2. /\ Running(lots, k + 1) = Running(lots, k) + lots[k + 1] /\ Running(lots, k) \in Nat
        /\ lots[k + 1] \in Nat
    BY <1>1, <2>1, RunningStep
  <2>3. sold[k + 1] = (IF q <= Running(lots, k) THEN lots[k + 1]
                       ELSE IF q >= Running(lots, k) + lots[k + 1] THEN 0
                       ELSE Running(lots, k) + lots[k + 1] - q)
    BY <1>3, <2>1
  <2>4. p[k] = Left(Running(lots, k)) /\ p[k + 1] = Left(Running(lots, k) + lots[k + 1])
    BY <2>1, <2>2
  <2> HIDE DEF p
  <2> DEFINE e == Running(lots, k)
             l == lots[k + 1]
             x == sold[k + 1]
  <2>5. e \in Nat /\ l \in Nat /\ p[k] = Left(e) /\ p[k + 1] = Left(e + l)
        /\ x = (IF q <= e THEN l ELSE IF q >= e + l THEN 0 ELSE e + l - q)
    BY <2>2, <2>3, <2>4
  <2> HIDE DEF e, l, x
  <2>6. p[k + 1] = p[k] + x
    BY <2>5
  <2> QED BY <2>6 DEF x
<1>7. p[0] = 0 /\ p[Len(sold)] = LotTotal(lots) - q
  <2>1. 0 \in 0..Len(lots) /\ Len(lots) \in 0..Len(lots)
    BY <1>1
  <2>2. Running(lots, 0) = 0 /\ Running(lots, Len(lots)) = LotTotal(lots) /\ LotTotal(lots) \in Nat
    BY <2>1, RunningEnds
  <2> QED BY <1>5, <2>1, <2>2
<1> HIDE DEF p
<1>8. p[Len(sold)] = LotTotal(sold)
  BY <1>5, <1>6, <1>7, RunningIs
<1> QED BY <1>5, <1>7, <1>8 DEF sold

\* Whole-number splits, the kind that multiplies every share.
WholeSplits == \A r \in SplitRatios : r[2] = 1

LEMMA ScaleWhole ==
    ASSUME WholeSplits, NEW r \in SplitRatios, NEW q \in Nat
    PROVE  Scale(q, r) = r[1] * q /\ r[1] \in Nat \ {0}
<1>1. r[1] \in Nat \ {0} /\ r[2] = 1
  BY LedgerAssumption DEF WholeSplits
<1>2. \A m \in Nat : (2 * m + 1) \div 2 = m
  OBVIOUS
<1>3. r[1] * q \in Nat /\ 2 * q * r[1] = 2 * (r[1] * q)
  BY <1>1
<1>4. Scale(q, r) = (2 * (r[1] * q) + 1) \div 2
  BY <1>1, <1>3 DEF Scale
<1> QED BY <1>1, <1>2, <1>3, <1>4

\* A whole-number split multiplies every lot, and their sum.
LEMMA LotsSplit ==
    ASSUME WholeSplits, NEW lots \in Seq(Lot), NEW r \in SplitRatios,
           Scale(LotTotal(lots), r) <= MaxShares
    PROVE  LET new == [i \in DOMAIN lots |-> Scale(lots[i], r)]
           IN  new \in Seq(Lot) /\ LotTotal(new) = Scale(LotTotal(lots), r)
<1> DEFINE n == r[1]
           new == [i \in DOMAIN lots |-> Scale(lots[i], r)]
           p == [k \in 0..Len(lots) |-> n * Running(lots, k)]
<1>1. n \in Nat \ {0} /\ \A q \in Nat : Scale(q, r) = n * q
  BY ScaleWhole
<1> HIDE DEF n
<1>2. Len(lots) \in Nat /\ DOMAIN lots = 1..Len(lots) /\ MaxShares \in Nat
  BY LenProperties, LedgerAssumption
<1>3. \A a, b \in Nat : a <= b => n * a \in Nat /\ n * a <= n * b
  <2> SUFFICES ASSUME NEW a \in Nat, NEW b \in Nat, a <= b
               PROVE  n * a \in Nat /\ n * a <= n * b
    OBVIOUS
  <2>1. n \in Nat
    BY <1>1
  <2>2. PICK c \in Nat : b = a + c
    <3>1. b - a \in Nat /\ b = a + (b - a)
      OBVIOUS
    <3> QED BY ONLY <3>1
  <2>3. n * b = n * a + n * c /\ n * a \in Nat /\ n * c \in Nat
    BY ONLY <2>1, <2>2
  <2> QED BY ONLY <2>3
<1>4. ASSUME NEW i \in 1..Len(lots) PROVE new[i] = n * lots[i] /\ new[i] \in Lot
  <2>1. lots[i] \in Nat /\ lots[i] <= LotTotal(lots) /\ LotTotal(lots) \in Nat
    BY LotInTotal
  <2>2. n * lots[i] \in Nat /\ n * lots[i] <= n * LotTotal(lots)
        /\ n * LotTotal(lots) \in Nat
    <3> DEFINE x == lots[i]
               y == LotTotal(lots)
    <3>1. x \in Nat /\ y \in Nat /\ x <= y
      BY <2>1
    <3> HIDE DEF x, y
    <3>2. n * x \in Nat /\ n * x <= n * y
      BY ONLY <1>3, <3>1
    <3>3. n * y \in Nat
      BY ONLY <1>3, <3>1
    <3> QED BY <3>2, <3>3 DEF x, y
  <2>3. Scale(lots[i], r) = n * lots[i] /\ Scale(LotTotal(lots), r) = n * LotTotal(lots)
    BY <1>1, <2>1
  <2> QED BY <1>2, <2>2, <2>3 DEF Lot
<1>5. new \in Seq(Lot) /\ Len(new) = Len(lots)
  <2>1. new \in [1..Len(lots) -> Lot]
    BY <1>2, <1>4
  <2> HIDE DEF new
  <2> QED BY <1>2, <2>1, SeqDef, LenProperties
<1>6. /\ Running(lots, 0) = 0 /\ Running(lots, Len(lots)) = LotTotal(lots)
      /\ \A k \in 0..Len(lots) : Running(lots, k) \in Nat
  BY RunningEnds
<1>7. LotTotal(lots) \in Nat
  BY <1>2, <1>6
<1> HIDE DEF new
<1>8. ASSUME NEW k \in 0..(Len(new) - 1)
      PROVE  p[k + 1] = p[k] + new[k + 1]
  <2>1. k \in Nat /\ k < Len(lots) /\ k \in 0..Len(lots) /\ k + 1 \in 0..Len(lots)
        /\ k + 1 \in 1..Len(lots)
    BY <1>2, <1>5
  <2>2. Running(lots, k + 1) = Running(lots, k) + lots[k + 1] /\ Running(lots, k) \in Nat
        /\ lots[k + 1] \in Nat
    BY <2>1, RunningStep, LotInTotal
  <2>3. \A a, b \in Nat : n * (a + b) = n * a + n * b
    BY <1>1
  <2>4. n * (Running(lots, k) + lots[k + 1]) = n * Running(lots, k) + n * lots[k + 1]
    BY <2>2, <2>3
  <2>5. new[k + 1] = n * lots[k + 1]
    BY <1>4, <2>1
  <2> QED BY <2>1, <2>2, <2>4, <2>5
<1>9. p[0] = 0 /\ p[Len(new)] = n * LotTotal(lots)
  BY <1>1, <1>2, <1>5, <1>6
<1> HIDE DEF p
<1>10. p[Len(new)] = LotTotal(new)
  BY <1>5, <1>8, <1>9, RunningIs
<1> QED BY <1>1, <1>5, <1>7, <1>9, <1>10 DEF new

\* A position and its lots.
Backed(pos) ==
    /\ pos.qty \in Nat /\ pos.lots \in Seq(Lot) /\ LotTotal(pos.lots) = pos.qty
    /\ pos.qty = 0 => pos.lots = <<>>

LotsInv == \A s \in Symbols : Backed(position[s])

LEMMA FlatIsBacked == Backed(Flat)
<1>1. Flat.qty = 0 /\ Flat.lots = <<>> /\ <<>> \in Seq(Lot) /\ Len(<<>>) = 0
  BY EmptySeq DEF Flat
<1>2. LotTotal(<<>>) = 0
  BY <1>1, RunningEnds
<1> QED BY <1>1, <1>2 DEF Backed

\* Every transaction that moves a position keeps its lots behind it.
LEMMA LotsInvStep ==
    ASSUME WholeSplits, TypeOK, LotsInv, [Next]_vars
    PROVE  LotsInv'
<1>1. ASSUME NEW s \in Symbols, NEW pos, Backed(pos), position' = [position EXCEPT ![s] = pos]
      PROVE  LotsInv'
  BY <1>1 DEF LotsInv, TypeOK
<1>2. ASSUME NEW i \in 1..Len(activity), ReplayFill(i)
      PROVE  LotsInv'
  <2> DEFINE a == activity[i]
             row == order[a.order]
             pos == position[row.symbol]
             new == IF row.side = "buy" THEN Bought(pos, a.qty) ELSE Sold(pos, a.qty)
  <2>1. row \in OrderRow /\ a.qty \in Nat \ {0}
    BY <1>2, ActivityType DEF ReplayFill, FillStatuses, NoOrder, TypeOK
  <2>2. row.symbol \in Symbols /\ row.side \in {"buy", "sell"}
    BY <2>1 DEF OrderRow
  <2>3. Backed(pos)
    BY <2>2 DEF LotsInv
  <2>4. row.side = "sell" => a.qty <= pos.qty
    <3>1. row.side = "sell" => SellCovered(pos, a.qty)
      BY <1>2, Zenon DEF ReplayFill
    <3> QED BY <3>1, Zenon DEF SellCovered
  <2>5. position' = [position EXCEPT ![row.symbol] = new]
    BY <1>2 DEF ReplayFill
  <2>6. a.qty \in Lot
    BY ActivityType, LedgerAssumption DEF Activity, Lot
  <2> HIDE DEF a, row, pos
  <2>7. Backed(Bought(pos, a.qty))
    <3>1. pos.lots \in Seq(Lot) /\ LotTotal(pos.lots) = pos.qty /\ pos.qty \in Nat
      BY <2>3 DEF Backed
    <3>2. Append(pos.lots, a.qty) \in Seq(Lot)
          /\ LotTotal(Append(pos.lots, a.qty)) = pos.qty + a.qty
      BY <2>6, <3>1, LotsBought
    <3>3. pos.qty + a.qty \in Nat /\ pos.qty + a.qty # 0
      BY <2>1, <3>1
    <3> QED BY <3>2, <3>3 DEF Backed, Bought
  <2>8. row.side = "sell" => Backed(Sold(pos, a.qty))
    <3>1. pos.lots \in Seq(Lot) /\ LotTotal(pos.lots) = pos.qty /\ pos.qty \in Nat
      BY <2>3 DEF Backed
    <3> SUFFICES ASSUME a.qty <= pos.qty, pos.qty # a.qty PROVE Backed(Sold(pos, a.qty))
      BY <2>4, FlatIsBacked DEF Sold
    <3>2. /\ SellFifo(pos.lots, a.qty) \in Seq(Lot)
          /\ LotTotal(SellFifo(pos.lots, a.qty)) = pos.qty - a.qty
      BY <2>1, <3>1, LotsSold
    <3>3. pos.qty - a.qty \in Nat /\ pos.qty - a.qty # 0
      BY <2>1, <3>1
    <3> QED BY <3>2, <3>3 DEF Backed, Sold
  <2>9. Backed(new)
    BY <2>2, <2>7, <2>8
  <2> HIDE DEF new
  <2> QED BY <1>1, <2>2, <2>5, <2>9
<1>3. ASSUME NEW s \in Symbols, NEW r \in SplitRatios, ApplySplit(s, r)
      PROVE  LotsInv'
  <2> DEFINE pos == position[s]
             lots == [i \in DOMAIN pos.lots |-> Scale(pos.lots[i], r)]
             new == [qty |-> Scale(pos.qty, r), lots |-> lots]
  <2>1. Backed(pos)
    BY DEF LotsInv
  <2>2. position' = [position EXCEPT ![s] = new] /\ Scale(pos.qty, r) \in 1..MaxShares
    BY <1>3 DEF ApplySplit
  <2> HIDE DEF pos
  <2>3. pos.lots \in Seq(Lot) /\ LotTotal(pos.lots) = pos.qty
    BY <2>1 DEF Backed
  <2>4. Scale(pos.qty, r) \in Nat /\ Scale(pos.qty, r) # 0 /\ Scale(pos.qty, r) <= MaxShares
    BY <2>2, LedgerAssumption
  <2>5. lots \in Seq(Lot) /\ LotTotal(lots) = Scale(pos.qty, r)
    BY <2>3, <2>4, LotsSplit
  <2> HIDE DEF lots
  <2>6. Backed(new)
    BY <2>4, <2>5 DEF Backed
  <2> HIDE DEF new
  <2> QED BY <1>1, <2>2, <2>6
<1>4. CASE UNCHANGED position
  BY <1>4 DEF LotsInv
<1> QED
  BY <1>2, <1>3, <1>4, ZenonT(60)
     DEF Next, vars, EnsureInitialEquity, RecordBuy, RecordSell, DecideOrder,
         RefreshOrder, SubmitOrder, BrokerFill, BrokerClose

\* However buys, sales and whole-number splits are interleaved, the lots of a symbol
\* add up to its position and a flat symbol has none. A split with a fraction rounds
\* the position and each lot alone, so nothing of the kind holds of it. (apply_fill,
\* consume_lots, apply_split)
THEOREM LedgerLotsBackPosition == WholeSplits => (Spec => []LotsBackPosition)
<1> SUFFICES ASSUME WholeSplits PROVE Spec => []LotsBackPosition
  OBVIOUS
<1>1. Init => LotsInv
  BY FlatIsBacked DEF Init, LotsInv
<1>2. TypeOK /\ LotsInv /\ [Next]_vars => LotsInv'
  BY LotsInvStep
<1>3. LotsInv => LotsBackPosition
  BY DEF LotsInv, Backed, LotsBackPosition
<1> QED BY <1>1, <1>2, <1>3, LedgerTypeCorrect, PTL DEF Spec
=============================================================================
