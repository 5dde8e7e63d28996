-------------------------- MODULE Reconcile_proofs --------------------------
(***************************************************************************)
(* The boot-time reconciliation, for any orders, any number of boots and   *)
(* any moves of the broker between its reads: what is replayed, what the   *)
(* watermark stands for, and that a halt has a reason.                     *)
(***************************************************************************)
EXTENDS Reconcile, Sums_proofs, TLAPS

-----------------------------------------------------------------------------
\* What the broker reports of a fill.
Activity == [order : AllOrders, qty : 1..MaxShares, leaves : Nat]

Words == {"absent", "open", "filled"} \cup Closings

\* The broker: its words, a fill behind every order it calls filled, and no fill
\* of an order it does not have.
BrokerInv ==
    /\ broker \in [AllOrders -> [status : Words, leaves : Nat]]
    /\ \A o \in AllOrders : broker[o].leaves <= Terms[o].qty
    /\ activity \in Seq(Activity)
    /\ \A i \in DOMAIN activity : broker[activity[i].order].status # "absent"
    /\ \A o \in AllOrders : broker[o].status = "filled" =>
          \E i \in DOMAIN activity : activity[i].order = o /\ activity[i].leaves = 0

\* A version of the ledger: it books fills of its own orders only, and an order
\* whose last fill is booked is not working any more.
Books(log, led) ==
    /\ led \in Ledger
    /\ \A i \in led.booked :
          /\ i \in DOMAIN log /\ log[i].order \in Orders
          /\ log[i].leaves = 0 => led.status[log[i].order] \notin WorkingStatuses

\* QtyAfter, for any log.
QtyIn(log, s, fills) ==
    Opening[s] + Shares(log, s, "buy", fills) - Shares(log, s, "sell", fills)

\* Some fills of a log never leave anybody short of a symbol.
Covered(log, fills) == \A s \in Symbols : QtyIn(log, s, fills) \in Nat

\* Neither the broker nor a version of the ledger is ever short.
NeverShort ==
    /\ Covered(activity, DOMAIN activity)
    /\ Covered(activity, saved.booked) /\ Covered(activity, work.booked)

Behind(led) == 1..led.mark \subseteq led.booked

\* A boot that has found nothing unexplained has booked whatever it has been through.
Fetched == {"replay", "orders", "refresh"}
ReplayInv ==
    /\ Behind(saved)
    /\ pc \in Reading /\ ~unexplained => Behind(work)
    /\ pc \in Fetched /\ ~unexplained => 1..(next - 1) \subseteq work.booked
    /\ pc \in Fetched \ {"replay"} => next > upto
    /\ pc = "up" => 1..upto \subseteq saved.booked

ControlInv ==
    /\ pc \in Reading \cup {"down", "up", "halted"}
    /\ next \in Nat \ {0} /\ upto \in 0..Len(activity)
    /\ refresh \subseteq Orders /\ unexplained \in BOOLEAN /\ still \in BOOLEAN

\* Nothing has happened that would explain a halt of this boot.
Quiet ==
    /\ still
    /\ \A o \in Manual : broker[o].status = "absent"
    /\ \A s \in Excluded : ~(QtyIn(activity, s, DOMAIN activity) > 0)

\* Then there is nothing to halt for, at any stage of it.
QuietInv ==
    /\ still /\ pc \in Fetched => upto = Len(activity)
    /\ Quiet => /\ pc # "halted"
                /\ pc \in Reading => ~unexplained
                /\ pc = "refresh" => \A o \in refresh : broker[o].status # "filled"

ReconcileInv ==
    /\ BrokerInv /\ Books(activity, saved) /\ Books(activity, work) /\ NeverShort
    /\ ReplayInv /\ ControlInv /\ QuietInv

-----------------------------------------------------------------------------
\* Shares, which LedgerQty and BrokerQty are sums of.

LEMMA SharesType ==
    ASSUME NEW log \in Seq(Activity), NEW fills \in SUBSET DOMAIN log, NEW s, NEW side
    PROVE  /\ IsFiniteSet(Of(log, s, side, fills))
           /\ [i \in Of(log, s, side, fills) |-> log[i].qty]
                  \in [Of(log, s, side, fills) -> 0..MaxShares]
           /\ Shares(log, s, side, fills) \in Nat
<1>. DEFINE S == Of(log, s, side, fills)
            f == [i \in S |-> log[i].qty]
<1>0. MaxShares \in Nat
  BY ReconcileAssumption
<1>1. S \subseteq DOMAIN log /\ DOMAIN log = 1..Len(log) /\ Len(log) \in Nat
  BY DEF Of
<1>2. IsFiniteSet(1..Len(log))
  BY <1>1, FS_Interval
<1>3. IsFiniteSet(S)
  BY <1>1, <1>2, FS_Subset
<1>4. ASSUME NEW i \in S PROVE log[i].qty \in 0..MaxShares
  <2>1. log[i] \in Activity
    BY <1>1, <1>4
  <2>. QED
    BY <1>0, <2>1 DEF Activity
<1>. HIDE DEF S
<1>5. f \in [S -> 0..MaxShares] /\ DOMAIN f = S
  BY <1>4
<1>6. Tally(f, MaxShares) \in Nat
  BY <1>0, <1>3, <1>5, TallyType, Zenon
<1>. QED
  BY <1>3, <1>5, <1>6 DEF Shares, S

\* A fill of the log that is not among the given ones.
NewFill(log, fills, i) ==
    log \in Seq(Activity) /\ fills \in SUBSET DOMAIN log /\ i \in DOMAIN log \ fills

\* What a fill is worth to a side of a symbol.
Worth(log, s, side, i) ==
    IF Terms[log[i].order].symbol = s /\ Terms[log[i].order].side = side
    THEN log[i].qty ELSE 0

\* One more fill adds its shares on its own side, and nothing on the other.
LEMMA SharesAdd ==
    ASSUME NEW log, NEW fills, NEW i, NewFill(log, fills, i), NEW s, NEW side
    PROVE  Shares(log, s, side, fills \cup {i}) =
               Shares(log, s, side, fills) + Worth(log, s, side, i)
<1>. DEFINE S == Of(log, s, side, fills)
            T == Of(log, s, side, fills \cup {i})
            f == [j \in S |-> log[j].qty]
            g == [j \in T |-> log[j].qty]
<1>. USE DEF NewFill, Worth
<1>0. MaxShares \in Nat
  BY ReconcileAssumption
<1>1. /\ IsFiniteSet(S) /\ f \in [S -> 0..MaxShares] /\ Shares(log, s, side, fills) \in Nat
      /\ Tally(f, MaxShares) = Shares(log, s, side, fills)
  BY SharesType DEF Shares
<1>2. fills \cup {i} \in SUBSET DOMAIN log
  OBVIOUS
<1>3. g \in [T -> 0..MaxShares] /\ Tally(g, MaxShares) = Shares(log, s, side, fills \cup {i})
  BY <1>2, SharesType, Zenon DEF Shares
<1>4. CASE Terms[log[i].order].symbol = s /\ Terms[log[i].order].side = side
  <2>1. T = S \cup {i} /\ i \notin S
    BY <1>4 DEF Of
  <2>2. (\A j \in S : g[j] = f[j]) /\ g[i] = log[i].qty
    BY <2>1
  <2>. HIDE DEF S, T, f, g
  <2>3. Grows(f, g, i, MaxShares)
    BY <1>0, <1>1, <1>3, <2>1, <2>2 DEF Grows
  <2>4. Tally(g, MaxShares) = Tally(f, MaxShares) + g[i]
    BY <2>3, TallyAdd
  <2>. QED
    BY <1>1, <1>3, <1>4, <2>2, <2>4
<1>5. CASE ~(Terms[log[i].order].symbol = s /\ Terms[log[i].order].side = side)
  <2>1. T = S
    BY <1>5 DEF Of
  <2>2. Shares(log, s, side, fills \cup {i}) = Shares(log, s, side, fills)
    BY <2>1 DEF Shares
  <2>. QED
    BY <1>1, <1>5, <2>2
<1>. QED
  BY <1>4, <1>5

\* What the fills bought or sold does not depend on the rest of the log.
Agree(log, new, fills) == \A i \in fills : new[i] = log[i]

LEMMA SharesKept ==
    ASSUME NEW log, NEW new, NEW fills, NEW s, NEW side, Agree(log, new, fills)
    PROVE  Shares(new, s, side, fills) = Shares(log, s, side, fills)
<1>. USE DEF Agree
<1>1. Of(new, s, side, fills) = Of(log, s, side, fills)
  BY DEF Of
<1>2. [i \in Of(new, s, side, fills) |-> new[i].qty]
          = [i \in Of(log, s, side, fills) |-> log[i].qty]
  BY <1>1 DEF Of
<1>. QED
  BY <1>2 DEF Shares

LEMMA QtyType ==
    ASSUME NEW log \in Seq(Activity), NEW fills \in SUBSET DOMAIN log, NEW s \in Symbols
    PROVE  QtyIn(log, s, fills) \in Int
<1>1. Opening[s] \in Nat
  BY ReconcileAssumption
<1>2. Shares(log, s, "buy", fills) \in Nat /\ Shares(log, s, "sell", fills) \in Nat
  BY SharesType, Zenon
<1>. QED
  BY <1>1, <1>2 DEF QtyIn

\* A fill that the shares are there for leaves nobody short.
LEMMA QtyAdd ==
    ASSUME NEW log \in Seq(Activity), NEW fills \in SUBSET DOMAIN log,
           NEW i \in DOMAIN log, NEW s \in Symbols, QtyIn(log, s, fills) \in Nat,
           (Terms[log[i].order].symbol = s /\ Terms[log[i].order].side = "sell")
               => log[i].qty <= QtyIn(log, s, fills)
    PROVE  QtyIn(log, s, fills \cup {i}) \in Nat
<1>. DEFINE More(side) == Worth(log, s, side, i)
            Now(side) == Shares(log, s, side, fills)
            Then(side) == Shares(log, s, side, fills \cup {i})
<1>1. CASE i \in fills
  <2>1. fills \cup {i} = fills
    BY <1>1
  <2>. QED
    BY <2>1
<1>2. CASE i \notin fills
  <2>1. Now("buy") \in Nat /\ Now("sell") \in Nat
    BY SharesType, Zenon
  <2>2. Opening[s] \in Nat
    BY ReconcileAssumption
  <2>3. log[i].qty \in Nat
    <3>1. log[i] \in Activity /\ MaxShares \in Nat
      BY ReconcileAssumption
    <3>. QED
      BY <3>1 DEF Activity
  <2>b. NewFill(log, fills, i)
    BY <1>2 DEF NewFill
  <2>4. Then("buy") = Now("buy") + More("buy") /\ Then("sell") = Now("sell") + More("sell")
    BY <2>b, SharesAdd
  <2>5. More("buy") \in Nat /\ More("sell") \in Nat
    BY <2>3 DEF Worth
  <2>6. More("sell") # 0 => More("sell") <= QtyIn(log, s, fills)
    BY <2>3 DEF Worth
  <2>7. QtyIn(log, s, fills) = Opening[s] + Now("buy") - Now("sell")
    BY DEF QtyIn
  <2>8. QtyIn(log, s, fills \cup {i}) = Opening[s] + Then("buy") - Then("sell")
    BY DEF QtyIn
  <2>. HIDE DEF More, Now, Then
  <2>. QED
    BY <2>1, <2>2, <2>4, <2>5, <2>6, <2>7, <2>8, SMTT(40)
<1>. QED
  BY <1>1, <1>2

\* What some fills have come to stays so when the log grows.
LEMMA CoveredKept ==
    ASSUME NEW log \in Seq(Activity), NEW a \in Activity, NEW fills \in SUBSET DOMAIN log,
           Covered(log, fills)
    PROVE  Covered(Append(log, a), fills)
<1>. DEFINE new == Append(log, a)
<1>1. Agree(log, new, fills)
  BY DEF Agree
<1>. HIDE DEF new
<1>2. ASSUME NEW s, NEW side PROVE Shares(new, s, side, fills) = Shares(log, s, side, fills)
  BY <1>1, SharesKept
<1>3. Covered(new, fills)
  BY <1>2 DEF Covered, QtyIn
<1>. QED
  BY <1>3 DEF new

LEMMA BooksKept ==
    ASSUME NEW log \in Seq(Activity), NEW a \in Activity, NEW led, Books(log, led)
    PROVE  Books(Append(log, a), led)
<1>1. \A i \in DOMAIN log : i \in DOMAIN Append(log, a) /\ Append(log, a)[i] = log[i]
  OBVIOUS
<1>. QED
  BY <1>1 DEF Books

-----------------------------------------------------------------------------
LEMMA TermsType ==
    ASSUME NEW o \in AllOrders
    PROVE  /\ Terms[o].qty \in 1..MaxShares /\ Terms[o].symbol \in Symbols
           /\ Terms[o].side \in {"buy", "sell"} /\ MaxShares \in Nat
BY ReconcileAssumption

LEMMA ReconcileInitially == Init => ReconcileInv
<1>. SUFFICES ASSUME Init PROVE ReconcileInv
  OBVIOUS
<1>. USE DEF Init
<1>1. BrokerInv
  BY TermsType DEF BrokerInv, Words, AllOrders, Activity
<1>2. Books(activity, saved) /\ work = saved
  BY DEF Books, Ledger, Statuses
<1>3. \A s \in Symbols : QtyIn(<<>>, s, {}) = Opening[s]
  <2>1. \A s, side : Shares(<<>>, s, side, {}) = 0
    <3>1. \A s, side : Of(<<>>, s, side, {}) = {}
      BY DEF Of
    <3>2. MaxShares \in Nat
      BY ReconcileAssumption
    <3>3. Tally([i \in {} |-> 0], MaxShares) = 0
      BY <3>2, TallyZero
    <3>4. \A s, side : [i \in Of(<<>>, s, side, {}) |-> <<>>[i].qty] = [i \in {} |-> 0]
      BY <3>1
    <3>. QED
      BY <3>3, <3>4 DEF Shares
  <2>. QED
    BY <2>1, ReconcileAssumption DEF QtyIn
<1>4. NeverShort
  BY <1>3, ReconcileAssumption DEF NeverShort, Covered
<1>5. ReplayInv
  BY DEF ReplayInv, Behind, Fetched, Reading
<1>6. ControlInv
  <2>1. upto \in 0..Len(activity) /\ next \in Nat \ {0}
    OBVIOUS
  <2>. QED
    BY <2>1 DEF ControlInv
<1>7. QuietInv
  BY DEF QuietInv, Fetched, Reading
<1>. QED
  BY <1>1, <1>2, <1>4, <1>5, <1>6, <1>7 DEF ReconcileInv

-----------------------------------------------------------------------------
\* While the broker holds still, what is said of it stays so.
LEMMA BrokerStill ==
    ASSUME BrokerInv, UNCHANGED <<broker, activity>>
    PROVE  BrokerInv' /\ (still' = still => (Quiet' <=> Quiet))
<1>1. BrokerInv'
  BY DEF BrokerInv
<1>2. ASSUME still' = still PROVE Quiet' <=> Quiet
  BY <1>2 DEF Quiet, QtyIn
<1>. QED
  BY <1>1, <1>2

\* A rollback goes back to a version of the ledger that is as good, and a boot
\* that was not quiet may halt with it.
LEMMA FallStep ==
    ASSUME ReconcileInv, NEW to \in {"down", "halted"}, Fall(to), to = "halted" => ~Quiet
    PROVE  ReconcileInv'
<1>. USE DEF ReconcileInv, Fall
<1>1. BrokerInv' /\ (Quiet' <=> Quiet)
  BY BrokerStill
<1>2. Books(activity, saved)' /\ Books(activity, work)'
  BY DEF Books
<1>3. NeverShort'
  BY DEF NeverShort, Covered, QtyIn
<1>4. ReplayInv'
  BY DEF ReplayInv, Behind, Fetched, Reading
<1>5. ControlInv'
  BY DEF ControlInv
<1>6. QuietInv'
  BY <1>1 DEF QuietInv, Fetched, Reading
<1>. QED
  BY <1>1, <1>2, <1>3, <1>4, <1>5, <1>6

\* The broker moves: the boot's own state is what it was, and not still any more.
LEMMA BrokerMoves ==
    ASSUME ReconcileInv, still' = FALSE, BrokerInv', UNCHANGED <<saved, process>>,
           \/ activity' = activity
           \/ \E a \in Activity : activity' = Append(activity, a)
                                  /\ Covered(activity', DOMAIN activity')
    PROVE  ReconcileInv'
<1>. USE DEF ReconcileInv, process
<1>1. activity \in Seq(Activity) /\ saved.booked \subseteq DOMAIN activity
      /\ work.booked \subseteq DOMAIN activity
  BY DEF BrokerInv, Books
<1>2. Books(activity, saved)' /\ Books(activity, work)' /\ NeverShort'
      /\ Len(activity) <= Len(activity')
  <2>1. CASE activity' = activity
    BY <1>1, <2>1 DEF Books, NeverShort, Covered, QtyIn
  <2>2. ASSUME NEW a \in Activity, activity' = Append(activity, a),
               Covered(activity', DOMAIN activity')
        PROVE  Books(activity, saved)' /\ Books(activity, work)' /\ NeverShort'
               /\ Len(activity) <= Len(activity')
    <3>1. Books(activity', saved) /\ Books(activity', work)
      BY <1>1, <2>2, BooksKept
    <3>2. Covered(activity', saved.booked) /\ Covered(activity', work.booked)
      <4>1. Covered(activity, saved.booked) /\ Covered(activity, work.booked)
        BY DEF NeverShort
      <4>2. Covered(Append(activity, a), saved.booked)
        BY <1>1, <4>1, CoveredKept
      <4>3. Covered(Append(activity, a), work.booked)
        BY <1>1, <4>1, CoveredKept
      <4>. QED
        BY <2>2, <4>2, <4>3
    <3>3. Len(activity) <= Len(activity')
      BY <1>1, <2>2
    <3>. QED
      BY <2>2, <3>1, <3>2, <3>3 DEF NeverShort
  <2>. QED
    BY <2>1, <2>2
<1>3. ReplayInv'
  BY DEF ReplayInv, Behind
<1>4. ControlInv'
  <2>1. Len(activity) \in Nat /\ Len(activity') \in Nat
    BY <1>1 DEF BrokerInv
  <2>2. upto' \in 0..Len(activity') /\ next' \in Nat \ {0}
    BY <1>2, <2>1 DEF ControlInv
  <2>. QED
    BY <2>2 DEF ControlInv
<1>5. QuietInv'
  BY DEF QuietInv, Quiet
<1>. QED
  BY <1>2, <1>3, <1>4, <1>5

LEMMA PlaceManuallyStep ==
    ASSUME ReconcileInv, NEW o \in Manual, PlaceManually(o)
    PROVE  ReconcileInv'
<1>. USE DEF PlaceManually
<1>1. BrokerInv'
  <2>1. o \in AllOrders
    BY DEF AllOrders
  <2>. QED
    BY <2>1 DEF ReconcileInv, BrokerInv, Words
<1>. QED
  BY <1>1, BrokerMoves

LEMMA BrokerCloseStep ==
    ASSUME ReconcileInv, NEW o \in AllOrders, NEW how \in Closings, BrokerClose(o, how)
    PROVE  ReconcileInv'
<1>. USE DEF BrokerClose
<1>1. BrokerInv'
  <2>1. how \notin {"absent", "open", "filled"}
    BY ReconcileAssumption
  <2>. QED
    BY <2>1 DEF ReconcileInv, BrokerInv, Words
<1>. QED
  BY <1>1, BrokerMoves

\* A fill is in the log with the broker's move, and a sale had the shares.
LEMMA BrokerFillStep ==
    ASSUME ReconcileInv, NEW o \in AllOrders, NEW q \in 1..Terms[o].qty, BrokerFill(o, q)
    PROVE  ReconcileInv'
<1>. DEFINE a == [order |-> o, qty |-> q, leaves |-> broker[o].leaves - q]
            n == Len(activity)
            log == Append(activity, a)
<1>. USE DEF ReconcileInv
<1>0. activity \in Seq(Activity) /\ activity' = log /\ n \in Nat /\ DOMAIN activity = 1..n
  BY DEF BrokerInv, BrokerFill
<1>1. a \in Activity
  BY TermsType DEF Activity, BrokerFill, BrokerInv
<1>2. /\ log \in Seq(Activity) /\ DOMAIN log = 1..(n + 1) /\ log[n + 1] = a
      /\ \A i \in 1..n : log[i] = activity[i]
  BY <1>0, <1>1
<1>3. BrokerInv'
  <2>1. broker' \in [AllOrders -> [status : Words, leaves : Nat]]
        /\ \A p \in AllOrders : broker'[p].leaves <= Terms[p].qty
    BY TermsType DEF BrokerInv, BrokerFill, Words
  <2>2. ASSUME NEW i \in 1..(n + 1)
        PROVE  broker'[log[i].order].status # "absent"
    <3>1. CASE i = n + 1
      BY <1>2, <3>1 DEF BrokerFill, BrokerInv
    <3>2. CASE i \in 1..n
      <4>1. activity[i] \in Activity /\ broker[activity[i].order].status # "absent"
        BY <1>0, <3>2 DEF BrokerInv
      <4>. QED
        BY <1>2, <3>2, <4>1 DEF BrokerFill, BrokerInv, Activity
    <3>. QED
      BY <1>0, <3>1, <3>2
  <2>3. ASSUME NEW p \in AllOrders, broker'[p].status = "filled"
        PROVE  \E i \in 1..(n + 1) : log[i].order = p /\ log[i].leaves = 0
    <3>1. CASE broker[p].status = "filled"
      <4>1. PICK i \in 1..n : activity[i].order = p /\ activity[i].leaves = 0
        BY <1>0, <3>1 DEF BrokerInv
      <4>. QED
        BY <1>0, <1>2, <4>1
    <3>2. CASE broker[p].status # "filled"
      <4>1. p = o /\ q = broker[o].leaves
        BY <2>3, <3>2 DEF BrokerFill, BrokerInv
      <4>2. log[n + 1].order = p /\ log[n + 1].leaves = 0
        BY <1>2, <4>1
      <4>. QED
        BY <1>0, <4>2
    <3>. QED
      BY <3>1, <3>2
  <2>. QED
    BY <1>0, <1>2, <2>1, <2>2, <2>3, SMTT(40) DEF BrokerInv
<1>4. Covered(log, DOMAIN log)
  <2>1. Covered(log, 1..n)
    <3>1. Covered(activity, 1..n) /\ 1..n \in SUBSET DOMAIN activity
      BY <1>0 DEF NeverShort
    <3>. QED
      BY <1>0, <1>1, <3>1, CoveredKept
  <2>2. ASSUME NEW s \in Symbols PROVE QtyIn(log, s, 1..n) = QtyIn(activity, s, 1..n)
    <3>1. Agree(activity, log, 1..n)
      BY <1>2 DEF Agree
    <3>. HIDE DEF log
    <3>2. /\ Shares(log, s, "buy", 1..n) = Shares(activity, s, "buy", 1..n)
          /\ Shares(log, s, "sell", 1..n) = Shares(activity, s, "sell", 1..n)
      BY <3>1, SharesKept
    <3>. QED
      BY <3>2 DEF QtyIn
  <2>3. ASSUME NEW s \in Symbols PROVE QtyIn(log, s, 1..n \cup {n + 1}) \in Nat
    <3>1. Terms[o].symbol = s /\ Terms[o].side = "sell" => q <= QtyIn(log, s, 1..n)
      BY <1>0, <2>2 DEF BrokerFill, BrokerQty, QtyAfter, QtyIn
    <3>2. log[n + 1].order = o /\ log[n + 1].qty = q
      BY <1>2
    <3>3. QtyIn(log, s, 1..n) \in Nat
      BY <2>1 DEF Covered
    <3>4. log \in Seq(Activity) /\ 1..n \in SUBSET DOMAIN log /\ n + 1 \in DOMAIN log
      BY <1>0, <1>2
    <3>. HIDE DEF log, n
    <3>. QED
      BY <3>1, <3>2, <3>3, <3>4, QtyAdd
  <2>4. 1..n \cup {n + 1} = DOMAIN log
    BY <1>0, <1>2
  <2>. QED
    BY <2>3, <2>4 DEF Covered
<1>5. UNCHANGED <<saved, process>> /\ still' = FALSE
  BY DEF BrokerFill
<1>. QED
  BY <1>0, <1>1, <1>3, <1>4, <1>5, BrokerMoves

-----------------------------------------------------------------------------
LEMMA StartBootStep ==
    ASSUME ReconcileInv, StartBoot
    PROVE  ReconcileInv'
<1>. USE DEF ReconcileInv, StartBoot
<1>1. BrokerInv'
  BY BrokerStill
<1>2. Books(activity, saved)' /\ Books(activity, work)' /\ NeverShort'
  BY DEF Books, NeverShort, Covered, QtyIn
<1>3. ReplayInv'
  BY DEF ReplayInv, Behind, Fetched, Reading
<1>4. ControlInv'
  BY DEF ControlInv, Reading
<1>5. QuietInv'
  BY DEF QuietInv, Fetched, Reading
<1>. QED
  BY <1>1, <1>2, <1>3, <1>4, <1>5

LEMMA FetchActivitiesStep ==
    ASSUME ReconcileInv, FetchActivities
    PROVE  ReconcileInv'
<1>. USE DEF ReconcileInv, FetchActivities
<1>1. BrokerInv' /\ (Quiet' <=> Quiet)
  BY BrokerStill
<1>2. Books(activity, saved)' /\ Books(activity, work)' /\ NeverShort'
  BY DEF Books, NeverShort, Covered, QtyIn
<1>3. work.mark \in Nat /\ next' = work.mark + 1 /\ next' - 1 = work.mark
      /\ Len(activity) \in Nat
  BY DEF Books, Ledger, BrokerInv
<1>4. ReplayInv'
  BY <1>3 DEF ReplayInv, Behind, Fetched, Reading
<1>5. ControlInv'
  BY <1>3 DEF ControlInv, Reading
<1>6. QuietInv'
  BY <1>1 DEF QuietInv, Fetched, Reading
<1>. QED
  BY <1>1, <1>2, <1>4, <1>5, <1>6

\* What Replayed does to a version of the ledger, and that the order of a fill that
\* was the last is not working after it.
LEMMA ReplayedFacts ==
    ASSUME ReconcileInv, NEW i \in DOMAIN activity, activity[i].order \in Orders,
           Accepts(work, i)
    PROVE  /\ Books(activity, Replayed(work, i))
           /\ Replayed(work, i).booked = work.booked \cup {i}
           /\ Replayed(work, i).mark = (IF work.mark >= i THEN work.mark ELSE i)
<1>. DEFINE o == activity[i].order
            target == IF activity[i].leaves = 0 THEN "FILLED" ELSE "PARTIALLY_FILLED"
            mark == Max({work.mark, i})
            status == [work.status EXCEPT ![o] = IF @ \in WorkingStatuses THEN target ELSE @]
            new == Replayed(work, i)
<1>0. Books(activity, work) /\ work \in Ledger /\ activity \in Seq(Activity)
  BY DEF ReconcileInv, Books, BrokerInv
<1>1. i \in Nat /\ work.mark \in Nat /\ work.booked \in SUBSET Nat
      /\ work.status \in [Orders -> Statuses]
  BY <1>0 DEF Ledger
<1>2. mark = IF work.mark >= i THEN work.mark ELSE i
  BY <1>1 DEF Max
<1>3. mark \in Nat
  BY <1>1, <1>2
<1>. HIDE DEF mark
<1>4. status \in [Orders -> Statuses]
  BY <1>1 DEF Statuses
<1>5. new = [work EXCEPT !.booked = work.booked \cup {i}, !.mark = mark, !.status = status]
  <2>. USE DEF Ledger
  <2>1. new = [work EXCEPT !.booked = @ \cup {i}, !.mark = mark,
                           !.status[o] = IF @ \in WorkingStatuses THEN target ELSE @]
    BY DEF Replayed, mark
  <2>. QED
    BY <1>0, <2>1
<1>. HIDE DEF status
<1>6. /\ new.booked = work.booked \cup {i} /\ new.mark = mark /\ new.status = status
      /\ new \in Ledger
  BY <1>0, <1>1, <1>3, <1>4, <1>5, ZenonT(60) DEF Ledger
<1>7. ASSUME NEW j \in new.booked
      PROVE  /\ j \in DOMAIN activity /\ activity[j].order \in Orders
             /\ activity[j].leaves = 0 => status[activity[j].order] \notin WorkingStatuses
  <2>1. j = i \/ j \in work.booked
    BY <1>6, <1>7
  <2>2. j \in DOMAIN activity /\ activity[j].order \in Orders
    BY <1>0, <2>1 DEF Books
  <2>3. ASSUME activity[j].leaves = 0
        PROVE  status[activity[j].order] \notin WorkingStatuses
    <3>1. CASE activity[j].order # o
      <4>1. j \in work.booked
        BY <2>1, <3>1
      <4>2. work.status[activity[j].order] \notin WorkingStatuses
        BY <1>0, <2>3, <4>1 DEF Books
      <4>3. status[activity[j].order] = work.status[activity[j].order]
        BY <1>1, <2>2, <3>1 DEF status
      <4>. QED
        BY <4>2, <4>3
    <3>2. CASE activity[j].order = o
      <4>1. status[o] = IF work.status[o] \in WorkingStatuses THEN target ELSE work.status[o]
        BY <1>1 DEF status
      <4>2. CASE j = i
        <5>1. target = "FILLED"
          BY <2>3, <4>2
        <5>. QED
          BY <3>2, <4>1, <5>1 DEF WorkingStatuses
      <4>3. CASE j \in work.booked
        <5>1. work.status[o] \notin WorkingStatuses
          BY <1>0, <2>3, <3>2, <4>3 DEF Books
        <5>. QED
          BY <3>2, <4>1, <5>1
      <4>. QED
        BY <2>1, <4>2, <4>3
    <3>. QED
      BY <3>1, <3>2
  <2>. QED
    BY <2>2, <2>3
<1>. QED
  BY <1>2, <1>6, <1>7 DEF Books

LEMMA ReplayStep ==
    ASSUME ReconcileInv, Replay
    PROVE  ReconcileInv'
<1>. USE DEF ReconcileInv
<1>0. /\ pc = "replay" /\ next <= upto /\ next \in Nat \ {0} /\ next \in DOMAIN activity
      /\ activity \in Seq(Activity) /\ upto \in Nat
  BY DEF Replay, ControlInv, BrokerInv
<1>1. CASE Fall("down")
  BY <1>1, FallStep
<1>2. CASE /\ activity[next].order \in Manual
           /\ unexplained' = TRUE /\ next' = next + 1
           /\ UNCHANGED <<broker, activity, saved, work, pc, upto, refresh, still, boots>>
  <2>1. BrokerInv' /\ (Quiet' <=> Quiet)
    BY <1>2, BrokerStill
  <2>2. Books(activity, saved)' /\ Books(activity, work)' /\ NeverShort'
    BY <1>2 DEF Books, NeverShort, Covered, QtyIn
  <2>3. ReplayInv'
    BY <1>0, <1>2 DEF ReplayInv, Behind, Fetched, Reading
  <2>4. ControlInv'
    BY <1>0, <1>2 DEF ControlInv
  <2>5. ~Quiet
    BY <1>0, <1>2 DEF Quiet, BrokerInv
  <2>6. QuietInv'
    BY <1>2, <2>1, <2>5 DEF QuietInv
  <2>. QED
    BY <2>1, <2>2, <2>3, <2>4, <2>6
<1>3. CASE /\ activity[next].order \in Orders /\ Accepts(work, next)
           /\ work' = Replayed(work, next)
           /\ next' = next + 1
           /\ UNCHANGED <<broker, activity, saved, pc, upto, refresh, unexplained, still, boots>>
  <2>1. BrokerInv' /\ (Quiet' <=> Quiet)
    BY <1>3, BrokerStill
  <2>2. /\ Books(activity, work') /\ work'.booked = work.booked \cup {next}
        /\ work'.mark = (IF work.mark >= next THEN work.mark ELSE next)
    BY <1>0, <1>3, ReplayedFacts
  <2>3. Books(activity, saved)' /\ Books(activity, work)'
    BY <1>3, <2>2 DEF Books
  <2>4. Covered(activity, work.booked \cup {next})
    <3>1. work.booked \in SUBSET DOMAIN activity
      BY DEF Books
    <3>2. ASSUME NEW s \in Symbols PROVE QtyIn(activity, s, work.booked \cup {next}) \in Nat
      <4>1. QtyIn(activity, s, work.booked) \in Nat
        BY DEF NeverShort, Covered
      <4>2. Terms[activity[next].order].symbol = s /\ Terms[activity[next].order].side = "sell"
              => activity[next].qty <= QtyIn(activity, s, work.booked)
        BY <1>3 DEF Accepts, QtyAfter, QtyIn
      <4>. QED
        BY <1>0, <3>1, <4>1, <4>2, QtyAdd
    <3>. QED
      BY <3>2 DEF Covered
  <2>5. NeverShort'
    BY <1>3, <2>2, <2>4 DEF NeverShort, Covered, QtyIn
  <2>6. ReplayInv'
    <3>1. work.mark \in Nat
      BY DEF Books, Ledger
    <3>2. ~unexplained => Behind(work)' /\ 1..(next' - 1) \subseteq work'.booked
      <4>. SUFFICES ASSUME ~unexplained
                    PROVE  Behind(work)' /\ 1..(next' - 1) \subseteq work'.booked
        OBVIOUS
      <4>1. 1..work.mark \subseteq work.booked /\ 1..(next - 1) \subseteq work.booked
        BY <1>0 DEF ReplayInv, Behind, Fetched, Reading
      <4>2. 1..next \subseteq work'.booked
        BY <1>0, <2>2, <4>1
      <4>3. 1..work'.mark \subseteq work'.booked
        BY <2>2, <4>1, <4>2
      <4>. QED
        BY <1>0, <1>3, <4>2, <4>3 DEF Behind
    <3>. QED
      BY <1>0, <1>3, <3>2 DEF ReplayInv, Behind
  <2>7. ControlInv'
    BY <1>0, <1>3 DEF ControlInv
  <2>8. QuietInv'
    BY <1>0, <1>3, <2>1 DEF QuietInv
  <2>. QED
    BY <2>1, <2>3, <2>5, <2>6, <2>7, <2>8
<1>. QED
  BY <1>1, <1>2, <1>3 DEF Replay

\* A quiet boot that has been through what it fetched has every fill there is.
LEMMA QuietHasAll ==
    ASSUME ReconcileInv, Quiet, pc \in Fetched, next > upto
    PROVE  work.booked = DOMAIN activity /\ ~unexplained
<1>. USE DEF ReconcileInv
<1>1. still /\ pc \in Reading
  BY DEF Quiet, Fetched, Reading
<1>2. ~unexplained /\ upto = Len(activity)
  BY <1>1 DEF QuietInv
<1>3. 1..(next - 1) \subseteq work.booked
  BY <1>2 DEF ReplayInv
<1>4. work.booked \subseteq DOMAIN activity /\ DOMAIN activity = 1..Len(activity)
      /\ Len(activity) \in Nat
  BY DEF Books, BrokerInv
<1>5. next \in Nat /\ 1..Len(activity) \subseteq 1..(next - 1)
  BY <1>2, <1>4 DEF ControlInv
<1>. QED
  BY <1>2, <1>3, <1>4, <1>5

\* The steps that only look at the broker and the ledger, and note what they find.
LEMMA CompareStep ==
    ASSUME ReconcileInv, pc \in Fetched, next > upto, pc' \in {"orders", "refresh"},
           UNCHANGED <<broker, activity, saved, work, next, upto, still>>,
           unexplained' \in BOOLEAN, ~unexplained' => ~unexplained,
           refresh' \subseteq Orders, Quiet => ~unexplained',
           Quiet /\ pc' = "refresh" => \A o \in refresh' : broker[o].status # "filled"
    PROVE  ReconcileInv'
<1>. USE DEF ReconcileInv
<1>1. BrokerInv' /\ (Quiet' <=> Quiet)
  BY BrokerStill
<1>2. Books(activity, saved)' /\ Books(activity, work)' /\ NeverShort'
  BY DEF Books, NeverShort, Covered, QtyIn
<1>3. ReplayInv'
  BY DEF ReplayInv, Behind, Fetched, Reading
<1>4. ControlInv'
  BY DEF ControlInv, Reading
<1>5. QuietInv'
  <2>1. still' /\ pc' \in Fetched => upto' = Len(activity')
    BY DEF QuietInv
  <2>. QED
    BY <1>1, <2>1 DEF QuietInv
<1>. QED
  BY <1>1, <1>2, <1>3, <1>4, <1>5

LEMMA ComparePositionsStep ==
    ASSUME ReconcileInv, ComparePositions
    PROVE  ReconcileInv'
<1>. USE DEF ComparePositions
<1>1. pc \in Fetched /\ unexplained \in BOOLEAN /\ refresh \subseteq Orders
  BY DEF Fetched, ReconcileInv, ControlInv
<1>2. ASSUME Quiet PROVE ~unexplained'
  <2>1. work.booked = DOMAIN activity /\ ~unexplained
    BY <1>1, <1>2, QuietHasAll
  <2>2. \A s \in Symbols : LedgerQty(s) = BrokerQty(s)
    BY <2>1 DEF LedgerQty, BrokerQty
  <2>3. \A s \in Excluded : ~(BrokerQty(s) > 0)
    BY <1>2 DEF Quiet, BrokerQty, QtyAfter, QtyIn
  <2>. QED
    BY <2>1, <2>2, <2>3
<1>. QED
  BY <1>1, <1>2, CompareStep

LEMMA CompareOpenOrdersStep ==
    ASSUME ReconcileInv, CompareOpenOrders
    PROVE  ReconcileInv'
<1>. USE DEF CompareOpenOrders
<1>1. pc \in Fetched /\ unexplained \in BOOLEAN /\ refresh' \subseteq Orders /\ next > upto
  BY DEF Fetched, ReconcileInv, ControlInv, ReplayInv
<1>2. ASSUME Quiet PROVE ~unexplained' /\ \A o \in refresh' : broker[o].status # "filled"
  <2>1. work.booked = DOMAIN activity /\ ~unexplained
    BY <1>1, <1>2, QuietHasAll
  <2>2. ~unexplained'
    BY <1>2, <2>1 DEF Quiet
  <2>3. ASSUME NEW o \in refresh', broker[o].status = "filled" PROVE FALSE
    <3>1. o \in AllOrders /\ work.status[o] \in WorkingStatuses
      BY <2>3 DEF AllOrders
    <3>2. PICK i \in DOMAIN activity : activity[i].order = o /\ activity[i].leaves = 0
      BY <2>3, <3>1 DEF ReconcileInv, BrokerInv
    <3>3. work.status[o] \notin WorkingStatuses
      BY <2>1, <3>2 DEF ReconcileInv, Books
    <3>. QED
      BY <3>1, <3>3
  <2>. QED
    BY <2>2, <2>3
<1>. QED
  BY <1>1, <1>2, CompareStep

LEMMA RefreshOneStep ==
    ASSUME ReconcileInv, NEW o \in Orders, RefreshOne(o)
    PROVE  ReconcileInv'
<1>. DEFINE now == broker[o].status
<1>0. /\ pc = "refresh" /\ pc \in Fetched /\ o \in refresh
      /\ unexplained \in BOOLEAN /\ refresh \subseteq Orders /\ next > upto
  BY DEF RefreshOne, Fetched, ReconcileInv, ControlInv, ReplayInv
<1>1. CASE Fall("down")
  BY <1>1, FallStep
<1>2. CASE /\ now = "filled" /\ unexplained' = TRUE /\ refresh' = refresh \ {o}
           /\ UNCHANGED <<broker, activity, saved, work, pc, next, upto, still, boots>>
  <2>1. ~Quiet
    BY <1>0, <1>2 DEF ReconcileInv, QuietInv
  <2>. QED
    BY <1>0, <1>2, <2>1, CompareStep
<1>3. CASE /\ now \in Closings /\ work' = [work EXCEPT !.status[o] = now]
           /\ refresh' = refresh \ {o}
           /\ UNCHANGED <<broker, activity, saved, pc, next, upto, unexplained, still, boots>>
  <2>. USE DEF ReconcileInv
  <2>1. BrokerInv' /\ (Quiet' <=> Quiet)
    BY <1>3, BrokerStill
  <2>2. now \in Statuses /\ now \notin WorkingStatuses
    BY <1>3, ReconcileAssumption DEF Statuses, WorkingStatuses
  <2>3. work \in Ledger
    BY DEF Books
  <2>4. /\ work' \in Ledger /\ work'.booked = work.booked /\ work'.mark = work.mark
        /\ \A p \in Orders : work'.status[p] \in WorkingStatuses
                                => work.status[p] \in WorkingStatuses
    BY <1>3, <2>2, <2>3 DEF Ledger
  <2>5. Books(activity, saved)' /\ Books(activity, work)'
    BY <1>3, <2>4 DEF Books
  <2>6. NeverShort'
    BY <1>3, <2>4 DEF NeverShort, Covered, QtyIn
  <2>7. ReplayInv'
    BY <1>3, <2>4 DEF ReplayInv, Behind
  <2>8. ControlInv'
    BY <1>3 DEF ControlInv
  <2>9. QuietInv'
    BY <1>3, <2>1 DEF QuietInv
  <2>. QED
    BY <2>1, <2>5, <2>6, <2>7, <2>8, <2>9
<1>. QED
  BY <1>1, <1>2, <1>3 DEF RefreshOne

LEMMA VerdictStep ==
    ASSUME ReconcileInv, Verdict
    PROVE  ReconcileInv'
<1>. USE DEF ReconcileInv
<1>0. pc = "refresh" /\ pc \in Reading /\ pc \in Fetched
  BY DEF Verdict, Reading, Fetched
<1>1. CASE unexplained /\ Fall("halted")
  <2>1. ~Quiet
    BY <1>0, <1>1 DEF QuietInv
  <2>. QED
    BY <1>1, <2>1, FallStep
<1>2. CASE /\ ~unexplained /\ saved' = work /\ pc' = "up"
           /\ UNCHANGED <<broker, activity, work, next, upto, refresh, unexplained, still, boots>>
  <2>1. BrokerInv' /\ (Quiet' <=> Quiet)
    BY <1>2, BrokerStill
  <2>2. Books(activity, saved)' /\ Books(activity, work)' /\ NeverShort'
    BY <1>2 DEF Books, NeverShort, Covered, QtyIn
  <2>3. ReplayInv'
    <3>1. Behind(work) /\ 1..(next - 1) \subseteq work.booked /\ next > upto
      BY <1>0, <1>2 DEF ReplayInv
    <3>2. next \in Nat /\ upto \in Nat /\ 1..upto \subseteq 1..(next - 1)
      BY <3>1 DEF ControlInv, BrokerInv
    <3>3. Behind(saved)'
      BY <1>2, <3>1 DEF Behind
    <3>. QED
      BY <1>2, <3>1, <3>2, <3>3 DEF ReplayInv, Fetched, Reading
  <2>4. ControlInv'
    BY <1>2 DEF ControlInv
  <2>5. QuietInv'
    BY <1>2, <2>1 DEF QuietInv, Fetched, Reading
  <2>. QED
    BY <2>1, <2>2, <2>3, <2>4, <2>5
<1>. QED
  BY <1>0, <1>1, <1>2 DEF Verdict

LEMMA ReconcileStep == ReconcileInv /\ [Next]_vars => ReconcileInv'
<1>. SUFFICES ASSUME ReconcileInv, [Next]_vars PROVE ReconcileInv'
  OBVIOUS
<1>1. CASE BrokerStep
  BY <1>1, PlaceManuallyStep, BrokerFillStep, BrokerCloseStep DEF BrokerStep
<1>2. CASE StartBoot
  BY <1>2, StartBootStep
<1>3. CASE BootStep
  BY <1>3, FetchActivitiesStep, ReplayStep, ComparePositionsStep, CompareOpenOrdersStep,
     RefreshOneStep, VerdictStep DEF BootStep
<1>4. CASE Restart
  BY <1>4, FallStep DEF Restart
<1>5. CASE UNCHANGED vars
  <2>. USE <1>5 DEF vars, process, ReconcileInv
  <2>1. BrokerInv' /\ (Quiet' <=> Quiet)
    BY BrokerStill
  <2>2. Books(activity, saved)' /\ Books(activity, work)' /\ NeverShort'
    BY DEF Books, NeverShort, Covered, QtyIn
  <2>3. ReplayInv' /\ ControlInv'
    BY DEF ReplayInv, ControlInv, Behind
  <2>4. QuietInv'
    BY <2>1 DEF QuietInv
  <2>. QED
    BY <2>1, <2>2, <2>3, <2>4
<1>. QED
  BY <1>1, <1>2, <1>3, <1>4, <1>5 DEF Next

LEMMA ReconcileInvariant == Spec => []ReconcileInv
<1>. QED
  BY ReconcileInitially, ReconcileStep, PTL DEF Spec

-----------------------------------------------------------------------------
\* Type correctness, and nobody short: neither the broker, nor the ledger at any
\* point of a replay, ever has less than nothing of a symbol (apply_fill, reconcile).
THEOREM ReconcileTypeCorrect == Spec => []TypeOK
<1>1. ReconcileInv => TypeOK
  <2>. SUFFICES ASSUME ReconcileInv PROVE TypeOK
    OBVIOUS
  <2>. USE DEF ReconcileInv
  <2>1. ASSUME NEW o \in AllOrders
        PROVE  /\ broker[o].status \in {"absent", "open", "filled"} \cup Closings
               /\ broker[o].leaves \in 0..Terms[o].qty
    BY TermsType DEF BrokerInv, Words
  <2>2. ASSUME NEW s \in Symbols PROVE BrokerQty(s) >= 0 /\ LedgerQty(s) >= 0
    BY DEF NeverShort, Covered, QtyIn, BrokerQty, LedgerQty, QtyAfter
  <2>3. upto <= Len(activity)
    BY DEF ControlInv, BrokerInv
  <2>. QED
    BY <2>1, <2>2, <2>3 DEF TypeOK, ControlInv, Books
<1>. QED
  BY <1>1, ReconcileInvariant, PTL

\* What a boot does not fetch is booked: the mark that is committed never passes a
\* fill that is not (last_reconciled_event_at, activities_since).
THEOREM ReconcileNothingBehindWatermark == Spec => []NothingBehindWatermark
<1>1. ReconcileInv => NothingBehindWatermark
  BY DEF ReconcileInv, ReplayInv, Behind, NothingBehindWatermark
<1>. QED
  BY <1>1, ReconcileInvariant, PTL

\* SPEC 8.6, for any log of fills and any crashes on the way: a boot that comes up
\* has booked every fill it fetched, and all were of the ledger's orders (reconcile).
THEOREM ReconcileRunningMeansReplayed == Spec => []RunningMeansReplayed
<1>1. ReconcileInv => RunningMeansReplayed
  BY DEF ReconcileInv, ReplayInv, Books, RunningMeansReplayed
<1>. QED
  BY <1>1, ReconcileInvariant, PTL

\* A halt is never the reconciliation's own doing (reconcile's rep.unexplained).
THEOREM ReconcileHaltIsExplained == Spec => []HaltIsExplained
<1>1. ReconcileInv => HaltIsExplained
  BY DEF ReconcileInv, QuietInv, Quiet, HaltIsExplained, BrokerQty, QtyAfter, QtyIn
<1>. QED
  BY <1>1, ReconcileInvariant, PTL
=============================================================================
