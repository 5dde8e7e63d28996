---------------------------- MODULE Stops_proofs ----------------------------
(***************************************************************************)
(* No worker runs beside an order it does not know, the re-arm doubles no  *)
(* exit, and the final verification covers every position: for any number  *)
(* of positions, shares, orders and sessions, and wherever the broker      *)
(* moves between two calls.                                                *)
(***************************************************************************)
EXTENDS Stops, Sums_proofs

Words == BrokerOpen \cup {"filled", "canceled", "absent"}
OrderRows == [status : Statuses, position : Positions \cup {"none"}, booked : Nat]
CoverRows == [result : {"none", "missing", "live", "not_applicable", "software_stop_placed"},
              order : Orders \cup {0}, verified : BOOLEAN]
Ledgers == [order : [Orders -> OrderRows], qty : [Positions -> 0..Qty],
            cover : [Positions -> CoverRows]]
BrokerOrders == [status : Words, position : Positions \cup {"none"}, filled : 0..Qty, leaves : 0..Qty]
JobStates == [kind : Jobs \cup {"none"}, rest : SUBSET Positions, on : Positions \cup {"none"},
              look : SUBSET Orders, seen : Words \cup {"none"}, seenOrder : Orders \cup {0}]

-----------------------------------------------------------------------------
(***************************************************************************)
(* The inductive invariant.                                                *)
(***************************************************************************)
Tables ==
    /\ observeOnly \in BOOLEAN /\ levels \subseteq Positions
    /\ ledger \in Ledgers /\ saved \in Ledgers
    /\ broker \in [Orders -> BrokerOrders]
    /\ clock \in DOMAIN Following /\ due \in BOOLEAN
    /\ process \in {"up", "down", "halted"}
    /\ job \in JobStates

\* An order at the broker: none before it is submitted, and a gateway that observes
\* submits none; what is open has shares left, and none is filled beyond its size.
BrokerSound(observes, orders) ==
    \A o \in Orders :
        /\ orders[o].status = "absent" \/ observes => orders[o] = Absent
        /\ orders[o].status \in BrokerOpen => orders[o].leaves > 0
        /\ orders[o].filled + orders[o].leaves <= Qty

\* A row and its order at the broker: while the broker works an order its row, if there
\* is one, is a working one of the same position, and no fill is booked that is not.
RowMatches(observes, row, ord) ==
    /\ row.status = "none" => row = NoOrder
    /\ row.booked <= ord.filled
    /\ row # NoOrder =>
          /\ observes => row.status \notin WorkingStatuses
          /\ ~observes => ord.status # "absent" /\ ord.position = row.position
          /\ ord.status \in BrokerOpen => row.status \in WorkingStatuses

Matches(observes, rows, orders) == \A o \in Orders : RowMatches(observes, rows[o], orders[o])

\* What the broker has sold of a position it held, and the ledger may not know yet.
HeldIn(orders, p) ==
    Qty - Tally([o \in Orders |-> IF orders[o].position = p THEN orders[o].filled ELSE 0], Qty)

Sold(qty, orders) ==
    \A p \in Positions : HeldIn(orders, p) \in 0..Qty /\ HeldIn(orders, p) <= qty[p]

\* A process that is up knows the orders the broker works; a job runs in one that is
\* up; between jobs all is committed.
Known == \A o \in Orders : broker[o].status \in BrokerOpen => ledger.order[o] # NoOrder

Process ==
    /\ process = "up" => Known
    /\ Running => process = "up"
    /\ ~Running => job = Idle /\ ledger = saved
    /\ due => clock \in Jobs

\* The job in hand: the position it is at is still to be done and has shares; it looks
\* at rows of that position, in a re-arm at all of those the broker works; what it
\* saw live is no longer pending; and there are decisions enough for the rest.
Job ==
    /\ \A p \in job.rest : ledger.qty[p] > 0
    /\ job.on # "none" => job.on \in job.rest /\ job.on \in levels
    /\ job.on = "none" => job.look = {} /\ job.seen = "none"
    /\ observeOnly => job.look = {} /\ (job.on # "none" => job.kind = "stop_rearm")
    /\ \A o \in job.look : ledger.order[o].position = job.on
    /\ job.kind = "stop_rearm" /\ job.on # "none" =>
          \A o \in Orders : Sibling(job.on, o) => o \in job.look
    /\ job.seen \in LIVE_STATUSES =>
          /\ job.seenOrder \in Orders
          /\ ledger.order[job.seenOrder].position = job.on
          /\ broker[job.seenOrder].status \notin {"accepted", "absent"}
    /\ Cardinality(job.rest) <= Cardinality(Unused)

\* A position the final verification is done with.
Covered(led, orders, p) ==
    LET c == led.cover[p] IN
    /\ c.verified /\ c.order \in Orders
    /\ led.order[c.order].position = p
    /\ c.result = "live" => orders[c.order].status # "accepted"
    /\ orders[c.order].status # "absent"

Final ==
    job.kind = "post_open_verify_2" /\ ~observeOnly =>
        \A p \in levels \ job.rest : ledger.qty[p] > 0 => Covered(ledger, broker, p)

Agreed ==
    /\ BrokerSound(observeOnly, broker)
    /\ Matches(observeOnly, ledger.order, broker) /\ Matches(observeOnly, saved.order, broker)
    /\ Sold(ledger.qty, broker) /\ Sold(saved.qty, broker)

StopsInv == Tables /\ Agreed /\ Process /\ Job /\ Final

-----------------------------------------------------------------------------
LEMMA HeldIsHeldIn == \A p : Held(p) = HeldIn(broker, p)
BY DEF Held, SoldOf, HeldIn

\* What is sold when nothing is filled.
LEMMA NothingSold ==
  ASSUME NEW orders, NEW p, \A o \in Orders : orders[o].position = p => orders[o].filled = 0
  PROVE  HeldIn(orders, p) = Qty
<1> DEFINE f == [o \in Orders |-> IF orders[o].position = p THEN orders[o].filled ELSE 0]
<1>1. f = [o \in Orders |-> 0]
  OBVIOUS
<1>2. HeldIn(orders, p) = Qty - Tally(f, Qty)
  BY DEF HeldIn
<1>3. Qty \in Nat
  BY StopsAssumption
<1> HIDE DEF f
<1>4. Tally(f, Qty) = 0
  BY <1>1, <1>3, TallyZero, Zenon
<1> QED BY <1>2, <1>3, <1>4

LEMMA HeldType ==
  ASSUME NEW orders \in [Orders -> BrokerOrders], NEW p
  PROVE  HeldIn(orders, p) \in Int
<1> DEFINE f == [o \in Orders |-> IF orders[o].position = p THEN orders[o].filled ELSE 0]
<1>1. IsFiniteSet(Orders) /\ Qty \in Nat
  BY StopsAssumption
<1>2. DOMAIN f = Orders
  OBVIOUS
<1>3. HeldIn(orders, p) = Qty - Tally(f, Qty)
  BY DEF HeldIn
<1> HIDE DEF f
<1>4. Tally(f, Qty) \in Nat
  BY <1>1, <1>2, TallyType
<1> QED BY <1>1, <1>3, <1>4

\* One more share filled is one less held.
LEMMA HeldAfterFill ==
  ASSUME NEW before \in [Orders -> BrokerOrders], NEW after \in [Orders -> BrokerOrders],
         NEW o \in Orders, NEW p,
         \A q \in Orders \ {o} : after[q] = before[q],
         after[o].position = before[o].position, after[o].filled = before[o].filled + 1
  PROVE  HeldIn(after, p) = IF before[o].position = p THEN HeldIn(before, p) - 1
                            ELSE HeldIn(before, p)
<1> DEFINE f == [q \in Orders |-> IF before[q].position = p THEN before[q].filled ELSE 0]
           g == [q \in Orders |-> IF after[q].position = p THEN after[q].filled ELSE 0]
<1>1. IsFiniteSet(Orders) /\ Qty \in Nat
  BY StopsAssumption
<1>2. f \in [Orders -> 0..Qty] /\ g \in [Orders -> 0..Qty]
  BY <1>1 DEF BrokerOrders
<1>3. \A q \in Orders \ {o} : g[q] = f[q]
  OBVIOUS
<1>4. f[o] = (IF before[o].position = p THEN before[o].filled ELSE 0)
      /\ g[o] = IF before[o].position = p THEN before[o].filled + 1 ELSE 0
  OBVIOUS
<1>5. HeldIn(before, p) = Qty - Tally(f, Qty) /\ HeldIn(after, p) = Qty - Tally(g, Qty)
  BY DEF HeldIn
<1>6. before[o].filled \in Nat
  BY <1>1 DEF BrokerOrders
<1> HIDE DEF f, g
<1>7. DOMAIN f = Orders
  BY <1>2
<1>8. Tally(g, Qty) = Tally(f, Qty) - f[o] + g[o]
  BY <1>1, <1>2, <1>3, TallyChange
<1>9. Tally(f, Qty) \in Nat
  BY <1>1, <1>7, TallyType
<1> QED BY <1>1, <1>4, <1>5, <1>6, <1>8, <1>9

-----------------------------------------------------------------------------
LEMMA StopsInit == Init => StopsInv
<1> SUFFICES ASSUME Init PROVE StopsInv
  OBVIOUS
<1> USE DEF Init
<1>1. Qty \in Nat \ {0} /\ 0 \in 0..Qty /\ Qty \in 0..Qty
  BY StopsAssumption
<1>2. Tables
  <2>1. NoOrder \in OrderRows /\ NoCover \in CoverRows
    BY DEF NoOrder, NoCover, OrderRows, CoverRows, Statuses
  <2>2. ledger \in Ledgers
    BY <1>1, <2>1 DEF Ledgers
  <2>3. broker \in [Orders -> BrokerOrders]
    BY <1>1 DEF Absent, BrokerOrders, Words
  <2>4. job \in JobStates
    BY DEF Idle, JobStates
  <2> QED BY <2>2, <2>3, <2>4 DEF Tables, Following
<1>3. Agreed
  <2>1. BrokerSound(observeOnly, broker)
    BY <1>1 DEF BrokerSound, Absent, BrokerOpen
  <2>2. Matches(observeOnly, ledger.order, broker)
    BY DEF Matches, RowMatches, NoOrder, Absent
  <2>3. Sold(ledger.qty, broker)
    BY <1>1, NothingSold DEF Sold, Absent
  <2> QED BY <2>1, <2>2, <2>3 DEF Agreed
<1>4. Process
  BY DEF Process, Known, Absent, BrokerOpen, Running, Idle
<1>5. Job
  <2>1. Unused = Orders
    BY DEF Unused, Absent
  <2>2. IsFiniteSet(Orders)
    BY StopsAssumption
  <2>3. Cardinality(job.rest) <= Cardinality(Unused)
    BY <2>1, <2>2, FS_EmptySet, FS_CardinalityType DEF Idle
  <2> QED BY <2>3 DEF Job, Idle, LIVE_STATUSES
<1>6. Final
  BY DEF Final, Idle
<1> QED BY <1>2, <1>3, <1>4, <1>5, <1>6 DEF StopsInv

-----------------------------------------------------------------------------
(***************************************************************************)
(* What the broker does on its own.                                        *)
(***************************************************************************)
\* Each order stays or, when it is open, goes on.
GoesOn(before, after) ==
    \A o \in Orders :
        after[o] = before[o] \/
        /\ before[o].status \in BrokerOpen /\ before[o].filled <= after[o].filled
        /\ after[o].position = before[o].position
        /\ after[o].status \notin {"absent", "accepted"}

\* An open order that becomes n.
Follows(ord, n) ==
    /\ n \in BrokerOrders /\ ord.status \in BrokerOpen
    /\ n.position = ord.position /\ ord.filled <= n.filled
    /\ n.status \notin {"absent", "accepted"}
    /\ n.status \in BrokerOpen => n.leaves > 0
    /\ n.filled + n.leaves <= Qty

LEMMA OneGoesOn ==
  ASSUME StopsInv, ~observeOnly, NEW o \in Orders, NEW n, Follows(broker[o], n),
         broker' = [broker EXCEPT ![o] = n]
  PROVE  /\ broker' \in [Orders -> BrokerOrders] /\ GoesOn(broker, broker')
         /\ BrokerSound(observeOnly, broker')
<1>0. /\ broker \in [Orders -> BrokerOrders] /\ BrokerSound(observeOnly, broker)
      /\ broker'[o] = n /\ \A q \in Orders \ {o} : broker'[q] = broker[q]
  BY DEF StopsInv, Tables, Agreed
<1>1. broker' \in [Orders -> BrokerOrders]
  BY <1>0 DEF Follows
<1>2. GoesOn(broker, broker')
  <2> SUFFICES ASSUME NEW q \in Orders, broker'[q] # broker[q] PROVE q = o
    BY <1>0 DEF GoesOn, Follows
  <2> QED BY <1>0
<1>3. BrokerSound(observeOnly, broker')
  <2> SUFFICES ASSUME NEW q \in Orders
               PROVE  /\ broker'[q].status = "absent" => broker'[q] = Absent
                      /\ broker'[q].status \in BrokerOpen => broker'[q].leaves > 0
                      /\ broker'[q].filled + broker'[q].leaves <= Qty
    BY DEF BrokerSound
  <2>1. CASE q = o BY <2>1, <1>0 DEF Follows
  <2>2. CASE q # o BY <2>2, <1>0 DEF BrokerSound
  <2> QED BY <2>1, <2>2
<1> QED BY <1>1, <1>2, <1>3

\* Nothing was filled, and no order that was filled changed its position.
SameFills(before, after) ==
    \A q \in Orders :
        /\ after[q].filled = before[q].filled
        /\ after[q].position = before[q].position \/ before[q].filled = 0

LEMMA NoneFilled ==
  ASSUME NEW before, NEW after, SameFills(before, after), NEW p
  PROVE  HeldIn(after, p) = HeldIn(before, p)
<1>2. [q \in Orders |-> IF after[q].position = p THEN after[q].filled ELSE 0]
        = [q \in Orders |-> IF before[q].position = p THEN before[q].filled ELSE 0]
  BY DEF SameFills
<1>3. HeldIn(after, p) = Qty - Tally([q \in Orders |-> IF after[q].position = p THEN after[q].filled ELSE 0], Qty)
  BY DEF HeldIn
<1>4. HeldIn(before, p) = Qty - Tally([q \in Orders |-> IF before[q].position = p THEN before[q].filled ELSE 0], Qty)
  BY DEF HeldIn
<1> QED BY <1>2, <1>3, <1>4, Zenon

LEMMA BrokerGoesOn ==
  ASSUME StopsInv, NEW o \in Orders, BrokerStep(o)
  PROVE  /\ broker' \in [Orders -> BrokerOrders] /\ GoesOn(broker, broker')
         /\ BrokerSound(observeOnly, broker')
         /\ \A p \in Positions : HeldIn(broker', p) \in 0..Qty /\ HeldIn(broker', p) <= HeldIn(broker, p)
<1>0. /\ broker \in [Orders -> BrokerOrders] /\ Qty \in Nat /\ broker[o].status \in BrokerOpen
      /\ ~observeOnly
      /\ broker[o].filled \in 0..Qty /\ broker[o].leaves \in 1..Qty
      /\ broker[o].filled + broker[o].leaves <= Qty
  BY StopsAssumption DEF StopsInv, Tables, Agreed, BrokerStep, BrokerOpen, BrokerOrders, BrokerSound, Absent
<1>1. \A p \in Positions : HeldIn(broker, p) \in 0..Qty
  BY DEF StopsInv, Agreed, Sold
<1>2. ASSUME NEW word \in {"new", "canceled"}, broker' = [broker EXCEPT ![o].status = word]
      PROVE  /\ broker' \in [Orders -> BrokerOrders] /\ GoesOn(broker, broker')
             /\ BrokerSound(observeOnly, broker')
             /\ \A p \in Positions : HeldIn(broker', p) = HeldIn(broker, p)
  <2> DEFINE n == [broker[o] EXCEPT !.status = word]
  <2>1. n \in BrokerOrders /\ broker' = [broker EXCEPT ![o] = n]
    BY <1>0, <1>2 DEF BrokerOrders, Words, BrokerOpen
  <2>2. n.position = broker[o].position /\ n.filled = broker[o].filled
        /\ n.leaves = broker[o].leaves /\ n.status = word
    BY <1>0 DEF BrokerOrders
  <2> HIDE DEF n
  <2>3. Follows(broker[o], n)
    BY <1>0, <2>1, <2>2 DEF Follows
  <2>4. \A p \in Positions : HeldIn(broker', p) = HeldIn(broker, p)
    <3>1. SameFills(broker, broker')
      BY <1>0, <2>1, <2>2 DEF SameFills
    <3> QED BY <3>1, NoneFilled
  <2>5. /\ broker' \in [Orders -> BrokerOrders] /\ GoesOn(broker, broker')
        /\ BrokerSound(observeOnly, broker')
    BY <1>0, <2>1, <2>3, OneGoesOn
  <2> QED BY <2>4, <2>5
<1>5. ASSUME Held(broker[o].position) > 0,
             broker' = [broker EXCEPT ![o].filled = @ + 1, ![o].leaves = @ - 1,
                ![o].status = IF broker[o].leaves = 1 THEN "filled" ELSE "partially_filled"]
      PROVE  /\ broker' \in [Orders -> BrokerOrders] /\ GoesOn(broker, broker')
             /\ BrokerSound(observeOnly, broker')
             /\ \A p \in Positions :
                   HeldIn(broker', p) \in 0..Qty /\ HeldIn(broker', p) <= HeldIn(broker, p)
  <2> DEFINE n == [broker[o] EXCEPT !.filled = @ + 1, !.leaves = @ - 1,
                !.status = IF broker[o].leaves = 1 THEN "filled" ELSE "partially_filled"]
  <2>1. n \in BrokerOrders /\ broker' = [broker EXCEPT ![o] = n]
    BY <1>0, <1>5 DEF BrokerOrders, Words, BrokerOpen
  <2>2. n.position = broker[o].position /\ n.filled = broker[o].filled + 1
        /\ n.leaves = broker[o].leaves - 1
        /\ n.status = IF broker[o].leaves = 1 THEN "filled" ELSE "partially_filled"
    BY <1>0 DEF BrokerOrders
  <2> HIDE DEF n
  <2>3. Follows(broker[o], n)
    BY <1>0, <2>1, <2>2 DEF Follows, BrokerOpen
  <2>4. broker' \in [Orders -> BrokerOrders] /\ GoesOn(broker, broker')
        /\ BrokerSound(observeOnly, broker')
    BY <1>0, <2>1, <2>3, OneGoesOn
  <2>5. ASSUME NEW p \in Positions
        PROVE  HeldIn(broker', p) \in 0..Qty /\ HeldIn(broker', p) <= HeldIn(broker, p)
    <3>0. broker'[o] = n /\ \A q \in Orders \ {o} : broker'[q] = broker[q]
      BY <1>0, <2>1
    <3>1. HeldIn(broker', p) = IF broker[o].position = p THEN HeldIn(broker, p) - 1
                               ELSE HeldIn(broker, p)
      <4>1. broker'[o].position = broker[o].position /\ broker'[o].filled = broker[o].filled + 1
        BY <3>0, <2>2
      <4> QED BY <1>0, <2>4, <3>0, <4>1, HeldAfterFill
    <3>2. broker[o].position = p => HeldIn(broker, p) > 0
      BY <1>5, HeldIsHeldIn
    <3> QED BY <1>0, <1>1, <3>1, <3>2
  <2> QED BY <2>4, <2>5
<1>6. \A p \in Positions : HeldIn(broker, p) <= HeldIn(broker, p)
  BY <1>1
<1> QED BY <1>1, <1>2, <1>5, <1>6 DEF BrokerStep

\* Rows that matched go on matching, and no row starts to.
LEMMA RowsOutliveTheBroker ==
  ASSUME NEW before \in [Orders -> BrokerOrders], NEW after \in [Orders -> BrokerOrders],
         GoesOn(before, after), NEW rows \in [Orders -> OrderRows], NEW observes,
         Matches(observes, rows, before)
  PROVE  Matches(observes, rows, after)
<1> SUFFICES ASSUME NEW o \in Orders PROVE RowMatches(observes, rows[o], after[o])
  BY DEF Matches
<1>1. RowMatches(observes, rows[o], before[o])
  BY DEF Matches
<1>2. /\ rows[o].booked \in Nat /\ before[o].filled \in Int /\ after[o].filled \in Int
  BY StopsAssumption DEF BrokerOrders, OrderRows
<1>3. \/ after[o] = before[o]
      \/ /\ before[o].status \in BrokerOpen /\ before[o].filled <= after[o].filled
         /\ after[o].position = before[o].position
         /\ after[o].status \notin {"absent", "accepted"}
  BY DEF GoesOn
<1>4. CASE after[o] = before[o]
  BY <1>1, <1>4
<1>5. CASE after[o] # before[o]
  <2>1. rows[o].booked <= after[o].filled
    BY <1>1, <1>2, <1>3, <1>5 DEF RowMatches
  <2> QED BY <1>1, <1>3, <1>5, <2>1 DEF RowMatches, BrokerOpen
<1> QED BY <1>4, <1>5

\* What was sold and not booked only grows.
LEMMA SoldOutlivesTheBroker ==
  ASSUME NEW before, NEW after, NEW qty \in [Positions -> 0..Qty], Sold(qty, before),
         \A p \in Positions : HeldIn(after, p) \in 0..Qty /\ HeldIn(after, p) <= HeldIn(before, p)
  PROVE  Sold(qty, after)
<1> SUFFICES ASSUME NEW p \in Positions
             PROVE  HeldIn(after, p) \in 0..Qty /\ HeldIn(after, p) <= qty[p]
  BY DEF Sold
<1>1. /\ HeldIn(before, p) \in 0..Qty /\ HeldIn(before, p) <= qty[p] /\ qty[p] \in 0..Qty
      /\ HeldIn(after, p) \in 0..Qty /\ HeldIn(after, p) <= HeldIn(before, p)
  BY DEF Sold
<1>2. Qty \in Nat
  BY StopsAssumption
<1> QED BY <1>1, <1>2

LEMMA BrokerStepKeeps ==
  ASSUME StopsInv, NEW o \in Orders, BrokerStep(o) PROVE StopsInv'
<1>0. /\ broker' \in [Orders -> BrokerOrders] /\ GoesOn(broker, broker')
      /\ BrokerSound(observeOnly, broker')
      /\ \A p \in Positions : HeldIn(broker', p) \in 0..Qty /\ HeldIn(broker', p) <= HeldIn(broker, p)
  BY BrokerGoesOn
<1>a. /\ broker \in [Orders -> BrokerOrders] /\ ledger \in Ledgers /\ saved \in Ledgers
      /\ Matches(observeOnly, ledger.order, broker) /\ Matches(observeOnly, saved.order, broker)
      /\ Sold(ledger.qty, broker) /\ Sold(saved.qty, broker)
  BY DEF StopsInv, Tables, Agreed
<1>b. UNCHANGED <<observeOnly, levels, ledger, saved, clock, due, session, process, job>>
  BY DEF BrokerStep
<1>1. Tables'
  BY <1>0, <1>b DEF StopsInv, Tables
<1>2. Agreed'
  <2>1. Matches(observeOnly, ledger.order, broker') /\ Matches(observeOnly, saved.order, broker')
    BY <1>0, <1>a, RowsOutliveTheBroker DEF Ledgers
  <2>2. Sold(ledger.qty, broker') /\ Sold(saved.qty, broker')
    BY <1>0, <1>a, SoldOutlivesTheBroker DEF Ledgers
  <2> QED BY <1>0, <1>b, <2>1, <2>2 DEF Agreed
<1>c. \A q \in Orders :
        /\ broker'[q].status \in BrokerOpen => broker[q].status \in BrokerOpen
        /\ broker'[q].position = broker[q].position
        /\ broker'[q].status = "accepted" => broker[q].status = "accepted"
        /\ (broker'[q].status = "absent") = (broker[q].status = "absent")
  BY <1>0 DEF GoesOn, BrokerOpen
<1>3. Process'
  BY <1>b, <1>c DEF StopsInv, Process, Known, Running
<1>4. Job'
  <2>1. Unused' = Unused
    BY <1>b, <1>c DEF Unused
  <2>2. \A q \in Orders : \A p : Sibling(p, q)' => Sibling(p, q)
    BY <1>b, <1>c DEF Sibling
  <2> QED BY <1>b, <1>c, <2>1, <2>2 DEF StopsInv, Job
<1>5. Final'
  <2>1. \A p \in Positions : Covered(ledger, broker, p) => Covered(ledger, broker', p)
    BY <1>c DEF Covered
  <2>2. levels \subseteq Positions
    BY DEF StopsInv, Tables
  <2> QED BY <1>b, <2>1, <2>2 DEF StopsInv, Final
<1> QED BY <1>1, <1>2, <1>3, <1>4, <1>5 DEF StopsInv

-----------------------------------------------------------------------------
(***************************************************************************)
(* The calendar, and what begins and ends a job.                           *)
(***************************************************************************)
\* With the same rows and orders, the same decisions are unused.
LEMMA UnusedSame ==
  ASSUME broker' = broker, ledger'.order = ledger.order
  PROVE  Unused' = Unused /\ \A p, o : Sibling(p, o)' = Sibling(p, o)
BY DEF Unused, Sibling

\* No job is at hand, and none is owed anything.
LEMMA IdleJob ==
  ASSUME job' = Idle, broker' \in [Orders -> BrokerOrders], ledger' \in Ledgers
  PROVE  Job' /\ Final'
<1>1. Cardinality(job'.rest) <= Cardinality(Unused')
  <2>1. IsFiniteSet(Unused')
    BY StopsAssumption, FS_Subset DEF Unused
  <2> QED BY <2>1, FS_EmptySet, FS_CardinalityType DEF Idle
<1>2. Job'
  BY <1>1 DEF Job, Idle, LIVE_STATUSES
<1> QED BY <1>2 DEF Final, Idle

LEMMA TickKeeps ==
  ASSUME StopsInv, Tick PROVE StopsInv'
<1> USE DEF StopsInv
<1>a. /\ UNCHANGED <<observeOnly, levels, broker, process, job>> /\ clock' = Following[clock]
      /\ due' = (clock' \in Jobs /\ process = "up" /\ ~Running)
  BY DEF Tick
<1>b. ledger \in Ledgers /\ saved \in Ledgers
  BY DEF Tables
<1>c. clock' \in DOMAIN Following
  BY <1>a DEF Tables, Following
<1>d. due' \in BOOLEAN
  <2>1. CASE clock' \in Jobs /\ process = "up" /\ ~Running
    BY <2>1, <1>a
  <2>2. CASE ~(clock' \in Jobs /\ process = "up" /\ ~Running)
    BY <2>2, <1>a
  <2> QED BY <2>1, <2>2
<1>e. due' => clock' \in Jobs
  BY <1>a
<1>1. CASE clock # "close"
  <2>1. ledger' = ledger /\ saved' = saved
    BY <1>1 DEF Tick
  <2>2. Tables'
    BY <1>a, <1>c, <1>d, <2>1 DEF Tables
  <2>3. Agreed'
    BY <1>a, <2>1 DEF Agreed
  <2>4. Process'
    BY <1>a, <1>e, <2>1 DEF Process, Known, Running
  <2>5. Unused' = Unused /\ \A p, o : Sibling(p, o)' = Sibling(p, o)
    BY <1>a, <2>1, UnusedSame
  <2>6. Job'
    BY <1>a, <2>1, <2>5 DEF Job
  <2>7. Final'
    BY <1>a, <2>1 DEF Final
  <2> QED BY <2>2, <2>3, <2>4, <2>6, <2>7
<1>2. CASE clock = "close"
  <2>1. /\ ledger' = [ledger EXCEPT !.cover = [p \in Positions |-> NoCover]]
        /\ saved' = ledger' /\ ~Running
    BY <1>2 DEF Tick
  <2>2. NoCover \in CoverRows
    BY DEF NoCover, CoverRows
  <2>3. /\ ledger' \in Ledgers /\ saved' \in Ledgers
        /\ ledger'.order = ledger.order /\ ledger'.qty = ledger.qty
    BY <1>b, <2>1, <2>2 DEF Ledgers
  <2>4. Tables'
    BY <1>a, <1>c, <1>d, <2>3 DEF Tables
  <2>5. Agreed'
    BY <1>a, <2>1, <2>3 DEF Agreed
  <2>6. Process'
    BY <1>a, <1>e, <2>1, <2>3 DEF Process, Known, Running
  <2>7. Job' /\ Final'
    <3>1. job' = Idle
      BY <1>a, <2>1 DEF Process
    <3> QED BY <3>1, <2>4, IdleJob DEF Tables
  <2> QED BY <2>4, <2>5, <2>6, <2>7
<1> QED BY <1>1, <1>2

LEMMA StartJobKeeps ==
  ASSUME StopsInv, StartJob PROVE StopsInv'
<1> USE DEF StopsInv
<1>a. UNCHANGED <<observeOnly, levels, ledger, saved, broker, clock, session, process>>
  BY DEF StartJob
<1>b. /\ job' = [Idle EXCEPT !.kind = clock, !.rest = { p \in Positions : ledger.qty[p] > 0 }]
      /\ clock \in Jobs /\ process = "up" /\ due' = FALSE
      /\ Cardinality(Unused) >= Cardinality(Positions)
  BY DEF StartJob, Process
<1>c. /\ job'.kind = clock /\ job'.rest = { p \in Positions : ledger.qty[p] > 0 }
      /\ job'.on = "none" /\ job'.look = {} /\ job'.seen = "none" /\ job'.seenOrder = 0
  BY <1>b DEF Idle
<1>1. Tables'
  <2>1. job' \in JobStates
    BY <1>b DEF Idle, JobStates
  <2> QED BY <1>a, <1>b, <2>1 DEF Tables
<1>2. Agreed'
  BY <1>a DEF Agreed
<1>3. Process'
  BY <1>a, <1>b, <1>c DEF Process, Known, Running, Jobs
<1>4. Job'
  <2>1. Unused' = Unused
    BY <1>a, UnusedSame
  <2>2. Cardinality(job'.rest) <= Cardinality(Unused)
    <3>1. IsFiniteSet(Positions) /\ IsFiniteSet(Unused)
      BY StopsAssumption, FS_Subset DEF Unused
    <3>2. job'.rest \subseteq Positions
      BY <1>c
    <3>3. Cardinality(job'.rest) <= Cardinality(Positions)
      BY <3>1, <3>2, FS_Subset
    <3>4. Cardinality(job'.rest) \in Nat /\ Cardinality(Positions) \in Nat /\ Cardinality(Unused) \in Nat
      BY <3>1, <3>2, FS_Subset, FS_CardinalityType
    <3> QED BY <1>b, <3>3, <3>4
  <2> QED BY <1>a, <1>c, <2>1, <2>2 DEF Job, LIVE_STATUSES
<1>5. Final'
  BY <1>a, <1>c DEF Final, Tables
<1> QED BY <1>1, <1>2, <1>3, <1>4, <1>5

LEMMA FinishJobKeeps ==
  ASSUME StopsInv, FinishJob PROVE StopsInv'
<1> USE DEF StopsInv
<1>a. /\ UNCHANGED <<observeOnly, levels, ledger, broker, clock, due, session, process>>
      /\ saved' = ledger /\ job' = Idle
  BY DEF FinishJob
<1>1. Tables'
  BY <1>a DEF Tables, Idle, JobStates
<1>2. Agreed'
  BY <1>a DEF Agreed
<1>3. Process'
  BY <1>a DEF Process, Known, Running, Idle
<1>4. Job' /\ Final'
  BY <1>1, <1>a, IdleJob DEF Tables
<1> QED BY <1>1, <1>2, <1>3, <1>4

LEMMA FailKeeps ==
  ASSUME StopsInv, Fail PROVE StopsInv'
<1> USE DEF StopsInv
<1>a. /\ UNCHANGED <<observeOnly, levels, saved, broker, clock, session>>
      /\ ledger' = saved /\ job' = Idle /\ process' = "down" /\ due' = FALSE
  BY DEF Fail
<1>1. Tables'
  BY <1>a DEF Tables, Idle, JobStates
<1>2. Agreed'
  BY <1>a DEF Agreed
<1>3. Process'
  BY <1>a DEF Process, Running, Idle
<1>4. Job' /\ Final'
  BY <1>1, <1>a, IdleJob DEF Tables
<1> QED BY <1>1, <1>2, <1>3, <1>4

-----------------------------------------------------------------------------
(***************************************************************************)
(* A job at a position it is done with, or still looks at.                 *)
(***************************************************************************)
\* All that a step of a job never touches.
Outside == <<observeOnly, levels, saved, clock, due, session, process>>

\* A row the final verification may leave behind for p.
Settles(row, p) ==
    /\ row.verified /\ row.order \in Orders
    /\ ledger.order[row.order].position = p
    /\ row.result = "live" => broker[row.order].status # "accepted"
    /\ broker[row.order].status # "absent"

LEMMA FewerLeft ==
  ASSUME StopsInv, NEW p \in job.rest
  PROVE  /\ Cardinality(job.rest \ {p}) = Cardinality(job.rest) - 1
         /\ Cardinality(job.rest) \in Nat /\ Cardinality(Unused) \in Nat
         /\ IsFiniteSet(Unused)
<1>1. IsFiniteSet(job.rest)
  BY StopsAssumption, FS_Subset DEF StopsInv, Tables, JobStates
<1>2. IsFiniteSet(Unused)
  BY StopsAssumption, FS_Subset DEF Unused
<1> QED BY <1>1, <1>2, FS_RemoveElement, FS_CardinalityType

LEMMA DoneKeeps ==
  ASSUME StopsInv, Running, NEW p \in job.rest, NEW row \in CoverRows, Done(p, row),
         UNCHANGED Outside, UNCHANGED broker,
         job.kind = "post_open_verify_2" /\ ~observeOnly /\ p \in levels => Settles(row, p)
  PROVE  StopsInv'
<1> USE DEF StopsInv
<1>a. /\ UNCHANGED <<observeOnly, levels, saved, clock, due, session, process>>
      /\ ledger' = [ledger EXCEPT !.cover[p] = row]
      /\ job' = [Idle EXCEPT !.kind = job.kind, !.rest = job.rest \ {p}]
      /\ p \in Positions /\ job \in JobStates /\ ledger \in Ledgers
  BY DEF Outside, Done, Tables, JobStates
<1>b. /\ ledger' \in Ledgers /\ ledger'.order = ledger.order /\ ledger'.qty = ledger.qty
      /\ ledger'.cover[p] = row
      /\ \A q \in Positions \ {p} : ledger'.cover[q] = ledger.cover[q]
  BY <1>a DEF Ledgers
<1>c. /\ job'.kind = job.kind /\ job'.rest = job.rest \ {p} /\ job'.on = "none"
      /\ job'.look = {} /\ job'.seen = "none" /\ job'.seenOrder = 0
  BY <1>a DEF Idle
<1>1. Tables'
  <2>1. job' \in JobStates
    BY <1>a DEF Idle, JobStates
  <2> QED BY <1>a, <1>b, <2>1 DEF Tables
<1>2. Agreed'
  BY <1>a, <1>b DEF Agreed
<1>3. Process'
  BY <1>a, <1>b, <1>c DEF Process, Known, Running
<1>4. Job'
  <2>1. Unused' = Unused
    BY <1>b, UnusedSame
  <2>2. Cardinality(job'.rest) <= Cardinality(Unused)
    <3>1. Cardinality(job.rest) <= Cardinality(Unused)
      BY DEF Job
    <3>2. /\ Cardinality(job.rest \ {p}) = Cardinality(job.rest) - 1
          /\ Cardinality(job.rest) \in Nat /\ Cardinality(Unused) \in Nat
      BY FewerLeft
    <3>3. job'.rest = job.rest \ {p}
      BY <1>c
    <3> HIDE DEF StopsInv
    <3> QED BY <3>1, <3>2, <3>3
  <2>3. \A q \in job'.rest : ledger'.qty[q] > 0
    BY <1>b, <1>c DEF Job
  <2> QED BY <1>a, <1>c, <2>1, <2>2, <2>3 DEF Job, LIVE_STATUSES
<1>5. Final'
  <2> SUFFICES ASSUME job.kind = "post_open_verify_2", ~observeOnly,
                      NEW q \in levels, q \notin job.rest \ {p}, ledger.qty[q] > 0
               PROVE  Covered(ledger', broker', q)
    BY <1>a, <1>b, <1>c DEF Final
  <2>1. CASE q = p
    BY <2>1, <1>b DEF Settles, Covered
  <2>2. CASE q # p
    <3>1. Covered(ledger, broker, q)
      BY <2>2 DEF Final
    <3>2. ledger'.cover[q] = ledger.cover[q]
      BY <2>2, <1>b DEF Tables
    <3> QED BY <1>b, <3>1, <3>2 DEF Covered
  <2> QED BY <2>1, <2>2
<1> QED BY <1>1, <1>2, <1>3, <1>4, <1>5

\* The rows the database calls protective are those of the position that are open,
\* so also all the broker works and a row is known of.
LEMMA ProtectiveHasSiblings ==
  ASSUME StopsInv, NEW p \in Positions
  PROVE  /\ Protective(p) \subseteq Orders
         /\ \A o \in Protective(p) : ledger.order[o].position = p
         /\ \A o \in Orders : Sibling(p, o) => o \in Protective(p)
<1>1. Protective(p) \subseteq Orders /\ \A o \in Protective(p) : ledger.order[o].position = p
  BY DEF Protective
<1>2. ASSUME NEW o \in Orders, Sibling(p, o) PROVE o \in Protective(p)
  <2>1. RowMatches(observeOnly, ledger.order[o], broker[o])
    BY DEF StopsInv, Agreed, Matches
  <2>2. ~observeOnly
    BY <1>2 DEF StopsInv, Agreed, BrokerSound, Sibling, Absent, BrokerOpen
  <2> QED BY <1>2, <2>1, <2>2 DEF Protective, Sibling, RowMatches, OpenStatuses, WorkingStatuses
<1> QED BY <1>1, <1>2

LEMMA NextPositionKeeps ==
  ASSUME StopsInv, NEW p \in Positions, NextPosition(p) PROVE StopsInv'
<1> USE DEF StopsInv
<1>a. /\ UNCHANGED Outside /\ UNCHANGED broker /\ Running /\ p \in job.rest /\ job.on = "none"
  BY DEF NextPosition, Outside
<1>b. ledger.cover[p] \in CoverRows
  BY DEF Tables, Ledgers
<1>1. CASE /\ p \notin levels
           /\ \/ Done(p, [NoCover EXCEPT !.result = "missing"])
              \/ Done(p, ledger.cover[p])
  <2>1. [NoCover EXCEPT !.result = "missing"] \in CoverRows
    BY DEF NoCover, CoverRows
  <2> QED BY <1>1, <1>a, <1>b, <2>1, DoneKeeps
<1>2. CASE /\ observeOnly
           /\ Done(p, [NoCover EXCEPT !.result = "not_applicable", !.verified = TRUE])
  <2>1. [NoCover EXCEPT !.result = "not_applicable", !.verified = TRUE] \in CoverRows
    BY DEF NoCover, CoverRows
  <2> QED BY <1>2, <1>a, <2>1, DoneKeeps
<1>3. CASE /\ p \in levels /\ ~(observeOnly /\ job.kind # "stop_rearm") /\ ledger' = ledger
           /\ job' = [job EXCEPT !.on = p, !.look = IF observeOnly THEN {} ELSE Protective(p)]
  <2>0. UNCHANGED <<observeOnly, levels, saved, clock, due, session, process>>
    BY <1>a DEF Outside
  <2>1. /\ Protective(p) \subseteq Orders
        /\ \A o \in Protective(p) : ledger.order[o].position = p
        /\ \A o \in Orders : Sibling(p, o) => o \in Protective(p)
    BY ProtectiveHasSiblings
  <2>2. /\ job'.kind = job.kind /\ job'.rest = job.rest /\ job'.on = p
        /\ job'.look = (IF observeOnly THEN {} ELSE Protective(p))
        /\ job'.seen = job.seen /\ job'.seenOrder = job.seenOrder
    BY <1>3 DEF Tables, JobStates
  <2>3. Tables'
    <3>1. job' \in JobStates
      BY <1>3, <2>1 DEF Tables, JobStates
    <3> QED BY <1>a, <1>3, <2>0, <3>1 DEF Tables
  <2>4. Agreed'
    BY <1>a, <1>3, <2>0 DEF Agreed
  <2>5. Process'
    BY <1>a, <1>3, <2>0, <2>2 DEF Process, Known, Running
  <2>6. Job'
    <3>1. Unused' = Unused /\ \A q, o : Sibling(q, o)' = Sibling(q, o)
      BY <1>a, <1>3, UnusedSame
    <3>2. job.seen = "none" /\ p # "none"
      BY <1>a, StopsAssumption DEF Job
    <3>3. observeOnly => \A o \in Orders : ~Sibling(p, o)
      BY DEF Sibling, Agreed, BrokerSound, Absent, BrokerOpen
    <3> QED BY <1>a, <1>3, <2>0, <2>1, <2>2, <3>1, <3>2, <3>3 DEF Job, LIVE_STATUSES
  <2>7. Final'
    BY <1>a, <1>3, <2>0, <2>2 DEF Final
  <2> QED BY <2>3, <2>4, <2>5, <2>6, <2>7
<1> QED BY <1>1, <1>2, <1>3 DEF NextPosition

LEMMA EarliestIsOne ==
  ASSUME NEW S, S \subseteq Orders, S # {}
  PROVE  Min(S) \in S
<1>1. S \in SUBSET Nat
  BY StopsAssumption
<1>2. \E m \in S : \A n \in S : m <= n
  BY <1>1, LeastNatural
<1> QED BY <1>2 DEF Min

\* An order a job looks at: the ledger has its row and the broker has it.
LEMMA LooksAtKnown ==
  ASSUME StopsInv, NEW o \in job.look
  PROVE  /\ o \in Orders /\ Running /\ ~observeOnly
         /\ job.on \in job.rest /\ job.on \in Positions /\ job.on # "none"
         /\ ledger.order[o].position = job.on /\ ledger.order[o].status # "none"
         /\ broker[o].status \in Words \ {"absent"}
<1>1. /\ o \in Orders /\ ~observeOnly
      /\ job.on \in job.rest /\ job.on \in Positions /\ job.on # "none"
      /\ ledger.order[o].position = job.on
  BY StopsAssumption DEF StopsInv, Job, Tables, JobStates
<1>2. Running
  <2>1. job.rest # {}
    BY <1>1
  <2> QED BY <2>1 DEF StopsInv, Process, Idle
<1>3. RowMatches(observeOnly, ledger.order[o], broker[o])
  BY <1>1 DEF StopsInv, Agreed, Matches
<1>4. ledger.order[o].status # "none" /\ broker[o].status # "absent"
  BY <1>1, <1>3 DEF RowMatches, NoOrder
<1>5. broker[o].status \in Words
  BY <1>1 DEF StopsInv, Tables, BrokerOrders
<1> QED BY <1>1, <1>2, <1>4, <1>5

LEMMA LookRearmKeeps ==
  ASSUME StopsInv, LookRearm PROVE StopsInv'
<1> USE DEF StopsInv
<1> DEFINE o == Min(job.look)
           now == STATUS_MAP[broker[o].status]
<1>a. /\ UNCHANGED Outside /\ UNCHANGED broker /\ job.kind = "stop_rearm" /\ job.look # {}
  BY DEF LookRearm, Outside
<1>b. o \in job.look
  BY <1>a, EarliestIsOne DEF Tables, JobStates
<1>c. /\ o \in Orders /\ Running /\ ~observeOnly
      /\ job.on \in job.rest /\ job.on \in Positions /\ job.on # "none"
      /\ ledger.order[o].position = job.on /\ ledger.order[o].status # "none"
      /\ broker[o].status \in Words \ {"absent"}
  BY <1>b, LooksAtKnown
<1>d. \/ /\ now \in WorkingStatuses
         /\ Done(job.on, [ledger.cover[job.on] EXCEPT !.order = o])
      \/ /\ now \notin WorkingStatuses
         /\ ledger' = [ledger EXCEPT !.order[o].status = now]
         /\ job' = [job EXCEPT !.look = @ \ {o}]
  BY DEF LookRearm
<1>e. now \notin WorkingStatuses => now \in {"FILLED", "CANCELLED"} /\ broker[o].status \notin BrokerOpen
  BY <1>c DEF STATUS_MAP, WorkingStatuses, Words, BrokerOpen
<1> HIDE DEF o, now
<1>1. CASE Done(job.on, [ledger.cover[job.on] EXCEPT !.order = o])
  <2>1. [ledger.cover[job.on] EXCEPT !.order = o] \in CoverRows
    BY <1>c DEF Tables, Ledgers, CoverRows
  <2> QED BY <1>1, <1>a, <1>c, <2>1, DoneKeeps
<1>2. CASE /\ now \notin WorkingStatuses
           /\ ledger' = [ledger EXCEPT !.order[o].status = now]
           /\ job' = [job EXCEPT !.look = @ \ {o}]
  <2>0. UNCHANGED <<observeOnly, levels, saved, broker, clock, due, session, process>>
    BY <1>a DEF Outside
  <2>1. /\ ledger' \in Ledgers /\ ledger'.qty = ledger.qty /\ ledger'.cover = ledger.cover
        /\ \A q \in Orders \ {o} : ledger'.order[q] = ledger.order[q]
        /\ ledger'.order[o].status = now /\ ledger'.order[o].position = job.on
        /\ ledger'.order[o].booked = ledger.order[o].booked
    <3> DEFINE n == [ledger.order[o] EXCEPT !.status = now]
    <3>1. ledger \in Ledgers /\ ledger.order[o] \in OrderRows
      BY <1>c DEF Tables, Ledgers
    <3>2. /\ n \in OrderRows /\ n.status = now /\ n.position = job.on
          /\ n.booked = ledger.order[o].booked
      BY <1>2, <1>c, <1>e, <3>1 DEF OrderRows, Statuses
    <3>3. ledger' = [ledger EXCEPT !.order = [ledger.order EXCEPT ![o] = n]]
      BY <1>2, <3>1 DEF Ledgers
    <3> HIDE DEF n
    <3> QED BY <1>c, <3>1, <3>2, <3>3 DEF Ledgers
  <2>2. /\ job' \in JobStates /\ job'.kind = job.kind /\ job'.rest = job.rest /\ job'.on = job.on
        /\ job'.look = job.look \ {o} /\ job'.seen = job.seen /\ job'.seenOrder = job.seenOrder
    BY <1>2 DEF Tables, JobStates
  <2>3. Tables'
    BY <2>0, <2>1, <2>2 DEF Tables
  <2>r. ledger'.order[o] # NoOrder /\ ledger.order[o] # NoOrder
    BY <1>2, <1>c, <1>e, <2>1 DEF NoOrder
  <2>4. Agreed'
    <3>1. Matches(observeOnly, ledger'.order, broker)
      <4> SUFFICES ASSUME NEW q \in Orders
                   PROVE  RowMatches(observeOnly, ledger'.order[q], broker[q])
        BY DEF Matches
      <4>1. RowMatches(observeOnly, ledger.order[q], broker[q])
        BY DEF Agreed, Matches
      <4>2. CASE q # o
        BY <4>1, <4>2, <2>1
      <4>3. CASE q = o
        <5>1. ledger.order[o].booked <= broker[o].filled /\ broker[o].position = job.on
          BY <4>1, <4>3, <1>c, <2>r DEF RowMatches
        <5> QED BY <4>3, <5>1, <1>2, <1>c, <1>e, <2>1, <2>r DEF RowMatches
      <4> QED BY <4>2, <4>3
    <3> QED BY <2>0, <2>1, <3>1 DEF Agreed
  <2>5. Process'
    BY <1>c, <2>0, <2>1, <2>2, <2>r DEF Process, Known, Running
  <2>6. Job'
    <3>1. Unused' = Unused
      BY <1>c, <2>0, <2>1, <2>r DEF Unused
    <3>2. \A q \in Orders : Sibling(job.on, q)' => q \in job.look \ {o}
      <4> SUFFICES ASSUME NEW q \in Orders, Sibling(job.on, q)' PROVE q \in job.look \ {o}
        OBVIOUS
      <4>0. broker'[q].position = job'.on /\ broker'[q].status \in BrokerOpen /\ ledger'.order[q] # NoOrder
        BY DEF Sibling
      <4>1. q # o
        BY <4>0, <1>2, <1>e, <2>0
      <4>2. Sibling(job.on, q)
        BY <4>0, <4>1, <2>0, <2>1, <2>2 DEF Sibling
      <4> QED BY <4>1, <4>2, <1>a, <1>c DEF Job
    <3>3. \A q \in Orders : ledger'.order[q].position = ledger.order[q].position
      BY <1>c, <2>1
    <3>4. \A q \in job'.look : ledger'.order[q].position = job'.on
      BY <2>2, <3>3 DEF Job, Tables, JobStates
    <3>5. job'.seen \in LIVE_STATUSES =>
            /\ job'.seenOrder \in Orders
            /\ ledger'.order[job'.seenOrder].position = job'.on
            /\ broker'[job'.seenOrder].status \notin {"accepted", "absent"}
      BY <2>0, <2>2, <3>3 DEF Job
    <3>6. \A q \in job'.rest : ledger'.qty[q] > 0
      BY <2>1, <2>2 DEF Job
    <3> QED BY <1>c, <2>0, <2>2, <3>1, <3>2, <3>4, <3>5, <3>6 DEF Job
  <2>7. Final'
    BY <1>a, <2>2 DEF Final
  <2> QED BY <2>3, <2>4, <2>5, <2>6, <2>7
<1> QED BY <1>1, <1>2, <1>d

LEMMA LookVerifyKeeps ==
  ASSUME StopsInv, LookVerify PROVE StopsInv'
<1> USE DEF StopsInv
<1> DEFINE o == Min(job.look)
           raw == broker[o].status
<1>a. /\ UNCHANGED <<observeOnly, levels, ledger, saved, broker, clock, due, session, process>>
      /\ job.kind # "stop_rearm" /\ job.look # {}
      /\ job' = [job EXCEPT !.seen = raw, !.seenOrder = o,
                            !.look = IF raw \in LIVE_STATUSES THEN {} ELSE @ \ {o}]
  BY DEF LookVerify, Jobs
<1>b. o \in job.look
  BY <1>a, EarliestIsOne DEF Tables, JobStates
<1>c. /\ o \in Orders /\ Running /\ ~observeOnly
      /\ job.on \in job.rest /\ job.on \in Positions /\ job.on # "none"
      /\ ledger.order[o].position = job.on
      /\ raw \in Words \ {"absent"}
  BY <1>b, LooksAtKnown
<1> HIDE DEF o, raw
<1>d. /\ job' \in JobStates /\ job'.kind = job.kind /\ job'.rest = job.rest /\ job'.on = job.on
      /\ job'.look \subseteq job.look /\ job'.seen = raw /\ job'.seenOrder = o
  BY <1>a, <1>c DEF Tables, JobStates
<1>1. Tables'
  BY <1>a, <1>d DEF Tables
<1>2. Agreed'
  BY <1>a DEF Agreed
<1>3. Process'
  BY <1>a, <1>c, <1>d DEF Process, Known, Running
<1>4. Job'
  <2>1. Unused' = Unused
    BY <1>a, UnusedSame
  <2>2. raw \in LIVE_STATUSES => raw \notin {"accepted", "absent"}
    BY DEF LIVE_STATUSES
  <2>3. raw = broker[o].status
    BY DEF raw
  <2> QED BY <1>a, <1>c, <1>d, <2>1, <2>2, <2>3 DEF Job
<1>5. Final'
  BY <1>a, <1>d DEF Final
<1> QED BY <1>1, <1>2, <1>3, <1>4, <1>5

LEMMA ConfirmLiveKeeps ==
  ASSUME StopsInv, ConfirmLive PROVE StopsInv'
<1> USE DEF StopsInv
<1> DEFINE row == [result |-> "live", order |-> job.seenOrder, verified |-> TRUE]
<1>a. /\ UNCHANGED Outside /\ UNCHANGED broker /\ job.on # "none" /\ Running
      /\ job.seen \in LIVE_STATUSES /\ Done(job.on, row)
  BY DEF ConfirmLive, Verifying, Outside, Running, Jobs
<1>b. job.on \in job.rest /\ job.seenOrder \in Orders
      /\ ledger.order[job.seenOrder].position = job.on
      /\ broker[job.seenOrder].status \notin {"accepted", "absent"}
  BY <1>a DEF Job
<1>c. row \in CoverRows
  BY <1>b DEF CoverRows
<1>d. Settles(row, job.on)
  BY <1>b DEF Settles
<1> HIDE DEF row
<1> QED BY <1>a, <1>b, <1>c, <1>d, DoneKeeps

LEMMA WaitForPendingKeeps ==
  ASSUME StopsInv, WaitForPending PROVE StopsInv'
<1> USE DEF StopsInv
<1>a. /\ UNCHANGED Outside /\ UNCHANGED broker /\ job.on # "none" /\ Running
      /\ job.kind # "post_open_verify_2" /\ Done(job.on, ledger.cover[job.on])
  BY DEF WaitForPending, Verifying, PendingAccepted, Outside, Running, Jobs
<1>b. job.on \in job.rest /\ job.on \in Positions
  BY <1>a DEF Job, Tables, JobStates
<1>c. ledger.cover[job.on] \in CoverRows
  BY <1>b DEF Tables, Ledgers
<1> QED BY <1>a, <1>b, <1>c, DoneKeeps

-----------------------------------------------------------------------------
(***************************************************************************)
(* A new exit.                                                             *)
(***************************************************************************)
\* The new order as the broker has it; a gateway that observes has none.
LEMMA SubmittedSound ==
  ASSUME StopsInv, NEW o \in Unused, NEW p \in Positions, ledger.qty[p] > 0,
         broker' = IF observeOnly THEN broker ELSE Submitted(o, p)
  PROVE  /\ broker' \in [Orders -> BrokerOrders] /\ BrokerSound(observeOnly, broker')
         /\ SameFills(broker, broker')
         /\ \A q \in Orders \ {o} : broker'[q] = broker[q]
         /\ observeOnly => broker'[o] = Absent
         /\ ~observeOnly => broker'[o].status = "accepted" /\ broker'[o].position = p
         /\ broker'[o].filled = 0
<1>0. /\ broker \in [Orders -> BrokerOrders] /\ BrokerSound(observeOnly, broker)
      /\ o \in Orders /\ broker[o] = Absent /\ ledger.qty[p] \in 1..Qty /\ Qty \in Nat
  BY StopsAssumption DEF StopsInv, Tables, Agreed, Ledgers, Unused, BrokerSound
<1>1. CASE observeOnly
  <2>1. broker' = broker
    BY <1>1
  <2>2. SameFills(broker, broker')
    BY <2>1 DEF SameFills
  <2>3. broker[o].filled = 0
    BY <1>0 DEF Absent
  <2> QED BY <1>0, <1>1, <2>1, <2>2, <2>3, Zenon
<1>2. CASE ~observeOnly
  <2> DEFINE n == [status |-> "accepted", position |-> p, filled |-> 0, leaves |-> ledger.qty[p]]
  <2>1. broker' = [broker EXCEPT ![o] = n]
    BY <1>2 DEF Submitted
  <2>2. /\ n \in BrokerOrders /\ n.status = "accepted" /\ n.position = p /\ n.filled = 0
        /\ n.leaves = ledger.qty[p]
    BY <1>0 DEF BrokerOrders, Words, BrokerOpen
  <2> HIDE DEF n
  <2>3. broker' \in [Orders -> BrokerOrders] /\ broker'[o] = n
        /\ \A q \in Orders \ {o} : broker'[q] = broker[q]
    BY <1>0, <2>1, <2>2
  <2>4. SameFills(broker, broker')
    BY <1>0, <2>2, <2>3 DEF SameFills, Absent
  <2>5. BrokerSound(observeOnly, broker')
    <3> SUFFICES ASSUME NEW q \in Orders
                 PROVE  /\ broker'[q].status = "absent" => broker'[q] = Absent
                        /\ broker'[q].status \in BrokerOpen => broker'[q].leaves > 0
                        /\ broker'[q].filled + broker'[q].leaves <= Qty
      BY <1>2 DEF BrokerSound
    <3>1. CASE q = o
      <4>1. n.status # "absent" /\ n.leaves > 0 /\ n.filled + n.leaves <= Qty
        BY <1>0, <2>2
      <4> QED BY <3>1, <2>3, <4>1
    <3>2. CASE q # o BY <3>2, <1>0, <2>3 DEF BrokerSound
    <3> QED BY <3>1, <3>2
  <2> QED BY <1>2, <2>2, <2>3, <2>4, <2>5
<1> QED BY <1>1, <1>2

LEMMA NextDecisionUnused ==
  ASSUME StopsInv, job.on # "none"
  PROVE  NextDecision \in Unused /\ job.on \in job.rest /\ job.on \in Positions
<1>1. job.on \in job.rest /\ job.on \in Positions
  BY StopsAssumption DEF StopsInv, Job, Tables, JobStates
<1>2. Unused # {}
  <2> SUFFICES ASSUME Unused = {} PROVE FALSE
    OBVIOUS
  <2>1. Cardinality(Unused) = 0
    BY FS_EmptySet
  <2>2. Cardinality(job.rest) <= Cardinality(Unused)
    BY DEF StopsInv, Job
  <2>3. IsFiniteSet(job.rest) /\ job.rest # {}
    BY <1>1, StopsAssumption, FS_Subset DEF StopsInv, Tables, JobStates
  <2>4. Cardinality(job.rest) \in Nat /\ Cardinality(job.rest) # 0
    BY <2>3, FS_CardinalityType, FS_EmptySet
  <2> QED BY <2>1, <2>2, <2>4
<1>3. Unused \subseteq Orders
  BY DEF Unused
<1> QED BY <1>1, <1>2, <1>3, EarliestIsOne DEF NextDecision

LEMMA SellKeeps ==
  ASSUME StopsInv, Running, NEW o \in Unused, NEW p \in job.rest, NEW row \in CoverRows,
         SellWith(o, p, row), UNCHANGED Outside,
         job.kind = "post_open_verify_2" => row.verified /\ row.result # "live"
  PROVE  StopsInv'
<1> USE DEF StopsInv
<1> DEFINE status == IF observeOnly THEN "FILL_PENDING_RECONSTRUCTION" ELSE "SUBMITTED"
           new == [status |-> status, position |-> p, booked |-> 0]
           cover == [row EXCEPT !.order = o]
<1>a. /\ UNCHANGED <<observeOnly, levels, saved, clock, due, session, process>>
      /\ broker' = (IF observeOnly THEN broker ELSE Submitted(o, p))
      /\ ledger' = [ledger EXCEPT !.order[o] = new, !.cover[p] = cover]
      /\ job' = [Idle EXCEPT !.kind = job.kind, !.rest = job.rest \ {p}]
  BY DEF Outside, SellWith
<1>b. p \in Positions /\ o \in Orders /\ ledger \in Ledgers /\ ledger.qty[p] > 0
      /\ broker[o].status = "absent" /\ broker[o] = Absent /\ ledger.order[o] = NoOrder
  BY DEF Tables, JobStates, Unused, Job, Agreed, BrokerSound
<1>c. /\ new \in OrderRows /\ new.status = status /\ new.position = p /\ new.booked = 0
      /\ cover \in CoverRows /\ cover.order = o /\ cover.verified = row.verified
      /\ cover.result = row.result
  BY <1>b DEF OrderRows, Statuses, CoverRows
<1>s. /\ observeOnly => status = "FILL_PENDING_RECONSTRUCTION"
      /\ ~observeOnly => status = "SUBMITTED"
  OBVIOUS
<1> HIDE DEF new, cover, status
<1>d. /\ ledger' \in Ledgers /\ ledger'.qty = ledger.qty
      /\ ledger'.order[o] = new /\ ledger'.cover[p] = cover
      /\ \A q \in Orders \ {o} : ledger'.order[q] = ledger.order[q]
      /\ \A q \in Positions \ {p} : ledger'.cover[q] = ledger.cover[q]
  <2>1. ledger' = [ledger EXCEPT !.order = [ledger.order EXCEPT ![o] = new],
                                 !.cover = [ledger.cover EXCEPT ![p] = cover]]
    BY <1>a, <1>b DEF Ledgers
  <2> QED BY <1>b, <1>c, <2>1 DEF Ledgers
<1>e. /\ broker' \in [Orders -> BrokerOrders] /\ BrokerSound(observeOnly, broker')
      /\ SameFills(broker, broker')
      /\ \A q \in Orders \ {o} : broker'[q] = broker[q]
      /\ observeOnly => broker'[o] = Absent
      /\ ~observeOnly => broker'[o].status = "accepted" /\ broker'[o].position = p
      /\ broker'[o].filled = 0
  BY <1>a, <1>b, SubmittedSound
<1>f. /\ job'.kind = job.kind /\ job'.rest = job.rest \ {p} /\ job'.on = "none"
      /\ job'.look = {} /\ job'.seen = "none" /\ job'.seenOrder = 0
  BY <1>a DEF Idle
<1>1. Tables'
  <2>1. job' \in JobStates
    BY <1>a DEF Idle, JobStates, Tables
  <2> QED BY <1>a, <1>d, <1>e, <2>1 DEF Tables
<1>2. Agreed'
  <2>1. Matches(observeOnly, ledger'.order, broker')
    <3> SUFFICES ASSUME NEW q \in Orders PROVE RowMatches(observeOnly, ledger'.order[q], broker'[q])
      BY DEF Matches
    <3>1. CASE q = o
      BY <3>1, <1>c, <1>d, <1>e, <1>s DEF RowMatches, NoOrder, WorkingStatuses, BrokerOpen, Absent
    <3>2. CASE q # o
      BY <3>2, <1>d, <1>e DEF Agreed, Matches
    <3> QED BY <3>1, <3>2
  <2>2. Matches(observeOnly, saved.order, broker')
    <3> SUFFICES ASSUME NEW q \in Orders PROVE RowMatches(observeOnly, saved.order[q], broker'[q])
      BY DEF Matches
    <3>1. RowMatches(observeOnly, saved.order[q], broker[q])
      BY DEF Agreed, Matches
    <3>2. CASE q = o /\ observeOnly
      BY <3>1, <3>2, <1>b, <1>e
    <3>3. CASE q = o /\ ~observeOnly
      <4>1. saved.order[q] = NoOrder
        BY <3>1, <3>3, <1>b DEF RowMatches
      <4> QED BY <3>3, <4>1, <1>e DEF RowMatches, NoOrder
    <3>4. CASE q # o
      BY <3>1, <3>4, <1>e
    <3> QED BY <3>2, <3>3, <3>4
  <2>3. \A q \in Positions : HeldIn(broker', q) = HeldIn(broker, q)
    BY <1>e, NoneFilled
  <2>4. Sold(ledger'.qty, broker') /\ Sold(saved.qty, broker')
    BY <1>d, <2>3 DEF Agreed, Sold
  <2> QED BY <1>a, <1>e, <2>1, <2>2, <2>4 DEF Agreed
<1>3. Process'
  <2>1. Known => Known'
    <3> SUFFICES ASSUME Known, NEW q \in Orders, broker'[q].status \in BrokerOpen
                 PROVE  ledger'.order[q] # NoOrder
      BY DEF Known
    <3>1. CASE q = o
      BY <3>1, <1>c, <1>d, <1>s DEF NoOrder
    <3>2. CASE q # o
      BY <3>2, <1>d, <1>e DEF Known
    <3> QED BY <3>1, <3>2
  <2> QED BY <1>a, <1>f, <2>1 DEF Process, Running
<1>4. Job'
  <2>1. Unused' = Unused \ {o}
    <3>1. ledger'.order[o] # NoOrder
      BY <1>c, <1>d, <1>s DEF NoOrder
    <3> QED BY <1>d, <1>e, <3>1 DEF Unused
  <2>2. Cardinality(job'.rest) <= Cardinality(Unused')
    <3>1. Cardinality(job.rest) <= Cardinality(Unused)
      BY DEF Job
    <3>2. /\ Cardinality(job.rest \ {p}) = Cardinality(job.rest) - 1
          /\ Cardinality(job.rest) \in Nat /\ Cardinality(Unused) \in Nat /\ IsFiniteSet(Unused)
      BY FewerLeft
    <3>3. Cardinality(Unused \ {o}) = Cardinality(Unused) - 1
      BY <3>2, FS_RemoveElement
    <3>4. job'.rest = job.rest \ {p}
      BY <1>f
    <3> HIDE DEF StopsInv
    <3> QED BY <2>1, <3>1, <3>2, <3>3, <3>4
  <2>3. \A q \in job'.rest : ledger'.qty[q] > 0
    BY <1>d, <1>f DEF Job
  <2> QED BY <1>a, <1>f, <2>2, <2>3 DEF Job, LIVE_STATUSES
<1>5. Final'
  <2> SUFFICES ASSUME job.kind = "post_open_verify_2", ~observeOnly,
                      NEW q \in levels, q \notin job.rest \ {p}, ledger.qty[q] > 0
               PROVE  Covered(ledger', broker', q)
    BY <1>a, <1>d, <1>f DEF Final
  <2>1. CASE q = p
    BY <2>1, <1>b, <1>c, <1>d, <1>e DEF Covered
  <2>2. CASE q # p
    <3>1. Covered(ledger, broker, q)
      BY <2>2 DEF Final
    <3>2. ledger'.cover[q] = ledger.cover[q]
      BY <2>2, <1>d DEF Tables
    <3>3. ledger.cover[q].order # o
      BY <3>1, <1>b DEF Covered
    <3> QED BY <1>d, <1>e, <3>1, <3>2, <3>3 DEF Covered
  <2> QED BY <2>1, <2>2
<1> QED BY <1>1, <1>2, <1>3, <1>4, <1>5

LEMMA ArmKeeps ==
  ASSUME StopsInv, NEW gap \in BOOLEAN, Arm(gap) PROVE StopsInv'
<1> USE DEF StopsInv
<1> DEFINE row == [ledger.cover[job.on] EXCEPT !.result =
                     IF observeOnly THEN "not_applicable"
                     ELSE IF gap THEN "software_stop_placed" ELSE "none"]
<1>1. /\ UNCHANGED Outside /\ job.kind = "stop_rearm" /\ Running /\ job.on # "none"
      /\ SellWith(NextDecision, job.on, row)
  BY DEF Arm, Outside, Running
<1>2. NextDecision \in Unused /\ job.on \in job.rest /\ job.on \in Positions
  BY <1>1, NextDecisionUnused
<1>3. row \in CoverRows
  BY <1>2 DEF Tables, Ledgers, CoverRows
<1> HIDE DEF row
<1> QED BY <1>1, <1>2, <1>3, SellKeeps

LEMMA ProtectKeeps ==
  ASSUME StopsInv, NEW below \in BOOLEAN, Protect(below) PROVE StopsInv'
<1> USE DEF StopsInv
<1> DEFINE row == [result |-> IF below THEN "software_stop_placed" ELSE "missing",
                   order |-> 0, verified |-> TRUE]
<1>1. /\ UNCHANGED Outside /\ Running /\ job.on # "none"
      /\ SellWith(NextDecision, job.on, row)
  BY DEF Protect, Verifying, Outside, Running, Jobs
<1>2. NextDecision \in Unused /\ job.on \in job.rest /\ job.on \in Positions
  BY <1>1, NextDecisionUnused
<1>3. row \in CoverRows /\ row.verified /\ row.result # "live"
  BY DEF CoverRows
<1> HIDE DEF row
<1> QED BY <1>1, <1>2, <1>3, SellKeeps

-----------------------------------------------------------------------------
(***************************************************************************)
(* The boot.                                                               *)
(***************************************************************************)
\* What a boot makes of a row: the fills are booked, a working row takes the
\* broker's word.
Reconciled(row, ord) ==
    IF row.status \in WorkingStatuses
    THEN [row EXCEPT !.booked = ord.filled,
             !.status = IF ord.status = "accepted" THEN @ ELSE STATUS_MAP[ord.status]]
    ELSE [row EXCEPT !.booked = ord.filled]

\* A boot that comes up leaves every row in agreement with the broker.
LEMMA ReconciledMatches ==
  ASSUME StopsInv, NEW o \in Orders, ~UnknownToLedger(o)
  PROVE  /\ Reconciled(ledger.order[o], broker[o]) \in OrderRows
         /\ RowMatches(observeOnly, Reconciled(ledger.order[o], broker[o]), broker[o])
         /\ broker[o].status \in BrokerOpen => Reconciled(ledger.order[o], broker[o]) # NoOrder
<1> DEFINE row == ledger.order[o]
           ord == broker[o]
           now == Reconciled(row, ord)
<1>1. row \in OrderRows /\ ord \in BrokerOrders /\ RowMatches(observeOnly, row, ord)
      /\ (observeOnly => ord = Absent)
  BY DEF StopsInv, Tables, Ledgers, Agreed, Matches, BrokerSound
<1>2. ord.filled \in Nat /\ ord.status \in Words
  BY <1>1, StopsAssumption DEF BrokerOrders
<1>3. row = NoOrder => ord.status \notin BrokerOpen /\ ~(ord.filled > 0)
  BY DEF UnknownToLedger
<1>4. CASE row.status \in WorkingStatuses
  <2>1. ~observeOnly /\ ord.status # "absent" /\ row # NoOrder /\ ord.position = row.position
    BY <1>1, <1>4 DEF RowMatches, NoOrder, WorkingStatuses
  <2>2. /\ now.position = row.position /\ now.booked = ord.filled
        /\ now.status = (IF ord.status = "accepted" THEN row.status ELSE STATUS_MAP[ord.status])
        /\ now \in [status : {now.status}, position : Positions \cup {"none"}, booked : Nat]
    BY <1>1, <1>2, <1>4 DEF Reconciled, OrderRows
  <2>3. /\ now.status \in {"SUBMITTED", "PARTIALLY_FILLED", "FILLED", "CANCELLED"}
        /\ ord.status \in BrokerOpen => now.status \in WorkingStatuses
    BY <1>2, <1>4, <2>1, <2>2 DEF STATUS_MAP, Words, BrokerOpen, WorkingStatuses
  <2>4. now # NoOrder /\ now.status # "none"
    BY <2>3 DEF NoOrder
  <2>5. now \in OrderRows
    BY <2>2, <2>3 DEF OrderRows, Statuses
  <2> HIDE DEF now, row, ord
  <2>6. RowMatches(observeOnly, now, ord)
    BY <1>2, <2>1, <2>2, <2>3, <2>4 DEF RowMatches
  <2> QED BY <2>4, <2>5, <2>6 DEF now, row, ord
<1>5. CASE row.status \notin WorkingStatuses
  <2>1. /\ now \in OrderRows /\ now.status = row.status /\ now.position = row.position
        /\ now.booked = ord.filled
    BY <1>1, <1>2, <1>5 DEF Reconciled, OrderRows
  <2>2. row = NoOrder => now = NoOrder
    <3> SUFFICES ASSUME row = NoOrder PROVE now = NoOrder
      OBVIOUS
    <3>1. ord.filled = 0
      BY <1>2, <1>3
    <3> QED BY <3>1, <1>5 DEF Reconciled, NoOrder
  <2>3. row # NoOrder => now # NoOrder
    BY <1>1, <2>1 DEF RowMatches, NoOrder
  <2> HIDE DEF now, row, ord
  <2>4. RowMatches(observeOnly, now, ord)
    BY <1>1, <1>2, <1>5, <2>1, <2>2, <2>3 DEF RowMatches
  <2>5. ord.status \in BrokerOpen => now # NoOrder
    BY <1>3, <2>3
  <2> QED BY <2>1, <2>4, <2>5 DEF now, row, ord
<1> QED BY <1>4, <1>5

LEMMA BootKeeps ==
  ASSUME StopsInv, Boot PROVE StopsInv'
<1> USE DEF StopsInv
<1>a. /\ UNCHANGED <<observeOnly, levels, broker, clock, due, session, job>>
      /\ process = "down" /\ ~Running /\ job = Idle
  BY DEF Boot, Process
<1>1. CASE process' = "halted" /\ UNCHANGED <<ledger, saved>>
  <2>1. Tables'
    BY <1>1, <1>a DEF Tables
  <2>2. Agreed'
    BY <1>1, <1>a DEF Agreed
  <2>3. Process'
    BY <1>1, <1>a DEF Process, Running
  <2>4. Job' /\ Final'
    BY <1>a, <2>1, IdleJob DEF Tables
  <2> QED BY <2>1, <2>2, <2>3, <2>4
<1>2. CASE /\ ~\E o \in Orders : UnknownToLedger(o)
           /\ process' = "up" /\ saved' = ledger'
           /\ ledger' = [ledger EXCEPT
                !.order = [o \in Orders |->
                    IF ledger.order[o].status \in WorkingStatuses
                    THEN [ledger.order[o] EXCEPT !.booked = broker[o].filled,
                            !.status = IF broker[o].status = "accepted" THEN @
                                       ELSE STATUS_MAP[broker[o].status]]
                    ELSE [ledger.order[o] EXCEPT !.booked = broker[o].filled]],
                !.qty = [p \in Positions |-> Held(p)]]
  <2> DEFINE rows == [o \in Orders |-> Reconciled(ledger.order[o], broker[o])]
             held == [p \in Positions |-> HeldIn(broker, p)]
  <2>1. ledger' = [ledger EXCEPT !.order = rows, !.qty = held]
    BY <1>2, HeldIsHeldIn DEF Reconciled
  <2>2. \A o \in Orders :
           /\ rows[o] \in OrderRows /\ RowMatches(observeOnly, rows[o], broker[o])
           /\ broker[o].status \in BrokerOpen => rows[o] # NoOrder
    BY <1>2, ReconciledMatches
  <2>3. rows \in [Orders -> OrderRows]
    BY <2>2
  <2>4. held \in [Positions -> 0..Qty] /\ \A p \in Positions : held[p] = HeldIn(broker, p)
    BY DEF Agreed, Sold
  <2> HIDE DEF rows, held
  <2>5. ledger' \in Ledgers /\ ledger'.order = rows /\ ledger'.qty = held
    BY <2>1, <2>3, <2>4 DEF Tables, Ledgers
  <2>6. Tables'
    BY <1>2, <1>a, <2>5 DEF Tables
  <2>7. Agreed'
    <3>1. Matches(observeOnly, rows, broker)
      BY <2>2 DEF Matches
    <3>2. Sold(held, broker)
      <4>1. Qty \in Nat
        BY StopsAssumption
      <4> QED BY <2>4, <4>1 DEF Sold
    <3> QED BY <1>2, <1>a, <2>5, <3>1, <3>2 DEF Agreed
  <2>8. Process'
    BY <1>2, <1>a, <2>2, <2>5 DEF Process, Known, Running
  <2>9. Job' /\ Final'
    BY <1>a, <2>6, IdleJob DEF Tables
  <2> QED BY <2>6, <2>7, <2>8, <2>9
<1> QED BY <1>1, <1>2 DEF Boot

LEMMA StopsNext == StopsInv /\ [Next]_vars => StopsInv'
<1> SUFFICES ASSUME StopsInv, [Next]_vars PROVE StopsInv'
  OBVIOUS
<1>1. ASSUME NEW o \in Orders, BrokerStep(o) PROVE StopsInv'
  BY <1>1, BrokerStepKeeps
<1>2. CASE Tick           BY <1>2, TickKeeps
<1>3. CASE StartJob       BY <1>3, StartJobKeeps
<1>4. ASSUME NEW p \in Positions, NextPosition(p) PROVE StopsInv'
  BY <1>4, NextPositionKeeps
<1>5. CASE LookRearm      BY <1>5, LookRearmKeeps
<1>6. CASE LookVerify     BY <1>6, LookVerifyKeeps
<1>7. ASSUME NEW b \in BOOLEAN, Arm(b) PROVE StopsInv'
  BY <1>7, ArmKeeps
<1>8. ASSUME NEW b \in BOOLEAN, Protect(b) PROVE StopsInv'
  BY <1>8, ProtectKeeps
<1>9. CASE ConfirmLive    BY <1>9, ConfirmLiveKeeps
<1>10. CASE WaitForPending BY <1>10, WaitForPendingKeeps
<1>11. CASE FinishJob     BY <1>11, FinishJobKeeps
<1>12. CASE Fail          BY <1>12, FailKeeps
<1>13. CASE Boot          BY <1>13, BootKeeps
<1>14. CASE UNCHANGED vars
  <2>1. UNCHANGED <<observeOnly, levels, ledger, saved, broker, clock, due, session, process, job>>
    BY <1>14 DEF vars
  <2>2. Unused' = Unused /\ \A p, o : Sibling(p, o)' = Sibling(p, o)
    BY <2>1, UnusedSame
  <2>3. Job'
    BY <2>1, <2>2 DEF StopsInv, Job
  <2> QED BY <2>1, <2>3 DEF StopsInv, Tables, Agreed, Process, Known, Running, Final
<1> QED BY <1>1, <1>2, <1>3, <1>4, <1>5, <1>6, <1>7, <1>8, <1>9, <1>10, <1>11, <1>12, <1>13, <1>14
        DEF Next

LEMMA StopsInvariant == Spec => []StopsInv
BY StopsInit, StopsNext, PTL DEF Spec

-----------------------------------------------------------------------------
\* The ledger is never ahead of the broker: what it holds is at least what is there,
\* and no fill is booked that was not made. (reconcile, StopArmer)
THEOREM StopsTypeCorrect == Spec => []TypeOK
<1>1. StopsInv => TypeOK
  <2> SUFFICES ASSUME StopsInv PROVE TypeOK
    OBVIOUS
  <2>1. ASSUME NEW led, led \in Ledgers, Matches(observeOnly, led.order, broker), Sold(led.qty, broker)
        PROVE  /\ \A o \in Orders : led.order[o].status \in Statuses
                                    /\ led.order[o].booked \in 0..broker[o].filled
               /\ \A p \in Positions : led.qty[p] \in Held(p)..Qty
                                       /\ led.cover[p].order \in Orders \cup {0}
    <3>1. ASSUME NEW o \in Orders
          PROVE  led.order[o].status \in Statuses /\ led.order[o].booked \in 0..broker[o].filled
      <4>1. led.order[o] \in OrderRows /\ broker[o] \in BrokerOrders
            /\ led.order[o].booked <= broker[o].filled
        BY <2>1 DEF StopsInv, Tables, Ledgers, Matches, RowMatches
      <4>2. led.order[o].booked \in Nat /\ broker[o].filled \in Nat
        BY <4>1, StopsAssumption DEF OrderRows, BrokerOrders
      <4> QED BY <4>1, <4>2 DEF OrderRows
    <3>2. ASSUME NEW p \in Positions
          PROVE  led.qty[p] \in Held(p)..Qty /\ led.cover[p].order \in Orders \cup {0}
      <4>1. led.qty[p] \in 0..Qty /\ led.cover[p] \in CoverRows
        BY <2>1 DEF Ledgers
      <4>2. HeldIn(broker, p) \in 0..Qty /\ HeldIn(broker, p) <= led.qty[p] /\ Held(p) = HeldIn(broker, p)
        BY <2>1, HeldIsHeldIn DEF Sold
      <4>3. Qty \in Nat
        BY StopsAssumption
      <4>4. led.qty[p] \in Held(p)..Qty
        BY <4>1, <4>2, <4>3
      <4> QED BY <4>1, <4>4 DEF CoverRows
    <3> QED BY <3>1, <3>2
  <2>2. \A o \in Orders : broker[o].leaves \in 0..Qty
    BY DEF StopsInv, Tables, BrokerOrders
  <2>3. /\ ledger \in Ledgers /\ saved \in Ledgers
        /\ Matches(observeOnly, ledger.order, broker) /\ Matches(observeOnly, saved.order, broker)
        /\ Sold(ledger.qty, broker) /\ Sold(saved.qty, broker)
    BY DEF StopsInv, Tables, Agreed
  <2>4. job.kind \in Jobs \cup {"none"} /\ job.rest \subseteq Positions
    BY DEF StopsInv, Tables, JobStates
  <2>5. /\ observeOnly \in BOOLEAN /\ levels \subseteq Positions
        /\ process \in {"up", "down", "halted"}
    BY DEF StopsInv, Tables
  <2>6. \A led \in {ledger, saved} :
          /\ \A o \in Orders :
                /\ led.order[o].status \in Statuses
                /\ led.order[o].booked \in 0..broker[o].filled
          /\ \A p \in Positions :
                /\ led.qty[p] \in Held(p)..Qty
                /\ led.cover[p].order \in Orders \cup {0}
    BY <2>1, <2>3
  <2> QED BY <2>2, <2>4, <2>5, <2>6 DEF TypeOK
<1> QED BY <1>1, StopsInvariant, PTL

\* Whatever dies between a submit and its commit: a worker that is up knows every order
\* the broker works, and as a working one. (register_execution_jobs, reconcile)
THEOREM StopsUpKnowsItsOrders == Spec => []UpKnowsItsOrders
<1>1. StopsInv => UpKnowsItsOrders
  BY DEF StopsInv, Process, Known, Agreed, Matches, RowMatches, UpKnowsItsOrders
<1> QED BY <1>1, StopsInvariant, PTL

\* For any number of positions and orders, and however the broker moves between the
\* calls: no re-arm submits an exit beside one the broker still works. (StopArmer.rearm)
THEOREM StopsRearmNeverDoubles == Spec => RearmNeverDoubles
<1> DEFINE Alone == job.kind = "stop_rearm" =>
        \A p \in Positions : Submits(p) => ~\E o \in Orders : Sibling(p, o)
<1>1. ASSUME StopsInv, Next, job.kind = "stop_rearm",
             NEW q \in Orders, broker[q] = Absent, broker'[q] # Absent
      PROVE  /\ \A o \in Orders : ~Sibling(job.on, o)
             /\ broker'[q].position = job.on
  <2>1. ASSUME NEW o \in Orders, BrokerStep(o) PROVE FALSE
    <3>1. GoesOn(broker, broker')
      BY <1>1, <2>1, BrokerGoesOn
    <3> QED BY <1>1, <3>1 DEF GoesOn, Absent, BrokerOpen
  <2>2. ASSUME broker' = broker PROVE FALSE
    BY <1>1, <2>2
  <2>3. ASSUME NEW b \in BOOLEAN, Protect(b) PROVE FALSE
    BY <1>1, <2>3 DEF Protect, Verifying
  <2>4. PICK gap \in BOOLEAN : Arm(gap)
    BY <1>1, <2>1, <2>2, <2>3
      DEF Next, Tick, StartJob, NextPosition, LookRearm, LookVerify, ConfirmLive,
          WaitForPending, FinishJob, Fail, Boot
  <2>5. /\ job.on # "none" /\ job.look = {}
        /\ broker' = IF observeOnly THEN broker ELSE Submitted(NextDecision, job.on)
    BY <2>4 DEF Arm, SellWith
  <2>6. \A o \in Orders : ~Sibling(job.on, o)
    BY <1>1, <2>5 DEF StopsInv, Job
  <2>7. broker'[q].position = job.on
    <3>1. broker' = Submitted(NextDecision, job.on)
      BY <2>2, <2>5
    <3> QED BY <1>1, <3>1 DEF Submitted, StopsInv, Tables
  <2> QED BY <2>6, <2>7
<1>2. StopsInv /\ [Next]_vars => [Alone]_vars
  <2> SUFFICES ASSUME StopsInv, Next, job.kind = "stop_rearm", NEW p \in Positions, Submits(p)
               PROVE  ~\E o \in Orders : Sibling(p, o)
    OBVIOUS
  <2> QED BY <1>1 DEF Submits
<1> QED BY <1>2, StopsInvariant, PTL DEF Spec, RearmNeverDoubles

\* For any number of positions: when the final verification commits, every position
\* with a level and shares has a verified row that names an order the broker has, and a
\* live one or a new one. (StopArmer.verify_post_open)
THEOREM StopsFinalVerificationCovers == Spec => FinalVerificationCovers
<1> DEFINE Covers ==
      job.kind = "post_open_verify_2" /\ job'.kind = "none" /\ process' = "up"
            /\ ~observeOnly =>
        \A p \in levels :
            saved'.qty[p] > 0 =>
                LET c == saved'.cover[p] IN
                /\ c.verified
                /\ saved'.order[c.order].position = p
                /\ c.result = "live" => broker'[c.order].status # "accepted"
                /\ broker'[c.order].status # "absent"
<1>1. ASSUME StopsInv, Next, job.kind = "post_open_verify_2", job'.kind = "none", process' = "up"
      PROVE  FinishJob
  <2>1. job.kind \in Jobs /\ ~("none" \in Jobs) /\ job \in JobStates
    BY <1>1 DEF Jobs, StopsInv, Tables
  <2>2. ASSUME NEW p, NEW row, Done(p, row) PROVE FALSE
    BY <1>1, <2>1, <2>2 DEF Done, Idle
  <2>3. ASSUME NEW o, NEW p, NEW row, SellWith(o, p, row) PROVE FALSE
    BY <1>1, <2>1, <2>3 DEF SellWith, Idle
  <2>4. ~Fail
    BY <1>1 DEF Fail
  <2>5. ~StartJob
    BY <1>1, <2>1 DEF StartJob, StopsInv, Process, Idle
  <2>6. ~LookVerify /\ ~LookRearm
    BY <1>1, <2>1 DEF LookVerify, LookRearm, JobStates
  <2>7. ASSUME NEW p \in Positions, NextPosition(p) PROVE FALSE
    BY <1>1, <2>1, <2>2, <2>7 DEF NextPosition, JobStates
  <2>8. ~ConfirmLive /\ ~WaitForPending
    BY <2>2 DEF ConfirmLive, WaitForPending
  <2>9. ASSUME NEW b \in BOOLEAN, Arm(b) \/ Protect(b) PROVE FALSE
    BY <2>3, <2>9 DEF Arm, Protect
  <2>10. ~(\E o \in Orders : BrokerStep(o)) /\ ~Tick /\ ~Boot
    BY <1>1, <2>1 DEF BrokerStep, Tick, Boot
  <2> QED BY <1>1, <2>4, <2>5, <2>6, <2>7, <2>8, <2>9, <2>10 DEF Next
<1>2. ASSUME StopsInv, FinishJob, job.kind = "post_open_verify_2", ~observeOnly,
             NEW p \in levels, saved'.qty[p] > 0
      PROVE  Covered(saved', broker', p)
  <2>1. saved' = ledger /\ broker' = broker /\ job.rest = {}
    BY <1>2 DEF FinishJob
  <2> QED BY <1>2, <2>1 DEF StopsInv, Final
<1>3. StopsInv /\ [Next]_vars => [Covers]_vars
  <2> SUFFICES ASSUME StopsInv, Next, job.kind = "post_open_verify_2", job'.kind = "none",
                      process' = "up", ~observeOnly, NEW p \in levels, saved'.qty[p] > 0
               PROVE  Covered(saved', broker', p)
    BY DEF Covered
  <2> QED BY <1>1, <1>2
<1> QED BY <1>3, StopsInvariant, PTL DEF Spec, FinalVerificationCovers
=============================================================================
