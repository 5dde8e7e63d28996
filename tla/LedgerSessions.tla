--------------------------- MODULE LedgerSessions ---------------------------
(***************************************************************************)
(* The database sessions behind Ledger: several connections, each running  *)
(* a READ COMMITTED transaction of record_order, apply_fill,               *)
(* transition_order and _resolve_order calls on one portfolio, one SQL     *)
(* statement at a time.  What keeps them apart is the transaction-scoped   *)
(* advisory lock of lock_portfolio, the row lock of an update, the unique  *)
(* keys, and the triggers, which see the newest row and not the caller's.  *)
(* A BUY reserves, its fills consume the reservation and pay; SELLs, which *)
(* only add cash, are left to Ledger.                                      *)
(***************************************************************************)
EXTENDS Integers, Sequences, FiniteSets, TLC, OrderStates, Sums

CONSTANTS
    Sessions,   \* connections to the database
    Orders,     \* BUY orders of the portfolio, by client_order_id
    Fills,      \* broker_fill_id of the fills the broker has reported
    FillOf,     \* [Fills -> [order : Orders, usd : Nat, last : BOOLEAN]]
    Equity,     \* the opening balance
    InitRows,   \* [Orders -> Row]: the orders table the sessions start from
    Plans,      \* the sequences of calls a transaction may make
    Nobody

VARIABLES
    row,        \* orders, committed
    booked,     \* fills, committed
    balance,    \* the latest committed cash_ledger balance
    holder,     \* the session that holds the portfolio's advisory lock
    owner,      \* the session that holds each order's row (or unique key)
    txn         \* the transaction of each session

vars == <<row, booked, balance, holder, owner, txn>>

NoRow == [status |-> "none", granted |-> 0, reserved |-> 0]
Row == [status : Statuses, granted : 0..Equity, reserved : 0..Equity]

\* The calls of a transaction: record_order of a BUY, one turn of the replay
\* loop, transition_order, and the broker_order_id update of _resolve_order.
Call ==
    [kind : {"buy"}, order : Orders, usd : 1..Equity]
    \cup [kind : {"fill"}, fill : Fills]
    \cup [kind : {"move"}, order : Orders, to : Statuses]
    \cup [kind : {"adopt"}, order : Orders]

Steps == {"idle", "call", "lock", "reserve", "book", "consume", "pay", "advance"}

Outcomes == {"none", "committed", "lost", "refused", "inactive", "unique",
             "overdrawn", "illegal", "deadlock"}

\* draft holds the session's own versions of the rows it owns; seen is the
\* status in the order dict the caller read before the lock.
Fresh == [at |-> "idle", todo |-> <<>>, draft |-> [o \in Orders |-> NoRow],
          fills |-> {}, cash |-> Equity, paid |-> FALSE, seen |-> "none",
          outcome |-> "none"]

Txn == [at : Steps, todo : Seq(Call), draft : [Orders -> Row], fills : SUBSET Fills,
        cash : 0..Equity, paid : BOOLEAN, seen : Statuses, outcome : Outcomes]

This(s) == Head(txn[s].todo)
Fill(s) == FillOf[This(s).fill]

\* The order of the current call.
Subject(s) == IF This(s).kind = "fill" THEN Fill(s).order ELSE This(s).order

\* A statement sees what is committed when it starts, and the session's own writes.
Sees(s, o) == IF owner[o] = s THEN txn[s].draft[o] ELSE row[o]
SeesBooked(s) == booked \cup txn[s].fills
SeesBalance(s) == IF txn[s].paid THEN txn[s].cash ELSE balance

Free(s, o) == owner[o] \in {Nobody, s}

HoldOf(r) == IF r.status \in OpenStatuses THEN r.reserved ELSE 0

\* portfolio_available_cash inside the transaction.
Available(s) == SeesBalance(s) - Tally([o \in Orders |-> HoldOf(Sees(s, o))], Equity)

Moved(r, to) ==
    [r EXCEPT !.status = to, !.reserved = IF to \in OpenStatuses THEN @ ELSE 0]

\* The fills that have consumed the reservation of an order, among some.
Of(o, fills) == {f \in fills : FillOf[f].order = o}
Spent(fills) == Tally([f \in fills |-> FillOf[f].usd], Equity)

\* reconcile replays oldest first: an order's last fill comes after its others,
\* unless they are booked.
Orderly(plan, have) ==
    \A i \in DOMAIN plan :
        plan[i].kind = "fill" =>
            LET f == plan[i].fill IN
            FillOf[f].last =>
                \A g \in Of(FillOf[f].order, Fills) :
                    g \in have \/ \E j \in 1..i : plan[j].kind = "fill" /\ plan[j].fill = g

\* granted counts what an order had left when the sessions start.
ASSUME SessionsAssumption ==
    /\ IsFiniteSet(Sessions) /\ IsFiniteSet(Orders) /\ IsFiniteSet(Fills)
    /\ Equity \in Nat
    /\ FillOf \in [Fills -> [order : Orders, usd : Nat, last : BOOLEAN]]
    /\ Nobody \notin Sessions
    /\ InitRows \in [Orders -> Row]
    /\ \A o \in Orders :
          /\ InitRows[o].status = "none" => InitRows[o] = NoRow
          /\ InitRows[o].status \in OpenStatuses =>
                InitRows[o].reserved = InitRows[o].granted
    /\ Plans \subseteq Seq(Call)

\* What Ledger proves of an order by itself (FillsAffordable, FilledMeansBooked):
\* its fills fit its reservation, and only the replay of the last one makes it FILLED.
ASSUME AffordableAssumption ==
    /\ Tally([o \in Orders |-> HoldOf(InitRows[o])], Equity) <= Equity
    /\ \A o \in Orders :
          /\ InitRows[o].status # "none" => Spent(Of(o, Fills)) <= InitRows[o].granted
          /\ InitRows[o].status = "FILLED" => Of(o, Fills) = {}
    /\ \A plan \in Plans :
          /\ Orderly(plan, {})
          /\ \A i \in DOMAIN plan :
                /\ plan[i].kind = "buy" => Spent(Of(plan[i].order, Fills)) <= plan[i].usd
                /\ plan[i].kind = "move" => plan[i].to # "FILLED"

-----------------------------------------------------------------------------
Init ==
    /\ row = InitRows
    /\ booked = {}
    /\ balance = Equity
    /\ holder = Nobody
    /\ owner = [o \in Orders |-> Nobody]
    /\ txn = [s \in Sessions |-> Fresh]

Goto(s, label) == txn' = [txn EXCEPT ![s].at = label]

\* The transaction of s is over: both kinds of lock are released.
End(s, outcome) ==
    /\ txn' = [txn EXCEPT ![s] = [Fresh EXCEPT !.outcome = outcome]]
    /\ holder' = IF holder = s THEN Nobody ELSE holder
    /\ owner' = [o \in Orders |-> IF owner[o] = s THEN Nobody ELSE owner[o]]

\* A statement raised (or the connection was lost): nothing is kept.
Abort(s, outcome) == End(s, outcome) /\ UNCHANGED <<row, booked, balance>>

Begin(s, plan) ==
    /\ txn[s].at = "idle"
    /\ txn' = [txn EXCEPT ![s] = [Fresh EXCEPT !.at = "call", !.todo = plan]]
    /\ UNCHANGED <<row, booked, balance, holder, owner>>

Commit(s) ==
    /\ txn[s].at = "call" /\ txn[s].todo = <<>>
    /\ row' = [o \in Orders |-> Sees(s, o)]
    /\ booked' = SeesBooked(s)
    /\ balance' = SeesBalance(s)
    /\ End(s, "committed")

\* s owns row o with version r, and its current call is done.
Write(s, o, r) ==
    /\ owner' = [owner EXCEPT ![o] = s]
    /\ txn' = [txn EXCEPT ![s].draft[o] = r, ![s].at = "call", ![s].todo = Tail(@)]
    /\ UNCHANGED <<row, booked, balance, holder>>

Calls(s, kind) == txn[s].at = "call" /\ txn[s].todo # <<>> /\ This(s).kind = kind

\* Mutant: the trigger forgets the lock.
StartBuyUnlocked(s) ==
    /\ Calls(s, "buy")
    /\ Goto(s, "reserve")
    /\ UNCHANGED <<row, booked, balance, holder, owner>>

\* The insert of record_order runs into orders_reserve_capital, which first
\* waits for the lock.
StartBuy(s) ==
    /\ Calls(s, "buy")
    /\ Goto(s, "lock")
    /\ UNCHANGED <<row, booked, balance, holder, owner>>

\* _resolve_order reads the order; apply_fill looks for the fill, before the lock.
FindFill(s) ==
    /\ Calls(s, "fill")
    /\ txn' = IF This(s).fill \in SeesBooked(s)
              THEN [txn EXCEPT ![s].todo = Tail(@)]
              ELSE [txn EXCEPT ![s].at = "lock",
                               ![s].seen = Sees(s, Subject(s)).status]
    /\ UNCHANGED <<row, booked, balance, holder, owner>>

\* Mutant: the lock is taken per session, not per portfolio.
LockNothing(s) ==
    /\ txn[s].at = "lock"
    /\ holder' = s
    /\ Goto(s, IF This(s).kind = "buy" THEN "reserve" ELSE "book")
    /\ UNCHANGED <<row, booked, balance, owner>>

\* lock_portfolio: pg_advisory_xact_lock, reentrant, held to the end.
LockPortfolio(s) ==
    /\ txn[s].at = "lock"
    /\ holder \in {Nobody, s}
    /\ holder' = s
    /\ Goto(s, IF This(s).kind = "buy" THEN "reserve" ELSE "book")
    /\ UNCHANGED <<row, booked, balance, owner>>

\* The rest of orders_reserve_capital, then the unique key client_order_id.
Reserve(s) ==
    LET o == Subject(s)  n == This(s).usd IN
    /\ txn[s].at = "reserve"
    /\ Free(s, o)
    /\ \/ /\ n <= Available(s) /\ Sees(s, o) = NoRow
          /\ Write(s, o, [status |-> "PROPOSED", granted |-> n, reserved |-> n])
       \/ n > Available(s) /\ Abort(s, "refused")
       \/ n <= Available(s) /\ Sees(s, o) # NoRow /\ Abort(s, "unique")

\* Mutant: the unique key on broker_fill_id is missing.
BookFillTwice(s) ==
    /\ txn[s].at = "book"
    /\ \/ /\ Sees(s, Subject(s)).status \in FillStatuses
          /\ txn' = [txn EXCEPT ![s].fills = @ \cup {This(s).fill}, ![s].at = "consume"]
          /\ UNCHANGED <<row, booked, balance, holder, owner>>
       \/ /\ Sees(s, Subject(s)).status \notin FillStatuses
          /\ Abort(s, "inactive")

\* Insert of the fill: fills_check_eligibility reads the order without locking
\* it; then the unique key on broker_fill_id, which the lock holder never waits for.
BookFill(s) ==
    /\ txn[s].at = "book"
    /\ \/ /\ Sees(s, Subject(s)).status \in FillStatuses
          /\ This(s).fill \notin booked
          /\ txn' = [txn EXCEPT ![s].fills = @ \cup {This(s).fill}, ![s].at = "consume"]
          /\ UNCHANGED <<row, booked, balance, holder, owner>>
       \/ /\ Sees(s, Subject(s)).status \notin FillStatuses
          /\ Abort(s, "inactive")
       \/ /\ Sees(s, Subject(s)).status \in FillStatuses
          /\ This(s).fill \in booked
          /\ Abort(s, "unique")

\* Mutant: the reservation may go below zero.
ConsumeBelowZero(s) ==
    LET o == Subject(s)  n == Fill(s).usd IN
    /\ txn[s].at = "consume"
    /\ Free(s, o)
    /\ owner' = [owner EXCEPT ![o] = s]
    /\ txn' = [txn EXCEPT ![s].at = "pay", ![s].draft[o] =
            [Sees(s, o) EXCEPT !.reserved = @ - n]]
    /\ UNCHANGED <<row, booked, balance, holder>>

\* fills_consume_reservation: an update, so it waits for the row and then works
\* on the newest version.
ConsumeReservation(s) ==
    LET o == Subject(s)  n == Fill(s).usd IN
    /\ txn[s].at = "consume"
    /\ Free(s, o)
    /\ owner' = [owner EXCEPT ![o] = s]
    /\ txn' = [txn EXCEPT ![s].at = "pay", ![s].draft[o] =
            [Sees(s, o) EXCEPT !.reserved = IF @ > n THEN @ - n ELSE 0]]
    /\ UNCHANGED <<row, booked, balance, holder>>

\* The cash row of apply_fill: cash_balance, then an insert whose triggers take
\* the lock (already held), check the chain and the sign of the balance.
Pay(s) ==
    /\ txn[s].at = "pay"
    /\ \/ /\ Fill(s).usd <= SeesBalance(s)
          /\ txn' = [txn EXCEPT ![s].at = "advance", ![s].paid = TRUE,
                                ![s].cash = SeesBalance(s) - Fill(s).usd]
          /\ UNCHANGED <<row, booked, balance, holder, owner>>
       \/ Fill(s).usd > SeesBalance(s) /\ Abort(s, "overdrawn")

Target(s) == IF Fill(s).last THEN "FILLED" ELSE "PARTIALLY_FILLED"

\* Mutant: the transition is checked on the caller's copy of the row.
AdvanceFromSeen(s) ==
    LET o == Subject(s)  to == Target(s) IN
    /\ txn[s].at = "advance"
    /\ \/ /\ txn[s].seen \in WorkingStatuses /\ MayMove(txn[s].seen, to)
          /\ Write(s, o, Moved(Sees(s, o), to))
       \/ /\ ~(txn[s].seen \in WorkingStatuses /\ MayMove(txn[s].seen, to))
          /\ Write(s, o, Sees(s, o))

\* reconcile's transition_order after the fill: decided on the status seen before
\* the lock, checked by orders_validate_transition on the row as it is now.
AdvanceOrder(s) ==
    LET o == Subject(s)  to == Target(s)  now == Sees(s, o)
        due == txn[s].seen \in WorkingStatuses \ {to} /\ now.status # to
    IN  /\ txn[s].at = "advance"
        /\ \/ ~due /\ Write(s, o, now)
           \/ due /\ MayMove(now.status, to) /\ Write(s, o, Moved(now, to))
           \/ due /\ ~MayMove(now.status, to) /\ Abort(s, "illegal")

\* transition_order of another caller; the order must exist, and a status
\* already reached is left alone.
MoveOrder(s) ==
    LET o == Subject(s)  to == This(s).to  now == Sees(s, o) IN
    /\ Calls(s, "move")
    /\ \/ /\ now.status = to
          /\ txn' = [txn EXCEPT ![s].todo = Tail(@)]
          /\ UNCHANGED <<row, booked, balance, holder, owner>>
       \/ now.status # to /\ Free(s, o) /\ MayMove(now.status, to)
          /\ Write(s, o, Moved(now, to))
       \/ now # NoRow /\ now.status # to /\ Free(s, o)
          /\ ~MayMove(now.status, to) /\ Abort(s, "illegal")
       \/ now = NoRow /\ Abort(s, "illegal")

\* Mutant: the row is read and written back whole, without waiting for it.
AdoptUnlocked(s) ==
    /\ Calls(s, "adopt")
    /\ Write(s, Subject(s), Sees(s, Subject(s)))

\* _resolve_order finds the order by its client id and stores broker_order_id.
AdoptOrder(s) ==
    /\ Calls(s, "adopt")
    /\ Free(s, Subject(s))
    /\ Write(s, Subject(s), Sees(s, Subject(s)))

\* External: the process or its connection dies at any point of a transaction.
LoseConnection(s) ==
    /\ txn[s].at # "idle"
    /\ Abort(s, "lost")

-----------------------------------------------------------------------------
\* The orders whose row the next statement of s locks.
Wants(s) ==
    IF Calls(s, "adopt") \/ txn[s].at \in {"consume", "reserve"} THEN {Subject(s)}
    ELSE IF Calls(s, "move") /\ Sees(s, Subject(s)).status \notin {"none", This(s).to}
         THEN {Subject(s)} ELSE {}

WaitsFor(s) ==
    ( { owner[o] : o \in Wants(s) }
        \cup (IF txn[s].at = "lock" THEN {holder} ELSE {}) ) \ {Nobody, s}

\* Sets of sessions each of which waits for another of the set.
Deadlocked(S) == S # {} /\ \A s \in S : WaitsFor(s) \cap S # {}

\* Mutant: nobody looks for deadlocks.
NoVictim(s) == FALSE /\ Abort(s, "deadlock")

\* External: PostgreSQL finds the cycle after deadlock_timeout and aborts a member.
DeadlockVictim(s) ==
    /\ \E S \in SUBSET Sessions : s \in S /\ Deadlocked(S)
    /\ Abort(s, "deadlock")

Statement(s) ==
    \/ StartBuy(s) \/ FindFill(s) \/ LockPortfolio(s) \/ Reserve(s)
    \/ BookFill(s) \/ ConsumeReservation(s) \/ Pay(s) \/ AdvanceOrder(s)
    \/ MoveOrder(s) \/ AdoptOrder(s) \/ Commit(s)

Next ==
    \E s \in Sessions :
        \/ \E plan \in Plans : Begin(s, plan)
        \/ Statement(s)
        \/ LoseConnection(s)
        \/ DeadlockVictim(s)

\* A caller that is not waiting runs on, and both lock queues are first come
\* first served; a cycle is broken.  No transaction needs to begin.
Fairness ==
    /\ \A s \in Sessions : SF_vars(Statement(s))
    /\ WF_vars(\E s \in Sessions : DeadlockVictim(s))

Spec == Init /\ [][Next]_vars /\ Fairness

-----------------------------------------------------------------------------
TypeOK ==
    /\ row \in [Orders -> Row]
    /\ booked \subseteq Fills
    /\ balance \in 0..Equity
    /\ holder \in Sessions \cup {Nobody}
    /\ owner \in [Orders -> Sessions \cup {Nobody}]
    /\ txn \in [Sessions -> Txn]

\* test_concurrent_buys_cannot_over_reserve, for every interleaving: what is
\* committed never holds more than the committed cash.
NoOverCommit == Tally([o \in Orders |-> HoldOf(row[o])], Equity) <= balance

\* No cash row is lost or written twice: the committed balance is the equity
\* less every committed fill once.
EveryFillPaidOnce ==
    balance = Equity - Spent(booked)

\* No update of a reservation is lost: an open order holds what it was granted
\* less its committed fills.
HoldExplained ==
    \A o \in Orders :
        row[o].status \in OpenStatuses =>
            LET spent == Spent(Of(o, booked))
            IN  row[o].reserved =
                    IF row[o].granted > spent THEN row[o].granted - spent ELSE 0

\* Only the holder of the portfolio lock has uncommitted fills or cash, so a
\* chain of balances never forks.
LockDiscipline ==
    \A s \in Sessions :
        txn[s].fills # {} \/ txn[s].paid
            \/ txn[s].at \in {"reserve", "book", "consume", "pay", "advance"} =>
            holder = s

\* An order that a committed transaction has closed is never reopened by one
\* that still has the open row in its hands.
Closed == {"FILLED", "CANCELLED", "REJECTED", "EXPIRED"}
ClosedStaysClosed ==
    [][\A o \in Orders :
          row[o].status \in Closed => row'[o].status = row[o].status]_vars

\* Every transaction ends, although rows are locked before the portfolio by one
\* caller (_resolve_order, transition_order) and after it by another (apply_fill).
EveryTransactionEnds ==
    \A s \in Sessions : txn[s].at # "idle" ~> txn[s].at = "idle"
=============================================================================
