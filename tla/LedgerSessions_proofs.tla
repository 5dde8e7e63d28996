----------------------- MODULE LedgerSessions_proofs -----------------------
(***************************************************************************)
(* The interleaved sessions, for any number of sessions, orders and fills  *)
(* and any plans: what the locks guarantee about every committed state.    *)
(***************************************************************************)
EXTENDS LedgerSessions, Sums_proofs, TLAPS

-----------------------------------------------------------------------------
(* The invariant of a session t, given the committed rows and fills (done)  *)
(* and the orders that are its own (mine).  None of these operators looks   *)
(* at a variable, so what another session does is seen in their arguments. *)

Busy == Steps \ {"idle", "call"}
Booking == {"book", "consume", "pay", "advance"}

\* The kinds of calls a step belongs to, and the fill in hand.
Shape(t) ==
    /\ t \in Txn
    /\ t.at \in Busy => t.todo # <<>>
    /\ t.at = "lock" => Head(t.todo).kind \in {"buy", "fill"}
    /\ t.at = "reserve" => Head(t.todo).kind = "buy"
    /\ t.at \in Booking => Head(t.todo).kind = "fill"
    /\ t.at \in Booking \ {"book"} => Head(t.todo).fill \in t.fills
    /\ t.at \in {"lock", "book"} /\ Head(t.todo).kind = "fill" =>
          Head(t.todo).fill \notin t.fills

\* The fill in hand, as long as the session is at one of some steps.
Pending(t, steps) == IF t.at \in steps THEN {Head(t.todo).fill} ELSE {}

\* The fills whose reservation is consumed, and the fills that are paid.
Counted(t, done) == (done \cup t.fills) \ Pending(t, {"consume"})
Paid(t, done) == (done \cup t.fills) \ Pending(t, {"consume", "pay"})

Left(granted, spent) == IF granted > spent THEN granted - spent ELSE 0

\* A version of order o, when the fills in counted have consumed its reservation.
Explained(o, r, counted, have) ==
    /\ r.status = "none" => r = NoRow /\ Of(o, have) = {}
    /\ r.status \in OpenStatuses =>
          r.reserved = Left(r.granted, Spent(Of(o, counted)))

\* A version that may replace r.
Follows(r, d) ==
    /\ r.status # "none" => d.status # "none"
    /\ r.status \in Closed => d.status = r.status

ViewOf(t, rows, mine) == [o \in Orders |-> IF o \in mine THEN t.draft[o] ELSE rows[o]]

\* The session owns every order it has a fill of, and its drafts and its cash
\* count the fills of others and its own.
Sound(t, rows, done, mine) ==
    /\ Shape(t)
    /\ t.fills \cap done = {}
    /\ \A f \in t.fills \ Pending(t, {"consume"}) : FillOf[f].order \in mine
    /\ \A o \in mine :
          /\ Explained(o, t.draft[o], Counted(t, done), done \cup t.fills)
          /\ Follows(rows[o], t.draft[o])
    /\ t.at = "consume" =>
          ViewOf(t, rows, mine)[FillOf[Head(t.todo).fill].order].status # "none"
    /\ t.at = "idle" => mine = {}
    /\ IF t.paid THEN t.cash = Equity - Spent(Paid(t, done)) ELSE Paid(t, done) = done

\* What is left of the lock discipline when the state is given piece by piece.
Needs(t) ==
    \/ t.fills # {} \/ t.paid
    \/ t.at \in {"reserve", "book", "consume", "pay", "advance"}

Mine(own, s) == {o \in Orders : own[o] = s}

\* The committed tables explain each other.
Committed(rows, done, bal) ==
    /\ rows \in [Orders -> Row] /\ done \subseteq Fills
    /\ bal \in 0..Equity /\ bal = Equity - Spent(done)
    /\ \A o \in Orders : Explained(o, rows[o], done, done)

Locks ==
    /\ holder \in Sessions \cup {Nobody}
    /\ owner \in [Orders -> Sessions \cup {Nobody}]
    /\ LockDiscipline

SessionsInv ==
    /\ Committed(row, booked, balance)
    /\ Locks
    /\ txn \in [Sessions -> Txn]
    /\ \A s \in Sessions : Sound(txn[s], row, booked, Mine(owner, s))

-----------------------------------------------------------------------------
(* What money adds to it: holds that fit the cash.                         *)

\* What Spent counts of a fill, which no balance of a bounded column exceeds.
Cost(f) == IF FillOf[f].usd <= Equity THEN FillOf[f].usd ELSE Equity

Holds(rows) == Tally([o \in Orders |-> HoldOf(rows[o])], Equity)

\* A version that still fits its order's fills, and is FILLED only with them.
Fits(o, r, have) ==
    /\ r.status # "none" => Spent(Of(o, Fills)) <= r.granted
    /\ r.status = "FILLED" => Of(o, Fills) \subseteq have

\* The calls a session still has to make are affordable and in order.
Ready(todo, have) ==
    /\ Orderly(todo, have)
    /\ \A i \in DOMAIN todo :
          /\ todo[i].kind = "buy" => Spent(Of(todo[i].order, Fills)) <= todo[i].usd
          /\ todo[i].kind = "move" => todo[i].to # "FILLED"

\* The holder of the portfolio lock can pay for what it sees, and for the fill
\* in hand instead of what is still held for it.
Budget(t, rows, done, mine) ==
    LET view == ViewOf(t, rows, mine)
        left == Equity - Spent(Counted(t, done))
    IN  /\ Holds(view) <= left
        /\ t.at = "consume" =>
              LET f == Head(t.todo).fill
              IN  Holds([view EXCEPT ![FillOf[f].order] = NoRow]) + Cost(f) <= left

\* Without the lock a session can only give back.
Lower(t, rows, mine) == \A o \in mine : HoldOf(t.draft[o]) <= HoldOf(rows[o])

-----------------------------------------------------------------------------
(* Sums of fills and of holds.                                             *)

\* The facts about the constants that the sums rest on.
LEMMA Constants ==
    /\ IsFiniteSet(Sessions) /\ IsFiniteSet(Orders) /\ IsFiniteSet(Fills)
    /\ Equity \in Nat /\ Nobody \notin Sessions
    /\ \A f \in Fills : /\ FillOf[f].order \in Orders /\ FillOf[f].usd \in Nat
                        /\ FillOf[f].last \in BOOLEAN /\ Cost(f) \in 0..Equity
BY SessionsAssumption DEF Cost

\* Each fill's part of a sum over all fills.
Weights(fills) == [f \in Fills |-> IF f \in fills THEN Cost(f) ELSE 0]

\* A sum over some fills is one over all of them with zeros.
LEMMA SpentIsTally ==
    ASSUME NEW S \in SUBSET Fills
    PROVE  Spent(S) = Tally(Weights(S), Equity) /\ Weights(S) \in [Fills -> 0..Equity]
<1>. DEFINE g == [f \in S |-> FillOf[f].usd]
<1>1. \A f \in Fills : FillOf[f].usd \in Nat /\ Equity \in Nat
  BY SessionsAssumption
<1>2. Units(g, Equity) = Units(Weights(S), Equity)
  BY <1>1 DEF Units, Weights, Cost
<1>3. Weights(S) \in [Fills -> 0..Equity]
  BY Constants DEF Weights
<1>. QED
  BY <1>2, <1>3 DEF Spent, Tally

\* Fills cost nothing or more.
LEMMA SpentType ==
    ASSUME NEW S \in SUBSET Fills
    PROVE  Spent(S) \in Nat
<1>1. DOMAIN Weights(S) = Fills
  BY DEF Weights
<1>. QED
  BY <1>1, SpentIsTally, TallyType, Constants

LEMMA SpentNone == Spent({}) = 0
<1>1. Weights({}) = [f \in Fills |-> 0]
  BY DEF Weights
<1>. QED
  BY <1>1, SpentIsTally, TallyZero, Constants

\* One more fill costs what it costs.
LEMMA SpentAdd ==
    ASSUME NEW S \in SUBSET Fills, NEW f \in Fills, f \notin S
    PROVE  Spent(S \cup {f}) = Spent(S) + Cost(f)
<1>. DEFINE T == S \cup {f}
            v == Weights(S)
            w == Weights(T)
<1>1. /\ Spent(S) = Tally(v, Equity) /\ v \in [Fills -> 0..Equity]
      /\ Spent(T) = Tally(w, Equity) /\ w \in [Fills -> 0..Equity]
  BY SpentIsTally
<1>2. v[f] = 0 /\ w[f] = Cost(f) /\ \A g \in Fills \ {f} : w[g] = v[g]
  BY DEF Weights
<1>3. IsFiniteSet(Fills) /\ Equity \in Nat /\ Cost(f) \in Nat
  BY Constants
<1>4. Tally(v, Equity) \in Nat
  BY <1>1, SpentType
<1>. HIDE DEF v, w
<1>5. Tally(w, Equity) = Tally(v, Equity) - v[f] + w[f]
  BY <1>1, <1>2, <1>3, TallyChange
<1>. QED
  BY <1>1, <1>2, <1>3, <1>4, <1>5

\* More fills never cost less.
LEMMA SpentMore ==
    ASSUME NEW T \in SUBSET Fills, NEW S \in SUBSET T
    PROVE  Spent(S) <= Spent(T)
<1>. DEFINE A == Units(Weights(S), Equity)
            B == Units(Weights(T), Equity)
<1>1. A \subseteq B
  BY DEF Units, Weights
<1>2. IsFiniteSet(B)
  <2>1. DOMAIN Weights(T) = Fills
    BY DEF Weights
  <2>. QED
    BY <2>1, TallyType, Constants
<1>3. Spent(S) = Cardinality(A) /\ Spent(T) = Cardinality(B)
  BY SpentIsTally DEF Tally
<1>. HIDE DEF A, B
<1>4. Cardinality(A) <= Cardinality(B)
  BY <1>1, <1>2, FS_Subset
<1>. QED
  BY <1>3, <1>4

\* A hold is a number of dollars.
LEMMA HoldType ==
    ASSUME NEW r \in Row
    PROVE  HoldOf(r) \in 0..Equity /\ HoldOf(r) \in Nat
BY Constants DEF Row, HoldOf

LEMMA HoldsType ==
    ASSUME NEW rows \in [Orders -> Row]
    PROVE  Holds(rows) \in Nat
<1>. DEFINE g == [o \in Orders |-> HoldOf(rows[o])]
<1>1. DOMAIN g = Orders
  OBVIOUS
<1>. HIDE DEF g
<1>2. Tally(g, Equity) \in Nat
  BY <1>1, TallyType, Constants
<1>. QED
  BY <1>2 DEF Holds, g

\* Two tables that differ in one order differ by its holds.
LEMMA HoldsChange ==
    ASSUME NEW rows \in [Orders -> Row], NEW others \in [Orders -> Row],
           NEW o \in Orders, \A p \in Orders \ {o} : others[p] = rows[p]
    PROVE  Holds(others) = Holds(rows) - HoldOf(rows[o]) + HoldOf(others[o])
<1>. DEFINE g == [p \in Orders |-> HoldOf(rows[p])]
            h == [p \in Orders |-> HoldOf(others[p])]
<1>1. g \in [Orders -> 0..Equity] /\ h \in [Orders -> 0..Equity]
  BY HoldType
<1>2. /\ \A p \in Orders \ {o} : h[p] = g[p]
      /\ g[o] = HoldOf(rows[o]) /\ h[o] = HoldOf(others[o])
  OBVIOUS
<1>. HIDE DEF g, h
<1>3. Tally(h, Equity) = Tally(g, Equity) - g[o] + h[o]
  BY <1>1, <1>2, TallyChange, Constants
<1>. QED
  BY <1>2, <1>3 DEF Holds, g, h

\* Where no order holds more, the orders together hold no more.
LEMMA HoldsLess ==
    ASSUME NEW rows \in [Orders -> Row], NEW others \in [Orders -> Row],
           \A o \in Orders : HoldOf(others[o]) <= HoldOf(rows[o])
    PROVE  Holds(others) <= Holds(rows)
<1>. DEFINE g == [p \in Orders |-> HoldOf(rows[p])]
            h == [p \in Orders |-> HoldOf(others[p])]
            A == Units(h, Equity)
            B == Units(g, Equity)
<1>1. g \in [Orders -> 0..Equity] /\ h \in [Orders -> 0..Equity]
  BY HoldType
<1>2. \A p \in Orders : h[p] <= g[p]
  OBVIOUS
<1>3. DOMAIN g = Orders
  OBVIOUS
<1>4. Holds(rows) = Cardinality(B) /\ Holds(others) = Cardinality(A)
  BY DEF Holds, Tally
<1>. HIDE DEF g, h
<1>5. A \subseteq B
  BY <1>1, <1>2 DEF Units
<1>6. IsFiniteSet(B)
  BY <1>3, TallyType, Constants
<1>. HIDE DEF A, B
<1>7. Cardinality(A) <= Cardinality(B)
  BY <1>5, <1>6, FS_Subset
<1>. QED
  BY <1>4, <1>7
-----------------------------------------------------------------------------
(* What a session sees, and what each of its statements does to itself.    *)

\* A session in a state of the tables.
Within(t, rows, done, bal, mine) ==
    /\ Committed(rows, done, bal) /\ Sound(t, rows, done, mine)
    /\ mine \in SUBSET Orders

\* The sets of fills a session counts by are sets of fills.
LEMMA CountedType ==
    ASSUME NEW t, NEW rows, NEW done, NEW bal, NEW mine, Within(t, rows, done, bal, mine)
    PROVE  /\ t.fills \in SUBSET Fills /\ done \in SUBSET Fills
           /\ Counted(t, done) \in SUBSET Fills /\ Paid(t, done) \in SUBSET Fills
BY DEF Within, Committed, Sound, Shape, Txn, Counted, Paid

\* Whatever a session sees of an order is explained, and may replace the row.
LEMMA SeenExplained ==
    ASSUME NEW t, NEW rows, NEW done, NEW bal, NEW mine, Within(t, rows, done, bal, mine),
           NEW o \in Orders
    PROVE  LET r == ViewOf(t, rows, mine)[o] IN
           /\ r \in Row
           /\ Explained(o, r, Counted(t, done), done \cup t.fills)
           /\ Follows(rows[o], r)
<1>. DEFINE r == ViewOf(t, rows, mine)[o]
<1>1. CASE o \in mine
  <2>1. r = t.draft[o] /\ r \in Row
    BY <1>1 DEF ViewOf, Within, Sound, Shape, Txn
  <2>. QED
    BY <1>1, <2>1 DEF Within, Sound
<1>2. CASE o \notin mine
  <2>1. r = rows[o] /\ r \in Row
    BY <1>2 DEF ViewOf, Within, Committed
  <2>2. Of(o, Counted(t, done)) = Of(o, done)
    <3>1. \A f \in t.fills \ Pending(t, {"consume"}) : FillOf[f].order # o
      BY <1>2 DEF Within, Sound
    <3>2. done \cap Pending(t, {"consume"}) = {}
      BY DEF Within, Sound, Shape, Pending, Booking
    <3>. QED
      BY <3>1, <3>2 DEF Of, Counted
  <2>3. r.status = "none" => Of(o, done \cup t.fills) = Of(o, done)
    BY <1>2, <2>1 DEF Within, Sound, Of, Pending
  <2>4. Explained(o, r, done, done)
    BY <2>1 DEF Within, Committed
  <2>5. Follows(rows[o], r)
    BY <2>1 DEF Follows
  <2>. QED
    BY <2>1, <2>2, <2>3, <2>4, <2>5 DEF Explained
<1>. QED
  BY <1>1, <1>2

\* A session between two transactions, or at the start of one.
LEMMA FreshType ==
    /\ Fresh \in Txn
    /\ Fresh.at = "idle" /\ Fresh.fills = {} /\ Fresh.paid = FALSE
<1>1. <<>> \in Seq(Call) /\ {} \in SUBSET Fills /\ Equity \in 0..Equity
  BY Constants
<1>2. "idle" \in Steps /\ "none" \in Statuses /\ FALSE \in BOOLEAN /\ "none" \in Outcomes
  BY DEF Steps, Statuses, Outcomes
<1>3. [o \in Orders |-> NoRow] \in [Orders -> Row]
  BY Constants DEF NoRow, Row, Statuses
<1>. QED
  BY <1>1, <1>2, <1>3 DEF Fresh, Txn

LEMMA EmptySound ==
    ASSUME NEW rows, NEW done, NEW t \in Txn, t.at \in {"idle", "call"},
           t.fills = {}, t.paid = FALSE
    PROVE  Sound(t, rows, done, {}) /\ ~Needs(t)
<1>1. Pending(t, {"consume"}) = {} /\ Pending(t, {"consume", "pay"}) = {}
  BY DEF Pending
<1>2. Paid(t, done) = done
  BY <1>1 DEF Paid
<1>3. Shape(t)
  BY DEF Shape, Busy, Booking
<1>. QED
  BY <1>1, <1>2, <1>3 DEF Sound, Needs

LEMMA FreshSound ==
    ASSUME NEW rows, NEW done, NEW outcome \in Outcomes
    PROVE  LET t == [Fresh EXCEPT !.outcome = outcome] IN
           t \in Txn /\ Sound(t, rows, done, {}) /\ ~Needs(t)
<1>. DEFINE t == [Fresh EXCEPT !.outcome = outcome]
<1>1. t \in Txn /\ t.at = "idle" /\ t.fills = {} /\ t.paid = FALSE
  BY FreshType DEF Txn
<1>. HIDE DEF t
<1>2. Sound(t, rows, done, {}) /\ ~Needs(t)
  BY <1>1, EmptySound
<1>. QED
  BY <1>1, <1>2 DEF t

\* Only the step, the plan and what was seen change, and no fill is in hand.
LEMMA QuietSound ==
    ASSUME NEW t, NEW rows, NEW done, NEW mine, Sound(t, rows, done, mine),
           NEW u, Shape(u), t.at \notin {"consume", "pay"},
           u.at \notin {"consume", "pay", "idle"},
           u.draft = t.draft, u.fills = t.fills, u.cash = t.cash, u.paid = t.paid
    PROVE  Sound(u, rows, done, mine)
<1>1. /\ Pending(t, {"consume"}) = {} /\ Pending(t, {"consume", "pay"}) = {}
      /\ Pending(u, {"consume"}) = {} /\ Pending(u, {"consume", "pay"}) = {}
  BY DEF Pending
<1>2. Counted(u, done) = Counted(t, done) /\ Paid(u, done) = Paid(t, done)
  BY <1>1 DEF Counted, Paid
<1>. QED
  BY <1>1, <1>2 DEF Sound, ViewOf

\* Write leaves the session with a version r of order o and one call less.
Writes(t, rows, done, mine, o, r, u) ==
    /\ Sound(t, rows, done, mine) /\ mine \in SUBSET Orders
    /\ t.at \in {"call", "reserve", "advance"} /\ t.todo # <<>>
    /\ o \in Orders /\ r \in Row
    /\ Explained(o, r, Counted(t, done), done \cup t.fills) /\ Follows(rows[o], r)
    /\ u = [t EXCEPT !.draft[o] = r, !.at = "call", !.todo = Tail(@)]

LEMMA WriteSound ==
    ASSUME NEW t, NEW rows, NEW done, NEW mine, NEW o, NEW r, NEW u,
           Writes(t, rows, done, mine, o, r, u)
    PROVE  Sound(u, rows, done, mine \cup {o}) /\ u \in Txn /\ (Needs(u) => Needs(t))
<1>. USE DEF Writes
<1>1. t \in Txn
  BY DEF Sound, Shape
<1>2. /\ u.at = "call" /\ u.todo = Tail(t.todo) /\ u.fills = t.fills
      /\ u.cash = t.cash /\ u.paid = t.paid /\ u.draft = [t.draft EXCEPT ![o] = r]
  BY <1>1 DEF Txn
<1>3. u \in Txn
  <2>1. t.todo \in Seq(Call) /\ Tail(t.todo) \in Seq(Call)
    BY <1>1 DEF Txn
  <2>2. [t.draft EXCEPT ![o] = r] \in [Orders -> Row] /\ "call" \in Steps
    BY <1>1 DEF Txn, Steps
  <2>. QED
    BY <1>1, <2>1, <2>2 DEF Txn
<1>4. /\ Pending(t, {"consume"}) = {} /\ Pending(t, {"consume", "pay"}) = {}
      /\ Pending(u, {"consume"}) = {} /\ Pending(u, {"consume", "pay"}) = {}
  BY <1>2 DEF Pending
<1>5. Counted(u, done) = Counted(t, done) /\ Paid(u, done) = Paid(t, done)
  BY <1>2, <1>4 DEF Counted, Paid
<1>6. Shape(u)
  BY <1>2, <1>3 DEF Shape, Busy, Booking
<1>7. u.draft[o] = r /\ \A p \in Orders \ {o} : u.draft[p] = t.draft[p]
  BY <1>1, <1>2 DEF Txn
<1>. QED
  BY <1>2, <1>3, <1>4, <1>5, <1>6, <1>7 DEF Sound, Needs

\* BookFill: the fill in hand is the session's, and nothing counts it yet.
LEMMA BookSound ==
    ASSUME NEW t, NEW rows, NEW done, NEW mine, Sound(t, rows, done, mine),
           mine \in SUBSET Orders, t.at = "book", NEW f \in Fills, f = Head(t.todo).fill, f \notin done,
           ViewOf(t, rows, mine)[FillOf[f].order].status # "none",
           NEW u, u = [t EXCEPT !.fills = @ \cup {f}, !.at = "consume"]
    PROVE  Sound(u, rows, done, mine) /\ u \in Txn
<1>1. t \in Txn
  BY DEF Sound, Shape
<1>2. /\ u.at = "consume" /\ u.todo = t.todo /\ u.fills = t.fills \cup {f}
      /\ u.cash = t.cash /\ u.paid = t.paid /\ u.draft = t.draft
  BY <1>1 DEF Txn
<1>3. u \in Txn
  BY <1>1 DEF Txn, Steps
<1>4. f \notin t.fills
  BY DEF Sound, Shape, Booking
<1>5. /\ Pending(t, {"consume"}) = {} /\ Pending(t, {"consume", "pay"}) = {}
      /\ Pending(u, {"consume"}) = {f} /\ Pending(u, {"consume", "pay"}) = {f}
  BY <1>2 DEF Pending
<1>6. Counted(u, done) = Counted(t, done) /\ Paid(u, done) = Paid(t, done)
  BY <1>2, <1>4, <1>5 DEF Counted, Paid
<1>7. Shape(u)
  BY <1>2, <1>3 DEF Sound, Shape, Busy, Steps, Booking
<1>8. ViewOf(u, rows, mine) = ViewOf(t, rows, mine)
  <2>1. u.draft = t.draft
    BY <1>2
  <2>. QED
    BY ONLY <2>1 DEF ViewOf
<1>9. ASSUME NEW o \in mine
      PROVE  Explained(o, u.draft[o], Counted(u, done), done \cup u.fills)
  <2>1. Explained(o, t.draft[o], Counted(t, done), done \cup t.fills)
    BY DEF Sound
  <2>2. t.draft[o].status = "none" => o # FillOf[f].order
    BY <1>1 DEF ViewOf, Txn
  <2>. QED
    BY <1>2, <1>6, <2>1, <2>2 DEF Explained, Of
<1>. QED
  BY <1>2, <1>3, <1>4, <1>5, <1>6, <1>7, <1>8, <1>9 DEF Sound
\* What the session can spend is the equity less the fills that are paid.
LEMMA SeenCash ==
    ASSUME NEW t, NEW rows, NEW done, NEW bal, NEW mine, Within(t, rows, done, bal, mine)
    PROVE  LET cash == IF t.paid THEN t.cash ELSE bal IN
           cash \in 0..Equity /\ cash = Equity - Spent(Paid(t, done))
<1>1. bal \in 0..Equity /\ bal = Equity - Spent(done)
  BY DEF Within, Committed
<1>2. t.cash \in 0..Equity
  BY DEF Within, Sound, Shape, Txn
<1>3. IF t.paid THEN t.cash = Equity - Spent(Paid(t, done)) ELSE Paid(t, done) = done
  BY DEF Within, Sound
<1>. QED
  BY <1>1, <1>2, <1>3

LEMMA FillType ==
    ASSUME NEW f \in Fills
    PROVE  /\ FillOf[f].order \in Orders /\ FillOf[f].usd \in Nat
           /\ Cost(f) \in Nat /\ Cost(f) <= Equity
BY Constants

\* What a fill leaves of a reservation, and what another leaves of that.
LEMMA LeftType ==
    ASSUME NEW f \in Fills, NEW reserved \in 0..Equity
    PROVE  /\ Left(reserved, FillOf[f].usd) \in 0..Equity
           /\ Left(reserved, FillOf[f].usd) <= reserved
BY FillType, Constants DEF Left

LEMMA LeftTwice ==
    ASSUME NEW f \in Fills, NEW granted \in 0..Equity, NEW spent \in Nat
    PROVE  Left(Left(granted, spent), FillOf[f].usd) = Left(granted, spent + Cost(f))
<1>1. /\ FillOf[f].usd \in Nat /\ Equity \in Nat
      /\ Cost(f) = IF FillOf[f].usd <= Equity THEN FillOf[f].usd ELSE Equity
  BY Constants DEF Cost
<1>. QED
  BY <1>1 DEF Left

\* ConsumeReservation: the fill in hand now counts.
Consumes(t, rows, done, bal, mine, f, o, v, r, u) ==
    /\ Within(t, rows, done, bal, mine)
    /\ t.at = "consume" /\ f \in Fills /\ f = Head(t.todo).fill
    /\ o = FillOf[f].order /\ v = ViewOf(t, rows, mine)[o]
    /\ r = [v EXCEPT !.reserved = Left(@, FillOf[f].usd)]
    /\ u = [t EXCEPT !.at = "pay", !.draft[o] = r]

LEMMA ConsumeSound ==
    ASSUME NEW t, NEW rows, NEW done, NEW bal, NEW mine, NEW f, NEW o, NEW v, NEW r,
           NEW u, Consumes(t, rows, done, bal, mine, f, o, v, r, u)
    PROVE  Sound(u, rows, done, mine \cup {o}) /\ u \in Txn /\ r \in Row
<1>. USE DEF Consumes
<1>0. o \in Orders
  BY FillType
<1>1. t \in Txn /\ Sound(t, rows, done, mine) /\ mine \in SUBSET Orders
  BY DEF Within, Sound, Shape
<1>2. /\ v \in Row /\ Explained(o, v, Counted(t, done), done \cup t.fills)
      /\ Follows(rows[o], v)
  BY <1>0, SeenExplained
<1>3. /\ r.status = v.status /\ r.granted = v.granted /\ r \in Row
      /\ r.reserved = Left(v.reserved, FillOf[f].usd)
      /\ v.reserved \in 0..Equity /\ v.granted \in 0..Equity
  <2>1. v \in Row /\ v.reserved \in 0..Equity /\ v.granted \in 0..Equity
    BY <1>2 DEF Row
  <2>2. Left(v.reserved, FillOf[f].usd) \in 0..Equity
    BY <2>1, LeftType
  <2>. QED
    BY <2>1, <2>2 DEF Row
<1>4. /\ u.at = "pay" /\ u.todo = t.todo /\ u.fills = t.fills
      /\ u.cash = t.cash /\ u.paid = t.paid /\ u.draft = [t.draft EXCEPT ![o] = r]
  BY <1>1 DEF Txn
<1>5. u \in Txn
  <2>1. [t.draft EXCEPT ![o] = r] \in [Orders -> Row] /\ "pay" \in Steps
    BY <1>1, <1>3 DEF Txn, Steps
  <2>. QED
    BY <1>1, <2>1 DEF Txn
<1>6. f \in t.fills /\ f \notin done
  BY <1>1 DEF Sound, Shape, Booking
<1>7. /\ Pending(t, {"consume"}) = {f} /\ Pending(t, {"consume", "pay"}) = {f}
      /\ Pending(u, {"consume"}) = {} /\ Pending(u, {"consume", "pay"}) = {f}
  BY <1>4 DEF Pending
<1>8. /\ Counted(u, done) = Counted(t, done) \cup {f} /\ f \notin Counted(t, done)
      /\ Paid(u, done) = Paid(t, done) /\ Counted(t, done) \in SUBSET Fills
  BY <1>4, <1>6, <1>7, CountedType DEF Counted, Paid
<1>9. Shape(u)
  BY <1>1, <1>4, <1>5 DEF Sound, Shape, Busy, Steps, Booking
<1>10. v.status # "none"
  BY <1>1 DEF Sound
<1>11. Explained(o, r, Counted(u, done), done \cup u.fills)
  <2>1. Of(o, Counted(u, done)) = Of(o, Counted(t, done)) \cup {f}
    BY <1>8 DEF Of
  <2>2. Of(o, Counted(t, done)) \in SUBSET Fills /\ f \notin Of(o, Counted(t, done))
    BY <1>8 DEF Of
  <2>3. /\ Spent(Of(o, Counted(u, done))) = Spent(Of(o, Counted(t, done))) + Cost(f)
        /\ Spent(Of(o, Counted(t, done))) \in Nat
    BY <2>1, <2>2, SpentAdd, SpentType, ZenonT(60)
  <2>4. r.status \in OpenStatuses =>
            v.reserved = Left(v.granted, Spent(Of(o, Counted(t, done))))
    BY <1>2, <1>3 DEF Explained
  <2>5. r.status \in OpenStatuses =>
            r.reserved = Left(r.granted, Spent(Of(o, Counted(u, done))))
    <3>. DEFINE before == Spent(Of(o, Counted(t, done)))
                after == Spent(Of(o, Counted(u, done)))
    <3>1. /\ before \in Nat /\ after = before + Cost(f)
          /\ r.status \in OpenStatuses => v.reserved = Left(v.granted, before)
      BY <2>3, <2>4
    <3>. HIDE DEF before, after
    <3>2. Left(Left(v.granted, before), FillOf[f].usd) = Left(v.granted, before + Cost(f))
      <4>1. v.granted \in 0..Equity
        BY <1>3
      <4>. QED
        BY <3>1, <4>1, LeftTwice, Zenon
    <3>3. r.status \in OpenStatuses => r.reserved = Left(r.granted, after)
      BY <1>3, <3>1, <3>2
    <3>. QED
      BY <3>3 DEF after
  <2>. QED
    BY <1>3, <1>10, <2>5 DEF Explained
<1>12. Follows(rows[o], r)
  BY <1>2, <1>3 DEF Follows
<1>13. u.draft[o] = r /\ \A p \in Orders \ {o} : u.draft[p] = t.draft[p]
  BY <1>0, <1>1, <1>4 DEF Txn
<1>14. ASSUME NEW p \in mine \ {o}
       PROVE  Explained(p, u.draft[p], Counted(u, done), done \cup u.fills)
  <2>1. Of(p, Counted(u, done)) = Of(p, Counted(t, done))
    BY <1>8 DEF Of
  <2>2. u.draft[p] = t.draft[p]
    BY <1>1, <1>13
  <2>3. Explained(p, t.draft[p], Counted(t, done), done \cup t.fills)
    BY <1>1 DEF Sound
  <2>. QED
    BY <1>4, <2>1, <2>2, <2>3 DEF Explained
<1>15. \A p \in mine \ {o} : Follows(rows[p], u.draft[p])
  BY <1>1, <1>13 DEF Sound
<1>16. \A g \in u.fills \ Pending(u, {"consume"}) : FillOf[g].order \in mine \cup {o}
  BY <1>1, <1>4, <1>7 DEF Sound
<1>17. u.fills \cap done = {}
  BY <1>1, <1>4 DEF Sound
<1>18. IF u.paid THEN u.cash = Equity - Spent(Paid(u, done)) ELSE Paid(u, done) = done
  BY <1>1, <1>4, <1>8 DEF Sound
<1>19. \A p \in mine \cup {o} :
          /\ Explained(p, u.draft[p], Counted(u, done), done \cup u.fills)
          /\ Follows(rows[p], u.draft[p])
  BY <1>11, <1>12, <1>13, <1>14, <1>15, ZenonT(60)
<1>. QED
  BY <1>3, <1>4, <1>5, <1>9, <1>16, <1>17, <1>18, <1>19 DEF Sound

\* Pay: the fill in hand is paid from what the session sees.
LEMMA PaySound ==
    ASSUME NEW t, NEW rows, NEW done, NEW bal, NEW mine, Within(t, rows, done, bal, mine),
           t.at = "pay", NEW f \in Fills, f = Head(t.todo).fill,
           NEW cash, cash = IF t.paid THEN t.cash ELSE bal, FillOf[f].usd <= cash,
           NEW u, u = [t EXCEPT !.at = "advance", !.paid = TRUE,
                                !.cash = cash - FillOf[f].usd]
    PROVE  Sound(u, rows, done, mine) /\ u \in Txn
<1>0. FillOf[f].usd \in Nat /\ Equity \in Nat
  BY Constants
<1>1. t \in Txn /\ Sound(t, rows, done, mine)
  BY DEF Within, Sound, Shape
<1>2. cash \in 0..Equity /\ cash = Equity - Spent(Paid(t, done))
  BY SeenCash
<1>3. /\ u.at = "advance" /\ u.todo = t.todo /\ u.fills = t.fills
      /\ u.cash = cash - FillOf[f].usd /\ u.paid = TRUE /\ u.draft = t.draft
  BY <1>1 DEF Txn
<1>4. u \in Txn
  <2>1. cash - FillOf[f].usd \in 0..Equity /\ "advance" \in Steps
    BY <1>0, <1>2 DEF Steps
  <2>. QED
    BY <1>1, <2>1 DEF Txn
<1>5. f \in t.fills /\ f \notin done
  BY <1>1 DEF Sound, Shape, Booking
<1>6. /\ Pending(t, {"consume"}) = {} /\ Pending(t, {"consume", "pay"}) = {f}
      /\ Pending(u, {"consume"}) = {} /\ Pending(u, {"consume", "pay"}) = {}
  BY <1>3 DEF Pending
<1>7. /\ Counted(u, done) = Counted(t, done)
      /\ Paid(u, done) = Paid(t, done) \cup {f} /\ f \notin Paid(t, done)
      /\ Paid(t, done) \in SUBSET Fills
  BY <1>3, <1>5, <1>6, CountedType DEF Counted, Paid
<1>8. Shape(u)
  BY <1>1, <1>3, <1>4 DEF Sound, Shape, Busy, Steps, Booking
<1>9. Spent(Paid(u, done)) = Spent(Paid(t, done)) + Cost(f) /\ Spent(Paid(t, done)) \in Nat
  BY <1>7, SpentAdd, SpentType
<1>10. Cost(f) = FillOf[f].usd
  BY <1>0, <1>2 DEF Cost
<1>11. u.cash = Equity - Spent(Paid(u, done))
  BY <1>0, <1>2, <1>3, <1>9, <1>10
<1>. QED
  BY <1>1, <1>3, <1>4, <1>6, <1>7, <1>8, <1>11 DEF Sound
-----------------------------------------------------------------------------
(* From one session to all of them.                                        *)

\* A step of s that commits nothing: its transaction becomes u, and only locks
\* of its own are taken or released.
Local(s, u) ==
    /\ UNCHANGED <<row, booked, balance>>
    /\ txn' = [txn EXCEPT ![s] = u]
    /\ owner' \in [Orders -> Sessions \cup {Nobody}]
    /\ \A o \in Orders : owner'[o] # owner[o] =>
          owner[o] \in {Nobody, s} /\ owner'[o] \in {Nobody, s}
    /\ holder' \in Sessions \cup {Nobody}
    /\ holder' # holder => holder \in {Nobody, s} /\ holder' \in {Nobody, s}

\* Such a step is not seen by the others.
LEMMA LocalStep ==
    ASSUME SessionsInv, NEW s \in Sessions, NEW u, Local(s, u), u \in Txn,
           Sound(u, row, booked, Mine(owner', s)), Needs(u) => holder' = s
    PROVE  SessionsInv'
<1>1. txn' \in [Sessions -> Txn] /\ txn'[s] = u /\ \A v \in Sessions \ {s} : txn'[v] = txn[v]
  BY DEF SessionsInv, Local
<1>2. row' = row /\ booked' = booked /\ balance' = balance
  BY DEF Local
<1>3. Committed(row', booked', balance')
  BY <1>2 DEF SessionsInv
<1>4. ASSUME NEW v \in Sessions \ {s}
      PROVE  Sound(txn'[v], row', booked', Mine(owner', v))
  <2>1. Mine(owner', v) = Mine(owner, v)
    BY Constants DEF Local, Mine
  <2>2. Sound(txn[v], row, booked, Mine(owner, v))
    BY DEF SessionsInv
  <2>. QED
    BY <1>1, <1>2, <2>1, <2>2
<1>5. Sound(txn'[s], row', booked', Mine(owner', s))
  BY <1>1, <1>2
<1>6. ASSUME NEW v \in Sessions, Needs(txn'[v])
      PROVE  holder' = v
  <2>1. CASE v = s
    BY <1>1, <1>6, <2>1
  <2>2. CASE v # s
    <3>1. Needs(txn[v])
      BY <1>1, <1>6, <2>2
    <3>2. holder = v
      BY <3>1 DEF SessionsInv, Locks, LockDiscipline, Needs
    <3>. QED
      BY <2>2, <3>2, Constants DEF Local
  <2>. QED
    BY <2>1, <2>2
<1>7. Locks'
  BY <1>6 DEF Local, Locks, LockDiscipline, Needs
<1>. QED
  BY <1>1, <1>3, <1>4, <1>5, <1>7 DEF SessionsInv

\* What a session sees is its view.
LEMMA Views ==
    ASSUME SessionsInv, NEW s \in Sessions
    PROVE  LET t == txn[s]
               mine == Mine(owner, s)
           IN  /\ Within(t, row, booked, balance, mine) /\ t \in Txn
               /\ \A o \in Orders : Sees(s, o) = ViewOf(t, row, mine)[o]
               /\ SeesBooked(s) = booked \cup t.fills
               /\ SeesBalance(s) = IF t.paid THEN t.cash ELSE balance
               /\ Needs(t) => holder = s
               /\ owner \in [Orders -> Sessions \cup {Nobody}]
               /\ holder \in Sessions \cup {Nobody}
               /\ txn \in [Sessions -> Txn]
<1>1. Sound(txn[s], row, booked, Mine(owner, s)) /\ Mine(owner, s) \in SUBSET Orders
  BY DEF SessionsInv, Mine
<1>2. \A o \in Orders : Sees(s, o) = ViewOf(txn[s], row, Mine(owner, s))[o]
  BY DEF Sees, ViewOf, Mine
<1>3. Needs(txn[s]) => holder = s
  BY DEF SessionsInv, Locks, LockDiscipline, Needs
<1>. QED
  BY <1>1, <1>2, <1>3 DEF SessionsInv, Within, SeesBooked, SeesBalance, Locks

LEMMA Seen ==
    ASSUME SessionsInv, NEW s \in Sessions, NEW o \in Orders
    PROVE  /\ Sees(s, o) = ViewOf(txn[s], row, Mine(owner, s))[o]
           /\ Sees(s, o) \in Row
           /\ Explained(o, Sees(s, o), Counted(txn[s], booked), booked \cup txn[s].fills)
           /\ Follows(row[o], Sees(s, o))
<1>1. Within(txn[s], row, booked, balance, Mine(owner, s))
  BY Views
<1>2. Sees(s, o) = ViewOf(txn[s], row, Mine(owner, s))[o]
  BY Views
<1>. DEFINE t == txn[s]
            mine == Mine(owner, s)
            r == ViewOf(t, row, mine)[o]
<1>3. /\ r \in Row
      /\ Explained(o, r, Counted(t, booked), booked \cup t.fills)
      /\ Follows(row[o], r)
  BY <1>1, SeenExplained
<1>. QED
  BY <1>2, <1>3

\* Ending a transaction without committing it.
LEMMA AbortStep ==
    ASSUME SessionsInv, NEW s \in Sessions, NEW outcome \in Outcomes, Abort(s, outcome)
    PROVE  SessionsInv'
<1>. DEFINE u == [Fresh EXCEPT !.outcome = outcome]
<1>1. /\ txn' = [txn EXCEPT ![s] = u]
      /\ holder' = IF holder = s THEN Nobody ELSE holder
      /\ owner' = [o \in Orders |-> IF owner[o] = s THEN Nobody ELSE owner[o]]
      /\ UNCHANGED <<row, booked, balance>>
  BY DEF Abort, End
<1>2. u \in Txn /\ Sound(u, row, booked, {}) /\ ~Needs(u)
  BY FreshSound
<1>. HIDE DEF u
<1>3. Local(s, u)
  BY <1>1, Views DEF Local
<1>4. Mine(owner', s) = {}
  BY <1>1, Constants DEF Mine
<1>. QED
  BY <1>2, <1>3, <1>4, LocalStep

\* A transaction starts from nothing.
LEMMA BeginStep ==
    ASSUME SessionsInv, NEW s \in Sessions, NEW plan \in Plans, Begin(s, plan)
    PROVE  SessionsInv'
<1>. DEFINE u == [Fresh EXCEPT !.at = "call", !.todo = plan]
<1>1. /\ txn' = [txn EXCEPT ![s] = u] /\ txn[s].at = "idle"
      /\ UNCHANGED <<row, booked, balance, holder, owner>>
  BY DEF Begin
<1>2. Sound(u, row, booked, {}) /\ ~Needs(u) /\ u \in Txn
  <2>1. plan \in Seq(Call)
    BY SessionsAssumption
  <2>2. Fresh \in Txn /\ Fresh.fills = {} /\ Fresh.paid = FALSE
    BY FreshType
  <2>3. u \in Txn /\ u.at = "call" /\ u.fills = {} /\ u.paid = FALSE
    BY <2>1, <2>2 DEF Txn, Steps
  <2>. HIDE DEF u
  <2>. QED
    BY <2>3, EmptySound
<1>. HIDE DEF u
<1>3. Local(s, u)
  BY <1>1, Views DEF Local
<1>4. Mine(owner', s) = {}
  BY <1>1 DEF SessionsInv, Sound
<1>. QED
  BY <1>2, <1>3, <1>4, LocalStep
\* A version that may be moved, or kept, with nothing new booked.
LEMMA MovedExplained ==
    ASSUME NEW o, NEW v \in Row, NEW counted, NEW have, Explained(o, v, counted, have),
           NEW to, MayMove(v.status, to), NEW old, Follows(old, v)
    PROVE  /\ Moved(v, to) \in Row /\ Explained(o, Moved(v, to), counted, have)
           /\ Follows(old, Moved(v, to))
           /\ v.status \in OpenStatuses
<1>1. /\ v.status \in OpenStatuses /\ v.status \notin Closed
      /\ to \in Statuses /\ to # "none"
  BY DEF MayMove, TransitionAllowed, OpenStatuses, Closed, Statuses
<1>2. /\ Moved(v, to).status = to /\ Moved(v, to).granted = v.granted
      /\ to \in OpenStatuses => Moved(v, to).reserved = v.reserved
      /\ Moved(v, to) \in Row
  <2>. DEFINE left == IF to \in OpenStatuses THEN v.reserved ELSE 0
  <2>1. left \in 0..Equity
    BY Constants DEF Row
  <2>2. Moved(v, to) = [v EXCEPT !.status = to, !.reserved = left]
    BY DEF Moved
  <2>3. to \in OpenStatuses => left = v.reserved
    OBVIOUS
  <2>. HIDE DEF left
  <2>. QED
    BY <1>1, <2>1, <2>2, <2>3 DEF Row
<1>. QED
  BY <1>1, <1>2 DEF Explained, Follows

\* Only the step, the plan, what was seen and the lock change.
Quiet(s, u) ==
    /\ txn' = [txn EXCEPT ![s] = u] /\ u \in Txn
    /\ UNCHANGED <<row, booked, balance, owner>>
    /\ holder' = holder \/ (holder \in {Nobody, s} /\ holder' = s)
    /\ Shape(u) /\ txn[s].at \notin {"consume", "pay"}
    /\ u.at \notin {"consume", "pay", "idle"}
    /\ u.draft = txn[s].draft /\ u.fills = txn[s].fills
    /\ u.cash = txn[s].cash /\ u.paid = txn[s].paid
    /\ Needs(u) => Needs(txn[s]) \/ holder' = s

LEMMA QuietStep ==
    ASSUME SessionsInv, NEW s \in Sessions, NEW u, Quiet(s, u)
    PROVE  SessionsInv'
<1>. USE DEF Quiet
<1>1. Sound(u, row, booked, Mine(owner, s))
  BY QuietSound DEF SessionsInv
<1>2. Local(s, u)
  BY Views DEF Local
<1>3. Needs(u) => holder' = s
  BY Views
<1>4. Sound(u, row, booked, Mine(owner', s))
  BY <1>1
<1>. QED
  BY <1>2, <1>3, <1>4, LocalStep

\* A version of one order is written and the call is done.
LEMMA WriteStep ==
    ASSUME SessionsInv, NEW s \in Sessions, NEW o \in Orders, NEW r \in Row,
           txn[s].at \in {"call", "reserve", "advance"}, txn[s].todo # <<>>,
           Explained(o, r, Counted(txn[s], booked), booked \cup txn[s].fills),
           Follows(row[o], r), Free(s, o), Write(s, o, r)
    PROVE  SessionsInv'
<1>. DEFINE t == txn[s]
            u == [t EXCEPT !.draft[o] = r, !.at = "call", !.todo = Tail(@)]
            mine == Mine(owner, s)
<1>1. txn' = [txn EXCEPT ![s] = u] /\ UNCHANGED <<row, booked, balance, holder>>
  BY Views DEF Write
<1>2. owner' = [owner EXCEPT ![o] = s]
  BY DEF Write
<1>3. Mine(owner', s) = mine \cup {o}
  BY <1>2, Views DEF Mine
<1>4. Local(s, u)
  BY <1>1, <1>2, Views DEF Local, Free
<1>5. Sound(t, row, booked, mine) /\ mine \in SUBSET Orders
  BY Views DEF Within
<1>6. Writes(t, row, booked, mine, o, r, u)
  BY <1>5 DEF Writes
<1>. HIDE DEF t, u, mine
<1>8. Sound(u, row, booked, mine \cup {o}) /\ u \in Txn /\ (Needs(u) => Needs(t))
  BY <1>6, WriteSound
<1>9. Needs(t) => holder' = s
  BY <1>1, Views DEF t
<1>. QED
  BY <1>3, <1>4, <1>8, <1>9, LocalStep

\* The call in hand: its fields have the types of the plans.
LEMMA CallType ==
    ASSUME NEW t \in Txn, t.todo # <<>>
    PROVE  /\ Head(t.todo) \in Call /\ Tail(t.todo) \in Seq(Call)
           /\ Head(t.todo).kind = "fill" => Head(t.todo).fill \in Fills
           /\ Head(t.todo).kind = "buy" =>
                 Head(t.todo).order \in Orders /\ Head(t.todo).usd \in 1..Equity
           /\ Head(t.todo).kind \in {"move", "adopt"} => Head(t.todo).order \in Orders
           /\ Head(t.todo).kind = "move" => Head(t.todo).to \in Statuses
           /\ Head(t.todo).kind \in {"fill", "buy", "move", "adopt"}
<1>1. Head(t.todo) \in Call /\ Tail(t.todo) \in Seq(Call)
  BY DEF Txn
<1>. QED
  BY <1>1 DEF Call

\* Such a statement drops a call at most, a fill only when it is booked.
Skips(s) ==
    /\ txn[s].todo # <<>>
    /\ \E u : /\ Quiet(s, u)
              /\ \/ u.todo = txn[s].todo
                 \/ /\ u.todo = Tail(txn[s].todo)
                    /\ This(s).kind = "fill" => This(s).fill \in booked \cup txn[s].fills

LEMMA SkipStep ==
    ASSUME SessionsInv, NEW s \in Sessions, Skips(s)
    PROVE  SessionsInv'
BY QuietStep DEF Skips

LEMMA StartBuySkips ==
    ASSUME SessionsInv, NEW s \in Sessions, StartBuy(s)
    PROVE  Skips(s)
<1>. DEFINE t == txn[s]
            u == [t EXCEPT !.at = "lock"]
<1>1. /\ t.at = "call" /\ t.todo # <<>> /\ Head(t.todo).kind = "buy"
      /\ txn' = [txn EXCEPT ![s] = u]
      /\ UNCHANGED <<row, booked, balance, holder, owner>>
  BY Views DEF StartBuy, Calls, This, Goto
<1>2. t \in Txn
  BY Views
<1>3. /\ u \in Txn /\ u.at = "lock" /\ u.todo = t.todo /\ u.fills = t.fills
      /\ u.cash = t.cash /\ u.paid = t.paid /\ u.draft = t.draft
  BY <1>2 DEF Txn, Steps
<1>4. Shape(u)
  BY <1>1, <1>3 DEF Shape, Busy, Booking
<1>5. Needs(u) => Needs(t) \/ holder' = s
  BY <1>3 DEF Needs
<1>. HIDE DEF u
<1>9. Quiet(s, u)
  BY <1>1, <1>3, <1>4, <1>5 DEF Quiet
<1>. QED
  BY <1>1, <1>3, <1>9 DEF Skips

LEMMA FindFillSkips ==
    ASSUME SessionsInv, NEW s \in Sessions, FindFill(s)
    PROVE  Skips(s)
<1>. DEFINE t == txn[s]
            known == Head(t.todo).fill \in booked \cup t.fills
            seen == Sees(s, Subject(s)).status
            u == IF known THEN [t EXCEPT !.todo = Tail(@)]
                          ELSE [t EXCEPT !.at = "lock", !.seen = seen]
<1>0. t \in Txn /\ txn \in [Sessions -> Txn] /\ SeesBooked(s) = booked \cup t.fills
  BY Views
<1>1. /\ t.at = "call" /\ t.todo # <<>> /\ Head(t.todo).kind = "fill"
      /\ UNCHANGED <<row, booked, balance, holder, owner>>
  BY DEF FindFill, Calls, This
<1>2. txn' = [txn EXCEPT ![s] = u]
  BY <1>0 DEF FindFill, This
<1>3. seen \in Statuses
  <2>1. Subject(s) \in Orders
    BY <1>0, <1>1, CallType, FillType DEF Subject, Fill, This
  <2>2. ViewOf(t, row, Mine(owner, s))[Subject(s)] \in Row
    BY <2>1, Views, SeenExplained
  <2>. QED
    BY <2>1, <2>2, Views DEF Row
<1>4. /\ u \in Txn /\ u.fills = t.fills /\ u.cash = t.cash /\ u.paid = t.paid
      /\ u.draft = t.draft /\ u.at \in {"call", "lock"}
      /\ u.at = "lock" => u.todo = t.todo /\ Head(t.todo).fill \notin t.fills
  <2>. HIDE DEF seen
  <2>1. Tail(t.todo) \in Seq(Call)
    BY <1>0, <1>1, CallType
  <2>2. CASE known
    BY <1>0, <1>1, <2>1, <2>2 DEF Txn
  <2>3. CASE ~known
    BY <1>0, <1>1, <1>3, <2>3 DEF Txn, Steps
  <2>. QED
    BY <2>2, <2>3
<1>7. u.todo = t.todo \/ (u.todo = Tail(t.todo) /\ This(s).fill \in booked \cup t.fills)
  BY <1>0, <1>4 DEF Txn, This
<1>. HIDE DEF u
<1>5. Shape(u)
  BY <1>1, <1>4 DEF Shape, Busy, Booking
<1>6. Needs(u) => Needs(t) \/ holder' = s
  BY <1>4 DEF Needs
<1>9. Quiet(s, u)
  BY <1>1, <1>2, <1>4, <1>5, <1>6 DEF Quiet
<1>. QED
  BY <1>1, <1>7, <1>9 DEF Skips

LEMMA LockPortfolioSkips ==
    ASSUME SessionsInv, NEW s \in Sessions, LockPortfolio(s)
    PROVE  Skips(s)
<1>. DEFINE t == txn[s]
            next == IF Head(t.todo).kind = "buy" THEN "reserve" ELSE "book"
            u == [t EXCEPT !.at = next]
<1>1. /\ t.at = "lock" /\ holder \in {Nobody, s} /\ holder' = s
      /\ txn' = [txn EXCEPT ![s] = u]
      /\ UNCHANGED <<row, booked, balance, owner>>
  BY Views DEF LockPortfolio, This, Goto
<1>2. t \in Txn /\ Shape(t)
  BY Views DEF Within, Sound
<1>3. /\ u \in Txn /\ u.at = next /\ u.todo = t.todo /\ u.fills = t.fills
      /\ u.cash = t.cash /\ u.paid = t.paid /\ u.draft = t.draft
      /\ next \in {"reserve", "book"}
  BY <1>2 DEF Txn, Steps
<1>4. Shape(u)
  BY <1>1, <1>2, <1>3 DEF Shape, Busy, Steps, Booking
<1>. HIDE DEF u, next
<1>9. Quiet(s, u)
  BY <1>1, <1>3, <1>4 DEF Quiet
<1>. QED
  BY <1>1, <1>2, <1>3, <1>9 DEF Skips, Shape, Busy, Steps
LEMMA ReserveStep ==
    ASSUME SessionsInv, NEW s \in Sessions, Reserve(s)
    PROVE  SessionsInv'
<1>. DEFINE t == txn[s]
            o == Head(t.todo).order
            n == Head(t.todo).usd
            r == [status |-> "PROPOSED", granted |-> n, reserved |-> n]
            have == booked \cup t.fills
<1>1. t \in Txn /\ Shape(t)
  BY Views DEF Within, Sound
<1>2. t.at = "reserve" /\ t.todo # <<>> /\ Head(t.todo).kind = "buy"
  BY <1>1 DEF Reserve, Shape, Busy, Steps
<1>3. o \in Orders /\ n \in 1..Equity /\ Subject(s) = o
  BY <1>1, <1>2, CallType DEF Subject, This
<1>4. CASE Sees(s, o) = NoRow /\ Free(s, o) /\ Write(s, o, r)
  <2>1. /\ ViewOf(t, row, Mine(owner, s))[o] = NoRow
        /\ Within(t, row, booked, balance, Mine(owner, s))
    BY <1>3, <1>4, Views
  <2>2. Explained(o, NoRow, Counted(t, booked), have) /\ Follows(row[o], NoRow)
    BY <1>3, <2>1, SeenExplained
  <2>3. Of(o, have) = {} /\ row[o].status = "none"
    BY <2>2 DEF Explained, Follows, NoRow
  <2>4. Of(o, Counted(t, booked)) = {}
    BY <2>3 DEF Of, Counted
  <2>5. n = Left(n, Spent(Of(o, Counted(t, booked))))
    BY <1>3, <2>4, SpentNone, Constants DEF Left
  <2>6. r \in Row /\ r.status = "PROPOSED" /\ r.granted = n /\ r.reserved = n
    BY <1>3, Constants DEF Row, Statuses
  <2>. HIDE DEF r, n, o
  <2>7. Explained(o, r, Counted(t, booked), have)
    BY <2>5, <2>6 DEF Explained
  <2>8. Follows(row[o], r)
    BY <2>3, <2>6 DEF Follows, Closed
  <2>. QED
    BY <1>2, <1>3, <1>4, <2>6, <2>7, <2>8, WriteStep
<1>5. CASE Abort(s, "refused") \/ Abort(s, "unique")
  BY <1>5, AbortStep DEF Outcomes
<1>. QED
  BY <1>3, <1>4, <1>5 DEF Reserve, This

LEMMA BookFillStep ==
    ASSUME SessionsInv, NEW s \in Sessions, BookFill(s)
    PROVE  SessionsInv'
<1>. DEFINE t == txn[s]
            f == Head(t.todo).fill
            mine == Mine(owner, s)
            u == [t EXCEPT !.fills = @ \cup {f}, !.at = "consume"]
<1>1. t \in Txn /\ Sound(t, row, booked, mine) /\ Shape(t) /\ mine \in SUBSET Orders
  BY Views DEF Within, Sound
<1>2. t.at = "book" /\ t.todo # <<>> /\ Head(t.todo).kind = "fill"
  BY <1>1 DEF BookFill, Shape, Busy, Steps, Booking
<1>3. f \in Fills /\ FillOf[f].order \in Orders /\ Subject(s) = FillOf[f].order
  BY <1>1, <1>2, CallType, FillType DEF Subject, Fill, This
<1>4. CASE /\ Sees(s, Subject(s)).status \in FillStatuses /\ f \notin booked
           /\ txn' = [txn EXCEPT ![s] = u]
           /\ UNCHANGED <<row, booked, balance, holder, owner>>
  <2>1. ViewOf(t, row, mine)[FillOf[f].order].status # "none"
    BY <1>3, <1>4, Views DEF FillStatuses
  <2>2. f = Head(t.todo).fill /\ u = [t EXCEPT !.fills = @ \cup {f}, !.at = "consume"]
    OBVIOUS
  <2>3. Local(s, u)
    BY <1>4, Views DEF Local
  <2>4. Needs(t) /\ (Needs(t) => holder = s)
    BY <1>2, Views DEF Needs
  <2>. HIDE DEF t, f, u, mine
  <2>5. Sound(u, row, booked, mine) /\ u \in Txn
    BY <1>1, <1>2, <1>3, <1>4, <2>1, <2>2, BookSound
  <2>6. Sound(u, row, booked, Mine(owner', s)) /\ holder' = s
    BY <1>4, <2>4, <2>5 DEF mine
  <2>. QED
    BY <2>3, <2>5, <2>6, LocalStep
<1>5. CASE Abort(s, "inactive") \/ Abort(s, "unique")
  BY <1>5, AbortStep DEF Outcomes
<1>6. \/ /\ Sees(s, Subject(s)).status \in FillStatuses /\ f \notin booked
         /\ txn' = [txn EXCEPT ![s].fills = @ \cup {f}, ![s].at = "consume"]
         /\ UNCHANGED <<row, booked, balance, holder, owner>>
      \/ Abort(s, "inactive") \/ Abort(s, "unique")
  BY DEF BookFill, This
<1>7. txn' = [txn EXCEPT ![s].fills = @ \cup {f}, ![s].at = "consume"] =>
          txn' = [txn EXCEPT ![s] = u]
  BY Views
<1>. QED
  BY <1>4, <1>5, <1>6, <1>7

LEMMA ConsumeStep ==
    ASSUME SessionsInv, NEW s \in Sessions, ConsumeReservation(s)
    PROVE  SessionsInv'
<1>. DEFINE t == txn[s]
            f == Head(t.todo).fill
            o == FillOf[f].order
            mine == Mine(owner, s)
            v == ViewOf(t, row, mine)[o]
            r == [v EXCEPT !.reserved = Left(@, FillOf[f].usd)]
            u == [t EXCEPT !.at = "pay", !.draft[o] = r]
<1>1. t \in Txn /\ Shape(t) /\ Within(t, row, booked, balance, mine)
  BY Views DEF Within, Sound
<1>2. t.at = "consume" /\ t.todo # <<>> /\ Head(t.todo).kind = "fill"
  BY <1>1 DEF ConsumeReservation, Shape, Busy, Steps, Booking
<1>3. f \in Fills /\ o \in Orders /\ Subject(s) = o /\ Sees(s, o) = v
  BY <1>1, <1>2, CallType, FillType, Views DEF Subject, Fill, This
<1>4. /\ Free(s, o) /\ owner' = [owner EXCEPT ![o] = s]
      /\ txn' = [txn EXCEPT ![s] = u]
      /\ UNCHANGED <<row, booked, balance, holder>>
  <2>1. /\ Free(s, o) /\ owner' = [owner EXCEPT ![o] = s]
        /\ txn' = [txn EXCEPT ![s].at = "pay", ![s].draft[o] = r]
        /\ UNCHANGED <<row, booked, balance, holder>>
    BY <1>3 DEF ConsumeReservation, Fill, This, Left
  <2>. QED
    BY <2>1, Views
<1>5. Local(s, u)
  BY <1>3, <1>4, Views DEF Local, Free
<1>6. Mine(owner', s) = mine \cup {o}
  BY <1>3, <1>4, Views DEF Mine
<1>7. holder' = s
  BY <1>2, <1>4, Views DEF Needs
<1>8. Sound(u, row, booked, mine \cup {o}) /\ u \in Txn
  <2>1. Consumes(t, row, booked, balance, mine, f, o, v, r, u)
    BY <1>1, <1>2, <1>3 DEF Consumes
  <2>. HIDE DEF t, f, o, mine, v, r, u
  <2>. QED
    BY <2>1, ConsumeSound
<1>. HIDE DEF u
<1>. QED
  BY <1>5, <1>6, <1>7, <1>8, LocalStep

LEMMA PayStep ==
    ASSUME SessionsInv, NEW s \in Sessions, Pay(s)
    PROVE  SessionsInv'
<1>. DEFINE t == txn[s]
            f == Head(t.todo).fill
            mine == Mine(owner, s)
            cash == IF t.paid THEN t.cash ELSE balance
            u == [t EXCEPT !.at = "advance", !.paid = TRUE, !.cash = cash - FillOf[f].usd]
<1>1. t \in Txn /\ Shape(t) /\ Within(t, row, booked, balance, mine)
  BY Views DEF Within, Sound
<1>2. t.at = "pay" /\ t.todo # <<>> /\ Head(t.todo).kind = "fill"
  BY <1>1 DEF Pay, Shape, Busy, Steps, Booking
<1>3. f \in Fills /\ Fill(s) = FillOf[f]
  BY <1>1, <1>2, CallType DEF Fill, This
<1>4. CASE /\ FillOf[f].usd <= cash
           /\ txn' = [txn EXCEPT ![s] = u]
           /\ UNCHANGED <<row, booked, balance, holder, owner>>
  <2>1. Local(s, u)
    BY <1>4, Views DEF Local
  <2>2. Mine(owner', s) = mine /\ holder' = s
    BY <1>2, <1>4, Views DEF Needs
  <2>3. Sound(u, row, booked, mine) /\ u \in Txn
    <3>1. /\ f = Head(t.todo).fill /\ cash = IF t.paid THEN t.cash ELSE balance
          /\ u = [t EXCEPT !.at = "advance", !.paid = TRUE, !.cash = cash - FillOf[f].usd]
      OBVIOUS
    <3>. HIDE DEF t, f, mine, cash, u
    <3>. QED
      BY <1>1, <1>2, <1>3, <1>4, <3>1, PaySound
  <2>. HIDE DEF u
  <2>. QED
    BY <2>1, <2>2, <2>3, LocalStep
<1>5. CASE Abort(s, "overdrawn")
  BY <1>5, AbortStep DEF Outcomes
<1>6. \/ /\ FillOf[f].usd <= cash
         /\ txn' = [txn EXCEPT ![s].at = "advance", ![s].paid = TRUE,
                               ![s].cash = cash - FillOf[f].usd]
         /\ UNCHANGED <<row, booked, balance, holder, owner>>
      \/ Abort(s, "overdrawn")
  BY <1>3, Views DEF Pay
<1>7. txn' = [txn EXCEPT ![s].at = "advance", ![s].paid = TRUE,
                         ![s].cash = cash - FillOf[f].usd] =>
          txn' = [txn EXCEPT ![s] = u]
  BY Views
<1>. QED
  BY <1>4, <1>5, <1>6, <1>7
\* What a session sees of an order it may keep, or move where the table lets it;
\* to FILLED only with the last fill of the order, or if a plan says so.
Keeps(s, o) ==
    /\ txn[s].at \in {"call", "advance"} /\ txn[s].todo # <<>> /\ Free(s, o)
    /\ This(s).kind = "fill" => This(s).fill \in booked \cup txn[s].fills
    /\ \/ Write(s, o, Sees(s, o))
       \/ \E to :
             /\ MayMove(Sees(s, o).status, to)
             /\ Write(s, o, Moved(Sees(s, o), to))
             /\ to = "FILLED" =>
                   \/ This(s).kind = "move" /\ This(s).to = to
                   \/ This(s).kind = "fill" /\ Fill(s).last /\ Fill(s).order = o

LEMMA KeepStep ==
    ASSUME SessionsInv, NEW s \in Sessions, NEW o \in Orders, Keeps(s, o)
    PROVE  SessionsInv'
<1>. DEFINE t == txn[s]
            v == Sees(s, o)
<1>0. t.at \in {"call", "reserve", "advance"} /\ t.todo # <<>> /\ Free(s, o)
  BY DEF Keeps
<1>1. /\ v \in Row /\ Explained(o, v, Counted(t, booked), booked \cup t.fills)
      /\ Follows(row[o], v)
  BY Seen
<1>2. CASE Write(s, o, v)
  BY <1>0, <1>1, <1>2, WriteStep
<1>3. ASSUME NEW to, MayMove(v.status, to), Write(s, o, Moved(v, to))
      PROVE  SessionsInv'
  <2>1. /\ Moved(v, to) \in Row /\ Follows(row[o], Moved(v, to))
        /\ Explained(o, Moved(v, to), Counted(t, booked), booked \cup t.fills)
    BY <1>1, <1>3, MovedExplained
  <2>. QED
    BY <1>0, <1>3, <2>1, WriteStep
<1>. QED
  BY <1>2, <1>3 DEF Keeps

LEMMA AdvanceKeeps ==
    ASSUME SessionsInv, NEW s \in Sessions, AdvanceOrder(s)
    PROVE  (\E o \in Orders : Keeps(s, o)) \/ Abort(s, "illegal")
<1>. DEFINE t == txn[s]
            f == Head(t.todo).fill
            o == FillOf[f].order
<1>1. t \in Txn /\ Sound(t, row, booked, Mine(owner, s)) /\ Shape(t)
  BY Views DEF Within, Sound
<1>2. t.at = "advance" /\ t.todo # <<>> /\ Head(t.todo).kind = "fill" /\ f \in t.fills
  BY <1>1 DEF AdvanceOrder, Shape, Busy, Steps, Booking
<1>3. f \in Fills /\ o \in Orders /\ Subject(s) = o /\ Fill(s) = FillOf[f]
  BY <1>1, <1>2, CallType, FillType DEF Subject, Fill, This
<1>4. owner[o] = s
  BY <1>1, <1>2 DEF Sound, Pending, Mine
<1>5. Free(s, o)
  BY <1>4 DEF Free
<1>6. \/ Write(s, o, Sees(s, o))
      \/ MayMove(Sees(s, o).status, Target(s)) /\ Write(s, o, Moved(Sees(s, o), Target(s)))
      \/ Abort(s, "illegal")
  BY <1>3 DEF AdvanceOrder
<1>7. Target(s) = "FILLED" => Fill(s).last
  BY DEF Target
<1>8. This(s).kind = "fill" /\ This(s).fill = f /\ Fill(s).order = o
  BY <1>2, <1>3 DEF This
<1>. HIDE DEF f, o
<1>9. Keeps(s, o) \/ Abort(s, "illegal")
  BY <1>2, <1>5, <1>6, <1>7, <1>8 DEF Keeps
<1>. QED
  BY <1>3, <1>9

LEMMA MoveKeeps ==
    ASSUME SessionsInv, NEW s \in Sessions, MoveOrder(s)
    PROVE  Skips(s) \/ (\E o \in Orders : Keeps(s, o)) \/ Abort(s, "illegal")
<1>. DEFINE t == txn[s]
            o == Head(t.todo).order
            to == Head(t.todo).to
            u == [t EXCEPT !.todo = Tail(@)]
<1>1. t \in Txn
  BY Views
<1>2. t.at = "call" /\ t.todo # <<>> /\ Head(t.todo).kind = "move" /\ This(s).kind = "move"
  BY DEF MoveOrder, Calls, This
<1>3. o \in Orders /\ Subject(s) = o /\ This(s).to = to /\ Tail(t.todo) \in Seq(Call)
  BY <1>1, <1>2, CallType DEF Subject, This
<1>4. ASSUME txn' = [txn EXCEPT ![s].todo = Tail(@)],
             UNCHANGED <<row, booked, balance, holder, owner>>
      PROVE  Skips(s)
  <2>0. txn' = [txn EXCEPT ![s] = u]
    BY <1>4, Views
  <2>1. /\ u \in Txn /\ u.at = "call" /\ u.fills = t.fills /\ u.cash = t.cash
        /\ u.paid = t.paid /\ u.draft = t.draft /\ u.todo = Tail(t.todo)
    BY <1>1, <1>2, <1>3 DEF Txn
  <2>2. Shape(u)
    BY <2>1 DEF Shape, Busy, Booking
  <2>3. Needs(u) => Needs(t)
    BY <2>1 DEF Needs
  <2>. HIDE DEF u
  <2>4. Quiet(s, u)
    BY <1>2, <1>4, <2>0, <2>1, <2>2, <2>3 DEF Quiet
  <2>. QED
    BY <1>2, <2>1, <2>4 DEF Skips
<1>5. \/ /\ txn' = [txn EXCEPT ![s].todo = Tail(@)]
         /\ UNCHANGED <<row, booked, balance, holder, owner>>
      \/ /\ Free(s, o) /\ MayMove(Sees(s, o).status, to)
         /\ Write(s, o, Moved(Sees(s, o), to))
      \/ Abort(s, "illegal")
  BY <1>3 DEF MoveOrder
<1>6. ASSUME Free(s, o), MayMove(Sees(s, o).status, to), Write(s, o, Moved(Sees(s, o), to))
      PROVE  Keeps(s, o)
  <2>. HIDE DEF o, to
  <2>. QED
    BY <1>2, <1>3, <1>6 DEF Keeps
<1>. HIDE DEF u, to, o
<1>. QED
  BY <1>3, <1>4, <1>5, <1>6

LEMMA AdoptKeeps ==
    ASSUME SessionsInv, NEW s \in Sessions, AdoptOrder(s)
    PROVE  \E o \in Orders : Keeps(s, o)
<1>. DEFINE t == txn[s]
<1>1. t \in Txn /\ t.at = "call" /\ t.todo # <<>> /\ Head(t.todo).kind = "adopt"
  BY Views DEF AdoptOrder, Calls, This
<1>2. Subject(s) \in Orders
  BY <1>1, CallType DEF Subject, This
<1>3. Free(s, Subject(s)) /\ Write(s, Subject(s), Sees(s, Subject(s)))
  BY DEF AdoptOrder
<1>. QED
  BY <1>1, <1>2, <1>3 DEF Keeps, This

\* A session t that commits, and another one w.
Commits(t, rows, done, bal, mine, w, others) ==
    /\ Within(t, rows, done, bal, mine) /\ t.at = "call"
    /\ Sound(w, rows, done, others) /\ others \in SUBSET Orders
    /\ mine \cap others = {}
    /\ Needs(t) => ~Needs(w)

\* What t commits concerns none of the orders of w, nor its cash.
LEMMA CommitOther ==
    ASSUME NEW t, NEW rows, NEW done, NEW bal, NEW mine, NEW w, NEW others,
           Commits(t, rows, done, bal, mine, w, others)
    PROVE  Sound(w, ViewOf(t, rows, mine), done \cup t.fills, others)
<1>. USE DEF Commits
<1>. DEFINE after == ViewOf(t, rows, mine)
            have == done \cup t.fills
<1>1. \A o \in others : after[o] = rows[o]
  BY DEF ViewOf
<1>2. w \in Txn /\ Shape(w)
  BY DEF Sound, Shape
<1>3. CASE t.fills = {}
  <2>1. have = done
    BY <1>3
  <2>2. \A o \in Orders : Follows(rows[o], after[o])
    BY SeenExplained
  <2>3. ASSUME w.at = "consume"
        PROVE  ViewOf(w, after, others)[FillOf[Head(w.todo).fill].order].status # "none"
    <3>. DEFINE o == FillOf[Head(w.todo).fill].order
    <3>1. w.todo # <<>> /\ Head(w.todo).kind = "fill"
      BY <1>2, <2>3 DEF Shape, Busy, Steps, Booking
    <3>2. o \in Orders
      BY <1>2, <3>1, CallType, FillType
    <3>3. ViewOf(w, rows, others)[o].status # "none"
      BY <2>3 DEF Sound
    <3>. HIDE DEF o, after
    <3>4. ViewOf(w, after, others)[o].status # "none"
      BY <2>2, <3>2, <3>3 DEF ViewOf, Follows
    <3>. QED
      BY <3>4 DEF o, after
  <2>. HIDE DEF after, have
  <2>4. Sound(w, after, done, others)
    BY <1>1, <2>3 DEF Sound
  <2>. QED
    BY <2>1, <2>4 DEF after, have
<1>4. CASE t.fills # {}
  <2>1. w.fills = {} /\ ~w.paid /\ w.at \notin Booking
    BY <1>4 DEF Needs, Booking
  <2>2. \A f \in t.fills : FillOf[f].order \in mine
    BY DEF Within, Sound, Pending
  <2>3. Pending(w, {"consume"}) = {} /\ Pending(w, {"consume", "pay"}) = {}
    BY <2>1 DEF Pending, Booking
  <2>4. Counted(w, have) = have /\ Counted(w, done) = done /\ Paid(w, have) = have
    BY <2>1, <2>3 DEF Counted, Paid
  <2>5. \A o \in others : Of(o, have) = Of(o, done)
    BY <2>2 DEF Of
  <2>6. ASSUME NEW o \in others
        PROVE  /\ Explained(o, w.draft[o], Counted(w, have), have \cup w.fills)
               /\ Follows(after[o], w.draft[o])
    <3>1. /\ Explained(o, w.draft[o], done, done \cup w.fills)
          /\ Follows(rows[o], w.draft[o])
      BY <2>4 DEF Sound
    <3>. QED
      BY <1>1, <2>1, <2>4, <2>5, <3>1 DEF Explained
  <2>7. w.fills \cap have = {} /\ w.at # "consume" /\ (w.at = "idle" => others = {})
    BY <2>1 DEF Sound, Booking
  <2>. HIDE DEF after, have
  <2>8. Sound(w, after, have, others)
    BY <1>2, <2>1, <2>4, <2>6, <2>7 DEF Sound
  <2>. QED
    BY <2>8 DEF after, have
<1>. QED
  BY <1>3, <1>4

LEMMA CommitStep ==
    ASSUME SessionsInv, NEW s \in Sessions, Commit(s)
    PROVE  SessionsInv'
<1>. DEFINE t == txn[s]
            mine == Mine(owner, s)
            have == booked \cup t.fills
            u == [Fresh EXCEPT !.outcome = "committed"]
<1>1. Within(t, row, booked, balance, mine) /\ t.at = "call" /\ t.fills \in SUBSET Fills
  BY Views, CountedType DEF Commit
<1>2. row' = ViewOf(t, row, mine) /\ booked' = have
  BY Views DEF Commit, ViewOf
<1>3. /\ txn' = [txn EXCEPT ![s] = u]
      /\ holder' = IF holder = s THEN Nobody ELSE holder
      /\ owner' = [o \in Orders |-> IF owner[o] = s THEN Nobody ELSE owner[o]]
  BY DEF Commit, End
<1>4. Counted(t, booked) = have /\ Paid(t, booked) = have
  BY <1>1 DEF Counted, Paid, Pending
<1>5. Committed(row', booked', balance')
  <2>1. balance' = IF t.paid THEN t.cash ELSE balance
    BY Views DEF Commit
  <2>2. balance' \in 0..Equity /\ balance' = Equity - Spent(booked')
    <3>. DEFINE cash == IF t.paid THEN t.cash ELSE balance
    <3>1. cash \in 0..Equity /\ cash = Equity - Spent(Paid(t, booked))
      BY <1>1, SeenCash
    <3>. HIDE DEF cash, mine
    <3>. QED
      BY <1>2, <1>4, <2>1, <3>1 DEF cash
  <2>3. booked' \in SUBSET Fills
    BY <1>1, <1>2 DEF Within, Committed
  <2>4. \A o \in Orders : row'[o] \in Row /\ Explained(o, row'[o], booked', booked')
    BY <1>2, <1>4, Seen
  <2>5. row' \in [Orders -> Row]
    BY <1>2, <2>4 DEF ViewOf
  <2>. QED
    BY <2>2, <2>3, <2>4, <2>5 DEF Committed
<1>6. u \in Txn /\ ~Needs(u) /\ Sound(u, row', booked', {})
  BY FreshSound DEF Outcomes
<1>. HIDE DEF u
<1>7. /\ txn' \in [Sessions -> Txn] /\ txn'[s] = u
      /\ \A v \in Sessions \ {s} : txn'[v] = txn[v]
  BY <1>3, <1>6, Views
<1>8. ASSUME NEW v \in Sessions \ {s}
      PROVE  Sound(txn'[v], row', booked', Mine(owner', v))
  <2>1. Mine(owner', v) = Mine(owner, v)
    BY <1>3, Constants DEF Mine
  <2>2. Sound(txn[v], row, booked, Mine(owner, v)) /\ mine \cap Mine(owner, v) = {}
    BY DEF SessionsInv, Mine
  <2>3. Needs(t) => ~Needs(txn[v])
    BY Views
  <2>4. Commits(t, row, booked, balance, mine, txn[v], Mine(owner, v))
    BY <1>1, <2>2, <2>3 DEF Commits, Mine
  <2>5. Sound(txn[v], ViewOf(t, row, mine), have, Mine(owner, v))
    BY <2>4, CommitOther
  <2>. QED
    BY <1>2, <1>7, <2>1, <2>5
<1>9. Sound(txn'[s], row', booked', Mine(owner', s))
  <2>1. Mine(owner', s) = {}
    BY <1>3, Constants DEF Mine
  <2>. QED
    BY <1>6, <1>7, <2>1
<1>10. ASSUME NEW v \in Sessions, Needs(txn'[v])
       PROVE  holder' = v
  <2>1. v # s
    BY <1>6, <1>7, <1>10
  <2>2. Needs(txn[v])
    BY <1>7, <1>10, <2>1
  <2>3. holder = v
    BY <2>2, Views
  <2>. QED
    BY <1>3, <2>1, <2>3
<1>11. Locks'
  <2>1. owner' \in [Orders -> Sessions \cup {Nobody}] /\ holder' \in Sessions \cup {Nobody}
    BY <1>3, Views
  <2>. QED
    BY <1>10, <2>1 DEF Locks, LockDiscipline, Needs
<1>. QED
  BY <1>5, <1>7, <1>8, <1>9, <1>11 DEF SessionsInv

-----------------------------------------------------------------------------
LEMMA SessionsInitially == Init => SessionsInv
<1>. SUFFICES ASSUME Init PROVE SessionsInv
  OBVIOUS
<1>1. \A s \in Sessions : Mine(owner, s) = {}
  BY Constants DEF Init, Mine
<1>2. \A s \in Sessions : txn[s] \in Txn /\ Sound(txn[s], row, booked, {}) /\ ~Needs(txn[s])
  BY FreshType, EmptySound DEF Init
<1>3. Committed(row, booked, balance)
  <2>1. \A o \in Orders : Of(o, {}) = {}
    BY DEF Of
  <2>2. ASSUME NEW o \in Orders
        PROVE  Explained(o, row[o], booked, booked)
    <3>1. /\ row[o] = InitRows[o] /\ row[o] \in Row /\ booked = {}
          /\ row[o].status = "none" => row[o] = NoRow
          /\ row[o].status \in OpenStatuses => row[o].reserved = row[o].granted
      BY SessionsAssumption DEF Init
    <3>2. row[o].granted \in 0..Equity
      BY <3>1 DEF Row
    <3>3. Left(row[o].granted, 0) = row[o].granted
      BY <3>2, Constants DEF Left
    <3>. QED
      BY <2>1, <3>1, <3>3, SpentNone DEF Explained
  <2>3. row \in [Orders -> Row] /\ booked = {} /\ balance = Equity /\ Equity \in Nat
    BY SessionsAssumption DEF Init
  <2>. QED
    BY <2>2, <2>3, SpentNone DEF Committed
<1>4. Locks
  BY <1>2 DEF Init, Locks, LockDiscipline, Needs
<1>. QED
  BY <1>1, <1>2, <1>3, <1>4 DEF SessionsInv, Init

LEMMA SessionsStep == SessionsInv /\ [Next]_vars => SessionsInv'
<1>. SUFFICES ASSUME SessionsInv, [Next]_vars PROVE SessionsInv'
  OBVIOUS
<1>1. CASE UNCHANGED vars
  BY <1>1 DEF vars, SessionsInv, Locks, LockDiscipline
<1>2. ASSUME NEW s \in Sessions, NEW plan \in Plans, Begin(s, plan)
      PROVE  SessionsInv'
  BY <1>2, BeginStep
<1>3. ASSUME NEW s \in Sessions, Statement(s)
      PROVE  SessionsInv'
  <2>1. CASE StartBuy(s) \/ FindFill(s) \/ LockPortfolio(s)
    BY <2>1, StartBuySkips, FindFillSkips, LockPortfolioSkips, SkipStep
  <2>2. CASE Reserve(s) \/ BookFill(s) \/ ConsumeReservation(s) \/ Pay(s) \/ Commit(s)
    BY <2>2, ReserveStep, BookFillStep, ConsumeStep, PayStep, CommitStep
  <2>3. CASE AdvanceOrder(s) \/ MoveOrder(s) \/ AdoptOrder(s)
    BY <2>3, AdvanceKeeps, MoveKeeps, AdoptKeeps, SkipStep, KeepStep, AbortStep
       DEF Outcomes
  <2>. QED
    BY <1>3, <2>1, <2>2, <2>3 DEF Statement
<1>4. ASSUME NEW s \in Sessions, LoseConnection(s) \/ DeadlockVictim(s)
      PROVE  SessionsInv'
  BY <1>4, AbortStep DEF LoseConnection, DeadlockVictim, Outcomes
<1>. QED
  BY <1>1, <1>2, <1>3, <1>4 DEF Next

LEMMA SessionsInvariant == Spec => []SessionsInv
<1>. QED
  BY SessionsInitially, SessionsStep, PTL DEF Spec

\* Whatever is interleaved, every table, lock and transaction keeps its type.
THEOREM SessionsTypeCorrect == Spec => []TypeOK
<1>1. SessionsInv => TypeOK
  BY DEF SessionsInv, Committed, Locks, TypeOK
<1>. QED
  BY <1>1, SessionsInvariant, PTL

\* Uncommitted fills and cash are the lock holder's alone.
THEOREM SessionsLockDiscipline == Spec => []LockDiscipline
<1>1. SessionsInv => LockDiscipline
  BY DEF SessionsInv, Locks
<1>. QED
  BY <1>1, SessionsInvariant, PTL

\* The committed balance is the equity less every committed fill, once.
THEOREM SessionsFillsPaidOnce == Spec => []EveryFillPaidOnce
<1>1. SessionsInv => EveryFillPaidOnce
  BY DEF SessionsInv, Committed, EveryFillPaidOnce
<1>. QED
  BY <1>1, SessionsInvariant, PTL

\* No update of a reservation is lost, whoever else writes the row.
THEOREM SessionsHoldExplained == Spec => []HoldExplained
<1>1. SessionsInv => HoldExplained
  BY DEF SessionsInv, Committed, Explained, Left, HoldExplained
<1>. QED
  BY <1>1, SessionsInvariant, PTL

\* No transaction reopens an order that another one has closed.
THEOREM SessionsClosedStaysClosed == Spec => ClosedStaysClosed
<1>1. SessionsInv /\ [Next]_vars =>
          \A o \in Orders : row[o].status \in Closed => row'[o].status = row[o].status
  <2>. SUFFICES ASSUME SessionsInv, [Next]_vars, NEW o \in Orders, row[o].status \in Closed
                PROVE  row'[o].status = row[o].status
    OBVIOUS
  <2>1. CASE UNCHANGED row
    BY <2>1
  <2>2. ASSUME NEW s \in Sessions, Commit(s)
        PROVE  row'[o].status = row[o].status
    <3>1. row'[o] = ViewOf(txn[s], row, Mine(owner, s))[o]
      BY <2>2, Views DEF Commit
    <3>2. Follows(row[o], row'[o])
      BY <3>1, Seen
    <3>. QED
      BY <3>2 DEF Follows
  <2>3. UNCHANGED row \/ \E s \in Sessions : Commit(s)
    BY ZenonT(60) DEF Next, vars, Begin, Statement, StartBuy, FindFill, LockPortfolio, Reserve,
       BookFill, ConsumeReservation, Pay, AdvanceOrder, MoveOrder, AdoptOrder,
       LoseConnection, DeadlockVictim, Abort, Write
  <2>. QED
    BY <2>1, <2>2, <2>3
<1>. QED
  BY <1>1, SessionsInvariant, PTL DEF Spec, ClosedStaysClosed
-----------------------------------------------------------------------------
(* Money: the calls ahead, and what one session does to its own budget.    *)

\* One call less.
LEMMA ReadyTail ==
    ASSUME NEW todo \in Seq(Call), todo # <<>>, NEW have, Ready(todo, have),
           Head(todo).kind = "fill" => Head(todo).fill \in have
    PROVE  Ready(Tail(todo), have)
<1>. DEFINE rest == Tail(todo)
<1>1. /\ \A i \in DOMAIN rest : i + 1 \in DOMAIN todo /\ rest[i] = todo[i + 1]
      /\ DOMAIN rest \subseteq Nat \ {0}
      /\ todo[1] = Head(todo)
  OBVIOUS
<1>2. ASSUME NEW i \in DOMAIN rest, rest[i].kind = "fill", FillOf[rest[i].fill].last,
             NEW g \in Of(FillOf[rest[i].fill].order, Fills), g \notin have
      PROVE  \E j \in 1..i : rest[j].kind = "fill" /\ rest[j].fill = g
  <2>1. PICK k \in 1..(i + 1) : todo[k].kind = "fill" /\ todo[k].fill = g
    BY <1>1, <1>2 DEF Ready, Orderly
  <2>2. k # 1
    BY <1>1, <1>2, <2>1
  <2>3. k - 1 \in 1..i /\ k - 1 \in DOMAIN rest /\ rest[k - 1] = todo[k]
    BY <1>1, <2>1, <2>2
  <2>. QED
    BY <2>1, <2>3
<1>3. Orderly(rest, have)
  BY <1>2 DEF Orderly
<1>. QED
  BY <1>1, <1>3 DEF Ready

\* More fills booked.
LEMMA ReadyMore ==
    ASSUME NEW todo, NEW have, NEW more, have \subseteq more, Ready(todo, have)
    PROVE  Ready(todo, more)
BY DEF Ready, Orderly

\* Writing one order changes the holds by that order.
LEMMA HoldsWrite ==
    ASSUME NEW rows \in [Orders -> Row], NEW o \in Orders, NEW r \in Row
    PROVE  /\ [rows EXCEPT ![o] = r] \in [Orders -> Row]
           /\ Holds([rows EXCEPT ![o] = r]) = Holds(rows) - HoldOf(rows[o]) + HoldOf(r)
<1>. DEFINE others == [rows EXCEPT ![o] = r]
<1>1. /\ others \in [Orders -> Row] /\ others[o] = r
      /\ \A p \in Orders \ {o} : others[p] = rows[p]
  OBVIOUS
<1>. HIDE DEF others
<1>2. Holds(others) = Holds(rows) - HoldOf(rows[o]) + HoldOf(others[o])
  BY <1>1, HoldsChange
<1>. QED
  BY <1>1, <1>2 DEF others

\* The rows and drafts of a session, and the calls it still has to make.
Fitting(t, done, mine) ==
    /\ \A o \in mine : Fits(o, t.draft[o], done \cup t.fills)
    /\ Ready(t.todo, done \cup t.fills)

MoneyInv ==
    /\ Holds(row) <= balance
    /\ \A o \in Orders : Fits(o, row[o], booked)
    /\ \A s \in Sessions : Fitting(txn[s], booked, Mine(owner, s))
    /\ \A s \in Sessions : holder = s => Budget(txn[s], row, booked, Mine(owner, s))
    /\ \A s \in Sessions : holder # s => Lower(txn[s], row, Mine(owner, s))

\* A step of s that commits nothing leaves the others their budgets.
LEMMA MoneyLocal ==
    ASSUME SessionsInv, MoneyInv, NEW s \in Sessions, NEW u, Local(s, u),
           Fitting(u, booked, Mine(owner', s)),
           holder' = s => Budget(u, row, booked, Mine(owner', s)),
           holder' # s => Lower(u, row, Mine(owner', s))
    PROVE  MoneyInv'
<1>1. txn'[s] = u /\ \A v \in Sessions \ {s} : txn'[v] = txn[v]
  BY DEF SessionsInv, Local
<1>2. row' = row /\ booked' = booked /\ balance' = balance
  BY DEF Local
<1>3. Holds(row') <= balance' /\ \A o \in Orders : Fits(o, row'[o], booked')
  BY <1>2 DEF MoneyInv
<1>4. ASSUME NEW v \in Sessions \ {s}
      PROVE  /\ Fitting(txn'[v], booked', Mine(owner', v))
             /\ holder' = v => Budget(txn'[v], row', booked', Mine(owner', v))
             /\ holder' # v => Lower(txn'[v], row', Mine(owner', v))
  <2>1. Mine(owner', v) = Mine(owner, v) /\ (holder' = v <=> holder = v)
    BY Constants DEF Local, Mine
  <2>2. /\ Fitting(txn[v], booked, Mine(owner, v))
        /\ holder = v => Budget(txn[v], row, booked, Mine(owner, v))
        /\ holder # v => Lower(txn[v], row, Mine(owner, v))
    BY DEF MoneyInv
  <2>. QED
    BY <1>1, <1>2, <2>1, <2>2
<1>5. /\ Fitting(txn'[s], booked', Mine(owner', s))
      /\ holder' = s => Budget(txn'[s], row', booked', Mine(owner', s))
      /\ holder' # s => Lower(txn'[s], row', Mine(owner', s))
  BY <1>1, <1>2
<1>. QED
  BY <1>3, <1>4, <1>5 DEF MoneyInv

\* Nothing of a session that owns nothing can be over-committed.
LEMMA EmptyMoney ==
    ASSUME SessionsInv, MoneyInv, NEW u, u.fills = {}, u.at # "consume",
           Ready(u.todo, booked)
    PROVE  /\ Fitting(u, booked, {}) /\ Lower(u, row, {})
           /\ Budget(u, row, booked, {})
<1>1. ViewOf(u, row, {}) = row /\ Counted(u, booked) = booked
  BY DEF ViewOf, SessionsInv, Committed, Counted, Pending
<1>2. Holds(row) <= Equity - Spent(booked)
  BY DEF MoneyInv, SessionsInv, Committed
<1>3. Ready(u.todo, booked \cup u.fills)
  BY ReadyMore
<1>. QED
  BY <1>1, <1>2, <1>3 DEF Fitting, Lower, Budget

LEMMA AbortMoney ==
    ASSUME SessionsInv, MoneyInv, NEW s \in Sessions, NEW outcome \in Outcomes,
           Abort(s, outcome)
    PROVE  MoneyInv'
<1>. DEFINE u == [Fresh EXCEPT !.outcome = outcome]
<1>1. /\ txn' = [txn EXCEPT ![s] = u]
      /\ holder' = IF holder = s THEN Nobody ELSE holder
      /\ owner' = [o \in Orders |-> IF owner[o] = s THEN Nobody ELSE owner[o]]
      /\ UNCHANGED <<row, booked, balance>>
  BY DEF Abort, End
<1>2. u.fills = {} /\ u.at = "idle" /\ u.todo = <<>>
  BY DEF Fresh
<1>3. Ready(u.todo, booked)
  BY <1>2 DEF Ready, Orderly
<1>. HIDE DEF u
<1>4. Local(s, u)
  BY <1>1, Views DEF Local
<1>5. Mine(owner', s) = {}
  BY <1>1, Constants DEF Mine
<1>. QED
  BY <1>2, <1>3, <1>4, <1>5, EmptyMoney, MoneyLocal

LEMMA BeginMoney ==
    ASSUME SessionsInv, MoneyInv, NEW s \in Sessions, NEW plan \in Plans, Begin(s, plan)
    PROVE  MoneyInv'
<1>. DEFINE u == [Fresh EXCEPT !.at = "call", !.todo = plan]
<1>1. /\ txn' = [txn EXCEPT ![s] = u] /\ txn[s].at = "idle"
      /\ UNCHANGED <<row, booked, balance, holder, owner>>
  BY DEF Begin
<1>2. u.fills = {} /\ u.at = "call" /\ u.todo = plan
  BY DEF Fresh
<1>3. Ready(plan, {})
  BY AffordableAssumption DEF Ready
<1>4. Ready(u.todo, booked)
  BY <1>2, <1>3, ReadyMore
<1>. HIDE DEF u
<1>5. Local(s, u)
  BY <1>1, Views DEF Local
<1>6. Mine(owner', s) = {}
  BY <1>1 DEF SessionsInv, Sound
<1>. QED
  BY <1>2, <1>4, <1>5, <1>6, EmptyMoney, MoneyLocal

\* Without the lock a session holds, in its own view, no more than is committed.
LEMMA LowerBudget ==
    ASSUME SessionsInv, MoneyInv, NEW s \in Sessions, ~Needs(txn[s]),
           Lower(txn[s], row, Mine(owner, s))
    PROVE  Holds(ViewOf(txn[s], row, Mine(owner, s))) <= Equity - Spent(Counted(txn[s], booked))
<1>. DEFINE view == ViewOf(txn[s], row, Mine(owner, s))
<1>1. row \in [Orders -> Row] /\ view \in [Orders -> Row]
  BY Seen DEF SessionsInv, Committed, ViewOf
<1>2. \A o \in Orders : HoldOf(view[o]) <= HoldOf(row[o])
  <2>1. ASSUME NEW o \in Orders PROVE HoldOf(row[o]) <= HoldOf(row[o])
    BY <1>1, HoldType
  <2>. QED
    BY <2>1 DEF ViewOf, Lower
<1>. HIDE DEF view
<1>3. Holds(view) <= Holds(row) /\ Holds(view) \in Nat /\ Holds(row) \in Nat
  BY <1>1, <1>2, HoldsLess, HoldsType
<1>4. Counted(txn[s], booked) = booked
  BY DEF Needs, Counted, Pending
<1>5. Holds(row) <= balance /\ balance \in Nat /\ balance = Equity - Spent(booked)
  BY Constants DEF MoneyInv, SessionsInv, Committed
<1>. QED
  BY <1>3, <1>4, <1>5 DEF view
\* A statement that writes nothing, but may take the lock.
LEMMA QuietMoney ==
    ASSUME SessionsInv, MoneyInv, NEW s \in Sessions, NEW u, Quiet(s, u),
           Ready(u.todo, booked \cup txn[s].fills)
    PROVE  MoneyInv'
<1>. DEFINE t == txn[s]
            mine == Mine(owner, s)
<1>1. /\ u.draft = t.draft /\ u.fills = t.fills /\ u.at # "consume" /\ t.at # "consume"
      /\ owner' = owner /\ (holder' = holder \/ holder' = s)
  BY DEF Quiet
<1>2. Local(s, u)
  BY Views DEF Local, Quiet
<1>3. Fitting(u, booked, mine)
  BY <1>1 DEF Fitting, MoneyInv
<1>4. ViewOf(u, row, mine) = ViewOf(t, row, mine) /\ Counted(u, booked) = Counted(t, booked)
  BY <1>1 DEF ViewOf, Counted, Pending
<1>5. Holds(ViewOf(t, row, mine)) <= Equity - Spent(Counted(t, booked)) \/ holder' # s
  <2>1. CASE holder = s
    BY <2>1 DEF MoneyInv, Budget
  <2>2. CASE holder # s
    <3>1. ~Needs(t) /\ Lower(t, row, mine)
      BY <2>2, Views DEF MoneyInv
    <3>. QED
      BY <3>1, LowerBudget
  <2>. QED
    BY <2>1, <2>2
<1>6. holder' = s => Budget(u, row, booked, mine)
  BY <1>1, <1>4, <1>5 DEF Budget
<1>7. holder' # s => Lower(u, row, mine)
  BY <1>1 DEF Lower, MoneyInv
<1>8. Mine(owner', s) = mine
  BY <1>1
<1>. QED
  BY <1>2, <1>3, <1>6, <1>7, <1>8, MoneyLocal

\* A version of an order that its writer can afford.
Affords(s, o, r) ==
    /\ txn[s].at \in {"call", "reserve", "advance"} /\ txn[s].todo # <<>>
    /\ o \in Orders /\ r \in Row /\ Free(s, o) /\ Write(s, o, r)
    /\ Fits(o, r, booked \cup txn[s].fills)
    /\ This(s).kind = "fill" => This(s).fill \in booked \cup txn[s].fills
    /\ holder = s => Holds([ViewOf(txn[s], row, Mine(owner, s)) EXCEPT ![o] = r])
                        <= Equity - Spent(Counted(txn[s], booked))
    /\ holder # s => HoldOf(r) <= HoldOf(row[o])

LEMMA WriteMoney ==
    ASSUME SessionsInv, MoneyInv, NEW s \in Sessions, NEW o, NEW r, Affords(s, o, r)
    PROVE  MoneyInv'
<1>. USE DEF Affords
<1>. DEFINE t == txn[s]
            u == [t EXCEPT !.draft[o] = r, !.at = "call", !.todo = Tail(@)]
            mine == Mine(owner, s)
<1>1. /\ txn' = [txn EXCEPT ![s] = u] /\ UNCHANGED <<row, booked, balance, holder>>
      /\ owner' = [owner EXCEPT ![o] = s]
  BY Views DEF Write
<1>2. t \in Txn /\ mine \in SUBSET Orders /\ row \in [Orders -> Row]
  BY Views DEF Within, SessionsInv, Committed
<1>3. /\ u.at = "call" /\ u.todo = Tail(t.todo) /\ u.fills = t.fills
      /\ u.draft = [t.draft EXCEPT ![o] = r]
  BY <1>2 DEF Txn
<1>. HIDE DEF u
<1>4. Mine(owner', s) = mine \cup {o} /\ Local(s, u)
  BY <1>1, Views DEF Mine, Local, Free
<1>5. u.draft[o] = r /\ \A p \in Orders \ {o} : u.draft[p] = t.draft[p]
  BY <1>2, <1>3 DEF Txn
<1>6. Fitting(u, booked, mine \cup {o})
  <2>1. \A p \in mine \cup {o} : Fits(p, u.draft[p], booked \cup u.fills)
    BY <1>2, <1>3, <1>5 DEF MoneyInv, Fitting
  <2>2. Ready(t.todo, booked \cup t.fills) /\ t.todo \in Seq(Call)
    BY <1>2 DEF MoneyInv, Fitting, Txn
  <2>3. Ready(Tail(t.todo), booked \cup t.fills)
    BY <2>2, ReadyTail DEF This
  <2>. QED
    BY <1>3, <2>1, <2>3 DEF Fitting
<1>7. ViewOf(u, row, mine \cup {o}) = [ViewOf(t, row, mine) EXCEPT ![o] = r]
  <2>1. o \in Orders /\ r \in Row
    OBVIOUS
  <2>2. t.draft \in [Orders -> Row]
    BY <1>2 DEF Txn
  <2>. HIDE DEF t, mine, Affords
  <2>. QED
    BY <1>2, <1>3, <2>1, <2>2 DEF ViewOf
<1>8. Counted(u, booked) = Counted(t, booked)
  BY <1>3 DEF Counted, Pending
<1>9. holder = s => Budget(u, row, booked, mine \cup {o})
  BY <1>3, <1>7, <1>8 DEF Budget
<1>10. holder # s => Lower(u, row, mine \cup {o})
  <2>1. holder # s => Lower(t, row, mine)
    BY DEF MoneyInv
  <2>. QED
    BY <1>2, <1>5, <2>1 DEF Lower
<1>. QED
  BY <1>1, <1>4, <1>6, <1>9, <1>10, MoneyLocal

\* Keeping what is seen of an order, or moving it, costs nothing.
LEMMA KeptAffords ==
    ASSUME SessionsInv, MoneyInv, NEW s \in Sessions, NEW o \in Orders, NEW r \in Row,
           txn[s].at \in {"call", "advance"}, txn[s].todo # <<>>,
           Free(s, o), Write(s, o, r),
           HoldOf(r) <= HoldOf(Sees(s, o)),
           Fits(o, r, booked \cup txn[s].fills),
           This(s).kind = "fill" => This(s).fill \in booked \cup txn[s].fills
    PROVE  MoneyInv'
<1>. DEFINE t == txn[s]
            mine == Mine(owner, s)
            view == ViewOf(t, row, mine)
            left == Equity - Spent(Counted(t, booked))
<1>1. /\ t \in Txn /\ mine \in SUBSET Orders /\ row \in [Orders -> Row]
      /\ Within(t, row, booked, balance, mine)
  BY Views DEF Within, SessionsInv, Committed
<1>2. view \in [Orders -> Row] /\ view[o] = Sees(s, o)
  BY <1>1, Seen DEF ViewOf, Txn
<1>3. Spent(Counted(t, booked)) \in Nat /\ Equity \in Nat
  BY <1>1, CountedType, SpentType, Constants
<1>4. holder = s => Holds(view) <= left
  BY DEF MoneyInv, Budget
<1>5. holder # s => HoldOf(Sees(s, o)) <= HoldOf(row[o])
  <2>1. HoldOf(row[o]) <= HoldOf(row[o])
    BY <1>1, HoldType
  <2>. QED
    BY <2>1 DEF MoneyInv, Lower, Sees, Mine
<1>6. /\ HoldOf(r) \in Nat /\ HoldOf(view[o]) \in Nat /\ HoldOf(row[o]) \in Nat
      /\ Holds(view) \in Nat /\ left \in Int
  BY <1>1, <1>2, <1>3, HoldType, HoldsType
<1>7. Holds([view EXCEPT ![o] = r]) = Holds(view) - HoldOf(view[o]) + HoldOf(r)
  BY <1>2, HoldsWrite
<1>8. HoldOf(r) <= HoldOf(view[o])
  BY <1>2
<1>. HIDE DEF view, left
<1>9. holder = s => Holds([view EXCEPT ![o] = r]) <= left
  BY <1>4, <1>6, <1>7, <1>8
<1>10. holder # s => HoldOf(r) <= HoldOf(row[o])
  BY <1>2, <1>5, <1>6, <1>8
<1>11. Affords(s, o, r)
  BY <1>9, <1>10 DEF Affords, view, left
<1>. QED
  BY <1>11, WriteMoney

\* What a session sees of an order fits the order's fills.
LEMMA SeenFits ==
    ASSUME SessionsInv, MoneyInv, NEW s \in Sessions, NEW o \in Orders
    PROVE  Fits(o, Sees(s, o), booked \cup txn[s].fills)
<1>1. CASE owner[o] = s
  BY <1>1 DEF Sees, MoneyInv, Fitting, Mine
<1>2. CASE owner[o] # s
  BY <1>2 DEF Sees, MoneyInv, Fits
<1>. QED
  BY <1>1, <1>2

\* A legal move holds no more, and fits unless it makes an order FILLED early.
LEMMA MovedFits ==
    ASSUME NEW o, NEW v \in Row, NEW have, Fits(o, v, have), NEW to, MayMove(v.status, to),
           to = "FILLED" => Of(o, Fills) \subseteq have
    PROVE  /\ Moved(v, to) \in Row /\ Fits(o, Moved(v, to), have)
           /\ HoldOf(Moved(v, to)) <= HoldOf(v)
<1>1. /\ v.status \in OpenStatuses /\ to \in Statuses /\ v.status # "none"
  BY DEF MayMove, TransitionAllowed, OpenStatuses, Statuses
<1>. DEFINE left == IF to \in OpenStatuses THEN v.reserved ELSE 0
<1>2. left \in 0..Equity /\ v.reserved \in 0..Equity /\ left <= v.reserved
  BY Constants DEF Row
<1>3. Moved(v, to) = [v EXCEPT !.status = to, !.reserved = left]
  BY DEF Moved
<1>4. to \in OpenStatuses \/ left = 0
  OBVIOUS
<1>. HIDE DEF left
<1>5. /\ Moved(v, to) \in Row /\ Moved(v, to).status = to
      /\ Moved(v, to).granted = v.granted /\ Moved(v, to).reserved = left
  BY <1>1, <1>2, <1>3 DEF Row
<1>6. HoldOf(Moved(v, to)) <= HoldOf(v)
  BY <1>1, <1>2, <1>4, <1>5 DEF HoldOf
<1>. QED
  BY <1>1, <1>5, <1>6 DEF Fits

LEMMA SkipMoney ==
    ASSUME SessionsInv, MoneyInv, NEW s \in Sessions, Skips(s)
    PROVE  MoneyInv'
<1>. DEFINE t == txn[s]
            have == booked \cup t.fills
<1>1. PICK u : /\ Quiet(s, u)
               /\ \/ u.todo = t.todo
                  \/ /\ u.todo = Tail(t.todo)
                     /\ This(s).kind = "fill" => This(s).fill \in have
  BY DEF Skips
<1>2. Ready(t.todo, have) /\ t.todo \in Seq(Call) /\ t.todo # <<>>
  BY Views DEF MoneyInv, Fitting, Txn, Skips
<1>3. Ready(u.todo, have)
  BY <1>1, <1>2, ReadyTail DEF This
<1>. QED
  BY <1>1, <1>3, QuietMoney

LEMMA KeepMoney ==
    ASSUME SessionsInv, MoneyInv, NEW s \in Sessions, NEW o \in Orders, Keeps(s, o)
    PROVE  MoneyInv'
<1>. DEFINE t == txn[s]
            v == Sees(s, o)
            have == booked \cup t.fills
<1>0. /\ t.at \in {"call", "advance"} /\ t.todo # <<>> /\ Free(s, o)
      /\ This(s).kind = "fill" => This(s).fill \in have
  BY DEF Keeps
<1>1. v \in Row /\ Fits(o, v, have)
  BY Seen, SeenFits
<1>2. CASE Write(s, o, v)
  <2>1. HoldOf(v) <= HoldOf(v)
    BY <1>1, HoldType
  <2>. QED
    BY <1>0, <1>1, <1>2, <2>1, KeptAffords
<1>3. ASSUME NEW to, MayMove(v.status, to), Write(s, o, Moved(v, to)),
             to = "FILLED" => \/ This(s).kind = "move" /\ This(s).to = to
                              \/ This(s).kind = "fill" /\ Fill(s).last /\ Fill(s).order = o
      PROVE  MoneyInv'
  <2>1. Ready(t.todo, have) /\ t.todo \in Seq(Call)
    BY Views DEF MoneyInv, Fitting, Txn
  <2>2. 1 \in DOMAIN t.todo /\ t.todo[1] = This(s)
    BY <1>0, <2>1 DEF This
  <2>3. to = "FILLED" => Of(o, Fills) \subseteq have
    <3>. SUFFICES ASSUME to = "FILLED", NEW g \in Of(o, Fills), g \notin have
                  PROVE  FALSE
      OBVIOUS
    <3>1. This(s).kind = "fill" /\ Fill(s).last /\ Fill(s).order = o
      BY <1>3, <2>1, <2>2 DEF Ready
    <3>2. PICK j \in 1..1 : t.todo[j].kind = "fill" /\ t.todo[j].fill = g
      BY <2>1, <2>2, <3>1 DEF Ready, Orderly, Fill
    <3>. QED
      BY <1>0, <2>2, <3>2
  <2>4. /\ Moved(v, to) \in Row /\ Fits(o, Moved(v, to), have)
        /\ HoldOf(Moved(v, to)) <= HoldOf(v)
    BY <1>1, <1>3, <2>3, MovedFits
  <2>. QED
    BY <1>0, <1>3, <2>4, KeptAffords
<1>. QED
  BY <1>2, <1>3 DEF Keeps
LEMMA ReserveMoney ==
    ASSUME SessionsInv, MoneyInv, NEW s \in Sessions, Reserve(s)
    PROVE  MoneyInv'
<1>. DEFINE t == txn[s]
            o == Head(t.todo).order
            n == Head(t.todo).usd
            r == [status |-> "PROPOSED", granted |-> n, reserved |-> n]
            mine == Mine(owner, s)
            view == ViewOf(t, row, mine)
            have == booked \cup t.fills
            left == Equity - Spent(Counted(t, booked))
<1>1. t \in Txn /\ Shape(t) /\ Within(t, row, booked, balance, mine)
  BY Views DEF Within, Sound
<1>2. t.at = "reserve" /\ t.todo # <<>> /\ Head(t.todo).kind = "buy"
  BY <1>1 DEF Reserve, Shape, Busy, Steps
<1>3. o \in Orders /\ n \in 1..Equity /\ Subject(s) = o /\ This(s) = Head(t.todo)
  BY <1>1, <1>2, CallType DEF Subject, This
<1>4. CASE n <= Available(s) /\ Sees(s, o) = NoRow /\ Free(s, o) /\ Write(s, o, r)
  <2>1. r \in Row /\ r.status = "PROPOSED" /\ r.granted = n /\ r.reserved = n
    BY <1>3, Constants DEF Row, Statuses
  <2>2. Fits(o, r, have)
    <3>1. Ready(t.todo, have) /\ t.todo \in Seq(Call)
      BY <1>1 DEF MoneyInv, Fitting, Txn
    <3>2. 1 \in DOMAIN t.todo /\ t.todo[1] = Head(t.todo)
      BY <1>2, <3>1
    <3>3. Spent(Of(o, Fills)) <= n
      BY <1>2, <3>1, <3>2 DEF Ready
    <3>. HIDE DEF r
    <3>. QED
      BY <2>1, <3>3 DEF Fits
  <2>3. view \in [Orders -> Row] /\ view[o] = NoRow /\ \A p \in Orders : view[p] = Sees(s, p)
    BY <1>3, <1>4, Seen DEF ViewOf
  <2>4. HoldOf(r) = n /\ HoldOf(view[o]) = 0
    BY <2>1, <2>3 DEF HoldOf, OpenStatuses, NoRow
  <2>5. Holds([view EXCEPT ![o] = r]) = Holds(view) - HoldOf(view[o]) + HoldOf(r)
    BY <1>3, <2>1, <2>3, HoldsWrite
  <2>6. [p \in Orders |-> HoldOf(Sees(s, p))] = [p \in Orders |-> HoldOf(view[p])]
    BY <2>3
  <2>7. Available(s) = SeesBalance(s) - Holds(view)
    BY <2>6 DEF Available, Holds
  <2>8. SeesBalance(s) = left /\ left \in Int
    <3>1. SeesBalance(s) = Equity - Spent(Paid(t, booked)) /\ SeesBalance(s) \in 0..Equity
      BY <1>1, SeenCash, Views
    <3>2. Paid(t, booked) = Counted(t, booked)
      BY <1>2 DEF Paid, Counted, Pending
    <3>. QED
      BY <3>1, <3>2
  <2>9. Holds(view) \in Nat
    BY <2>3, HoldsType
  <2>10. Holds([view EXCEPT ![o] = r]) <= left
    <3>. HIDE DEF view, left, n, r
    <3>. QED
      BY <1>3, <1>4, <2>4, <2>5, <2>7, <2>8, <2>9
  <2>11. holder = s
    BY <1>2, Views DEF Needs
  <2>. HIDE DEF r, o
  <2>12. Affords(s, o, r)
    BY <1>2, <1>3, <1>4, <2>1, <2>2, <2>10, <2>11 DEF Affords
  <2>. QED
    BY <2>12, WriteMoney
<1>5. CASE Abort(s, "refused") \/ Abort(s, "unique")
  BY <1>5, AbortMoney DEF Outcomes
<1>. QED
  BY <1>3, <1>4, <1>5 DEF Reserve

\* A fill that may be booked fits what is still held for it.
LEMMA FillFits ==
    ASSUME NEW t, NEW rows, NEW done, NEW bal, NEW mine, Within(t, rows, done, bal, mine),
           t.at = "book", NEW f \in Fills, f \notin done \cup t.fills,
           NEW v, v = ViewOf(t, rows, mine)[FillOf[f].order],
           v.status \in FillStatuses, Fits(FillOf[f].order, v, done \cup t.fills)
    PROVE  Cost(f) <= HoldOf(v)
<1>. DEFINE o == FillOf[f].order
            before == Of(o, Counted(t, done))
<1>1. v \in Row /\ Explained(o, v, Counted(t, done), done \cup t.fills) /\ o \in Orders
  BY SeenExplained, FillType
<1>2. v.status # "FILLED"
  BY DEF Fits, Of
<1>3. v.status \in OpenStatuses /\ v.status # "none"
  BY <1>2 DEF FillStatuses, OpenStatuses
<1>4. Counted(t, done) = done \cup t.fills
  BY DEF Counted, Pending
<1>5. /\ before \in SUBSET Fills /\ f \notin before
      /\ before \cup {f} \in SUBSET Of(o, Fills) /\ Of(o, Fills) \in SUBSET Fills
  <2>1. Counted(t, done) \in SUBSET Fills
    BY CountedType
  <2>. QED
    BY <1>4, <2>1 DEF Of
<1>6. v.reserved = Left(v.granted, Spent(before)) /\ Spent(Of(o, Fills)) <= v.granted
  BY <1>1, <1>3 DEF Explained, Fits
<1>. HIDE DEF before, o
<1>7. /\ Spent(before \cup {f}) = Spent(before) + Cost(f) /\ Spent(before) \in Nat
      /\ Spent(before \cup {f}) <= Spent(Of(o, Fills)) /\ Spent(Of(o, Fills)) \in Nat
  BY <1>5, SpentAdd, SpentMore, SpentType
<1>8. Cost(f) \in Nat /\ v.granted \in Nat
  BY <1>1, FillType, Constants DEF Row
<1>9. Cost(f) <= Left(v.granted, Spent(before))
  BY <1>6, <1>7, <1>8 DEF Left
<1>. QED
  BY <1>3, <1>6, <1>9 DEF HoldOf

LEMMA BookMoney ==
    ASSUME SessionsInv, MoneyInv, NEW s \in Sessions, BookFill(s)
    PROVE  MoneyInv'
<1>. DEFINE t == txn[s]
            f == Head(t.todo).fill
            o == FillOf[f].order
            mine == Mine(owner, s)
            view == ViewOf(t, row, mine)
            left == Equity - Spent(Counted(t, booked))
            u == [t EXCEPT !.fills = @ \cup {f}, !.at = "consume"]
<1>1. t \in Txn /\ Shape(t) /\ Within(t, row, booked, balance, mine)
  BY Views DEF Within, Sound
<1>2. t.at = "book" /\ t.todo # <<>> /\ Head(t.todo).kind = "fill" /\ f \notin t.fills
  BY <1>1 DEF BookFill, Shape, Busy, Steps, Booking
<1>3. f \in Fills /\ o \in Orders /\ Subject(s) = o /\ This(s).fill = f
  BY <1>1, <1>2, CallType, FillType DEF Subject, Fill, This
<1>4. CASE /\ Sees(s, Subject(s)).status \in FillStatuses /\ f \notin booked
           /\ txn' = [txn EXCEPT ![s].fills = @ \cup {f}, ![s].at = "consume"]
           /\ UNCHANGED <<row, booked, balance, holder, owner>>
  <2>0. txn' = [txn EXCEPT ![s] = u]
    BY <1>4, Views
  <2>1. Local(s, u)
    BY <1>4, <2>0, Views DEF Local
  <2>2. holder' = s /\ holder = s /\ Mine(owner', s) = mine
    BY <1>2, <1>4, Views DEF Needs
  <2>3. /\ u.at = "consume" /\ u.todo = t.todo /\ u.fills = t.fills \cup {f}
        /\ u.draft = t.draft
    BY <1>1 DEF Txn
  <2>4. Fitting(u, booked, mine)
    <3>1. Fitting(t, booked, mine)
      BY DEF MoneyInv
    <3>2. Ready(u.todo, booked \cup u.fills)
      BY <2>3, <3>1, ReadyMore DEF Fitting
    <3>. HIDE DEF u, t
    <3>. QED
      BY <2>3, <3>1, <3>2 DEF Fitting, Fits
  <2>5. view \in [Orders -> Row] /\ view[o] = Sees(s, o)
    BY <1>3, Seen DEF ViewOf
  <2>6. Cost(f) <= HoldOf(view[o])
    <3>1. Fits(o, view[o], booked \cup t.fills)
      BY <1>3, <2>5, SeenFits
    <3>2. view[o].status \in FillStatuses
      BY <1>3, <1>4, <2>5
    <3>. QED
      BY <1>1, <1>2, <1>3, <1>4, <3>1, <3>2, FillFits
  <2>7. Counted(u, booked) = Counted(t, booked)
    BY <1>2, <1>4, <2>3 DEF Counted, Pending
  <2>8. ViewOf(u, row, mine) = view
    BY <2>3 DEF ViewOf
  <2>9. Holds(view) <= left /\ Holds(view) \in Nat /\ left \in Int
    <3>1. Holds(view) <= left
      BY <2>2 DEF MoneyInv, Budget
    <3>2. Spent(Counted(t, booked)) \in Nat /\ Equity \in Nat
      BY <1>1, CountedType, SpentType, Constants
    <3>. QED
      BY <2>5, <3>1, <3>2, HoldsType
  <2>10. Holds([view EXCEPT ![o] = NoRow]) + Cost(f) <= left
    <3>1. NoRow \in Row /\ HoldOf(NoRow) = 0
      BY Constants DEF NoRow, Row, Statuses, HoldOf, OpenStatuses
    <3>2. view \in [Orders -> Row] /\ view[o] \in Row /\ f \in Fills /\ o \in Orders
      BY <1>3, <2>5
    <3>. HIDE DEF view, left, f, o
    <3>3. Holds([view EXCEPT ![o] = NoRow]) = Holds(view) - HoldOf(view[o]) + HoldOf(NoRow)
      BY ONLY <3>1, <3>2, HoldsWrite
    <3>4. HoldOf(view[o]) \in Nat /\ Cost(f) \in Nat
      BY <3>2, HoldType, FillType
    <3>. QED
      BY <2>6, <2>9, <3>1, <3>3, <3>4
  <2>11. Budget(u, row, booked, mine)
    <3>1. Head(u.todo).fill = f
      BY <2>3
    <3>. HIDE DEF u, f
    <3>. QED
      BY <2>7, <2>8, <2>9, <2>10, <3>1 DEF Budget
  <2>. HIDE DEF u
  <2>. QED
    BY <2>1, <2>2, <2>4, <2>11, MoneyLocal
<1>5. CASE Abort(s, "inactive") \/ Abort(s, "unique")
  BY <1>5, AbortMoney DEF Outcomes
<1>. QED
  BY <1>3, <1>4, <1>5 DEF BookFill

LEMMA PayMoney ==
    ASSUME SessionsInv, MoneyInv, NEW s \in Sessions, Pay(s)
    PROVE  MoneyInv'
<1>. DEFINE t == txn[s]
            mine == Mine(owner, s)
            cash == SeesBalance(s) - Fill(s).usd
            u == [t EXCEPT !.at = "advance", !.paid = TRUE, !.cash = cash]
<1>1. t \in Txn /\ t.at = "pay"
  BY Views DEF Pay
<1>2. CASE /\ txn' = [txn EXCEPT ![s].at = "advance", ![s].paid = TRUE, ![s].cash = cash]
           /\ UNCHANGED <<row, booked, balance, holder, owner>>
  <2>0. txn' = [txn EXCEPT ![s] = u]
    BY <1>2, Views
  <2>1. Local(s, u)
    BY <1>2, <2>0, Views DEF Local
  <2>2. holder' = s /\ holder = s /\ Mine(owner', s) = mine
    BY <1>1, <1>2, Views DEF Needs
  <2>3. u.at = "advance" /\ u.todo = t.todo /\ u.fills = t.fills /\ u.draft = t.draft
    BY <1>1 DEF Txn
  <2>. HIDE DEF u
  <2>4. Fitting(u, booked, mine)
    BY <2>3 DEF MoneyInv, Fitting
  <2>5. Counted(u, booked) = Counted(t, booked) /\ ViewOf(u, row, mine) = ViewOf(t, row, mine)
    BY <1>1, <2>3 DEF Counted, Pending, ViewOf
  <2>6. Budget(u, row, booked, mine)
    BY <2>2, <2>3, <2>5 DEF MoneyInv, Budget
  <2>. QED
    BY <2>1, <2>2, <2>4, <2>6, MoneyLocal
<1>3. CASE Abort(s, "overdrawn")
  BY <1>3, AbortMoney DEF Outcomes
<1>. QED
  BY <1>2, <1>3 DEF Pay

\* A consumed reservation pays for its fill, or there was room for the fill.
LEMMA ConsumeFits ==
    ASSUME NEW view \in [Orders -> Row], NEW o \in Orders, NEW f \in Fills, NEW r \in Row,
           r.status = view[o].status, r.reserved = Left(view[o].reserved, FillOf[f].usd),
           NEW left \in Int, Holds(view) <= left,
           Holds([view EXCEPT ![o] = NoRow]) + Cost(f) <= left
    PROVE  Holds([view EXCEPT ![o] = r]) <= left - Cost(f)
<1>1. NoRow \in Row /\ HoldOf(NoRow) = 0
  BY Constants DEF NoRow, Row, Statuses, HoldOf, OpenStatuses
<1>2. /\ Holds([view EXCEPT ![o] = NoRow]) = Holds(view) - HoldOf(view[o]) + HoldOf(NoRow)
      /\ Holds([view EXCEPT ![o] = r]) = Holds(view) - HoldOf(view[o]) + HoldOf(r)
  <2>1. Holds([view EXCEPT ![o] = NoRow]) = Holds(view) - HoldOf(view[o]) + HoldOf(NoRow)
    BY <1>1, HoldsWrite, ZenonT(60)
  <2>2. Holds([view EXCEPT ![o] = r]) = Holds(view) - HoldOf(view[o]) + HoldOf(r)
    BY HoldsWrite, ZenonT(60)
  <2>. QED
    BY <2>1, <2>2
<1>3. Holds(view) \in Nat /\ HoldOf(view[o]) \in Nat /\ Cost(f) \in Nat
  BY HoldsType, HoldType, FillType
<1>4. HoldOf(r) = 0 \/ HoldOf(r) = HoldOf(view[o]) - Cost(f)
  <2>1. view[o].reserved \in 0..Equity /\ FillOf[f].usd \in Nat /\ Equity \in Nat
    BY Constants DEF Row
  <2>. QED
    BY <2>1 DEF HoldOf, Left, Cost
<1>. DEFINE a == Holds([view EXCEPT ![o] = NoRow])
            b == Holds([view EXCEPT ![o] = r])
<1>5. a + Cost(f) <= left /\ a = Holds(view) - HoldOf(view[o]) + HoldOf(NoRow)
  BY <1>2
<1>6. b = Holds(view) - HoldOf(view[o]) + HoldOf(r)
  BY <1>2
<1>. HIDE DEF a, b
<1>7. b <= left - Cost(f)
  BY <1>1, <1>3, <1>4, <1>5, <1>6
<1>. QED
  BY <1>7 DEF b

LEMMA ConsumeMoney ==
    ASSUME SessionsInv, MoneyInv, NEW s \in Sessions, ConsumeReservation(s)
    PROVE  MoneyInv'
<1>. DEFINE t == txn[s]
            f == Head(t.todo).fill
            o == FillOf[f].order
            mine == Mine(owner, s)
            v == ViewOf(t, row, mine)[o]
            r == [v EXCEPT !.reserved = Left(@, FillOf[f].usd)]
            u == [t EXCEPT !.at = "pay", !.draft[o] = r]
<1>1. t \in Txn /\ Shape(t) /\ Within(t, row, booked, balance, mine)
  BY Views DEF Within, Sound
<1>2. t.at = "consume" /\ t.todo # <<>> /\ Head(t.todo).kind = "fill"
  BY <1>1 DEF ConsumeReservation, Shape, Busy, Steps, Booking
<1>3. f \in Fills /\ o \in Orders /\ Subject(s) = o /\ Sees(s, o) = v
  BY <1>1, <1>2, CallType, FillType, Views DEF Subject, Fill, This
<1>4. /\ Free(s, o) /\ owner' = [owner EXCEPT ![o] = s]
      /\ txn' = [txn EXCEPT ![s] = u]
      /\ UNCHANGED <<row, booked, balance, holder>>
  <2>1. /\ Free(s, o) /\ owner' = [owner EXCEPT ![o] = s]
        /\ txn' = [txn EXCEPT ![s].at = "pay", ![s].draft[o] = r]
        /\ UNCHANGED <<row, booked, balance, holder>>
    BY <1>3 DEF ConsumeReservation, Fill, This, Left
  <2>. QED
    BY <2>1, Views
<1>5. Local(s, u)
  BY <1>3, <1>4, Views DEF Local, Free
<1>6. Mine(owner', s) = mine \cup {o}
  BY <1>3, <1>4, Views DEF Mine
<1>7. holder = s /\ holder' = s
  BY <1>2, <1>4, Views DEF Needs
<1>8. r \in Row
  <2>1. Consumes(t, row, booked, balance, mine, f, o, v, r, u)
    BY <1>1, <1>2, <1>3 DEF Consumes
  <2>. HIDE DEF t, f, o, mine, v, r, u
  <2>. QED
    BY <2>1, ConsumeSound
<1>. DEFINE view == ViewOf(t, row, mine)
            left == Equity - Spent(Counted(t, booked))
<1>9. /\ view \in [Orders -> Row] /\ view[o] = v /\ v \in Row
      /\ Fits(o, v, booked \cup t.fills)
  <2>1. view \in [Orders -> Row] /\ view[o] = v
    BY Seen DEF ViewOf
  <2>2. v \in Row /\ Fits(o, v, booked \cup t.fills)
    BY <1>3, Seen, SeenFits
  <2>. HIDE DEF view, v
  <2>. QED
    BY <2>1, <2>2
<1>10. /\ r.status = v.status /\ r.granted = v.granted
       /\ r.reserved = Left(v.reserved, FillOf[f].usd)
  BY <1>9 DEF Row
<1>11. /\ u.at = "pay" /\ u.todo = t.todo /\ u.fills = t.fills
       /\ u.draft = [t.draft EXCEPT ![o] = r] /\ t.draft \in [Orders -> Row]
  BY <1>1 DEF Txn
<1>12. f \in t.fills /\ f \notin booked
  BY <1>1, <1>2 DEF Within, Sound, Shape, Booking
<1>13. Counted(u, booked) = Counted(t, booked) \cup {f} /\ f \notin Counted(t, booked)
  BY <1>2, <1>11, <1>12 DEF Counted, Pending
<1>14. /\ Spent(Counted(u, booked)) = Spent(Counted(t, booked)) + Cost(f)
       /\ Spent(Counted(t, booked)) \in Nat /\ Equity \in Nat /\ Cost(f) \in Nat
  <2>1. Counted(t, booked) \in SUBSET Fills
    BY <1>1, CountedType
  <2>. HIDE DEF t, f
  <2>2. Spent(Counted(t, booked) \cup {f}) = Spent(Counted(t, booked)) + Cost(f)
    BY <1>3, <1>13, <2>1, SpentAdd
  <2>. QED
    BY <1>3, <1>13, <2>1, <2>2, SpentType, Constants, FillType
<1>15. Holds(view) <= left /\ Holds([view EXCEPT ![o] = NoRow]) + Cost(f) <= left
  BY <1>2, <1>7 DEF MoneyInv, Budget
<1>16. Holds([view EXCEPT ![o] = r]) <= left - Cost(f)
  <2>1. left \in Int
    <3>1. Spent(Counted(t, booked)) \in Nat /\ Equity \in Nat
      BY <1>14, Zenon
    <3>. QED
      BY ONLY <3>1
  <2>2. r.status = view[o].status /\ r.reserved = Left(view[o].reserved, FillOf[f].usd)
    BY <1>9, <1>10
  <2>. HIDE DEF left, view, r, f, o
  <2>. QED
    BY <1>3, <1>8, <1>9, <1>15, <2>1, <2>2, ConsumeFits
<1>. HIDE DEF u, r, v
<1>17. ViewOf(u, row, mine \cup {o}) = [view EXCEPT ![o] = r]
  <2>1. row \in [Orders -> Row] /\ mine \in SUBSET Orders
    BY <1>1 DEF Within, Committed
  <2>2. o \in Orders /\ r \in Row
    BY <1>3, <1>8
  <2>3. u.draft = [t.draft EXCEPT ![o] = r] /\ t.draft \in [Orders -> Row]
    BY <1>11
  <2>. HIDE DEF t, mine, o
  <2>. QED
    BY <2>1, <2>2, <2>3 DEF ViewOf
<1>18. Fitting(u, booked, mine \cup {o})
  <2>1. Fitting(t, booked, mine)
    BY DEF MoneyInv
  <2>2. Fits(o, r, booked \cup t.fills)
    BY <1>9, <1>10 DEF Fits
  <2>3. u.draft[o] = r /\ \A p \in Orders \ {o} : u.draft[p] = t.draft[p]
    BY <1>3, <1>11
  <2>4. mine \in SUBSET Orders /\ u.fills = t.fills /\ u.todo = t.todo
    BY <1>1, <1>11 DEF Within
  <2>. HIDE DEF t, mine, o
  <2>5. ASSUME NEW p \in mine \cup {o} PROVE Fits(p, u.draft[p], booked \cup u.fills)
    BY <2>1, <2>2, <2>3, <2>4 DEF Fitting
  <2>. QED
    BY <2>1, <2>4, <2>5 DEF Fitting
<1>19. Budget(u, row, booked, mine \cup {o})
  <2>1. Holds([view EXCEPT ![o] = r]) <= Equity - Spent(Counted(u, booked))
    <3>. DEFINE w == Holds([view EXCEPT ![o] = r])
                c == Spent(Counted(t, booked))
                d == Spent(Counted(u, booked))
    <3>1. w <= (Equity - c) - Cost(f) /\ d = c + Cost(f)
      BY <1>14, <1>16
    <3>2. w \in Nat /\ c \in Nat /\ d \in Nat
      <4>1. [view EXCEPT ![o] = r] \in [Orders -> Row]
        BY <1>8, <1>9
      <4>2. w \in Nat
        BY <4>1, HoldsType
      <4>. QED
        BY <1>14, <4>2
    <3>. HIDE DEF w, c, d
    <3>3. w <= Equity - d
      BY <1>14, <3>1, <3>2
    <3>. QED
      BY <3>3 DEF w, d
  <2>. QED
    BY <1>11, <1>17, <2>1 DEF Budget
<1>. HIDE DEF t, mine, o
<1>. QED
  BY <1>5, <1>6, <1>7, <1>18, <1>19, MoneyLocal

\* A budget survives rows that hold less.
LEMMA BudgetLess ==
    ASSUME NEW w \in Txn, Shape(w), NEW others \in SUBSET Orders,
           NEW rows \in [Orders -> Row], NEW after \in [Orders -> Row], NEW done,
           Counted(w, done) \in SUBSET Fills,
           \A o \in Orders : HoldOf(after[o]) <= HoldOf(rows[o]),
           Budget(w, rows, done, others)
    PROVE  Budget(w, after, done, others)
<1>. DEFINE old == ViewOf(w, rows, others)
            new == ViewOf(w, after, others)
            left == Equity - Spent(Counted(w, done))
<1>1. w.draft \in [Orders -> Row]
  BY DEF Txn
<1>2. old \in [Orders -> Row] /\ new \in [Orders -> Row]
  BY <1>1 DEF ViewOf
<1>3. \A o \in Orders : HoldOf(new[o]) <= HoldOf(old[o])
  <2>1. ASSUME NEW o \in Orders PROVE HoldOf(w.draft[o]) <= HoldOf(w.draft[o])
    BY <1>1, HoldType
  <2>. QED
    BY <2>1 DEF ViewOf
<1>4. Spent(Counted(w, done)) \in Nat /\ Equity \in Nat
  BY SpentType, Constants
<1>5. left \in Int
  BY <1>4
<1>6. Holds(old) <= left
  BY DEF Budget
<1>. HIDE DEF old, new, left
<1>7. Holds(new) <= left
  <2>1. Holds(new) <= Holds(old) /\ Holds(new) \in Nat /\ Holds(old) \in Nat
    BY <1>2, <1>3, HoldsLess, HoldsType
  <2>. QED
    BY <1>5, <1>6, <2>1
<1>8. ASSUME w.at = "consume"
      PROVE  LET f == Head(w.todo).fill
             IN  Holds([new EXCEPT ![FillOf[f].order] = NoRow]) + Cost(f) <= left
  <2>. DEFINE f == Head(w.todo).fill
              p == FillOf[f].order
              a == [old EXCEPT ![p] = NoRow]
              b == [new EXCEPT ![p] = NoRow]
  <2>1. w.todo # <<>> /\ Head(w.todo).kind = "fill"
    BY <1>8 DEF Shape, Busy, Steps, Booking
  <2>2. f \in Fills
    BY <2>1, CallType
  <2>3. p \in Orders /\ Cost(f) \in Nat
    BY <2>2, FillType
  <2>4. Holds(a) + Cost(f) <= left
    BY <1>8 DEF Budget, old, left
  <2>. HIDE DEF f, p
  <2>5. NoRow \in Row /\ HoldOf(NoRow) <= HoldOf(NoRow)
    BY Constants DEF NoRow, Row, Statuses, HoldOf, OpenStatuses
  <2>6. /\ a \in [Orders -> Row] /\ b \in [Orders -> Row]
        /\ a[p] = NoRow /\ b[p] = NoRow
        /\ \A o \in Orders \ {p} : a[o] = old[o] /\ b[o] = new[o]
    BY <1>2, <2>3, <2>5
  <2>. HIDE DEF a, b
  <2>7. \A o \in Orders : HoldOf(b[o]) <= HoldOf(a[o])
    BY <1>3, <2>5, <2>6
  <2>8. Holds(b) <= Holds(a) /\ Holds(b) \in Nat /\ Holds(a) \in Nat
    BY <2>6, <2>7, HoldsLess, HoldsType
  <2>9. Holds(b) + Cost(f) <= left
    BY <1>5, <2>3, <2>4, <2>8
  <2>. QED
    BY <2>9 DEF a, b, f, p
<1>. QED
  BY <1>7, <1>8 DEF Budget, new, left

LEMMA CommitMoney ==
    ASSUME SessionsInv, MoneyInv, NEW s \in Sessions, Commit(s)
    PROVE  MoneyInv'
<1>. DEFINE t == txn[s]
            mine == Mine(owner, s)
            have == booked \cup t.fills
            view == ViewOf(t, row, mine)
            u == [Fresh EXCEPT !.outcome = "committed"]
<1>1. /\ Within(t, row, booked, balance, mine) /\ t.at = "call"
      /\ row' = view /\ booked' = have
  BY Views DEF Commit, ViewOf
<1>2. /\ txn' = [txn EXCEPT ![s] = u]
      /\ holder' = IF holder = s THEN Nobody ELSE holder
      /\ owner' = [o \in Orders |-> IF owner[o] = s THEN Nobody ELSE owner[o]]
  BY DEF Commit, End
<1>3. Counted(t, booked) = have
  BY <1>1 DEF Counted, Pending
<1>4. Holds(row') <= balance'
  <2>1. Holds(view) <= Equity - Spent(Counted(t, booked))
    <3>1. CASE holder = s
      BY <3>1 DEF MoneyInv, Budget
    <3>2. CASE holder # s
      <4>1. ~Needs(t) /\ Lower(t, row, mine)
        BY <3>2, Views DEF MoneyInv
      <4>. QED
        BY <4>1, LowerBudget
    <3>. QED
      BY <3>1, <3>2
  <2>2. balance' = Equity - Spent(booked')
    BY CommitStep DEF SessionsInv, Committed
  <2>. HIDE DEF view, t, mine, u
  <2>. QED
    BY <1>1, <1>3, <2>1, <2>2
<1>5. \A o \in Orders : Fits(o, row'[o], booked')
  <2>1. ASSUME NEW o \in Orders PROVE Fits(o, view[o], have)
    BY Seen, SeenFits
  <2>. QED
    BY <1>1, <2>1
<1>6. u.fills = {} /\ u.at = "idle" /\ u.todo = <<>>
  BY DEF Fresh
<1>. HIDE DEF u
<1>7. txn'[s] = u /\ \A v \in Sessions \ {s} : txn'[v] = txn[v]
  BY <1>2, Views
<1>8. Mine(owner', s) = {} /\ \A v \in Sessions \ {s} : Mine(owner', v) = Mine(owner, v)
  BY <1>2, Constants DEF Mine
<1>9. holder' # s /\ \A v \in Sessions \ {s} : holder' = v <=> holder = v
  BY <1>2, Constants
<1>10. ASSUME NEW v \in Sessions \ {s}
       PROVE  Fitting(txn[v], booked', Mine(owner, v))
  <2>1. Fitting(txn[v], booked, Mine(owner, v))
    BY DEF MoneyInv
  <2>2. booked \cup txn[v].fills \subseteq booked' \cup txn[v].fills
    BY <1>1
  <2>3. Ready(txn[v].todo, booked' \cup txn[v].fills)
    BY <2>1, <2>2, ReadyMore DEF Fitting
  <2>. QED
    BY <2>1, <2>2, <2>3 DEF Fitting, Fits
<1>11. ASSUME NEW v \in Sessions \ {s}, holder = v
       PROVE  Budget(txn[v], row', booked', Mine(owner, v))
  <2>1. ~Needs(t) /\ Lower(t, row, mine)
    BY <1>11, Views DEF MoneyInv
  <2>2. booked' = booked
    BY <1>1, <2>1 DEF Needs
  <2>3. row \in [Orders -> Row] /\ view \in [Orders -> Row]
    BY Seen DEF SessionsInv, Committed, ViewOf
  <2>4. \A o \in Orders : HoldOf(view[o]) <= HoldOf(row[o])
    <3>1. ASSUME NEW o \in Orders PROVE HoldOf(row[o]) <= HoldOf(row[o])
      BY <2>3, HoldType
    <3>. QED
      BY <2>1, <3>1 DEF ViewOf, Lower
  <2>5. /\ txn[v] \in Txn /\ Shape(txn[v]) /\ Counted(txn[v], booked) \in SUBSET Fills
    <3>1. Within(txn[v], row, booked, balance, Mine(owner, v))
      BY Views
    <3>2. Counted(txn[v], booked) \in SUBSET Fills
      BY <3>1, CountedType
    <3>. QED
      BY <3>1, <3>2, Views DEF Within, Sound
  <2>6. Budget(txn[v], row, booked, Mine(owner, v)) /\ Mine(owner, v) \in SUBSET Orders
    BY <1>11 DEF MoneyInv, Mine
  <2>. HIDE DEF view
  <2>7. Budget(txn[v], view, booked, Mine(owner, v))
    BY <2>3, <2>4, <2>5, <2>6, BudgetLess
  <2>. QED
    BY <1>1, <2>2, <2>7
<1>12. ASSUME NEW v \in Sessions \ {s}, holder # v
       PROVE  Lower(txn[v], row', Mine(owner, v))
  <2>1. \A o \in Mine(owner, v) : row'[o] = row[o]
    BY <1>1 DEF ViewOf, Mine
  <2>. QED
    BY <1>12, <2>1 DEF MoneyInv, Lower
<1>13. Fitting(u, booked', {}) /\ Lower(u, row', {})
  BY <1>6 DEF Fitting, Lower, Ready, Orderly
<1>. HIDE DEF t, mine, view
<1>14. \A v \in Sessions : Fitting(txn'[v], booked', Mine(owner', v))
  BY <1>7, <1>8, <1>10, <1>13
<1>15. \A v \in Sessions : holder' = v => Budget(txn'[v], row', booked', Mine(owner', v))
  BY <1>7, <1>8, <1>9, <1>11
<1>16. \A v \in Sessions : holder' # v => Lower(txn'[v], row', Mine(owner', v))
  BY <1>7, <1>8, <1>9, <1>12, <1>13
<1>. QED
  BY <1>4, <1>5, <1>14, <1>15, <1>16 DEF MoneyInv
-----------------------------------------------------------------------------
LEMMA MoneyInitially == Init => MoneyInv
<1>. SUFFICES ASSUME Init PROVE MoneyInv
  OBVIOUS
<1>1. row = InitRows /\ booked = {} /\ balance = Equity
  BY DEF Init
<1>2. Holds(row) <= balance
  BY <1>1, AffordableAssumption DEF Holds
<1>3. \A o \in Orders : Fits(o, row[o], booked)
  BY <1>1, AffordableAssumption DEF Fits
<1>4. ASSUME NEW s \in Sessions
      PROVE  /\ Mine(owner, s) = {} /\ holder # s
             /\ Ready(txn[s].todo, booked \cup txn[s].fills)
  <2>1. txn[s].todo = <<>>
    BY DEF Init, Fresh
  <2>2. Mine(owner, s) = {} /\ holder # s
    BY Constants DEF Init, Mine
  <2>. QED
    BY <2>1, <2>2 DEF Ready, Orderly
<1>. QED
  BY <1>2, <1>3, <1>4 DEF MoneyInv, Fitting, Lower

LEMMA MoneyStep == SessionsInv /\ MoneyInv /\ [Next]_vars => MoneyInv'
<1>. SUFFICES ASSUME SessionsInv, MoneyInv, [Next]_vars PROVE MoneyInv'
  OBVIOUS
<1>1. CASE UNCHANGED vars
  BY <1>1 DEF vars, MoneyInv
<1>2. ASSUME NEW s \in Sessions, NEW plan \in Plans, Begin(s, plan)
      PROVE  MoneyInv'
  BY <1>2, BeginMoney
<1>3. ASSUME NEW s \in Sessions, Statement(s)
      PROVE  MoneyInv'
  <2>1. CASE StartBuy(s) \/ FindFill(s) \/ LockPortfolio(s)
    BY <2>1, StartBuySkips, FindFillSkips, LockPortfolioSkips, SkipMoney
  <2>2. CASE Reserve(s) \/ BookFill(s) \/ ConsumeReservation(s) \/ Pay(s) \/ Commit(s)
    BY <2>2, ReserveMoney, BookMoney, ConsumeMoney, PayMoney, CommitMoney
  <2>3. CASE AdvanceOrder(s) \/ MoveOrder(s) \/ AdoptOrder(s)
    BY <2>3, AdvanceKeeps, MoveKeeps, AdoptKeeps, SkipMoney, KeepMoney, AbortMoney
       DEF Outcomes
  <2>. QED
    BY <1>3, <2>1, <2>2, <2>3 DEF Statement
<1>4. ASSUME NEW s \in Sessions, LoseConnection(s) \/ DeadlockVictim(s)
      PROVE  MoneyInv'
  BY <1>4, AbortMoney DEF LoseConnection, DeadlockVictim, Outcomes
<1>. QED
  BY <1>1, <1>2, <1>3, <1>4 DEF Next

LEMMA MoneyInvariant == Spec => [](SessionsInv /\ MoneyInv)
<1>. QED
  BY SessionsInitially, SessionsStep, MoneyInitially, MoneyStep, PTL DEF Spec

\* Concurrent transactions never hold more of the portfolio's committed cash
\* than there is: orders_reserve_capital looks under the lock, and between its
\* look and its commit nobody else's commit can raise what is held.
THEOREM SessionsNoOverCommit == Spec => []NoOverCommit
<1>1. MoneyInv => NoOverCommit
  BY DEF MoneyInv, Holds, NoOverCommit
<1>. QED
  BY <1>1, MoneyInvariant, PTL
=============================================================================
