-------------------------- MODULE Corporate_proofs --------------------------
(***************************************************************************)
(* What becomes of the ledger's positions and of their stops over splits   *)
(* and symbol changes: for any set of them that a listed symbol can go     *)
(* through, announced as late as the window allows, any fills, any prices, *)
(* and any stops, replacements and restarts of the worker.                 *)
(***************************************************************************)
EXTENDS Corporate, Sums_proofs, SequenceTheorems

USE CorporateAssumption

-----------------------------------------------------------------------------

\* What the splits of a set do together.
LEMMA FactorType ==
    ASSUME NEW S \in SUBSET Splits
    PROVE  IsFiniteSet(S) /\ Factor(S) \in Positive
<1>1. IsFiniteSet(S)
  BY FS_Subset
<1>2. [a \in S |-> a.ratio] \in [S -> Positive]
  BY DEF Positive
<1> QED BY <1>1, <1>2, MultipliedType DEF Factor

LEMMA FactorUnion ==
    ASSUME NEW S \in SUBSET Splits, NEW T \in SUBSET Splits, S \cap T = {}
    PROVE  Factor(S \cup T) = Factor(S) * Factor(T)
<1> DEFINE f == [a \in S \cup T |-> a.ratio]
           g == [a \in S |-> a.ratio]
           h == [a \in T |-> a.ratio]
<1>1. IsFiniteSet(S) /\ IsFiniteSet(T)
  BY FactorType
<1>2. /\ f \in [S \cup T -> Positive] /\ g \in [S -> Positive] /\ h \in [T -> Positive]
      /\ \A x \in S : g[x] = f[x]
      /\ \A x \in T : h[x] = f[x]
  BY DEF Positive
<1>3. Factor(S \cup T) = Multiplied(f) /\ Factor(S) = Multiplied(g) /\ Factor(T) = Multiplied(h)
  BY DEF Factor
<1> HIDE DEF f, g, h
<1>4. DOMAIN g = S /\ DOMAIN h = T
  BY <1>2
<1>5. Joined(f, g, h)
  BY <1>1, <1>2, <1>4 DEF Joined
<1>6. Multiplied(f) = Multiplied(g) * Multiplied(h)
  BY <1>5, MultipliedUnion
<1> QED BY <1>3, <1>6

LEMMA FactorNone == Factor({}) = 1
<1>1. [a \in {} |-> a.ratio] = [a \in {} |-> 0]
  OBVIOUS
<1> QED BY <1>1, MultipliedEmpty, Zenon DEF Factor

LEMMA FactorOne ==
    ASSUME NEW a \in Splits
    PROVE  Factor({a}) = a.ratio
<1> DEFINE f == [x \in {a} |-> x.ratio]
<1>1. a.ratio \in Positive /\ f \in [{a} -> {a.ratio}] /\ Factor({a}) = Multiplied(f)
  BY DEF Positive, Factor
<1> HIDE DEF f
<1> QED BY <1>1, MultipliedOne

\* A split changes something.
LEMMA FactorMore ==
    ASSUME NEW S \in SUBSET Splits, S # {}
    PROVE  Factor(S) >= 2
<1>1. PICK a \in S : TRUE
  OBVIOUS
<1> DEFINE R == S \ {a}
<1>2. S = {a} \cup R /\ {a} \cap R = {} /\ R \in SUBSET Splits /\ {a} \in SUBSET Splits
  OBVIOUS
<1> HIDE DEF R
<1>3. Factor(S) = Factor({a}) * Factor(R)
  BY <1>2, FactorUnion
<1>4. Factor({a}) \in Nat /\ Factor({a}) >= 2
  <2>1. a \in Splits /\ a.ratio \in Nat /\ a.ratio >= 2
    BY <1>1
  <2> QED BY <2>1, FactorOne
<1>5. Factor(R) \in Nat /\ Factor(R) >= 1
  BY <1>2, FactorType DEF Positive
<1> DEFINE m == Factor({a})
           n == Factor(R)
<1>6. m \in Nat /\ n \in Nat /\ m >= 2 /\ n >= 1
  BY <1>4, <1>5
<1> HIDE DEF m, n
<1>7. m * n >= 2
  <2>1. m * n = 2 * n + (m - 2) * n /\ (m - 2) * n \in Nat
    BY <1>6
  <2> QED BY <1>6, <2>1
<1> QED BY <1>3, <1>7 DEF m, n

\* Dividing twice is dividing by the product.
LEMMA Quotient ==
    ASSUME NEW n \in Nat, NEW a \in Positive
    PROVE  /\ n \div a \in Nat /\ n \div a <= n
           /\ \E r \in 0..(a - 1) : n = a * (n \div a) + r
<1>1. n % a \in 0..(a - 1) /\ n = a * (n \div a) + (n % a) /\ n \div a \in Int
  BY DEF Positive
<1> DEFINE q == n \div a
           r == n % a
<1>2. q \in Int /\ r \in 0..(a - 1) /\ n = a * q + r
  BY <1>1
<1> HIDE DEF q, r
<1>3. q >= 0
  <2> SUFFICES ASSUME q <= -1 PROVE FALSE
    BY <1>2
  <2>1. a * q <= -a
    BY <1>2 DEF Positive
  <2> QED BY <1>2, <2>1 DEF Positive
<1>4. q <= n
  BY <1>2, <1>3 DEF Positive
<1> QED BY <1>2, <1>3, <1>4 DEF q

LEMMA QuotientIs ==
    ASSUME NEW n \in Nat, NEW a \in Positive, NEW q \in Nat, NEW r \in 0..(a - 1), n = a * q + r
    PROVE  n \div a = q
<1>1. PICK s \in 0..(a - 1) : n = a * (n \div a) + s
  BY Quotient
<1> DEFINE p == n \div a
<1>2. p \in Nat /\ n = a * p + s
  BY <1>1, Quotient
<1> HIDE DEF p
<1>3. a * p + s = a * q + r
  BY <1>2
<1>4. ASSUME p < q PROVE FALSE
  <2>1. a * q >= a * p + a
    BY <1>2, <1>4 DEF Positive
  <2> QED BY <1>2, <1>3, <2>1 DEF Positive
<1>5. ASSUME q < p PROVE FALSE
  <2>1. a * p >= a * q + a
    BY <1>2, <1>5 DEF Positive
  <2> QED BY <1>2, <1>3, <2>1 DEF Positive
<1> QED BY <1>2, <1>4, <1>5 DEF p

LEMMA DivideTwice ==
    ASSUME NEW n \in Nat, NEW a \in Positive, NEW b \in Positive
    PROVE  (n \div a) \div b = n \div (a * b) /\ n \div a \in Nat
<1> DEFINE q == n \div a
           t == q \div b
<1>1. PICK r \in 0..(a - 1) : n = a * q + r
  BY Quotient
<1>2. q \in Nat
  BY Quotient
<1>3. PICK u \in 0..(b - 1) : q = b * t + u
  BY <1>2, Quotient
<1>4. t \in Nat
  BY <1>2, Quotient
<1> HIDE DEF q, t
<1> DEFINE c == a * b
           v == a * u + r
<1>5. c \in Positive /\ v \in 0..(c - 1) /\ n = c * t + v
  <2>1. c \in Nat /\ c >= 1
    BY DEF Positive
  <2>2. a * u <= a * (b - 1) /\ a * u \in Nat
    BY <1>3 DEF Positive
  <2>3. a * (b - 1) = c - a
    BY DEF Positive
  <2>4. v \in 0..(c - 1)
    <3> HIDE DEF c
    <3> QED BY <1>1, <2>1, <2>2, <2>3 DEF Positive
  <2>5. a * q = a * (b * t) + a * u
    BY <1>1, <1>2, <1>3, <1>4 DEF Positive
  <2>6. a * (b * t) = c * t
    BY <1>4 DEF Positive
  <2> HIDE DEF c
  <2>7. n = c * t + v
    BY <1>1, <1>2, <1>3, <1>4, <2>1, <2>2, <2>5, <2>6 DEF Positive
  <2> QED BY <2>1, <2>4, <2>7 DEF Positive
<1> HIDE DEF c, v
<1>6. n \div c = t
  BY <1>4, <1>5, QuotientIs
<1> QED BY <1>2, <1>6 DEF c, q, t

-----------------------------------------------------------------------------
\* The replay is what its definition says, as there are only so many fills.
LEMMA AfterIs ==
    ASSUME booked \in Nat, Len(fill) \in Nat, booked <= Len(fill)
    PROVE  /\ After[booked] = [ok |-> TRUE, position |-> position]
           /\ \A n \in (booked + 1)..Len(fill) : After[n] = WithFill(After[n - 1], fill[n])
<1> DEFINE start == [ok |-> TRUE, position |-> position]
           Upto(g, k) == /\ DOMAIN g = booked..k /\ g[booked] = start
                         /\ \A n \in (booked + 1)..k : g[n] = WithFill(g[n - 1], fill[n])
           Bad == { k \in Nat : k >= booked /\ ~ \E g : Upto(g, k) }
<1> HIDE DEF start
<1>1. Bad = {}
  <2> SUFFICES ASSUME Bad # {} PROVE FALSE
    OBVIOUS
  <2>1. PICK k \in Bad : \A n \in Bad : k <= n
    <3>1. Bad \in SUBSET Nat
      OBVIOUS
    <3> HIDE DEF Bad
    <3> QED BY <3>1, LeastNatural
  <2>2. k # booked
    <3> DEFINE g == [n \in booked..booked |-> start]
    <3>1. Upto(g, booked)
      OBVIOUS
    <3> HIDE DEF g, Upto
    <3> QED BY <2>1, <3>1
  <2>3. k - 1 \in Nat /\ k - 1 >= booked /\ k - 1 \notin Bad
    BY <2>1, <2>2
  <2>4. PICK g : Upto(g, k - 1)
    BY <2>3
  <2> DEFINE h == [n \in booked..k |-> IF n = k THEN WithFill(g[k - 1], fill[k]) ELSE g[n]]
  <2>5. Upto(h, k)
    <3>1. DOMAIN h = booked..k /\ h[booked] = start
      BY <2>1, <2>3, <2>4
    <3>2. ASSUME NEW n \in (booked + 1)..k PROVE h[n] = WithFill(h[n - 1], fill[n])
      <4>1. n \in booked..k /\ n - 1 \in booked..k /\ n - 1 # k
        BY <2>1
      <4>2. CASE n = k
        BY <2>1, <2>3, <4>1, <4>2
      <4>3. CASE n # k
        <5>1. n \in (booked + 1)..(k - 1)
          BY <2>1, <4>3
        <5>2. g[n] = WithFill(g[n - 1], fill[n])
          BY <2>4, <5>1
        <5> QED BY <4>1, <4>3, <5>2
      <4> QED BY <4>2, <4>3
    <3> HIDE DEF h
    <3> QED BY <3>1, <3>2
  <2> HIDE DEF h, Upto
  <2> QED BY <2>1, <2>5
<1>2. PICK g : Upto(g, Len(fill))
  BY <1>1
<1> DEFINE Eqn(e) == e = [n \in booked..Len(fill) |->
                             IF n = booked THEN start ELSE WithFill(e[n - 1], fill[n])]
<1>3. Eqn([n \in booked..Len(fill) |-> g[n]])
  <2> DEFINE e == [n \in booked..Len(fill) |-> g[n]]
  <2>1. ASSUME NEW n \in booked..Len(fill)
        PROVE  e[n] = IF n = booked THEN start ELSE WithFill(e[n - 1], fill[n])
    <3>1. CASE n = booked
      BY <1>2, <3>1
    <3>2. CASE n # booked
      <4>1. n \in (booked + 1)..Len(fill) /\ n - 1 \in booked..Len(fill)
        BY <3>2
      <4>2. g[n] = WithFill(g[n - 1], fill[n])
        BY <1>2, <4>1
      <4> QED BY <3>2, <4>1, <4>2
    <3> QED BY <3>1, <3>2
  <2> HIDE DEF e, Upto
  <2>2. e = [n \in booked..Len(fill) |-> e[n]]
    BY DEF e
  <2> QED BY <2>1, <2>2 DEF e
<1> HIDE DEF Upto
<1>4. After = CHOOSE e : Eqn(e)
  BY DEF After, start
<1>5. Eqn(After)
  <2> HIDE DEF Eqn
  <2> QED BY <1>3, <1>4
<1> QED
  <2>1. booked \in booked..Len(fill) /\ \A n \in (booked + 1)..Len(fill) : n \in booked..Len(fill) /\ n # booked
    OBVIOUS
  <2>2. \A n \in booked..Len(fill) :
           After[n] = IF n = booked THEN start ELSE WithFill(After[n - 1], fill[n])
    BY <1>5
  <2> QED BY <2>1, <2>2 DEF start

-----------------------------------------------------------------------------
\* What a fill makes of a position that can take it: it goes on with other shares,
\* it is closed, or the fill opens a new one.
Resumes(b, p) == IsOpen(p) /\ b = [p EXCEPT !.qty = b.qty]
OpenedBy(b, f) == f.qty > 0 /\ b = [Flat EXCEPT !.qty = b.qty, !.opened = f.day]
GoodRow(p) == p \in Positions /\ (IsOpen(p) \/ p = Flat)

LEMMA RowFields ==
    ASSUME NEW p \in Positions
    PROVE  /\ p.qty \in Nat /\ p.level \in Nat /\ p.opened \in 0..MaxDay
           /\ p.applied \in SUBSET Splits /\ p.stop \in Stops
           /\ p = [qty |-> p.qty, level |-> p.level, opened |-> p.opened,
                   applied |-> p.applied, stop |-> p.stop]
BY DEF Positions

LEMMA FlatRow == GoodRow(Flat) /\ Flat.qty = 0 /\ ~IsOpen(Flat) /\ Flat.stop = NoStop
                 /\ Flat.applied = {}
BY DEF GoodRow, Positions, Flat, Stops, IsOpen, NoLevel

LEMMA BookedIs ==
    ASSUME NEW p, GoodRow(p), NEW f \in Fills, p.qty + f.qty >= 0
    PROVE  LET b == Booked(p, f) IN
           /\ GoodRow(b) /\ b.qty = p.qty + f.qty
           /\ Resumes(b, p) \/ b = Flat \/ OpenedBy(b, f)
<1> DEFINE b == Booked(p, f)
<1>1. /\ p \in Positions /\ p.qty \in Nat /\ f.qty \in Int /\ f.qty # 0
      /\ f.day \in 0..MaxDay
  BY DEF GoodRow, Fills, Positions
<1>2. CASE ~IsOpen(p)
  <2>1. p.qty = 0 /\ f.qty > 0
    BY <1>1, <1>2 DEF IsOpen
  <2>2. b = [Flat EXCEPT !.qty = f.qty, !.opened = f.day]
    BY <1>2 DEF Booked
  <2>3. b \in Positions /\ b.qty = f.qty
    <3>1. b = [qty |-> f.qty, level |-> NoLevel, opened |-> f.day, applied |-> {}, stop |-> NoStop]
      BY <2>2 DEF Flat
    <3>2. NoStop \in Stops /\ NoLevel \in Nat
      BY DEF Stops, NoLevel
    <3> HIDE DEF b
    <3> QED BY <1>1, <2>1, <3>1, <3>2 DEF Positions
  <2> HIDE DEF b
  <2>4. OpenedBy(b, f) /\ IsOpen(b)
    BY <2>1, <2>2, <2>3 DEF OpenedBy, IsOpen
  <2> QED BY <1>1, <2>1, <2>3, <2>4 DEF GoodRow, b
<1>3. CASE IsOpen(p) /\ p.qty + f.qty = 0
  <2>1. b = Flat
    BY <1>3 DEF Booked
  <2> QED BY <1>3, <2>1, FlatRow
<1>4. CASE IsOpen(p) /\ p.qty + f.qty # 0
  <2>1. b = [p EXCEPT !.qty = p.qty + f.qty]
    BY <1>4 DEF Booked
  <2>2. b \in Positions /\ b.qty = p.qty + f.qty
    BY <1>1, <2>1 DEF Positions
  <2> HIDE DEF b
  <2>3. IsOpen(b) /\ Resumes(b, p)
    BY <1>1, <1>4, <2>1, <2>2 DEF IsOpen, Resumes
  <2> QED BY <2>2, <2>3 DEF GoodRow, b
<1> QED BY <1>2, <1>3, <1>4

\* The sum of the fills of x that are not booked, from base on, never below zero.
Trail(r, base, x) ==
    /\ r \in [booked..Len(fill) -> Nat] /\ r[booked] = base
    /\ \A n \in (booked + 1)..Len(fill) :
          r[n] = r[n - 1] + (IF fill[n].symbol = x THEN fill[n].qty ELSE 0)

\* Where a replay that has not raised stands after n fills.
ReplayedTo(n) ==
    After[n].ok =>
       /\ After[n].position \in [Symbols -> Positions]
       /\ \A s \in Symbols :
             LET b == After[n].position[s] IN
             /\ GoodRow(b) /\ (n = booked => b = position[s])
             /\ \/ Resumes(b, position[s]) \/ b = Flat
                \/ \E m \in (booked + 1)..n : fill[m].symbol = s /\ OpenedBy(b, fill[m])

LEMMA FillIs ==
    ASSUME TypeOK
    PROVE  /\ booked \in Nat /\ Len(fill) \in Nat /\ booked <= Len(fill)
           /\ \A n \in (booked + 1)..Len(fill) : fill[n] \in Fills
BY LenProperties, ElementOfSeq DEF TypeOK

LEMMA ReplayedStep ==
    ASSUME TypeOK, NEW n \in (booked + 1)..Len(fill), ReplayedTo(n - 1)
    PROVE  ReplayedTo(n)
<1> SUFFICES ASSUME After[n].ok PROVE ReplayedTo(n)
  BY DEF ReplayedTo
<1> DEFINE last == After[n - 1]
           f == fill[n]
           p == last.position[f.symbol]
<1>1. n \in Nat /\ n - 1 \in booked..Len(fill) /\ f \in Fills /\ n # booked
  BY FillIs
<1>2. After[n] = WithFill(last, f)
  BY FillIs, AfterIs
<1>3. After[n].ok <=> (last.ok /\ p.qty + f.qty >= 0)
  <2> DEFINE y == last.ok /\ p.qty + f.qty >= 0
             z == [last.position EXCEPT ![f.symbol] = Booked(p, f)]
             w == After[n]
  <2>1. w = [ok |-> y, position |-> z]
    BY <1>2 DEF WithFill
  <2> HIDE DEF w, y, z
  <2>2. w.ok = y
    BY <2>1, Zenon
  <2> QED BY <2>2 DEF w, y
<1>4. After[n].position = [last.position EXCEPT ![f.symbol] = Booked(p, f)]
  BY <1>2 DEF WithFill
<1>5. last.ok /\ p.qty + f.qty >= 0
  BY <1>3
<1>6. last.position \in [Symbols -> Positions] /\ f.symbol \in Symbols
  BY <1>1, <1>5 DEF ReplayedTo, Fills
<1>7. \A s \in Symbols :
         LET b == last.position[s] IN
         /\ GoodRow(b)
         /\ \/ Resumes(b, position[s]) \/ b = Flat
            \/ \E m \in (booked + 1)..(n - 1) : fill[m].symbol = s /\ OpenedBy(b, fill[m])
  BY <1>5 DEF ReplayedTo
<1> HIDE DEF last, f
<1>8. ASSUME NEW s \in Symbols
      PROVE  LET b == After[n].position[s] IN
             /\ GoodRow(b)
             /\ \/ Resumes(b, position[s]) \/ b = Flat
                \/ \E m \in (booked + 1)..n : fill[m].symbol = s /\ OpenedBy(b, fill[m])
  <2> DEFINE b == After[n].position[s]
             o == last.position[s]
  <2>1. GoodRow(o)
        /\ (\/ Resumes(o, position[s]) \/ o = Flat
            \/ \E m \in (booked + 1)..(n - 1) : fill[m].symbol = s /\ OpenedBy(o, fill[m]))
    BY <1>7
  <2>2. CASE s # f.symbol
    <3>1. b = o
      BY <1>4, <1>6, <2>2
    <3>2. (booked + 1)..(n - 1) \subseteq (booked + 1)..n
      BY <1>1, FillIs
    <3> HIDE DEF b, o
    <3>3. GoodRow(b)
          /\ (\/ Resumes(b, position[s]) \/ b = Flat
              \/ \E m \in (booked + 1)..n : fill[m].symbol = s /\ OpenedBy(b, fill[m]))
      BY <2>1, <3>1, <3>2
    <3> QED BY <3>3 DEF b
  <2>3. CASE s = f.symbol
    <3>1. b = Booked(o, f)
      BY <1>4, <1>6, <2>3
    <3>2. o = p
      BY <2>3
    <3> HIDE DEF b, o, p
    <3>3. GoodRow(b) /\ (Resumes(b, o) \/ b = Flat \/ OpenedBy(b, f))
      BY <1>1, <1>5, <2>1, <3>1, <3>2, BookedIs
    <3>4. CASE b = Flat \/ OpenedBy(b, f)
      <4>1. n \in (booked + 1)..n /\ fill[n] = f
        BY <1>1, FillIs DEF f
      <4>2. GoodRow(b)
            /\ (\/ Resumes(b, position[s]) \/ b = Flat
                \/ \E m \in (booked + 1)..n : fill[m].symbol = s /\ OpenedBy(b, fill[m]))
        BY <2>3, <3>3, <3>4, <4>1
      <4> QED BY <4>2 DEF b
    <3>5. CASE Resumes(b, o)
      <4>1. o # Flat
        BY <3>5, FlatRow DEF Resumes
      <4>2. CASE Resumes(o, position[s])
        <5>1. b = [o EXCEPT !.qty = b.qty] /\ o = [position[s] EXCEPT !.qty = o.qty]
              /\ IsOpen(position[s])
          BY <3>5, <4>2 DEF Resumes
        <5>2. b = [position[s] EXCEPT !.qty = b.qty]
          BY <5>1
        <5> QED BY <3>3, <5>1, <5>2 DEF Resumes, b
      <4>3. CASE \E m \in (booked + 1)..(n - 1) : fill[m].symbol = s /\ OpenedBy(o, fill[m])
        <5>1. PICK m \in (booked + 1)..(n - 1) : fill[m].symbol = s /\ OpenedBy(o, fill[m])
          BY <4>3
        <5>2. b = [o EXCEPT !.qty = b.qty]
          BY <3>5 DEF Resumes
        <5>3. OpenedBy(b, fill[m])
          <6> DEFINE g == fill[m]
          <6>1. o = [Flat EXCEPT !.qty = o.qty, !.opened = g.day] /\ g.qty > 0
            BY <5>1 DEF OpenedBy
          <6> HIDE DEF g
          <6>2. b = [Flat EXCEPT !.qty = b.qty, !.opened = g.day]
            BY <5>2, <6>1 DEF Flat
          <6> QED BY <6>1, <6>2 DEF OpenedBy, g
        <5>4. m \in (booked + 1)..n
          BY <1>1, FillIs
        <5> QED BY <3>3, <5>1, <5>3, <5>4 DEF b
      <4> QED BY <2>1, <4>1, <4>2, <4>3
    <3> QED BY <3>3, <3>4, <3>5
  <2> QED BY <2>2, <2>3
<1>9. After[n].position \in [Symbols -> Positions]
  <2>1. After[n].position = [s \in Symbols |-> After[n].position[s]]
    BY <1>4, <1>6
  <2>2. \A s \in Symbols : After[n].position[s] \in Positions
    BY <1>8 DEF GoodRow
  <2> QED BY <2>1, <2>2
<1> QED BY <1>1, <1>8, <1>9 DEF ReplayedTo

LEMMA ReplayedAlways ==
    ASSUME TypeOK, NEW n \in booked..Len(fill)
    PROVE  ReplayedTo(n)
<1> DEFINE Bad == { k \in booked..Len(fill) : ~ReplayedTo(k) }
<1> SUFFICES ASSUME Bad # {} PROVE FALSE
  OBVIOUS
<1>1. PICK k \in Bad : \A i \in Bad : k <= i
  <2>1. Bad \in SUBSET Nat
    BY FillIs
  <2> HIDE DEF Bad
  <2> QED BY <2>1, LeastNatural
<1>2. ReplayedTo(booked)
  <2>1. After[booked].position = position /\ position \in [Symbols -> Positions]
    BY FillIs, AfterIs DEF TypeOK
  <2>2. ASSUME NEW s \in Symbols PROVE GoodRow(position[s]) /\ (Resumes(position[s], position[s]) \/ position[s] = Flat)
    <3>1. position[s] \in Positions /\ (IsOpen(position[s]) \/ position[s] = Flat)
      BY DEF TypeOK
    <3>2. position[s] = [position[s] EXCEPT !.qty = position[s].qty]
      BY <3>1 DEF Positions
    <3> QED BY <3>1, <3>2 DEF GoodRow, Resumes
  <2> QED BY <2>1, <2>2 DEF ReplayedTo
<1>3. k \in (booked + 1)..Len(fill) /\ k - 1 \in booked..Len(fill)
  BY <1>1, <1>2, FillIs
<1>4. k - 1 \notin Bad
  BY <1>1, <1>3, FillIs
<1> QED BY <1>1, <1>3, <1>4, ReplayedStep

-----------------------------------------------------------------------------
\* A stop that nothing touched covers the position at its level.
StopsFit ==
    \A s \in Symbols :
       LET p == position[s] IN
       Live(p.stop) =>
          /\ p.stop.applied \subseteq p.applied /\ p.stop.booked <= booked
          /\ Untouched(p) => p.stop.qty = p.qty /\ p.stop.level \in {AtMarket, p.level}

LiveStops == [name : Symbols, at : Symbols, qty : Nat \ {0}, level : Nat \cup {AtMarket},
              booked : 0..MaxFills, applied : SUBSET Splits, split : BOOLEAN]

LEMMA StopFields ==
    ASSUME NEW t \in LiveStops
    PROVE  /\ t.name \in Symbols /\ t.at \in Symbols /\ t.qty \in Nat /\ t.qty > 0
           /\ t.level \in Nat \cup {AtMarket} /\ t.booked \in 0..MaxFills
           /\ t.applied \in SUBSET Splits /\ t.split \in BOOLEAN
           /\ t = [name |-> t.name, at |-> t.at, qty |-> t.qty, level |-> t.level,
                   booked |-> t.booked, applied |-> t.applied, split |-> t.split]
BY DEF LiveStops

LEMMA StopIs ==
    ASSUME NEW t \in Stops
    PROVE  (Live(t) => t \in LiveStops) /\ (~Live(t) => t = NoStop)
<1>1. t = NoStop \/ t \in LiveStops
  BY DEF Stops, LiveStops
<1>2. CASE t = NoStop
  BY <1>2 DEF Live, NoStop
<1>3. CASE t \in LiveStops
  BY <1>3, StopFields DEF Live
<1> QED BY <1>1, <1>2, <1>3

LEMMA LiveIsStop == LiveStops \subseteq Stops /\ NoStop \in Stops /\ ~Live(NoStop)
BY DEF Stops, LiveStops, NoStop, Live

LEMMA RatioType ==
    ASSUME NEW s \in Symbols, NEW d
    PROVE  Ratio(s, d) \in Positive
<1> DEFINE due == { a \in Splits : a.symbol = s /\ a.ex = d }
<1>1. CASE due = {}
  BY <1>1 DEF Ratio, Positive
<1>2. CASE due # {}
  <2>1. (CHOOSE a \in due : TRUE) \in due
    BY <1>2
  <2>2. Ratio(s, d) = (CHOOSE a \in due : TRUE).ratio
    BY <1>2 DEF Ratio
  <2> DEFINE a == CHOOSE a \in due : TRUE
  <2>3. a \in Splits
    BY <2>1
  <2> HIDE DEF a
  <2>4. a.ratio \in Positive
    BY <2>3 DEF Positive
  <2> QED BY <2>2, <2>4 DEF a
<1> QED BY <1>1, <1>2

\* What a night calls s, and what it was called before.
LEMMA NewNameIs ==
    ASSUME NEW s \in Symbols, NEW d
    PROVE  /\ NewName(s, d) \in Symbols
           /\ \/ NewName(s, d) = s /\ \A c \in Changes : ~(c.old = s /\ c.date = d)
              \/ \E c \in Changes : c.old = s /\ c.date = d /\ NewName(s, d) = c.new
<1> DEFINE due == { c \in Changes : c.old = s /\ c.date = d }
           e == CHOOSE c \in due : TRUE
<1>1. CASE due = {}
  BY <1>1 DEF NewName
<1>2. CASE due # {}
  <2>1. e \in due
    BY <1>2
  <2>2. NewName(s, d) = e.new
    BY <1>2 DEF NewName
  <2> HIDE DEF e
  <2>3. e \in Changes /\ e.old = s /\ e.date = d /\ e.new \in Symbols
    BY <2>1
  <2> QED BY <2>2, <2>3
<1> QED BY <1>1, <1>2

LEMMA BeforeIs ==
    ASSUME NEW s \in Symbols, NEW d
    PROVE  /\ Before(s, d) \in Symbols
           /\ \/ Before(s, d) = s /\ \A c \in Changes : ~(c.new = s /\ c.date = d)
              \/ \E c \in Changes : c.new = s /\ c.date = d /\ Before(s, d) = c.old
<1> DEFINE e == CHOOSE c \in Changes : c.new = s /\ c.date = d
<1>1. CASE ~ \E c \in Changes : c.new = s /\ c.date = d
  BY <1>1 DEF Before
<1>2. CASE \E c \in Changes : c.new = s /\ c.date = d
  <2>1. e \in Changes /\ e.new = s /\ e.date = d
    BY <1>2
  <2>2. Before(s, d) = e.old
    BY <1>2 DEF Before
  <2> HIDE DEF e
  <2>3. e.old \in Symbols
    BY <2>1
  <2> QED BY <2>1, <2>2, <2>3
<1> QED BY <1>1, <1>2

\* A night drops an order, moves it to the new name, or leaves word that it was split.
LEMMA OvernightIs ==
    ASSUME NEW t \in Stops, NEW d, NEW u \in Overnight(t, d)
    PROVE  /\ u \in Stops
           /\ \/ ~Live(u)
              \/ /\ Live(t) /\ u.booked = t.booked /\ u.applied = t.applied
                 /\ u.split \/ (u.qty = t.qty /\ u.level = t.level /\ (u.split <=> t.split))
<1> DEFINE r == Ratio(t.at, d)
           n == NewName(t.at, d)
           kept == [t EXCEPT !.at = n]
<1>1. CASE u = NoStop
  BY <1>1, LiveIsStop
<1>2. CASE u # NoStop
  <2>1. Live(t) /\ t.level # AtMarket
    BY <1>2 DEF Overnight
  <2>2. t \in LiveStops
    BY <2>1, StopIs
  <2>3. r \in Positive /\ n \in Symbols /\ t.level \in Nat
    BY <2>1, <2>2, StopFields, RatioType, NewNameIs
  <2> HIDE DEF r, n
  <2>4. kept = [name |-> t.name, at |-> n, qty |-> t.qty, level |-> t.level,
                booked |-> t.booked, applied |-> t.applied, split |-> t.split]
    BY <2>2, StopFields
  <2>5. u = kept \/ u = [kept EXCEPT !.split = TRUE]
        \/ u = [kept EXCEPT !.qty = @ * r, !.level = @ \div r, !.split = TRUE]
    BY <1>2, <2>1 DEF Overnight, r, n
  <2> HIDE DEF kept
  <2>6. CASE u = kept
    <3>1. u \in LiveStops
      BY <2>2, <2>3, <2>4, <2>6, StopFields DEF LiveStops
    <3>2. u.booked = t.booked /\ u.applied = t.applied /\ u.qty = t.qty /\ u.level = t.level
      BY <2>4, <2>6
    <3>3. u.split = t.split
      BY <2>4, <2>6, Zenon
    <3> QED BY <2>1, <3>1, <3>2, <3>3, LiveIsStop
  <2>7. CASE u = [kept EXCEPT !.split = TRUE]
    <3>1. u = [name |-> t.name, at |-> n, qty |-> t.qty, level |-> t.level,
               booked |-> t.booked, applied |-> t.applied, split |-> TRUE]
      BY <2>4, <2>7
    <3>2. u \in LiveStops
      BY <2>2, <2>3, <3>1, StopFields DEF LiveStops
    <3>3. u.booked = t.booked /\ u.applied = t.applied /\ u.split
      BY <3>1
    <3> QED BY <2>1, <3>2, <3>3, LiveIsStop
  <2>8. CASE u = [kept EXCEPT !.qty = @ * r, !.level = @ \div r, !.split = TRUE]
    <3> DEFINE q == t.qty * r
               l == t.level \div r
    <3>1. u = [name |-> t.name, at |-> n, qty |-> q, level |-> l,
               booked |-> t.booked, applied |-> t.applied, split |-> TRUE]
      BY <2>4, <2>8
    <3>2. l \in Nat
      BY <2>3, Quotient
    <3>3. q \in Nat \ {0}
      <4>1. t.qty \in Nat \ {0}
        BY <2>2, StopFields
      <4> QED BY <2>3, <4>1 DEF Positive
    <3> HIDE DEF q, l
    <3>4. u \in LiveStops
      BY <2>2, <2>3, <3>1, <3>2, <3>3, StopFields DEF LiveStops
    <3>5. u.booked = t.booked /\ u.applied = t.applied /\ u.split
      BY <3>1
    <3> QED BY <2>1, <3>4, <3>5, LiveIsStop
  <2> QED BY <2>5, <2>6, <2>7, <2>8
<1> QED BY <1>1, <1>2

-----------------------------------------------------------------------------
\* A row with another stop.
LEMMA Restocked ==
    ASSUME NEW p, GoodRow(p), NEW u \in Stops, p = Flat => u = NoStop
    PROVE  LET q == [p EXCEPT !.stop = u] IN
           /\ GoodRow(q) /\ q.stop = u
           /\ q.qty = p.qty /\ q.level = p.level /\ q.opened = p.opened /\ q.applied = p.applied
<1> DEFINE q == [p EXCEPT !.stop = u]
<1>1. p \in Positions /\ (IsOpen(p) \/ p = Flat)
  BY DEF GoodRow
<1>2. q = [qty |-> p.qty, level |-> p.level, opened |-> p.opened, applied |-> p.applied, stop |-> u]
  BY <1>1, RowFields
<1>3. q \in Positions
  BY <1>1, <1>2, RowFields DEF Positions
<1> HIDE DEF q
<1>4. CASE IsOpen(p)
  BY <1>2, <1>3, <1>4 DEF GoodRow, IsOpen, q
<1>5. CASE p = Flat
  <2>1. u = NoStop
    BY <1>5
  <2>2. q = Flat
    BY <1>2, <1>5, <2>1 DEF Flat
  <2> QED BY <1>2, <1>3, <2>2 DEF GoodRow, q
<1> QED BY <1>1, <1>4, <1>5

\* Only stops differ, and those that live are as before or were split.
OnlyStops ==
    /\ position' \in [Symbols -> Positions]
    /\ \A s \in Symbols :
          LET p == position[s]  q == position'[s] IN
          /\ GoodRow(q)
          /\ q.qty = p.qty /\ q.level = p.level /\ q.opened = p.opened /\ q.applied = p.applied

StopsGoOn ==
    \A s \in Symbols :
       LET t == position[s].stop  u == position'[s].stop IN
       \/ ~Live(u)
       \/ /\ Live(t) /\ u.booked = t.booked /\ u.applied = t.applied
          /\ u.split \/ (u.qty = t.qty /\ u.level = t.level /\ (u.split <=> t.split))

LEMMA RowsAreGood ==
    ASSUME TypeOK, NEW s \in Symbols
    PROVE  GoodRow(position[s]) /\ position[s].stop \in Stops
<1>1. position[s] \in Positions /\ (IsOpen(position[s]) \/ position[s] = Flat)
  BY DEF TypeOK
<1> QED BY <1>1, RowFields DEF GoodRow

LEMMA StopsFitOn ==
    ASSUME TypeOK, StopsFit, OnlyStops, StopsGoOn, booked' = booked
    PROVE  StopsFit'
<1> SUFFICES ASSUME NEW s \in Symbols, Live(position'[s].stop)
             PROVE  LET q == position'[s] IN
                    /\ q.stop.applied \subseteq q.applied /\ q.stop.booked <= booked
                    /\ Untouched(q) => q.stop.qty = q.qty /\ q.stop.level \in {AtMarket, q.level}
  BY DEF StopsFit, Untouched
<1> DEFINE p == position[s]
           q == position'[s]
           t == p.stop
           u == q.stop
<1>1. /\ q.qty = p.qty /\ q.level = p.level /\ q.applied = p.applied
      /\ Live(t) /\ u.booked = t.booked /\ u.applied = t.applied
      /\ u.split \/ (u.qty = t.qty /\ u.level = t.level /\ (u.split <=> t.split))
  BY DEF OnlyStops, StopsGoOn
<1>2. /\ t.applied \subseteq p.applied /\ t.booked <= booked
      /\ Untouched(p) => t.qty = p.qty /\ t.level \in {AtMarket, p.level}
  BY <1>1 DEF StopsFit
<1>3. Untouched(p) <=> (t.booked = booked /\ t.applied = p.applied /\ ~t.split)
  BY DEF Untouched
<1>4. Untouched(q) <=> (u.booked = booked /\ u.applied = q.applied /\ ~u.split)
  BY DEF Untouched
<1> HIDE DEF p, q
<1> QED BY <1>1, <1>2, <1>3, <1>4 DEF p, q

LEMMA NothingOvernight ==
    ASSUME NEW t, NEW d, ~Live(t)
    PROVE  Overnight(t, d) = {NoStop}
BY Zenon DEF Overnight

\* The night.
LEMMA NightStops ==
    ASSUME TypeOK, NewDay
    PROVE  OnlyStops /\ StopsGoOn
<1>1. PICK t \in [Symbols -> UNION { Overnight(position[s].stop, day + 1) : s \in Symbols }] :
         /\ \A s \in Symbols : t[s] \in Overnight(position[s].stop, day + 1)
         /\ position' = [s \in Symbols |-> [position[s] EXCEPT !.stop = t[s]]]
  BY DEF NewDay
<1>2. ASSUME NEW s \in Symbols
      PROVE  LET p == position[s]  q == position'[s] IN
             /\ GoodRow(q)
             /\ q.qty = p.qty /\ q.level = p.level /\ q.opened = p.opened /\ q.applied = p.applied
             /\ q.stop \in Overnight(p.stop, day + 1)
  <2> DEFINE p == position[s]
             u == t[s]
  <2>1. GoodRow(p) /\ p.stop \in Stops
    BY RowsAreGood
  <2>2. position'[s] = [p EXCEPT !.stop = u] /\ u \in Overnight(p.stop, day + 1)
    BY <1>1
  <2> HIDE DEF p, u
  <2>3. u \in Stops
    BY <2>1, <2>2, OvernightIs
  <2>4. ASSUME p = Flat PROVE u = NoStop
    <3>1. ~Live(p.stop)
      BY <2>4, FlatRow, LiveIsStop
    <3>2. Overnight(p.stop, day + 1) = {NoStop}
      BY <3>1, NothingOvernight
    <3> QED BY <2>2, <3>2
  <2> QED BY <2>1, <2>2, <2>3, <2>4, Restocked DEF p
<1>3. OnlyStops
  <2>1. position' = [s \in Symbols |-> position'[s]]
    BY <1>1
  <2>2. \A s \in Symbols : position'[s] \in Positions
    BY <1>2 DEF GoodRow
  <2> QED BY <1>2, <2>1, <2>2 DEF OnlyStops
<1>4. StopsGoOn
  BY <1>2, RowsAreGood, OvernightIs DEF StopsGoOn
<1> QED BY <1>3, <1>4

LEMMA TypedNewDay ==
    ASSUME TypeOK, StopsFit, NewDay
    PROVE  TypeOK' /\ StopsFit'
<1> DEFINE d == day + 1
<1>1. OnlyStops /\ StopsGoOn
  BY NightStops
<1>2. name' \in [Symbols -> Symbols]
  <2>1. \A s \in Symbols : NewName(name[s], d) \in Symbols
    BY NewNameIs DEF TypeOK
  <2> QED BY <2>1 DEF NewDay
<1>3. held' \in [Symbols -> Nat]
  <2> DEFINE more(s) == IF Before(s, d) = s THEN 0 ELSE held[Before(s, d)] * Ratio(Before(s, d), d)
             now(s) == IF NewName(s, d) # s THEN 0 ELSE held[s] * Ratio(s, d) + more(s)
  <2>1. ASSUME NEW s \in Symbols PROVE held[s] * Ratio(s, d) \in Nat
    <3>1. held[s] \in Nat /\ Ratio(s, d) \in Nat
      BY RatioType DEF TypeOK, Positive
    <3> HIDE DEF d
    <3> QED BY <3>1
  <2>2. ASSUME NEW s \in Symbols PROVE now(s) \in Nat
    <3>1. Before(s, d) \in Symbols
      BY BeforeIs
    <3> HIDE DEF d
    <3>2. more(s) \in Nat
      BY <2>1, <3>1
    <3> QED BY <2>1, <3>2
  <2>3. held' = [s \in Symbols |-> now(s)]
    BY DEF NewDay
  <2> HIDE DEF now
  <2> QED BY <2>2, <2>3
<1>4. market' \in [Symbols -> [close : 0..High, low : 0..Low]]
  <2> DEFINE now(b) == [close |-> market[b].close \div Ratio(b, d), low |-> market[b].low \div Ratio(b, d)]
  <2>1. ASSUME NEW b \in Symbols PROVE now(b) \in [close : 0..High, low : 0..Low]
    <3> DEFINE r == Ratio(b, d)
               c == market[b].close
               l == market[b].low
    <3>1. r \in Positive /\ c \in 0..High /\ l \in 0..Low
      BY RatioType DEF TypeOK
    <3> HIDE DEF r, c, l
    <3>2. c \div r \in 0..High /\ l \div r \in 0..Low
      BY <3>1, Quotient
    <3> QED BY <3>2 DEF r, c, l
  <2>2. market' = [s \in Symbols |-> now(Before(s, d))]
    BY DEF NewDay
  <2>3. \A s \in Symbols : Before(s, d) \in Symbols
    BY BeforeIs
  <2> HIDE DEF now
  <2> QED BY <2>1, <2>2, <2>3
<1>5. day' \in 0..MaxDay /\ stage' = "early" /\ UNCHANGED <<known, fill, booked, process, mixed>>
  BY DEF NewDay, TypeOK
<1>6. TypeOK'
  BY <1>1, <1>2, <1>3, <1>4, <1>5 DEF TypeOK, OnlyStops, GoodRow
<1> QED BY <1>1, <1>5, <1>6, StopsFitOn

-----------------------------------------------------------------------------
\* The broker.
LEMMA TypedFill ==
    ASSUME TypeOK, NEW f \in Fills, NEW n \in Nat, NEW s \in Symbols,
           Len(fill) < MaxFills, fill' = Append(fill, f), held' = [held EXCEPT ![s] = n],
           UNCHANGED <<day, stage, name, known, market, booked, process, mixed>>,
           position' \in [Symbols -> Positions],
           \A x \in Symbols : IsOpen(position'[x]) \/ position'[x] = Flat
    PROVE  TypeOK'
<1>1. fill \in Seq(Fills) /\ booked \in 0..Len(fill) /\ Len(fill) \in Nat
  BY LenProperties DEF TypeOK
<1>2. fill' \in Seq(Fills) /\ Len(fill') = Len(fill) + 1
  BY <1>1, AppendProperties
<1>3. Len(fill') <= MaxFills /\ booked' \in 0..Len(fill')
  BY <1>1, <1>2
<1>4. held' \in [Symbols -> Nat]
  BY DEF TypeOK
<1> QED BY <1>2, <1>3, <1>4 DEF TypeOK

LEMMA ReservedType ==
    ASSUME TypeOK, NEW s
    PROVE  Reserved(s) \in Nat
<1> DEFINE X == { y \in Symbols : position[y].stop.at = s }
           pairs == [x \in X |-> {x} \X (1..position[x].stop.qty)]
           C == { {x} \X (1..position[x].stop.qty) : x \in X }
<1>1. IsFiniteSet(X)
  BY FS_Subset
<1>2. IsFiniteSet(C)
  <2>1. pairs \in Surjection(X, C)
    BY DEF Surjection
  <2> HIDE DEF X, C, pairs
  <2> QED BY <1>1, <2>1, FS_Surjection
<1>3. ASSUME NEW T \in C PROVE IsFiniteSet(T)
  <2>1. PICK x \in X : T = {x} \X (1..position[x].stop.qty)
    OBVIOUS
  <2>2. position[x].stop.qty \in Nat
    <3> DEFINE u == position[x].stop
    <3>1. u \in Stops
      BY <2>1, RowsAreGood
    <3> HIDE DEF u
    <3>2. u = NoStop \/ u.qty \in Nat
      BY <3>1, StopIs, StopFields
    <3>3. NoStop.qty \in Nat
      BY DEF NoStop
    <3> QED BY <3>2, <3>3 DEF u
  <2>3. IsFiniteSet(Column(x, position[x].stop.qty))
    BY <2>2, ColumnSize
  <2> QED BY <2>1, <2>3 DEF Column
<1>4. IsFiniteSet(UNION C)
  <2> HIDE DEF C
  <2> QED BY <1>2, <1>3, FS_UNION
<1> QED BY <1>4, FS_CardinalityType DEF Reserved

LEMMA TypedBrokerFill ==
    ASSUME TypeOK, StopsFit, NEW s \in Symbols, NEW q \in -MaxQty..MaxQty, BrokerFill(s, q)
    PROVE  TypeOK' /\ StopsFit'
<1> DEFINE f == [symbol |-> s, at |-> s, qty |-> q, day |-> day]
           n == held[s] + q
<1>1. f \in Fills
  BY DEF BrokerFill, TypeOK, Fills
<1>2. n \in Nat
  <2>1. held[s] \in Nat /\ Reserved(s) \in Nat
    BY ReservedType DEF TypeOK
  <2>2. held[s] + q >= Reserved(s)
    BY DEF BrokerFill
  <2>3. q \in Int
    OBVIOUS
  <2> QED BY <2>1, <2>2, <2>3
<1>3. /\ Len(fill) < MaxFills /\ fill' = Append(fill, f) /\ held' = [held EXCEPT ![s] = n]
      /\ UNCHANGED <<day, stage, name, known, market, booked, position, process, mixed>>
  BY DEF BrokerFill
<1> HIDE DEF f, n
<1>4. /\ position' \in [Symbols -> Positions]
      /\ \A x \in Symbols : IsOpen(position'[x]) \/ position'[x] = Flat
  BY <1>3 DEF TypeOK
<1>5. TypeOK'
  BY <1>1, <1>2, <1>3, <1>4, TypedFill
<1> QED BY <1>3, <1>5 DEF StopsFit, Untouched

\* A stop leaves the broker.
LEMMA FiredStops ==
    ASSUME TypeOK, NEW s \in Symbols, StopFires(s)
    PROVE  OnlyStops /\ StopsGoOn
<1> DEFINE u == [position[s] EXCEPT !.stop = NoStop]
<1>1. position' = [position EXCEPT ![s] = u]
  BY DEF StopFires
<1>2. GoodRow(position[s])
  BY RowsAreGood
<1>3. /\ GoodRow(u) /\ u.stop = NoStop /\ u \in Positions
      /\ u.qty = position[s].qty /\ u.level = position[s].level
      /\ u.opened = position[s].opened /\ u.applied = position[s].applied
  BY <1>2, LiveIsStop, Restocked DEF GoodRow
<1> HIDE DEF u
<1>4. position \in [Symbols -> Positions]
  BY DEF TypeOK
<1>5. \A x \in Symbols : x # s => position'[x] = position[x] /\ GoodRow(position[x])
  BY <1>1, <1>4, RowsAreGood
<1>6. position'[s] = u
  BY <1>1, <1>4
<1>7. OnlyStops
  BY <1>1, <1>3, <1>4, <1>5, <1>6 DEF OnlyStops
<1>8. StopsGoOn
  <2> SUFFICES ASSUME NEW x \in Symbols
               PROVE  LET t == position[x].stop  w == position'[x].stop IN
                      \/ ~Live(w)
                      \/ /\ Live(t) /\ w.booked = t.booked /\ w.applied = t.applied
                         /\ w.split \/ (w.qty = t.qty /\ w.level = t.level /\ (w.split <=> t.split))
    BY DEF StopsGoOn
  <2>1. CASE x = s
    BY <1>3, <1>6, <2>1, LiveIsStop
  <2>2. CASE x # s
    BY <1>5, <2>2
  <2> QED BY <2>1, <2>2
<1> QED BY <1>7, <1>8

LEMMA TypedStopFires ==
    ASSUME TypeOK, StopsFit, NEW s \in Symbols, StopFires(s)
    PROVE  TypeOK' /\ StopsFit'
<1> DEFINE t == position[s].stop
           f == [symbol |-> t.name, at |-> t.at, qty |-> -t.qty, day |-> day]
           n == held[t.at] - t.qty
<1>1. OnlyStops /\ StopsGoOn
  BY FiredStops
<1>2. /\ Live(t) /\ t.qty <= held[t.at] /\ Len(fill) < MaxFills /\ fill' = Append(fill, f)
      /\ held' = [held EXCEPT ![t.at] = n]
      /\ UNCHANGED <<day, stage, name, known, market, booked, process, mixed>>
  BY DEF StopFires
<1>3. t \in LiveStops
  BY <1>2, RowsAreGood, StopIs
<1> HIDE DEF t
<1>4. t.name \in Symbols /\ t.at \in Symbols /\ t.qty \in Nat /\ t.qty > 0
  BY <1>3, StopFields
<1>5. f \in Fills
  <2>1. -t.qty \in Int \ {0}
    BY ONLY <1>4
  <2>2. day \in 0..MaxDay
    BY DEF TypeOK
  <2> QED BY <1>4, <2>1, <2>2 DEF Fills
<1>6. n \in Nat
  <2>1. held[t.at] \in Nat
    BY <1>4 DEF TypeOK
  <2> QED BY <1>2, <1>4, <2>1
<1>7. /\ position' \in [Symbols -> Positions]
      /\ \A x \in Symbols : IsOpen(position'[x]) \/ position'[x] = Flat
  BY <1>1 DEF OnlyStops, GoodRow
<1> HIDE DEF f, n
<1>8. TypeOK'
  BY <1>2, <1>4, <1>5, <1>6, <1>7, TypedFill
<1> QED BY <1>1, <1>2, <1>8, StopsFitOn

-----------------------------------------------------------------------------
\* The jobs.
Due(s) == { a \in Splits \cap known :
              a.symbol = s /\ Fetched(s, a.ex) /\ a \notin position[s].applied }
Scaled(s) == ScaleOnce(position[s], s)

LEMMA ScaledIs ==
    ASSUME TypeOK, NEW s \in Symbols
    PROVE  LET p == position[s]  q == Scaled(s) IN
           /\ GoodRow(q) /\ Due(s) \in SUBSET Splits /\ Due(s) \cap p.applied = {}
           /\ q.qty = p.qty * Factor(Due(s)) /\ q.level = p.level \div Factor(Due(s))
           /\ q.opened = p.opened /\ q.stop = p.stop /\ q.applied = p.applied \cup Due(s)
           /\ IsOpen(q) <=> IsOpen(p)
           /\ Due(s) = {} => q = p
<1> DEFINE p == position[s]
           q == Scaled(s)
           m == Factor(Due(s))
<1>1. p \in Positions /\ GoodRow(p)
  BY RowsAreGood DEF GoodRow
<1>2. Due(s) \in SUBSET Splits /\ Due(s) \cap p.applied = {} /\ (~IsOpen(p) => Due(s) = {})
  BY DEF Due, Fetched
<1>3. q = [p EXCEPT !.qty = @ * m, !.level = @ \div m, !.applied = @ \cup Due(s)]
  BY DEF Scaled, ScaleOnce, Due
<1>4. m \in Positive /\ (Due(s) = {} => m = 1)
  BY <1>2, FactorType, FactorNone
<1> HIDE DEF p, q, m
<1> DEFINE n == p.qty * m
           l == p.level \div m
<1>5. p.qty \in Nat /\ p.level \in Nat /\ p.applied \in SUBSET Splits
      /\ p.opened \in 0..MaxDay /\ p.stop \in Stops
      /\ p = [qty |-> p.qty, level |-> p.level, opened |-> p.opened,
              applied |-> p.applied, stop |-> p.stop]
  BY <1>1, RowFields
<1>6. q = [qty |-> n, level |-> l, opened |-> p.opened,
           applied |-> p.applied \cup Due(s), stop |-> p.stop]
  BY <1>3, <1>5
<1>7. n \in Nat /\ l \in Nat /\ (n > 0 <=> p.qty > 0)
  <2>1. l \in Nat
    BY <1>4, <1>5, Quotient
  <2>2. n \in Nat /\ (n > 0 <=> p.qty > 0)
    BY <1>4, <1>5 DEF Positive
  <2> QED BY <2>1, <2>2
<1>8. m = 1 => n = p.qty /\ l = p.level
  BY <1>5
<1> HIDE DEF n, l
<1>9. q \in Positions /\ (IsOpen(q) <=> IsOpen(p))
  BY <1>2, <1>5, <1>6, <1>7 DEF Positions, IsOpen
<1>10. Due(s) = {} => q = p
  BY <1>4, <1>5, <1>6, <1>8
<1>11. GoodRow(q)
  <2>1. CASE IsOpen(p)
    BY <1>9, <2>1 DEF GoodRow
  <2>2. CASE ~IsOpen(p)
    BY <1>1, <1>2, <1>10, <2>2
  <2> QED BY <2>1, <2>2
<1> QED BY <1>2, <1>6, <1>9, <1>10, <1>11 DEF p, q, m, n, l

\* Where the position of a symbol comes from after the job.
ComesFrom(s, o) ==
    \/ o = s /\ \A c \in DueChanges : c.old # s /\ c.new # s
    \/ \E c \in DueChanges : c.old = o /\ c.new = s

LEMMA JobMoves ==
    ASSUME TypeOK, ApplyCorporateActions, NEW s \in Symbols
    PROVE  \/ position'[s] = Flat /\ \E c \in DueChanges : c.old = s
           \/ \E o \in Symbols : ComesFrom(s, o) /\ position'[s] = Scaled(o)
<1> DEFINE pos == [x \in Symbols |-> ScaleOnce(position[x], x)]
           from == { c \in DueChanges : c.new = s }
           e == CHOOSE c \in from : TRUE
<1>1. position' = ChangeSymbols(pos)
  BY DEF ApplyCorporateActions
<1>2. \A x \in Symbols : pos[x] = Scaled(x)
  BY DEF Scaled
<1> HIDE DEF pos
<1>3. CASE \E c \in DueChanges : c.old = s
  BY <1>1, <1>3 DEF ChangeSymbols
<1>4. CASE (\A c \in DueChanges : c.old # s) /\ from = {}
  <2>1. position'[s] = pos[s]
    BY <1>1, <1>4 DEF ChangeSymbols
  <2>2. ComesFrom(s, s)
    BY <1>4 DEF ComesFrom
  <2> QED BY <1>2, <2>1, <2>2
<1>5. CASE (\A c \in DueChanges : c.old # s) /\ from # {}
  <2>1. position'[s] = pos[e.old]
    BY <1>1, <1>5 DEF ChangeSymbols
  <2>2. e \in from
    BY <1>5
  <2> HIDE DEF e
  <2>3. e \in Changes /\ e \in DueChanges /\ e.new = s
    BY <2>2 DEF DueChanges
  <2>4. e.old \in Symbols /\ ComesFrom(s, e.old)
    BY <2>3 DEF ComesFrom
  <2> QED BY <1>2, <2>1, <2>4
<1> QED BY <1>3, <1>4, <1>5

LEMMA TypedApply ==
    ASSUME TypeOK, StopsFit, ApplyCorporateActions
    PROVE  TypeOK' /\ StopsFit'
<1>1. /\ stage' = "rearming"
      /\ UNCHANGED <<day, name, known, held, market, fill, booked, process, mixed>>
  BY DEF ApplyCorporateActions, outside
<1>2. ASSUME NEW s \in Symbols PROVE GoodRow(position'[s])
  BY JobMoves, ScaledIs, FlatRow
<1>3. position' \in [Symbols -> Positions]
  <2>1. position' = [s \in Symbols |-> position'[s]]
    BY DEF ApplyCorporateActions, ChangeSymbols
  <2>2. \A s \in Symbols : position'[s] \in Positions
    BY <1>2 DEF GoodRow
  <2> QED BY <2>1, <2>2
<1>4. TypeOK'
  BY <1>1, <1>2, <1>3 DEF TypeOK, GoodRow
<1>5. StopsFit'
  <2> SUFFICES ASSUME NEW s \in Symbols, Live(position'[s].stop)
               PROVE  LET q == position'[s] IN
                      /\ q.stop.applied \subseteq q.applied /\ q.stop.booked <= booked
                      /\ Untouched(q) => q.stop.qty = q.qty /\ q.stop.level \in {AtMarket, q.level}
    BY <1>1 DEF StopsFit, Untouched
  <2>1. position'[s] # Flat
    BY FlatRow, LiveIsStop
  <2>2. PICK o \in Symbols : position'[s] = Scaled(o)
    BY <2>1, JobMoves
  <2> DEFINE p == position[o]
             q == Scaled(o)
  <2>3. /\ q.stop = p.stop /\ q.applied = p.applied \cup Due(o) /\ Due(o) \cap p.applied = {}
        /\ Due(o) = {} => q = p
    BY ScaledIs
  <2>4. /\ p.stop.applied \subseteq p.applied /\ p.stop.booked <= booked
        /\ Untouched(p) => p.stop.qty = p.qty /\ p.stop.level \in {AtMarket, p.level}
    BY <2>2, <2>3 DEF StopsFit
  <2> HIDE DEF p, q
  <2>5. Untouched(q) => Due(o) = {}
    BY <2>3, <2>4 DEF Untouched
  <2>6. /\ q.stop.applied \subseteq q.applied /\ q.stop.booked <= booked
        /\ Untouched(q) => q.stop.qty = q.qty /\ q.stop.level \in {AtMarket, q.level}
    BY <2>3, <2>4, <2>5
  <2> QED BY <2>2, <2>6 DEF q
<1> QED BY <1>4, <1>5

LEMMA RearmedIs ==
    ASSUME TypeOK, NEW s \in Symbols
    PROVE  LET p == position[s]  q == Rearmed(s) IN
           /\ GoodRow(q)
           /\ q.qty = p.qty /\ q.level = p.level /\ q.opened = p.opened /\ q.applied = p.applied
           /\ \/ q = p /\ (IsOpen(p) /\ p.level # NoLevel => Live(p.stop))
              \/ /\ IsOpen(p) /\ ~Live(p.stop)
                 /\ \/ q.stop = Order(s, AtMarket) /\ market[s].close <= p.level
                    \/ q.stop = Order(s, p.level)
<1> DEFINE p == position[s]
           q == Rearmed(s)
<1>1. GoodRow(p) /\ p \in Positions
  BY RowsAreGood DEF GoodRow
<1>2. CASE ~IsOpen(p) \/ p.level = NoLevel \/ Live(p.stop)
  BY <1>1, <1>2 DEF Rearmed
<1>3. CASE IsOpen(p) /\ p.level # NoLevel /\ ~Live(p.stop)
  <2> DEFINE l == IF market[s].close <= p.level THEN AtMarket ELSE p.level
             u == Order(s, l)
  <2>1. q = [p EXCEPT !.stop = u]
    <3>1. CASE market[s].close <= p.level
      BY <1>3, <3>1 DEF Rearmed
    <3>2. CASE ~(market[s].close <= p.level)
      BY <1>3, <3>2 DEF Rearmed
    <3> QED BY <3>1, <3>2
  <2>2. l \in Nat \cup {AtMarket}
    BY <1>1, RowFields
  <2>3. p.qty \in Nat \ {0} /\ p.applied \in SUBSET Splits /\ booked \in 0..MaxFills
    <3>1. p.qty \in Nat /\ p.applied \in SUBSET Splits
      BY <1>1, RowFields
    <3>2. p.qty > 0
      BY <1>3 DEF IsOpen
    <3>3. booked \in 0..MaxFills
      BY FillIs DEF TypeOK
    <3> QED BY <3>1, <3>2, <3>3
  <2> HIDE DEF l
  <2>4. u \in LiveStops
    BY <2>2, <2>3 DEF Order, LiveStops
  <2>5. u \in Stops
    BY <2>4, LiveIsStop
  <2>6. p # Flat
    BY <1>3, FlatRow
  <2> HIDE DEF p, u
  <2>7. GoodRow(q) /\ q.stop = u /\ q.qty = p.qty /\ q.level = p.level
        /\ q.opened = p.opened /\ q.applied = p.applied
    BY <1>1, <2>1, <2>5, <2>6, Restocked
  <2> QED BY <1>3, <2>7 DEF p, u, l
<1> QED BY <1>2, <1>3

LEMMA RearmFacts ==
    ASSUME TypeOK, StopsFit, Rearm
    PROVE  OnlyStops /\ StopsFit'
<1>1. CASE \A s \in Symbols : position'[s] = Rearmed(s)
  <2>1. OnlyStops
    <3>1. position' \in [Symbols -> Positions]
      <4>1. position' = [s \in Symbols |-> position'[s]]
        BY DEF Rearm, TypeOK
      <4>2. \A s \in Symbols : position'[s] \in Positions
        BY <1>1, RearmedIs DEF GoodRow
      <4> QED BY <4>1, <4>2
    <3> QED BY <1>1, <3>1, RearmedIs DEF OnlyStops
  <2>2. StopsFit'
    <3> SUFFICES ASSUME NEW s \in Symbols, Live(position'[s].stop)
                 PROVE  LET q == position'[s] IN
                        /\ q.stop.applied \subseteq q.applied /\ q.stop.booked <= booked
                        /\ Untouched(q) => q.stop.qty = q.qty /\ q.stop.level \in {AtMarket, q.level}
      BY DEF StopsFit, Untouched, Rearm
    <3>1. position'[s] = Rearmed(s)
      BY <1>1
    <3>2. CASE Rearmed(s) = position[s]
      BY <3>1, <3>2 DEF StopsFit
    <3>3. CASE Rearmed(s) # position[s]
      <4> DEFINE p == position[s]
                 q == Rearmed(s)
      <4>1. PICK l \in {AtMarket, p.level} : q.stop = Order(s, l)
        BY <3>3, RearmedIs
      <4>2. q.stop.applied = p.applied /\ q.stop.booked = booked /\ q.stop.qty = p.qty
            /\ q.stop.level = l
        BY <4>1 DEF Order
      <4>3. q.qty = p.qty /\ q.level = p.level /\ q.applied = p.applied
        BY RearmedIs
      <4>4. booked <= booked
        BY FillIs
      <4> HIDE DEF p, q
      <4> QED BY <3>1, <4>1, <4>2, <4>3, <4>4 DEF q
    <3> QED BY <3>2, <3>3
  <2> QED BY <2>1, <2>2
<1>2. CASE UNCHANGED position
  <2>1. OnlyStops
    BY <1>2, RowsAreGood DEF OnlyStops, TypeOK
  <2>2. StopsFit'
    BY <1>2 DEF StopsFit, Untouched, Rearm
  <2> QED BY <2>1, <2>2
<1>3. (\A s \in Symbols : position'[s] = Rearmed(s)) \/ UNCHANGED position
  BY DEF Rearm
<1> QED BY <1>1, <1>2, <1>3

LEMMA TypedRearm ==
    ASSUME TypeOK, StopsFit, Rearm
    PROVE  TypeOK' /\ StopsFit'
<1>1. OnlyStops /\ StopsFit'
  BY RearmFacts
<1>2. /\ stage' = "open" /\ process' \in {process, "down"}
      /\ UNCHANGED <<day, name, known, held, market, fill, booked, mixed>>
  BY DEF Rearm, outside
<1>3. TypeOK'
  BY <1>1, <1>2 DEF TypeOK, OnlyStops, GoodRow
<1> QED BY <1>1, <1>3

\* A boot that comes up.
LEMMA BootUp ==
    ASSUME TypeOK, Boot, process' = "up"
    PROVE  /\ Replayed.ok /\ Agrees /\ position' = Replayed.position /\ booked' = Len(fill)
           /\ (mixed' <=> (mixed \/ ~AllFresh))
           /\ position' \in [Symbols -> Positions]
           /\ \A s \in Symbols :
                 LET b == position'[s] IN
                 /\ GoodRow(b) /\ b.qty = held[s]
                 /\ booked = Len(fill) => b = position[s]
                 /\ \/ Resumes(b, position[s]) \/ b = Flat
                    \/ \E m \in (booked + 1)..Len(fill) : fill[m].symbol = s /\ OpenedBy(b, fill[m])
<1>1. /\ Replayed.ok /\ Agrees /\ position' = Replayed.position /\ booked' = Len(fill)
      /\ mixed' = (mixed \/ ~AllFresh)
  BY DEF Boot
<1>2. ReplayedTo(Len(fill))
  BY FillIs, ReplayedAlways
<1>3. After[Len(fill)].ok /\ position' = After[Len(fill)].position
  BY <1>1 DEF Replayed
<1>4. \A s \in Symbols : position'[s].qty = held[s]
  BY <1>1 DEF Agrees
<1> QED BY <1>1, <1>2, <1>3, <1>4 DEF ReplayedTo

LEMMA TypedBoot ==
    ASSUME TypeOK, StopsFit, Boot
    PROVE  TypeOK' /\ StopsFit'
<1>1. UNCHANGED <<day, stage, name, known, held, market, fill>>
  BY DEF Boot, outside
<1>2. CASE process' = "up"
  <2>1. /\ booked' = Len(fill) /\ position' \in [Symbols -> Positions]
        /\ (mixed' <=> (mixed \/ ~AllFresh))
        /\ \A s \in Symbols :
              LET b == position'[s] IN
              /\ GoodRow(b) /\ (booked = Len(fill) => b = position[s])
              /\ Resumes(b, position[s]) \/ b.stop = NoStop
    <3>1. \A b, f : OpenedBy(b, f) => b.stop = NoStop
      BY DEF OpenedBy, Flat
    <3> QED BY <1>2, <3>1, BootUp, FlatRow
  <2>2. mixed' \in BOOLEAN
    BY <1>2 DEF Boot, TypeOK
  <2>3. booked' \in 0..Len(fill) /\ booked' >= booked
    BY <2>1, FillIs
  <2>4. TypeOK'
    BY <1>1, <1>2, <2>1, <2>2, <2>3 DEF TypeOK, GoodRow
  <2>5. StopsFit'
    <3> SUFFICES ASSUME NEW s \in Symbols, Live(position'[s].stop)
                 PROVE  LET q == position'[s] IN
                        /\ q.stop.applied \subseteq q.applied /\ q.stop.booked <= booked'
                        /\ q.stop.booked = booked' /\ q.stop.applied = q.applied /\ ~q.stop.split
                              => q.stop.qty = q.qty /\ q.stop.level \in {AtMarket, q.level}
      BY DEF StopsFit, Untouched
    <3> DEFINE p == position[s]
               q == position'[s]
    <3>1. Resumes(q, p) /\ (booked = Len(fill) => q = p)
      BY <2>1, LiveIsStop
    <3>2. q.stop = p.stop /\ q.applied = p.applied
      <4>1. p \in Positions
        BY RowsAreGood DEF GoodRow
      <4>2. q = [p EXCEPT !.qty = q.qty]
        BY <3>1 DEF Resumes
      <4> HIDE DEF p, q
      <4> QED BY <4>1, <4>2 DEF Positions
    <3>3. /\ p.stop.applied \subseteq p.applied /\ p.stop.booked <= booked
          /\ Untouched(p) => p.stop.qty = p.qty /\ p.stop.level \in {AtMarket, p.level}
      BY <3>2 DEF StopsFit
    <3>4. p.stop.booked \in Nat
      <4> DEFINE u == p.stop
      <4>1. u \in LiveStops
        BY <3>2, RowsAreGood, StopIs
      <4> HIDE DEF u
      <4>2. u.booked \in 0..MaxFills
        BY <4>1, StopFields
      <4> QED BY <4>2 DEF u
    <3> HIDE DEF p, q
    <3>5. q.stop.booked = booked' => booked = Len(fill)
      BY <2>1, <2>3, <3>2, <3>3, <3>4, FillIs
    <3> QED BY <2>1, <2>3, <3>1, <3>2, <3>3, <3>4, <3>5, FillIs DEF q, Untouched
  <2> QED BY <2>4, <2>5
<1>3. CASE process' # "up"
  <2>1. process' = "halted" /\ UNCHANGED <<position, booked, mixed>>
    BY <1>3 DEF Boot
  <2> QED BY <1>1, <2>1 DEF TypeOK, StopsFit, Untouched
<1> QED BY <1>2, <1>3

\* Everything else leaves positions, fills and bookings alone.
LEMMA TypedRest ==
    ASSUME TypeOK, StopsFit,
           \/ \E a \in Splits \cup Changes : Announce(a)
           \/ \E s \in Symbols : Fall(s)
           \/ MissJob \/ Stop \/ Restart \/ UNCHANGED vars
    PROVE  TypeOK' /\ StopsFit'
<1>1. UNCHANGED <<position, booked>>
  BY DEF Announce, Fall, MissJob, Stop, Restart, vars
<1>2. StopsFit'
  BY <1>1 DEF StopsFit, Untouched
<1>3. CASE \E a \in Splits \cup Changes : Announce(a)
  BY <1>2, <1>3 DEF TypeOK, Announce
<1>4. CASE \E s \in Symbols : Fall(s)
  <2>1. PICK s \in Symbols : Fall(s)
    BY <1>4
  <2>2. market' \in [Symbols -> [close : 0..High, low : 0..Low]]
    <3>1. market \in [Symbols -> [close : 0..High, low : 0..Low]] /\ Low <= High
      BY DEF TypeOK
    <3>2. market' = [market EXCEPT ![s].close = market[s].low]
      BY <2>1 DEF Fall
    <3>3. market[s].low \in 0..High
      BY <3>1
    <3> QED BY <3>1, <3>2, <3>3
  <2> QED BY <1>2, <2>1, <2>2 DEF TypeOK, Fall
<1>5. CASE MissJob
  BY <1>2, <1>5 DEF TypeOK, MissJob, outside
<1>6. CASE Stop \/ Restart
  BY <1>2, <1>6 DEF TypeOK, Stop, Restart, outside
<1>7. CASE UNCHANGED vars
  BY <1>2, <1>7 DEF TypeOK, vars, outside
<1> QED BY <1>3, <1>4, <1>5, <1>6, <1>7

FirstRow(n, l) == [Flat EXCEPT !.qty = n, !.level = l]

LEMMA TypedInit == Init => TypeOK /\ StopsFit
<1> SUFFICES ASSUME Init PROVE TypeOK /\ StopsFit
  OBVIOUS
<1>0. /\ day = 0 /\ stage = "open" /\ name = [s \in Symbols |-> s] /\ known = {}
      /\ held \in [Symbols -> 0..MaxQty]
      /\ market = [s \in Symbols |-> [close |-> High, low |-> Low]]
      /\ fill = <<>> /\ booked = 0 /\ process = "up" /\ mixed = FALSE
      /\ \E level \in [Symbols -> {NoLevel, Low}] :
            position = [s \in Symbols |-> IF held[s] = 0 THEN Flat ELSE FirstRow(held[s], level[s])]
  BY Zenon DEF Init, FirstRow
<1>10. PICK level \in [Symbols -> {NoLevel, Low}] :
          position = [s \in Symbols |-> IF held[s] = 0 THEN Flat ELSE FirstRow(held[s], level[s])]
  BY <1>0
<1>1. ASSUME NEW s \in Symbols
      PROVE  GoodRow(position[s]) /\ ~Live(position[s].stop) /\ held[s] \in Nat
  <2>1. held[s] \in 0..MaxQty
    BY <1>0
  <2>2. CASE held[s] = 0
    <3>1. position[s] = Flat
      BY <1>10, <2>2
    <3> QED BY <2>2, <3>1, FlatRow, LiveIsStop
  <2>3. CASE held[s] # 0
    <3>1. position[s] = FirstRow(held[s], level[s])
      BY <1>10, <2>3
    <3>2. position[s] = [qty |-> held[s], level |-> level[s], opened |-> 0, applied |-> {}, stop |-> NoStop]
      BY <3>1 DEF Flat, FirstRow
    <3>3. NoStop \in Stops /\ ~Live(NoStop)
      BY LiveIsStop
    <3>4. held[s] \in Nat /\ held[s] > 0 /\ level[s] \in Nat /\ 0 \in 0..MaxDay
      BY <2>1, <2>3 DEF NoLevel
    <3>5. position[s] \in Positions
      BY <3>2, <3>3, <3>4 DEF Positions
    <3> QED BY <3>2, <3>3, <3>4, <3>5 DEF GoodRow, IsOpen
  <2> QED BY <2>2, <2>3
<1>2. position \in [Symbols -> Positions] /\ held \in [Symbols -> Nat]
  <2>1. position = [s \in Symbols |-> position[s]] /\ held = [s \in Symbols |-> held[s]]
    BY <1>0, <1>10
  <2>2. \A s \in Symbols : position[s] \in Positions /\ held[s] \in Nat
    BY <1>1 DEF GoodRow
  <2> QED BY <2>1, <2>2
<1>3. fill \in Seq(Fills) /\ Len(fill) = 0 /\ booked = 0
  BY <1>0
<1>4. market \in [Symbols -> [close : 0..High, low : 0..Low]]
  BY <1>0
<1>5. /\ name \in [Symbols -> Symbols] /\ known \subseteq Splits \cup Changes
      /\ day \in 0..MaxDay /\ stage \in {"early", "rearming", "open"}
      /\ process \in {"up", "down", "halted"} /\ mixed \in BOOLEAN
  <2>1. name = [s \in Symbols |-> s] /\ known = {} /\ day = 0
    BY <1>0
  <2>2. stage = "open" /\ process = "up" /\ mixed = FALSE
    BY <1>0
  <2>3. name \in [Symbols -> Symbols] /\ known \subseteq Splits \cup Changes /\ day \in 0..MaxDay
    BY <2>1
  <2>4. mixed \in BOOLEAN
    BY <2>2, Zenon
  <2> QED BY <2>2, <2>3, <2>4
<1>6. booked \in 0..Len(fill) /\ Len(fill) <= MaxFills
  BY <1>3
<1>7. \A s \in Symbols : IsOpen(position[s]) \/ position[s] = Flat
  BY <1>1 DEF GoodRow
<1>8. TypeOK
  BY <1>2, <1>3, <1>4, <1>5, <1>6, <1>7 DEF TypeOK
<1> QED BY <1>1, <1>8 DEF StopsFit

LEMMA TypedNext == TypeOK /\ StopsFit /\ [Next]_vars => TypeOK' /\ StopsFit'
<1> SUFFICES ASSUME TypeOK, StopsFit, [Next]_vars PROVE TypeOK' /\ StopsFit'
  OBVIOUS
<1>1. CASE NewDay
  BY <1>1, TypedNewDay
<1>2. CASE \E s \in Symbols : StopFires(s)
  BY <1>2, TypedStopFires
<1>3. CASE \E s \in Symbols, q \in -MaxQty..MaxQty : BrokerFill(s, q)
  BY <1>3, TypedBrokerFill
<1>4. CASE ApplyCorporateActions
  BY <1>4, TypedApply
<1>5. CASE Rearm
  BY <1>5, TypedRearm
<1>6. CASE Boot
  BY <1>6, TypedBoot
<1>7. CASE \/ \E a \in Splits \cup Changes : Announce(a)
           \/ \E s \in Symbols : Fall(s)
           \/ MissJob \/ Stop \/ Restart \/ UNCHANGED vars
  BY <1>7, TypedRest
<1> QED BY <1>1, <1>2, <1>3, <1>4, <1>5, <1>6, <1>7 DEF Next

LEMMA TypedAlways == Spec => [](TypeOK /\ StopsFit)
<1>1. Init => TypeOK /\ StopsFit
  BY TypedInit
<1>2. TypeOK /\ StopsFit /\ [Next]_vars => (TypeOK /\ StopsFit)'
  BY TypedNext
<1> QED BY <1>1, <1>2, PTL DEF Spec

\* A closed position keeps nothing of what it was, and whatever the nights and the
\* jobs make of an order, one that is live has shares and a symbol: over any splits
\* and changes. (apply_split, change_symbol, apply_fill, rearm)
THEOREM CorporateTypeCorrect == Spec => []TypeOK
<1> QED BY TypedAlways, PTL

-----------------------------------------------------------------------------
\* What the names are: a symbol that has not ended is its own, one that has ended
\* goes by what it was changed to, then or later.
Names ==
    /\ \A s \in Symbols : ~Ended(s, day) => name[s] = s
    /\ \A s \in Symbols : ~Ended(name[s], day)
    /\ \A c \in Changes : c.date <= day => name[c.old] = name[c.new]
    /\ \A s \in Symbols : Started(s, day) => Started(name[s], day)
    /\ \A s \in Symbols : name[s] = s \/ \E c, e \in Changes :
          c.new = name[s] /\ c.date <= day /\ e.old = s /\ e.date <= c.date

\* A position has a symbol that has traded, and no two are about the same shares.
Rows ==
    /\ \A s \in Symbols : IsOpen(position[s]) => Started(s, day) /\ position[s].opened <= day
    /\ \A s, x \in Symbols :
          IsOpen(position[s]) /\ IsOpen(position[x]) /\ name[s] = name[x] => s = x

\* The broker holds what trades.
Listings == \A s \in Symbols : ~Listed(s, day) => held[s] = 0

\* The splits after day o and until day d of the shares that x stands for.
Between(names, x, o, d) == { a \in Splits : names[a.symbol] = names[x] /\ a.ex \in (o + 1)..d }
OpenSince(x, o) == Between(name, x, o, day)

\* A fill is of shares that were trading.
FillsFit ==
    \A n \in (booked + 1)..Len(fill) :
       LET f == fill[n] IN
       /\ f.day <= day /\ Started(f.at, f.day)
       /\ f.qty > 0 => f.symbol = f.at

\* A level of n, when it is one, is low but for splits by a factor of m.
Gives(n, m, low) == n # NoLevel => low = n \div m

\* A level is Low in the prices of the day the position's last split left it at.
Levels ==
    \A s \in Symbols :
       LET p == position[s] IN
       IsOpen(p) /\ ~OpenedAfterSplit(p) =>
          /\ p.applied \subseteq Since(p, s)
          /\ Gives(p.level, Factor(Since(p, s) \ p.applied), market[name[s]].low)

LEMMA ActionFields ==
    /\ \A a \in Splits : a.symbol \in Symbols /\ a.ex \in Nat /\ a.ex >= 1 /\ a.ratio \in Positive
    /\ \A c \in Changes : c.old \in Symbols /\ c.new \in Symbols /\ c.date \in Nat /\ c.date >= 1
    /\ Window \in Nat /\ Lateness \in Nat /\ Lateness <= Window
BY DEF Positive

\* A change is neither undone nor repeated: its old symbol has not ended before, its
\* new one has not started before and does not end with it.
LEMMA ChangeIs ==
    ASSUME ActionsAssumption, NEW c \in Changes, NEW d \in Nat, c.date = d + 1
    PROVE  /\ ~Ended(c.old, d) /\ ~Started(c.new, d) /\ ~Ended(c.new, d) /\ c.old # c.new
           /\ ~Ended(c.new, d + 1) /\ Started(c.new, d + 1) /\ Ended(c.old, d + 1)
<1>1. \A e \in Changes : e.old = c.old => e = c
  BY DEF ActionsAssumption
<1>2. \A e \in Changes : e.new = c.new => e = c
  BY DEF ActionsAssumption
<1>3. \A e \in Changes : e.old = c.new => c.date + Window < e.date
  BY DEF ActionsAssumption
<1>4. \A e \in Changes : e.old = c.new => d + 1 < e.date
  BY <1>3, ActionFields
<1>5. c.old # c.new
  BY <1>3, ActionFields
<1> QED BY <1>1, <1>2, <1>4, <1>5, ActionFields DEF Ended, Started

LEMMA NamesNight ==
    ASSUME ActionsAssumption, TypeOK, Names, NewDay
    PROVE  Names'
<1> DEFINE d == day + 1
<1>1. day \in Nat /\ day' = d /\ d \in Nat
  BY DEF NewDay, TypeOK
<1>2. \A s \in Symbols : name[s] \in Symbols /\ name'[s] = NewName(name[s], d)
  BY DEF NewDay, TypeOK
<1>3. \A s \in Symbols : Ended(s, day) => Ended(s, d)
  BY <1>1, ActionFields DEF Ended
<1>4. \A s \in Symbols : Started(s, day) => Started(s, d)
  BY <1>1, ActionFields DEF Started
<1>5. \A c \in Changes : c.date <= d <=> (c.date <= day \/ c.date = day + 1)
  BY <1>1, ActionFields
<1>6. ASSUME NEW u \in Symbols, ~Ended(u, day)
      PROVE  /\ ~Ended(NewName(u, d), d)
             /\ Started(u, day) => Started(NewName(u, d), d)
             /\ ~Ended(u, d) => NewName(u, d) = u
  <2>1. CASE NewName(u, d) = u /\ \A c \in Changes : ~(c.old = u /\ c.date = d)
    <3>1. ~Ended(u, d)
      BY <1>5, <1>6, <2>1 DEF Ended
    <3> QED BY <1>4, <2>1, <3>1
  <2>2. CASE \E c \in Changes : c.old = u /\ c.date = d /\ NewName(u, d) = c.new
    <3>1. PICK c \in Changes : c.old = u /\ c.date = d /\ NewName(u, d) = c.new
      BY <2>2
    <3> QED BY <1>1, <3>1, ChangeIs
  <2> QED BY <2>1, <2>2, NewNameIs
<1> HIDE DEF d
<1>7. \A s \in Symbols : ~Ended(s, d) => name'[s] = s
  BY <1>2, <1>3, <1>6 DEF Names
<1>8. \A s \in Symbols : ~Ended(name'[s], d)
  BY <1>2, <1>6 DEF Names
<1>9. ASSUME NEW c \in Changes, c.date <= d PROVE name'[c.old] = name'[c.new]
  <2>1. CASE c.date <= day
    BY <1>2, <2>1, ActionFields DEF Names
  <2>2. CASE c.date = day + 1
    <3>1. ~Ended(c.old, day) /\ ~Ended(c.new, day) /\ ~Ended(c.new, d)
      BY <1>1, <2>2, ChangeIs DEF d
    <3>2. name[c.old] = c.old /\ name'[c.new] = c.new
      BY <1>7, <3>1, ActionFields DEF Names
    <3>3. NewName(c.old, d) = c.new
      <4>1. \A e \in Changes : e.old = c.old => e = c
        BY DEF ActionsAssumption
      <4>2. c.date = d
        BY <2>2 DEF d
      <4> QED BY <4>1, <4>2, NewNameIs, ActionFields
    <3> QED BY <1>2, <3>2, <3>3, ActionFields
  <2> QED BY <1>5, <1>9, <2>1, <2>2
<1>10. ASSUME NEW s \in Symbols, Started(s, d) PROVE Started(name'[s], d)
  <2>1. CASE Started(s, day)
    BY <1>2, <1>6, <2>1 DEF Names
  <2>2. CASE ~Started(s, day)
    <3>1. PICK e \in Changes : e.new = s /\ e.date = day + 1
      BY <1>5, <1>10, <2>2, <1>1, ActionFields DEF Started
    <3>2. ~Ended(s, d)
      BY <1>1, <3>1, ChangeIs DEF d
    <3> QED BY <1>7, <1>10, <3>2
  <2> QED BY <2>1, <2>2
<1>11. ASSUME NEW s \in Symbols, name'[s] # s
       PROVE  \E c, e \in Changes :
                 c.new = name'[s] /\ c.date <= d /\ e.old = s /\ e.date <= c.date
  <2>1. name[s] = s \/ \E c, e \in Changes :
           c.new = name[s] /\ c.date <= day /\ e.old = s /\ e.date <= c.date
    BY DEF Names
  <2>2. CASE name'[s] = name[s]
    BY <1>5, <1>11, <2>1, <2>2
  <2>3. CASE \E c \in Changes : c.old = name[s] /\ c.date = d /\ name'[s] = c.new
    <3>1. PICK c \in Changes : c.old = name[s] /\ c.date = d /\ name'[s] = c.new
      BY <2>3
    <3>2. c.date <= d
      BY <1>1, <3>1
    <3>3. \A e \in Changes : e.date <= day => e.date <= c.date
      BY <1>1, <3>1, ActionFields DEF d
    <3>4. \A e \in Changes, b \in Changes : e.date <= b.date /\ b.date <= day => e.date <= day
      BY <1>1, ActionFields
    <3> QED BY <2>1, <3>1, <3>2, <3>3, <3>4
  <2> QED BY <1>2, <2>2, <2>3, NewNameIs
<1> QED BY <1>1, <1>7, <1>8, <1>9, <1>10, <1>11 DEF Names, Ended, Started

\* The splits of one night.
Tonight(u) == { a \in Splits : a.symbol = u /\ a.ex = day + 1 }

LEMMA TonightFactor ==
    ASSUME ActionsAssumption, NEW u \in Symbols
    PROVE  Factor(Tonight(u)) = Ratio(u, day + 1) /\ Tonight(u) \in SUBSET Splits
<1>1. CASE Tonight(u) = {}
  BY <1>1, FactorNone DEF Ratio, Tonight
<1>2. CASE Tonight(u) # {}
  <2> DEFINE a == CHOOSE a \in Tonight(u) : TRUE
  <2>1. a \in Tonight(u)
    BY <1>2
  <2>2. Ratio(u, day + 1) = a.ratio
    BY <1>2 DEF Ratio, Tonight
  <2> HIDE DEF a
  <2>3. \A b \in Tonight(u) : b = a
    BY <2>1 DEF Tonight, ActionsAssumption
  <2>4. Tonight(u) = {a} /\ a \in Splits
    BY <2>1, <2>3 DEF Tonight
  <2> QED BY <2>2, <2>4, FactorOne
<1> QED BY <1>1, <1>2

\* What a night does to shares that were bought before it, whatever they are called.
LEMMA NightIs ==
    ASSUME ActionsAssumption, TypeOK, Names, Listings, NewDay,
           NEW x \in Symbols, Started(x, day)
    PROVE  LET u == name[x]  v == name'[x] IN
           /\ u \in Symbols /\ v \in Symbols /\ Listed(u, day) /\ Listed(v, day')
           /\ market'[v].low = market[u].low \div Ratio(u, day + 1)
           /\ held'[v] = held[u] * Ratio(u, day + 1)
           /\ \A a \in Splits : a.ex = day + 1 => (name'[a.symbol] = v <=> a \in Tonight(u))
           /\ \A y \in Symbols : Started(y, day) => (name'[y] = v <=> name[y] = u)
           /\ v = u \/ \E c \in Changes : c.old = u /\ c.new = v /\ c.date = day + 1
<1> DEFINE u == name[x]
           v == name'[x]
           d == day + 1
<1>1. day \in Nat /\ day' = d /\ d \in Nat /\ d > day
  <2>1. day \in 0..MaxDay
    BY DEF TypeOK
  <2>2. day' = d
    BY DEF NewDay
  <2> QED BY <2>1, <2>2
<1>2. Names'
  BY NamesNight
<1>3. \A s \in Symbols : name[s] \in Symbols /\ name'[s] = NewName(name[s], d)
  BY DEF NewDay, TypeOK
<1>4. u \in Symbols /\ v \in Symbols /\ Listed(u, day)
  BY <1>3, NewNameIs DEF Names, Listed
<1>5. ~Ended(v, d)
  BY <1>1, <1>2 DEF Names
<1>6. \/ v = u /\ \A c \in Changes : ~(c.old = u /\ c.date = d)
      \/ \E c \in Changes : c.old = u /\ c.date = d /\ v = c.new
  BY <1>3, <1>4, NewNameIs
<1>7. Listed(v, d)
  <2>1. CASE v = u
    <3>1. Started(u, d)
      BY <1>1, <1>4, ActionFields DEF Listed, Started
    <3> QED BY <1>5, <2>1, <3>1 DEF Listed
  <2>2. CASE \E c \in Changes : c.old = u /\ c.date = d /\ v = c.new
    BY <1>1, <1>5, <2>2, ChangeIs DEF Listed
  <2> QED BY <1>6, <2>1, <2>2
<1>8. Before(v, d) = u
  <2>1. CASE v = u
    <3>1. \A c \in Changes : c.new = u => c.date # d
      BY <1>1, <1>4, ActionFields DEF Listed, Started
    <3> QED BY <1>4, <2>1, <3>1, BeforeIs
  <2>2. CASE \E c \in Changes : c.old = u /\ c.date = d /\ v = c.new
    <3>1. PICK c \in Changes : c.old = u /\ c.date = d /\ v = c.new
      BY <2>2
    <3>2. \A e \in Changes : e.new = v => e = c
      BY <3>1 DEF ActionsAssumption
    <3> QED BY <1>4, <3>1, <3>2, BeforeIs
  <2> QED BY <1>6, <2>1, <2>2
<1>9. NewName(v, d) = v
  <2>1. \A c \in Changes : ~(c.old = v /\ c.date = d)
    BY <1>1, <1>5, ActionFields DEF Ended
  <2> QED BY <1>4, <2>1, NewNameIs
<1>10. market'[v].low = market[u].low \div Ratio(u, d)
  <2>1. market'[v] = [close |-> market[u].close \div Ratio(u, d), low |-> market[u].low \div Ratio(u, d)]
    BY <1>4, <1>8 DEF NewDay
  <2> QED BY <2>1
<1>11. held'[v] = held[u] * Ratio(u, d)
  <2>1. held'[v] = held[v] * Ratio(v, d) + (IF u = v THEN 0 ELSE held[u] * Ratio(u, d))
    BY <1>4, <1>8, <1>9 DEF NewDay
  <2>2. /\ held[u] \in Nat /\ held[v] \in Nat /\ Ratio(u, d) \in Nat /\ Ratio(v, d) \in Nat
    BY <1>4, RatioType DEF TypeOK, Positive
  <2>3. CASE u = v
    <3> HIDE DEF u, v, d
    <3> QED BY <2>1, <2>2, <2>3
  <2>4. CASE u # v
    <3>1. PICK c \in Changes : c.old = u /\ c.date = d /\ v = c.new
      BY <1>6, <2>4
    <3>2. ~Started(v, day)
      BY <1>1, <3>1, ChangeIs
    <3>3. held[v] = 0
      BY <1>4, <3>2 DEF Listings, Listed
    <3> HIDE DEF u, v, d
    <3> QED BY <2>1, <2>2, <2>4, <3>3
  <2> QED BY <2>3, <2>4
<1>12. ASSUME NEW a \in Splits, a.ex = d PROVE name'[a.symbol] = v <=> a \in Tonight(u)
  <2>1. /\ \A c \in Changes : c.old = a.symbol => d < c.date
        /\ \A c \in Changes : c.new = a.symbol => c.date < d
    BY <1>12 DEF ActionsAssumption
  <2>2. ~Ended(a.symbol, d) /\ a.symbol \in Symbols
    BY <1>1, <2>1, ActionFields DEF Ended
  <2>3. name'[a.symbol] = a.symbol
    BY <1>1, <1>2, <2>2 DEF Names
  <2>4. CASE v = u
    BY <1>12, <2>3, <2>4 DEF Tonight
  <2>5. CASE v # u
    <3>1. PICK c \in Changes : c.old = u /\ c.date = d /\ v = c.new
      BY <1>6, <2>5
    <3>2. a.symbol # u /\ a.symbol # v
      BY <1>1, <2>1, <3>1
    <3> QED BY <2>3, <3>2 DEF Tonight
  <2> QED BY <2>4, <2>5
<1>13. ASSUME NEW y \in Symbols, Started(y, day) PROVE name'[y] = v <=> name[y] = u
  <2> DEFINE w == name[y]
  <2>1. w \in Symbols /\ Listed(w, day) /\ Started(u, day)
    BY <1>3, <1>4, <1>13 DEF Names, Listed
  <2>2. \/ NewName(w, d) = w /\ \A c \in Changes : ~(c.old = w /\ c.date = d)
        \/ \E c \in Changes : c.old = w /\ c.date = d /\ NewName(w, d) = c.new
    BY <2>1, NewNameIs
  <2>3. ASSUME NewName(w, d) = v PROVE w = u
    <3>1. \A c \in Changes : c.date = d => c.new # w /\ c.new # u
      BY <1>1, <2>1, ChangeIs DEF Listed
    <3>2. \A c, e \in Changes : c.new = e.new => c = e
      BY DEF ActionsAssumption
    <3> HIDE DEF u, v, w, d
    <3> QED BY <1>6, <2>2, <2>3, <3>1, <3>2
  <2> QED BY <1>3, <2>3
<1> QED BY <1>1, <1>4, <1>6, <1>7, <1>10, <1>11, <1>12, <1>13

\* So the splits since a day grow by those of the night.
LEMMA SinceNight ==
    ASSUME ActionsAssumption, TypeOK, Names, Listings, NewDay,
           NEW x \in Symbols, Started(x, day), NEW o \in Nat, o <= day
    PROVE  /\ OpenSince(x, o)' = OpenSince(x, o) \cup Tonight(name[x])
           /\ OpenSince(x, o) \cap Tonight(name[x]) = {}
<1>1. day \in Nat /\ day' = day + 1
  BY DEF NewDay, TypeOK
<1>2. /\ \A a \in Splits : a.ex = day + 1 => (name'[a.symbol] = name'[x] <=> a \in Tonight(name[x]))
      /\ \A y \in Symbols : Started(y, day) => (name'[y] = name'[x] <=> name[y] = name[x])
  BY NightIs
<1>3. ASSUME NEW a \in Splits, a.ex <= day PROVE Started(a.symbol, day)
  <2>1. \A c \in Changes : c.new = a.symbol => c.date < a.ex
    BY DEF ActionsAssumption
  <2> QED BY <1>1, <1>3, <2>1, ActionFields DEF Started
<1>4. \A a \in Splits : a.ex \in (o + 1)..(day + 1) <=> (a.ex = day + 1 \/ a.ex \in (o + 1)..day)
  BY <1>1, ActionFields
<1>5. ASSUME NEW a \in Splits
      PROVE  (name'[a.symbol] = name'[x] /\ a.ex \in (o + 1)..(day + 1))
             <=> (a \in Tonight(name[x]) \/ (name[a.symbol] = name[x] /\ a.ex \in (o + 1)..day))
  <2>1. CASE a.ex = day + 1
    <3>1. a.ex \notin (o + 1)..day
      BY <1>1, <2>1
    <3> QED BY <1>2, <1>4, <2>1, <3>1
  <2>2. CASE a.ex \in (o + 1)..day
    <3>1. a.ex <= day /\ a.ex # day + 1 /\ a.symbol \in Symbols
      BY <1>1, <2>2, ActionFields
    <3>2. a \notin Tonight(name[x])
      BY <3>1 DEF Tonight
    <3> QED BY <1>2, <1>3, <1>4, <2>2, <3>1, <3>2
  <2>3. CASE a.ex # day + 1 /\ a.ex \notin (o + 1)..day
    BY <1>4, <2>3 DEF Tonight
  <2> QED BY <2>1, <2>2, <2>3
<1>6. OpenSince(x, o)' = OpenSince(x, o) \cup Tonight(name[x])
  BY <1>1, <1>5 DEF OpenSince, Between, Tonight
<1>7. OpenSince(x, o) \cap Tonight(name[x]) = {}
  BY <1>1 DEF OpenSince, Between, Tonight
<1> QED BY <1>6, <1>7

\* A step that changes no day, no name and nothing of a row but its stop.
LEMMA Calm ==
    ASSUME TypeOK, Names, Rows, Levels, OnlyStops, UNCHANGED <<day, name>>,
           \A s \in Symbols : market'[s].low = market[s].low
    PROVE  Names' /\ Rows' /\ Levels'
<1>1. day' = day /\ name' = name
  OBVIOUS
<1>2. Names'
  BY <1>1 DEF Names, Started, Ended
<1>3. \A s \in Symbols :
         LET p == position[s]  q == position'[s] IN
         q.qty = p.qty /\ q.level = p.level /\ q.opened = p.opened /\ q.applied = p.applied
  BY DEF OnlyStops
<1>4. Rows'
  BY <1>1, <1>3 DEF Rows, Started, IsOpen
<1>5. Levels'
  <2> SUFFICES ASSUME NEW s \in Symbols, IsOpen(position'[s]), ~OpenedAfterSplit(position'[s])
               PROVE  LET q == position'[s]  S == OpenSince(s, q.opened) IN
                      /\ q.applied \subseteq S
                      /\ Gives(q.level, Factor(S \ q.applied), market'[name[s]].low)
    BY <1>1 DEF Levels, Since, OpenedAfterSplit, IsOpen, OpenSince, Between
  <2> DEFINE p == position[s]
             q == position'[s]
             S == OpenSince(s, p.opened)
  <2>1. q.qty = p.qty /\ q.level = p.level /\ q.opened = p.opened /\ q.applied = p.applied
    BY <1>3
  <2>2. market'[name[s]].low = market[name[s]].low
    BY DEF TypeOK
  <2>3. IsOpen(p) /\ ~OpenedAfterSplit(p)
    BY <2>1 DEF OpenedAfterSplit, IsOpen
  <2>4. /\ p.applied \subseteq S
        /\ Gives(p.level, Factor(S \ p.applied), market[name[s]].low)
    BY <2>3 DEF Levels, Since, OpenSince, Between
  <2>5. OpenSince(s, q.opened) = S
    BY <2>1
  <2> HIDE DEF p, q, S
  <2> QED BY <2>1, <2>2, <2>4, <2>5 DEF q
<1> QED BY <1>2, <1>4, <1>5

LEMMA CalmFills ==
    ASSUME FillsFit, Listings, UNCHANGED <<day, fill, booked, held>>
    PROVE  FillsFit' /\ Listings'
<1>1. Listings'
  BY DEF Listings, Listed, Started, Ended
<1>2. FillsFit'
  BY DEF FillsFit, Started
<1> QED BY <1>1, <1>2

Placed == Names /\ Rows /\ Listings /\ FillsFit /\ Levels

LEMMA PlacedRest ==
    ASSUME TypeOK, Placed,
           \/ \E a \in Splits \cup Changes : Announce(a)
           \/ \E s \in Symbols : Fall(s)
           \/ MissJob \/ Stop \/ Restart \/ UNCHANGED vars
    PROVE  Placed'
<1>1. UNCHANGED <<day, name, fill, booked, held, position>>
  BY DEF Announce, Fall, MissJob, Stop, Restart, vars, outside
<1>2. \A s \in Symbols : market'[s].low = market[s].low
  <2>1. CASE \E s \in Symbols : Fall(s)
    <3>1. PICK s \in Symbols : Fall(s)
      BY <2>1
    <3>2. market \in [Symbols -> [close : 0..High, low : 0..Low]]
          /\ market' = [market EXCEPT ![s].close = market[s].low]
      BY <3>1 DEF TypeOK, Fall
    <3> QED BY <3>2
  <2>2. CASE ~ \E s \in Symbols : Fall(s)
    <3>1. market' = market
      BY <2>2 DEF Announce, MissJob, Stop, Restart, vars, outside
    <3> QED BY <3>1
  <2> QED BY <2>1, <2>2
<1>3. OnlyStops
  BY <1>1, RowsAreGood DEF OnlyStops, TypeOK
<1> QED BY <1>1, <1>2, <1>3, Calm, CalmFills DEF Placed

LEMMA PlacedRearm ==
    ASSUME TypeOK, StopsFit, Placed, Rearm
    PROVE  Placed'
<1>1. UNCHANGED <<day, name, fill, booked, held, market>>
  BY DEF Rearm, outside
<1>2. OnlyStops
  BY RearmFacts
<1>3. \A s \in Symbols : market'[s].low = market[s].low
  BY <1>1
<1> QED BY <1>1, <1>2, <1>3, Calm, CalmFills DEF Placed

\* A fill the broker has now, of shares that trade today.
LEMMA PlacedFill ==
    ASSUME TypeOK, Placed, OnlyStops, NEW f \in Fills, NEW s \in Symbols, NEW n \in Nat,
           Listed(s, day), f.day = day, f.at = s,
           f.qty > 0 => f.symbol = s,
           fill' = Append(fill, f), held' = [held EXCEPT ![s] = n],
           UNCHANGED <<day, name, booked, market>>
    PROVE  Placed'
<1>0. day' = day /\ name' = name /\ booked' = booked /\ market' = market
  OBVIOUS
<1>1. \A x \in Symbols : market'[x].low = market[x].low
  OBVIOUS
<1>2. Names' /\ Rows' /\ Levels'
  BY <1>1, Calm DEF Placed
<1>3. Listings'
  <2>1. \A x \in Symbols : ~Listed(x, day) => held[x] = 0 /\ x # s
    BY DEF Placed, Listings
  <2>2. \A x \in Symbols : x # s => held'[x] = held[x]
    BY DEF TypeOK
  <2> QED BY <1>0, <2>1, <2>2 DEF Listings, Listed, Started, Ended
<1>4. Len(fill') = Len(fill) + 1 /\ Len(fill) \in Nat /\ booked \in Nat
      /\ \A m \in (booked + 1)..(Len(fill) + 1) :
            (m \in (booked + 1)..Len(fill) /\ fill'[m] = fill[m]) \/ fill'[m] = f
  <2>1. fill \in Seq(Fills)
    BY DEF TypeOK
  <2>2. /\ Len(fill') = Len(fill) + 1 /\ fill'[Len(fill) + 1] = f
        /\ \A m \in 1..Len(fill) : fill'[m] = fill[m]
    BY <2>1, AppendProperties
  <2> QED BY <2>2, FillIs
<1>5. FillsFit'
  <2> SUFFICES ASSUME NEW m \in (booked + 1)..(Len(fill) + 1)
               PROVE  LET g == fill'[m] IN
                      /\ g.day <= day /\ Started(g.at, g.day)
                      /\ g.qty > 0 => g.symbol = g.at
    BY <1>0, <1>4 DEF FillsFit, Started
  <2>1. CASE m \in (booked + 1)..Len(fill) /\ fill'[m] = fill[m]
    BY <2>1 DEF Placed, FillsFit
  <2>2. CASE fill'[m] = f
    <3>1. day <= day
      BY DEF TypeOK
    <3>2. Started(s, day)
      BY DEF Listed
    <3> QED BY <2>2, <3>1, <3>2
  <2> QED BY <1>4, <2>1, <2>2
<1> QED BY <1>2, <1>3, <1>5 DEF Placed

LEMMA PlacedBrokerFill ==
    ASSUME TypeOK, Placed, NEW s \in Symbols, NEW q \in -MaxQty..MaxQty, BrokerFill(s, q)
    PROVE  Placed'
<1> DEFINE f == [symbol |-> s, at |-> s, qty |-> q, day |-> day]
           n == held[s] + q
<1>1. /\ Listed(s, day) /\ q # 0 /\ n >= Reserved(s)
      /\ held' = [held EXCEPT ![s] = n] /\ fill' = Append(fill, f)
      /\ UNCHANGED <<day, name, market, booked, position>>
  BY DEF BrokerFill
<1>2. f \in Fills /\ n \in Nat
  <2>1. held[s] \in Nat /\ Reserved(s) \in Nat /\ day \in 0..MaxDay
    <3>1. Reserved(s) \in Nat
      BY ReservedType
    <3>2. held[s] \in Nat /\ day \in 0..MaxDay
      BY DEF TypeOK
    <3> QED BY <3>1, <3>2
  <2>2. n \in Nat
    BY <1>1, <2>1
  <2>3. q \in Int \ {0}
    BY <1>1
  <2> QED BY <2>1, <2>2, <2>3 DEF Fills
<1>3. f.day = day /\ f.at = s /\ f.symbol = s
  OBVIOUS
<1>4. OnlyStops
  BY <1>1, RowsAreGood DEF OnlyStops, TypeOK
<1> HIDE DEF f, n
<1> QED BY <1>1, <1>2, <1>3, <1>4, PlacedFill

LEMMA PlacedStopFires ==
    ASSUME TypeOK, Placed, NEW s \in Symbols, StopFires(s)
    PROVE  Placed'
<1> DEFINE t == position[s].stop
           f == [symbol |-> t.name, at |-> t.at, qty |-> -t.qty, day |-> day]
           n == held[t.at] - t.qty
<1>1. /\ Live(t) /\ t.qty <= held[t.at]
      /\ held' = [held EXCEPT ![t.at] = n] /\ fill' = Append(fill, f)
      /\ UNCHANGED <<day, name, market, booked>>
  BY DEF StopFires
<1>2. t \in LiveStops
  BY <1>1, RowsAreGood, StopIs
<1>3. t.name \in Symbols /\ t.at \in Symbols /\ t.qty \in Nat /\ t.qty > 0
  BY <1>2, StopFields
<1>4. n \in Nat /\ Listed(t.at, day)
  <2>1. held[t.at] \in Nat
    BY <1>3 DEF TypeOK
  <2> QED BY <1>1, <1>3, <2>1 DEF Placed, Listings
<1>5. f \in Fills /\ ~(f.qty > 0)
  <2>1. day \in 0..MaxDay
    BY DEF TypeOK
  <2>2. -t.qty \in Int \ {0} /\ ~(-t.qty > 0)
    BY <1>3
  <2> QED BY <1>3, <2>1, <2>2 DEF Fills
<1>6. f.day = day /\ f.at = t.at
  OBVIOUS
<1>7. OnlyStops
  BY FiredStops
<1> DEFINE x == t.at
<1> HIDE DEF f, n, t
<1> QED BY <1>1, <1>3, <1>4, <1>5, <1>6, <1>7, PlacedFill

\* The job: a position moves with its name, and the splits it is due are among
\* those since it was opened.
LEMMA ChangeDue ==
    ASSUME TypeOK, Placed, NEW c \in DueChanges
    PROVE  /\ c \in Changes /\ c.date <= day /\ name[c.old] = name[c.new]
           /\ IsOpen(position[c.old]) /\ c.old \in Symbols /\ c.new \in Symbols
<1>1. c \in Changes /\ c.date \in (day - Window)..day /\ IsOpen(position[c.old])
  BY DEF DueChanges, Fetched
<1>2. c.date <= day
  BY <1>1, ActionFields DEF TypeOK
<1> QED BY <1>1, <1>2, ActionFields DEF Placed, Names

LEMMA MovedFrom ==
    ASSUME ActionsAssumption, TypeOK, Placed, NEW s \in Symbols, NEW o \in Symbols, ComesFrom(s, o),
           IsOpen(position[o])
    PROVE  /\ name[s] = name[o] /\ Started(s, day)
           /\ \A x \in Symbols : ComesFrom(x, o) => x = s
<1>1. \A c, e \in Changes : c.old = e.old \/ c.new = e.new => c = e
  BY DEF ActionsAssumption
<1>2. CASE o = s /\ \A c \in DueChanges : c.old # s /\ c.new # s
  BY <1>2 DEF Placed, Rows, ComesFrom
<1>3. CASE \E c \in DueChanges : c.old = o /\ c.new = s
  <2>1. PICK c \in DueChanges : c.old = o /\ c.new = s
    BY <1>3
  <2>2. c \in Changes /\ c.date <= day /\ name[c.old] = name[c.new]
    BY <2>1, ChangeDue
  <2>3. Started(s, day)
    BY <1>1, <2>1, <2>2 DEF Started
  <2>4. ASSUME NEW x \in Symbols, ComesFrom(x, o) PROVE x = s
    BY <1>1, <2>1, <2>4, ChangeDue DEF ComesFrom
  <2> QED BY <2>1, <2>2, <2>3, <2>4
<1> QED BY <1>2, <1>3 DEF ComesFrom

\* What the job makes of a level, for a position no split was applied to too early.
LEMMA ScaledLevel ==
    ASSUME TypeOK, Placed, NEW o \in Symbols, IsOpen(position[o]), ~OpenedAfterSplit(Scaled(o))
    PROVE  LET p == position[o]  q == Scaled(o)  S == OpenSince(o, p.opened) IN
           /\ ~OpenedAfterSplit(p) /\ Due(o) \subseteq S /\ q.applied \subseteq S
           /\ S \ p.applied = Due(o) \cup (S \ q.applied) /\ Due(o) \cap (S \ q.applied) = {}
           /\ p.level = NoLevel => q.level = NoLevel
           /\ p.level # NoLevel => market[name[o]].low = q.level \div Factor(S \ q.applied)
<1> DEFINE p == position[o]
           q == Scaled(o)
           S == OpenSince(o, p.opened)
           D == Due(o)
           R == S \ q.applied
<1>1. /\ D \in SUBSET Splits /\ D \cap p.applied = {} /\ q.opened = p.opened
      /\ q.applied = p.applied \cup D /\ q.level = p.level \div Factor(D)
  BY ScaledIs
<1>2. p.level \in Nat /\ p.applied \in SUBSET Splits /\ p.opened \in 0..MaxDay /\ day \in Nat
  <2>1. p \in Positions
    BY DEF TypeOK
  <2> QED BY <2>1, RowFields DEF TypeOK
<1>3. ~OpenedAfterSplit(p) /\ \A a \in D : ~(a.ex <= p.opened)
  BY <1>1 DEF OpenedAfterSplit
<1>4. /\ p.applied \subseteq S
      /\ Gives(p.level, Factor(S \ p.applied), market[name[o]].low)
  BY <1>3 DEF Placed, Levels, Since, OpenSince, Between
<1>5. D \subseteq S
  <2>1. \A a \in D : a \in Splits /\ a.symbol = o /\ a.ex <= day
    BY <1>2, ActionFields DEF Due, Fetched
  <2>2. \A a \in D : a.ex \in (p.opened + 1)..day
    BY <1>2, <1>3, <2>1, ActionFields
  <2> QED BY <2>1, <2>2 DEF OpenSince, Between
<1>6. S \in SUBSET Splits
  BY DEF OpenSince, Between
<1> HIDE DEF p, q, S, D
<1>7. S \ p.applied = D \cup R /\ D \cap R = {} /\ R \in SUBSET Splits
  BY <1>1, <1>4, <1>5, <1>6
<1>8. Factor(S \ p.applied) = Factor(D) * Factor(R)
  BY <1>1, <1>7, FactorUnion
<1>9. /\ p.level \div Factor(S \ p.applied) = q.level \div Factor(R)
      /\ p.level = NoLevel => q.level = NoLevel
  <2>1. Factor(D) \in Positive /\ Factor(R) \in Positive
    BY <1>1, <1>7, FactorType
  <2>2. p.level \div Factor(S \ p.applied) = q.level \div Factor(R)
    BY <1>1, <1>2, <1>8, <2>1, DivideTwice
  <2>3. \A m \in Positive : 0 \div m = 0
    BY DEF Positive
  <2> QED BY <1>1, <2>1, <2>2, <2>3 DEF NoLevel
<1>10. q.applied \subseteq S
  BY <1>1, <1>4, <1>5
<1> QED BY <1>3, <1>4, <1>5, <1>7, <1>9, <1>10 DEF p, q, S, D, Gives

LEMMA PlacedApply ==
    ASSUME ActionsAssumption, TypeOK, Placed, ApplyCorporateActions
    PROVE  Placed'
<1>1. /\ day' = day /\ name' = name /\ held' = held /\ market' = market /\ fill' = fill
      /\ booked' = booked
  BY DEF ApplyCorporateActions, outside
<1>2. Names' /\ Listings'
  BY <1>1 DEF Placed, Names, Listings, Listed, Started, Ended
<1>3. FillsFit'
  BY <1>1 DEF Placed, FillsFit, Started
<1>4. ASSUME NEW s \in Symbols, IsOpen(position'[s])
      PROVE  \E o \in Symbols : ComesFrom(s, o) /\ position'[s] = Scaled(o) /\ IsOpen(position[o])
  <2>1. position'[s] # Flat
    BY <1>4, FlatRow
  <2> QED BY <1>4, <2>1, JobMoves, ScaledIs
<1>5. Rows'
  <2>1. ASSUME NEW s \in Symbols, IsOpen(position'[s])
        PROVE  Started(s, day) /\ position'[s].opened <= day
    <3>1. PICK o \in Symbols : ComesFrom(s, o) /\ position'[s] = Scaled(o) /\ IsOpen(position[o])
      BY <2>1, <1>4
    <3>2. Started(s, day) /\ Scaled(o).opened = position[o].opened
      BY <3>1, MovedFrom, ScaledIs
    <3> QED BY <3>1, <3>2 DEF Placed, Rows
  <2>2. ASSUME NEW s \in Symbols, NEW x \in Symbols, IsOpen(position'[s]), IsOpen(position'[x]),
               name[s] = name[x]
        PROVE  s = x
    <3>1. PICK o \in Symbols : ComesFrom(s, o) /\ IsOpen(position[o])
      BY <2>2, <1>4
    <3>2. PICK p \in Symbols : ComesFrom(x, p) /\ IsOpen(position[p])
      BY <2>2, <1>4
    <3>3. name[s] = name[o] /\ name[x] = name[p]
      BY <3>1, <3>2, MovedFrom
    <3>4. o = p
      BY <2>2, <3>1, <3>2, <3>3 DEF Placed, Rows
    <3> QED BY <3>1, <3>2, <3>4, MovedFrom
  <2> QED BY <1>1, <2>1, <2>2 DEF Rows, Started
<1>6. Levels'
  <2> SUFFICES ASSUME NEW s \in Symbols, IsOpen(position'[s]), ~OpenedAfterSplit(position'[s])
               PROVE  LET q == position'[s]  S == OpenSince(s, q.opened) IN
                      /\ q.applied \subseteq S
                      /\ Gives(q.level, Factor(S \ q.applied), market[name[s]].low)
    BY <1>1 DEF Levels, Since, OpenedAfterSplit, IsOpen, OpenSince, Between
  <2>1. PICK o \in Symbols : ComesFrom(s, o) /\ position'[s] = Scaled(o) /\ IsOpen(position[o])
    BY <1>4
  <2>2. name[s] = name[o]
    BY <2>1, MovedFrom
  <2>3. Scaled(o).opened = position[o].opened
    BY ScaledIs
  <2>4. OpenSince(s, position[o].opened) = OpenSince(o, position[o].opened)
    BY <2>2 DEF OpenSince, Between
  <2> DEFINE q == Scaled(o)
             S == OpenSince(o, position[o].opened)
  <2>5. /\ q.applied \subseteq S
        /\ Gives(q.level, Factor(S \ q.applied), market[name[o]].low)
    BY <2>1, ScaledLevel DEF Gives
  <2> HIDE DEF q, S
  <2>6. position'[s] = q /\ OpenSince(s, q.opened) = S
    BY <2>1, <2>3, <2>4 DEF q, S
  <2> QED BY <2>2, <2>5, <2>6
<1> QED BY <1>2, <1>3, <1>5, <1>6 DEF Placed

\* A boot that comes up leaves open what the broker holds, as it was or opened by a
\* fill the broker had.
LEMMA ResumedRow ==
    ASSUME NEW p \in Positions, NEW b, Resumes(b, p)
    PROVE  b.level = p.level /\ b.opened = p.opened /\ b.applied = p.applied /\ b.stop = p.stop
<1>1. b = [p EXCEPT !.qty = b.qty]
  BY DEF Resumes
<1> QED BY <1>1 DEF Positions

LEMMA OpenedRow ==
    ASSUME NEW b, NEW f \in Fills, OpenedBy(b, f)
    PROVE  b.level = NoLevel /\ b.opened = f.day /\ b.applied = {} /\ f.qty > 0
<1>1. b = [Flat EXCEPT !.qty = b.qty, !.opened = f.day] /\ f.qty > 0
  BY DEF OpenedBy
<1> QED BY <1>1 DEF Flat

LEMMA PlacedBoot ==
    ASSUME TypeOK, Placed, Boot
    PROVE  Placed'
<1>1. day' = day /\ name' = name /\ held' = held /\ market' = market /\ fill' = fill
  BY DEF Boot, outside
<1>2. Names' /\ Listings'
  BY <1>1 DEF Placed, Names, Listings, Listed, Started, Ended
<1>3. CASE process' = "up"
  <2>1. booked' = Len(fill)
    BY <1>3, BootUp
  <2>2. FillsFit'
    BY <1>1, <2>1, FillIs DEF FillsFit
  <2>3. ASSUME NEW s \in Symbols, IsOpen(position'[s])
        PROVE  /\ name[s] = s /\ Started(s, day)
               /\ \/ Resumes(position'[s], position[s])
                  \/ \E m \in (booked + 1)..Len(fill) :
                        fill[m] \in Fills /\ fill[m].symbol = s /\ OpenedBy(position'[s], fill[m])
    <3>1. position'[s].qty = held[s] /\ position'[s] # Flat
      BY <1>3, <2>3, BootUp, FlatRow
    <3>2. held[s] # 0
      BY <2>3, <3>1 DEF IsOpen
    <3>3. Listed(s, day)
      BY <3>2 DEF Placed, Listings
    <3>4. name[s] = s /\ Started(s, day)
      BY <3>3 DEF Placed, Names, Listed
    <3> QED BY <1>3, <3>1, <3>4, BootUp, FillIs
  <2>4. ASSUME NEW s \in Symbols, IsOpen(position'[s])
        PROVE  LET q == position'[s]  S == OpenSince(s, q.opened) IN
               /\ q.opened <= day
               /\ ~OpenedAfterSplit(q) =>
                     /\ q.applied \subseteq S
                     /\ Gives(q.level, Factor(S \ q.applied), market[name[s]].low)
    <3> DEFINE q == position'[s]
               p == position[s]
    <3>1. CASE Resumes(q, p)
      <4>1. p \in Positions
        BY DEF TypeOK
      <4>2. q.level = p.level /\ q.opened = p.opened /\ q.applied = p.applied /\ IsOpen(p)
        BY <3>1, <4>1, ResumedRow DEF Resumes
      <4>3. p.opened <= day /\ (~OpenedAfterSplit(p) =>
               /\ p.applied \subseteq Since(p, s)
               /\ Gives(p.level, Factor(Since(p, s) \ p.applied), market[name[s]].low))
        BY <4>2 DEF Placed, Rows, Levels
      <4> HIDE DEF p, q
      <4>4. (OpenedAfterSplit(q) <=> OpenedAfterSplit(p)) /\ Since(p, s) = OpenSince(s, q.opened)
        BY <4>2 DEF OpenedAfterSplit, Since, OpenSince, Between
      <4> QED BY <4>2, <4>3, <4>4 DEF q
    <3>2. CASE \E m \in (booked + 1)..Len(fill) :
                  fill[m] \in Fills /\ fill[m].symbol = s /\ OpenedBy(q, fill[m])
      <4>1. PICK m \in (booked + 1)..Len(fill) :
                   fill[m] \in Fills /\ fill[m].symbol = s /\ OpenedBy(q, fill[m])
        BY <3>2
      <4> DEFINE f == fill[m]
      <4>2. q.level = NoLevel /\ q.opened = f.day /\ q.applied = {}
        BY <4>1, OpenedRow
      <4>3. f.day <= day
        BY <4>1 DEF Placed, FillsFit
      <4> HIDE DEF f, q
      <4> QED BY <4>2, <4>3 DEF q, Gives
    <3> QED BY <2>3, <2>4, <3>1, <3>2
  <2>5. Rows'
    BY <1>1, <2>3, <2>4 DEF Rows, Started
  <2>6. Levels'
    <3> SUFFICES ASSUME NEW s \in Symbols, IsOpen(position'[s]), ~OpenedAfterSplit(position'[s])
                 PROVE  LET q == position'[s]  S == OpenSince(s, q.opened) IN
                        /\ q.applied \subseteq S
                        /\ Gives(q.level, Factor(S \ q.applied), market[name[s]].low)
      BY <1>1 DEF Levels, Since, OpenedAfterSplit, IsOpen, OpenSince, Between
    <3> QED BY <2>4
  <2> QED BY <1>2, <2>2, <2>5, <2>6 DEF Placed
<1>4. CASE process' # "up"
  <2>1. position' = position /\ booked' = booked
    BY <1>4 DEF Boot
  <2>2. OnlyStops
    BY <2>1, RowsAreGood DEF OnlyStops, TypeOK
  <2> QED BY <1>1, <2>1, <2>2, Calm, CalmFills DEF Placed
<1> QED BY <1>3, <1>4

\* The level n of a position of day o is Low, but for the splits since that are not in A.
LowIs(x, o, A, n) ==
    /\ Started(x, day) /\ o <= day /\ A \subseteq Between(name, x, o, day)
    /\ Gives(n, Factor(Between(name, x, o, day) \ A), market[name[x]].low)

\* The night divides a level once more, by the splits it adds.
LEMMA NightLevel ==
    ASSUME ActionsAssumption, TypeOK, Placed, NewDay,
           NEW x \in Symbols, NEW o \in Nat, NEW A \in SUBSET Splits, NEW n \in Nat,
           LowIs(x, o, A, n)
    PROVE  LET S == Between(name', x, o, day') IN
           A \subseteq S /\ Gives(n, Factor(S \ A), market'[name'[x]].low)
<1> DEFINE S == Between(name, x, o, day)
           T == Tonight(name[x])
           R == Ratio(name[x], day + 1)
           U == S \ A
<1>0. /\ Started(x, day) /\ o <= day /\ A \subseteq S
      /\ Gives(n, Factor(S \ A), market[name[x]].low)
  BY DEF LowIs
<1>1. Between(name', x, o, day') = S \cup T /\ S \cap T = {}
  BY <1>0, SinceNight DEF Placed, OpenSince
<1>2. market'[name'[x]].low = market[name[x]].low \div R
  BY <1>0, NightIs DEF Placed
<1>3. Factor(T) = R /\ T \in SUBSET Splits
  BY TonightFactor DEF TypeOK
<1>4. U \in SUBSET Splits
  BY DEF Between
<1> HIDE DEF S, T, R
<1>5. (S \cup T) \ A = U \cup T /\ U \cap T = {} /\ A \subseteq S \cup T
  BY <1>0, <1>1
<1>6. Factor((S \cup T) \ A) = Factor(U) * R
  BY <1>3, <1>4, <1>5, FactorUnion
<1>7. (n \div Factor(U)) \div R = n \div (Factor(U) * R)
  <2>1. Factor(U) \in Positive /\ R \in Positive
    BY <1>3, <1>4, FactorType
  <2> QED BY <2>1, DivideTwice
<1> QED BY <1>0, <1>1, <1>2, <1>5, <1>6, <1>7 DEF Gives

LEMMA NightListings ==
    ASSUME ActionsAssumption, TypeOK, Listings, NewDay
    PROVE  Listings'
<1> DEFINE d == day + 1
<1>1. day \in Nat /\ day' = d
  BY DEF NewDay, TypeOK
<1>2. ASSUME NEW s \in Symbols, ~Listed(s, d) PROVE held'[s] = 0
  <2>1. held'[s] = IF NewName(s, d) # s THEN 0
                   ELSE held[s] * Ratio(s, d)
                        + (IF Before(s, d) = s THEN 0 ELSE held[Before(s, d)] * Ratio(Before(s, d), d))
    BY DEF NewDay
  <2>2. CASE NewName(s, d) # s
    BY <2>1, <2>2
  <2>3. CASE NewName(s, d) = s
    <3>1. \A c \in Changes : ~(c.old = s /\ c.date = d)
      BY <1>1, <2>3, NewNameIs, ChangeIs
    <3>2. ~Listed(s, day)
      BY <1>1, <1>2, <3>1, ActionFields DEF Listed, Started, Ended
    <3>3. held[s] = 0
      BY <3>2 DEF Listings
    <3>4. \A c \in Changes : ~(c.new = s /\ c.date = d)
      BY <1>1, <1>2, ChangeIs DEF Listed
    <3>5. Before(s, d) = s
      BY <3>4, BeforeIs
    <3>6. Ratio(s, d) \in Nat
      BY RatioType DEF Positive
    <3> HIDE DEF d
    <3> QED BY <2>1, <2>3, <3>3, <3>5, <3>6
  <2> QED BY <2>2, <2>3
<1> QED BY <1>1, <1>2 DEF Listings, Listed, Started, Ended

LEMMA PlacedNight ==
    ASSUME ActionsAssumption, TypeOK, Placed, NewDay
    PROVE  Placed'
<1> DEFINE d == day + 1
<1>1. day \in Nat /\ day' = d /\ UNCHANGED <<fill, booked>>
  BY DEF NewDay, TypeOK
<1>2. Names' /\ Listings'
  BY NamesNight, NightListings DEF Placed
<1>3. \A s \in Symbols :
         LET p == position[s]  q == position'[s] IN
         q.qty = p.qty /\ q.level = p.level /\ q.opened = p.opened /\ q.applied = p.applied
  BY NightStops DEF OnlyStops
<1>4. \A s : Started(s, day) => Started(s, d)
  BY <1>1, ActionFields DEF Started
<1>5. Rows'
  <2>1. \A s \in Symbols : IsOpen(position'[s]) =>
           Started(s, day) /\ Started(s, d) /\ position'[s].opened <= d /\ IsOpen(position[s])
    <3> SUFFICES ASSUME NEW s \in Symbols, IsOpen(position'[s])
                 PROVE  Started(s, day) /\ Started(s, d) /\ position'[s].opened <= d /\ IsOpen(position[s])
      OBVIOUS
    <3>1. IsOpen(position[s]) /\ position'[s].opened = position[s].opened
      BY <1>3 DEF IsOpen
    <3>2. Started(s, day) /\ position[s].opened <= day
      BY <3>1 DEF Placed, Rows
    <3>3. position[s].opened \in Nat
      <4>1. position[s] \in Positions
        BY DEF TypeOK
      <4> QED BY <4>1, RowFields
    <3> QED BY <1>1, <1>4, <3>1, <3>2, <3>3
  <2>2. ASSUME NEW s \in Symbols, NEW x \in Symbols, IsOpen(position'[s]), IsOpen(position'[x]),
               name'[s] = name'[x]
        PROVE  s = x
    <3>1. name[s] = name[x]
      BY <2>1, <2>2, NightIs DEF Placed
    <3> QED BY <2>1, <2>2, <3>1 DEF Placed, Rows
  <2> QED BY <1>1, <2>1, <2>2 DEF Rows, Started
<1>6. FillsFit'
  <2> SUFFICES ASSUME NEW n \in (booked + 1)..Len(fill)
               PROVE  LET f == fill[n] IN
                      /\ f.day <= d /\ Started(f.at, f.day)
                      /\ f.qty > 0 => f.symbol = f.at
    BY <1>1 DEF FillsFit, Started
  <2>1. fill[n].day \in Nat
    BY FillIs DEF Fills
  <2> QED BY <1>1, <2>1 DEF Placed, FillsFit
<1>7. Levels'
  <2> SUFFICES ASSUME NEW s \in Symbols, IsOpen(position'[s]), ~OpenedAfterSplit(position'[s])
               PROVE  LET q == position'[s]  S == Between(name', s, q.opened, d) IN
                      /\ q.applied \subseteq S
                      /\ Gives(q.level, Factor(S \ q.applied), market'[name'[s]].low)
    BY <1>1 DEF Levels, Since, OpenedAfterSplit, IsOpen, Between
  <2> DEFINE p == position[s]
             q == position'[s]
  <2>1. /\ q.qty = p.qty /\ q.level = p.level /\ q.opened = p.opened /\ q.applied = p.applied
        /\ p \in Positions
    BY <1>3 DEF TypeOK
  <2>2. IsOpen(p) /\ ~OpenedAfterSplit(p)
    BY <2>1 DEF IsOpen, OpenedAfterSplit
  <2>3. /\ p.applied \subseteq Between(name, s, p.opened, day)
        /\ Gives(p.level, Factor(Between(name, s, p.opened, day) \ p.applied), market[name[s]].low)
        /\ Started(s, day) /\ p.opened <= day
    BY <2>2 DEF Placed, Rows, Levels, Since, Between
  <2>4. p.level \in Nat /\ p.opened \in Nat /\ p.applied \in SUBSET Splits
    BY <2>1, RowFields
  <2> HIDE DEF p, q
  <2>5. /\ p.applied \subseteq Between(name', s, p.opened, d)
        /\ Gives(p.level, Factor(Between(name', s, p.opened, d) \ p.applied), market'[name'[s]].low)
    <3>1. LowIs(s, p.opened, p.applied, p.level)
      BY <2>3 DEF LowIs
    <3>2. PICK o \in Nat, n \in Nat, A \in SUBSET Splits :
             o = p.opened /\ n = p.level /\ A = p.applied
      BY <2>4
    <3>3. LowIs(s, o, A, n)
      BY <3>1, <3>2
    <3>4. /\ A \subseteq Between(name', s, o, day')
          /\ Gives(n, Factor(Between(name', s, o, day') \ A), market'[name'[s]].low)
      BY <3>3, NightLevel
    <3> QED BY <1>1, <3>2, <3>4
  <2> QED BY <2>1, <2>5 DEF q
<1> QED BY <1>2, <1>5, <1>6, <1>7 DEF Placed

LEMMA PlacedInit == ActionsAssumption /\ Init => Placed
<1> SUFFICES ASSUME Init PROVE Placed
  OBVIOUS
<1>0. /\ day = 0 /\ name = [s \in Symbols |-> s] /\ held \in [Symbols -> 0..MaxQty]
      /\ \A s \in Symbols : held[s] > 0 => Listed(s, 0)
      /\ market = [s \in Symbols |-> [close |-> High, low |-> Low]]
      /\ fill = <<>> /\ booked = 0
      /\ \E level \in [Symbols -> {NoLevel, Low}] :
            position = [s \in Symbols |-> IF held[s] = 0 THEN Flat ELSE FirstRow(held[s], level[s])]
  BY Zenon DEF Init, FirstRow
<1>8. PICK level \in [Symbols -> {NoLevel, Low}] :
         position = [s \in Symbols |-> IF held[s] = 0 THEN Flat ELSE FirstRow(held[s], level[s])]
  BY <1>0
<1>1. \A c \in Changes : ~(c.date <= 0)
  BY ActionFields
<1>2. Names
  BY <1>0, <1>1 DEF Names, Started, Ended
<1>3. Listings
  BY <1>0 DEF Listings
<1>4. FillsFit
  BY <1>0 DEF FillsFit
<1>5. ASSUME NEW s \in Symbols, IsOpen(position[s])
      PROVE  /\ held[s] > 0 /\ position[s].opened = 0 /\ position[s].applied = {}
             /\ position[s].level \in {NoLevel, Low}
  <2>1. held[s] # 0 /\ position[s] = FirstRow(held[s], level[s])
    BY <1>5, <1>8, FlatRow
  <2>2. held[s] \in Nat
    BY <1>0
  <2> QED BY <2>1, <2>2 DEF FirstRow, Flat
<1>6. Rows
  BY <1>0, <1>5 DEF Rows, Listed
<1>7. Levels
  <2> SUFFICES ASSUME NEW s \in Symbols, IsOpen(position[s])
               PROVE  LET p == position[s] IN
                      /\ p.applied \subseteq Since(p, s)
                      /\ Gives(p.level, Factor(Since(p, s) \ p.applied), market[name[s]].low)
    BY DEF Levels
  <2>1. Since(position[s], s) = {}
    BY <1>0, <1>5, ActionFields DEF Since
  <2>2. Since(position[s], s) \ position[s].applied = {}
    BY <2>1
  <2>3. market[name[s]].low = Low
    BY <1>0
  <2>4. Low \div 1 = Low
    OBVIOUS
  <2> QED BY <1>5, <2>1, <2>2, <2>3, <2>4, FactorNone DEF Gives
<1> QED BY <1>2, <1>3, <1>4, <1>6, <1>7 DEF Placed

LEMMA PlacedNext ==
    ASSUME ActionsAssumption, TypeOK, StopsFit, Placed, [Next]_vars
    PROVE  Placed'
<1>1. CASE NewDay
  BY <1>1, PlacedNight
<1>2. CASE \E s \in Symbols : StopFires(s)
  BY <1>2, PlacedStopFires
<1>3. CASE \E s \in Symbols, q \in -MaxQty..MaxQty : BrokerFill(s, q)
  BY <1>3, PlacedBrokerFill
<1>4. CASE ApplyCorporateActions
  BY <1>4, PlacedApply
<1>5. CASE Rearm
  BY <1>5, PlacedRearm
<1>6. CASE Boot
  BY <1>6, PlacedBoot
<1>7. CASE \/ \E a \in Splits \cup Changes : Announce(a)
           \/ \E s \in Symbols : Fall(s)
           \/ MissJob \/ Stop \/ Restart \/ UNCHANGED vars
  BY <1>7, PlacedRest
<1> QED BY <1>1, <1>2, <1>3, <1>4, <1>5, <1>6, <1>7 DEF Next

LEMMA PlacedAlways == Spec => [](TypeOK /\ StopsFit /\ Placed)
<1> USE ActionsAssumption
<1>1. Init => TypeOK /\ StopsFit /\ Placed
  BY TypedInit, PlacedInit
<1>2. TypeOK /\ StopsFit /\ Placed /\ [Next]_vars => (TypeOK /\ StopsFit /\ Placed)'
  BY TypedNext, PlacedNext
<1> QED BY <1>1, <1>2, PTL DEF Spec

-----------------------------------------------------------------------------
\* The level of a position that has one is Low in today's prices, once its splits are
\* in the ledger.
LEMMA CarriedLevel ==
    ASSUME TypeOK, Placed, NEW s \in Symbols, IsOpen(position[s]), Carried(position[s], s),
           position[s].level # NoLevel
    PROVE  position[s].level = market[s].low
<1> DEFINE p == position[s]
<1>1. Listed(s, day) /\ p.applied = Since(p, s)
  BY DEF Carried
<1>2. p \in Positions
  BY DEF TypeOK
<1>3. p.level \in Nat /\ p.opened \in Nat /\ day \in Nat
  BY <1>2, RowFields DEF TypeOK
<1>4. ~OpenedAfterSplit(p)
  BY <1>1, <1>3, ActionFields DEF OpenedAfterSplit, Since
<1>5. market[name[s]].low = p.level \div Factor(Since(p, s) \ p.applied)
  BY <1>4 DEF Placed, Levels, Gives
<1>6. Since(p, s) \ p.applied = {} /\ name[s] = s
  BY <1>1 DEF Placed, Names, Listed
<1>7. p.level \div 1 = p.level
  BY <1>3
<1> QED BY <1>5, <1>6, <1>7, FactorNone

RearmStep ==
    Rearm /\ process' = "up" =>
       \A s \in Symbols :
          LET p == position'[s] IN
          IsOpen(p) /\ p.level # NoLevel =>
             /\ Untouched(p) => p.stop.qty = p.qty /\ p.stop.level \in {AtMarket, p.level}
             /\ (p.stop.level = AtMarket /\ ~Live(position[s].stop) /\ Carried(p, s))
                   => market[s].close <= market[s].low

LEMMA RearmGivesAStop ==
    ASSUME TypeOK, StopsFit, Placed
    PROVE  RearmStep
<1> SUFFICES ASSUME Rearm, process' = "up", NEW s \in Symbols, IsOpen(position'[s]),
                    position'[s].level # NoLevel
             PROVE  LET p == position'[s] IN
                    /\ Untouched(p) => p.stop.qty = p.qty /\ p.stop.level \in {AtMarket, p.level}
                    /\ (p.stop.level = AtMarket /\ ~Live(position[s].stop) /\ Carried(p, s))
                          => market[s].close <= market[s].low
  BY DEF RearmStep
<1> DEFINE o == position[s]
           p == position'[s]
<1>1. p = Rearmed(s) /\ booked' = booked
  BY DEF Rearm, outside
<1>2. /\ p.qty = o.qty /\ p.level = o.level /\ p.opened = o.opened /\ p.applied = o.applied
      /\ \/ p = o /\ (IsOpen(o) /\ o.level # NoLevel => Live(o.stop))
         \/ /\ IsOpen(o) /\ ~Live(o.stop)
            /\ \/ p.stop = Order(s, AtMarket) /\ market[s].close <= o.level
               \/ p.stop = Order(s, o.level)
  BY <1>1, RearmedIs
<1>3. IsOpen(o) /\ o.level # NoLevel /\ o \in Positions
  BY <1>2 DEF IsOpen, TypeOK
<1>4. o.level \in Nat /\ o.qty \in Nat /\ o.qty > 0
  BY <1>3, RowFields DEF IsOpen
<1>5. \A l : Order(s, l).level = l /\ Live(Order(s, l))
  BY <1>4 DEF Order, Live
<1>6. Live(p.stop)
  BY <1>2, <1>3, <1>5
<1>7. StopsFit'
  BY RearmFacts
<1>8. Untouched(p) => p.stop.qty = p.qty /\ p.stop.level \in {AtMarket, p.level}
  BY <1>1, <1>6, <1>7 DEF StopsFit, Untouched
<1>9. ASSUME p.stop.level = AtMarket, ~Live(o.stop), Carried(p, s)
      PROVE  market[s].close <= market[s].low
  <2>1. market[s].close <= o.level
    <3>1. o.level # AtMarket
      BY <1>4 DEF AtMarket
    <3> HIDE DEF o, p
    <3> QED BY <1>2, <1>5, <1>6, <1>9, <3>1
  <2>2. Carried(o, s)
    <3> HIDE DEF o, p
    <3> QED BY <1>2, <1>9 DEF Carried, Since
  <2>3. o.level = market[s].low
    BY <1>3, <2>2, CarriedLevel
  <2> QED BY <2>1, <2>3
<1> QED BY <1>8, <1>9

\* The re-arm sells at market only what has fallen through its level, in today's
\* prices, and the order it leaves a position that has a level fits the position, unless
\* the shares were split or a fill was booked under a stop that is still live.
THEOREM CorporateRearmFits == Spec => RearmFits
<1> USE ActionsAssumption
<1>1. Spec => [](TypeOK /\ StopsFit /\ Placed)
  BY PlacedAlways
<1>2. TypeOK /\ StopsFit /\ Placed /\ [Next]_vars => [RearmStep]_vars
  BY RearmGivesAStop
<1>3. RearmFits <=> [][RearmStep]_vars
  BY PTL DEF RearmFits, RearmStep
<1> QED BY <1>1, <1>2, <1>3, PTL DEF Spec

-----------------------------------------------------------------------------
\* What the ledger has of the shares called x, in today's shares.
Counts(x, b) ==
    /\ b \in Nat
    /\ \A s \in Symbols :
          IsOpen(position[s]) /\ name[s] = x /\ ~OpenedAfterSplit(position[s]) =>
             b = position[s].qty * Factor(Since(position[s], s) \ position[s].applied)
    /\ (\A s \in Symbols : name[s] = x => ~IsOpen(position[s])) => b = 0

\* The fills it lacks lead from there to what the broker holds.
Leads(x, b, r) == Counts(x, b) /\ Trail(r, b, x) /\ r[Len(fill)] = held[x]

Shares == AllFresh /\ ~mixed => \A x \in Symbols : Listed(x, day) => \E b, r : Leads(x, b, r)

LEMMA CountsOn ==
    ASSUME OnlyStops, UNCHANGED <<day, name>>, NEW x, NEW b, Counts(x, b)
    PROVE  Counts(x, b)'
<1>1. day' = day /\ name' = name
  OBVIOUS
<1>2. ASSUME NEW s \in Symbols
      PROVE  LET p == position[s]  q == position'[s] IN
             /\ q.qty = p.qty /\ q.applied = p.applied /\ (IsOpen(q) <=> IsOpen(p))
             /\ OpenedAfterSplit(q) <=> OpenedAfterSplit(p)
             /\ Since(q, s) = Since(p, s)
  BY DEF OnlyStops, IsOpen, OpenedAfterSplit, Since
<1>3. /\ b \in Nat
      /\ \A s \in Symbols :
            IsOpen(position'[s]) /\ name[s] = x /\ ~OpenedAfterSplit(position'[s]) =>
               b = position'[s].qty * Factor(Since(position'[s], s) \ position'[s].applied)
      /\ (\A s \in Symbols : name[s] = x => ~IsOpen(position'[s])) => b = 0
  BY <1>2 DEF Counts
<1> QED BY <1>1, <1>3 DEF Counts, IsOpen, OpenedAfterSplit, Since

LEMMA FreshBefore ==
    ASSUME TypeOK, day' = day \/ day' = day + 1, NEW f \in Fills,
           f.symbol = f.at, \A c \in Changes : ~(c.old = f.at /\ c.date <= day'),
           \A a \in Splits : a.symbol = f.at => a.ex \notin (f.day + 1)..day'
    PROVE  Fresh(f)
<1>1. day \in Nat /\ f.day \in Nat
  BY DEF TypeOK, Fills
<1>2. \A c \in Changes : c.date <= day => c.date <= day'
  BY <1>1, ActionFields
<1>3. \A a \in Splits : a.ex \in (f.day + 1)..day => a.ex \in (f.day + 1)..day'
  BY <1>1, ActionFields
<1> QED BY <1>2, <1>3 DEF Fresh, Ended

\* Fills that are fresh were fresh before.
LEMMA AllFreshBefore ==
    ASSUME TypeOK, day' = day \/ day' = day + 1, booked' = booked, AllFresh',
           fill' = fill \/ \E f \in Fills : fill' = Append(fill, f)
    PROVE  AllFresh
<1>1. fill \in Seq(Fills) /\ Len(fill) \in Nat /\ booked \in Nat
  BY FillIs DEF TypeOK
<1>2. Len(fill') \in Nat /\ Len(fill') >= Len(fill) /\ \A n \in 1..Len(fill) : fill'[n] = fill[n]
  <2>1. CASE fill' = fill
    BY <1>1, <2>1
  <2>2. CASE \E f \in Fills : fill' = Append(fill, f)
    BY <1>1, <2>2, AppendProperties
  <2> QED BY <2>1, <2>2
<1>3. ASSUME NEW n \in (booked + 1)..Len(fill) PROVE Fresh(fill[n])
  <2>1. n \in (booked + 1)..Len(fill') /\ fill'[n] = fill[n] /\ fill[n] \in Fills
    BY <1>1, <1>2, FillIs
  <2> DEFINE f == fill[n]
  <2>2. /\ f.symbol = f.at /\ \A c \in Changes : ~(c.old = f.at /\ c.date <= day')
        /\ \A a \in Splits : a.symbol = f.at => a.ex \notin (f.day + 1)..day'
    BY <2>1 DEF AllFresh, Fresh, Ended
  <2> HIDE DEF f
  <2> QED BY <2>1, <2>2, FreshBefore DEF f
<1> QED BY <1>3 DEF AllFresh

LEMMA SharesStill ==
    ASSUME TypeOK, Shares, OnlyStops, UNCHANGED <<day, name, fill, booked, held, mixed>>
    PROVE  Shares'
<1>1. day' = day /\ fill' = fill /\ booked' = booked /\ held' = held /\ mixed' = mixed
  OBVIOUS
<1>2. SUFFICES ASSUME AllFresh', ~mixed', NEW x \in Symbols, Listed(x, day)
               PROVE  \E b, r : Leads(x, b, r)'
  BY <1>1 DEF Shares, Listed, Started, Ended
<1>3. AllFresh
  BY <1>1, <1>2, AllFreshBefore
<1>4. PICK b, r : Leads(x, b, r)
  BY <1>1, <1>2, <1>3 DEF Shares
<1>5. Counts(x, b)'
  BY <1>4, CountsOn DEF Leads
<1>6. Trail(r, b, x)'
  BY <1>1, <1>4 DEF Leads, Trail
<1> QED BY <1>1, <1>4, <1>5, <1>6 DEF Leads

LEMMA SharesFill ==
    ASSUME TypeOK, Shares, OnlyStops, NEW f \in Fills, NEW n \in Nat,
           n = held[f.at] + f.qty, held' = [held EXCEPT ![f.at] = n],
           fill' = Append(fill, f), UNCHANGED <<day, name, booked, mixed>>
    PROVE  Shares'
<1>1. day' = day /\ booked' = booked /\ mixed' = mixed
  OBVIOUS
<1>2. SUFFICES ASSUME AllFresh', ~mixed', NEW x \in Symbols, Listed(x, day)
               PROVE  \E b, r : Leads(x, b, r)'
  BY <1>1 DEF Shares, Listed, Started, Ended
<1>3. fill \in Seq(Fills) /\ Len(fill) \in Nat /\ booked \in Nat /\ booked <= Len(fill)
  BY FillIs DEF TypeOK
<1>4. /\ Len(fill') = Len(fill) + 1 /\ fill'[Len(fill) + 1] = f
      /\ \A m \in 1..Len(fill) : fill'[m] = fill[m]
  BY <1>3, AppendProperties
<1>5. AllFresh
  BY <1>1, <1>2, AllFreshBefore
<1>6. f.symbol = f.at
  <2>1. Len(fill) + 1 \in (booked' + 1)..Len(fill')
    BY <1>1, <1>3, <1>4
  <2> QED BY <1>2, <1>4, <2>1 DEF AllFresh, Fresh
<1>7. PICK b, r : Leads(x, b, r)
  BY <1>1, <1>2, <1>5 DEF Shares
<1>8. Counts(x, b)'
  BY <1>7, CountsOn DEF Leads
<1> DEFINE N == Len(fill)
           q == r[N] + (IF f.symbol = x THEN f.qty ELSE 0)
           t == [m \in booked..(N + 1) |-> IF m = N + 1 THEN q ELSE r[m]]
<1>9. /\ r \in [booked..N -> Nat] /\ r[booked] = b /\ r[N] = held[x]
      /\ \A m \in (booked + 1)..N :
            r[m] = r[m - 1] + (IF fill[m].symbol = x THEN fill[m].qty ELSE 0)
  BY <1>7 DEF Leads, Trail
<1>10. q \in Nat /\ held'[x] = q
  <2>1. held \in [Symbols -> Nat] /\ f.at \in Symbols
    BY DEF TypeOK, Fills
  <2>2. CASE x = f.at
    BY <1>6, <1>9, <2>1, <2>2
  <2>3. CASE x # f.at
    BY <1>6, <1>9, <2>1, <2>3
  <2> QED BY <2>2, <2>3
<1>11. t \in [booked'..Len(fill') -> Nat] /\ t[booked'] = b /\ t[Len(fill')] = held'[x]
  <2>1. \A m \in booked..(N + 1) : m # N + 1 => m \in booked..N
    BY <1>3
  <2>2. booked # N + 1 /\ booked \in booked..(N + 1) /\ N + 1 \in booked..(N + 1)
    BY <1>3
  <2> HIDE DEF q, N
  <2> QED BY <1>1, <1>4, <1>9, <1>10, <2>1, <2>2 DEF N
<1>12. ASSUME NEW m \in (booked' + 1)..Len(fill')
       PROVE  t[m] = t[m - 1] + (IF fill'[m].symbol = x THEN fill'[m].qty ELSE 0)
  <2>1. m \in (booked + 1)..(N + 1) /\ m \in booked..(N + 1) /\ m - 1 \in booked..(N + 1)
        /\ m - 1 # N + 1
    BY <1>1, <1>3, <1>4
  <2>2. CASE m = N + 1
    <3>1. t[m] = q /\ t[m - 1] = r[N]
      <4>1. m - 1 = N
        BY <1>3, <2>2
      <4> HIDE DEF q, N
      <4> QED BY <2>1, <2>2, <4>1
    <3> QED BY <1>4, <2>2, <3>1
  <2>3. CASE m # N + 1
    <3>1. m \in (booked + 1)..N /\ m \in 1..N
      BY <1>3, <2>1, <2>3
    <3>2. t[m] = r[m] /\ t[m - 1] = r[m - 1]
      <4> HIDE DEF q, N
      <4> QED BY <2>1, <2>3
    <3> QED BY <1>4, <1>9, <3>1, <3>2
  <2> QED BY <2>2, <2>3
<1> HIDE DEF t, q
<1>13. PICK u : u = t
  OBVIOUS
<1>14. Trail(u, b, x)' /\ u[Len(fill')] = held'[x]
  BY <1>11, <1>12, <1>13 DEF Trail
<1> QED BY <1>8, <1>14 DEF Leads

LEMMA SharesBrokerFill ==
    ASSUME TypeOK, Shares, NEW s \in Symbols, NEW q \in -MaxQty..MaxQty, BrokerFill(s, q)
    PROVE  Shares'
<1> DEFINE f == [symbol |-> s, at |-> s, qty |-> q, day |-> day]
           n == held[s] + q
<1>1. /\ q # 0 /\ n >= Reserved(s)
      /\ held' = [held EXCEPT ![s] = n] /\ fill' = Append(fill, f)
      /\ UNCHANGED <<day, name, booked, position, mixed>>
  BY DEF BrokerFill
<1>2. f \in Fills /\ n \in Nat
  <2>1. held[s] \in Nat /\ Reserved(s) \in Nat /\ day \in 0..MaxDay
    <3>1. Reserved(s) \in Nat
      BY ReservedType
    <3>2. held[s] \in Nat /\ day \in 0..MaxDay
      BY DEF TypeOK
    <3> QED BY <3>1, <3>2
  <2>2. n \in Nat
    BY <1>1, <2>1
  <2>3. q \in Int \ {0}
    BY <1>1
  <2> QED BY <2>1, <2>2, <2>3 DEF Fills
<1>3. f.at = s /\ n = held[f.at] + f.qty
  OBVIOUS
<1>4. OnlyStops
  BY <1>1, RowsAreGood DEF OnlyStops, TypeOK
<1> HIDE DEF f, n
<1> QED BY <1>1, <1>2, <1>3, <1>4, SharesFill

LEMMA SharesStopFires ==
    ASSUME TypeOK, Shares, NEW s \in Symbols, StopFires(s)
    PROVE  Shares'
<1> DEFINE t == position[s].stop
           f == [symbol |-> t.name, at |-> t.at, qty |-> -t.qty, day |-> day]
           n == held[t.at] - t.qty
<1>1. /\ Live(t) /\ t.qty <= held[t.at]
      /\ held' = [held EXCEPT ![t.at] = n] /\ fill' = Append(fill, f)
      /\ UNCHANGED <<day, name, booked, mixed>>
  BY DEF StopFires
<1>2. t \in LiveStops
  BY <1>1, RowsAreGood, StopIs
<1>3. t.name \in Symbols /\ t.at \in Symbols /\ t.qty \in Nat /\ t.qty > 0
  BY <1>2, StopFields
<1>4. held[t.at] \in Nat
  BY <1>3 DEF TypeOK
<1>5. n \in Nat /\ n = held[f.at] + f.qty /\ f.at = t.at
  BY <1>1, <1>3, <1>4
<1>6. f \in Fills
  <2>1. day \in 0..MaxDay
    BY DEF TypeOK
  <2>2. -t.qty \in Int \ {0}
    BY <1>3
  <2> QED BY <1>3, <2>1, <2>2 DEF Fills
<1>7. OnlyStops
  BY FiredStops
<1> HIDE DEF f, n, t
<1> QED BY <1>1, <1>5, <1>6, <1>7, SharesFill

\* Every open position is somewhere after the job.
LEMMA JobKeeps ==
    ASSUME ActionsAssumption, TypeOK, Placed, ApplyCorporateActions, NEW o \in Symbols,
           IsOpen(position[o])
    PROVE  \E s \in Symbols : ComesFrom(s, o) /\ position'[s] = Scaled(o)
<1>1. \A c \in DueChanges : /\ c \in Changes /\ c.old \in Symbols /\ c.new \in Symbols
                            /\ ~IsOpen(position[c.new])
                            /\ c.date \in (day - Window)..day
  BY ChangeDue DEF ApplyCorporateActions, DueChanges, Fetched
<1>2. /\ \A c, e \in Changes : c.old = e.old \/ c.new = e.new => c = e
      /\ \A c, e \in Changes : c.new = e.old => c.date + Window < e.date
  BY DEF ActionsAssumption
<1>3. CASE \A c \in DueChanges : c.old # o
  <2>1. \A c \in DueChanges : c.new # o
    BY <1>1
  <2>2. PICK p \in Symbols : ComesFrom(o, p) /\ position'[o] = Scaled(p)
    BY <1>3, JobMoves
  <2>3. p = o
    BY <2>1, <2>2 DEF ComesFrom
  <2> QED BY <2>2, <2>3
<1>4. CASE \E c \in DueChanges : c.old = o
  <2>1. PICK c \in DueChanges : c.old = o
    BY <1>4
  <2> DEFINE s == c.new
  <2>2. s \in Symbols /\ ComesFrom(s, o)
    BY <1>1, <2>1 DEF ComesFrom
  <2>3. \A e \in DueChanges : e.old # s
    <3> SUFFICES ASSUME NEW e \in DueChanges, e.old = s PROVE FALSE
      OBVIOUS
    <3>1. c.date + Window < e.date
      BY <1>1, <1>2
    <3>2. /\ c.date \in (day - Window)..day /\ e.date \in (day - Window)..day
          /\ c.date \in Nat /\ e.date \in Nat /\ day \in Nat /\ Window \in Nat
      BY <1>1, ActionFields DEF TypeOK
    <3> HIDE DEF s
    <3> QED BY <3>1, <3>2
  <2>4. PICK p \in Symbols : ComesFrom(s, p) /\ position'[s] = Scaled(p)
    BY <2>2, <2>3, JobMoves
  <2>5. p = o
    BY <1>1, <1>2, <2>1, <2>4 DEF ComesFrom
  <2> QED BY <2>2, <2>4, <2>5
<1> QED BY <1>3, <1>4

LEMMA ScaledCounts ==
    ASSUME TypeOK, Placed, NEW o \in Symbols, IsOpen(position[o]), ~OpenedAfterSplit(Scaled(o))
    PROVE  LET p == position[o]  q == Scaled(o)  S == OpenSince(o, p.opened) IN
           p.qty * Factor(S \ p.applied) = q.qty * Factor(S \ q.applied)
<1> DEFINE p == position[o]
           q == Scaled(o)
           S == OpenSince(o, p.opened)
           D == Due(o)
           R == S \ q.applied
<1>1. D \in SUBSET Splits /\ q.qty = p.qty * Factor(D)
  BY ScaledIs
<1>2. S \ p.applied = D \cup R /\ D \cap R = {}
  BY ScaledLevel
<1>3. p \in Positions
  BY DEF TypeOK
<1>4. p.qty \in Nat
  BY <1>3, RowFields
<1>5. R \in SUBSET Splits
  BY DEF OpenSince, Between
<1>6. Factor(S \ p.applied) = Factor(D) * Factor(R)
  BY <1>1, <1>2, <1>5, FactorUnion
<1>7. Factor(D) \in Nat /\ Factor(R) \in Nat
  BY <1>1, <1>5, FactorType DEF Positive
<1> HIDE DEF p, q, S, D
<1> DEFINE d == Factor(D)
           m == Factor(R)
           n == p.qty
<1>8. n * (d * m) = (n * d) * m
  <2>1. n \in Nat /\ d \in Nat /\ m \in Nat
    BY <1>4, <1>7
  <2> HIDE DEF n, d, m, R
  <2> QED BY <2>1
<1> QED BY <1>1, <1>6, <1>8 DEF p, q, S, D

LEMMA SharesApply ==
    ASSUME ActionsAssumption, TypeOK, Placed, Shares, ApplyCorporateActions
    PROVE  Shares'
<1>1. /\ day' = day /\ name' = name /\ held' = held /\ fill' = fill
      /\ booked' = booked /\ mixed' = mixed
  BY DEF ApplyCorporateActions, outside
<1>2. SUFFICES ASSUME AllFresh', ~mixed', NEW x \in Symbols, Listed(x, day)
               PROVE  \E b, r : Leads(x, b, r)'
  BY <1>1 DEF Shares, Listed, Started, Ended
<1>3. AllFresh
  BY <1>1, <1>2, AllFreshBefore
<1>4. PICK b, r : Leads(x, b, r)
  BY <1>1, <1>2, <1>3 DEF Shares
<1>5. ASSUME NEW s \in Symbols, IsOpen(position'[s]), name[s] = x, ~OpenedAfterSplit(position'[s])
      PROVE  LET q == position'[s] IN b = q.qty * Factor(OpenSince(s, q.opened) \ q.applied)
  <2>1. position'[s] # Flat
    BY <1>5, FlatRow
  <2>2. PICK o \in Symbols : ComesFrom(s, o) /\ position'[s] = Scaled(o)
    BY <2>1, JobMoves
  <2> DEFINE p == position[o]
             q == Scaled(o)
             S == OpenSince(o, p.opened)
  <2>3. IsOpen(p) /\ q.opened = p.opened
    BY <1>5, <2>2, ScaledIs
  <2>4. name[s] = name[o]
    BY <2>2, <2>3, MovedFrom
  <2>5. ~OpenedAfterSplit(q)
    BY <1>5, <2>2
  <2>6. ~OpenedAfterSplit(p)
    BY <2>3, <2>5, ScaledLevel
  <2>7. b = p.qty * Factor(S \ p.applied)
    BY <1>4, <1>5, <2>3, <2>4, <2>6 DEF Leads, Counts, Since, OpenSince, Between
  <2>8. b = q.qty * Factor(S \ q.applied)
    BY <2>3, <2>5, <2>7, ScaledCounts
  <2>9. OpenSince(s, q.opened) = S
    BY <2>3, <2>4 DEF OpenSince, Between
  <2> HIDE DEF p, q, S
  <2> QED BY <2>2, <2>8, <2>9 DEF q
<1>6. (\A s \in Symbols : name[s] = x => ~IsOpen(position'[s])) => b = 0
  <2> SUFFICES ASSUME \A s \in Symbols : name[s] = x => ~IsOpen(position'[s]),
                      NEW o \in Symbols, name[o] = x, IsOpen(position[o])
               PROVE  FALSE
    BY <1>4 DEF Leads, Counts
  <2>1. PICK s \in Symbols : ComesFrom(s, o) /\ position'[s] = Scaled(o)
    BY JobKeeps
  <2> QED BY <2>1, MovedFrom, ScaledIs
<1>7. Counts(x, b)'
  <2>1. b \in Nat
    BY <1>4 DEF Leads, Counts
  <2> QED BY <1>1, <1>5, <1>6, <2>1 DEF Counts, IsOpen, OpenedAfterSplit, Since, OpenSince, Between
<1>8. Trail(r, b, x)'
  BY <1>1, <1>4 DEF Leads, Trail
<1> QED BY <1>1, <1>4, <1>7, <1>8 DEF Leads

\* What is called x tomorrow has a name today.
LEMMA YesterdayIs ==
    ASSUME ActionsAssumption, TypeOK, Names, NewDay, NEW x \in Symbols, Listed(x, day + 1)
    PROVE  \E u \in Symbols :
              /\ Listed(u, day) /\ name[u] = u /\ name'[u] = x
              /\ \/ u = x
                 \/ \E c \in Changes : c.old = u /\ c.new = x /\ c.date = day + 1
<1>1. day \in Nat /\ day' = day + 1
  BY DEF NewDay, TypeOK
<1>2. Names'
  BY NamesNight
<1>3. name'[x] = x
  BY <1>1, <1>2 DEF Names, Listed, Ended
<1>4. CASE \A c \in Changes : ~(c.new = x /\ c.date = day + 1)
  <2>1. Listed(x, day)
    BY <1>1, <1>4, ActionFields DEF Listed, Started, Ended
  <2>2. name[x] = x
    BY <2>1 DEF Names, Listed
  <2> QED BY <1>3, <2>1, <2>2
<1>5. CASE \E c \in Changes : c.new = x /\ c.date = day + 1
  <2>1. PICK c \in Changes : c.new = x /\ c.date = day + 1
    BY <1>5
  <2> DEFINE u == c.old
  <2>2. u \in Symbols /\ ~Ended(u, day)
    BY <1>1, <2>1, ChangeIs, ActionFields
  <2>3. Started(u, day)
    <3>1. \A e \in Changes : e.new = u => e.date + Window < c.date
      BY DEF ActionsAssumption
    <3> QED BY <1>1, <2>1, <3>1, ActionFields DEF Started
  <2>4. name[u] = u
    BY <2>2 DEF Names
  <2>5. name'[u] = x
    <3>1. \A e \in Changes : e.date <= day' => name'[e.old] = name'[e.new]
      BY <1>2 DEF Names
    <3>2. c.date <= day'
      BY <1>1, <2>1
    <3> QED BY <1>3, <2>1, <3>1, <3>2
  <2> QED BY <2>1, <2>2, <2>3, <2>4, <2>5 DEF Listed
<1> QED BY <1>4, <1>5

\* A fill of shares that are split or renamed tonight is not fresh tomorrow.
LEMMA NightFresh ==
    ASSUME ActionsAssumption, TypeOK, Placed, NewDay, AllFresh',
           NEW u \in Symbols, NEW x \in Symbols, Listed(u, day),
           \/ u = x
           \/ \E c \in Changes : c.old = u /\ c.new = x /\ c.date = day + 1
    PROVE  \/ u = x /\ Ratio(u, day + 1) = 1
           \/ \A n \in (booked + 1)..Len(fill) : fill[n].symbol # u /\ fill[n].symbol # x
<1>1. day \in Nat /\ day' = day + 1 /\ fill' = fill /\ booked' = booked
  BY DEF NewDay, TypeOK
<1>2. ASSUME NEW n \in (booked + 1)..Len(fill)
      PROVE  LET f == fill[n] IN
             /\ f.symbol = f.at /\ f.day \in Nat /\ f.day <= day
             /\ \A c \in Changes : c.old = f.at => ~(c.date <= day + 1)
             /\ \A c \in Changes : c.new = f.at => c.date <= f.day
             /\ \A a \in Splits : a.symbol = f.at => a.ex \notin (f.day + 1)..(day + 1)
  <2> DEFINE f == fill[n]
  <2>2. f.day \in Nat
    BY FillIs DEF Fills
  <2>3. f.day <= day /\ Started(f.at, f.day)
    BY DEF Placed, FillsFit
  <2>4. /\ f.symbol = f.at
        /\ \A c \in Changes : c.old = f.at => ~(c.date <= day + 1)
        /\ \A a \in Splits : a.symbol = f.at => a.ex \notin (f.day + 1)..(day + 1)
    BY <1>1 DEF AllFresh, Fresh, Ended
  <2> QED BY <2>2, <2>3, <2>4 DEF Started
<1>3. CASE u = x /\ Ratio(u, day + 1) # 1
  <2>1. Tonight(u) # {}
    BY <1>3, TonightFactor, FactorNone
  <2>2. PICK a \in Splits : a.symbol = u /\ a.ex = day + 1
    BY <2>1 DEF Tonight
  <2>3. ASSUME NEW n \in (booked + 1)..Len(fill), fill[n].symbol = u PROVE FALSE
    <3> DEFINE f == fill[n]
    <3>1. f.day \in Nat /\ f.day <= day /\ a.ex \notin (f.day + 1)..(day + 1)
      BY <1>2, <2>2, <2>3
    <3> HIDE DEF f
    <3> QED BY <1>1, <2>2, <3>1
  <2> QED BY <1>3, <2>3
<1>4. CASE \E c \in Changes : c.old = u /\ c.new = x /\ c.date = day + 1
  <2>1. PICK c \in Changes : c.old = u /\ c.new = x /\ c.date = day + 1
    BY <1>4
  <2>2. ASSUME NEW n \in (booked + 1)..Len(fill) PROVE fill[n].symbol # u /\ fill[n].symbol # x
    <3> DEFINE f == fill[n]
    <3>1. /\ f.symbol = f.at /\ f.day \in Nat /\ f.day <= day
          /\ c.old = f.at => ~(c.date <= day + 1)
          /\ c.new = f.at => c.date <= f.day
      BY <1>2
    <3> HIDE DEF f
    <3>2. f.symbol # u /\ f.symbol # x
      BY <1>1, <2>1, <3>1
    <3> QED BY <3>2 DEF f
  <2> QED BY <2>2
<1> QED BY <1>3, <1>4

\* The night multiplies what the ledger has by the ratio of the night.
LEMMA NightCounts ==
    ASSUME ActionsAssumption, TypeOK, Placed, NewDay, NEW u \in Symbols, Listed(u, day),
           name[u] = u, NEW x, x = name'[u],
           NEW b, Counts(u, b), NEW m, m = b * Ratio(u, day + 1)
    PROVE  Counts(x, m)'
<1> DEFINE R == Ratio(u, day + 1)
           T == Tonight(u)
<1>1. day \in Nat /\ day' = day + 1
  BY DEF NewDay, TypeOK
<1>2. R \in Nat /\ b \in Nat /\ Factor(T) = R /\ T \in SUBSET Splits
  BY RatioType, TonightFactor DEF Positive, Counts
<1>3. m \in Nat /\ (b = 0 => m = 0)
  <2> HIDE DEF R
  <2>1. m = b * R
    BY DEF R
  <2> QED BY <1>2, <2>1
<1>4. \A s \in Symbols :
         LET p == position[s]  q == position'[s] IN
         q.qty = p.qty /\ q.level = p.level /\ q.opened = p.opened /\ q.applied = p.applied
  BY NightStops DEF OnlyStops
<1>5. ASSUME NEW s \in Symbols, IsOpen(position[s])
      PROVE  Started(s, day) /\ (name'[s] = name'[u] <=> name[s] = u)
  BY <1>5, NightIs DEF Placed, Rows, Listed
<1>6. ASSUME NEW s \in Symbols, IsOpen(position'[s]), name'[s] = name'[u],
             ~OpenedAfterSplit(position'[s])
      PROVE  LET q == position'[s] IN
             m = q.qty * Factor(Between(name', s, q.opened, day') \ q.applied)
  <2> DEFINE p == position[s]
             q == position'[s]
             S == Between(name, s, p.opened, day)
             U == S \ p.applied
  <2>1. /\ q.qty = p.qty /\ q.opened = p.opened /\ q.applied = p.applied
        /\ p \in Positions
    BY <1>4 DEF TypeOK
  <2>2. IsOpen(p) /\ ~OpenedAfterSplit(p)
    BY <1>6, <2>1 DEF IsOpen, OpenedAfterSplit
  <2>3. Started(s, day) /\ name[s] = u /\ p.opened <= day
    BY <1>5, <1>6, <2>2 DEF Placed, Rows
  <2>4. p.opened \in Nat /\ p.qty \in Nat
    BY <2>1, RowFields
  <2>5. b = p.qty * Factor(U) /\ p.applied \subseteq S
    BY <2>2, <2>3 DEF Counts, Placed, Levels, Since, Between
  <2>6. Between(name', s, p.opened, day') = S \cup T /\ S \cap T = {}
    <3> HIDE DEF p
    <3> QED BY <2>3, <2>4, SinceNight DEF Placed, OpenSince
  <2>7. U \in SUBSET Splits
    BY DEF Between
  <2> HIDE DEF p, q, S, T
  <2>8. (S \cup T) \ p.applied = U \cup T /\ U \cap T = {}
    BY <2>5, <2>6
  <2>9. Factor(U \cup T) = Factor(U) * R
    BY <1>2, <2>7, <2>8, FactorUnion
  <2>10. m = p.qty * (Factor(U) * R)
    <3> DEFINE k == Factor(U)
               n == p.qty
    <3>1. k \in Nat /\ n \in Nat /\ m = (n * k) * R
      BY <2>4, <2>5, <2>7, FactorType DEF Positive
    <3> HIDE DEF k, n, R
    <3>2. m = n * (k * R)
      BY <1>2, <3>1
    <3> QED BY <3>2 DEF k, n
  <2> QED BY <2>1, <2>6, <2>8, <2>9, <2>10 DEF q
<1>7. (\A s \in Symbols : name'[s] = name'[u] => ~IsOpen(position'[s])) => m = 0
  <2>1. \A s \in Symbols : IsOpen(position'[s]) <=> IsOpen(position[s])
    BY <1>4 DEF IsOpen
  <2> QED BY <1>3, <1>5, <2>1 DEF Counts
<1> QED BY <1>3, <1>6, <1>7 DEF Counts, IsOpen, OpenedAfterSplit, Since, Between

LEMMA SharesNight ==
    ASSUME ActionsAssumption, TypeOK, Placed, Shares, NewDay
    PROVE  Shares'
<1>1. /\ day \in Nat /\ day' = day + 1 /\ fill' = fill /\ booked' = booked /\ mixed' = mixed
  BY DEF NewDay, TypeOK
<1>2. SUFFICES ASSUME AllFresh', ~mixed', NEW x \in Symbols, Listed(x, day + 1)
               PROVE  \E b, r : Leads(x, b, r)'
  BY <1>1 DEF Shares, Listed, Started, Ended
<1>3. AllFresh
  BY <1>1, <1>2, AllFreshBefore
<1>4. PICK u \in Symbols :
              /\ Listed(u, day) /\ name[u] = u /\ name'[u] = x
              /\ \/ u = x
                 \/ \E c \in Changes : c.old = u /\ c.new = x /\ c.date = day + 1
  BY <1>2, YesterdayIs DEF Placed
<1>5. PICK b, r : Leads(u, b, r)
  BY <1>1, <1>2, <1>3, <1>4 DEF Shares
<1>6. PICK R : R = Ratio(u, day + 1)
  OBVIOUS
<1>7. R \in Nat
  BY <1>6, RatioType DEF Positive
<1> DEFINE N == Len(fill)
<1>8. /\ booked \in Nat /\ N \in Nat /\ booked <= N
      /\ r \in [booked..N -> Nat] /\ r[booked] = b /\ r[N] = held[u]
      /\ \A m \in (booked + 1)..N :
            r[m] = r[m - 1] + (IF fill[m].symbol = u THEN fill[m].qty ELSE 0)
  BY <1>5, FillIs DEF Leads, Trail
<1>9. PICK c : c = b * R
  OBVIOUS
<1>10. PICK t : t = [m \in booked..N |-> r[m] * R]
  OBVIOUS
<1>11. Counts(x, c)'
  BY <1>4, <1>5, <1>6, <1>9, NightCounts DEF Leads
<1>12. held'[x] = held[u] * R
  BY <1>4, <1>6, NightIs DEF Placed, Listed
<1>13. t \in [booked..N -> Nat] /\ t[booked] = c /\ t[N] = held'[x]
  <2> HIDE DEF N
  <2>1. \A m \in booked..N : r[m] * R \in Nat
    BY <1>7, <1>8
  <2>2. booked \in booked..N /\ N \in booked..N
    BY <1>8
  <2> QED BY <1>8, <1>9, <1>10, <1>12, <2>1, <2>2
<1>14. ASSUME NEW m \in (booked + 1)..N
       PROVE  t[m] = t[m - 1] + (IF fill[m].symbol = x THEN fill[m].qty ELSE 0)
  <2>1. m \in booked..N /\ m - 1 \in booked..N
    BY <1>8
  <2>2. t[m] = r[m] * R /\ t[m - 1] = r[m - 1] * R /\ r[m] \in Nat /\ r[m - 1] \in Nat
    BY <1>8, <1>10, <2>1
  <2>3. \/ u = x /\ R = 1
        \/ fill[m].symbol # u /\ fill[m].symbol # x
    BY <1>2, <1>4, <1>6, NightFresh
  <2>4. r[m] = r[m - 1] + (IF fill[m].symbol = u THEN fill[m].qty ELSE 0)
    BY <1>8
  <2>5. CASE u = x /\ R = 1
    <3>1. t[m] = r[m] /\ t[m - 1] = r[m - 1]
      BY <2>2, <2>5
    <3> QED BY <2>4, <2>5, <3>1
  <2>6. CASE fill[m].symbol # u /\ fill[m].symbol # x
    <3>1. r[m] = r[m - 1]
      BY <2>2, <2>4, <2>6
    <3>2. t[m] = t[m - 1] /\ t[m - 1] \in Nat
      BY <1>7, <2>2, <3>1
    <3> QED BY <2>6, <3>2
  <2> QED BY <2>3, <2>5, <2>6
<1>15. Trail(t, c, x)' /\ t[Len(fill')] = held'[x]
  BY <1>1, <1>13, <1>14 DEF Trail
<1> QED BY <1>11, <1>15 DEF Leads

-----------------------------------------------------------------------------
\* The replay counts: it raises when a SELL does not find its shares, and until then
\* the quantity of a symbol goes by its fills.
LEMMA ReplayedFill ==
    ASSUME TypeOK, NEW n \in (booked + 1)..Len(fill)
    PROVE  LET last == After[n - 1]  f == fill[n]  p == last.position[f.symbol] IN
           /\ After[n].ok <=> (last.ok /\ p.qty + f.qty >= 0)
           /\ After[n].ok => \A x \in Symbols :
                 After[n].position[x].qty
                    = last.position[x].qty + (IF f.symbol = x THEN f.qty ELSE 0)
<1> DEFINE last == After[n - 1]
           f == fill[n]
           p == last.position[f.symbol]
           y == last.ok /\ p.qty + f.qty >= 0
           z == [last.position EXCEPT ![f.symbol] = Booked(p, f)]
           w == After[n]
<1>1. n - 1 \in booked..Len(fill) /\ f \in Fills /\ f.symbol \in Symbols /\ f.qty \in Int
  BY FillIs DEF Fills
<1>2. w = [ok |-> y, position |-> z]
  BY FillIs, AfterIs DEF WithFill
<1>3. ReplayedTo(n - 1)
  BY <1>1, ReplayedAlways
<1> HIDE DEF y, z, w
<1>4. (w.ok <=> y) /\ w.position = z
  <2>1. w.ok = y
    BY <1>2, Zenon
  <2> QED BY <1>2, <2>1
<1>5. ASSUME y PROVE \A x \in Symbols : z[x].qty = last.position[x].qty + (IF f.symbol = x THEN f.qty ELSE 0)
  <2>1. last.ok /\ p.qty + f.qty >= 0
    BY <1>5 DEF y
  <2>2. last.position \in [Symbols -> Positions] /\ GoodRow(p)
    BY <1>1, <1>3, <2>1 DEF ReplayedTo
  <2>3. Booked(p, f).qty = p.qty + f.qty
    BY <1>1, <2>1, <2>2, BookedIs
  <2>4. \A x \in Symbols : last.position[x].qty \in Nat
    BY <2>2, RowFields
  <2> HIDE DEF last, f
  <2>5. z[f.symbol] = Booked(p, f) /\ \A x \in Symbols : x # f.symbol => z[x] = last.position[x]
    BY <1>1, <2>2 DEF z
  <2> QED BY <2>3, <2>4, <2>5
<1> QED BY <1>4, <1>5 DEF w, y, z

\* What is true of the start of a replay and goes from fill to fill is true of its end.
Following(b, r, x, n) ==
    After[n].ok => After[n].position[x].qty - position[x].qty = r[n] - b

LEMMA ReplayFollows ==
    ASSUME TypeOK, NEW x \in Symbols, NEW b \in Nat, NEW r, Trail(r, b, x),
           NEW n \in booked..Len(fill)
    PROVE  Following(b, r, x, n)
<1> DEFINE Bad == { k \in booked..Len(fill) : ~Following(b, r, x, k) }
<1> SUFFICES ASSUME Bad # {} PROVE FALSE
  OBVIOUS
<1>1. PICK k \in Bad : \A i \in Bad : k <= i
  <2>1. Bad \in SUBSET Nat
    BY FillIs
  <2> HIDE DEF Bad
  <2> QED BY <2>1, LeastNatural
<1>2. \A i \in booked..Len(fill) : After[i].ok => After[i].position[x].qty \in Nat
  <2> SUFFICES ASSUME NEW i \in booked..Len(fill), After[i].ok PROVE After[i].position[x].qty \in Nat
    OBVIOUS
  <2>1. After[i].position \in [Symbols -> Positions]
    BY ReplayedAlways DEF ReplayedTo
  <2> DEFINE p == After[i].position[x]
  <2>2. p \in Positions
    BY <2>1
  <2> HIDE DEF p
  <2>3. p.qty \in Nat
    BY <2>2, RowFields
  <2> QED BY <2>3 DEF p
<1>3. position[x].qty \in Nat
  <2>1. position[x] \in Positions
    BY DEF TypeOK
  <2> QED BY <2>1, RowFields
<1>4. Following(b, r, x, booked)
  <2>1. After[booked].position = position
    BY FillIs, AfterIs
  <2> QED BY <1>3, <2>1 DEF Following, Trail
<1>5. k \in (booked + 1)..Len(fill) /\ k - 1 \in booked..Len(fill) /\ k \in booked..Len(fill)
  BY <1>1, <1>4, FillIs
<1>6. k - 1 \notin Bad
  BY <1>1, <1>5, FillIs
<1>7. Following(b, r, x, k - 1)
  BY <1>5, <1>6
<1>8. After[k].ok => After[k - 1].ok
      /\ After[k].position[x].qty
            = After[k - 1].position[x].qty + (IF fill[k].symbol = x THEN fill[k].qty ELSE 0)
  BY <1>5, ReplayedFill
<1>9. /\ r[k] = r[k - 1] + (IF fill[k].symbol = x THEN fill[k].qty ELSE 0)
      /\ r[k] \in Nat /\ r[k - 1] \in Nat /\ fill[k].qty \in Int
  BY <1>5, FillIs DEF Trail, Fills
<1>10. Following(b, r, x, k)
  <2> SUFFICES ASSUME After[k].ok
               PROVE  After[k].position[x].qty - position[x].qty = r[k] - b
    BY DEF Following
  <2> DEFINE m == After[k - 1].position[x].qty
             e == IF fill[k].symbol = x THEN fill[k].qty ELSE 0
             v == After[k].position[x].qty
             o == position[x].qty
             i == r[k]
             j == r[k - 1]
  <2>1. m \in Nat /\ o \in Nat /\ e \in Int /\ i \in Nat /\ j \in Nat /\ v \in Nat
    BY <1>2, <1>3, <1>5, <1>8, <1>9
  <2>2. v = m + e /\ m - o = j - b /\ i = j + e
    BY <1>7, <1>8, <1>9 DEF Following
  <2> HIDE DEF m, e, v, o, i, j
  <2>3. v - o = i - b
    <3>1. v - o = (m - o) + e /\ i - b = (j - b) + e
      BY ONLY <2>1, <2>2, b \in Nat
    <3> QED BY ONLY <2>2, <3>1
  <2> QED BY <2>3 DEF v, o, i
<1> QED BY <1>1, <1>10

\* Shares bought fresh have not been split since, under whatever name.
LEMMA FreshSince ==
    ASSUME ActionsAssumption, TypeOK, Placed, NEW n \in (booked + 1)..Len(fill), Fresh(fill[n])
    PROVE  LET f == fill[n] IN OpenSince(f.at, f.day) = {} /\ Listed(f.at, day) /\ name[f.at] = f.at
<1> DEFINE f == fill[n]
<1>1. f.at \in Symbols /\ f.day \in Nat /\ day \in Nat
  <2>1. f \in Fills
    BY FillIs
  <2>2. day \in Nat
    BY DEF TypeOK
  <2> QED BY <2>1, <2>2 DEF Fills
<1>2. f.day <= day /\ Started(f.at, f.day)
  BY DEF Placed, FillsFit
<1>3. /\ f.symbol = f.at /\ ~Ended(f.at, day)
      /\ \A a \in Splits : a.symbol = f.at => a.ex \notin (f.day + 1)..day
  BY DEF Fresh
<1> HIDE DEF f
<1>4. Listed(f.at, day)
  BY <1>1, <1>2, <1>3, ActionFields DEF Listed, Started
<1>5. name[f.at] = f.at
  BY <1>1, <1>3 DEF Placed, Names
<1>6. ASSUME NEW a \in Splits, name[a.symbol] = f.at, a.ex \in (f.day + 1)..day PROVE FALSE
  <2>1. a.symbol # f.at /\ a.symbol \in Symbols
    BY <1>3, <1>6, ActionFields
  <2>2. PICK c, e \in Changes : c.new = f.at /\ e.old = a.symbol /\ e.date <= c.date
    BY <1>6, <2>1 DEF Placed, Names
  <2>3. c.date <= f.day
    BY <1>2, <2>2 DEF Started
  <2>4. a.ex < e.date
    BY <2>2 DEF ActionsAssumption
  <2> QED BY <1>1, <1>6, <2>2, <2>3, <2>4, ActionFields
<1>7. OpenSince(f.at, f.day) = {}
  BY <1>5, <1>6 DEF OpenSince, Between
<1> QED BY <1>4, <1>5, <1>7 DEF f

\* A boot that comes up without a stale fill leaves no split behind.
LEMMA BootCarries ==
    ASSUME ActionsAssumption, TypeOK, Placed, Shares, Boot, process' = "up", ~mixed',
           NEW s \in Symbols, IsOpen(position'[s]), ~OpenedAfterSplit(position'[s])
    PROVE  LET q == position'[s] IN
           /\ Listed(s, day) /\ name[s] = s /\ q.qty = held[s]
           /\ OpenSince(s, q.opened) \subseteq q.applied
<1> DEFINE p == position[s]
           q == position'[s]
           S == OpenSince(s, q.opened)
<1>1. /\ Replayed.ok /\ position' = Replayed.position /\ q.qty = held[s]
      /\ AllFresh /\ ~mixed
      /\ \/ Resumes(q, p) \/ q = Flat
         \/ \E m \in (booked + 1)..Len(fill) : fill[m].symbol = s /\ OpenedBy(q, fill[m])
  BY BootUp
<1>2. q.qty > 0 /\ q # Flat
  BY FlatRow DEF IsOpen
<1>3. Listed(s, day) /\ name[s] = s
  BY <1>1, <1>2 DEF Placed, Listings, Names, Listed
<1>4. CASE Resumes(q, p)
  <2>1. p \in Positions
    BY DEF TypeOK
  <2>2. q.opened = p.opened /\ q.applied = p.applied /\ IsOpen(p)
    BY <1>4, <2>1, ResumedRow DEF Resumes
  <2>3. ~OpenedAfterSplit(p)
    BY <2>2 DEF OpenedAfterSplit
  <2>4. PICK b, r : Leads(s, b, r)
    BY <1>1, <1>3 DEF Shares
  <2> DEFINE U == S \ p.applied
  <2>5. b = p.qty * Factor(U)
    BY <1>3, <2>2, <2>3, <2>4 DEF Leads, Counts, Since, OpenSince, Between
  <2>6. q.qty - p.qty = held[s] - b
    <3>1. Trail(r, b, s) /\ b \in Nat /\ r[Len(fill)] = held[s]
      BY <2>4 DEF Leads, Counts
    <3>2. Following(b, r, s, Len(fill))
      BY <3>1, FillIs, ReplayFollows
    <3> QED BY <1>1, <3>1, <3>2 DEF Following, Replayed
  <2>7. U = {}
    <3> SUFFICES ASSUME U # {} PROVE FALSE
      OBVIOUS
    <3>1. U \in SUBSET Splits
      BY DEF OpenSince, Between
    <3>2. Factor(U) >= 2 /\ Factor(U) \in Nat
      BY <3>1, FactorMore, FactorType DEF Positive
    <3>3. p.qty \in Nat /\ p.qty > 0 /\ held[s] \in Nat
      BY <2>1, <2>2, RowFields DEF IsOpen, TypeOK
    <3> DEFINE k == Factor(U)
               o == p.qty
    <3>4. k \in Nat /\ k >= 2 /\ o \in Nat /\ o > 0 /\ b = o * k /\ b \in Nat
      BY <2>4, <2>5, <3>2, <3>3 DEF Leads, Counts
    <3>5. b = o
      <4> DEFINE v == held[s]
      <4>1. v - o = v - b /\ v \in Nat
        BY <1>1, <2>6, <3>3
      <4> HIDE DEF v, o, k
      <4> QED BY ONLY <3>4, <4>1
    <3> HIDE DEF k, o
    <3>6. o * k >= o * 2
      BY ONLY <3>4
    <3> QED BY ONLY <3>4, <3>5, <3>6
  <2> QED BY <1>1, <1>3, <2>2, <2>7
<1>5. CASE \E m \in (booked + 1)..Len(fill) : fill[m].symbol = s /\ OpenedBy(q, fill[m])
  <2>1. PICK m \in (booked + 1)..Len(fill) : fill[m].symbol = s /\ OpenedBy(q, fill[m])
    BY <1>5
  <2>2. Fresh(fill[m]) /\ fill[m] \in Fills
    BY <1>1, FillIs DEF AllFresh
  <2>3. fill[m].at = s /\ q.opened = fill[m].day
    BY <2>1, <2>2, OpenedRow DEF Fresh
  <2>4. OpenSince(fill[m].at, fill[m].day) = {}
    BY <2>2, FreshSince
  <2> QED BY <1>1, <1>3, <2>3, <2>4
<1> QED BY <1>1, <1>2, <1>4, <1>5

LEMMA SharesBoot ==
    ASSUME ActionsAssumption, TypeOK, Placed, Shares, Boot
    PROVE  Shares'
<1>1. day' = day /\ name' = name /\ held' = held /\ fill' = fill
  BY DEF Boot, outside
<1>2. CASE process' = "up"
  <2>1. booked' = Len(fill) /\ Len(fill) \in Nat
    BY <1>2, BootUp, FillIs
  <2>2. SUFFICES ASSUME ~mixed', NEW x \in Symbols, Listed(x, day)
                 PROVE  \E b, r : Leads(x, b, r)'
    BY <1>1 DEF Shares, Listed, Started, Ended
  <2>3. PICK b : b = held[x]
    OBVIOUS
  <2>4. PICK r : r = [n \in Len(fill)..Len(fill) |-> b]
    OBVIOUS
  <2>5. b \in Nat /\ name[x] = x
    BY <2>2, <2>3 DEF TypeOK, Placed, Names, Listed
  <2>6. Trail(r, b, x)' /\ r[Len(fill')] = held'[x]
    <3>1. Trail(r, b, x)'
      BY <1>1, <2>1, <2>4, <2>5 DEF Trail
    <3> QED BY <1>1, <2>1, <2>3, <2>4, <3>1
  <2>7. ASSUME NEW s \in Symbols, IsOpen(position'[s]), name[s] = x, ~OpenedAfterSplit(position'[s])
        PROVE  LET q == position'[s] IN b = q.qty * Factor(OpenSince(s, q.opened) \ q.applied)
    <3> DEFINE q == position'[s]
               U == OpenSince(s, q.opened) \ q.applied
    <3>1. name[s] = s /\ q.qty = held[s] /\ U = {}
      BY <1>2, <2>2, <2>7, BootCarries
    <3>2. Factor(U) = 1
      BY <3>1, FactorNone
    <3>3. held[s] * 1 = held[s] /\ x = s
      BY <2>7, <3>1 DEF TypeOK
    <3> QED BY <2>3, <3>1, <3>2, <3>3
  <2>8. (\A s \in Symbols : name[s] = x => ~IsOpen(position'[s])) => b = 0
    <3>1. position'[x].qty = held[x]
      BY <1>2, BootUp
    <3> QED BY <2>3, <2>5, <3>1 DEF IsOpen
  <2>9. Counts(x, b)'
    BY <1>1, <2>5, <2>7, <2>8 DEF Counts, IsOpen, OpenedAfterSplit, Since, OpenSince, Between
  <2> QED BY <2>6, <2>9 DEF Leads
<1>3. CASE process' # "up"
  <2>1. position' = position /\ booked' = booked /\ mixed' = mixed
    BY <1>3 DEF Boot
  <2>2. OnlyStops
    BY <2>1, RowsAreGood DEF OnlyStops, TypeOK
  <2> QED BY <1>1, <2>1, <2>2, SharesStill
<1> QED BY <1>2, <1>3

\* What a boot finds when every position went through its splits under today's name.
LEMMA CarriedShares ==
    ASSUME TypeOK, Placed, Shares, AllFresh, ~mixed,
           \A s \in Symbols : IsOpen(position[s]) => Carried(position[s], s),
           NEW x \in Symbols
    PROVE  \E r : Trail(r, position[x].qty, x) /\ r[Len(fill)] = held[x]
<1> DEFINE p == position[x]
<1>1. p \in Positions /\ p.qty \in Nat /\ p.opened \in Nat
  <2>1. p \in Positions
    BY DEF TypeOK
  <2> QED BY <2>1, RowFields
<1>2. CASE Listed(x, day)
  <2>1. PICK b, r : Leads(x, b, r)
    BY <1>2 DEF Shares
  <2>2. name[x] = x
    BY <1>2 DEF Placed, Names, Listed
  <2>3. CASE IsOpen(p)
    <3>1. p.applied = Since(p, x)
      BY <2>3 DEF Carried
    <3>2. ~OpenedAfterSplit(p)
      <4>1. \A a \in Since(p, x) : a \in Splits /\ a.ex \in (p.opened + 1)..day
        BY DEF Since
      <4>2. day \in Nat /\ \A a \in Splits : a.ex \in Nat
        BY ActionFields DEF TypeOK
      <4>3. \A a \in p.applied : ~(a.ex <= p.opened)
        BY <1>1, <3>1, <4>1, <4>2
      <4> QED BY <4>3 DEF OpenedAfterSplit
    <3>3. Since(p, x) \ p.applied = {}
      BY <3>1
    <3>4. b = p.qty * 1
      BY <2>1, <2>2, <2>3, <3>2, <3>3, FactorNone DEF Leads, Counts
    <3>5. b = p.qty
      BY <1>1, <3>4
    <3> QED BY <2>1, <3>5 DEF Leads
  <2>4. CASE ~IsOpen(p)
    <3>1. ASSUME NEW s \in Symbols, name[s] = x, IsOpen(position[s]) PROVE FALSE
      <4>1. Listed(s, day)
        BY <3>1 DEF Carried
      <4> QED BY <2>4, <3>1, <4>1 DEF Placed, Names, Listed
    <3>2. b = 0
      BY <2>1, <3>1 DEF Leads, Counts
    <3>3. p.qty = 0
      BY <1>1, <2>4 DEF IsOpen
    <3> QED BY <2>1, <3>2, <3>3 DEF Leads
  <2> QED BY <2>3, <2>4
<1>3. CASE ~Listed(x, day)
  <2>1. ~IsOpen(p) /\ held[x] = 0
    BY <1>3 DEF Carried, Placed, Listings
  <2>2. p.qty = 0
    BY <1>1, <2>1 DEF IsOpen
  <2>3. ASSUME NEW n \in (booked + 1)..Len(fill) PROVE fill[n].symbol # x
    <3>1. Fresh(fill[n])
      BY DEF AllFresh
    <3>2. Listed(fill[n].at, day) /\ fill[n].symbol = fill[n].at
      <4>1. fill[n].symbol = fill[n].at /\ ~Ended(fill[n].at, day)
        BY <3>1 DEF Fresh
      <4>2. Started(fill[n].at, fill[n].day) /\ fill[n].day <= day
        BY DEF Placed, FillsFit
      <4>3. fill[n] \in Fills
        BY FillIs
      <4>4. fill[n].day \in Nat
        BY <4>3 DEF Fills
      <4>5. day \in Nat
        BY DEF TypeOK
      <4> QED BY <4>1, <4>2, <4>4, <4>5, ActionFields DEF Listed, Started
    <3> QED BY <1>3, <3>2
  <2> DEFINE r == [n \in booked..Len(fill) |-> 0]
  <2>4. booked \in booked..Len(fill) /\ Len(fill) \in booked..Len(fill)
        /\ \A n \in (booked + 1)..Len(fill) : n \in booked..Len(fill) /\ n - 1 \in booked..Len(fill)
    BY FillIs
  <2>5. Trail(r, p.qty, x)
    BY <2>2, <2>3, <2>4 DEF Trail
  <2> QED BY <2>1, <2>4, <2>5
<1> QED BY <1>2, <1>3

LEMMA BootFindsShares ==
    ASSUME TypeOK, Placed, Shares, AllFresh, ~mixed,
           \A s \in Symbols : IsOpen(position[s]) => Carried(position[s], s)
    PROVE  Replayed.ok /\ Agrees
<1> DEFINE Way(x) == CHOOSE r : Trail(r, position[x].qty, x) /\ r[Len(fill)] = held[x]
           Bad == { k \in booked..Len(fill) : ~After[k].ok }
<1>1. \A x \in Symbols : Trail(Way(x), position[x].qty, x) /\ Way(x)[Len(fill)] = held[x]
  BY CarriedShares
<1> HIDE DEF Way
<1>2. \A x \in Symbols : position[x].qty \in Nat
  <2> SUFFICES ASSUME NEW x \in Symbols PROVE position[x].qty \in Nat
    OBVIOUS
  <2>1. position[x] \in Positions
    BY DEF TypeOK
  <2> QED BY <2>1, RowFields
<1>3. ASSUME NEW x \in Symbols, NEW n \in booked..Len(fill), After[n].ok
      PROVE  After[n].position[x].qty = Way(x)[n]
  <2>1. Following(position[x].qty, Way(x), x, n)
    BY <1>1, <1>2, ReplayFollows
  <2>2. Way(x)[n] \in Nat
    BY <1>1 DEF Trail
  <2>3. After[n].position[x].qty \in Nat
    <3>1. After[n].position \in [Symbols -> Positions]
      BY <1>3, ReplayedAlways DEF ReplayedTo
    <3> DEFINE p == After[n].position[x]
    <3>2. p \in Positions
      BY <3>1
    <3> HIDE DEF p
    <3>3. p.qty \in Nat
      BY <3>2, RowFields
    <3> QED BY <3>3 DEF p
  <2>4. After[n].position[x].qty - position[x].qty = Way(x)[n] - position[x].qty
    BY <1>3, <2>1 DEF Following
  <2> QED BY <1>2, <2>2, <2>3, <2>4
<1>4. Bad = {}
  <2> SUFFICES ASSUME Bad # {} PROVE FALSE
    OBVIOUS
  <2>1. PICK k \in Bad : \A i \in Bad : k <= i
    <3>1. Bad \in SUBSET Nat
      BY FillIs
    <3> HIDE DEF Bad
    <3> QED BY <3>1, LeastNatural
  <2>2. After[booked].ok
    BY FillIs, AfterIs
  <2>3. k \in (booked + 1)..Len(fill) /\ k - 1 \in booked..Len(fill)
    BY <2>1, <2>2, FillIs
  <2>4. After[k - 1].ok
    BY <2>1, <2>3, FillIs
  <2> DEFINE x == fill[k].symbol
  <2>5. x \in Symbols /\ fill[k].qty \in Int
    BY <2>3, FillIs DEF Fills
  <2>6. After[k - 1].position[x].qty = Way(x)[k - 1]
    BY <1>3, <2>3, <2>4, <2>5
  <2>7. Way(x)[k] = Way(x)[k - 1] + fill[k].qty /\ Way(x)[k] \in Nat
    <3>1. k \in booked..Len(fill)
      BY <2>1
    <3>2. Trail(Way(x), position[x].qty, x)
      BY <1>1, <2>5
    <3> QED BY <2>3, <3>1, <3>2 DEF Trail
  <2>8. After[k].ok
    <3>1. After[k - 1].position[x].qty + fill[k].qty >= 0
      BY <2>6, <2>7
    <3> QED BY <2>3, <2>4, <3>1, ReplayedFill
  <2> QED BY <2>1, <2>8
<1>5. After[Len(fill)].ok /\ Len(fill) \in booked..Len(fill)
  BY <1>4, FillIs
<1>6. \A x \in Symbols : After[Len(fill)].position[x].qty = held[x]
  BY <1>1, <1>3, <1>5
<1> QED BY <1>5, <1>6 DEF Replayed, Agrees

LEMMA SharesRest ==
    ASSUME TypeOK, Shares,
           \/ \E a \in Splits \cup Changes : Announce(a)
           \/ \E s \in Symbols : Fall(s)
           \/ MissJob \/ Stop \/ Restart \/ UNCHANGED vars
    PROVE  Shares'
<1>1. UNCHANGED <<day, name, fill, booked, held, position, mixed>>
  BY DEF Announce, Fall, MissJob, Stop, Restart, vars, outside
<1>2. OnlyStops
  BY <1>1, RowsAreGood DEF OnlyStops, TypeOK
<1> QED BY <1>1, <1>2, SharesStill

LEMMA SharesRearm ==
    ASSUME TypeOK, StopsFit, Shares, Rearm
    PROVE  Shares'
<1>1. UNCHANGED <<day, name, fill, booked, held, mixed>>
  BY DEF Rearm, outside
<1> QED BY <1>1, RearmFacts, SharesStill

LEMMA SharesInit == Init => Shares
<1> SUFFICES ASSUME Init, NEW x \in Symbols PROVE \E b, r : Leads(x, b, r)
  BY DEF Shares
<1>0. /\ day = 0 /\ name = [s \in Symbols |-> s] /\ held \in [Symbols -> 0..MaxQty]
      /\ fill = <<>> /\ booked = 0
      /\ \E level \in [Symbols -> {NoLevel, Low}] :
            position = [s \in Symbols |-> IF held[s] = 0 THEN Flat ELSE FirstRow(held[s], level[s])]
  BY Zenon DEF Init, FirstRow
<1>6. PICK level \in [Symbols -> {NoLevel, Low}] :
         position = [s \in Symbols |-> IF held[s] = 0 THEN Flat ELSE FirstRow(held[s], level[s])]
  BY <1>0
<1> DEFINE b == held[x]
           r == [n \in 0..0 |-> b]
<1>1. b \in Nat
  BY <1>0
<1>2. Trail(r, b, x) /\ r[Len(fill)] = held[x]
  <2>1. Len(fill) = 0
    BY <1>0
  <2>2. r \in [booked..Len(fill) -> Nat] /\ r[booked] = b
    BY <1>0, <1>1, <2>1
  <2>3. (booked + 1)..Len(fill) = {}
    BY <1>0, <2>1
  <2> HIDE DEF r
  <2> QED BY <1>0, <2>1, <2>2, <2>3 DEF Trail
<1>3. ASSUME NEW s \in Symbols, IsOpen(position[s]), name[s] = x
      PROVE  b = position[s].qty * Factor(Since(position[s], s) \ position[s].applied)
  <2>1. s = x
    BY <1>0, <1>3
  <2>2. position[s] = FirstRow(b, level[s])
    BY <1>3, <1>6, <2>1, FlatRow
  <2> HIDE DEF b
  <2>3. position[s].qty = b /\ position[s].opened = 0
    BY <2>2 DEF FirstRow, Flat
  <2>4. Since(position[s], s) \ position[s].applied = {}
    BY <1>0, ActionFields DEF Since
  <2>5. b * 1 = b
    BY <1>1
  <2> QED BY <2>3, <2>4, <2>5, FactorNone
<1>4. (\A s \in Symbols : name[s] = x => ~IsOpen(position[s])) => b = 0
  <2> SUFFICES ASSUME b # 0 PROVE name[x] = x /\ IsOpen(position[x])
    OBVIOUS
  <2>1. position[x] = FirstRow(b, level[x]) /\ name[x] = x
    BY <1>0, <1>6
  <2> HIDE DEF b
  <2>2. position[x].qty = b
    BY <2>1 DEF FirstRow, Flat
  <2> QED BY <1>1, <2>1, <2>2 DEF IsOpen
<1>5. Counts(x, b)
  <2> HIDE DEF b
  <2> QED BY <1>1, <1>3, <1>4 DEF Counts
<1> QED BY <1>2, <1>5 DEF Leads

LEMMA SharesNext ==
    ASSUME ActionsAssumption, TypeOK, StopsFit, Placed, Shares, [Next]_vars
    PROVE  Shares'
<1>1. CASE NewDay
  BY <1>1, SharesNight
<1>2. CASE \E s \in Symbols : StopFires(s)
  BY <1>2, SharesStopFires
<1>3. CASE \E s \in Symbols, q \in -MaxQty..MaxQty : BrokerFill(s, q)
  BY <1>3, SharesBrokerFill
<1>4. CASE ApplyCorporateActions
  BY <1>4, SharesApply
<1>5. CASE Rearm
  BY <1>5, SharesRearm
<1>6. CASE Boot
  BY <1>6, SharesBoot
<1>7. CASE \/ \E a \in Splits \cup Changes : Announce(a)
           \/ \E s \in Symbols : Fall(s)
           \/ MissJob \/ Stop \/ Restart \/ UNCHANGED vars
  BY <1>7, SharesRest
<1> QED BY <1>1, <1>2, <1>3, <1>4, <1>5, <1>6, <1>7 DEF Next

Inv == TypeOK /\ StopsFit /\ Placed /\ Shares

LEMMA SharesAlways == Spec => []Inv
<1> USE ActionsAssumption
<1>1. Init => Inv
  BY TypedInit, PlacedInit, SharesInit DEF Inv
<1>2. Inv /\ [Next]_vars => Inv'
  BY TypedNext, PlacedNext, SharesNext DEF Inv
<1> QED BY <1>1, <1>2, PTL DEF Spec

\* A boot comes up whatever the order of jobs, fills, stops and restarts before it,
\* unless a position has not been through its splits and names, or a fill is from
\* before one.
THEOREM CorporateBootComesUp == Spec => []BootComesUp
<1> USE ActionsAssumption
<1>1. Inv => BootComesUp
  BY BootFindsShares DEF Inv, BootComesUp
<1> QED BY <1>1, SharesAlways, PTL

-----------------------------------------------------------------------------
\* An action on day d has not slipped out of the window of the next job that runs.
InReach(d) == d + Window >= day + (IF stage = "early" THEN 0 ELSE 1)

\* While the worker is up, no open position has an action behind it that no job can
\* still fetch under its symbol.
InTime ==
    process = "up" =>
       \A s \in Symbols : IsOpen(position[s]) =>
          /\ \A c \in Changes : c.old = s /\ c.date <= day => InReach(c.date)
          /\ ~mixed /\ ~OpenedAfterSplit(position[s]) =>
                \A a \in Since(position[s], s) \ position[s].applied : a.symbol = s => InReach(a.ex)

\* An action is announced in time.
Announced == /\ \A a \in Splits : a.ex + Lateness <= day => a \in known
             /\ \A c \in Changes : c.date + Lateness <= day => c \in known

LEMMA DateIs ==
    /\ \A a \in Splits : Date(a) = a.ex
    /\ \A c \in Changes : Date(c) = c.date
<1>1. ASSUME NEW c \in Changes PROVE c \notin Splits
  <2>1. c = [old |-> c.old, new |-> c.new, date |-> c.date]
    OBVIOUS
  <2>2. "old" \in DOMAIN c
    BY <2>1
  <2> SUFFICES ASSUME c \in Splits PROVE FALSE
    OBVIOUS
  <2>3. c = [symbol |-> c.symbol, ex |-> c.ex, ratio |-> c.ratio]
    OBVIOUS
  <2>4. "old" \notin DOMAIN c
    BY <2>3
  <2> QED BY <2>2, <2>4
<1> QED BY <1>1 DEF Date

LEMMA AnnouncedNext ==
    ASSUME TypeOK, Announced, [Next]_vars
    PROVE  Announced'
<1>1. CASE NewDay
  <2>1. \A a \in Splits \cup Changes : Date(a) + Lateness <= day + 1 => a \in known
    BY <1>1 DEF NewDay
  <2>2. day' = day + 1 /\ known' = known
    BY <1>1 DEF NewDay
  <2> QED BY <2>1, <2>2, DateIs DEF Announced
<1>2. CASE ~NewDay
  <2>1. day' = day /\ known \subseteq known'
    BY <1>2 DEF Next, Announce, Fall, BrokerFill, StopFires, ApplyCorporateActions, Rearm,
                MissJob, Stop, Restart, Boot, vars, outside
  <2> QED BY <2>1 DEF Announced
<1> QED BY <1>1, <1>2

\* What does not reach the night, the job or a boot leaves actions in reach.
LEMMA InTimeStill ==
    ASSUME TypeOK, InTime, OnlyStops, UNCHANGED <<day, name, mixed>>,
           process' = "up" => process = "up",
           process' = "up" => stage' = stage \/ (stage' = "open" /\ stage = "rearming")
    PROVE  InTime'
<1>1. day' = day /\ name' = name /\ mixed' = mixed
  OBVIOUS
<1>2. SUFFICES ASSUME process' = "up", NEW s \in Symbols, IsOpen(position'[s])
               PROVE  LET q == position'[s] IN
                      /\ \A c \in Changes : c.old = s /\ c.date <= day => InReach(c.date)'
                      /\ ~mixed /\ ~OpenedAfterSplit(q) =>
                            \A a \in Since(q, s) \ q.applied : a.symbol = s => InReach(a.ex)'
  BY <1>1 DEF InTime, InReach, IsOpen, OpenedAfterSplit, Since
<1>3. \A d : InReach(d)' <=> InReach(d)
  BY <1>1, <1>2 DEF InReach
<1> DEFINE p == position[s]
           q == position'[s]
<1>4. q.qty = p.qty /\ q.opened = p.opened /\ q.applied = p.applied
  BY DEF OnlyStops
<1>5. IsOpen(p) /\ Since(q, s) = Since(p, s) /\ (OpenedAfterSplit(q) <=> OpenedAfterSplit(p))
  <2> HIDE DEF p
  <2> QED BY <1>2, <1>4 DEF IsOpen, Since, OpenedAfterSplit
<1>6. /\ \A c \in Changes : c.old = s /\ c.date <= day => InReach(c.date)
      /\ ~mixed /\ ~OpenedAfterSplit(p) =>
            \A a \in Since(p, s) \ p.applied : a.symbol = s => InReach(a.ex)
  BY <1>2, <1>5 DEF InTime
<1> HIDE DEF p, q
<1> QED BY <1>3, <1>4, <1>5, <1>6 DEF q

LEMMA InTimeNight ==
    ASSUME ActionsAssumption, TypeOK, Placed, InTime, NewDay
    PROVE  InTime'
<1>1. /\ day \in Nat /\ day' = day + 1 /\ stage = "open" /\ stage' = "early"
      /\ process' = process /\ mixed' = mixed
  BY DEF NewDay, TypeOK
<1>2. SUFFICES ASSUME process = "up", NEW s \in Symbols, IsOpen(position'[s])
               PROVE  LET q == position'[s] IN
                      /\ \A c \in Changes : c.old = s /\ c.date <= day + 1 => c.date + Window >= day + 1
                      /\ ~mixed /\ ~OpenedAfterSplit(q) =>
                            \A a \in Between(name', s, q.opened, day') \ q.applied :
                               a.symbol = s => a.ex + Window >= day + 1
  BY <1>1, ActionFields DEF InTime, InReach, IsOpen, OpenedAfterSplit, Since, Between
<1> DEFINE p == position[s]
           q == position'[s]
<1>3. q.qty = p.qty /\ q.opened = p.opened /\ q.applied = p.applied /\ p \in Positions
  BY NightStops DEF OnlyStops, TypeOK
<1>4. IsOpen(p) /\ (OpenedAfterSplit(q) <=> OpenedAfterSplit(p)) /\ p.opened \in Nat
  <2>1. p.opened \in Nat
    BY <1>3, RowFields
  <2> HIDE DEF p
  <2> QED BY <1>2, <1>3, <2>1 DEF IsOpen, OpenedAfterSplit
<1>5. /\ \A c \in Changes : c.old = s /\ c.date <= day => InReach(c.date)
      /\ ~mixed /\ ~OpenedAfterSplit(p) =>
            \A a \in Since(p, s) \ p.applied : a.symbol = s => InReach(a.ex)
  BY <1>2, <1>4 DEF InTime
<1>6. \A d : InReach(d) <=> d + Window >= day + 1
  BY <1>1 DEF InReach
<1>7. Started(s, day) /\ p.opened <= day
  BY <1>4 DEF Placed, Rows
<1>8. Between(name', s, p.opened, day') = Since(p, s) \cup Tonight(name[s])
  <2>1. Between(name', s, p.opened, day') = Between(name, s, p.opened, day) \cup Tonight(name[s])
    <3> HIDE DEF p
    <3> QED BY <1>4, <1>7, SinceNight DEF Placed, OpenSince
  <2> QED BY <2>1 DEF Since, Between
<1> HIDE DEF p, q
<1>9. \A c \in Changes : c.old = s /\ c.date <= day + 1 => c.date + Window >= day + 1
  BY <1>1, <1>5, <1>6, ActionFields
<1>10. \A a \in Tonight(name[s]) : a.ex + Window >= day + 1
  BY <1>1, ActionFields DEF Tonight
<1>11. ~mixed /\ ~OpenedAfterSplit(q) =>
          \A a \in Between(name', s, q.opened, day') \ q.applied : a.symbol = s => a.ex + Window >= day + 1
  BY <1>3, <1>4, <1>5, <1>6, <1>8, <1>10
<1> QED BY <1>9, <1>11 DEF q

LEMMA InTimeBoot ==
    ASSUME ActionsAssumption, TypeOK, Placed, Shares, InTime, Boot
    PROVE  InTime'
<1>1. day' = day /\ name' = name /\ stage' = stage
  BY DEF Boot, outside
<1>2. SUFFICES ASSUME process' = "up", NEW s \in Symbols, IsOpen(position'[s])
               PROVE  LET q == position'[s] IN
                      /\ \A c \in Changes : ~(c.old = s /\ c.date <= day)
                      /\ ~mixed' /\ ~OpenedAfterSplit(q) => OpenSince(s, q.opened) \subseteq q.applied
  BY <1>1 DEF InTime, InReach, IsOpen, OpenedAfterSplit, Since, OpenSince, Between
<1>3. \A c \in Changes : ~(c.old = s /\ c.date <= day)
  <2>1. position'[s].qty = held[s] /\ position'[s].qty > 0
    BY <1>2, BootUp DEF IsOpen
  <2>2. Listed(s, day)
    BY <2>1 DEF Placed, Listings
  <2> QED BY <2>2 DEF Listed, Ended
<1>4. ~mixed' /\ ~OpenedAfterSplit(position'[s]) =>
         OpenSince(s, position'[s].opened) \subseteq position'[s].applied
  BY <1>2, BootCarries
<1> QED BY <1>3, <1>4

\* What the job leaves undone: changes and splits that were not announced yet, and the
\* splits of a name a position has only just come to.
LEMMA AfterJob ==
    ASSUME ActionsAssumption, TypeOK, Placed, InTime, Announced, ApplyCorporateActions,
           NEW s \in Symbols, IsOpen(position'[s])
    PROVE  LET q == position'[s] IN
           /\ \A c \in Changes : c.old = s /\ c.date <= day =>
                 c \notin known /\ c.date + Window >= day + 1
           /\ ~mixed /\ ~OpenedAfterSplit(q) =>
                 \A a \in OpenSince(s, q.opened) \ q.applied : a.symbol = s =>
                    /\ a \notin known \/ SplitWaits(s)
                    /\ a.ex + Window >= day + 1
<1> DEFINE q == position'[s]
<1>1. process = "up" /\ stage = "early" /\ day \in Nat
  BY DEF ApplyCorporateActions, TypeOK
<1>2. \A d : InReach(d) <=> d + Window >= day
  BY <1>1 DEF InReach
<1>3. PICK o \in Symbols : ComesFrom(s, o) /\ q = Scaled(o)
  <2>1. q # Flat
    BY FlatRow
  <2> QED BY <2>1, JobMoves
<1>4. /\ IsOpen(position[o]) /\ q.opened = position[o].opened
      /\ q.applied = position[o].applied \cup Due(o)
  BY <1>3, ScaledIs
<1>5. CASE o = s /\ \A c \in DueChanges : c.old # s /\ c.new # s
  <2> DEFINE p == position[s]
  <2>1. /\ \A c \in Changes : c.old = s /\ c.date <= day => InReach(c.date)
        /\ ~mixed /\ ~OpenedAfterSplit(p) =>
              \A a \in OpenSince(s, p.opened) \ p.applied : a.symbol = s => InReach(a.ex)
    BY <1>1, <1>4, <1>5 DEF InTime, Since, OpenSince, Between
  <2>2. ASSUME NEW c \in Changes, c.old = s, c.date <= day
        PROVE  c \notin known /\ c.date + Window >= day + 1
    <3>1. c.date + Window >= day
      BY <1>2, <2>1, <2>2
    <3>2. c.date \in (day - Window)..day
      BY <1>1, <2>2, <3>1, ActionFields
    <3>3. c \notin known
      BY <1>4, <1>5, <2>2, <3>2 DEF DueChanges, Fetched
    <3>4. ~(c.date + Lateness <= day)
      BY <3>3 DEF Announced
    <3> QED BY <1>1, <3>3, <3>4, ActionFields
  <2>3. ASSUME ~mixed, ~OpenedAfterSplit(q),
               NEW a \in OpenSince(s, q.opened) \ q.applied, a.symbol = s
        PROVE  a \notin known /\ a.ex + Window >= day + 1
    <3>1. ~OpenedAfterSplit(p)
      BY <1>4, <1>5, <2>3 DEF OpenedAfterSplit
    <3>2. a \in Splits /\ a.ex <= day /\ a \notin p.applied /\ a \notin Due(s)
          /\ a \in OpenSince(s, p.opened)
      <4>1. a \in OpenSince(s, p.opened) /\ a \notin p.applied /\ a \notin Due(s)
        BY <1>4, <1>5, <2>3
      <4> HIDE DEF p
      <4>2. a \in Splits /\ a.ex \in (p.opened + 1)..day
        BY <4>1 DEF OpenSince, Between
      <4> QED BY <4>1, <4>2
    <3>3. a.ex + Window >= day
      BY <1>2, <2>1, <2>3, <3>1, <3>2
    <3>4. a.ex \in (day - Window)..day
      BY <1>1, <3>2, <3>3, ActionFields
    <3>5. a \notin known
      BY <1>4, <1>5, <2>3, <3>2, <3>4 DEF Due, Fetched
    <3>6. ~(a.ex + Lateness <= day)
      BY <3>2, <3>5 DEF Announced
    <3> QED BY <1>1, <3>2, <3>5, <3>6, ActionFields
  <2> QED BY <2>2, <2>3
<1>6. CASE \E c \in DueChanges : c.old = o /\ c.new = s
  <2>1. PICK e \in DueChanges : e.old = o /\ e.new = s
    BY <1>6
  <2>2. e \in Changes /\ e.date + Window >= day
    <3>1. e \in Changes /\ e.date \in (day - Window)..day
      BY DEF DueChanges, Fetched
    <3> QED BY <1>1, <3>1, ActionFields
  <2>3. ASSUME NEW c \in Changes, c.old = s, c.date <= day PROVE FALSE
    <3>1. e.date + Window < c.date
      BY <2>1, <2>2, <2>3 DEF ActionsAssumption
    <3> QED BY <1>1, <2>2, <2>3, <3>1, ActionFields
  <2>4. ASSUME NEW a \in OpenSince(s, q.opened) \ q.applied, a.symbol = s
        PROVE  SplitWaits(s) /\ a.ex + Window >= day + 1
    <3>1. a \in Splits /\ a.ex <= day
      <4>1. a \in Splits /\ a.ex \in (q.opened + 1)..day
        BY <2>4 DEF OpenSince, Between
      <4> QED BY <4>1
    <3>2. e.date < a.ex
      BY <2>1, <2>2, <2>4, <3>1 DEF ActionsAssumption
    <3>3. SplitWaits(s)
      BY <2>1, <2>4, <3>1 DEF SplitWaits
    <3> QED BY <1>1, <2>2, <3>1, <3>2, <3>3, ActionFields
  <2> QED BY <2>3, <2>4
<1> QED BY <1>3, <1>5, <1>6 DEF ComesFrom

LEMMA InTimeApply ==
    ASSUME ActionsAssumption, TypeOK, Placed, InTime, Announced, ApplyCorporateActions
    PROVE  InTime'
<1>1. /\ day' = day /\ name' = name /\ mixed' = mixed /\ stage' = "rearming"
  BY DEF ApplyCorporateActions, outside
<1>2. SUFFICES ASSUME NEW s \in Symbols, IsOpen(position'[s])
               PROVE  LET q == position'[s] IN
                      /\ \A c \in Changes : c.old = s /\ c.date <= day => c.date + Window >= day + 1
                      /\ ~mixed /\ ~OpenedAfterSplit(q) =>
                            \A a \in OpenSince(s, q.opened) \ q.applied :
                               a.symbol = s => a.ex + Window >= day + 1
  BY <1>1 DEF InTime, InReach, IsOpen, OpenedAfterSplit, Since, OpenSince, Between
<1> QED BY <1>2, AfterJob

LEMMA InTimeNext ==
    ASSUME ActionsAssumption, TypeOK, StopsFit, Placed, Shares, InTime, Announced, [Next]_vars
    PROVE  InTime'
<1>1. CASE NewDay
  BY <1>1, InTimeNight
<1>2. CASE \E s \in Symbols : StopFires(s)
  <2>1. PICK s \in Symbols : StopFires(s)
    BY <1>2
  <2>2. UNCHANGED <<day, stage, name, process, mixed>>
    BY <2>1 DEF StopFires
  <2> QED BY <2>1, <2>2, FiredStops, InTimeStill
<1>3. CASE ApplyCorporateActions
  BY <1>3, InTimeApply
<1>4. CASE Rearm
  <2>1. UNCHANGED <<day, name, mixed>> /\ process = "up" /\ stage = "rearming" /\ stage' = "open"
    BY <1>4 DEF Rearm, outside
  <2> QED BY <1>4, <2>1, RearmFacts, InTimeStill
<1>5. CASE Boot
  BY <1>5, InTimeBoot
<1>6. CASE \/ \E a \in Splits \cup Changes : Announce(a)
           \/ \E s \in Symbols : Fall(s)
           \/ \E s \in Symbols, q \in -MaxQty..MaxQty : BrokerFill(s, q)
           \/ MissJob \/ Stop \/ Restart \/ UNCHANGED vars
  <2>1. /\ UNCHANGED <<day, name, mixed, position>>
        /\ process' = "up" => process = "up"
        /\ process' = "up" => stage' = stage
    BY <1>6 DEF Announce, Fall, BrokerFill, MissJob, Stop, Restart, vars, outside
  <2>2. OnlyStops
    BY <2>1, RowsAreGood DEF OnlyStops, TypeOK
  <2> QED BY <2>1, <2>2, InTimeStill
<1> QED BY <1>1, <1>2, <1>3, <1>4, <1>5, <1>6 DEF Next

LEMMA InTimeInit == Init => InTime /\ Announced
<1> SUFFICES ASSUME Init PROVE InTime /\ Announced
  OBVIOUS
<1>1. day = 0
  BY Zenon DEF Init
<1>2. Announced
  BY <1>1, ActionFields DEF Announced
<1>3. InTime
  <2>1. \A c \in Changes : ~(c.date <= day)
    BY <1>1, ActionFields
  <2>2. ASSUME NEW s \in Symbols, NEW a \in Since(position[s], s) PROVE FALSE
    <3>1. a.ex <= day /\ a \in Splits
      <4>1. TypeOK
        BY TypedInit
      <4>2. position[s] \in Positions
        BY <4>1 DEF TypeOK
      <4>3. position[s].opened \in Nat
        BY <4>2, RowFields
      <4> QED BY <1>1, <2>2, <4>3, ActionFields DEF Since
    <3> QED BY <1>1, <3>1, ActionFields
  <2> QED BY <2>1, <2>2 DEF InTime
<1> QED BY <1>2, <1>3

Whole == Inv /\ InTime /\ Announced

LEMMA WholeAlways == Spec => []Whole
<1> USE ActionsAssumption
<1>1. Init => Whole
  BY TypedInit, PlacedInit, SharesInit, InTimeInit DEF Whole, Inv
<1>2. Whole /\ [Next]_vars => Whole'
  BY TypedNext, PlacedNext, SharesNext, InTimeNext, AnnouncedNext DEF Whole, Inv
<1> QED BY <1>1, <1>2, PTL DEF Spec

\* A position that is open after the job trades under its symbol, and what is pending
\* under that symbol is one of the splits the job cannot get right.
LEMMA JobLeaves ==
    ASSUME ActionsAssumption, Whole, ApplyCorporateActions, Settled, ~mixed,
           NEW s \in Symbols, IsOpen(position'[s])
    PROVE  LET p == position'[s] IN
           /\ Listed(s, day)
           /\ OpenedAfterSplit(p) \/ SplitWaits(s) \/ SplitLost(p, s)
              \/ OpenSince(s, p.opened) \subseteq p.applied
<1> DEFINE p == position'[s]
<1>1. TypeOK /\ Placed /\ InTime /\ Announced
  BY DEF Whole, Inv
<1>2. /\ \A c \in Changes : c.old = s /\ c.date <= day => c \notin known
      /\ ~OpenedAfterSplit(p) =>
            \A a \in OpenSince(s, p.opened) \ p.applied : a.symbol = s => a \notin known \/ SplitWaits(s)
  BY <1>1, AfterJob
<1>3. /\ \A a \in Splits : a.ex <= day => a \in known
      /\ \A c \in Changes : c.date <= day => c \in known
  <2>1. day \in Nat
    BY <1>1 DEF TypeOK
  <2>2. \A a \in Splits \cup Changes : a \in known \/ Date(a) > day
    BY DEF Settled
  <2> QED BY <2>1, <2>2, DateIs, ActionFields
<1>4. Listed(s, day)
  <2>1. Placed'
    BY <1>1, PlacedApply
  <2>2. Started(s, day)
    BY <2>1 DEF Placed, Rows, Started, ApplyCorporateActions
  <2> QED BY <1>2, <1>3, <2>2 DEF Listed, Ended
<1>5. ASSUME ~OpenedAfterSplit(p), ~SplitWaits(s), ~SplitLost(p, s),
             NEW a \in OpenSince(s, p.opened) \ p.applied
      PROVE  FALSE
  <2>1. a \in Splits /\ a.ex <= day
    <3>1. a \in Splits /\ a.ex \in (p.opened + 1)..day
      BY <1>5 DEF OpenSince, Between
    <3> HIDE DEF p
    <3>2. p.opened \in Int
      <4>1. p \in Positions
        BY <1>1, TypedApply DEF p, TypeOK, Whole, Inv
      <4> QED BY <4>1, RowFields
    <3> QED BY <3>1, <3>2, ActionFields
  <2>2. a.symbol = s
    BY <1>5 DEF SplitLost, Since, OpenSince, Between
  <2> QED BY <1>2, <1>3, <1>5, <2>1, <2>2
<1> QED BY <1>4, <1>5

JobStep ==
    ApplyCorporateActions /\ Settled /\ ~mixed =>
       \A s \in Symbols :
          LET p == position'[s] IN
          \/ IsOpen(p) /\ (OpenedAfterSplit(p) \/ SplitWaits(s) \/ SplitLost(p, s))
          \/ /\ p.qty = held[s]
             /\ IsOpen(p) => p.level = market[s].low \/ (p.level = NoLevel /\ WithoutLevel(s))

LEMMA JobStepAligns ==
    ASSUME ActionsAssumption, Whole
    PROVE  JobStep
<1> SUFFICES ASSUME ApplyCorporateActions, Settled, ~mixed, NEW s \in Symbols,
                    IsOpen(position'[s]) =>
                       ~(OpenedAfterSplit(position'[s]) \/ SplitWaits(s) \/ SplitLost(position'[s], s))
             PROVE  LET p == position'[s] IN
                    /\ p.qty = held[s]
                    /\ IsOpen(p) => p.level = market[s].low \/ (p.level = NoLevel /\ WithoutLevel(s))
  BY DEF JobStep
<1> DEFINE p == position'[s]
           S == OpenSince(s, p.opened)
<1>1. TypeOK /\ StopsFit /\ Placed /\ Shares
  BY DEF Whole, Inv
<1>2. TypeOK' /\ Placed' /\ Shares'
  BY <1>1, TypedApply, PlacedApply, SharesApply
<1>3. /\ day' = day /\ name' = name /\ held' = held /\ market' = market /\ fill' = fill
      /\ booked' = booked /\ mixed' = mixed /\ booked = Len(fill)
  BY DEF ApplyCorporateActions, outside, Settled
<1>4. \A x \in Symbols : IsOpen(position'[x]) => Listed(x, day) /\ name[x] = x
  BY <1>1, JobLeaves DEF Placed, Names, Listed
<1>5. p \in Positions /\ held[s] \in Nat
  BY <1>1, <1>2 DEF TypeOK
<1>6. p.qty \in Nat /\ p.level \in Nat
  BY <1>5, RowFields
<1>7. ASSUME Listed(s, day)
      PROVE  \E b \in Nat :
                /\ b = held[s]
                /\ IsOpen(p) /\ ~OpenedAfterSplit(p) => b = p.qty * Factor(S \ p.applied)
                /\ (\A x \in Symbols : name[x] = s => ~IsOpen(position'[x])) => b = 0
  <2>1. AllFresh'
    BY <1>1, <1>3, FillIs DEF AllFresh
  <2>2. \E b, r : Leads(s, b, r)'
    BY <1>2, <1>3, <1>7, <2>1 DEF Shares, Listed, Started, Ended
  <2>3. PICK b, r : Leads(s, b, r)'
    BY <2>2
  <2>4. b \in Nat /\ b = held[s]
    <3>1. Trail(r, b, s)' /\ r[Len(fill')] = held'[s] /\ Counts(s, b)'
      BY <2>3 DEF Leads
    <3>2. r[booked'] = b
      BY <3>1 DEF Trail
    <3> QED BY <1>3, <3>1, <3>2 DEF Counts
  <2>5. /\ \A x \in Symbols :
              IsOpen(position'[x]) /\ name[x] = s /\ ~OpenedAfterSplit(position'[x]) =>
                 b = position'[x].qty * Factor(OpenSince(x, position'[x].opened) \ position'[x].applied)
        /\ (\A x \in Symbols : name[x] = s => ~IsOpen(position'[x])) => b = 0
    BY <1>3, <2>3 DEF Leads, Counts, IsOpen, OpenedAfterSplit, Since, OpenSince, Between
  <2>6. IsOpen(p) /\ ~OpenedAfterSplit(p) => b = p.qty * Factor(S \ p.applied)
    BY <1>4, <2>5
  <2> QED BY <2>4, <2>5, <2>6
<1>8. CASE IsOpen(p)
  <2>1. Listed(s, day) /\ S \ p.applied = {} /\ ~OpenedAfterSplit(p) /\ name[s] = s
    BY <1>4, <1>8, JobLeaves
  <2>2. PICK b \in Nat : b = held[s] /\ b = p.qty * Factor(S \ p.applied)
    BY <1>7, <1>8, <2>1
  <2>3. PICK o \in Symbols : ComesFrom(s, o) /\ p = Scaled(o) /\ IsOpen(position[o])
    <3>1. p # Flat
      BY <1>8, FlatRow
    <3> QED BY <1>1, <1>8, <3>1, JobMoves, ScaledIs
  <2>4. name[s] = name[o] /\ p.opened = position[o].opened
    BY <1>1, <2>3, MovedFrom, ScaledIs
  <2>5. S = OpenSince(o, position[o].opened)
    BY <2>4 DEF OpenSince, Between
  <2>6. /\ position[o].level = NoLevel => p.level = NoLevel
        /\ position[o].level # NoLevel => market[name[o]].low = p.level \div Factor(S \ p.applied)
    BY <1>1, <2>1, <2>3, <2>5, ScaledLevel
  <2>7. Factor(S \ p.applied) = 1
    BY <2>1, FactorNone
  <2> HIDE DEF p, S
  <2>8. p.qty * 1 = p.qty /\ p.level \div 1 = p.level
    BY <1>6
  <2>9. p.level = market[s].low \/ (p.level = NoLevel /\ WithoutLevel(s))
    BY <2>1, <2>3, <2>4, <2>6, <2>7, <2>8 DEF WithoutLevel
  <2> QED BY <2>2, <2>7, <2>8, <2>9 DEF p
<1>9. CASE ~IsOpen(p)
  <2>1. p.qty = 0
    BY <1>6, <1>9 DEF IsOpen
  <2>2. held[s] = 0
    <3>1. CASE Listed(s, day)
      <4>1. \A x \in Symbols : name[x] = s => ~IsOpen(position'[x])
        BY <1>4, <1>9
      <4> QED BY <1>7, <3>1, <4>1
    <3>2. CASE ~Listed(s, day)
      BY <1>1, <3>2 DEF Placed, Listings
    <3> QED BY <3>1, <3>2
  <2> QED BY <1>9, <2>1, <2>2
<1> QED BY <1>8, <1>9

\* After the job the ledger holds what the broker holds, and a level that was there is
\* at today's prices, however late the announcements and however often the worker was replaced, but for splits
\* the job cannot get right.
THEOREM CorporateJobAligns == Spec => JobAligns
<1> USE ActionsAssumption
<1>1. Whole /\ [Next]_vars => [JobStep]_vars
  BY JobStepAligns
<1>2. JobAligns <=> [][JobStep]_vars
  BY PTL DEF JobAligns, JobStep
<1> QED BY <1>1, <1>2, WholeAlways, PTL DEF Spec
=============================================================================
