---------------------------- MODULE Sums_proofs ----------------------------
(***************************************************************************)
(* How Tally changes when one value of the function changes, and when one  *)
(* element leaves its domain; how Multiplied splits over its domain.  As   *)
(* both count, these are facts about finite sets, with no induction.  And  *)
(* that a set of naturals has a least one.                                 *)
(***************************************************************************)
EXTENDS Sums, Integers, FiniteSetTheorems, WellFoundedInduction, TLAPS

\* The units of one element: as many as its value.
Column(x, v) == {x} \X (1..v)

\* A column is as high as its value.
LEMMA ColumnSize ==
    ASSUME NEW x, NEW v \in Nat
    PROVE  IsFiniteSet(Column(x, v)) /\ Cardinality(Column(x, v)) = v
<1> DEFINE X == {x}
           V == 1..v
<1>1. IsFiniteSet(X) /\ Cardinality(X) = 1
  BY FS_Singleton
<1>2. IsFiniteSet(V) /\ Cardinality(V) = v
  BY FS_Interval
<1> HIDE DEF X, V
<1>3. IsFiniteSet(X \X V) /\ Cardinality(X \X V) = Cardinality(X) * Cardinality(V)
  BY <1>1, <1>2, FS_Product, Zenon
<1>4. Column(x, v) = X \X V
  BY DEF Column, X, V
<1>5. QED
  BY <1>1, <1>2, <1>3, <1>4

\* The units of a bounded function on a finite set are finitely many.
LEMMA TallyType ==
    ASSUME NEW S, IsFiniteSet(S), NEW bound \in Nat, NEW f, DOMAIN f = S
    PROVE  IsFiniteSet(Units(f, bound)) /\ Tally(f, bound) \in Nat
<1> DEFINE V == 1..bound
<1>1. IsFiniteSet(V)
  BY FS_Interval
<1>2. Units(f, bound) \subseteq S \X V
  BY DEF Units
<1> HIDE DEF V
<1>3. IsFiniteSet(S \X V)
  BY <1>1, FS_Product, Zenon
<1>4. IsFiniteSet(Units(f, bound))
  BY <1>2, <1>3, FS_Subset, Zenon
<1>5. QED
  BY <1>4, FS_CardinalityType, Zenon DEF Tally

\* Everywhere zero sums to zero.
LEMMA TallyZero ==
    ASSUME NEW S, NEW bound \in Nat
    PROVE  Tally([x \in S |-> 0], bound) = 0
<1>1. Units([x \in S |-> 0], bound) = {}
  BY DEF Units
<1>2. QED
  BY <1>1, FS_EmptySet, Zenon DEF Tally

\* Taking x out of the domain takes f[x] out of the sum.
LEMMA TallyWithout ==
    ASSUME NEW S, IsFiniteSet(S), NEW bound \in Nat, NEW f \in [S -> 0..bound],
           NEW x \in S
    PROVE  Tally([y \in S \ {x} |-> f[y]], bound) = Tally(f, bound) - f[x]
<1> DEFINE g == [y \in S \ {x} |-> f[y]]
           F == Units(f, bound)
           G == Units(g, bound)
           C == Column(x, f[x])
<1>1. f[x] \in 0..bound /\ f[x] \in Nat
  OBVIOUS
<1>2. G = F \ C /\ F \cap C = C
  BY <1>1 DEF Units, Column
<1>3. IsFiniteSet(F) /\ Cardinality(F) \in Nat
  <2>1. DOMAIN f = S
    OBVIOUS
  <2>2. QED
    BY <2>1, TallyType, Zenon DEF Tally
<1>4. IsFiniteSet(C) /\ Cardinality(C) = f[x]
  BY <1>1, ColumnSize, Zenon
<1>5. Tally(g, bound) = Cardinality(G) /\ Tally(f, bound) = Cardinality(F)
  BY DEF Tally
<1> HIDE DEF F, G, C
<1>6. Cardinality(F \ C) = Cardinality(F) - Cardinality(F \cap C)
  BY <1>3, FS_Difference, Zenon
<1>7. Cardinality(G) = Cardinality(F) - f[x]
  BY <1>2, <1>4, <1>6
<1>8. QED
  BY <1>5, <1>7

\* No value is larger than the sum.
LEMMA TallyPart ==
    ASSUME NEW S, IsFiniteSet(S), NEW bound \in Nat, NEW f \in [S -> 0..bound],
           NEW x \in S
    PROVE  f[x] \in Nat /\ Tally(f, bound) \in Nat /\ f[x] <= Tally(f, bound)
<1>1. f[x] \in Nat /\ DOMAIN f = S
  OBVIOUS
<1>2. Column(x, f[x]) \subseteq Units(f, bound)
  BY DEF Column, Units
<1>3. IsFiniteSet(Units(f, bound)) /\ Tally(f, bound) \in Nat
  BY <1>1, TallyType, Zenon
<1>4. Cardinality(Column(x, f[x])) = f[x]
  BY <1>1, ColumnSize
<1>5. Cardinality(Column(x, f[x])) <= Cardinality(Units(f, bound))
  BY <1>2, <1>3, FS_Subset
<1> QED BY <1>1, <1>3, <1>4, <1>5 DEF Tally

\* Two functions that agree outside x differ in their sums by what x differs.
LEMMA TallyChange ==
    ASSUME NEW S, IsFiniteSet(S), NEW bound \in Nat,
           NEW f \in [S -> 0..bound], NEW g \in [S -> 0..bound],
           NEW x \in S, \A y \in S \ {x} : g[y] = f[y]
    PROVE  Tally(g, bound) = Tally(f, bound) - f[x] + g[x]
<1>1. [y \in S \ {x} |-> f[y]] = [y \in S \ {x} |-> g[y]]
  OBVIOUS
<1>2. Tally([y \in S \ {x} |-> f[y]], bound) = Tally(f, bound) - f[x]
  BY TallyWithout
<1>3. Tally([y \in S \ {x} |-> g[y]], bound) = Tally(g, bound) - g[x]
  BY TallyWithout
<1>4. Tally(f, bound) \in Nat /\ Tally(g, bound) \in Nat
  <2>1. DOMAIN f = S /\ DOMAIN g = S
    OBVIOUS
  <2>2. QED
    BY <2>1, TallyType, Zenon
<1>5. f[x] \in Nat /\ g[x] \in Nat
  OBVIOUS
<1>6. Tally(f, bound) - f[x] = Tally(g, bound) - g[x]
  BY <1>1, <1>2, <1>3, Zenon
<1>7. QED
  BY <1>4, <1>5, <1>6

\* g is f with a new element x in its domain.
Grows(f, g, x, bound) ==
    /\ bound \in Nat /\ IsFiniteSet(DOMAIN f)
    /\ f \in [DOMAIN f -> 0..bound] /\ g \in [DOMAIN g -> 0..bound]
    /\ x \notin DOMAIN f /\ DOMAIN g = DOMAIN f \cup {x}
    /\ \A y \in DOMAIN f : g[y] = f[y]

\* A new element adds its value to the sum.
LEMMA TallyAdd ==
    ASSUME NEW f, NEW g, NEW x, NEW bound, Grows(f, g, x, bound)
    PROVE  Tally(g, bound) = Tally(f, bound) + g[x]
<1>. USE DEF Grows
<1>. DEFINE S == DOMAIN f
            T == DOMAIN g
<1>1. IsFiniteSet(T) /\ x \in T /\ T \ {x} = S
  BY FS_AddElement
<1>2. [y \in T \ {x} |-> g[y]] = f
  BY <1>1
<1>. f \in [S -> 0..bound] /\ g \in [T -> 0..bound] /\ IsFiniteSet(S)
  OBVIOUS
<1>. HIDE DEF S, T
<1>3. Tally([y \in T \ {x} |-> g[y]], bound) = Tally(g, bound) - g[x]
  BY <1>1, TallyWithout
<1>4. Tally(f, bound) \in Nat /\ Tally(g, bound) \in Nat
  <2>1. DOMAIN f = S /\ DOMAIN g = T
    BY DEF S, T
  <2>. QED
    BY <1>1, <2>1, TallyType, Zenon
<1>5. g[x] \in Nat
  BY <1>1
<1>6. Tally(f, bound) = Tally(g, bound) - g[x]
  BY <1>2, <1>3
<1>. QED
  BY <1>4, <1>5, <1>6

-----------------------------------------------------------------------------
\* A set of naturals has a least element: inclusion between the finite intervals
\* up to its elements is well-founded.
LEMMA LeastNatural ==
  ASSUME NEW T \in SUBSET Nat, T # {}
  PROVE  \E m \in T : \A n \in T : m <= n
<1> DEFINE Upto == {0..n : n \in T}
<1> DEFINE Below == StrictSubsetOrdering(Nat)
<1>1. IsWellFoundedOn(Below, FiniteSubsetsOf(Nat))
  BY FS_StrictSubsetOrderingWellFounded
<1>2. Upto \subseteq FiniteSubsetsOf(Nat)
  <2> SUFFICES ASSUME NEW n \in T PROVE 0..n \in FiniteSubsetsOf(Nat)
    OBVIOUS
  <2>1. IsFiniteSet(0..n)
    BY FS_Interval
  <2>2. 0..n \subseteq Nat
    OBVIOUS
  <2> QED BY <2>1, <2>2 DEF FiniteSubsetsOf
<1>3. Upto # {}
  OBVIOUS
<1>4. \E x \in Upto : \A y \in Upto : ~(<<y, x>> \in Below)
  <2> HIDE DEF Upto, Below
  <2> QED BY <1>1, <1>2, <1>3, WFMin
<1>5. PICK m \in T : \A n \in T : ~(<<0..n, 0..m>> \in Below)
  BY <1>4
<1>6. ASSUME NEW n \in T PROVE m <= n
  <2> SUFFICES ASSUME n < m PROVE FALSE
    OBVIOUS
  <2>1. 0..n \subseteq 0..m /\ 0..n # 0..m
    OBVIOUS
  <2>2. 0..n \in SUBSET Nat /\ 0..m \in SUBSET Nat
    OBVIOUS
  <2>3. <<0..n, 0..m>> \in Below
    BY <2>1, <2>2 DEF StrictSubsetOrdering
  <2> QED BY <2>3, <1>5
<1> QED BY <1>6

Positive == Nat \ {0}

\* There are finitely many choices.
LEMMA SelectionsFinite ==
    ASSUME NEW S, IsFiniteSet(S), NEW f \in [S -> Positive]
    PROVE  IsFiniteSet(Selections(f))
<1> DEFINE V == { 1..f[x] : x \in S }
           W == UNION V
           up == [x \in S |-> 1..f[x]]
           graph == [c \in Selections(f) |-> { <<x, c[x]>> : x \in S }]
<1>1. IsFiniteSet(V)
  <2>1. up \in Surjection(S, V)
    BY DEF Surjection
  <2> HIDE DEF V, up
  <2> QED BY <2>1, FS_Surjection
<1>2. \A T \in V : IsFiniteSet(T)
  BY FS_Interval DEF Positive
<1>3. IsFiniteSet(W)
  BY <1>1, <1>2, FS_UNION
<1>4. IsFiniteSet(SUBSET (S \X W))
  BY <1>3, FS_Product, FS_SUBSET
<1>5. graph \in Injection(Selections(f), SUBSET (S \X W))
  <2>1. Selections(f) \subseteq [S -> W]
    BY DEF Selections
  <2>2. graph \in [Selections(f) -> SUBSET (S \X W)]
    BY <2>1
  <2>3. ASSUME NEW c \in Selections(f), NEW e \in Selections(f), graph[c] = graph[e]
        PROVE  c = e
    <3>1. ASSUME NEW x \in S PROVE c[x] = e[x]
      <4>1. <<x, c[x]>> \in graph[e]
        BY <2>3
      <4> QED BY <4>1
    <3> QED BY <2>1, <3>1
  <2> QED BY <2>2, <2>3 DEF Injection, IsInjective
<1> HIDE DEF W, graph
<1> QED BY <1>4, <1>5, FS_Injection

\* f is g on the one and h on the other of two finite domains.
Joined(f, g, h) ==
    /\ IsFiniteSet(DOMAIN g) /\ IsFiniteSet(DOMAIN h) /\ (DOMAIN g) \cap (DOMAIN h) = {}
    /\ f \in [(DOMAIN g) \cup (DOMAIN h) -> Positive]
    /\ g \in [DOMAIN g -> Positive] /\ h \in [DOMAIN h -> Positive]
    /\ \A x \in DOMAIN g : g[x] = f[x]
    /\ \A x \in DOMAIN h : h[x] = f[x]

\* Choosing over two domains is choosing over each.
LEMMA MultipliedUnion ==
    ASSUME NEW f, NEW g, NEW h, Joined(f, g, h)
    PROVE  Multiplied(f) = Multiplied(g) * Multiplied(h)
<1> USE DEF Joined
<1> DEFINE S == DOMAIN g
           T == DOMAIN h
<1> DEFINE parts == [c \in Selections(f) |-> <<[x \in S |-> c[x]], [x \in T |-> c[x]]>>]
           P == Selections(g) \X Selections(h)
<1>1. IsFiniteSet(Selections(f)) /\ IsFiniteSet(Selections(g)) /\ IsFiniteSet(Selections(h))
  <2>1. IsFiniteSet(S \cup T)
    BY FS_Union
  <2> QED BY <2>1, SelectionsFinite
<1>2. parts \in [Selections(f) -> P]
  <2> SUFFICES ASSUME NEW c \in Selections(f)
               PROVE  [x \in S |-> c[x]] \in Selections(g) /\ [x \in T |-> c[x]] \in Selections(h)
    OBVIOUS
  <2> QED BY DEF Selections
<1>3. ASSUME NEW c \in Selections(f), NEW e \in Selections(f), parts[c] = parts[e]
      PROVE  c = e
  <2>1. [x \in S |-> c[x]] = [x \in S |-> e[x]] /\ [x \in T |-> c[x]] = [x \in T |-> e[x]]
    BY <1>3
  <2>2. ASSUME NEW x \in S \cup T PROVE c[x] = e[x]
    <3>1. CASE x \in S
      <4>1. [y \in S |-> c[y]][x] = [y \in S |-> e[y]][x]
        BY <2>1
      <4> QED BY <3>1, <4>1
    <3>2. CASE x \in T
      <4>1. [y \in T |-> c[y]][x] = [y \in T |-> e[y]][x]
        BY <2>1
      <4> QED BY <3>2, <4>1
    <3> QED BY <3>1, <3>2
  <2>3. DOMAIN c = S \cup T /\ DOMAIN e = S \cup T
        /\ c = [x \in DOMAIN c |-> c[x]] /\ e = [x \in DOMAIN e |-> e[x]]
    BY DEF Selections
  <2> QED BY <2>2, <2>3
<1>4. ASSUME NEW p \in P PROVE \E c \in Selections(f) : parts[c] = p
  <2>1. PICK a \in Selections(g), b \in Selections(h) : p = <<a, b>>
    OBVIOUS
  <2> DEFINE c == [x \in S \cup T |-> IF x \in S THEN a[x] ELSE b[x]]
  <2>2. DOMAIN f = S \cup T /\ DOMAIN g = S /\ DOMAIN h = T
    OBVIOUS
  <2>3. \A x \in S : a[x] \in 1..f[x]
    BY <2>2 DEF Selections
  <2>4. \A x \in T : b[x] \in 1..f[x]
    BY <2>2 DEF Selections
  <2>5. c \in Selections(f)
    BY <2>2, <2>3, <2>4 DEF Selections
  <2>6. a = [x \in S |-> a[x]] /\ b = [x \in T |-> b[x]]
    BY <2>2 DEF Selections
  <2>7. [x \in S |-> c[x]] = a /\ [x \in T |-> c[x]] = b
    BY <2>6
  <2> HIDE DEF c
  <2> QED BY <2>1, <2>5, <2>7
<1>5. parts \in Bijection(Selections(f), P)
  <2> HIDE DEF parts, P
  <2> QED BY <1>2, <1>3, <1>4 DEF Bijection, Injection, IsInjective, Surjection
<1>6. Cardinality(P) = Cardinality(Selections(f))
  <2> HIDE DEF parts, P
  <2>1. ExistsBijection(Selections(f), P)
    BY <1>5 DEF ExistsBijection
  <2> QED BY <1>1, <2>1, FS_Bijection
<1>7. Cardinality(P) = Cardinality(Selections(g)) * Cardinality(Selections(h))
  BY <1>1, FS_Product
<1> QED BY <1>6, <1>7 DEF Multiplied

\* Nothing to choose can be done in one way, and one value in that many.
LEMMA MultipliedEmpty == Multiplied([x \in {} |-> 0]) = 1
<1> DEFINE f == [x \in {} |-> 0]
<1>1. Selections(f) = {f}
  BY DEF Selections
<1> QED BY <1>1, FS_Singleton DEF Multiplied

LEMMA MultipliedOne ==
    ASSUME NEW x, NEW v \in Positive, NEW f \in [{x} -> {v}]
    PROVE  Multiplied(f) = v
<1> DEFINE V == 1..v
           put == [n \in V |-> [y \in {x} |-> n]]
<1>1. DOMAIN f = {x} /\ f[x] = v
  OBVIOUS
<1>2. Selections(f) = [{x} -> V]
  BY <1>1 DEF Selections
<1>3. put \in Bijection(V, [{x} -> V])
  <2>1. put \in [V -> [{x} -> V]]
    OBVIOUS
  <2>2. ASSUME NEW a \in V, NEW b \in V, put[a] = put[b] PROVE a = b
    <3>1. put[a][x] = put[b][x]
      BY <2>2
    <3> QED BY <3>1
  <2>3. ASSUME NEW c \in [{x} -> V] PROVE \E n \in V : put[n] = c
    <3>1. c[x] \in V /\ c = [y \in {x} |-> c[x]]
      OBVIOUS
    <3> QED BY <3>1
  <2> HIDE DEF put, V
  <2> QED BY <2>1, <2>2, <2>3 DEF Bijection, Injection, IsInjective, Surjection
<1>4. IsFiniteSet(V) /\ Cardinality(V) = v
  BY FS_Interval DEF Positive
<1> HIDE DEF put, V
<1>5. ExistsBijection(V, [{x} -> V])
  BY <1>3 DEF ExistsBijection
<1> QED BY <1>2, <1>4, <1>5, FS_Bijection DEF Multiplied

\* There is always a choice.
LEMMA MultipliedType ==
    ASSUME NEW S, IsFiniteSet(S), NEW f \in [S -> Positive]
    PROVE  Multiplied(f) \in Positive
<1>1. IsFiniteSet(Selections(f)) /\ Cardinality(Selections(f)) \in Nat
  BY SelectionsFinite, FS_CardinalityType
<1>2. [x \in S |-> 1] \in Selections(f)
  BY DEF Selections, Positive
<1>3. Selections(f) # {}
  BY <1>2
<1> QED BY <1>1, <1>3, FS_EmptySet DEF Multiplied, Positive
=============================================================================
