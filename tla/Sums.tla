-------------------------------- MODULE Sums --------------------------------
(***************************************************************************)
(* Sums of bounded natural-valued functions by counting: the value f[x] is *)
(* the set of pairs <<x, 1>> ... <<x, f[x]>>.  Money and share columns are *)
(* fixed-width numerics, so the bound is the width of the column.          *)
(***************************************************************************)
EXTENDS Naturals, FiniteSets

Units(f, bound) == { u \in (DOMAIN f) \X (1..bound) : u[2] <= f[u[1]] }

\* The sum of f's values, each of which is in 0..bound.
Tally(f, bound) == Cardinality(Units(f, bound))

\* Their product: the ways to choose one of 1..f[x] for every x.
Selections(f) == { c \in [DOMAIN f -> UNION { 1..f[x] : x \in DOMAIN f }] :
                   \A x \in DOMAIN f : c[x] \in 1..f[x] }
Multiplied(f) == Cardinality(Selections(f))
=============================================================================
