---------------------------- MODULE AmountProofs ----------------------------
(***************************************************************************)
(* Facts about amounts.  Sums, proved from the theorems on finite sets:    *)
(* their type, when they are zero, that they are monotone and additive,    *)
(* and what changing the function at one point does.  Profits and their    *)
(* rounding, and the division of a reservation.  Induction over numbers.   *)
(* Products, which may be taken group by group, and prices rounded down    *)
(* factor by factor, which stay below them.                                *)
(***************************************************************************)
EXTENDS Odds, Totals, FiniteSetTheorems, WellFoundedInduction, TLAPS

-----------------------------------------------------------------------------
(* Induction over numbers *)

\* A set of numbers that is not empty has a least one.
LEMMA LeastNumber ==
    ASSUME NEW T, T \subseteq Nat, T # {}
    PROVE  \E x \in T : \A y \in T : x <= y
<1>. DEFINE R == OpToRel(<, Nat)
<1>1. IsWellFoundedOn(R, Nat)
    BY NatLessThanWellFounded
<1>. HIDE DEF R
<1>2. PICK x \in T : \A y \in T : ~(<<y, x>> \in R)
    BY <1>1, WFMin
<1>3. \A y \in T : ~(y < x)
  <2>1. \A y \in Nat, z \in Nat : y < z => <<y, z>> \in R
      BY DEF R, OpToRel
  <2>. QED
      BY <1>2, <2>1
<1>. QED
    BY <1>3

\* Induction over numbers, for a set in place of a predicate.
LEMMA SetInduction ==
    ASSUME NEW S, 0 \in S, \A n \in Nat : n \in S => n + 1 \in S
    PROVE  Nat \subseteq S
<1>. SUFFICES ASSUME Nat \ S # {}
              PROVE  FALSE
    OBVIOUS
<1>1. PICK x \in Nat \ S : \A y \in Nat \ S : x <= y
    BY LeastNumber
<1>2. x # 0 /\ x - 1 \in Nat /\ x - 1 \in S
    BY <1>1
<1>3. (x - 1) + 1 \in S
    BY <1>2
<1>. QED
    BY <1>1, <1>2, <1>3

-----------------------------------------------------------------------------
(* Sums *)

\* The tokens that f hands out outside X; Total(f) counts those outside {}.
UnitsBut(f, X) == UNION {Units(f, y) : y \in DOMAIN f \ X}

\* The number of units of a sum, index by index.
LEMMA UnitsCardinality ==
    ASSUME NEW S, NEW f \in [S -> Nat], NEW x \in S
    PROVE  /\ IsFiniteSet(Units(f, x))
           /\ Cardinality(Units(f, x)) = f[x]
<1>1. f[x] \in Nat
    OBVIOUS
<1>2. /\ IsFiniteSet(1..f[x])
      /\ Cardinality(1..f[x]) = f[x]
    BY <1>1, FS_Interval, SMT
<1>3. /\ IsFiniteSet({x})
      /\ Cardinality({x}) = 1
    BY FS_Singleton
<1>4. /\ IsFiniteSet({x} \X (1..f[x]))
      /\ Cardinality({x} \X (1..f[x])) = 1 * f[x]
    BY <1>2, <1>3, FS_Product
<1>. QED
    BY <1>1, <1>4, SMT DEF Units

\* The units of a sum without one index are finite.
LEMMA UnitsButFinite ==
    ASSUME NEW S, IsFiniteSet(S), NEW f \in [S -> Nat], NEW X
    PROVE  IsFiniteSet(UnitsBut(f, X))
<1>. DEFINE T == {Units(f, y) : y \in S \ X}
            g == [y \in S \ X |-> Units(f, y)]
<1>1. IsFiniteSet(S \ X)
    BY FS_Difference
<1>2. g \in Surjection(S \ X, T)
    BY DEF Surjection
<1>3. IsFiniteSet(T)
    BY <1>1, <1>2, FS_Surjection
<1>4. \A U \in T : IsFiniteSet(U)
    BY UnitsCardinality
<1>5. IsFiniteSet(UNION T)
    BY <1>3, <1>4, FS_UNION
<1>. QED
    BY <1>5 DEF UnitsBut

\* The sum of a natural-valued function on a finite set is a natural number.
LEMMA TotalType ==
    ASSUME NEW S, IsFiniteSet(S), NEW f \in [S -> Nat]
    PROVE  Total(f) \in Nat
<1>1. Total(f) = Cardinality(UnitsBut(f, {}))
    BY DEF Total, UnitsBut
<1>. QED
    BY <1>1, UnitsButFinite, FS_CardinalityType

\* One summand comes out of the sum.
LEMMA TotalSplit ==
    ASSUME NEW S, IsFiniteSet(S), NEW f \in [S -> Nat], NEW x \in S
    PROVE  /\ Cardinality(UnitsBut(f, {x})) \in Nat
           /\ Total(f) = Cardinality(UnitsBut(f, {x})) + f[x]
<1>. DEFINE R == UnitsBut(f, {x})
            U == Units(f, x)
<1>1. IsFiniteSet(R) /\ Cardinality(R) \in Nat
    BY UnitsButFinite, FS_CardinalityType
<1>2. IsFiniteSet(U) /\ Cardinality(U) = f[x]
    BY UnitsCardinality
<1>3. R \cap U = {}
    BY DEF UnitsBut, Units
<1>4. UNION {Units(f, y) : y \in DOMAIN f} = R \cup U
    BY DEF UnitsBut
<1>5. Total(f) = Cardinality(R \cup U)
    BY <1>4 DEF Total
<1>6. f[x] \in Nat
    OBVIOUS
<1>. HIDE DEF R, U
<1>7. Cardinality(R \cup U) = Cardinality(R) + Cardinality(U) - Cardinality(R \cap U)
    BY <1>1, <1>2, FS_Union
<1>8. Cardinality(R \cap U) = 0
    BY <1>3, FS_EmptySet
<1>9. Total(f) = Cardinality(R) + f[x]
    BY <1>1, <1>2, <1>5, <1>6, <1>7, <1>8
<1>. QED
    BY <1>1, <1>9 DEF R

\* Changing a function at one point changes its sum by as much.
LEMMA TotalUpdate ==
    ASSUME NEW S, IsFiniteSet(S), NEW f \in [S -> Nat], NEW g \in [S -> Nat],
           NEW x \in S, \A y \in S \ {x} : g[y] = f[y]
    PROVE  Total(g) = Total(f) - f[x] + g[x]
<1>1. UnitsBut(g, {x}) = UnitsBut(f, {x})
    BY DEF UnitsBut, Units
<1>2. f[x] \in Nat /\ g[x] \in Nat
    OBVIOUS
<1>. QED
    BY <1>1, <1>2, TotalSplit

\* The sum of a function after two of its values change.
LEMMA TotalUpdateTwo ==
    ASSUME NEW S, IsFiniteSet(S), NEW f \in [S -> Nat], NEW g \in [S -> Nat],
           NEW x \in S, NEW y \in S, x # y, \A z \in S \ {x, y} : g[z] = f[z]
    PROVE  Total(g) = Total(f) - f[x] - f[y] + g[x] + g[y]
<1>. DEFINE h == [f EXCEPT ![x] = g[x]]
<1>1. h \in [S -> Nat] /\ h[x] = g[x] /\ h[y] = f[y]
      /\ (\A z \in S \ {x} : h[z] = f[z]) /\ (\A z \in S \ {y} : g[z] = h[z])
    OBVIOUS
<1>2. /\ f[x] \in Nat /\ f[y] \in Nat /\ g[x] \in Nat /\ g[y] \in Nat
      /\ Total(f) \in Nat /\ Total(g) \in Nat /\ Total(h) \in Nat
    BY <1>1, TotalType
<1>. HIDE DEF h
<1>3. Total(h) = Total(f) - f[x] + g[x]
    BY <1>1, TotalUpdate
<1>4. Total(g) = Total(h) - h[y] + g[y]
    BY <1>1, TotalUpdate
<1>. QED
    BY <1>1, <1>2, <1>3, <1>4

\* A sum does not change when two of its summands exchange an amount.
LEMMA TotalExchange ==
    ASSUME NEW S, IsFiniteSet(S), NEW f \in [S -> Nat], NEW g \in [S -> Nat],
           NEW x \in S, NEW y \in S, x # y, f[x] + f[y] = g[x] + g[y],
           \A z \in S \ {x, y} : g[z] = f[z]
    PROVE  Total(g) = Total(f)
<1>1. /\ f[x] \in Nat /\ f[y] \in Nat /\ g[x] \in Nat /\ g[y] \in Nat
      /\ Total(f) \in Nat
    BY TotalType
<1>2. Total(g) = Total(f) - f[x] - f[y] + g[x] + g[y]
    BY TotalUpdateTwo
<1>. QED
    BY <1>1, <1>2

\* No summand exceeds the sum.
LEMMA TotalMember ==
    ASSUME NEW S, IsFiniteSet(S), NEW f \in [S -> Nat], NEW x \in S
    PROVE  f[x] <= Total(f)
<1>1. f[x] \in Nat
    OBVIOUS
<1>2. PICK n \in Nat : Total(f) = n + f[x]
    BY TotalSplit
<1>. QED
    BY <1>1, <1>2

\* A sum is zero exactly when every summand is.
LEMMA TotalZero ==
    ASSUME NEW S, NEW f \in [S -> Nat], \A y \in S : f[y] = 0
    PROVE  Total(f) = 0
<1>1. \A y \in S : Units(f, y) = {}
    BY FS_Interval DEF Units
<1>2. UNION {Units(f, y) : y \in DOMAIN f} = {}
    BY <1>1
<1>. QED
    BY <1>2, FS_EmptySet DEF Total

\* The sum of a function that is positive in one place at most.
LEMMA TotalSingle ==
    ASSUME NEW S, IsFiniteSet(S), NEW f \in [S -> Nat], NEW x \in S,
           \A y \in S \ {x} : f[y] = 0
    PROVE  Total(f) = f[x]
<1>. DEFINE z == [y \in S |-> 0]
<1>1. z \in [S -> Nat] /\ z[x] = 0 /\ (\A y \in S \ {x} : f[y] = z[y]) /\ f[x] \in Nat
    OBVIOUS
<1>2. Total(z) = 0
    BY TotalZero
<1>. HIDE DEF z
<1>3. Total(f) = Total(z) - z[x] + f[x]
    BY <1>1, TotalUpdate
<1>. QED
    BY <1>1, <1>2, <1>3

\* A sum grows with its summands.
LEMMA TotalMonotone ==
    ASSUME NEW S, IsFiniteSet(S), NEW f \in [S -> Nat], NEW g \in [S -> Nat],
           \A y \in S : f[y] <= g[y]
    PROVE  Total(f) <= Total(g)
<1>. DEFINE F == UNION {Units(f, y) : y \in DOMAIN f}
            G == UNION {Units(g, y) : y \in DOMAIN g}
<1>1. \A y \in S : Units(f, y) \subseteq Units(g, y)
  <2>. SUFFICES ASSUME NEW y \in S, NEW i \in 1..f[y]
                PROVE  i \in 1..g[y]
      BY DEF Units
  <2>1. f[y] \in Nat /\ g[y] \in Nat /\ f[y] <= g[y]
      OBVIOUS
  <2>. QED
      BY <2>1
<1>2. F \in SUBSET G
    BY <1>1
<1>3. G = UnitsBut(g, {})
    BY DEF UnitsBut
<1>4. IsFiniteSet(G)
  <2>1. IsFiniteSet(UnitsBut(g, {}))
      BY UnitsButFinite
  <2>. QED
      BY <1>3, <2>1, Zenon
<1>. HIDE DEF F, G
<1>5. Cardinality(F) <= Cardinality(G)
    BY <1>2, <1>4, FS_Subset
<1>. QED
    BY <1>5 DEF Total, F, G

\* The sum of pointwise sums is the sum of the sums.
LEMMA TotalSum ==
    ASSUME NEW S, IsFiniteSet(S), NEW f \in [S -> Nat], NEW g \in [S -> Nat],
           NEW h \in [S -> Nat], \A y \in S : h[y] = f[y] + g[y]
    PROVE  Total(h) = Total(f) + Total(g)
<1>. DEFINE F == UNION {Units(f, y) : y \in DOMAIN f}
            G == UNION {Units(g, y) : y \in DOMAIN g}
            H == UNION {Units(h, y) : y \in DOMAIN h}
            Shifted == {u \in H : u[2] > f[u[1]]}
            shift == [u \in G |-> <<u[1], u[2] + f[u[1]]>>]
<1>1. IsFiniteSet(F) /\ IsFiniteSet(G) /\ IsFiniteSet(H)
  <2>1. F = UnitsBut(f, {}) /\ G = UnitsBut(g, {}) /\ H = UnitsBut(h, {})
      BY DEF UnitsBut
  <2>2. /\ IsFiniteSet(UnitsBut(f, {}))
        /\ IsFiniteSet(UnitsBut(g, {}))
        /\ IsFiniteSet(UnitsBut(h, {}))
      BY UnitsButFinite
  <2>. QED
      BY <2>1, <2>2
<1>2. \A u : u \in F <=> \E y \in S, i \in Nat : u = <<y, i>> /\ 1 <= i /\ i <= f[y]
    BY DEF Units
<1>3. \A u : u \in G <=> \E y \in S, i \in Nat : u = <<y, i>> /\ 1 <= i /\ i <= g[y]
    BY DEF Units
<1>4. \A u : u \in H <=> \E y \in S, i \in Nat : u = <<y, i>> /\ 1 <= i /\ i <= f[y] + g[y]
    BY DEF Units
<1>5. Total(f) = Cardinality(F) /\ Total(g) = Cardinality(G) /\ Total(h) = Cardinality(H)
    BY DEF Total
<1>. HIDE DEF F, G, H
<1>6. H = F \cup Shifted /\ F \cap Shifted = {}
    BY <1>2, <1>4
<1>7. shift \in Bijection(G, Shifted)
  <2>1. \A u \in G : shift[u] \in Shifted
      BY <1>3, <1>4
  <2>2. \A u, v \in G : shift[u] = shift[v] => u = v
      BY <1>3
  <2>3. \A w \in Shifted : \E u \in G : shift[u] = w
    <3>. SUFFICES ASSUME NEW w \in Shifted
                  PROVE  \E u \in G : shift[u] = w
        OBVIOUS
    <3>1. PICK y \in S, i \in Nat : w = <<y, i>> /\ i <= f[y] + g[y] /\ i > f[y]
        BY <1>4
    <3>2. <<y, i - f[y]>> \in G
        BY <1>3, <3>1
    <3>. QED
        BY <3>1, <3>2
  <2>. QED
      BY <2>1, <2>2, <2>3 DEF Bijection, Injection, Surjection, IsInjective
<1>8. IsFiniteSet(Shifted) /\ Cardinality(Shifted) = Cardinality(G)
    BY <1>1, <1>7, FS_Bijection DEF ExistsBijection
<1>. HIDE DEF Shifted
<1>9. Cardinality(F \cup Shifted)
        = Cardinality(F) + Cardinality(Shifted) - Cardinality(F \cap Shifted)
    BY <1>1, <1>8, FS_Union
<1>10. Cardinality(F \cap Shifted) = 0
    BY <1>6, FS_EmptySet
<1>11. Cardinality(F) \in Nat /\ Cardinality(G) \in Nat
    BY <1>1, FS_CardinalityType
<1>. QED
    BY <1>5, <1>6, <1>8, <1>9, <1>10, <1>11

\* A sum does not depend on how the summands are indexed, and indices with
\* nothing at them do not count.
LEMMA TotalReindex ==
    ASSUME NEW S, IsFiniteSet(S), NEW f \in [S -> Nat],
           NEW T, IsFiniteSet(T), NEW g \in [T -> Nat],
           NEW h \in [S -> T], \A x, y \in S : h[x] = h[y] => x = y,
           \A x \in S : g[h[x]] = f[x],
           \A z \in T : (\A x \in S : h[x] # z) => g[z] = 0
    PROVE  Total(f) = Total(g)
<1>. DEFINE F == UNION {Units(f, y) : y \in DOMAIN f}
            G == UNION {Units(g, y) : y \in DOMAIN g}
            move == [u \in F |-> <<h[u[1]], u[2]>>]
<1>1. IsFiniteSet(F)
  <2>1. F = UnitsBut(f, {})
      BY DEF UnitsBut
  <2>2. IsFiniteSet(UnitsBut(f, {}))
      BY UnitsButFinite
  <2>. QED
      BY <2>1, <2>2
<1>2. \A u : u \in F <=> \E y \in S, i \in Nat : u = <<y, i>> /\ 1 <= i /\ i <= f[y]
    BY DEF Units
<1>3. \A u : u \in G <=> \E y \in T, i \in Nat : u = <<y, i>> /\ 1 <= i /\ i <= g[y]
    BY DEF Units
<1>4. Total(f) = Cardinality(F) /\ Total(g) = Cardinality(G)
    BY DEF Total
<1>. HIDE DEF F, G
<1>5. move \in Bijection(F, G)
  <2>1. \A u \in F : move[u] \in G
      BY <1>2, <1>3
  <2>2. \A u, v \in F : move[u] = move[v] => u = v
      BY <1>2
  <2>3. \A w \in G : \E u \in F : move[u] = w
    <3>. SUFFICES ASSUME NEW w \in G
                  PROVE  \E u \in F : move[u] = w
        OBVIOUS
    <3>1. PICK z \in T, i \in Nat : w = <<z, i>> /\ 1 <= i /\ i <= g[z]
        BY <1>3
    <3>2. PICK x \in S : h[x] = z
        BY <3>1
    <3>3. <<x, i>> \in F
        BY <1>2, <3>1, <3>2
    <3>. QED
        BY <3>1, <3>2, <3>3
  <2>. QED
      BY <2>1, <2>2, <2>3 DEF Bijection, Injection, Surjection, IsInjective
<1>. QED
    BY <1>1, <1>4, <1>5, FS_Bijection DEF ExistsBijection

-----------------------------------------------------------------------------
(* Profits *)

Odd == {p \in Nat : p >= Scale}    \* the prices profits are defined for

\* A profit is never negative at a price the code accepts.
LEMMA ProfitType ==
    ASSUME NEW amount \in Nat, NEW odds \in Odd
    PROVE  Profit(amount, odds) \in Nat
<1>1. (odds - Scale) * amount \in Nat
    BY ScaleAssumption DEF Odd
<1>. QED
    BY <1>1, ScaleAssumption DEF Profit

\* A payout is never negative at a price the code accepts.
LEMMA PayoutType ==
    ASSUME NEW amount \in Nat, NEW odds \in Odd
    PROVE  Payout(amount, odds) \in Nat
<1>1. odds * amount \in Nat
    BY DEF Odd
<1>. QED
    BY <1>1, ScaleAssumption DEF Payout

\* A payout is the stake and its profit.
LEMMA PayoutSplit ==
    ASSUME NEW amount \in Nat, NEW odds \in Odd
    PROVE  Payout(amount, odds) = amount + Profit(amount, odds)
<1>. DEFINE x == (odds - Scale) * amount
<1>1. x \in Nat
    BY ScaleAssumption DEF Odd
<1>2. odds * amount = x + Scale * amount
    BY ScaleAssumption DEF Odd
<1>. HIDE DEF x
<1>3. (x + Scale * amount) \div Scale = (x \div Scale) + amount
    BY <1>1, ScaleAssumption
<1>4. x \div Scale \in Nat
    BY <1>1, ScaleAssumption
<1>5. Payout(amount, odds) = (x + Scale * amount) \div Scale
    BY <1>2 DEF Payout
<1>6. Profit(amount, odds) = x \div Scale
    BY DEF Profit, x
<1>. QED
    BY <1>3, <1>4, <1>5, <1>6

\* A stake of nothing wins nothing.
LEMMA ProfitOfNothing ==
    ASSUME NEW odds \in Odd
    PROVE  Profit(0, odds) = 0
BY ScaleAssumption DEF Profit, Odd

\* Rounding down twice never gives more than rounding down once: the profits
\* of the parts of a stake do not exceed the profit of the whole.
LEMMA ProfitSuperadditive ==
    ASSUME NEW a \in Nat, NEW b \in Nat, NEW odds \in Odd
    PROVE  Profit(a, odds) + Profit(b, odds) <= Profit(a + b, odds)
<1>. DEFINE r == odds - Scale
<1>1. r \in Nat
    BY ScaleAssumption DEF Odd
<1>. HIDE DEF r
<1>2. r * (a + b) = r * a + r * b /\ r * a \in Nat /\ r * b \in Nat
    BY <1>1
<1>3. \A x, y \in Nat : (x \div Scale) + (y \div Scale) <= (x + y) \div Scale
    BY ScaleAssumption
<1>. QED
    BY <1>2, <1>3 DEF Profit, r

\* split_reserved_profit moves a part of the reservation, never more than all.
LEMMA CashedReserveBounds ==
    ASSUME NEW reserved \in Nat, NEW cashed \in Nat, NEW remain \in Nat, NEW odds \in Odd
    PROVE  CashedReserve(reserved, cashed, remain, odds) \in 0..reserved
BY ProfitType DEF CashedReserve, LesserOf

\* The reservation of a slice that covers its profit covers, once divided, the
\* profit of both parts.
LEMMA CashedReserveCovers ==
    ASSUME NEW reserved \in Nat, NEW cashed \in Nat, NEW remain \in Nat, NEW odds \in Odd,
           Profit(cashed + remain, odds) <= reserved
    PROVE  /\ Profit(cashed, odds) <= CashedReserve(reserved, cashed, remain, odds)
           /\ Profit(remain, odds)
                <= reserved - CashedReserve(reserved, cashed, remain, odds)
<1>. DEFINE p == Profit(cashed, odds)
            q == Profit(remain, odds)
            w == Profit(cashed + remain, odds)
<1>1. p \in Nat /\ q \in Nat /\ w \in Nat /\ p + q <= w
  <2>1. cashed + remain \in Nat
      OBVIOUS
  <2>2. p \in Nat /\ q \in Nat /\ w \in Nat
      BY <2>1, ProfitType
  <2>. QED
      BY <2>2, ProfitSuperadditive
<1>2. cashed = 0 => p = 0
    BY ProfitOfNothing
<1>3. remain = 0 => q = 0
    BY ProfitOfNothing
<1>. HIDE DEF p, q, w
<1>4. w <= reserved
    BY DEF w
<1>. SUFFICES /\ p <= CashedReserve(reserved, cashed, remain, odds)
              /\ q <= reserved - CashedReserve(reserved, cashed, remain, odds)
    BY DEF p, q
<1>5. CASE remain = 0
    BY <1>1, <1>3, <1>4, <1>5 DEF CashedReserve
<1>6. CASE remain # 0 /\ cashed = 0
    BY <1>1, <1>2, <1>4, <1>6 DEF CashedReserve
<1>7. CASE remain # 0 /\ cashed # 0
  <2>1. CashedReserve(reserved, cashed, remain, odds) = LesserOf(p, reserved)
      BY <1>7 DEF CashedReserve, p
  <2>. QED
      BY <1>1, <1>4, <2>1 DEF LesserOf
<1>. QED
    BY <1>5, <1>6, <1>7

-----------------------------------------------------------------------------
(* Products *)

\* A quotient of naturals is a natural.
LEMMA QuotientType ==
    ASSUME NEW b \in Nat, NEW e \in Nat, NEW z \in Nat \ {0}
    PROVE  (b * e) \div z \in Nat
<1>1. b * e \in Nat
    OBVIOUS
<1>2. \A y \in Nat : y \div z \in Nat
    OBVIOUS
<1>. QED
    BY <1>1, <1>2

\* A fold from x that multiplies by the a[i] and divides by the d[i].
FoldOf(n, x, a, d, f) ==
    /\ f \in [0..n -> Nat] /\ f[0] = x
    /\ \A i \in 1..n : f[i] = (f[i - 1] * a[i]) \div d[i]

\* Such a fold is defined, and stays within the naturals.
LEMMA FoldRuns ==
    ASSUME NEW n \in Nat, NEW x \in Nat, NEW a \in [1..n -> Nat],
           NEW d \in [1..n -> Nat \ {0}]
    PROVE  \E f : FoldOf(n, x, a, d, f)
<1>. DEFINE Run(f, m) == FoldOf(m, x, a, d, f)
            S == {m \in Nat : m <= n => \E f : Run(f, m)}
<1>1. 0 \in S
  <2>1. Run([i \in 0..0 |-> x], 0)
      BY DEF FoldOf
  <2>. QED
      BY <2>1
<1>2. ASSUME NEW m \in Nat, m \in S
      PROVE  m + 1 \in S
  <2>. HIDE DEF Run
  <2>. SUFFICES ASSUME m + 1 <= n
                PROVE  \E f : Run(f, m + 1)
      OBVIOUS
  <2>. USE DEF Run, FoldOf
  <2>1. m <= n
      OBVIOUS
  <2>2. PICK f : Run(f, m)
      BY <1>2, <2>1
  <2>3. f[m] \in Nat /\ a[m + 1] \in Nat /\ d[m + 1] \in Nat \ {0}
      BY <2>2
  <2>. DEFINE y == (f[m] * a[m + 1]) \div d[m + 1]
              g == [i \in 0..(m + 1) |-> IF i = m + 1 THEN y ELSE f[i]]
  <2>4. y \in Nat
    <3>1. \A b \in Nat, e \in Nat, z \in Nat \ {0} : (b * e) \div z \in Nat
        BY QuotientType
    <3>. QED
        BY <2>3, <3>1
  <2>. HIDE DEF y
  <2>5. g \in [0..(m + 1) -> Nat] /\ g[0] = x
      BY <2>2, <2>4
  <2>6. g[m + 1] = y /\ \A i \in 0..m : g[i] = f[i]
      OBVIOUS
  <2>. HIDE DEF g
  <2>7. ASSUME NEW i \in 1..(m + 1)
        PROVE  g[i] = (g[i - 1] * a[i]) \div d[i]
    <3>1. CASE i = m + 1
      <4>1. i - 1 = m /\ m \in 0..m
          BY <3>1
      <4>. QED
          BY <2>6, <3>1, <4>1 DEF y
    <3>2. CASE i # m + 1
      <4>1. i \in 1..m /\ i \in 0..m /\ i - 1 \in 0..m
          BY <3>2
      <4>. QED
          BY <2>2, <2>6, <4>1
    <3>. QED
        BY <3>1, <3>2
  <2>8. Run(g, m + 1)
      BY <2>5, <2>7
  <2>. HIDE DEF Run
  <2>. QED
      BY <2>8
<1>3. n \in S
    BY <1>1, <1>2, SetInduction
<1>. QED
    BY <1>3

\* The products of the first factors w[i] with i in D.
Products(n, D, w) ==
    CHOOSE q \in [0..n -> Nat] :
        /\ q[0] = 1
        /\ \A i \in 1..n : q[i] = IF i \in D THEN q[i - 1] * w[i] ELSE q[i - 1]

\* They are defined for every list of factors.
LEMMA ProductsAre ==
    ASSUME NEW n \in Nat, NEW D \in SUBSET (1..n), NEW w \in [1..n -> Nat]
    PROVE  LET q == Products(n, D, w) IN
           /\ q \in [0..n -> Nat] /\ q[0] = 1
           /\ \A i \in 1..n : /\ q[i - 1] \in Nat /\ w[i] \in Nat
                              /\ i \in D => q[i] = q[i - 1] * w[i]
                              /\ i \notin D => q[i] = q[i - 1]
<1>. DEFINE a == [i \in 1..n |-> IF i \in D THEN w[i] ELSE 1]
            d == [i \in 1..n |-> 1]
            q == Products(n, D, w)
            Good(p) == /\ p[0] = 1
                       /\ \A i \in 1..n : p[i] = IF i \in D THEN p[i - 1] * w[i] ELSE p[i - 1]
<1>1. a \in [1..n -> Nat] /\ d \in [1..n -> Nat \ {0}]
    OBVIOUS
<1>2. \A i \in 1..n : a[i] = (IF i \in D THEN w[i] ELSE 1) /\ d[i] = 1 /\ w[i] \in Nat
    OBVIOUS
<1>. HIDE DEF a, d
<1>3. PICK f \in [0..n -> Nat] : /\ f[0] = 1
                                 /\ \A i \in 1..n : f[i] = (f[i - 1] * a[i]) \div d[i]
  <2>1. \E f : FoldOf(n, 1, a, d, f)
      BY <1>1, FoldRuns
  <2>. QED
      BY <2>1 DEF FoldOf
<1>4. ASSUME NEW i \in 1..n
      PROVE  f[i] = IF i \in D THEN f[i - 1] * w[i] ELSE f[i - 1]
  <2>0. i - 1 \in 0..n
      OBVIOUS
  <2>1. f[i - 1] \in Nat /\ f[i] = (f[i - 1] * a[i]) \div 1
      BY <1>2, <1>3, <2>0
  <2>2. CASE i \in D
    <3>1. f[i] = (f[i - 1] * w[i]) \div 1 /\ f[i - 1] * w[i] \in Nat
        BY <1>2, <2>1, <2>2
    <3>2. \A y \in Nat : y \div 1 = y
        OBVIOUS
    <3>. QED
        BY <2>2, <3>1, <3>2
  <2>3. CASE i \notin D
    <3>1. f[i] = (f[i - 1] * 1) \div 1
        BY <1>2, <2>1, <2>3
    <3>. QED
        BY <2>1, <2>3, <3>1
  <2>. QED
      BY <2>2, <2>3
<1>5. \E p \in [0..n -> Nat] : Good(p)
    BY <1>3, <1>4
<1>6. q \in [0..n -> Nat] /\ Good(q)
  <2>1. q = CHOOSE p \in [0..n -> Nat] : Good(p)
      BY DEF Products
  <2>. HIDE DEF q, Good
  <2>. QED
      BY <1>5, <2>1
<1>. HIDE DEF q
<1>7. ASSUME NEW i \in 1..n
      PROVE  /\ q[i - 1] \in Nat /\ w[i] \in Nat
             /\ i \in D => q[i] = q[i - 1] * w[i]
             /\ i \notin D => q[i] = q[i - 1]
  <2>1. i - 1 \in 0..n
      OBVIOUS
  <2>. QED
      BY <1>2, <1>6, <2>1
<1>. QED
    BY <1>6, <1>7 DEF q

\* Factors of one make one.
LEMMA ProductOfOnes ==
    ASSUME NEW n \in Nat, NEW D \in SUBSET (1..n), NEW w \in [1..n -> Nat], \A i \in 1..n : w[i] = 1
    PROVE  Products(n, D, w)[n] = 1
<1>. DEFINE q == Products(n, D, w)
            S == {m \in Nat : m <= n => q[m] = 1}
<1>1. /\ q \in [0..n -> Nat] /\ q[0] = 1
      /\ \A i \in 1..n : /\ q[i - 1] \in Nat /\ w[i] \in Nat
                         /\ i \in D => q[i] = q[i - 1] * w[i]
                         /\ i \notin D => q[i] = q[i - 1]
    BY ProductsAre
<1>. HIDE DEF q
<1>2. 0 \in S
    BY <1>1
<1>3. ASSUME NEW m \in Nat, m \in S
      PROVE  m + 1 \in S
  <2>. SUFFICES ASSUME m + 1 <= n
                PROVE  q[m + 1] = 1
      OBVIOUS
  <2>1. q[m] = 1 /\ m + 1 \in 1..n /\ (m + 1) - 1 = m
      BY <1>3
  <2>2. w[m + 1] = 1
      BY <2>1
  <2>3. \/ m + 1 \in D /\ q[m + 1] = q[m] * w[m + 1]
        \/ m + 1 \notin D /\ q[m + 1] = q[m]
      BY <1>1, <2>1
  <2>. QED
      BY <2>1, <2>2, <2>3
<1>4. n \in S
    BY <1>2, <1>3, SetInduction
<1>. QED
    BY <1>4 DEF q

\* One factor multiplied by c multiplies the product by c.
LEMMA ProductScaled ==
    ASSUME NEW n \in Nat, NEW D \in SUBSET (1..n),
           NEW v \in [1..n -> Nat], NEW w \in [1..n -> Nat],
           NEW k \in 1..n, k \in D, NEW c \in Nat, w[k] = v[k] * c,
           \A i \in 1..n : i \in D /\ i # k => w[i] = v[i]
    PROVE  Products(n, D, w)[n] = Products(n, D, v)[n] * c
<1>. DEFINE p == Products(n, D, v)
            q == Products(n, D, w)
            S == {m \in Nat : m <= n => q[m] = IF m < k THEN p[m] ELSE p[m] * c}
<1>1. /\ p \in [0..n -> Nat] /\ p[0] = 1
      /\ \A i \in 1..n : /\ p[i - 1] \in Nat /\ v[i] \in Nat
                         /\ i \in D => p[i] = p[i - 1] * v[i]
                         /\ i \notin D => p[i] = p[i - 1]
    BY ProductsAre
<1>2. /\ q \in [0..n -> Nat] /\ q[0] = 1
      /\ \A i \in 1..n : /\ q[i - 1] \in Nat /\ w[i] \in Nat
                         /\ i \in D => q[i] = q[i - 1] * w[i]
                         /\ i \notin D => q[i] = q[i - 1]
    BY ProductsAre
<1>. HIDE DEF p, q
<1>3. 0 \in S
    BY <1>1, <1>2
<1>4. ASSUME NEW m \in Nat, m \in S
      PROVE  m + 1 \in S
  <2>. SUFFICES ASSUME m + 1 <= n
                PROVE  q[m + 1] = IF m + 1 < k THEN p[m + 1] ELSE p[m + 1] * c
      OBVIOUS
  <2>1. /\ q[m] = (IF m < k THEN p[m] ELSE p[m] * c)
        /\ m + 1 \in 1..n /\ (m + 1) - 1 = m
      BY <1>4
  <2>2. /\ p[m] \in Nat /\ v[m + 1] \in Nat /\ w[m + 1] \in Nat
        /\ m + 1 \in D => p[m + 1] = p[m] * v[m + 1] /\ q[m + 1] = q[m] * w[m + 1]
        /\ m + 1 \notin D => p[m + 1] = p[m] /\ q[m + 1] = q[m]
      BY <1>1, <1>2, <2>1
  <2>3. CASE m + 1 < k
    <3>1. m < k /\ m + 1 # k
        BY <2>3
    <3>2. m + 1 \in D => w[m + 1] = v[m + 1]
        BY <2>1, <3>1
    <3>. QED
        BY <2>1, <2>2, <2>3, <3>1, <3>2
  <2>4. CASE m + 1 = k
    <3>1. q[m] = p[m] /\ w[m + 1] = v[m + 1] * c /\ m + 1 \in D
        BY <2>1, <2>4
    <3>2. p[m] * (v[m + 1] * c) = (p[m] * v[m + 1]) * c
        BY <2>2
    <3>. QED
        BY <2>2, <2>4, <3>1, <3>2
  <2>5. CASE m + 1 > k
    <3>1. ~(m < k) /\ m + 1 # k /\ ~(m + 1 < k)
        BY <2>5
    <3>2. m + 1 \in D => w[m + 1] = v[m + 1]
        BY <2>1, <3>1
    <3>3. q[m] = p[m] * c
        BY <2>1, <3>1
    <3>4. (p[m] * c) * v[m + 1] = (p[m] * v[m + 1]) * c
        BY <2>2
    <3>. QED
        BY <2>2, <3>1, <3>2, <3>3, <3>4
  <2>. QED
      BY <2>3, <2>4, <2>5
<1>5. n \in S
    BY <1>3, <1>4, SetInduction
<1>6. q[n] = p[n] * c
    BY <1>5
<1>. QED
    BY <1>6 DEF p, q

\* The indices that share the group of i, and the first of each group.
GroupOf(n, e, i) == {j \in 1..n : e[j] = e[i]}
Firsts(n, e) == {i \in 1..n : \A j \in GroupOf(n, e, i) : i <= j}

\* Every index has one first in its group.
LEMMA FirstOfGroup ==
    ASSUME NEW n \in Nat, NEW e, NEW m \in 1..n
    PROVE  \E k \in Firsts(n, e) :
               /\ k \in 1..n /\ e[k] = e[m]
               /\ \A i \in Firsts(n, e) : e[i] = e[m] => i = k
<1>1. GroupOf(n, e, m) \subseteq Nat /\ m \in GroupOf(n, e, m)
    BY DEF GroupOf
<1>2. PICK k \in GroupOf(n, e, m) : \A j \in GroupOf(n, e, m) : k <= j
    BY <1>1, LeastNumber
<1>3. k \in 1..n /\ e[k] = e[m]
    BY DEF GroupOf
<1>4. k \in Firsts(n, e)
    BY <1>2, <1>3 DEF Firsts, GroupOf
<1>5. ASSUME NEW i \in Firsts(n, e), e[i] = e[m]
      PROVE  i = k
  <2>1. i \in 1..n /\ k \in GroupOf(n, e, i) /\ i \in GroupOf(n, e, m)
      BY <1>3, <1>5 DEF Firsts, GroupOf
  <2>2. i <= k /\ k <= i
      BY <1>2, <2>1 DEF Firsts
  <2>. QED
      BY <1>3, <2>1, <2>2
<1>. QED
    BY <1>3, <1>4, <1>5

\* A product may be taken group by group: by induction on the factors, each of
\* which enters the product of one group.
LEMMA ProductByGroups ==
    ASSUME NEW n \in Nat, NEW e, NEW w \in [1..n -> Nat]
    PROVE  Products(n, Firsts(n, e), [i \in 1..n |-> Products(n, GroupOf(n, e, i), w)[n]])[n]
             = Products(n, 1..n, w)[n]
<1>. DEFINE q == Products(n, 1..n, w)
            by(i) == Products(n, GroupOf(n, e, i), w)
            upTo(m) == [i \in 1..n |-> by(i)[m]]
            all(m) == Products(n, Firsts(n, e), upTo(m))[n]
            S == {m \in Nat : m <= n => all(m) = q[m]}
<1>1. /\ q \in [0..n -> Nat] /\ q[0] = 1
      /\ \A i \in 1..n : q[i - 1] \in Nat /\ w[i] \in Nat /\ q[i] = q[i - 1] * w[i]
  <2>1. 1..n \in SUBSET (1..n)
      OBVIOUS
  <2>. QED
      BY <2>1, ProductsAre
<1>2. ASSUME NEW i \in 1..n
      PROVE  /\ by(i) \in [0..n -> Nat] /\ by(i)[0] = 1
             /\ \A j \in 1..n : /\ by(i)[j - 1] \in Nat
                                /\ j \in GroupOf(n, e, i) => by(i)[j] = by(i)[j - 1] * w[j]
                                /\ j \notin GroupOf(n, e, i) => by(i)[j] = by(i)[j - 1]
  <2>. DEFINE D == GroupOf(n, e, i)
              b == Products(n, D, w)
  <2>0. D \in SUBSET (1..n)
      BY DEF GroupOf
  <2>. HIDE DEF D
  <2>1. /\ b \in [0..n -> Nat] /\ b[0] = 1
        /\ \A j \in 1..n : /\ b[j - 1] \in Nat /\ w[j] \in Nat
                           /\ j \in D => b[j] = b[j - 1] * w[j]
                           /\ j \notin D => b[j] = b[j - 1]
      BY <2>0, ProductsAre
  <2>. QED
      BY <2>1 DEF D
<1>. HIDE DEF q, by
<1>3. ASSUME NEW m \in 0..n
      PROVE  upTo(m) \in [1..n -> Nat]
    BY <1>2
<1>4. 0 \in S
  <2>1. upTo(0) \in [1..n -> Nat] /\ \A i \in 1..n : upTo(0)[i] = 1
      BY <1>2, <1>3
  <2>. HIDE DEF upTo
  <2>2. all(0) = 1
    <3>1. Firsts(n, e) \in SUBSET (1..n)
        BY DEF Firsts
    <3>. QED
        BY <2>1, <3>1, ProductOfOnes
  <2>. QED
      BY <1>1, <2>2
<1>5. ASSUME NEW m \in Nat, m \in S
      PROVE  m + 1 \in S
  <2>. HIDE DEF all
  <2>. SUFFICES ASSUME m + 1 <= n
                PROVE  all(m + 1) = q[m + 1]
      OBVIOUS
  <2>1. /\ all(m) = q[m] /\ m \in 0..n /\ m + 1 \in 0..n /\ m + 1 \in 1..n
        /\ (m + 1) - 1 = m
      BY <1>5
  <2>2. PICK k \in Firsts(n, e) :
            /\ k \in 1..n /\ e[k] = e[m + 1]
            /\ \A i \in Firsts(n, e) : e[i] = e[m + 1] => i = k
      BY <2>1, FirstOfGroup
  <2>3. upTo(m)[k] = by(k)[m] /\ upTo(m + 1)[k] = by(k)[m + 1]
      BY <2>2
  <2>4. upTo(m + 1)[k] = upTo(m)[k] * w[m + 1]
    <3>1. m + 1 \in GroupOf(n, e, k)
        BY <2>1, <2>2 DEF GroupOf
    <3>2. by(k)[m + 1] = by(k)[m] * w[m + 1]
        BY <1>2, <2>1, <2>2, <3>1
    <3>. QED
        BY <2>3, <3>2
  <2>5. ASSUME NEW i \in 1..n, i \in Firsts(n, e), i # k
        PROVE  upTo(m + 1)[i] = upTo(m)[i]
    <3>1. m + 1 \notin GroupOf(n, e, i)
        BY <2>2, <2>5 DEF GroupOf
    <3>2. by(i)[m + 1] = by(i)[m]
        BY <1>2, <2>1, <3>1
    <3>. QED
        BY <3>2
  <2>6. upTo(m) \in [1..n -> Nat] /\ upTo(m + 1) \in [1..n -> Nat]
      BY <1>3, <2>1
  <2>7. w[m + 1] \in Nat
      BY <1>1, <2>1
  <2>. HIDE DEF upTo
  <2>8. all(m + 1) = all(m) * w[m + 1]
    <3>1. Firsts(n, e) \in SUBSET (1..n)
        BY DEF Firsts
    <3>2. \A i \in 1..n : i \in Firsts(n, e) /\ i # k => upTo(m + 1)[i] = upTo(m)[i]
        BY <2>5
    <3>. DEFINE D == Firsts(n, e)
                v == upTo(m)
                x == upTo(m + 1)
                c == w[m + 1]
    <3>3. /\ v \in [1..n -> Nat] /\ x \in [1..n -> Nat] /\ D \in SUBSET (1..n)
          /\ k \in 1..n /\ k \in D /\ c \in Nat /\ x[k] = v[k] * c
          /\ \A i \in 1..n : i \in D /\ i # k => x[i] = v[i]
        BY <2>2, <2>4, <2>6, <2>7, <3>1, <3>2
    <3>. HIDE DEF D, v, x, c
    <3>4. Products(n, D, x)[n] = Products(n, D, v)[n] * c
        BY <3>3, ProductScaled
    <3>. QED
        BY <3>4 DEF all, D, v, x, c
  <2>9. q[m + 1] = q[m] * w[m + 1]
      BY <1>1, <2>1
  <2>. QED
      BY <2>1, <2>8, <2>9
<1>6. n \in S
    BY <1>4, <1>5, SetInduction
<1>. QED
    BY <1>6 DEF all, upTo, by, q

-----------------------------------------------------------------------------
(* Prices rounded down leg by leg *)

\* Multiplication keeps and reflects the order.
LEMMA ProductMonotone ==
    ASSUME NEW x \in Nat, NEW y \in Nat, NEW z \in Nat, x <= y
    PROVE  x * z <= y * z
<1>1. PICK d \in Nat : y = x + d
  <2>1. y - x \in Nat /\ y = x + (y - x)
      OBVIOUS
  <2>. QED
      BY <2>1
<1>2. y * z = x * z + d * z /\ d * z \in Nat /\ x * z \in Nat
    BY <1>1
<1>. QED
    BY <1>2

\* A positive factor cancels.
LEMMA ProductCancels ==
    ASSUME NEW s \in Nat, s > 0, NEW x \in Nat, NEW y \in Nat, s * x <= s * y
    PROVE  x <= y
<1>. SUFFICES ASSUME y + 1 <= x
              PROVE  FALSE
    OBVIOUS
<1>1. (y + 1) * s <= x * s
    BY ProductMonotone
<1>2. (y + 1) * s = s * y + s /\ x * s = s * x /\ s * x \in Nat /\ s * y \in Nat
    OBVIOUS
<1>. QED
    BY <1>1, <1>2

\* One leg more, whose price is rounded down.
LEMMA FloorStep ==
    ASSUME NEW c \in Nat, NEW f \in Nat, NEW k \in Nat, NEW h \in Nat,
           NEW p \in Nat, NEW q \in Nat, c * p <= Scale * q, f * k <= Scale * h
    PROVE  ((c * f) \div Scale) * (p * k) <= Scale * (q * h)
<1>. DEFINE r == (c * f) \div Scale
<1>1. Scale \in Nat /\ Scale > 0
    BY ScaleAssumption
<1>2. c * f \in Nat /\ p * k \in Nat /\ q * h \in Nat
    OBVIOUS
<1>3. \A y \in Nat : y \div Scale \in Nat /\ (y \div Scale) * Scale <= y
    BY <1>1
<1>4. r \in Nat /\ r * Scale <= c * f
    BY <1>2, <1>3
<1>. HIDE DEF r
<1>5. (r * Scale) * (p * k) <= (c * f) * (p * k)
    BY <1>1, <1>2, <1>4, ProductMonotone
<1>6. (c * f) * (p * k) = (c * p) * (f * k)
    OBVIOUS
<1>7. (c * p) * (f * k) <= (Scale * q) * (Scale * h)
  <2>1. c * p \in Nat /\ f * k \in Nat /\ Scale * q \in Nat /\ Scale * h \in Nat
      BY <1>1
  <2>2. (c * p) * (f * k) <= (Scale * q) * (f * k)
      BY <2>1, ProductMonotone
  <2>3. (f * k) * (Scale * q) <= (Scale * h) * (Scale * q)
      BY <2>1, ProductMonotone
  <2>4. /\ (f * k) * (Scale * q) = (Scale * q) * (f * k)
        /\ (Scale * h) * (Scale * q) = (Scale * q) * (Scale * h)
      BY <2>1
  <2>5. /\ (c * p) * (f * k) \in Nat /\ (Scale * q) * (f * k) \in Nat
        /\ (Scale * q) * (Scale * h) \in Nat
      BY <2>1
  <2>. QED
      BY <2>2, <2>3, <2>4, <2>5
<1>8. /\ (r * Scale) * (p * k) = Scale * (r * (p * k))
      /\ (Scale * q) * (Scale * h) = Scale * (Scale * (q * h))
    BY <1>1, <1>4
<1>9. r * (p * k) \in Nat /\ Scale * (q * h) \in Nat
    BY <1>1, <1>2, <1>4
<1>10. Scale * (r * (p * k)) <= Scale * (Scale * (q * h))
  <2>1. /\ (r * Scale) * (p * k) \in Nat /\ (c * f) * (p * k) \in Nat
        /\ (Scale * q) * (Scale * h) \in Nat
      BY <1>1, <1>2, <1>4
  <2>. QED
      BY <1>5, <1>6, <1>7, <1>8, <2>1
<1>11. r * (p * k) <= Scale * (q * h)
    BY <1>1, <1>9, <1>10, ProductCancels
<1>. QED
    BY <1>11 DEF r

\* How a price is folded: f multiplies by o[i] over the i in D, each time
\* rounded down.
RoundedDown(n, D, o, f) ==
    /\ f[0] = Scale
    /\ \A i \in 1..n : f[i] = IF i \in D THEN (f[i - 1] * o[i]) \div Scale ELSE f[i - 1]

\* The equation of the recursive function that is this fold.
IsFloors(n, D, o, f) ==
    f = [i \in 0..n |-> IF i = 0 THEN Scale
                        ELSE IF i \in D THEN (f[i - 1] * o[i]) \div Scale ELSE f[i - 1]]

\* There is such a fold, and it is within the naturals.
LEMMA FloorsRun ==
    ASSUME NEW n \in Nat, NEW D \in SUBSET (1..n), NEW o \in [1..n -> Nat]
    PROVE  /\ \E f : IsFloors(n, D, o, f)
           /\ \A f : RoundedDown(n, D, o, f) => \A i \in 0..n : f[i] \in Nat
<1>. DEFINE a == [i \in 1..n |-> IF i \in D THEN o[i] ELSE 1]
            d == [i \in 1..n |-> IF i \in D THEN Scale ELSE 1]
<1>1. Scale \in Nat \ {0}
    BY ScaleAssumption
<1>2. a \in [1..n -> Nat] /\ d \in [1..n -> Nat \ {0}]
    BY <1>1
<1>3. \A i \in 1..n : /\ a[i] = (IF i \in D THEN o[i] ELSE 1)
                      /\ d[i] = (IF i \in D THEN Scale ELSE 1)
                      /\ o[i] \in Nat
    OBVIOUS
<1>. HIDE DEF a, d
<1>4. PICK f \in [0..n -> Nat] : /\ f[0] = Scale
                                 /\ \A i \in 1..n : f[i] = (f[i - 1] * a[i]) \div d[i]
  <2>1. \E f : FoldOf(n, Scale, a, d, f)
      BY <1>1, <1>2, FoldRuns
  <2>. QED
      BY <2>1 DEF FoldOf
<1>5. ASSUME NEW i \in 1..n
      PROVE  f[i] = IF i \in D THEN (f[i - 1] * o[i]) \div Scale ELSE f[i - 1]
  <2>1. i - 1 \in 0..n /\ f[i - 1] \in Nat
      BY <1>4
  <2>2. f[i] = (f[i - 1] * a[i]) \div d[i]
      BY <1>4
  <2>3. CASE i \in D
      BY <1>3, <2>2, <2>3
  <2>4. CASE i \notin D
    <3>1. f[i] = (f[i - 1] * 1) \div 1
        BY <1>3, <2>2, <2>4
    <3>. QED
        BY <2>1, <2>4, <3>1
  <2>. QED
      BY <2>3, <2>4
<1>6. IsFloors(n, D, o, f)
  <2>1. \A i \in 0..n : i = 0 \/ i \in 1..n
      OBVIOUS
  <2>2. \A i \in 0..n : f[i] = IF i = 0 THEN Scale
                          ELSE IF i \in D THEN (f[i - 1] * o[i]) \div Scale ELSE f[i - 1]
      BY <1>4, <1>5, <2>1
  <2>3. f = [i \in 0..n |-> f[i]]
      BY <1>4
  <2>. QED
      BY <2>2, <2>3 DEF IsFloors
<1>7. ASSUME NEW g, RoundedDown(n, D, o, g), NEW j \in 0..n
      PROVE  g[j] \in Nat
  <2>. DEFINE S == {m \in Nat : m <= n => g[m] \in Nat}
  <2>1. 0 \in S
      BY <1>1, <1>7 DEF RoundedDown
  <2>2. ASSUME NEW m \in Nat, m \in S
        PROVE  m + 1 \in S
    <3>. SUFFICES ASSUME m + 1 <= n
                  PROVE  g[m + 1] \in Nat
        OBVIOUS
    <3>1. g[m] \in Nat /\ m + 1 \in 1..n /\ (m + 1) - 1 = m
        BY <2>2
    <3>2. o[m + 1] \in Nat
        BY <1>3, <3>1
    <3>3. g[m + 1] = IF m + 1 \in D THEN (g[m] * o[m + 1]) \div Scale ELSE g[m]
        BY <1>7, <3>1 DEF RoundedDown
    <3>4. (g[m] * o[m + 1]) \div Scale \in Nat
        BY <1>1, <3>1, <3>2, QuotientType
    <3>. QED
        BY <3>1, <3>3, <3>4
  <2>3. Nat \subseteq S
    <3>. HIDE DEF S
    <3>. QED
        BY <2>1, <2>2, SetInduction
  <2>. QED
      BY <2>3
<1>. QED
    BY <1>6, <1>7

\* Rounding down never makes a price better: it stays below the product h of
\* what each price is below of.
LEMMA FloorsBelow ==
    ASSUME NEW n \in Nat, NEW D \in SUBSET (1..n), NEW o \in [1..n -> Nat],
           NEW k \in [1..n -> Nat], NEW h \in [1..n -> Nat],
           \A i \in D : o[i] * k[i] <= Scale * h[i],
           NEW f, RoundedDown(n, D, o, f)
    PROVE  f[n] * Products(n, D, k)[n] <= Scale * Products(n, D, h)[n]
<1>. DEFINE p == Products(n, D, k)
            q == Products(n, D, h)
            S == {m \in Nat : m <= n => f[m] * p[m] <= Scale * q[m]}
<1>1. /\ p \in [0..n -> Nat] /\ p[0] = 1
      /\ \A i \in 1..n : /\ p[i - 1] \in Nat /\ k[i] \in Nat
                         /\ i \in D => p[i] = p[i - 1] * k[i]
                         /\ i \notin D => p[i] = p[i - 1]
    BY ProductsAre
<1>2. /\ q \in [0..n -> Nat] /\ q[0] = 1
      /\ \A i \in 1..n : /\ q[i - 1] \in Nat /\ h[i] \in Nat
                         /\ i \in D => q[i] = q[i - 1] * h[i]
                         /\ i \notin D => q[i] = q[i - 1]
    BY ProductsAre
<1>3. \A i \in 0..n : f[i] \in Nat
    BY FloorsRun
<1>. HIDE DEF p, q
<1>4. 0 \in S
  <2>1. f[0] = Scale /\ Scale \in Nat
      BY ScaleAssumption DEF RoundedDown
  <2>. QED
      BY <1>1, <1>2, <2>1
<1>5. ASSUME NEW m \in Nat, m \in S
      PROVE  m + 1 \in S
  <2>. SUFFICES ASSUME m + 1 <= n
                PROVE  f[m + 1] * p[m + 1] <= Scale * q[m + 1]
      OBVIOUS
  <2>1. /\ f[m] * p[m] <= Scale * q[m] /\ m + 1 \in 1..n /\ m \in 0..n
        /\ (m + 1) - 1 = m
      BY <1>5
  <2>2. f[m + 1] = IF m + 1 \in D THEN (f[m] * o[m + 1]) \div Scale ELSE f[m]
      BY <2>1 DEF RoundedDown
  <2>3. CASE m + 1 \in D
    <3>1. /\ f[m] \in Nat /\ p[m] \in Nat /\ q[m] \in Nat
          /\ k[m + 1] \in Nat /\ h[m + 1] \in Nat /\ o[m + 1] \in Nat
        BY <1>1, <1>2, <1>3, <2>1
    <3>2. o[m + 1] * k[m + 1] <= Scale * h[m + 1]
        BY <2>3
    <3>3. ((f[m] * o[m + 1]) \div Scale) * (p[m] * k[m + 1]) <= Scale * (q[m] * h[m + 1])
        BY <2>1, <3>1, <3>2, FloorStep
    <3>4. p[m + 1] = p[m] * k[m + 1] /\ q[m + 1] = q[m] * h[m + 1]
        BY <1>1, <1>2, <2>1, <2>3
    <3>. QED
        BY <2>2, <2>3, <3>3, <3>4
  <2>4. CASE m + 1 \notin D
    <3>1. p[m + 1] = p[m] /\ q[m + 1] = q[m] /\ f[m + 1] = f[m]
        BY <1>1, <1>2, <2>1, <2>2, <2>4
    <3>. QED
        BY <2>1, <3>1
  <2>. QED
      BY <2>3, <2>4
<1>6. n \in S
    BY <1>4, <1>5, SetInduction
<1>. QED
    BY <1>6 DEF p, q

\* The product of two prices of at least even money is one.
LEMMA FloorAtLeast ==
    ASSUME NEW c \in Nat, NEW b \in Nat, c >= Scale, b >= Scale
    PROVE  (c * b) \div Scale \in Nat /\ (c * b) \div Scale >= Scale
<1>1. Scale \in Nat /\ Scale > 0
    BY ScaleAssumption
<1>2. Scale * b <= c * b
    BY <1>1, ProductMonotone
<1>3. b * Scale = Scale * b /\ c * b \in Nat
    BY <1>1
<1>4. \A x \in Nat, y \in Nat : y * Scale <= x => x \div Scale \in Nat /\ x \div Scale >= y
    BY <1>1
<1>5. (c * b) \div Scale \in Nat /\ (c * b) \div Scale >= b
    BY <1>2, <1>3, <1>4
<1>. QED
    BY <1>1, <1>5

\* Prices of at least even money keep a price at even money.
LEMMA FloorsAtLeast ==
    ASSUME NEW n \in Nat, NEW D \in SUBSET (1..n), NEW o \in [1..n -> Nat],
           \A i \in D : o[i] >= Scale, NEW f, RoundedDown(n, D, o, f)
    PROVE  f[n] \in Nat /\ f[n] >= Scale
<1>. DEFINE S == {m \in Nat : m <= n => f[m] \in Nat /\ f[m] >= Scale}
<1>1. Scale \in Nat /\ Scale > 0
    BY ScaleAssumption
<1>2. 0 \in S
    BY <1>1 DEF RoundedDown
<1>3. ASSUME NEW m \in Nat, m \in S
      PROVE  m + 1 \in S
  <2>. SUFFICES ASSUME m + 1 <= n
                PROVE  f[m + 1] \in Nat /\ f[m + 1] >= Scale
      OBVIOUS
  <2>1. f[m] \in Nat /\ f[m] >= Scale /\ m + 1 \in 1..n /\ (m + 1) - 1 = m
      BY <1>3
  <2>2. f[m + 1] = IF m + 1 \in D THEN (f[m] * o[m + 1]) \div Scale ELSE f[m]
      BY <2>1 DEF RoundedDown
  <2>3. CASE m + 1 \in D
    <3>1. o[m + 1] \in Nat /\ o[m + 1] >= Scale
        BY <2>1, <2>3
    <3>2. \A c \in Nat, b \in Nat : c >= Scale /\ b >= Scale =>
              (c * b) \div Scale \in Nat /\ (c * b) \div Scale >= Scale
        BY FloorAtLeast
    <3>. QED
        BY <2>1, <2>2, <2>3, <3>1, <3>2
  <2>4. CASE m + 1 \notin D
      BY <2>1, <2>2, <2>4
  <2>. QED
      BY <2>3, <2>4
<1>4. n \in S
    BY <1>2, <1>3, SetInduction
<1>. QED
    BY <1>4
=============================================================================
