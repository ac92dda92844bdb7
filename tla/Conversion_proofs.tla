-------------------------- MODULE Conversion_proofs --------------------------
(***************************************************************************)
(* Proofs about Conversion for every grid, precision and bound: the types, *)
(* that a rate survives storage, how accurate an answer is, and that it    *)
(* never falls when the amount grows.                                      *)
(***************************************************************************)
EXTENDS Conversion, TLAPS, WellFoundedInduction

-----------------------------------------------------------------------------
(* Powers of ten.  The library's induction takes an operator, which the    *)
(* provers cannot instantiate: induction is over sets here, from the fact  *)
(* that every nonempty set of naturals has a least element.                *)

Before == {ss \in Nat \X Nat : ss[1] < ss[2]}

\* A set of naturals that is not empty has a least element.
LEMMA LeastElement ==
  ASSUME NEW S \in SUBSET Nat, S # {}
  PROVE  \E n \in S : \A m \in S : n <= m
<1>1. IsWellFoundedOn(Before, Nat)
  BY NatLessThanWellFounded, Zenon DEF OpToRel, Before
<1>2. PICK n \in S : \A m \in S : <<m, n>> \notin Before
  BY <1>1, WFMin
<1>3. \A m \in S : m < n => <<m, n>> \in Before
  BY DEF Before
<1>4. \A m \in S : ~(m < n)
  BY <1>2, <1>3, Zenon
<1>5. \A m \in S : n <= m
  BY <1>4
<1> QED
  BY <1>5

\* A set that has 0 and with every number its successor is all of Nat.
LEMMA Induction ==
  ASSUME NEW S \in SUBSET Nat, 0 \in S, \A n \in S : n + 1 \in S
  PROVE  \A n \in Nat : n \in S
<1> SUFFICES ASSUME Nat \ S # {} PROVE FALSE
  OBVIOUS
<1>1. PICK n \in Nat \ S : \A m \in Nat \ S : n <= m
  BY LeastElement
<1>2. n # 0 /\ n - 1 \in Nat
  BY <1>1
<1>3. n - 1 \in S
  BY <1>1, <1>2
<1>4. (n - 1) + 1 = n
  BY <1>1
<1> QED
  BY <1>1, <1>3, <1>4

\* The powers of ten up to the n-th.
Table(n) == {g \in [0..n -> Nat] :
               \A i \in 0..n : g[i] = IF i = 0 THEN 1 ELSE 10 * g[i - 1]}

\* There are tables of any length.
LEMMA TableExists == \A n \in Nat : Table(n) # {}
<1> DEFINE S == {n \in Nat : Table(n) # {}}
<1>1. 0 \in S
  <2>1. [i \in 0..0 |-> 1] \in Table(0)
    BY DEF Table
  <2> QED
    BY <2>1
<1>2. ASSUME NEW n \in S PROVE n + 1 \in S
  <2>1. PICK g \in Table(n) : TRUE
    OBVIOUS
  <2> DEFINE h == [i \in 0..(n + 1) |-> IF i = n + 1 THEN 10 * g[n] ELSE g[i]]
  <2>2. g \in [0..n -> Nat] /\ \A i \in 0..n : g[i] = IF i = 0 THEN 1 ELSE 10 * g[i - 1]
    BY <2>1 DEF Table
  <2>3. n \in Nat /\ h \in [0..(n + 1) -> Nat]
    BY <2>2
  <2>4. ASSUME NEW i \in 0..(n + 1) PROVE h[i] = IF i = 0 THEN 1 ELSE 10 * h[i - 1]
    <3>1. CASE i = n + 1
      BY <3>1, <2>3
    <3>2. CASE i # n + 1
      <4>1. i \in 0..n /\ i # 0 => i - 1 \in 0..(n + 1) /\ i - 1 # n + 1
        BY <2>3, <3>2
      <4>2. i \in 0..n
        BY <2>3, <3>2
      <4> QED
        BY <4>1, <4>2, <2>2, <3>2
    <3> QED
      BY <3>1, <3>2
  <2>5. h \in Table(n + 1)
    BY <2>3, <2>4 DEF Table
  <2> QED
    BY <2>5
<1> HIDE DEF S
<1>3. \A n \in Nat : n \in S
  <2>1. S \in SUBSET Nat
    BY DEF S
  <2> QED
    BY <1>1, <1>2, <2>1, Induction
<1> QED
  BY <1>3 DEF S

\* A table and a longer one have the same numbers.
LEMMA TablesAgree ==
  ASSUME NEW n \in Nat, NEW m \in Nat, n <= m, NEW g \in Table(n), NEW h \in Table(m)
  PROVE  \A i \in 0..n : g[i] = h[i]
<1> DEFINE S == {i \in Nat : i <= n => g[i] = h[i]}
<1>1. 0 \in S
  BY DEF Table
<1>2. ASSUME NEW i \in S PROVE i + 1 \in S
  <2> SUFFICES ASSUME i + 1 <= n PROVE g[i + 1] = h[i + 1]
    OBVIOUS
  <2>1. i + 1 \in 0..n /\ i + 1 \in 0..m /\ i + 1 # 0 /\ (i + 1) - 1 = i /\ i <= n
    OBVIOUS
  <2>2. g[i + 1] = 10 * g[i] /\ h[i + 1] = 10 * h[i]
    BY <2>1 DEF Table
  <2> QED
    BY <2>1, <2>2
<1> HIDE DEF S
<1>3. S \in SUBSET Nat
  BY DEF S
<1>4. \A i \in Nat : i \in S
  BY <1>1, <1>2, <1>3, Induction
<1> QED
  BY <1>4 DEF S

\* The equation that defines the powers has a solution, so they satisfy it.
LEMMA PowerEquation ==
  PowerOfTen = [n \in Nat |-> IF n = 0 THEN 1 ELSE 10 * PowerOfTen[n - 1]]
<1> DEFINE table(n) == CHOOSE g \in Table(n) : TRUE
           F == [n \in Nat |-> table(n)[n]]
<1>1. \A n \in Nat : table(n) \in Table(n)
  BY TableExists
<1> HIDE DEF table
<1>2. ASSUME NEW n \in Nat PROVE F[n] = IF n = 0 THEN 1 ELSE 10 * F[n - 1]
  <2>1. CASE n = 0
    BY <1>1, <2>1 DEF Table
  <2>2. CASE n # 0
    <3>1. n - 1 \in Nat /\ n - 1 <= n /\ n \in 0..n /\ n - 1 \in 0..(n - 1)
      BY <2>2
    <3>2. table(n)[n] = 10 * table(n)[n - 1]
      BY <1>1, <2>2, <3>1 DEF Table
    <3>3. table(n - 1) \in Table(n - 1) /\ table(n) \in Table(n)
      BY <1>1, <3>1
    <3>4. table(n - 1)[n - 1] = table(n)[n - 1]
      BY <3>1, <3>3, TablesAgree
    <3> QED
      BY <2>2, <3>1, <3>2, <3>4
  <2> QED
    BY <2>1, <2>2
<1>3. F = [n \in Nat |-> IF n = 0 THEN 1 ELSE 10 * F[n - 1]]
  BY <1>2
<1> HIDE DEF F
<1> QED
  BY <1>3 DEF PowerOfTen

\* The powers of ten, one from the other.
LEMMA PowerStep ==
  /\ PowerOfTen[0] = 1
  /\ \A n \in Nat : PowerOfTen[n + 1] = 10 * PowerOfTen[n]
<1> HIDE DEF PowerOfTen
<1>1. \A n \in Nat : PowerOfTen[n] = IF n = 0 THEN 1 ELSE 10 * PowerOfTen[n - 1]
  BY PowerEquation
<1>2. ASSUME NEW n \in Nat PROVE PowerOfTen[n + 1] = 10 * PowerOfTen[n]
  <2>1. n + 1 \in Nat /\ n + 1 # 0 /\ (n + 1) - 1 = n
    OBVIOUS
  <2> QED
    BY <1>1, <2>1
<1> QED
  BY <1>1, <1>2

\* A power of ten is positive and exceeds its exponent.
LEMMA PowerType == \A n \in Nat : PowerOfTen[n] \in Nat /\ n < PowerOfTen[n]
<1> DEFINE S == {n \in Nat : PowerOfTen[n] \in Nat /\ n < PowerOfTen[n]}
<1>1. 0 \in S
  BY PowerStep
<1>2. ASSUME NEW n \in S PROVE n + 1 \in S
  <2>1. PowerOfTen[n + 1] = 10 * PowerOfTen[n]
    BY PowerStep
  <2> QED
    BY <2>1
<1> HIDE DEF S
<1>3. S \in SUBSET Nat
  BY DEF S
<1>4. \A n \in Nat : n \in S
  BY <1>1, <1>2, <1>3, Induction
<1> QED
  BY <1>4 DEF S

\* A higher power is at least ten times as large.
LEMMA PowerMonotone ==
  ASSUME NEW m \in Nat, NEW n \in Nat, m < n
  PROVE  10 * PowerOfTen[m] <= PowerOfTen[n]
<1> DEFINE S == {k \in Nat : m < k => 10 * PowerOfTen[m] <= PowerOfTen[k]}
<1>1. 0 \in S
  OBVIOUS
<1>2. ASSUME NEW k \in S PROVE k + 1 \in S
  <2>1. PowerOfTen[k + 1] = 10 * PowerOfTen[k] /\ PowerOfTen[k] \in Nat
    BY PowerStep, PowerType
  <2>2. PowerOfTen[m] \in Nat
    BY PowerType
  <2>3. CASE m = k
    BY <2>1, <2>3
  <2>4. CASE m < k
    BY <2>1, <2>2, <2>4
  <2> QED
    BY <2>3, <2>4
<1> HIDE DEF S
<1>3. S \in SUBSET Nat
  BY DEF S
<1>4. n \in S
  BY <1>1, <1>2, <1>3, Induction
<1> QED
  BY <1>4 DEF S

\* The exponent of a sum.
LEMMA PowerSum ==
  \A m, n \in Nat : PowerOfTen[m + n] = PowerOfTen[m] * PowerOfTen[n]
<1> SUFFICES ASSUME NEW m \in Nat PROVE \A n \in Nat : PowerOfTen[m + n] = PowerOfTen[m] * PowerOfTen[n]
  OBVIOUS
<1> DEFINE S == {n \in Nat : PowerOfTen[m + n] = PowerOfTen[m] * PowerOfTen[n]}
<1>1. 0 \in S
  BY PowerStep, PowerType
<1>2. ASSUME NEW n \in S PROVE n + 1 \in S
  <2> DEFINE x == PowerOfTen[m]
             y == PowerOfTen[n]
  <2>1. x \in Nat /\ y \in Nat
    BY PowerType
  <2>2. m + (n + 1) = (m + n) + 1 /\ m + n \in Nat
    OBVIOUS
  <2>3. PowerOfTen[m + (n + 1)] = 10 * (x * y) /\ PowerOfTen[n + 1] = 10 * y
    BY <2>2, PowerStep
  <2> HIDE DEF x, y
  <2>4. 10 * (x * y) = x * (10 * y)
    BY <2>1
  <2> QED
    BY <2>3, <2>4 DEF x, y
<1> HIDE DEF S
<1>3. S \in SUBSET Nat
  BY DEF S
<1>4. \A n \in Nat : n \in S
  BY <1>1, <1>2, <1>3, Induction
<1> QED
  BY <1>4 DEF S

-----------------------------------------------------------------------------
(* Rounding.                                                               *)

\* A decimal that has no digits beyond the precision is left as it is.
LEMMA QuantizeExact == \A n \in Nat : Quantize(Grid * n) = n
BY DecimalsAssumption, SMTT(30) DEF Quantize

\* A greater decimal is never rounded to a smaller one.
LEMMA QuantizeMonotone ==
  \A v, w \in Nat : v <= w => Quantize(v) \in Nat /\ Quantize(v) <= Quantize(w)
BY DecimalsAssumption, SMTT(30) DEF Quantize

\* Rounding to a unit moves a decimal by half a unit at most.
LEMMA QuantizeError ==
  \A v \in Nat :
    /\ Quantize(v) \in Nat
    /\ 2 * (Grid * Quantize(v)) <= 2 * v + Grid
    /\ 2 * v <= 2 * (Grid * Quantize(v)) + Grid
BY DecimalsAssumption, SMTT(30) DEF Quantize

\* Division with remainder.
LEMMA Division ==
  ASSUME NEW v \in Nat, NEW u \in Nat \ {0}
  PROVE  /\ v \div u \in Nat /\ v % u \in Nat /\ v % u < u
         /\ v - u * (v \div u) = v % u
<1>1. u > 0
  OBVIOUS
<1>2. v \div u \in Nat /\ v % u \in Nat /\ v % u < u
  BY <1>1, SMTT(30)
<1>3. v - u * (v \div u) = v % u
  BY <1>1, SMTT(30)
<1> QED
  BY <1>2, <1>3

\* Multiplying keeps an order.
LEMMA ProductMonotone ==
  \A x, y, z \in Nat : x <= y => x * z <= y * z /\ z * x <= z * y
BY SMTT(30)

\* Half to even moves a decimal by half a unit at most.
LEMMA HalfEvenError ==
  ASSUME NEW v \in Nat, NEW u \in Nat \ {0}
  PROVE  /\ HalfEven(v, u) \in Nat
         /\ 2 * (u * HalfEven(v, u)) <= 2 * v + u
         /\ 2 * v <= 2 * (u * HalfEven(v, u)) + u
<1> DEFINE q == v \div u
           m == v % u
<1>1. q \in Nat /\ m \in Nat /\ m < u /\ v - u * q = m
  BY Division
<1>2. \/ HalfEven(v, u) = q /\ 2 * m <= u
      \/ HalfEven(v, u) = q + 1 /\ 2 * m >= u
  BY <1>1 DEF HalfEven
<1> HIDE DEF q, m
<1>3. u * (q + 1) = u * q + u /\ u * q \in Nat
  BY <1>1
<1> QED
  BY <1>1, <1>2, <1>3

\* Half to even keeps an order.
LEMMA HalfEvenMonotone ==
  ASSUME NEW v \in Nat, NEW w \in Nat, v <= w, NEW u \in Nat \ {0}
  PROVE  HalfEven(v, u) <= HalfEven(w, u)
<1> DEFINE q == v \div u
           m == v % u
           p == w \div u
           n == w % u
<1>1. /\ q \in Nat /\ m \in Nat /\ m < u /\ v - u * q = m
      /\ p \in Nat /\ n \in Nat /\ n < u /\ w - u * p = n
  BY Division
<1>2. HalfEven(v, u) \in {q, q + 1} /\ HalfEven(w, u) \in {p, p + 1}
  BY DEF HalfEven
<1>3. q = p /\ m <= n /\ HalfEven(v, u) = q + 1 => HalfEven(w, u) = p + 1
  BY <1>1 DEF HalfEven
<1> HIDE DEF q, m, p, n
<1>4. CASE q = p
  BY <1>1, <1>2, <1>3, <1>4
<1>5. CASE q < p
  BY <1>1, <1>2, <1>5
<1>6. CASE p < q
  <2>1. u * (p + 1) <= u * q /\ u * (p + 1) = u * p + u
    BY <1>1, <1>6, ProductMonotone
  <2> QED
    BY <1>1, <2>1
<1> QED
  BY <1>1, <1>4, <1>5, <1>6

-----------------------------------------------------------------------------
(* The precision of products.                                              *)

\* e is the exponent of the last place of v.
IsExponent(v, e) == /\ v < PowerOfTen[Digits + e]
                    /\ e > 0 => v >= PowerOfTen[Digits + e - 1]

\* Every product has a last place, whatever the precision is.
LEMMA ExponentExists == \A v \in Nat : \E e \in 0..v : IsExponent(v, e)
<1> SUFFICES ASSUME NEW v \in Nat PROVE \E e \in 0..v : IsExponent(v, e)
  OBVIOUS
<1> DEFINE S == {e \in Nat : v < PowerOfTen[Digits + e]}
<1>1. v \in S
  <2>1. Digits + v \in Nat /\ v <= Digits + v
    BY DecimalsAssumption
  <2>2. PowerOfTen[Digits + v] \in Nat /\ Digits + v < PowerOfTen[Digits + v]
    BY <2>1, PowerType
  <2> QED
    BY <2>1, <2>2
<1>2. PICK e \in S : \A f \in S : e <= f
  <2>1. S \in SUBSET Nat /\ S # {}
    BY <1>1
  <2> HIDE DEF S
  <2> QED
    BY <2>1, LeastElement
<1>3. e \in 0..v
  BY <1>1, <1>2
<1>4. ASSUME e > 0 PROVE v >= PowerOfTen[Digits + e - 1]
  <2>1. e - 1 \in Nat /\ e - 1 \notin S /\ Digits + (e - 1) = Digits + e - 1
    BY <1>2, <1>3, <1>4, DecimalsAssumption
  <2>2. Digits + (e - 1) \in Nat
    BY <2>1, DecimalsAssumption
  <2>3. PowerOfTen[Digits + (e - 1)] \in Nat
    BY <2>2, PowerType
  <2> QED
    BY <2>1, <2>3
<1> QED
  BY <1>2, <1>3, <1>4 DEF IsExponent

\* The unit in the last place is the power of ten at that place.
LEMMA UlpExponent ==
  \A v \in Nat : \E e \in Nat : IsExponent(v, e) /\ Ulp(v) = PowerOfTen[e]
<1> SUFFICES ASSUME NEW v \in Nat
             PROVE  \E e \in Nat : IsExponent(v, e) /\ Ulp(v) = PowerOfTen[e]
  OBVIOUS
<1> DEFINE c == CHOOSE e \in 0..v : IsExponent(v, e)
<1>1. c \in 0..v /\ IsExponent(v, c)
  BY ExponentExists
<1>2. Ulp(v) = PowerOfTen[c]
  BY DEF Ulp, IsExponent
<1> HIDE DEF c
<1>3. c \in Nat
  BY <1>1
<1> QED
  BY <1>1, <1>2, <1>3

\* The unit in the last place is a positive number.
LEMMA UlpType == \A v \in Nat : Ulp(v) \in Nat \ {0}
<1> SUFFICES ASSUME NEW v \in Nat PROVE Ulp(v) \in Nat \ {0}
  OBVIOUS
<1>1. PICK e \in Nat : Ulp(v) = PowerOfTen[e]
  BY UlpExponent
<1>2. PowerOfTen[e] \in Nat /\ e < PowerOfTen[e]
  BY PowerType
<1> QED
  BY <1>1, <1>2

\* A product is rounded by half a unit in its last place at most.
LEMMA SignificantError ==
  \A v \in Nat :
    /\ Significant(v) \in Nat
    /\ 2 * Significant(v) <= 2 * v + Ulp(v)
    /\ 2 * v <= 2 * Significant(v) + Ulp(v)
<1> SUFFICES ASSUME NEW v \in Nat
             PROVE  /\ Significant(v) \in Nat
                    /\ 2 * Significant(v) <= 2 * v + Ulp(v)
                    /\ 2 * v <= 2 * Significant(v) + Ulp(v)
  OBVIOUS
<1>1. Ulp(v) \in Nat \ {0}
  BY UlpType
<1>2. /\ HalfEven(v, Ulp(v)) \in Nat
      /\ 2 * (Ulp(v) * HalfEven(v, Ulp(v))) <= 2 * v + Ulp(v)
      /\ 2 * v <= 2 * (Ulp(v) * HalfEven(v, Ulp(v))) + Ulp(v)
  BY <1>1, HalfEvenError
<1>3. Ulp(v) * HalfEven(v, Ulp(v)) \in Nat
  BY <1>1, <1>2
<1> QED
  BY <1>2, <1>3 DEF Significant

\* What is rounded has no more than Digits digits, a carry included, and no fewer when
\* its last place is not that of 1.
LEMMA SignificantDigits ==
  ASSUME NEW v \in Nat, NEW e \in Nat, IsExponent(v, e)
  PROVE  /\ HalfEven(v, PowerOfTen[e]) <= PowerOfTen[Digits]
         /\ e > 0 => PowerOfTen[Digits - 1] <= HalfEven(v, PowerOfTen[e])
<1> DEFINE u == PowerOfTen[e]
           q == v \div u
           m == v % u
<1>1. u \in Nat \ {0}
  BY PowerType
<1>2. q \in Nat /\ m \in Nat /\ m < u /\ v - u * q = m
  BY <1>1, Division
<1>3. HalfEven(v, u) \in {q, q + 1}
  BY DEF HalfEven
<1>4. /\ Digits \in Nat /\ Digits - 1 \in Nat
      /\ PowerOfTen[Digits] \in Nat /\ PowerOfTen[Digits - 1] \in Nat
  BY DecimalsAssumption, PowerType
<1>5. v < PowerOfTen[Digits] * u
  BY <1>4, PowerSum DEF IsExponent
<1>6. ASSUME e > 0 PROVE PowerOfTen[Digits - 1] * u <= v
  <2>1. (Digits - 1) + e = Digits + e - 1
    BY <1>4
  <2>2. PowerOfTen[(Digits - 1) + e] = PowerOfTen[Digits - 1] * u
    BY <1>4, PowerSum
  <2> QED
    BY <1>6, <2>1, <2>2 DEF IsExponent
<1> HIDE DEF u, q, m
<1>7. q < PowerOfTen[Digits]
  <2> SUFFICES ASSUME PowerOfTen[Digits] <= q PROVE FALSE
    BY <1>2, <1>4
  <2>1. PowerOfTen[Digits] * u <= q * u /\ q * u = u * q
    BY <1>1, <1>2, <1>4, ProductMonotone
  <2> QED
    BY <1>1, <1>2, <1>4, <1>5, <2>1
<1>8. ASSUME e > 0 PROVE PowerOfTen[Digits - 1] <= q
  <2> SUFFICES ASSUME q + 1 <= PowerOfTen[Digits - 1] PROVE FALSE
    BY <1>2, <1>4
  <2>1. (q + 1) * u <= PowerOfTen[Digits - 1] * u /\ (q + 1) * u = u * q + u
    BY <1>1, <1>2, <1>4, ProductMonotone
  <2>2. PowerOfTen[Digits - 1] * u <= v
    BY <1>6, <1>8
  <2>3. u * q \in Nat /\ PowerOfTen[Digits - 1] * u \in Nat
    BY <1>1, <1>2, <1>4
  <2> QED
    BY <1>1, <1>2, <2>1, <2>2, <2>3
<1> QED
  BY <1>2, <1>3, <1>4, <1>7, <1>8 DEF u

\* A greater product is never rounded to a smaller number, not even where the last
\* place moves.
LEMMA SignificantMonotone ==
  ASSUME NEW v \in Nat, NEW w \in Nat, v <= w
  PROVE  Significant(v) <= Significant(w)
<1>1. PICK e \in Nat : IsExponent(v, e) /\ Ulp(v) = PowerOfTen[e]
  BY UlpExponent
<1>2. PICK f \in Nat : IsExponent(w, f) /\ Ulp(w) = PowerOfTen[f]
  BY UlpExponent
<1> DEFINE u == PowerOfTen[e]
           t == PowerOfTen[f]
<1>3. u \in Nat \ {0} /\ t \in Nat \ {0}
  BY PowerType
<1>4. HalfEven(v, u) \in Nat /\ HalfEven(w, t) \in Nat /\ HalfEven(w, u) \in Nat
  BY <1>3, HalfEvenError
<1>5. Significant(v) = u * HalfEven(v, u) /\ Significant(w) = t * HalfEven(w, t)
  BY <1>1, <1>2 DEF Significant
<1>6. CASE e = f
  <2>1. HalfEven(v, u) <= HalfEven(w, u)
    BY <1>3, HalfEvenMonotone
  <2>2. u * HalfEven(v, u) <= u * HalfEven(w, u)
    BY <1>3, <1>4, <2>1, ProductMonotone
  <2> QED
    BY <1>5, <1>6, <2>2
<1>7. CASE e < f
  <2> DEFINE top == PowerOfTen[Digits - 1]
             x == HalfEven(v, u)
             y == HalfEven(w, t)
  <2>1. Digits - 1 \in Nat /\ (Digits - 1) + 1 = Digits
    BY DecimalsAssumption
  <2>2. PowerOfTen[Digits] = 10 * top /\ top \in Nat
    BY <2>1, PowerStep, PowerType
  <2>3. x <= 10 * top
    BY <1>1, <2>2, SignificantDigits
  <2>4. top <= y
    BY <1>2, <1>7, SignificantDigits
  <2>5. 10 * u <= t
    BY <1>7, PowerMonotone
  <2> HIDE DEF u, t, top, x, y
  <2>6. u * x <= u * (10 * top)
    BY <1>3, <1>4, <2>2, <2>3, ProductMonotone DEF x
  <2>7. (10 * u) * top <= t * top /\ t * top <= t * y
    BY <1>3, <1>4, <2>2, <2>4, <2>5, ProductMonotone DEF y
  <2>8. u * (10 * top) = (10 * u) * top
    BY <1>3, <2>2
  <2>9. u * x \in Nat /\ t * y \in Nat /\ t * top \in Nat /\ (10 * u) * top \in Nat
    BY <1>3, <1>4, <2>2 DEF x, y
  <2>10. u * x <= t * y
    BY <2>6, <2>7, <2>8, <2>9
  <2> QED
    BY <1>5, <2>10 DEF x, y
<1>8. CASE f < e
  <2>1. Digits + f \in Nat /\ Digits + e - 1 \in Nat
    BY <1>8, DecimalsAssumption
  <2>2. PowerOfTen[Digits + f] \in Nat /\ PowerOfTen[Digits + e - 1] \in Nat
    BY <2>1, PowerType
  <2>3. PowerOfTen[Digits + f] <= PowerOfTen[Digits + e - 1]
    <3>1. CASE Digits + f = Digits + e - 1
      BY <2>2, <3>1
    <3>2. CASE Digits + f < Digits + e - 1
      BY <2>1, <2>2, <3>2, PowerMonotone
    <3> QED
      BY <1>8, <3>1, <3>2, DecimalsAssumption
  <2>4. w < PowerOfTen[Digits + f] /\ PowerOfTen[Digits + e - 1] <= v
    BY <1>1, <1>2, <1>8 DEF IsExponent
  <2> QED
    BY <2>2, <2>3, <2>4
<1> QED
  BY <1>6, <1>7, <1>8

-----------------------------------------------------------------------------
(* The invariant.                                                          *)

\* The quote's rate is the price, rounded; once saved, both stores hold it exactly;
\* the answer is the amount converted at the rate that was found.
IInv ==
  /\ TypeOK
  /\ quote \subseteq {Quantize(price)}
  /\ stage \in {"saved", "found", "answered"} => stored = {Grid * r : r \in quote}
  /\ RateSurvivesStorage
  /\ stage = "answered" => answer = {Convert(CreateAmount(amount), r) : r \in found}

\* What is made of any decimal is a rate, the decimal rounded.
LEMMA CreateRateType == \A v : CreateRate(v) \in SUBSET Rate /\ CreateRate(v) \subseteq {Quantize(v)}
BY DEF CreateRate

\* RateFactory.create gives a rate back that a store has kept as a decimal.
LEMMA CreateRateAgain == \A r \in Rate : CreateRate(Grid * r) = {r}
<1> SUFFICES ASSUME NEW r \in Rate PROVE CreateRate(Grid * r) = {r}
  OBVIOUS
<1>1. Quantize(Grid * r) = r
  BY QuantizeExact DEF Rate
<1> QED
  BY <1>1 DEF CreateRate

\* An amount times a rate is a natural number.
LEMMA ProductType ==
  ASSUME NEW m \in 1..MaxAmount, NEW r \in Rate
  PROVE  /\ CreateAmount(m) \in Nat
         /\ CreateAmount(m) * r \in Nat
         /\ Convert(CreateAmount(m), r) \in Nat
<1>1. m \in Nat /\ r \in Nat
  BY DecimalsAssumption DEF Rate
<1>2. CreateAmount(m) \in Nat
  BY <1>1, QuantizeError DEF CreateAmount
<1>3. CreateAmount(m) * r \in Nat
  BY <1>1, <1>2
<1> QED
  BY <1>2, <1>3, SignificantError DEF Convert

\* A conversion that has not begun satisfies the invariant.
LEMMA InitIInv == Init => IInv
BY DecimalsAssumption DEF Init, IInv, TypeOK, RateSurvivesStorage

\* Every step of a conversion keeps the invariant.
LEMMA StepIInv == IInv /\ [Next]_vars => IInv'
<1> SUFFICES ASSUME IInv, [Next]_vars PROVE IInv'
  OBVIOUS
<1> USE DEF IInv, TypeOK, RateSurvivesStorage
<1>1. CASE Poll
  <2>1. price' \in 0..MaxPrice
    BY <1>1 DEF Poll
  <2>2. quote' \in SUBSET Rate /\ quote' \subseteq {Quantize(price')}
    BY <1>1, CreateRateType DEF Poll, TickerToQuote
  <2> QED
    BY <1>1, <2>1, <2>2 DEF Poll
<1>2. CASE Save
  <2>1. \A r \in quote : Grid * r \in Nat \ {0}
    BY DecimalsAssumption, SMTT(30) DEF Rate
  <2> QED
    BY <1>2, <2>1 DEF Save
<1>3. CASE LookUp
  <2>1. stored = {Grid * r : r \in quote}
    BY <1>3 DEF LookUp
  <2>2. UNION {CreateRate(v) : v \in stored} = quote
    <3>1. \A r \in quote : CreateRate(Grid * r) = {r}
      BY CreateRateAgain
    <3>2. \A x \in UNION {CreateRate(v) : v \in stored} : x \in quote
      BY <2>1, <3>1
    <3>3. \A r \in quote : r \in UNION {CreateRate(v) : v \in stored}
      <4> SUFFICES ASSUME NEW r \in quote PROVE \E v \in stored : r \in CreateRate(v)
        OBVIOUS
      <4>1. Grid * r \in stored
        BY <2>1
      <4> QED
        BY <3>1, <4>1
    <3> QED
      BY <3>2, <3>3
  <2> QED
    BY <1>3, <2>2 DEF LookUp
<1>4. CASE Answer
  <2>1. amount' \in 1..MaxAmount
    BY <1>4 DEF Answer
  <2>2. \A r \in found : Convert(CreateAmount(amount'), r) \in Nat
    BY <2>1, ProductType
  <2>3. answer' = {Convert(CreateAmount(amount'), r) : r \in found}
    BY <1>4 DEF Answer
  <2>4. answer' \in SUBSET Nat
    BY <2>2, <2>3
  <2> QED
    BY <1>4, <2>1, <2>3, <2>4 DEF Answer
<1>5. CASE UNCHANGED vars
  BY <1>5 DEF vars
<1> QED
  BY <1>1, <1>2, <1>3, <1>4, <1>5 DEF Next

LEMMA InvariantHolds == Spec => []IInv
BY InitIInv, StepIInv, PTL DEF Spec

\* Every value of a conversion has its type: in particular no rate is zero or has more
\* digits than the decimal context, whatever price Binance sends.
THEOREM TypeCorrect == Spec => []TypeOK
<1>1. IInv => TypeOK
  BY DEF IInv
<1> QED
  BY InvariantHolds, <1>1, PTL

\* Whichever store answers, the rate is the one made of Binance's ticker, for
\* every precision of prices: normalising it again on the way back is harmless.
THEOREM RateSurvives == Spec => []RateSurvivesStorage
<1>1. IInv => RateSurvivesStorage
  BY DEF IInv
<1> QED
  BY InvariantHolds, <1>1, PTL

-----------------------------------------------------------------------------
(* What the answer is worth.                                               *)

\* The three roundings add up, each weighted with the other factor.
LEMMA RoundingsAddUp ==
  ASSUME NEW p \in Nat, NEW m \in Nat, NEW r \in Nat, NEW s \in Nat, NEW a \in Nat, NEW u \in Nat,
         2 * (Grid * r) <= 2 * p + Grid, 2 * p <= 2 * (Grid * r) + Grid,
         2 * (Grid * s) <= 2 * m + Grid, 2 * m <= 2 * (Grid * s) + Grid,
         2 * a <= 2 * (s * r) + u, 2 * (s * r) <= 2 * a + u
  PROVE  2 * Distance(Grid * Grid * a, p * m) <= Grid * Grid * (u + r) + Grid * m
<1> DEFINE G == Grid
           x == G * r
           y == G * s
<1>1. G \in Nat /\ x \in Nat /\ y \in Nat /\ G * G \in Nat
  BY DecimalsAssumption
<1>2. /\ (2 * x) * m <= (2 * p + G) * m
      /\ (2 * p) * m <= (2 * x + G) * m
  BY <1>1, ProductMonotone
<1>3. /\ (2 * y) * x <= (2 * m + G) * x
      /\ (2 * m) * x <= (2 * y + G) * x
  BY <1>1, ProductMonotone
<1>4. /\ (2 * a) * (G * G) <= (2 * (s * r) + u) * (G * G)
      /\ (2 * (s * r)) * (G * G) <= (2 * a + u) * (G * G)
  BY <1>1, ProductMonotone
<1> DEFINE A == (G * G) * a
           B == y * x
           C == x * m
           D == p * m
           U == (G * G) * u
           R == (G * G) * r
           M == G * m
<1>5. /\ A \in Nat /\ B \in Nat /\ C \in Nat /\ D \in Nat /\ U \in Nat /\ R \in Nat /\ M \in Nat
  BY <1>1
<1>6. 2 * C <= 2 * D + M /\ 2 * D <= 2 * C + M
  <2>1. /\ (2 * x) * m = 2 * C /\ (2 * p + G) * m = 2 * D + M
        /\ (2 * p) * m = 2 * D /\ (2 * x + G) * m = 2 * C + M
    BY <1>1
  <2> QED
    BY <1>2, <2>1
<1>7. 2 * B <= 2 * C + R /\ 2 * C <= 2 * B + R
  <2>1. G * x = R
    BY <1>1
  <2>2. /\ (2 * y) * x = 2 * B /\ (2 * m + G) * x = 2 * C + G * x
        /\ (2 * m) * x = 2 * C /\ (2 * y + G) * x = 2 * B + G * x
    BY <1>1
  <2> QED
    BY <1>3, <2>1, <2>2
<1>8. 2 * A <= 2 * B + U /\ 2 * B <= 2 * A + U
  <2>1. (s * r) * (G * G) = B
    BY <1>1
  <2>2. /\ (2 * a) * (G * G) = 2 * A /\ (2 * (s * r) + u) * (G * G) = 2 * ((s * r) * (G * G)) + U
        /\ (2 * (s * r)) * (G * G) = 2 * ((s * r) * (G * G)) /\ (2 * a + u) * (G * G) = 2 * A + U
    BY <1>1
  <2> QED
    BY <1>4, <2>1, <2>2
<1>9. Grid * Grid * (u + r) + Grid * m = U + R + M
  BY <1>1
<1> HIDE DEF A, B, C, D, U, R, M
<1>10. 2 * A <= 2 * D + (U + R + M) /\ 2 * D <= 2 * A + (U + R + M)
  BY <1>5, <1>6, <1>7, <1>8
<1>11. 2 * Distance(A, D) <= U + R + M
  BY <1>5, <1>10 DEF Distance
<1> QED
  BY <1>9, <1>11 DEF A, D

\* The answer is as accurate as its three roundings allow, for every price, amount,
\* grid and precision.
THEOREM Accurate == Spec => []ConversionIsAccurate
<1>1. IInv => ConversionIsAccurate
  <2> SUFFICES ASSUME IInv, stage = "answered", NEW r \in quote, NEW a \in answer
               PROVE  2 * Distance(Grid * Grid * a, price * amount)
                        <= Grid * Grid * (Ulp(CreateAmount(amount) * r) + r) + Grid * amount
    BY DEF ConversionIsAccurate
  <2> DEFINE s == CreateAmount(amount)
  <2>1. price \in Nat /\ amount \in 1..MaxAmount /\ amount \in Nat /\ r \in Rate /\ r \in Nat
    BY DecimalsAssumption DEF IInv, TypeOK, Rate
  <2>2. r = Quantize(price) /\ quote = {r} /\ found = quote
    BY DEF IInv, RateSurvivesStorage
  <2>3. a = Significant(s * r)
    BY <2>2 DEF IInv, Convert
  <2>4. s = Quantize(amount) /\ s \in Nat /\ s * r \in Nat
    BY <2>1, ProductType DEF CreateAmount
  <2>5. a \in Nat /\ 2 * a <= 2 * (s * r) + Ulp(s * r) /\ 2 * (s * r) <= 2 * a + Ulp(s * r)
    BY <2>3, <2>4, SignificantError
  <2>6. Ulp(s * r) \in Nat
    BY <2>4, UlpType
  <2>7. /\ 2 * (Grid * r) <= 2 * price + Grid /\ 2 * price <= 2 * (Grid * r) + Grid
        /\ 2 * (Grid * s) <= 2 * amount + Grid /\ 2 * amount <= 2 * (Grid * s) + Grid
    BY <2>1, <2>2, <2>4, QuantizeError
  <2> HIDE DEF s
  <2>8. 2 * Distance(Grid * Grid * a, price * amount)
          <= Grid * Grid * (Ulp(s * r) + r) + Grid * amount
    BY <2>1, <2>4, <2>5, <2>6, <2>7, RoundingsAddUp
  <2> QED
    BY <2>8 DEF s
<1> QED
  BY InvariantHolds, <1>1, PTL

\* A smaller amount never converts to more, for every rate, grid and precision.
THEOREM Monotone == Spec => []ConversionIsMonotone
<1>1. IInv => ConversionIsMonotone
  <2> SUFFICES ASSUME IInv, stage = "answered", NEW r \in quote, NEW a \in answer,
                      NEW less \in 1..amount
               PROVE  Convert(CreateAmount(less), r) <= a
    BY DEF ConversionIsMonotone
  <2>1. /\ amount \in 1..MaxAmount /\ amount \in Nat /\ r \in Rate /\ r \in Nat
        /\ less \in 1..MaxAmount /\ less \in Nat /\ less <= amount
    BY DecimalsAssumption DEF IInv, TypeOK, Rate
  <2>2. a = Convert(CreateAmount(amount), r)
    BY DEF IInv, RateSurvivesStorage
  <2>3. CreateAmount(less) <= CreateAmount(amount)
    BY <2>1, QuantizeMonotone DEF CreateAmount
  <2>4. /\ CreateAmount(less) \in Nat /\ CreateAmount(amount) \in Nat
        /\ CreateAmount(less) * r \in Nat /\ CreateAmount(amount) * r \in Nat
    BY <2>1, ProductType
  <2>5. CreateAmount(less) * r <= CreateAmount(amount) * r
    BY <2>1, <2>3, <2>4, ProductMonotone
  <2> QED
    BY <2>2, <2>4, <2>5, SignificantMonotone DEF Convert
<1> QED
  BY InvariantHolds, <1>1, PTL
=============================================================================
