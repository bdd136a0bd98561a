------------------------------ MODULE Division ------------------------------
(***************************************************************************)
(* Facts about division with remainder that the proofs share: the keys and *)
(* bins of the aggregates pack numbers into one, and times are cut into    *)
(* milliseconds, seconds and minutes.                                      *)
(***************************************************************************)
EXTENDS Integers, TLAPS

\* Division is unique: a quotient and a remainder below the divisor are the only ones.
LEMMA DivisionUnique ==
    ASSUME NEW w \in Nat \ {0}, NEW c \in Int, NEW s \in Int, 0 <= s, s < w,
           NEW d \in Int, NEW m \in Int, 0 <= m, m < w, c * w + s = d * w + m
    PROVE  c = d /\ s = m
<1>1. ASSUME c > d PROVE FALSE
  <2>1. (c - d) * w >= w
    BY <1>1
  <2> QED
    BY <2>1
<1>2. ASSUME d > c PROVE FALSE
  <2>1. (d - c) * w >= w
    BY <1>2
  <2> QED
    BY <2>1
<1> QED
  BY <1>1, <1>2

\* What division with remainder returns.
LEMMA Division ==
    ASSUME NEW v \in Int, NEW w \in Nat \ {0}
    PROVE  /\ v \div w \in Int /\ v % w \in Int
           /\ v = (v \div w) * w + (v % w)
           /\ 0 <= v % w /\ v % w < w
OBVIOUS

\* A number that is given as a multiple and a rest is divided into them.
LEMMA DivideSum ==
    ASSUME NEW w \in Nat \ {0}, NEW c \in Int, NEW s \in Int, 0 <= s, s < w
    PROVE  (c * w + s) \div w = c /\ (c * w + s) % w = s
<1> DEFINE v == c * w + s
<1> DEFINE d == v \div w
<1> DEFINE m == v % w
<1>1. v \in Int
  OBVIOUS
<1>2. d \in Int /\ m \in Int /\ v = d * w + m /\ 0 <= m /\ m < w
  <2> HIDE DEF v
  <2> QED
    BY <1>1, Division
<1>3. c * w + s = d * w + m
  BY <1>2
<1>4. c = d /\ s = m
  <2> HIDE DEF d, m
  <2> QED
    BY <1>2, <1>3, DivisionUnique
<1> QED
  BY <1>4

\* Dividing by a and then by b is dividing by their product.
LEMMA NestedDivision ==
    ASSUME NEW v \in Int, NEW a \in Nat \ {0}, NEW b \in Nat \ {0}
    PROVE  (v \div a) \div b = v \div (b * a)
<1> DEFINE q == v \div a
           r == v % a
<1>1. q \in Int /\ r \in Int /\ v = q * a + r /\ 0 <= r /\ r < a
  BY Division
<1> HIDE DEF q, r
<1> DEFINE k == q \div b
           l == q % b
<1>2. k \in Int /\ l \in Int /\ q = k * b + l /\ 0 <= l /\ l < b
  BY <1>1, Division
<1> HIDE DEF k, l
<1>3. b * a \in Nat \ {0}
  OBVIOUS
<1>4. l * a + r \in Int /\ 0 <= l * a + r /\ l * a + r < b * a
  <2>1. l * a \in Int /\ 0 <= l * a
    BY <1>2
  <2>2. (b - 1 - l) * a >= 0
    BY <1>2
  <2>3. (b - 1 - l) * a = b * a - a - l * a
    BY <1>2
  <2> QED
    BY <1>1, <1>3, <2>1, <2>2, <2>3
<1>5. v = k * (b * a) + (l * a + r)
  <2>1. v = (k * b + l) * a + r
    BY <1>1, <1>2
  <2>2. (k * b + l) * a = (k * b) * a + l * a
    BY <1>1, <1>2
  <2>3. (k * b) * a = k * (b * a)
    BY <1>1, <1>2
  <2> QED
    BY <1>1, <1>2, <1>3, <2>1, <2>2, <2>3
<1> DEFINE w == b * a
           s == l * a + r
<1>6. w \in Nat \ {0} /\ s \in Int /\ 0 <= s /\ s < w /\ v = k * w + s
  BY <1>3, <1>4, <1>5
<1>7. v \div w = k
  <2> HIDE DEF w, s
  <2> QED
    BY <1>2, <1>6, DivideSum
<1> QED
  BY <1>7 DEF q, k
=============================================================================
