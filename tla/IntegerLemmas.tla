--------------------------- MODULE IntegerLemmas ----------------------------
(***************************************************************************)
(* Quotients and remainders, for the proofs about modules that count in    *)
(* bytes, ticks and wrapping clocks.                                       *)
(***************************************************************************)
EXTENDS Integers, TLAPS

LEMMA QuotientBound ==
    ASSUME NEW a \in Nat, NEW b \in Nat \ {0}, NEW m \in Nat, a < b * m + b
    PROVE  a \div b \in 0 .. m
<1> DEFINE q == a \div b
<1>1. q \in Int /\ a >= b * q /\ a < b * q + b
  OBVIOUS
<1>2. q >= 0
  BY <1>1
<1>3. q <= m
  <2>1. SUFFICES ASSUME q >= m + 1 PROVE FALSE
    BY <1>1
  <2> HIDE DEF q
  <2>2. b * q >= b * (m + 1)
    BY <1>1, <2>1
  <2>3. b * (m + 1) = b * m + b
    OBVIOUS
  <2> QED BY <1>1, <2>2, <2>3
<1> QED BY <1>1, <1>2, <1>3

LEMMA ModUnique ==
    ASSUME NEW t \in Nat \ {0}, NEW q \in Int, NEW r \in 0 .. t - 1
    PROVE  (t * q + r) % t = r
<1> DEFINE x == t * q + r
           p == x \div t
           u == x % t
<1>1. x \in Int
  OBVIOUS
<1>2. p \in Int /\ u \in Int /\ x = t * p + u /\ u >= 0 /\ u < t
  BY <1>1
<1>3. t * q + r = t * p + u
  BY <1>2
<1> HIDE DEF x, p, u
<1>4. p = q
  <2>1. ASSUME p >= q + 1 PROVE FALSE
    <3>1. t * p >= t * (q + 1)
      BY <1>2, <2>1
    <3>2. t * (q + 1) = t * q + t
      OBVIOUS
    <3> QED BY <1>2, <1>3, <3>1, <3>2
  <2>2. ASSUME q >= p + 1 PROVE FALSE
    <3>1. t * q >= t * (p + 1)
      BY <1>2, <2>2
    <3>2. t * (p + 1) = t * p + t
      BY <1>2
    <3> QED BY <1>2, <1>3, <3>1, <3>2
  <2> QED BY <1>2, <2>1, <2>2
<1>5. u = r
  BY <1>2, <1>3, <1>4
<1> QED BY <1>5 DEF u, x

LEMMA Cancel == ASSUME NEW t \in Nat \ {0}, NEW x \in Int, NEW y \in Int, t * x = t * y PROVE x = y
<1>1. ASSUME NEW c \in Int, NEW d \in Int, t * c = t * d PROVE ~(c >= d + 1)
  <2>1. t * (d + 1) = t * d + t
    OBVIOUS
  <2>2. c >= d + 1 => t * c >= t * (d + 1)
    OBVIOUS
  <2> QED BY <1>1, <2>1, <2>2
<1> QED BY <1>1

(* A number of two digits, base t below and base 2h above, is read back    *)
(* from the digits of its two's complement.                                *)
LEMMA TwosComplement ==
    ASSUME NEW t \in Nat \ {0}, NEW h \in Nat \ {0}, NEW x \in Int, -(t * h) <= x, x < t * h
    PROVE  LET q == (x \div t) % (2 * h)
               u == q * t + (x % t)
           IN q \in 0 .. 2 * h - 1 /\ x % t \in 0 .. t - 1
              /\ (IF u >= t * h THEN u - 2 * (t * h) ELSE u) = x
<1> DEFINE p == x \div t
           r == x % t
           q == p % (2 * h)
           u == q * t + r
           th == t * h
<1>1. p \in Int /\ r \in 0 .. t - 1 /\ x = t * p + r
  OBVIOUS
<1>2. q \in 0 .. 2 * h - 1
  BY <1>1
<1>3. -h <= p /\ p < h
  <2> HIDE DEF p, r
  <2>1. ASSUME p >= h PROVE FALSE
    <3>1. t * p >= t * h
      BY <1>1, <2>1
    <3> QED BY <1>1, <3>1
  <2>2. ASSUME p <= -h - 1 PROVE FALSE
    <3>1. t * p <= t * (-h - 1)
      BY <1>1, <2>2
    <3>2. t * (-h - 1) = -(t * h) - t
      OBVIOUS
    <3> QED BY <1>1, <3>1, <3>2
  <2> QED BY <1>1, <2>1, <2>2
<1>4. CASE p >= 0
  <2>1. (2 * h * 0 + p) % (2 * h) = p
    <3> HIDE DEF p
    <3>1. p \in 0 .. 2 * h - 1 /\ 2 * h \in Nat \ {0}
      BY <1>1, <1>3, <1>4
    <3> QED BY <3>1, ModUnique
  <2>2. q = p
    <3>1. 2 * h * 0 + p = p
      BY <1>1
    <3> QED BY <2>1, <3>1
  <2>3. u = x
    <3> HIDE DEF p, r, q
    <3> QED BY <1>1, <2>2
  <2> QED BY <1>1, <1>2, <2>3
<1>5. CASE p < 0
  <2>1. (2 * h * (-1) + (p + 2 * h)) % (2 * h) = p + 2 * h
    <3> HIDE DEF p
    <3>1. p + 2 * h \in 0 .. 2 * h - 1 /\ 2 * h \in Nat \ {0}
      BY <1>1, <1>3, <1>5
    <3> QED BY <3>1, ModUnique
  <2>2. q = p + 2 * h
    <3>1. 2 * h * (-1) + (p + 2 * h) = p
      BY <1>1
    <3> QED BY <2>1, <3>1
  <2>3. u = x + 2 * th
    <3> HIDE DEF p, r, q
    <3>1. (p + 2 * h) * t = t * p + 2 * (t * h)
      BY <1>1
    <3> QED BY <1>1, <2>2, <3>1
  <2>4. u >= th /\ u - 2 * th = x
    <3> HIDE DEF u
    <3> QED BY <2>3
  <2> QED BY <1>1, <1>2, <2>4
<1> QED BY <1>1, <1>4, <1>5

(* Two digits in a byte come apart again.                                  *)
LEMMA Digits ==
    ASSUME NEW t \in Nat \ {0}, NEW a \in Nat, NEW b \in 0 .. t - 1
    PROVE  (a * t + b) \div t = a /\ (a * t + b) % t = b
<1> DEFINE x == a * t + b
<1>1. (t * a + b) % t = b
  BY ModUnique
<1>2. t * a + b = x
  OBVIOUS
<1>3. x % t = b
  BY <1>1, <1>2
<1>4. x \in Int /\ x \div t \in Int /\ x = t * (x \div t) + (x % t)
  OBVIOUS
<1>5. t * (x \div t) = t * a
  BY <1>2, <1>3, <1>4
<1>6. x \div t = a
  <2> DEFINE p == x \div t
  <2>1. p \in Int /\ t * p = t * a
    BY <1>4, <1>5
  <2> HIDE DEF p
  <2>2. p = a
    BY <2>1, Cancel
  <2> QED BY <2>2 DEF p
<1> QED BY <1>3, <1>6
=============================================================================
