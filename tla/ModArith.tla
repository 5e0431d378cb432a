----------------------------- MODULE ModArith ------------------------------
(***************************************************************************)
(* Facts about % that the proofs about ring buffers rest on, and the least *)
(* element of a set of naturals.                                           *)
(***************************************************************************)
EXTENDS Integers, NaturalsInduction, WellFoundedInduction, TLAPS

\* x % n is a residue of x, and x is that far above a multiple of n.
LEMMA ModDef ==
  ASSUME NEW x \in Int, NEW n \in Nat \ {0}
  PROVE  /\ x % n \in 0 .. n - 1
         /\ x \div n \in Int
         /\ x = n * (x \div n) + (x % n)
  OBVIOUS

\* There is only one residue.
LEMMA ModUnique ==
  ASSUME NEW n \in Nat \ {0}, NEW p \in Int, NEW q \in Int,
         NEW r \in 0 .. n - 1, NEW s \in 0 .. n - 1,
         n * p + r = n * q + s
  PROVE  p = q /\ r = s
<1>1. CASE p > q
  <2>1. PICK d \in Nat : p = q + d /\ d >= 1
    <3>1. p - q \in Nat /\ p = q + (p - q) /\ p - q >= 1
      BY <1>1
    <3> QED BY <3>1
  <2>2. n * p = n * q + n * d
    BY <2>1
  <2>3. n * d >= n
    BY <2>1
  <2> QED BY <2>2, <2>3
<1>2. CASE q > p
  <2>1. PICK d \in Nat : q = p + d /\ d >= 1
    <3>1. q - p \in Nat /\ q = p + (q - p) /\ q - p >= 1
      BY <1>2
    <3> QED BY <3>1
  <2>2. n * q = n * p + n * d
    BY <2>1
  <2>3. n * d >= n
    BY <2>1
  <2> QED BY <2>2, <2>3
<1>3. CASE p = q
  BY <1>3
<1> QED BY <1>1, <1>2, <1>3

LEMMA ModIs ==
  ASSUME NEW n \in Nat \ {0}, NEW q \in Int, NEW r \in 0 .. n - 1,
         NEW x \in Int, x = n * q + r
  PROVE  x % n = r
<1>1. x % n \in 0 .. n - 1 /\ x \div n \in Int /\ x = n * (x \div n) + (x % n)
  BY ModDef
<1> DEFINE d == x \div n
           m == x % n
<1> HIDE DEF d, m
<1>2. d \in Int /\ m \in 0 .. n - 1 /\ n * d + m = n * q + r
  BY <1>1 DEF d, m
<1>3. m = r
  BY <1>2, ModUnique
<1> QED BY <1>3 DEF m

\* Below n, and once around.
LEMMA ModSmall ==
  ASSUME NEW n \in Nat \ {0}, NEW x \in 0 .. n - 1
  PROVE  x % n = x
<1>1. x = n * 0 + x
  OBVIOUS
<1> QED BY <1>1, ModIs

LEMMA ModOnce ==
  ASSUME NEW n \in Nat \ {0}, NEW x \in n .. 2 * n - 1
  PROVE  x % n = x - n
<1>1. x = n * 1 + (x - n) /\ x - n \in 0 .. n - 1
  OBVIOUS
<1> QED BY <1>1, ModIs

\* A cursor may be reduced at every step.
LEMMA ModAdd ==
  ASSUME NEW n \in Nat \ {0}, NEW x \in Int, NEW y \in Int
  PROVE  ((x % n) + y) % n = (x + y) % n
<1> DEFINE a == x % n
           p == x \div n
           b == (a + y) % n
           q == (a + y) \div n
<1>1. a \in 0 .. n - 1 /\ p \in Int /\ x = n * p + a
  BY ModDef
<1> HIDE DEF a, p
<1>2. a + y \in Int
  BY <1>1
<1>3. b \in 0 .. n - 1 /\ q \in Int /\ a + y = n * q + b
  BY <1>2, ModDef
<1> HIDE DEF b, q
<1> DEFINE z == x + y
           c == p + q
<1>4. z = n * c + b /\ z \in Int /\ c \in Int
  BY <1>1, <1>3
<1> HIDE DEF z, c
<1>5. z % n = b
  BY <1>3, <1>4, ModIs
<1> QED BY <1>5 DEF a, b, z

\* Numbers less than n apart have different residues.
LEMMA ModApart ==
  ASSUME NEW n \in Nat \ {0}, NEW x \in Int, NEW y \in Int,
         x < y, y < x + n
  PROVE  x % n # y % n
<1> DEFINE a == x % n
           p == x \div n
           b == y % n
           q == y \div n
<1>1. a \in 0 .. n - 1 /\ p \in Int /\ x = n * p + a
  BY ModDef
<1>2. b \in 0 .. n - 1 /\ q \in Int /\ y = n * q + b
  BY ModDef
<1> HIDE DEF a, p, b, q
<1>3. ASSUME a = b PROVE FALSE
  <2>1. y - x \in 1 .. n - 1
    OBVIOUS
  <2>2. y - x = n * (q - p) /\ q - p \in Int
    BY <1>1, <1>2, <1>3
  <2>3. n * (q - p) + 0 = n * 0 + (y - x)
    BY <2>1, <2>2
  <2>4. 0 = y - x
    BY <2>1, <2>2, <2>3, ModUnique
  <2> QED BY <2>1, <2>4
<1> QED BY <1>3 DEF a, b

(***************************************************************************)
(* A ring of n slots whose next free one is h = a % n: the slot of o, k    *)
(* places ahead of a, or n - k behind it, is found k slots after h.        *)
(***************************************************************************)
LEMMA RingAhead ==
  ASSUME NEW n \in Nat \ {0}, NEW a \in Nat, NEW o \in Nat, NEW k \in 0 .. n - 1,
         o = a + k \/ o = a + k - n
  PROVE  (IF (o % n) >= (a % n) THEN (o % n) - (a % n) ELSE (o % n) - (a % n) + n) = k
<1> DEFINE h == a % n
           i == o % n
           q == a \div n
<1>1. h \in 0 .. n - 1 /\ q \in Int /\ a = n * q + h
  BY ModDef
<1>2. i \in 0 .. n - 1
  BY ModDef
<1> HIDE DEF h, q
<1>3. ASSUME h + k < n PROVE i = h + k
  <2>1. PICK p \in Int : o = n * p + (h + k)
    <3>1. CASE o = a + k
      <4>1. o = n * q + (h + k)
        BY <1>1, <3>1
      <4> QED BY <1>1, <4>1
    <3>2. CASE o = a + k - n
      <4>1. o = n * (q - 1) + (h + k) /\ q - 1 \in Int
        BY <1>1, <3>2
      <4> QED BY <4>1
    <3> QED BY <3>1, <3>2
  <2> DEFINE r == h + k
  <2>2. r \in 0 .. n - 1 /\ o = n * p + r /\ o \in Int
    BY <1>1, <1>3, <2>1
  <2> HIDE DEF r
  <2>3. o % n = r
    BY <2>2, ModIs
  <2> QED BY <2>3 DEF r
<1>4. ASSUME h + k >= n PROVE i = h + k - n
  <2>1. PICK p \in Int : o = n * p + (h + k - n)
    <3>1. CASE o = a + k
      <4>1. o = n * (q + 1) + (h + k - n) /\ q + 1 \in Int
        BY <1>1, <3>1
      <4> QED BY <4>1
    <3>2. CASE o = a + k - n
      <4>1. o = n * q + (h + k - n)
        BY <1>1, <3>2
      <4> QED BY <1>1, <4>1
    <3> QED BY <3>1, <3>2
  <2> DEFINE r == h + k - n
  <2>2. r \in 0 .. n - 1 /\ o = n * p + r /\ o \in Int
    BY <1>1, <1>4, <2>1
  <2> HIDE DEF r
  <2>3. o % n = r
    BY <2>2, ModIs
  <2> QED BY <2>3 DEF r
<1> HIDE DEF i
<1>5. (IF i >= h THEN i - h ELSE i - h + n) = k
  BY <1>1, <1>2, <1>3, <1>4
<1> QED BY <1>5 DEF h, i

\* From slot h = a % n on, the next ones follow up to the end of the buffer.
LEMMA RingRun ==
  ASSUME NEW n \in Nat \ {0}, NEW a \in Nat, NEW k \in Nat, (a % n) + k < n
  PROVE  (a + k) % n = (a % n) + k
<1> DEFINE h == a % n
           q == a \div n
           r == h + k
           o == a + k
<1>1. h \in 0 .. n - 1 /\ q \in Int /\ a = n * q + h
  BY ModDef
<1>2. r \in 0 .. n - 1 /\ o \in Int /\ o = n * q + r
  BY <1>1
<1> HIDE DEF q, r, o
<1>3. q \in Int
  BY <1>1
<1>4. o % n = r
  BY <1>2, <1>3, ModIs
<1> QED BY <1>4 DEF r, o

\* A set of natural numbers that is not empty has a least one.
LEMMA LeastNatural ==
  ASSUME NEW S, S \subseteq Nat, S # {}
  PROVE  \E a \in S : \A b \in S : a <= b
<1> DEFINE R == OpToRel(<, Nat)
<1>1. IsWellFoundedOn(R, Nat)
  BY NatLessThanWellFounded
<1>2. \A a \in Nat, b \in Nat : a < b => <<a, b>> \in R
  BY DEF OpToRel
<1> HIDE DEF R
<1>3. PICK a \in S : \A b \in S : ~(<<b, a>> \in R)
  BY <1>1, WFMin
<1>4. ASSUME NEW b \in S PROVE a <= b
  <2>1. a \in Nat /\ b \in Nat /\ ~(b < a)
    BY <1>2, <1>3
  <2> QED BY <2>1
<1> QED BY <1>4
=============================================================================
