---------------------------- MODULE NumberFacts -----------------------------
(***************************************************************************)
(* Facts about numbers that the proofs need: quotients and remainders, for *)
(* the clock and the heap, and least elements, for the descriptors and the *)
(* interrupts.                                                             *)
(***************************************************************************)
EXTENDS Integers, TLAPS, WellFoundedInduction

\* A number is the quotient times the divisor, and the remainder.
LEMMA DivEq ==
  ASSUME NEW a \in Int, NEW b \in Int, b > 0, NEW q \in Int, q = a \div b,
         NEW r \in Int, r = a % b
  PROVE  a = b * q + r
BY SMTT(30)

\* The quotient and the remainder of a division.
LEMMA DivMod ==
  ASSUME NEW a \in Int, NEW b \in Nat \ {0}
  PROVE  /\ a \div b \in Int /\ a % b \in 0 .. b - 1
         /\ a = b * (a \div b) + (a % b)
<1>1. a \div b \in Int /\ a % b \in 0 .. b - 1
  OBVIOUS
<1>2. PICK q \in Int : q = a \div b
  BY <1>1
<1>3. PICK r \in Int : r = a % b
  BY <1>1
<1>4. b \in Int /\ b > 0
  OBVIOUS
<1>5. a = b * q + r
  BY <1>2, <1>3, <1>4, DivEq
<1> QED
  BY <1>1, <1>2, <1>3, <1>5

\* A number below the divisor is its own remainder.
LEMMA SmallMod ==
  ASSUME NEW a \in Nat, NEW b \in Nat \ {0}, a < b PROVE a % b = a
OBVIOUS

\* There is only one of each.
LEMMA DivModUnique ==
  ASSUME NEW a \in Int, NEW b \in Nat \ {0}, NEW q \in Int, NEW r \in 0 .. b - 1,
         a = b * q + r
  PROVE  a \div b = q /\ a % b = r
<1>1. PICK p \in Int : p = a \div b
  BY DivMod
<1>2. PICK s \in 0 .. b - 1 : s = a % b
  BY DivMod
<1>3. b * q + r = b * p + s
  BY <1>1, <1>2, DivMod
<1>4. ~ (p < q)
  <2>1. SUFFICES ASSUME p + 1 <= q PROVE FALSE
    OBVIOUS
  <2>2. b * (p + 1) <= b * q
    BY <2>1
  <2>3. b * (p + 1) = b * p + b
    OBVIOUS
  <2> QED
    BY <1>3, <2>2, <2>3
<1>5. ~ (q < p)
  <2>1. SUFFICES ASSUME q + 1 <= p PROVE FALSE
    OBVIOUS
  <2>2. b * (q + 1) <= b * p
    BY <2>1
  <2>3. b * (q + 1) = b * q + b
    OBVIOUS
  <2> QED
    BY <1>3, <2>2, <2>3
<1>6. p = q
  BY <1>4, <1>5
<1> QED
  BY <1>1, <1>2, <1>3, <1>6

\* A multiple has no remainder.
LEMMA Multiple ==
  ASSUME NEW b \in Nat \ {0}, NEW q \in Int
  PROVE  (b * q) % b = 0 /\ (b * q) \div b = q
<1>1. b * q \in Int /\ 0 \in 0 .. b - 1 /\ b * q = b * q + 0
  OBVIOUS
<1> QED
  BY <1>1, DivModUnique

\* A set of numbers that is not empty has a least element.
LEMMA LeastElement ==
  ASSUME NEW S \in SUBSET Nat, S # {} PROVE \E x \in S : \A y \in S : x <= y
<1>1. PICK x \in S : \A y \in S : ~ (<<y, x>> \in OpToRel(<, Nat))
  BY WFMin, NatLessThanWellFounded
<1>2. ASSUME NEW y \in S PROVE x <= y
  <2>1. x \in Nat /\ y \in Nat
    OBVIOUS
  <2>2. ~ (y < x)
    BY <1>1, <2>1 DEF OpToRel
  <2> QED
    BY <2>1, <2>2
<1> QED
  BY <1>2

\* A set with 0 that has the successor of each of its numbers has them all.
LEMMA Induction ==
  ASSUME NEW S \in SUBSET Nat, 0 \in S, \A n \in S : n + 1 \in S
  PROVE  S = Nat
<1>1. SUFFICES ASSUME Nat \ S # {} PROVE FALSE
  OBVIOUS
<1>2. PICK m \in Nat \ S : \A n \in Nat \ S : m <= n
  BY <1>1, LeastElement
<1>3. m # 0 /\ m - 1 \in Nat
  BY <1>2
<1>4. m - 1 \in S
  BY <1>2, <1>3
<1> QED
  BY <1>2, <1>3, <1>4

\* a is q times b and r more.
Division(a, b, q, r) == a = b * q + r

\* Then r is the remainder.
LEMMA PartsMod ==
  ASSUME NEW a \in Int, NEW b \in Nat \ {0}, NEW q \in Int, NEW r \in 0 .. b - 1,
         Division(a, b, q, r)
  PROVE  a % b = r
BY DivModUnique DEF Division

\* A number in parts, one more.
LEMMA NextParts ==
  ASSUME NEW a \in Int, NEW b \in Nat \ {0}, NEW q \in Int, NEW r \in 0 .. b - 1,
         NEW s \in Nat, s = r + 1, a - 1 = b * q + r
  PROVE  Division(a, b, q, s) /\ (s = b => Division(a, b, q + 1, 0))
<1>1. PICK x \in Int : x = b * q
  OBVIOUS
<1>2. a = x + s
  BY <1>1
<1>3. b * (q + 1) = x + b
  BY <1>1
<1> QED
  BY <1>1, <1>2, <1>3 DEF Division

\* Numbers with one remainder have successors with one remainder.
LEMMA NextMod ==
  ASSUME NEW b \in Nat \ {0}, NEW p \in Int, NEW q \in Int,
         (p - 1) % b = (q - 1) % b
  PROVE  p % b = q % b
<1>0. p - 1 \in Int /\ q - 1 \in Int
  OBVIOUS
<1>1. PICK m \in Int : m = (p - 1) \div b
  BY <1>0, DivMod
<1>2. PICK n \in Int : n = (q - 1) \div b
  BY <1>0, DivMod
<1>3. PICK r \in 0 .. b - 1 : r = (p - 1) % b
  BY <1>0, DivMod
<1>4. PICK s \in Nat : s = r + 1
  OBVIOUS
<1>5. p - 1 = b * m + r /\ q - 1 = b * n + r
  BY <1>0, <1>1, <1>2, <1>3, DivMod
<1>6. Division(p, b, m, s) /\ (s = b => Division(p, b, m + 1, 0))
  BY <1>4, <1>5, NextParts
<1>7. Division(q, b, n, s) /\ (s = b => Division(q, b, n + 1, 0))
  BY <1>4, <1>5, NextParts
<1>8. CASE s = b
  <2>1. m + 1 \in Int /\ n + 1 \in Int /\ 0 \in 0 .. b - 1
    OBVIOUS
  <2> QED
    BY <1>6, <1>7, <1>8, <2>1, PartsMod
<1>9. CASE s # b
  <2>1. s \in 0 .. b - 1
    BY <1>4, <1>9
  <2> QED
    BY <1>6, <1>7, <2>1, PartsMod
<1> QED
  BY <1>8, <1>9

\* A number that ran over the divisor, or below zero, wraps round once.
LEMMA WrapOnce ==
  ASSUME NEW b \in Nat \ {0}, NEW x \in Int
  PROVE  /\ 0 <= x /\ x < b => x % b = x
         /\ b <= x /\ x < 2 * b => x % b = x - b
         /\ - b <= x /\ x < 0 => x % b = x + b
<1>1. ASSUME 0 <= x, x < b PROVE x % b = x
  <2>1. x = b * 0 + x /\ x \in 0 .. b - 1 /\ 0 \in Int
    BY <1>1
  <2> QED
    BY <2>1, DivModUnique
<1>2. ASSUME b <= x, x < 2 * b PROVE x % b = x - b
  <2>1. x = b * 1 + (x - b) /\ x - b \in 0 .. b - 1 /\ 1 \in Int
    BY <1>2
  <2> QED
    BY <2>1, DivModUnique
<1>3. ASSUME - b <= x, x < 0 PROVE x % b = x + b
  <2>1. x = b * (-1) + (x + b) /\ x + b \in 0 .. b - 1 /\ -1 \in Int
    BY <1>3
  <2> QED
    BY <2>1, DivModUnique
<1> QED
  BY <1>1, <1>2, <1>3
=============================================================================
