----------------------------- MODULE WalkProofs -----------------------------
(***************************************************************************)
(* Proofs about the real cipher, for every block and key; about the loops   *)
(* of the HAL, for caches, clocks and numbers of any size; about the        *)
(* accelerator with that cipher in it; and about its testbenches.           *)
(***************************************************************************)
EXTENDS DesWalks, HalWalks, Des3PipelineTb, NumberFacts, FiniteSetTheorems

-----------------------------------------------------------------------------
(* Wirings. *)

\* Two tables of 64 bits of which T undoes U.
Undoes(T, U) ==
  /\ Len(T) = 64 /\ Len(U) = 64
  /\ \A j \in 0 .. 63 : T[j + 1] \in 0 .. 63 /\ U[T[j + 1] + 1] = j

\* What goes through two wirings each of which undoes the other comes out as it
\* went in.
LEMMA WiredBack ==
  ASSUME NEW T, NEW U, Undoes(T, U)
  PROVE  \A x \in Word(64) : Wire(T, Wire(U, x)) = x
<1> USE DEF Undoes
<1> TAKE x \in Word(64)
<1>1. ASSUME NEW j \in 0 .. 63 PROVE j \in Wire(T, Wire(U, x)) <=> j \in x
  BY DEF Wire
<1>2. x \subseteq 0 .. 63
  BY DEF Word
<1>3. \A y : Wire(T, y) \subseteq 0 .. 63
  <2> TAKE y
  <2>1. Wire(T, y) \subseteq 0 .. Len(T) - 1
    BY DEF Wire
  <2> QED
    BY <2>1
<1> QED
  BY <1>1, <1>2, <1>3

\* The bits of a concatenation.
LEMMA InAppend ==
  ASSUME NEW h \in SUBSET Int, NEW l, NEW w \in Int, NEW i \in Int
  PROVE  i \in Append2(h, l, w) <=> i - w \in h \/ i \in l
<1>1. ASSUME i - w \in h PROVE i \in {j + w : j \in h}
  <2>1. i = (i - w) + w
    OBVIOUS
  <2> QED
    BY <1>1, <2>1
<1>2. ASSUME NEW j \in h, i = j + w PROVE i - w \in h
  <2>1. i - w = j
    BY <1>2
  <2> QED
    BY <2>1
<1> QED
  BY <1>1, <1>2 DEF Append2

\* And those of a part.
LEMMA InSlice ==
  ASSUME NEW x \in SUBSET Int, NEW hi \in Int, NEW lo \in Int, NEW i \in Int
  PROVE  i \in Slice(x, hi, lo) <=> i + lo \in x /\ 0 <= i /\ i + lo <= hi
<1> DEFINE P == {n \in x : lo <= n /\ n <= hi}
<1>1. i + lo \in P <=> i + lo \in x /\ 0 <= i /\ i + lo <= hi
  OBVIOUS
<1>2. ASSUME i + lo \in P PROVE i \in {n - lo : n \in P}
  <2>1. i = (i + lo) - lo
    OBVIOUS
  <2> QED
    BY <1>2, <2>1
<1>3. ASSUME NEW n \in P, i = n - lo PROVE i + lo \in P
  <2>1. n \in Int /\ i + lo = n
    BY <1>3
  <2> QED
    BY <2>1
<1> QED
  BY <1>1, <1>2, <1>3 DEF Slice

\* A word cut into halves is joined from them.
LEMMA HalvesOf ==
  ASSUME NEW x \in Word(64)
  PROVE  /\ Slice(x, 63, 32) \in Word(32) /\ Slice(x, 31, 0) \in Word(32)
         /\ Append2(Slice(x, 63, 32), Slice(x, 31, 0), 32) = x
<1>1. x \subseteq 0 .. 63
  BY DEF Word
<1>2. Slice(x, 63, 32) \in Word(32) /\ Slice(x, 31, 0) \in Word(32)
  BY <1>1 DEF Word, Slice
<1>3. ASSUME NEW i \in 0 .. 63
      PROVE  i \in Append2(Slice(x, 63, 32), Slice(x, 31, 0), 32) <=> i \in x
  <2>1. Slice(x, 63, 32) \in SUBSET Int /\ x \in SUBSET Int /\ i \in Int /\ i - 32 \in Int
    BY <1>1, <1>2 DEF Word
  <2>2. i - 32 \in Slice(x, 63, 32) <=> i \in x /\ i >= 32
    BY <2>1, InSlice
  <2>3. i \in Slice(x, 31, 0) <=> i \in x /\ i <= 31
    BY <2>1, InSlice
  <2>4. i \in Append2(Slice(x, 63, 32), Slice(x, 31, 0), 32)
          <=> i - 32 \in Slice(x, 63, 32) \/ i \in Slice(x, 31, 0)
    BY <2>1, InAppend
  <2> QED
    BY <2>2, <2>3, <2>4
<1>4. Append2(Slice(x, 63, 32), Slice(x, 31, 0), 32) \subseteq 0 .. 63
  BY <1>2 DEF Append2, Word
<1> QED
  BY <1>1, <1>2, <1>3, <1>4

\* Two halves joined are cut into the same.
LEMMA JoinedHalves ==
  ASSUME NEW l \in Word(32), NEW r \in Word(32)
  PROVE  /\ Append2(l, r, 32) \in Word(64)
         /\ Slice(Append2(l, r, 32), 63, 32) = l /\ Slice(Append2(l, r, 32), 31, 0) = r
<1> DEFINE x == Append2(l, r, 32)
<1>1. l \in SUBSET Int /\ r \in SUBSET Int /\ l \subseteq 0 .. 31 /\ r \subseteq 0 .. 31
  BY DEF Word
<1>2. x \subseteq 0 .. 63
  <2>1. \A j \in l : j + 32 \in 0 .. 63
    BY <1>1
  <2>2. {j + 32 : j \in l} \subseteq 0 .. 63
    BY <2>1
  <2>3. r \subseteq 0 .. 63
    BY <1>1
  <2>4. x = {j + 32 : j \in l} \cup r
    BY DEF Append2
  <2> QED
    BY <2>2, <2>3, <2>4
<1>3. \A i \in Int : i \in x <=> i - 32 \in l \/ i \in r
  BY <1>1, InAppend
<1> HIDE DEF x
<1>4. x \in SUBSET Int
  BY <1>2
<1>5. ASSUME NEW i \in Int PROVE i \in Slice(x, 63, 32) <=> i \in l
  <2>1. i \in Slice(x, 63, 32) <=> i + 32 \in x /\ 0 <= i /\ i + 32 <= 63
    BY <1>4, InSlice
  <2>2. i + 32 \in x <=> i \in l \/ i + 32 \in r
    <3>1. i + 32 \in Int /\ (i + 32) - 32 = i
      OBVIOUS
    <3> QED
      BY <1>3, <3>1
  <2> QED
    BY <1>1, <2>1, <2>2
<1>6. ASSUME NEW i \in Int PROVE i \in Slice(x, 31, 0) <=> i \in r
  <2>1. i \in Slice(x, 31, 0) <=> i \in x /\ 0 <= i /\ i <= 31
    BY <1>4, InSlice
  <2> QED
    BY <1>1, <1>3, <2>1
<1>7. Slice(x, 63, 32) \subseteq Int /\ Slice(x, 31, 0) \subseteq Int
  BY <1>4 DEF Slice
<1>8. Slice(x, 63, 32) = l /\ Slice(x, 31, 0) = r
  BY <1>1, <1>5, <1>6, <1>7
<1> QED
  BY <1>2, <1>8 DEF Word, x

\* IP.v and IP_inv.v.
LEMMA IPTables == Undoes(IPInvTable, IPTable) /\ Undoes(IPTable, IPInvTable)
<1>1. Len(IPTable) = 64 /\ Len(IPInvTable) = 64
  BY DEF IPTable, IPInvTable
<1>2. \A j \in 0 .. 63 : IPTable[j + 1] \in 0 .. 63 /\ IPInvTable[IPTable[j + 1] + 1] = j
  BY DEF IPTable, IPInvTable
<1>3. \A j \in 0 .. 63 : IPInvTable[j + 1] \in 0 .. 63 /\ IPTable[IPInvTable[j + 1] + 1] = j
  BY DEF IPTable, IPInvTable
<1> QED
  BY <1>1, <1>2, <1>3 DEF Undoes

\* So each of the two undoes the other.
LEMMA IPWires ==
  /\ \A x \in Word(64) : Wire(IPInvTable, Wire(IPTable, x)) = x
  /\ \A x \in Word(64) : Wire(IPTable, Wire(IPInvTable, x)) = x
<1>1. \A x \in Word(64) : Wire(IPInvTable, Wire(IPTable, x)) = x
  BY IPTables, WiredBack
<1>2. \A x \in Word(64) : Wire(IPTable, Wire(IPInvTable, x)) = x
  BY IPTables, WiredBack
<1> QED
  BY <1>1, <1>2

\* The halves of any block are words.
LEMMA IPType == ASSUME NEW b PROVE IP(b) \in Word(32) \X Word(32)
<1>1. Wire(IPTable, b) \in Word(64)
  BY IPTables DEF Undoes, Wire, Word
<1> QED
  BY <1>1, HalvesOf DEF IP

\* IP_inv.v undoes IP.v, with the halves cut and joined as feistel_algo.v does,
\* and the other way round.
LEMMA IPUndone ==
  /\ \A b \in Word(64) : IP_inv(IP(b)) = b
  /\ \A l, r \in Word(32) : IP(IP_inv(<<l, r>>)) = <<l, r>>
<1>1. ASSUME NEW b \in Word(64) PROVE IP_inv(IP(b)) = b
  <2>1. Wire(IPTable, b) \in Word(64)
    BY IPTables DEF Undoes, Wire, Word
  <2>2. IP_inv(IP(b)) = Wire(IPInvTable, Wire(IPTable, b))
    BY <2>1, HalvesOf DEF IP, IP_inv
  <2>3. \A x \in Word(64) : Wire(IPInvTable, Wire(IPTable, x)) = x
    BY IPWires
  <2> QED
    BY <2>2, <2>3
<1>2. ASSUME NEW l \in Word(32), NEW r \in Word(32)
      PROVE  IP(IP_inv(<<l, r>>)) = <<l, r>>
  <2>1. Append2(l, r, 32) \in Word(64)
    BY JoinedHalves
  <2>2. \A x \in Word(64) : Wire(IPTable, Wire(IPInvTable, x)) = x
    BY IPWires
  <2> QED
    BY <2>1, <2>2, JoinedHalves DEF IP, IP_inv
<1> QED
  BY <1>1, <1>2

-----------------------------------------------------------------------------
(* The key schedule. *)

\* SHIFT_DEC is SHIFT_ENC backwards.
LEMMA Shifts ==
  /\ \A n \in 0 .. 15 : ShiftDec[(15 - n) + 1] = ShiftEnc[n + 1]
  /\ \A n \in 0 .. 15 : ShiftEnc[n + 1] \in 1 .. 28 /\ ShiftDec[n + 1] \in 1 .. 28
BY DEF ShiftDec, ShiftEnc

\* The instance for a round of the decryption makes the round key of the instance
\* for the round as far from the end of the encryption, and the other way round.
LEMMA ScheduleReverses ==
  ASSUME NEW key, NEW n \in 0 .. 15, NEW d \in BOOLEAN
  PROVE  key_scheduler(key, d, n) = key_scheduler(key, ~ d, 15 - n)
<1>1. 15 - n \in 0 .. 15 /\ 15 - (15 - n) = n
  OBVIOUS
<1>2. /\ ShiftDec[(15 - n) + 1] = ShiftEnc[n + 1]
      /\ ShiftDec[n + 1] = ShiftEnc[(15 - n) + 1]
  BY <1>1, Shifts
<1>3. CASE d
  BY <1>2, <1>3 DEF key_scheduler
<1>4. CASE ~ d
  BY <1>2, <1>4 DEF key_scheduler
<1> QED
  BY <1>3, <1>4

-----------------------------------------------------------------------------
(* Complements. *)

\* A table of n bits of a word of w.
Within(T, n, w) == Len(T) = n /\ \A j \in 1 .. n : T[j] \in 0 .. w - 1

\* What a wiring makes is a word, and it moves the complement of what it moves.
LEMMA WireNot ==
  ASSUME NEW T, NEW w \in Nat, NEW n \in Nat, Within(T, n, w)
  PROVE  \A x : Wire(T, x) \in Word(n) /\ Wire(T, Not(x, w)) = Not(Wire(T, x), n)
<1>1. \A j \in 0 .. n - 1 : T[j + 1] \in 0 .. w - 1
  BY DEF Within
<1> QED
  BY <1>1 DEF Within, Wire, Not, Word

\* So does a concatenation.
LEMMA ConcatNot ==
  ASSUME NEW T, NEW w \in Nat, NEW n \in Nat, Within(T, n, w)
  PROVE  \A x : Concat(T, x) \in Word(n) /\ Concat(T, Not(x, w)) = Not(Concat(T, x), n)
<1> USE DEF Within
<1> TAKE x
<1>1. ASSUME NEW y, NEW i \in Int
      PROVE  i \in Concat(T, y) <=> i \in 0 .. n - 1 /\ T[n - i] \in y
  <2> DEFINE P == {m \in 1 .. n : T[m] \in y}
  <2>1. i \in 0 .. n - 1 /\ T[n - i] \in y <=> n - i \in P
    OBVIOUS
  <2>2. ASSUME n - i \in P PROVE i \in {n - m : m \in P}
    <3>1. i = n - (n - i)
      OBVIOUS
    <3> QED
      BY <2>2, <3>1
  <2>3. ASSUME NEW m \in P, i = n - m PROVE n - i \in P
    <3>1. n - i = m
      BY <2>3
    <3> QED
      BY <3>1
  <2>4. Concat(T, y) = {n - m : m \in P}
    BY DEF Concat
  <2> QED
    BY <2>1, <2>2, <2>3, <2>4
<1>2. \A y : Concat(T, y) \subseteq Int
  BY DEF Concat
<1>3. \A i \in Int : i \in Concat(T, Not(x, w)) <=> i \in Not(Concat(T, x), n)
  <2> TAKE i \in Int
  <2>1. i \in 0 .. n - 1 => n - i \in 1 .. n
    OBVIOUS
  <2>2. i \in 0 .. n - 1 => (T[n - i] \in Not(x, w) <=> T[n - i] \notin x)
    BY <2>1 DEF Not
  <2> QED
    BY <1>1, <2>2 DEF Not
<1>4. Not(Concat(T, x), n) \subseteq Int
  BY DEF Not
<1>5. Concat(T, x) \in Word(n)
  BY <1>1, <1>2 DEF Word
<1> QED
  BY <1>2, <1>3, <1>4, <1>5

\* The bits of a rotation.
LEMMA InRotated ==
  ASSUME NEW x \in Word(28), NEW s \in 0 .. 28, NEW i \in Int
  PROVE  i \in Rotated(x, s) <=>
           \/ i \in 0 .. 27 /\ i - s \in x
           \/ i >= 0 /\ i + (28 - s) \in x
<1>1. x \subseteq 0 .. 27
  BY DEF Word
<1>2. i \in ShiftLeft(x, s, 28) <=> i \in 0 .. 27 /\ i - s \in x
  <2>1. ASSUME i - s \in x PROVE i \in {j + s : j \in x}
    <3>1. i = (i - s) + s
      OBVIOUS
    <3> QED
      BY <2>1, <3>1
  <2>2. ASSUME NEW j \in x, i = j + s PROVE i - s \in x
    <3>1. i - s = j
      BY <1>1, <2>2
    <3> QED
      BY <3>1
  <2> QED
    BY <2>1, <2>2 DEF ShiftLeft
<1>3. i \in ShiftRight(x, 28 - s) <=> i >= 0 /\ i + (28 - s) \in x
  <2> DEFINE t == 28 - s
             P == {n \in x : n >= t}
  <2>1. ASSUME i >= 0, i + t \in x PROVE i \in {n - t : n \in P}
    <3>1. i + t \in P /\ i = (i + t) - t
      BY <2>1
    <3> QED
      BY <3>1
  <2>2. ASSUME NEW n \in P, i = n - t PROVE i >= 0 /\ i + t \in x
    <3>1. n \in Int /\ i + t = n /\ n >= t
      BY <1>1, <2>2
    <3> QED
      BY <3>1
  <2> QED
    BY <2>1, <2>2 DEF ShiftRight
<1> QED
  BY <1>2, <1>3 DEF Rotated

\* A rotation keeps 28 bits, and moves the complement of what it moves.
LEMMA RotatedNot ==
  ASSUME NEW x \in Word(28), NEW s \in 0 .. 28
  PROVE  Rotated(x, s) \in Word(28) /\ Rotated(Not(x, 28), s) = Not(Rotated(x, s), 28)
<1>1. x \subseteq 0 .. 27 /\ Not(x, 28) \in Word(28)
  BY DEF Word, Not
<1>2. ASSUME NEW y \in Word(28) PROVE Rotated(y, s) \subseteq 0 .. 27
  <2>1. y \subseteq 0 .. 27
    BY DEF Word
  <2>2. ShiftRight(y, 28 - s) \subseteq 0 .. 27
    BY <2>1 DEF ShiftRight
  <2>3. ShiftLeft(y, s, 28) \subseteq 0 .. 27
    BY DEF ShiftLeft
  <2> QED
    BY <2>2, <2>3 DEF Rotated
<1>3. ASSUME NEW i \in 0 .. 27
      PROVE  i \in Rotated(Not(x, 28), s) <=> i \notin Rotated(x, s)
  <2>1. i \in Rotated(Not(x, 28), s) <=> i - s \in Not(x, 28) \/ i + (28 - s) \in Not(x, 28)
    BY <1>1, InRotated
  <2>2. i \in Rotated(x, s) <=> i - s \in x \/ i + (28 - s) \in x
    BY InRotated
  <2> QED
    BY <1>1, <2>1, <2>2 DEF Not
<1> QED
  BY <1>1, <1>2, <1>3 DEF Not, Word

\* The halves joined make the complement when both are complemented.
LEMMA AppendNot ==
  ASSUME NEW c \in Word(28), NEW d \in Word(28)
  PROVE  Append2(Not(c, 28), Not(d, 28), 28) = Not(Append2(c, d, 28), 56)
<1>1. /\ c \in SUBSET Int /\ Not(c, 28) \in SUBSET Int /\ 28 \in Int
      /\ c \subseteq 0 .. 27 /\ d \subseteq 0 .. 27
      /\ Not(c, 28) \subseteq 0 .. 27 /\ Not(d, 28) \subseteq 0 .. 27
  BY DEF Word, Not
<1>2. ASSUME NEW i \in Int
      PROVE  i \in Append2(Not(c, 28), Not(d, 28), 28) <=> i \in Not(Append2(c, d, 28), 56)
  <2>1. i \in Append2(Not(c, 28), Not(d, 28), 28) <=> i - 28 \in Not(c, 28) \/ i \in Not(d, 28)
    BY <1>1, InAppend
  <2>2. i \in Append2(c, d, 28) <=> i - 28 \in c \/ i \in d
    BY <1>1, InAppend
  <2> QED
    BY <1>1, <2>1, <2>2 DEF Not
<1>3. Append2(Not(c, 28), Not(d, 28), 28) \subseteq Int
  <2>1. {i + 28 : i \in Not(c, 28)} \subseteq Int
    BY <1>1
  <2> QED
    BY <1>1, <2>1 DEF Append2
<1>4. Not(Append2(c, d, 28), 56) \subseteq Int
  BY DEF Not
<1> QED
  BY <1>2, <1>3, <1>4

\* The tables stay within their words.
LEMMA TablesWithin ==
  /\ Within(C0List, 28, 64) /\ Within(D0List, 28, 64) /\ Within(KOutList, 48, 56)
  /\ Within(IPTable, 64, 64) /\ Within(ETable, 48, 32) /\ Within(PTable, 32, 32)
<1>1. Within(C0List, 28, 64)
  BY DEF C0List, Within
<1>2. Within(D0List, 28, 64)
  BY DEF D0List, Within
<1>3. Within(KOutList, 48, 56)
  BY DEF KOutList, Within
<1>4. Within(IPTable, 64, 64)
  BY DEF IPTable, Within
<1>5. Within(ETable, 48, 32)
  BY DEF ETable, Within
<1>6. Within(PTable, 32, 32)
  BY DEF PTable, Within
<1> QED
  BY <1>1, <1>2, <1>3, <1>4, <1>5, <1>6

\* The complement of a key has the complemented round keys.
LEMMA ScheduleNot ==
  ASSUME NEW key, NEW d \in BOOLEAN, NEW n \in 0 .. 15
  PROVE  /\ key_scheduler(key, d, n) \in Word(48)
         /\ key_scheduler(Not(key, 64), d, n) = Not(key_scheduler(key, d, n), 48)
<1> DEFINE s == IF d THEN ShiftDec[n + 1] ELSE ShiftEnc[n + 1]
           C == Concat(C0List, key)
           D == Concat(D0List, key)
           CN == Concat(C0List, Not(key, 64))
           DN == Concat(D0List, Not(key, 64))
<1>1. s \in 0 .. 28
  BY Shifts
<1>2. C \in Word(28) /\ D \in Word(28)
  BY TablesWithin, ConcatNot
<1>3. CN = Not(C, 28)
  BY TablesWithin, ConcatNot
<1>4. DN = Not(D, 28)
  BY TablesWithin, ConcatNot
<1>5. /\ key_scheduler(key, d, n) = Concat(KOutList, Append2(Rotated(C, s), Rotated(D, s), 28))
      /\ key_scheduler(Not(key, 64), d, n)
           = Concat(KOutList, Append2(Rotated(CN, s), Rotated(DN, s), 28))
  BY DEF key_scheduler
<1> HIDE DEF s, C, D, CN, DN
<1>6. /\ Rotated(C, s) \in Word(28) /\ Rotated(CN, s) = Not(Rotated(C, s), 28)
      /\ Rotated(D, s) \in Word(28) /\ Rotated(DN, s) = Not(Rotated(D, s), 28)
  BY <1>1, <1>2, <1>3, <1>4, RotatedNot
<1>7. Append2(Rotated(CN, s), Rotated(DN, s), 28)
        = Not(Append2(Rotated(C, s), Rotated(D, s), 28), 56)
  BY <1>6, AppendNot
<1>8. \A x : Concat(KOutList, Not(x, 56)) = Not(Concat(KOutList, x), 48)
  BY TablesWithin, ConcatNot
<1>9. \A x : Concat(KOutList, x) \in Word(48)
  BY TablesWithin, ConcatNot
<1> QED
  BY <1>5, <1>7, <1>8, <1>9

\* Two complements differ where what they are of differs.
LEMMA XorNots ==
  ASSUME NEW n \in Nat, NEW a \in Word(n), NEW b \in Word(n)
  PROVE  /\ Xor(a, b) \in Word(n) /\ Xor(Not(a, n), Not(b, n)) = Xor(a, b)
         /\ Xor(Not(a, n), b) = Not(Xor(a, b), n)
BY DEF Word, Xor, Not

\* f.v does not see a complement of the half and the round key together, and
\* gives a half.
LEMMA FNot ==
  ASSUME NEW r \in Word(32), NEW k \in Word(48)
  PROVE  f(r, k) \in Word(32) /\ f(Not(r, 32), Not(k, 48)) = f(r, k)
<1>1. E(Not(r, 32)) = Not(E(r), 48)
  BY TablesWithin, WireNot DEF E
<1>2. E(r) \in Word(48)
  BY TablesWithin, WireNot DEF E
<1>3. Xor(E(Not(r, 32)), Not(k, 48)) = Xor(E(r), k)
  BY <1>1, <1>2, XorNots
<1>4. \A x : Wire(PTable, x) \in Word(32)
  BY TablesWithin, WireNot
<1> QED
  BY <1>3, <1>4 DEF f

\* Nor does IP.v.
LEMMA IPNot ==
  ASSUME NEW b PROVE IP(Not(b, 64)) = <<Not(IP(b)[1], 32), Not(IP(b)[2], 32)>>
<1> DEFINE x == Wire(IPTable, b)
<1>1. Wire(IPTable, Not(b, 64)) = Not(x, 64)
  BY TablesWithin, WireNot
<1>2. x \in Word(64)
  BY TablesWithin, WireNot
<1> HIDE DEF x
<1>7. x \in SUBSET Int /\ Not(x, 64) \in SUBSET Int
  BY <1>2 DEF Word, Not
<1>3. ASSUME NEW i \in Int PROVE i \in Slice(Not(x, 64), 63, 32) <=> i \in Not(Slice(x, 63, 32), 32)
  <2>1. i \in Slice(Not(x, 64), 63, 32) <=> i + 32 \in Not(x, 64) /\ 0 <= i /\ i + 32 <= 63
    BY <1>7, InSlice
  <2>2. i \in Slice(x, 63, 32) <=> i + 32 \in x /\ 0 <= i /\ i + 32 <= 63
    BY <1>7, InSlice
  <2> QED
    BY <2>1, <2>2 DEF Not
<1>4. ASSUME NEW i \in Int PROVE i \in Slice(Not(x, 64), 31, 0) <=> i \in Not(Slice(x, 31, 0), 32)
  <2>1. i \in Slice(Not(x, 64), 31, 0) <=> i + 0 \in Not(x, 64) /\ 0 <= i /\ i + 0 <= 31
    BY <1>7, InSlice
  <2>2. i \in Slice(x, 31, 0) <=> i + 0 \in x /\ 0 <= i /\ i + 0 <= 31
    BY <1>7, InSlice
  <2>3. i + 0 = i
    OBVIOUS
  <2> QED
    BY <2>1, <2>2, <2>3 DEF Not
<1>5. /\ Slice(Not(x, 64), 63, 32) \subseteq Int /\ Slice(Not(x, 64), 31, 0) \subseteq Int
      /\ \A y : Not(y, 32) \subseteq Int
  BY <1>7 DEF Slice, Not
<1>6. /\ Slice(Not(x, 64), 63, 32) = Not(Slice(x, 63, 32), 32)
      /\ Slice(Not(x, 64), 31, 0) = Not(Slice(x, 31, 0), 32)
  BY <1>3, <1>4, <1>5
<1> QED
  BY <1>1, <1>6 DEF IP, x

-----------------------------------------------------------------------------
(* The wirings that were typed twice. *)

\* The bits of a concatenation of a table.
LEMMA InConcat ==
  ASSUME NEW T, NEW w \in Nat, NEW n \in Nat, Within(T, n, w), NEW x, NEW i \in Int
  PROVE  i \in Concat(T, x) <=> i \in 0 .. n - 1 /\ T[n - i] \in x
<1> USE DEF Within
<1> DEFINE P == {m \in 1 .. n : T[m] \in x}
<1>1. i \in 0 .. n - 1 /\ T[n - i] \in x <=> n - i \in P
  OBVIOUS
<1>2. ASSUME n - i \in P PROVE i \in {n - m : m \in P}
  <2>1. i = n - (n - i)
    OBVIOUS
  <2> QED
    BY <1>2, <2>1
<1>3. ASSUME NEW m \in P, i = n - m PROVE n - i \in P
  <2>1. n - i = m
    BY <1>3
  <2> QED
    BY <2>1
<1>4. Concat(T, x) = {n - m : m \in P}
  BY DEF Concat
<1> QED
  BY <1>1, <1>2, <1>3, <1>4

\* A table of n entries that is another one the other way round.
Reversed(T, U, n) == Len(U) = n /\ \A i \in 0 .. n - 1 : U[i + 1] = T[n - i]

\* A concatenation is the wiring whose table is the same the other way round.
LEMMA ConcatIsWire ==
  ASSUME NEW T, NEW U, NEW w \in Nat, NEW n \in Nat, Within(T, n, w), Reversed(T, U, n)
  PROVE  \A x : Concat(T, x) = Wire(U, x)
<1> USE DEF Reversed
<1> TAKE x
<1>1. Wire(U, x) = {i \in 0 .. n - 1 : T[n - i] \in x}
  BY DEF Wire
<1>2. Concat(T, x) \in Word(n)
  BY ConcatNot
<1>3. \A i \in 0 .. n - 1 : i \in Concat(T, x) <=> T[n - i] \in x
  BY InConcat
<1> QED
  BY <1>1, <1>2, <1>3 DEF Word

\* The halves of PC1.v are the two concatenations of key_scheduler.v.
LEMMA PC1Halves ==
  \A key : /\ Slice(PC1(key), 55, 28) = Concat(C0List, key)
           /\ Slice(PC1(key), 27, 0) = Concat(D0List, key)
<1> TAKE key
<1>1. /\ Len(PC1Table) = 56
      /\ \A i \in 0 .. 27 : PC1Table[(i + 28) + 1] = C0List[28 - i]
      /\ \A i \in 0 .. 27 : PC1Table[i + 1] = D0List[28 - i]
  BY DEF PC1Table, C0List, D0List
<1>2. PC1(key) \subseteq 0 .. 55 /\ PC1(key) \in SUBSET Int
      /\ \A j \in 0 .. 55 : j \in PC1(key) <=> PC1Table[j + 1] \in key
  BY <1>1 DEF PC1, Wire
<1>3. /\ \A i \in Int : i \in Concat(C0List, key) <=> i \in 0 .. 27 /\ C0List[28 - i] \in key
      /\ \A i \in Int : i \in Concat(D0List, key) <=> i \in 0 .. 27 /\ D0List[28 - i] \in key
  <2>1. 28 \in Nat /\ 64 \in Nat /\ 28 - 1 = 27
    OBVIOUS
  <2>2. Within(C0List, 28, 64) /\ Within(D0List, 28, 64)
    BY TablesWithin
  <2>3. \A i \in Int : i \in Concat(C0List, key) <=> i \in 0 .. 28 - 1 /\ C0List[28 - i] \in key
    BY <2>1, <2>2, InConcat
  <2>4. \A i \in Int : i \in Concat(D0List, key) <=> i \in 0 .. 28 - 1 /\ D0List[28 - i] \in key
    BY <2>1, <2>2, InConcat
  <2> QED
    BY <2>1, <2>3, <2>4
<1>4. /\ Concat(C0List, key) \in Word(28) /\ Concat(D0List, key) \in Word(28)
  BY TablesWithin, ConcatNot
<1>5. ASSUME NEW i \in Int PROVE i \in Slice(PC1(key), 55, 28) <=> i \in Concat(C0List, key)
  <2>1. i \in Slice(PC1(key), 55, 28) <=> i + 28 \in PC1(key) /\ 0 <= i /\ i + 28 <= 55
    BY <1>2, InSlice
  <2>2. CASE i \in 0 .. 27
    <3>1. i + 28 \in 0 .. 55
      BY <2>2
    <3>2. i + 28 \in PC1(key) <=> PC1Table[(i + 28) + 1] \in key
      BY <1>2, <3>1
    <3>3. PC1Table[(i + 28) + 1] = C0List[28 - i]
      BY <1>1, <2>2
    <3> QED
      BY <1>3, <2>1, <2>2, <3>2, <3>3
  <2>3. CASE i \notin 0 .. 27
    BY <1>3, <2>1, <2>3
  <2> QED
    BY <2>2, <2>3
<1>6. ASSUME NEW i \in Int PROVE i \in Slice(PC1(key), 27, 0) <=> i \in Concat(D0List, key)
  <2>1. i \in Slice(PC1(key), 27, 0) <=> i + 0 \in PC1(key) /\ 0 <= i /\ i + 0 <= 27
    BY <1>2, InSlice
  <2>2. CASE i \in 0 .. 27
    <3>1. i + 0 = i /\ i \in 0 .. 55
      BY <2>2
    <3>2. i \in PC1(key) <=> PC1Table[i + 1] \in key
      BY <1>2, <3>1
    <3>3. PC1Table[i + 1] = D0List[28 - i]
      BY <1>1, <2>2
    <3> QED
      BY <1>3, <2>1, <2>2, <3>1, <3>2, <3>3
  <2>3. CASE i \notin 0 .. 27
    BY <1>3, <2>1, <2>3
  <2> QED
    BY <2>2, <2>3
<1>7. Slice(PC1(key), 55, 28) \subseteq Int /\ Slice(PC1(key), 27, 0) \subseteq Int
  BY <1>2 DEF Slice
<1> QED
  BY <1>4, <1>5, <1>6, <1>7 DEF Word

\* PC2.v is the concatenation at the end of key_scheduler.v.
LEMMA PC2Same == \A x : Concat(KOutList, x) = PC2(x)
<1>1. Len(PC2Table) = 48 /\ \A i \in 0 .. 47 : PC2Table[i + 1] = KOutList[48 - i]
  BY DEF PC2Table, KOutList
<1>2. 48 \in Nat /\ 56 \in Nat /\ Within(KOutList, 48, 56)
  BY TablesWithin
<1>3. Reversed(KOutList, PC2Table, 48)
  BY <1>1 DEF Reversed
<1>4. \A x : Concat(KOutList, x) = Wire(PC2Table, x)
  BY <1>2, <1>3, ConcatIsWire
<1> QED
  BY <1>4 DEF PC2

(***************************************************************************)
(* PC1.v and PC2.v, with the rotation of the round between them, give every *)
(* round key of every key that key_scheduler.v gives (PC1.v, PC2.v and      *)
(* key_scheduler.v, lines 29-65).                                           *)
(***************************************************************************)
THEOREM ScheduleIsPC ==
  ASSUME NEW key, NEW d \in BOOLEAN, NEW n \in 0 .. 15
  PROVE  LET shift == (IF d THEN ShiftDec ELSE ShiftEnc)[n + 1]
         IN  key_scheduler(key, d, n)
               = PC2(Append2(Rotated(Slice(PC1(key), 55, 28), shift),
                             Rotated(Slice(PC1(key), 27, 0), shift), 28))
BY PC1Halves, PC2Same DEF key_scheduler

-----------------------------------------------------------------------------
(* A block goes through the rounds and back. *)

Half == Word(32)
Pair == Half \X Half
Crossed(lr) == <<lr[2], lr[1]>>
NotPair(lr) == <<Not(lr[1], 32), Not(lr[2], 32)>>

\* The round keys, and a round.
Forth(key, n) == key_scheduler(key, FALSE, n)

SBoxState == [of : {"sbox"}, box : 1 .. 8, in : Word(6)]
BitState == [of : {"bit"}, bit : 0 .. 63, decrypt : BOOLEAN, round : 0 .. 16]
RoundsState == [of : {"rounds"}, key : Keys, decrypt : BOOLEAN, round : 0 .. 16,
                lr : Pair, lrNot : Pair, trail : Seq(Pair)]

\* The trail has the halves of each round of the encryption, up to the one that is
\* reached; the decryption is as far back on it as it has made rounds.
OnTrail ==
  /\ \A n \in 1 .. Len(at.trail) - 1 :
        at.trail[n + 1] = Net!Round(at.trail[n], Forth(at.key, n - 1))
  /\ ~ at.decrypt => Len(at.trail) = at.round + 1 /\ at.lr = at.trail[at.round + 1]
  /\ at.decrypt => Len(at.trail) = 17 /\ at.lr = Crossed(at.trail[17 - at.round])

WalkInv ==
  /\ at \in SBoxState \cup BitState \cup RoundsState
  /\ On("rounds") => OnTrail /\ ComplementFollows

\* What a round is.
LEMMA RoundIs ==
  ASSUME NEW l, NEW r, NEW k PROVE Net!Round(<<l, r>>, k) = <<r, Xor(l, f(r, k))>>
BY DEF Net!Round, Net!Xor, Xor

\* A round of a pair, and of its complement.
LEMMA RoundNot ==
  ASSUME NEW lr \in Pair, NEW k \in Word(48)
  PROVE  /\ Net!Round(lr, k) \in Pair
         /\ Net!Round(NotPair(lr), Not(k, 48)) = NotPair(Net!Round(lr, k))
         /\ NotPair(lr) \in Pair
<1>1. PICK l \in Half, r \in Half : lr = <<l, r>>
  BY DEF Pair
<1>2. Net!Round(lr, k) = <<r, Xor(l, f(r, k))>>
  BY <1>1, RoundIs
<1>3. NotPair(lr) = <<Not(l, 32), Not(r, 32)>>
  BY <1>1 DEF NotPair
<1>4. f(r, k) \in Word(32) /\ f(Not(r, 32), Not(k, 48)) = f(r, k)
  BY FNot DEF Half
<1>5. /\ Xor(l, f(r, k)) \in Word(32)
      /\ Xor(Not(l, 32), f(r, k)) = Not(Xor(l, f(r, k)), 32)
  BY <1>4, XorNots DEF Half
<1>6. Net!Round(NotPair(lr), Not(k, 48)) = <<Not(r, 32), Xor(Not(l, 32), f(r, k))>>
  BY <1>3, <1>4, RoundIs
<1>7. \A x : Not(x, 32) \in Half
  BY DEF Not, Half, Word
<1> QED
  BY <1>2, <1>3, <1>5, <1>6, <1>7 DEF NotPair, Pair, Half

\* A round of the crossed halves goes back over the round that made them.
LEMMA RoundBack ==
  ASSUME NEW lr \in Pair, NEW k
  PROVE  Net!Round(Crossed(Net!Round(lr, k)), k) = Crossed(lr)
<1>1. PICK l \in Half, r \in Half : lr = <<l, r>>
  BY DEF Pair
<1>2. Xor(Xor(l, f(r, k)), f(r, k)) = l
  BY DEF Xor
<1> QED
  BY <1>1, <1>2, RoundIs DEF Crossed

\* Turning round crosses the halves, those of the complement too.
LEMMA TurnedIs ==
  ASSUME NEW lr \in Pair
  PROVE  Turned(lr) = Crossed(lr) /\ Turned(NotPair(lr)) = NotPair(Crossed(lr))
<1>1. PICK l \in Half, r \in Half : lr = <<l, r>>
  BY DEF Pair
<1>2. Not(l, 32) \in Half /\ Not(r, 32) \in Half
  BY DEF Not, Half, Word
<1> QED
  BY <1>1, <1>2, IPUndone DEF Turned, Crossed, NotPair, Half

\* The walks of the other kinds keep to their kinds.
LEMMA OthersStay ==
  ASSUME at \in SBoxState \cup BitState, DesNext
  PROVE  at' \in SBoxState \cup BitState
<1>1. ASSUME NEW i \in 0 .. 5, Flip(i) PROVE at' \in SBoxState
  <2>1. at \in SBoxState
    BY <1>1 DEF Flip, On, SBoxState, BitState
  <2>2. Xor(at.in, {i}) \in Word(6)
    BY <2>1 DEF SBoxState, Xor, Word
  <2> QED
    BY <1>1, <2>1, <2>2 DEF Flip, SBoxState
<1>2. ASSUME NextRound PROVE at' \in BitState
  <2>1. at \in BitState
    BY <1>2 DEF NextRound, On, SBoxState, BitState
  <2>2. at.round + 1 \in 0 .. 16
    BY <1>2, <2>1 DEF NextRound, BitState
  <2> QED
    BY <1>2, <2>1, <2>2 DEF NextRound, BitState
<1>3. ~ OneRound /\ ~ Turn
  BY DEF OneRound, Turn, On, SBoxState, BitState
<1> QED
  BY <1>1, <1>2, <1>3 DEF DesNext

\* The walk begins at the halves of a block.
LEMMA WalkInit == DesInit => WalkInv
<1>1. ASSUME SBoxInit PROVE WalkInv
  <2>1. {} \in Word(6)
    BY DEF Word
  <2> QED
    BY <1>1, <2>1 DEF SBoxInit, WalkInv, SBoxState, On
<1>2. ASSUME BitInit PROVE WalkInv
  BY <1>2 DEF BitInit, WalkInv, BitState, On
<1>3. ASSUME RoundsInit PROVE WalkInv
  <2>1. PICK b \in Blocks, k \in Keys :
          at = [of |-> "rounds", key |-> k, decrypt |-> FALSE, round |-> 0,
                lr |-> IP(b), lrNot |-> IP(Not(b, 64)), trail |-> <<IP(b)>>]
    BY <1>3 DEF RoundsInit
  <2>2. IP(b) \in Pair /\ IP(Not(b, 64)) \in Pair
    BY IPType DEF Pair, Half
  <2>3. <<IP(b)>> \in Seq(Pair) /\ Len(<<IP(b)>>) = 1 /\ <<IP(b)>>[1] = IP(b)
    BY <2>2
  <2>4. at \in RoundsState
    BY <2>1, <2>2, <2>3 DEF RoundsState
  <2>5. ComplementFollows
    BY <2>1, IPNot DEF ComplementFollows
  <2>6. OnTrail
    <3>1. /\ at.trail = <<IP(b)>> /\ at.round = 0 /\ ~ at.decrypt /\ at.lr = IP(b)
      BY <2>1
    <3>2. 1 .. Len(at.trail) - 1 = {}
      BY <2>3, <3>1
    <3> QED
      BY <2>3, <3>1, <3>2 DEF OnTrail
  <2> QED
    BY <2>4, <2>5, <2>6 DEF WalkInv
<1> QED
  BY <1>1, <1>2, <1>3 DEF DesInit

\* A round of the walk, from a state of the walk.
LEMMA OneRoundOK ==
  ASSUME WalkInv, OneRound PROVE WalkInv'
<1>1. /\ at \in RoundsState /\ OnTrail /\ ComplementFollows /\ On("rounds") /\ at.round < 16
  BY DEF OneRound, WalkInv, On, SBoxState, BitState
<1> DEFINE k == key_scheduler(at.key, at.decrypt, at.round)
           kNot == key_scheduler(Not(at.key, 64), at.decrypt, at.round)
           lr == Net!Round(at.lr, k)
           lrNot == Net!Round(at.lrNot, kNot)
           trail == IF at.decrypt THEN at.trail ELSE Append(at.trail, lr)
<1>2. /\ at.decrypt \in BOOLEAN /\ at.round \in 0 .. 15 /\ at.lr \in Pair
      /\ at.trail \in Seq(Pair) /\ at.key \in Keys
  BY <1>1 DEF RoundsState
<1>3. k \in Word(48) /\ kNot = Not(k, 48)
  BY <1>2, ScheduleNot
<1>4. at' = [at EXCEPT !.round = @ + 1, !.lr = lr, !.lrNot = lrNot, !.trail = trail]
  BY DEF OneRound
<1> HIDE DEF k, kNot
<1>5. at.lrNot = NotPair(at.lr)
  BY <1>1 DEF ComplementFollows, NotPair
<1>6. lr \in Pair /\ lrNot = NotPair(lr) /\ NotPair(lr) \in Pair
  BY <1>2, <1>3, <1>5, RoundNot
<1> HIDE DEF lr, lrNot
<1>7. trail \in Seq(Pair)
  BY <1>2, <1>6
<1> HIDE DEF trail
<1>13. at.round \in 0 .. 15
  BY <1>2
<1>8. at.round + 1 \in 0 .. 16
  BY <1>13
<1>9. /\ at' \in RoundsState /\ at'.round = at.round + 1 /\ at'.lr = lr /\ at'.lrNot = lrNot
      /\ at'.trail = trail /\ at'.decrypt = at.decrypt /\ at'.key = at.key
  BY <1>1, <1>4, <1>6, <1>7, <1>8 DEF RoundsState
<1>10. ComplementFollows'
  BY <1>6, <1>9 DEF ComplementFollows, NotPair
<1>11. CASE ~ at.decrypt
  <2>1. /\ trail = Append(at.trail, lr) /\ Len(at.trail) = at.round + 1
        /\ at.lr = at.trail[at.round + 1]
    BY <1>1, <1>11 DEF trail, OnTrail
  <2>7. k = Forth(at.key, at.round)
    <3>1. at.decrypt = FALSE
      BY <1>2, <1>11
    <3> QED
      BY <3>1 DEF k, Forth
  <2>8. at.round \in Nat /\ (at.round + 1) + 1 = at.round + 2 /\ (at.round + 1) - 1 = at.round
    <3>1. at.round \in Nat
      BY <1>2
    <3> QED
      BY <3>1
  <2>2. /\ Len(trail) = at.round + 2 /\ trail[at.round + 2] = lr
        /\ \A n \in 1 .. at.round + 1 : trail[n] = at.trail[n]
    <3>1. /\ Len(trail) = Len(at.trail) + 1 /\ trail[Len(at.trail) + 1] = lr
          /\ \A n \in 1 .. Len(at.trail) : trail[n] = at.trail[n]
      BY <1>2, <1>6, <2>1
    <3> QED
      BY <2>1, <2>8, <3>1
  <2>3. lr = Net!Round(at.trail[at.round + 1], Forth(at.key, at.round))
    BY <2>1, <2>7 DEF lr
  <2>4. ASSUME NEW n \in 1 .. at.round + 1
        PROVE  trail[n + 1] = Net!Round(trail[n], Forth(at.key, n - 1))
    <3>1. CASE n = at.round + 1
      <4>1. n - 1 = at.round /\ n + 1 = at.round + 2
        BY <2>8, <3>1
      <4> QED
        BY <2>2, <2>3, <3>1, <4>1
    <3>2. CASE n # at.round + 1
      <4>1. n \in 1 .. Len(at.trail) - 1 /\ n + 1 \in 1 .. at.round + 1
        BY <1>2, <2>1, <3>2
      <4> QED
        BY <1>1, <2>2, <4>1 DEF OnTrail
    <3> QED
      BY <3>1, <3>2
  <2>5. Len(trail) - 1 = at.round + 1 /\ (at.round + 1) + 1 = at.round + 2
    BY <2>2, <2>8
  <2>6. OnTrail'
    BY <1>9, <1>11, <2>2, <2>4, <2>5 DEF OnTrail
  <2> QED
    BY <1>9, <1>10, <2>6 DEF WalkInv
<1>12. CASE at.decrypt
  <2>1. /\ trail = at.trail /\ Len(at.trail) = 17
        /\ at.lr = Crossed(at.trail[17 - at.round])
    BY <1>1, <1>12 DEF trail, OnTrail
  <2> DEFINE m == 16 - at.round
  <2>2. m \in 1 .. 16 /\ m + 1 = 17 - at.round /\ m = 17 - (at.round + 1) /\ m - 1 = 15 - at.round
    BY <1>13
  <2>3. at.trail[m + 1] = Net!Round(at.trail[m], Forth(at.key, m - 1))
    BY <1>1, <2>1, <2>2 DEF OnTrail
  <2>4. k = Forth(at.key, m - 1)
    <3>1. k = key_scheduler(at.key, TRUE, at.round)
      BY <1>2, <1>12 DEF k
    <3>2. key_scheduler(at.key, TRUE, at.round) = key_scheduler(at.key, FALSE, 15 - at.round)
      BY <1>13, ScheduleReverses
    <3> QED
      BY <2>2, <3>1, <3>2 DEF Forth
  <2>5. at.trail[m] \in Pair
    BY <1>2, <2>1, <2>2
  <2> HIDE DEF m
  <2>6. lr = Crossed(at.trail[m])
    BY <2>1, <2>2, <2>3, <2>4, <2>5, RoundBack DEF lr
  <2>7. OnTrail'
    BY <1>1, <1>9, <1>12, <2>1, <2>2, <2>6 DEF OnTrail
  <2> QED
    BY <1>9, <1>10, <2>7 DEF WalkInv
<1> QED
  BY <1>2, <1>11, <1>12

\* And the turn from the encryption to the decryption.
LEMMA TurnOK ==
  ASSUME WalkInv, Turn PROVE WalkInv'
<1>1. /\ at \in RoundsState /\ OnTrail /\ ComplementFollows /\ On("rounds")
      /\ at.round = 16 /\ ~ at.decrypt
  BY DEF Turn, WalkInv, On, SBoxState, BitState
<1>2. at.lr \in Pair /\ at.lrNot = NotPair(at.lr)
  BY <1>1 DEF RoundsState, ComplementFollows, NotPair
<1>3. Turned(at.lr) = Crossed(at.lr) /\ Turned(at.lrNot) = NotPair(Crossed(at.lr))
  BY <1>2, TurnedIs
<1>4. at' = [at EXCEPT !.decrypt = TRUE, !.round = 0, !.lr = Crossed(at.lr),
                       !.lrNot = NotPair(Crossed(at.lr))]
  BY <1>3 DEF Turn
<1>5. Crossed(at.lr) \in Pair /\ NotPair(Crossed(at.lr)) \in Pair
  BY <1>2 DEF Pair, Crossed, NotPair, Half, Not, Word
<1>10. at' = [of |-> "rounds", key |-> at.key, decrypt |-> TRUE, round |-> 0,
              lr |-> Crossed(at.lr), lrNot |-> NotPair(Crossed(at.lr)),
              trail |-> at.trail]
  BY <1>1, <1>4 DEF RoundsState
<1>6. /\ at' \in RoundsState /\ at'.decrypt = TRUE /\ at'.round = 0
      /\ at'.lr = Crossed(at.lr) /\ at'.lrNot = NotPair(Crossed(at.lr))
      /\ at'.trail = at.trail /\ at'.key = at.key
  BY <1>1, <1>5, <1>10 DEF RoundsState
<1>7. ComplementFollows'
  BY <1>6 DEF ComplementFollows, NotPair
<1>8. Len(at.trail) = 17 /\ at.lr = at.trail[17] /\ 17 - 0 = 17
  BY <1>1 DEF OnTrail
<1>9. OnTrail'
  BY <1>1, <1>6, <1>8 DEF OnTrail
<1> QED
  BY <1>6, <1>7, <1>9 DEF WalkInv

\* Every step of the walks keeps to the trail.
LEMMA WalkStep == WalkInv /\ [DesNext]_at => WalkInv'
<1> SUFFICES ASSUME WalkInv, [DesNext]_at PROVE WalkInv'
  OBVIOUS
<1>1. ASSUME OneRound PROVE WalkInv'
  BY <1>1, OneRoundOK
<1>2. ASSUME Turn PROVE WalkInv'
  BY <1>2, TurnOK
<1>3. ASSUME DesNext, at \in SBoxState \cup BitState PROVE WalkInv'
  BY <1>3, OthersStay DEF WalkInv, On, SBoxState, BitState
<1>4. ASSUME at \in RoundsState, (\E i \in 0 .. 5 : Flip(i)) \/ NextRound PROVE FALSE
  BY <1>4 DEF Flip, NextRound, On, RoundsState
<1>5. ASSUME UNCHANGED at PROVE WalkInv'
  BY <1>5 DEF WalkInv, On, OnTrail, ComplementFollows
<1> QED
  BY <1>1, <1>2, <1>3, <1>4, <1>5 DEF DesNext, WalkInv

\* So they always do.
LEMMA WalkHolds == DesSpec => []WalkInv
BY WalkInit, WalkStep, PTL DEF DesSpec

(***************************************************************************)
(* Whatever the block and the key, the decryption of the real cipher goes   *)
(* back through the halves of the encryption (f.v, key_scheduler.v, IP.v    *)
(* and IP_inv.v as feistel_algo.v joins them).                              *)
(***************************************************************************)
THEOREM AlwaysRetraces == DesSpec => []Retraces
<1>1. WalkInv => Retraces
  BY DEF WalkInv, OnTrail, Retraces, Crossed
<1> QED
  BY <1>1, WalkHolds, PTL

(***************************************************************************)
(* Whatever the block and the key, their complements have the complemented  *)
(* halves after every round: a wire of E.v, key_scheduler.v or IP.v that    *)
(* was in the place of another could at most exchange bits, and no bit of   *)
(* the half meets anything but a bit of the key.                            *)
(***************************************************************************)
THEOREM ComplementAlwaysFollows == DesSpec => []ComplementFollows
<1>1. WalkInv => ComplementFollows
  BY DEF WalkInv, ComplementFollows
<1> QED
  BY <1>1, WalkHolds, PTL

-----------------------------------------------------------------------------
(* The spread of the boxes over the next round. *)

\* The first and the last input of S.v that a bit of its output comes back to, and
\* the boxes that read them.
FirstInput == <<16, 26, 8, 40, 38, 15, 29, 1, 20, 32, 4, 41, 44, 10, 27, 35,
                0, 33, 17, 9, 39, 3, 23, 11, 21, 45, 5, 28, 2, 14, 22, 34>>
LastInput == <<18, 26, 8, 42, 38, 15, 31, 47, 20, 32, 6, 43, 44, 12, 27, 37,
               46, 33, 19, 9, 39, 3, 25, 13, 21, 45, 7, 30, 2, 14, 24, 36>>
FirstBox == <<5, 3, 6, 1, 1, 5, 3, 7, 4, 2, 7, 1, 0, 6, 3, 2,
              7, 2, 5, 6, 1, 7, 4, 6, 4, 0, 7, 3, 7, 5, 4, 2>>
LastBox == <<4, 3, 6, 0, 1, 5, 2, 0, 4, 2, 6, 0, 0, 5, 3, 1,
             0, 2, 4, 6, 1, 7, 3, 5, 4, 0, 6, 2, 7, 5, 3, 1>>

\* The input i of S.v comes, through P.v and E.v, from the bit From(i).
From(i) == PTable[ETable[i + 1] + 1]

\* The box is the quotient.
LEMMA BoxIs ==
  ASSUME NEW i \in 0 .. 47, NEW q \in 0 .. 7, 47 - i - 6 * q \in 0 .. 5
  PROVE  BoxOf(i) = q
<1>1. PICK r \in 0 .. 6 - 1 : r = 47 - i - 6 * q
  OBVIOUS
<1>2. 47 - i = 6 * q + r /\ 47 - i \in Int /\ 6 \in Nat \ {0} /\ q \in Int
  BY <1>1
<1> QED
  BY <1>2, DivModUnique DEF BoxOf

\* Two inputs of S.v at most come from a bit, and the tables have them.
LEMMA InputsFrom ==
  /\ \A j \in 0 .. 31 : /\ FirstInput[j + 1] \in 0 .. 47 /\ LastInput[j + 1] \in 0 .. 47
                        /\ From(FirstInput[j + 1]) = j /\ From(LastInput[j + 1]) = j
  /\ \A i \in 0 .. 47 : /\ From(i) \in 0 .. 31 /\ ETable[i + 1] \in 0 .. 31
                        /\ i = FirstInput[From(i) + 1] \/ i = LastInput[From(i) + 1]
<1>1. \A j \in 0 .. 31 : FirstInput[j + 1] \in 0 .. 47 /\ From(FirstInput[j + 1]) = j
  BY DEF FirstInput, From, PTable, ETable
<1>2. \A j \in 0 .. 31 : LastInput[j + 1] \in 0 .. 47 /\ From(LastInput[j + 1]) = j
  BY DEF LastInput, From, PTable, ETable
<1>3. \A i \in 0 .. 47 : /\ From(i) \in 0 .. 31 /\ ETable[i + 1] \in 0 .. 31
                         /\ i = FirstInput[From(i) + 1] \/ i = LastInput[From(i) + 1]
  BY DEF FirstInput, LastInput, From, PTable, ETable
<1> QED
  BY <1>1, <1>2, <1>3

\* The boxes of those inputs.
LEMMA BoxesOfInputs ==
  \A j \in 0 .. 31 : /\ FirstBox[j + 1] \in 0 .. 7 /\ LastBox[j + 1] \in 0 .. 7
                     /\ BoxOf(FirstInput[j + 1]) = FirstBox[j + 1]
                     /\ BoxOf(LastInput[j + 1]) = LastBox[j + 1]
<1>1. \A j \in 0 .. 31 : /\ FirstBox[j + 1] \in 0 .. 7
                         /\ 47 - FirstInput[j + 1] - 6 * FirstBox[j + 1] \in 0 .. 5
  BY DEF FirstInput, FirstBox
<1>2. \A j \in 0 .. 31 : /\ LastBox[j + 1] \in 0 .. 7
                         /\ 47 - LastInput[j + 1] - 6 * LastBox[j + 1] \in 0 .. 5
  BY DEF LastInput, LastBox
<1> QED
  BY <1>1, <1>2, InputsFrom, BoxIs

\* The boxes that a bit reaches.
LEMMA ReachesAre ==
  ASSUME NEW j \in 0 .. 31
  PROVE  Reaches(j) = {FirstBox[j + 1], LastBox[j + 1]}
<1> DEFINE In == E(Wire(PTable, {j}))
<1>1. \A i \in 0 .. 47 : i \in In <=> From(i) = j
  <2> TAKE i \in 0 .. 47
  <2>1. ETable[i + 1] \in 0 .. 31 /\ Len(PTable) = 32 /\ Len(ETable) = 48
    BY InputsFrom, TablesWithin DEF Within
  <2>2. ETable[i + 1] \in Wire(PTable, {j}) <=> From(i) = j
    BY <2>1 DEF Wire, From
  <2> QED
    BY <2>1, <2>2 DEF E, Wire
<1>2. In \subseteq 0 .. 47
  <2>1. Len(ETable) = 48
    BY TablesWithin DEF Within
  <2> QED
    BY <2>1 DEF E, Wire
<1>3. In = {FirstInput[j + 1], LastInput[j + 1]}
  <2> HIDE DEF In
  <2>1. ASSUME NEW i \in In PROVE i \in {FirstInput[j + 1], LastInput[j + 1]}
    <3>1. i \in 0 .. 47 /\ From(i) = j
      BY <1>1, <1>2
    <3>2. i = FirstInput[From(i) + 1] \/ i = LastInput[From(i) + 1]
      BY <3>1, InputsFrom
    <3> QED
      BY <3>1, <3>2
  <2>2. FirstInput[j + 1] \in In /\ LastInput[j + 1] \in In
    BY <1>1, InputsFrom
  <2> QED
    BY <2>1, <2>2
<1>4. Reaches(j) = {BoxOf(i) : i \in In}
  BY DEF Reaches
<1> HIDE DEF In
<1> QED
  BY <1>3, <1>4, BoxesOfInputs

\* The two transcriptions of the expansion are one, for every half and key.
LEMMA ExpansionsSame ==
  ASSUME NEW half, NEW key \in Word(48)
  PROVE  E_xor(half, key) = Xor(E(half), key)
<1>1. EXorTable = ETable
  BY DEF EXorTable, ETable
<1>2. Len(ETable) = 48
  BY TablesWithin DEF Within
<1>3. \A j : j \in E(half) <=> j \in 0 .. 47 /\ ETable[j + 1] \in half
  BY <1>2 DEF E, Wire
<1>4. \A j : j \in E_xor(half, key) <=> j \in 0 .. 47 /\ (ETable[j + 1] \in half) # (j \in key)
  BY <1>1 DEF E_xor
<1>5. \A j : j \in key => j \in 0 .. 47
  BY DEF Word
<1> QED
  BY <1>3, <1>4, <1>5 DEF Xor

\* The sizes of small sets.
LEMMA SmallSets ==
  /\ \A a, b : Cardinality({a, b}) = IF a = b THEN 1 ELSE 2
  /\ \A a, b \in 0 .. 7 : a # b => Cardinality(0 .. 7 \ {a, b}) = 6
<1>1. ASSUME NEW a, NEW b PROVE Cardinality({a, b}) = IF a = b THEN 1 ELSE 2
  <2>1. IsFiniteSet({a}) /\ Cardinality({a}) = 1
    BY FS_Singleton
  <2>2. Cardinality({a} \cup {b}) = IF b \in {a} THEN 1 ELSE 1 + 1
    BY <2>1, FS_AddElement
  <2>3. {a} \cup {b} = {a, b}
    OBVIOUS
  <2> QED
    BY <2>2, <2>3
<1>2. ASSUME NEW a \in 0 .. 7, NEW b \in 0 .. 7, a # b
      PROVE  Cardinality(0 .. 7 \ {a, b}) = 6
  <2>1. IsFiniteSet(0 .. 7) /\ Cardinality(0 .. 7) = 8
    <3>1. 0 \in Int /\ 7 \in Int /\ ~ (0 > 7) /\ 7 - 0 + 1 = 8
      OBVIOUS
    <3>2. /\ IsFiniteSet(0 .. 7)
          /\ Cardinality(0 .. 7) = IF 0 > 7 THEN 0 ELSE 7 - 0 + 1
      BY <3>1, FS_Interval
    <3> QED
      BY <3>1, <3>2
  <2>2. IsFiniteSet(0 .. 7 \ {a}) /\ Cardinality(0 .. 7 \ {a}) = 7
    BY <2>1, FS_RemoveElement
  <2>3. Cardinality((0 .. 7 \ {a}) \ {b}) = 6
    BY <1>2, <2>2, FS_RemoveElement
  <2>4. (0 .. 7 \ {a}) \ {b} = 0 .. 7 \ {a, b}
    OBVIOUS
  <2> QED
    BY <2>3, <2>4
<1> QED
  BY <1>1, <1>2

\* What each box leaves out besides itself, and the two of its bits that reach two
\* boxes.
LeavesOut == <<2, 4, 3, 7, 1, 0, 5, 6>>
OneDouble == <<0, 6, 10, 13, 16, 22, 26, 30>>
OtherDouble == <<3, 7, 11, 15, 18, 23, 27, 31>>

\* The bits of a box.
LEMMA BitsOf ==
  ASSUME NEW m \in 0 .. 7
  PROVE  /\ 4 * m .. 4 * m + 3 = {4 * m, 4 * m + 1, 4 * m + 2, 4 * m + 3}
         /\ 4 * m .. 4 * m + 3 \subseteq 0 .. 31
OBVIOUS

\* One box by the tables.
LEMMA OneBox ==
  ASSUME NEW m \in 0 .. 7
  PROVE  LET box == 4 * m .. 4 * m + 3
         IN  /\ UNION {{FirstBox[j + 1], LastBox[j + 1]} : j \in box}
                  = 0 .. 7 \ {7 - m, LeavesOut[m + 1]}
             /\ {j \in box : FirstBox[j + 1] # LastBox[j + 1]}
                  = {OneDouble[m + 1], OtherDouble[m + 1]}
             /\ LeavesOut[m + 1] \in 0 .. 7 /\ LeavesOut[m + 1] # 7 - m
             /\ OneDouble[m + 1] # OtherDouble[m + 1]
<1> DEFINE box == 4 * m .. 4 * m + 3
           B(j) == {FirstBox[j + 1], LastBox[j + 1]}
<1>1. box = {4 * m, 4 * m + 1, 4 * m + 2, 4 * m + 3}
  BY BitsOf
<1>2. UNION {B(j) : j \in box} = B(4 * m) \cup B(4 * m + 1) \cup B(4 * m + 2) \cup B(4 * m + 3)
  BY <1>1
<1>3. /\ B(4 * m) \cup B(4 * m + 1) \cup B(4 * m + 2) \cup B(4 * m + 3)
           = 0 .. 7 \ {7 - m, LeavesOut[m + 1]}
  BY DEF FirstBox, LastBox, LeavesOut
<1>4. LeavesOut[m + 1] \in 0 .. 7 /\ LeavesOut[m + 1] # 7 - m
  BY DEF LeavesOut
<1>5. {j \in box : FirstBox[j + 1] # LastBox[j + 1]}
                 = {OneDouble[m + 1], OtherDouble[m + 1]}
  BY <1>1 DEF FirstBox, LastBox, OneDouble, OtherDouble
<1>6. OneDouble[m + 1] # OtherDouble[m + 1]
  BY DEF OneDouble, OtherDouble
<1> QED
  BY <1>2, <1>3, <1>4, <1>5, <1>6

\* P.v and E.v spread every box as the criteria ask.
LEMMA BoxIsSpread ==
  ASSUME NEW m \in 0 .. 7
  PROVE  LET box == 4 * m .. 4 * m + 3
         IN  /\ Cardinality(UNION {Reaches(j) : j \in box}) = 6
             /\ \A j \in box : 7 - m \notin Reaches(j)
             /\ Cardinality({j \in box : Cardinality(Reaches(j)) = 2}) = 2
<1> DEFINE box == 4 * m .. 4 * m + 3
           other == LeavesOut[m + 1]
<1>1. \A j \in box : j \in 0 .. 31 /\ Reaches(j) = {FirstBox[j + 1], LastBox[j + 1]}
  BY BitsOf, ReachesAre
<1>2. /\ UNION {{FirstBox[j + 1], LastBox[j + 1]} : j \in box} = 0 .. 7 \ {7 - m, other}
      /\ other \in 0 .. 7 /\ other # 7 - m
  BY OneBox
<1>3. 7 - m \in 0 .. 7
  OBVIOUS
<1>4. /\ {j \in box : FirstBox[j + 1] # LastBox[j + 1]}
           = {OneDouble[m + 1], OtherDouble[m + 1]}
      /\ OneDouble[m + 1] # OtherDouble[m + 1]
  BY OneBox
<1> HIDE DEF box, other
<1>5. UNION {Reaches(j) : j \in box} = 0 .. 7 \ {7 - m, other}
  BY <1>1, <1>2
<1>6. Cardinality(UNION {Reaches(j) : j \in box}) = 6
  BY <1>2, <1>5, <1>3, SmallSets
<1>7. \A j \in box : 7 - m \notin Reaches(j)
  BY <1>5
<1>8. \A j \in box : Cardinality(Reaches(j)) = 2 <=> FirstBox[j + 1] # LastBox[j + 1]
  <2> TAKE j \in box
  <2>1. Cardinality({FirstBox[j + 1], LastBox[j + 1]})
          = IF FirstBox[j + 1] = LastBox[j + 1] THEN 1 ELSE 2
    BY SmallSets
  <2> QED
    BY <1>1, <2>1
<1>9. {j \in box : Cardinality(Reaches(j)) = 2} = {OneDouble[m + 1], OtherDouble[m + 1]}
  BY <1>4, <1>8
<1>10. Cardinality({j \in box : Cardinality(Reaches(j)) = 2}) = 2
  <2>1. Cardinality({OneDouble[m + 1], OtherDouble[m + 1]})
          = IF OneDouble[m + 1] = OtherDouble[m + 1] THEN 1 ELSE 2
    BY SmallSets
  <2> QED
    BY <1>4, <1>9, <2>1
<1> QED
  BY <1>6, <1>7, <1>10 DEF box

(***************************************************************************)
(* The wirings agree with one another (key_scheduler.v, PC1.v, PC2.v, IP.v, *)
(* IP_inv.v, P.v, E.v and S.v): the key schedule by ScheduleReverses and    *)
(* ScheduleIsPC, the ends by IPUndone, the expansions by ExpansionsSame, the *)
(* spread by BoxIsSpread.                                                   *)
(***************************************************************************)
THEOREM WiringsAlwaysAgree == DesSpec => []WiringsAgree
<1>1. ASSUME WalkInv, InRound
      PROVE  at.bit \in 0 .. 63 /\ at.round \in 0 .. 15 /\ at.decrypt \in BOOLEAN
  <2>1. at \in BitState /\ at.round < 16
    BY <1>1 DEF WalkInv, InRound, On, SBoxState, RoundsState
  <2>2. at.bit \in 0 .. 63 /\ at.round \in 0 .. 16 /\ at.decrypt \in BOOLEAN
    BY <2>1 DEF BitState
  <2> QED
    BY <2>1, <2>2
<1>2. WalkInv => DecryptReverses
  BY <1>1, ScheduleReverses DEF DecryptReverses, K_out
<1>3. WalkInv => AgreesWithPC
  BY <1>1, ScheduleIsPC DEF AgreesWithPC, K_out
<1>4. ASSUME WalkInv, On("bit") PROVE at.bit \in 0 .. 63
  BY <1>4 DEF WalkInv, On, SBoxState, RoundsState, BitState
<1>5. ASSUME WalkInv, On("bit")
      PROVE  /\ IP_inv(IP({at.bit})) = {at.bit}
             /\ IP(IP_inv(IP({at.bit}))) = IP({at.bit})
  <2>1. {at.bit} \in Word(64)
    BY <1>4, <1>5 DEF Word
  <2> QED
    BY <2>1, IPUndone
<1>6. WalkInv => IPInverts
  BY <1>5 DEF IPInverts
<1>7. ASSUME WalkInv, On("bit"), at.bit < 32
      PROVE  at.bit \div 4 \in 0 .. 7
  <2>1. at.bit \in 0 .. 31
    BY <1>4, <1>7
  <2> QED
    BY <2>1
<1>8. WalkInv => BoxesSpread
  BY <1>7, BoxIsSpread DEF BoxesSpread
<1>9. WalkInv => ExpansionsAgree
  <2>1. {at.bit} \cap (0 .. 47) \in Word(48)
    BY DEF Word
  <2> QED
    BY <2>1, ExpansionsSame DEF ExpansionsAgree
<1>10. WalkInv => WiringsAgree
  BY <1>2, <1>3, <1>6, <1>8, <1>9 DEF WiringsAgree
<1> QED
  BY <1>10, WalkHolds, PTL

-----------------------------------------------------------------------------
(* From end to end. *)

\* The network of the sixteen rounds, and the round keys of a direction.
Cipher == INSTANCE NetworkProofs WITH Rounds <- 16, Split <- IP, Join <- IP_inv, F <- f

RoundKeys(key, d) == [n \in 0 .. 15 |-> key_scheduler(key, d, n)]

(***************************************************************************)
(* DES with the decrypt port the other way gives back every block, for every *)
(* key and from either direction (feistel_algo.v, lines 30-45 and 95-123).   *)
(***************************************************************************)
THEOREM DESUndone ==
  ASSUME NEW b \in Word(64), NEW key, NEW d \in BOOLEAN
  PROVE  Cipher!Crypt(Cipher!Crypt(b, RoundKeys(key, d)), RoundKeys(key, ~ d)) = b
<1> DEFINE rk == RoundKeys(key, d)
           kr == RoundKeys(key, ~ d)
<1>1. \A k \in 0 .. 16 - 1 : rk[k] \in Word(48) /\ kr[k] = rk[16 - 1 - k]
  <2> TAKE k \in 0 .. 16 - 1
  <2>1. k \in 0 .. 15 /\ 15 - k \in 0 .. 15 /\ 15 - (15 - k) = k
    OBVIOUS
  <2>2. rk[k] = key_scheduler(key, d, k) /\ rk[15 - k] = key_scheduler(key, d, 15 - k)
    BY <2>1 DEF RoundKeys
  <2>3. kr[k] = key_scheduler(key, ~ d, k)
    BY <2>1 DEF RoundKeys
  <2>4. key_scheduler(key, ~ d, k) = key_scheduler(key, d, 15 - k)
    BY <2>1, ScheduleReverses DEF key_scheduler
  <2>5. key_scheduler(key, d, k) \in Word(48)
    BY <2>1, ScheduleNot
  <2>6. 16 - 1 - k = 15 - k
    BY <2>1
  <2> QED
    BY <2>2, <2>3, <2>4, <2>5, <2>6
<1> HIDE DEF rk, kr
<1>2. IP(b) \in Half \X Half /\ IP_inv(IP(b)) = b
  BY IPType, IPUndone DEF Half
<1>3. \A l, r \in Half : IP(IP_inv(<<l, r>>)) = <<l, r>>
  BY IPUndone DEF Half
<1>4. \A l, r \in Half, k \in 0 .. 16 - 1 : Cipher!Xor(l, f(r, rk[k])) \in Half
  <2> TAKE l, r \in Half, k \in 0 .. 16 - 1
  <2>1. f(r, rk[k]) \in Word(32)
    BY <1>1, FNot DEF Half
  <2>2. Xor(l, f(r, rk[k])) \in Word(32)
    BY <2>1, XorNots DEF Half
  <2> QED
    BY <2>2 DEF Half, Cipher!Xor, Xor
<1>5. 16 \in Nat \ {0}
  OBVIOUS
<1> QED
  BY <1>1, <1>2, <1>3, <1>4, <1>5, Cipher!CryptUndone DEF rk, kr

-----------------------------------------------------------------------------
(* The flushing of a region. *)

\* A multiple grows with what is multiplied, and only with it.
LEMMA MultiplesGrow ==
  ASSUME NEW b \in Nat \ {0}, NEW m \in Int, NEW n \in Int
  PROVE  b * m < b * n <=> m < n
<1>1. ASSUME m < n PROVE b * m < b * n
  <2>1. PICK d \in Nat \ {0} : n = m + d
    <3>1. n - m \in Nat \ {0} /\ n = m + (n - m)
      BY <1>1
    <3> QED
      BY <3>1
  <2>2. b * n = b * m + b * d /\ b * d > 0
    BY <2>1
  <2> QED
    BY <2>2
<1>2. ASSUME n <= m PROVE b * n <= b * m
  <2>1. PICK d \in Nat : m = n + d
    <3>1. m - n \in Nat /\ m = n + (m - n)
      BY <1>2
    <3> QED
      BY <3>1
  <2>2. b * m = b * n + b * d /\ b * d >= 0
    BY <2>1
  <2> QED
    BY <2>2
<1> QED
  BY <1>1, <1>2

\* A number in parts: so many times the divisor, and the rest.
LEMMA Parts ==
  ASSUME NEW a \in Int, NEW b \in Nat \ {0}
  PROVE  \E q \in Int, r \in 0 .. b - 1 : q = a \div b /\ r = a % b /\ a = b * q + r
<1>1. PICK q \in Int : q = a \div b
  BY DivMod
<1>2. PICK r \in 0 .. b - 1 : r = a % b
  BY DivMod
<1>3. a = b * q + r
  BY <1>1, <1>2, DivMod
<1> QED
  BY <1>1, <1>2, <1>3

\* Numbers that differ by a multiple leave the same remainder.
LEMMA SameRest ==
  ASSUME NEW b \in Nat \ {0}, NEW x \in Int, NEW y \in Int, NEW w \in Int, y = x + b * w
  PROVE  x % b = y % b
<1>1. PICK u \in Int, z \in 0 .. b - 1 : u = x \div b /\ z = x % b /\ x = b * u + z
  BY Parts
<1>2. b * (u + w) = b * u + b * w
  OBVIOUS
<1>3. y = b * (u + w) + z /\ u + w \in Int
  BY <1>1, <1>2
<1>4. y % b = z
  BY <1>3, DivModUnique
<1> QED
  BY <1>1, <1>4

\* The line of an address that is some lines further.
LEMMA LineAfter ==
  ASSUME NEW s \in Nat, NEW j \in Nat
  PROVE  LineOf(s) \in Nat /\ LineOf(s + LINE_SIZE * j) = LineOf(s) + j
<1>1. PICK b \in Nat \ {0} : b = LINE_SIZE
  BY LoopsAssumption
<1>2. PICK q \in Int, r \in 0 .. b - 1 : q = s \div b /\ r = s % b /\ s = b * q + r
  BY Parts
<1>3. b * (-1) < b * q
  BY <1>2
<1>4. q \in Nat
  BY <1>2, <1>3, MultiplesGrow
<1>5. s + b * j = b * (q + j) + r /\ s + b * j \in Int /\ q + j \in Int
  BY <1>2, <1>4
<1>6. (s + b * j) \div b = q + j
  BY <1>5, DivModUnique
<1> QED
  BY <1>1, <1>2, <1>4, <1>6 DEF LineOf

\* An address m lines and less than one more after s is in the line that is m
\* lines after that of s, or in the next if s is not at the start of a line.
LEMMA LineWithin ==
  ASSUME NEW s \in Nat, NEW m \in Nat, NEW t \in 0 .. LINE_SIZE - 1,
         NEW a, a = s + LINE_SIZE * m + t
  PROVE  \/ LineOf(a) = LineOf(s) + m
         \/ LineOf(a) = LineOf(s) + m + 1 /\ s % LINE_SIZE # 0
<1>1. PICK b \in Nat \ {0} : b = LINE_SIZE
  BY LoopsAssumption
<1>2. PICK q \in Int, r \in 0 .. b - 1 : q = s \div b /\ r = s % b /\ s = b * q + r
  BY Parts
<1>3. t \in 0 .. b - 1
  BY <1>1
<1>4. a \in Int /\ a = b * (q + m) + (r + t) /\ q + m \in Int
  BY <1>1, <1>2, <1>3
<1>5. CASE r + t < b
  <2>1. r + t \in 0 .. b - 1
    BY <1>2, <1>3, <1>5
  <2>2. a \div b = q + m
    BY <1>4, <2>1, DivModUnique
  <2> QED
    BY <1>1, <1>2, <2>2 DEF LineOf
<1>6. CASE r + t >= b
  <2>1. r + t - b \in 0 .. b - 1 /\ r # 0
    BY <1>2, <1>3, <1>6
  <2>2. b * (q + m + 1) = b * (q + m) + b
    OBVIOUS
  <2>3. a = b * (q + m + 1) + (r + t - b) /\ q + m + 1 \in Int
    BY <1>3, <1>4, <2>2
  <2>4. a \div b = q + m + 1
    BY <1>4, <2>1, <2>3, DivModUnique
  <2> QED
    BY <1>1, <1>2, <2>1, <2>4 DEF LineOf
<1> QED
  BY <1>2, <1>3, <1>5, <1>6

\* Among as many lines that follow one another as a cache has, one has the place
\* of any line.
LEMMA PlaceAmong ==
  ASSUME NEW q \in Nat, NEW x \in Nat, NEW N, N = CACHE_SIZE \div LINE_SIZE
  PROVE  /\ N \in Nat \ {0} /\ LINE_SIZE * N = CACHE_SIZE
         /\ \E j \in 0 .. N - 1 : Place(q + j) = Place(x)
<1>1. PICK b \in Nat \ {0} : b = LINE_SIZE
  BY LoopsAssumption
<1>2. CACHE_SIZE \in Nat \ {0} /\ CACHE_SIZE % b = 0
  BY <1>1, LoopsAssumption
<1>3. N \in Int /\ CACHE_SIZE = b * N + 0
  BY <1>1, <1>2, DivMod
<1>4. b * 0 < b * N
  BY <1>2, <1>3
<1>5. N \in Nat \ {0}
  BY <1>3, <1>4, MultiplesGrow
<1>6. PICK w \in Int, j \in 0 .. N - 1 : w = (x - q) \div N /\ j = (x - q) % N
                                         /\ x - q = N * w + j
  <2>1. x - q \in Int
    OBVIOUS
  <2> QED
    BY <1>5, <2>1, Parts
<1>7. q + j \in Int /\ x = (q + j) + N * w
  <2>1. PICK n \in Int : n = N * w
    BY <1>5
  <2>2. x - q = n + j /\ j \in Int
    BY <1>5, <1>6, <2>1
  <2>3. q + j \in Int /\ x = (q + j) + n
    BY <2>2
  <2> QED
    BY <2>1, <2>3
<1>8. (q + j) % N = x % N
  BY <1>5, <1>6, <1>7, SameRest
<1> QED
  BY <1>1, <1>3, <1>5, <1>6, <1>8 DEF Place

FlushState == [of : {"flush"}, start : Nat, len : Nat, by : {"address", "index"}, i : Nat,
               end : Nat, flushed : SUBSET Nat, ended : BOOLEAN]

\* Line after line from the start has been flushed.
FlushTrail ==
  /\ at.end = at.start + IF at.by = "index" THEN Trimmed(at.len) ELSE at.len
  /\ \E k \in Nat : /\ at.i = at.start + LINE_SIZE * k
                    /\ \A j \in 0 .. k - 1 : LineOf(at.start + LINE_SIZE * j) \in at.flushed
  /\ at.ended => /\ at.i >= at.end
                 /\ at.start % LINE_SIZE # 0 => LineOf(at.i) \in at.flushed

\* Then nothing of the region is left.
LEMMA AllFlushed ==
  ASSUME at \in FlushState, FlushTrail PROVE FlushesAll
<1> SUFFICES ASSUME at.ended, NEW a \in at.start .. at.start + at.len - 1
             PROVE  IF at.by = "address" THEN LineOf(a) \in at.flushed
                    ELSE \E l \in at.flushed : Place(l) = Place(LineOf(a))
  BY DEF FlushesAll
<1>1. PICK b \in Nat \ {0} : b = LINE_SIZE
  BY LoopsAssumption
<1>2. PICK s \in Nat : s = at.start
  BY DEF FlushState
<1>3. PICK q \in Nat : q = LineOf(s)
  <2>1. 0 \in Nat
    OBVIOUS
  <2> QED
    BY <2>1, LineAfter
<1>4. PICK k \in Nat : at.i = s + b * k /\ \A j \in 0 .. k - 1 : LineOf(s + b * j) \in at.flushed
  BY <1>1, <1>2 DEF FlushTrail
<1>5. /\ \A j \in Nat : j < k => q + j \in at.flushed
      /\ s % b # 0 => q + k \in at.flushed
  <2>1. ASSUME NEW j \in Nat, j < k PROVE q + j \in at.flushed
    <3>1. j \in 0 .. k - 1
      BY <2>1
    <3> QED
      BY <1>1, <1>3, <1>4, <3>1, LineAfter
  <2>2. LineOf(at.i) = q + k
    BY <1>1, <1>3, <1>4, LineAfter
  <2> QED
    BY <1>1, <1>2, <2>1, <2>2 DEF FlushTrail
<1>6. a \in Nat /\ a - s \in Int /\ s <= a /\ a < s + at.len /\ at.len \in Nat
  BY <1>2 DEF FlushState
<1>7. PICK m \in Int, t \in 0 .. b - 1 : a - s = b * m + t
  BY <1>6, DivMod
<1>8. m \in Nat
  <2>1. b * (-1) < b * m
    BY <1>6, <1>7
  <2> QED
    BY <1>7, <2>1, MultiplesGrow
<1>9. \/ LineOf(a) = q + m
      \/ LineOf(a) = q + m + 1 /\ s % b # 0
  <2>1. a = s + LINE_SIZE * m + t
    BY <1>1, <1>6, <1>7, <1>8
  <2>2. t \in 0 .. LINE_SIZE - 1
    BY <1>1, <1>7
  <2>3. \/ LineOf(a) = LineOf(s) + m
        \/ LineOf(a) = LineOf(s) + m + 1 /\ s % LINE_SIZE # 0
    BY <1>8, <2>1, <2>2, LineWithin
  <2> QED
    BY <1>1, <1>3, <2>3
<1>10. CASE at.end = s + at.len
  <2>1. b * m < b * k
    <3>1. a < s + b * k
      BY <1>2, <1>4, <1>6, <1>10 DEF FlushTrail
    <3> QED
      BY <1>6, <1>7, <1>8, <3>1
  <2>2. m < k
    BY <1>8, <2>1, MultiplesGrow
  <2>3. LineOf(a) \in at.flushed
    <3>1. q + m \in at.flushed
      BY <1>5, <1>8, <2>2
    <3>2. m + 1 < k => q + m + 1 \in at.flushed
      <4>1. m + 1 \in Nat /\ q + (m + 1) = q + m + 1
        BY <1>8
      <4> QED
        BY <1>5, <4>1
    <3>3. m + 1 >= k => m + 1 = k /\ q + k = q + m + 1
      BY <1>8, <2>2
    <3> QED
      BY <1>5, <1>9, <3>1, <3>2, <3>3
  <2> QED
    BY <2>3
<1>11. CASE at.end # s + at.len
  <2>1. at.by = "index" /\ at.end = s + CACHE_SIZE
    BY <1>2, <1>11 DEF FlushTrail, Trimmed
  <2>2. LineOf(a) \in Nat
    BY <1>3, <1>8, <1>9
  <2>3. PICK N \in Nat \ {0} :
          b * N = CACHE_SIZE /\ \E j \in 0 .. N - 1 : Place(q + j) = Place(LineOf(a))
    BY <1>1, <2>2, PlaceAmong
  <2>4. PICK j \in 0 .. N - 1 : Place(q + j) = Place(LineOf(a))
    BY <2>3
  <2>5. ~ (b * k < b * N)
    BY <1>2, <1>4, <2>1, <2>3 DEF FlushTrail
  <2>6. N <= k
    BY <2>5, MultiplesGrow
  <2>7. q + j \in at.flushed
    <3>1. j \in Nat /\ j < k
      BY <2>6
    <3> QED
      BY <1>5, <3>1
  <2> QED
    BY <2>1, <2>4, <2>7
<1> QED
  BY <1>10, <1>11

\* A flush begins with no line, and goes on line by line.
LEMMA FlushOK ==
  /\ FlushInit => at \in FlushState /\ FlushTrail
  /\ at \in FlushState /\ FlushTrail /\ FlushLine => (at \in FlushState /\ FlushTrail)'
<1>1. ASSUME FlushInit PROVE at \in FlushState /\ FlushTrail
  <2>1. PICK start \in Starts, len \in Lens, by \in {"address", "index"} :
          at = [of |-> "flush", start |-> start, len |-> len, by |-> by, i |-> start,
                end |-> start + (IF by = "index" THEN Trimmed(len) ELSE len),
                flushed |-> {}, ended |-> FALSE]
    BY <1>1 DEF FlushInit
  <2>2. start \in Nat /\ len \in Nat /\ Trimmed(len) \in Nat
    BY LoopsAssumption DEF Trimmed
  <2>3. at \in FlushState
    BY <2>1, <2>2 DEF FlushState
  <2>4. start = start + LINE_SIZE * 0 /\ 0 \in Nat /\ 0 .. 0 - 1 = {}
    BY <2>2, LoopsAssumption
  <2>5. FlushTrail
    BY <2>1, <2>4 DEF FlushTrail
  <2> QED
    BY <2>3, <2>5
<1>2. ASSUME at \in FlushState, FlushTrail, FlushLine
      PROVE  (at \in FlushState /\ FlushTrail)'
  <2>1. PICK b \in Nat \ {0} : b = LINE_SIZE
    BY LoopsAssumption
  <2>2. PICK k \in Nat : at.i = at.start + b * k
                         /\ \A j \in 0 .. k - 1 : LineOf(at.start + b * j) \in at.flushed
    BY <1>2, <2>1 DEF FlushTrail
  <2>3. at.start \in Nat /\ at.i \in Nat /\ LineOf(at.i) \in Nat
    <3>1. at.start \in Nat /\ at.i \in Nat /\ 0 \in Nat
      BY <1>2 DEF FlushState
    <3> QED
      BY <3>1, LineAfter
  <2>4. CASE at.i < at.end
    <3>1. at' = [at EXCEPT !.flushed = @ \cup {LineOf(at.i)}, !.i = @ + b]
      BY <1>2, <2>1, <2>3, <2>4 DEF FlushLine, FlushState
    <3>2. at.i + b \in Nat /\ at.flushed \cup {LineOf(at.i)} \in SUBSET Nat
      BY <1>2, <2>3 DEF FlushState
    <3>3. at' \in FlushState
      BY <1>2, <3>1, <3>2 DEF FlushState
    <3>4. /\ at'.start = at.start /\ at'.len = at.len /\ at'.by = at.by /\ at'.end = at.end
          /\ at'.ended = at.ended /\ at'.i = at.i + b
          /\ at'.flushed = at.flushed \cup {LineOf(at.i)}
      BY <1>2, <3>1 DEF FlushState
    <3>5. ~ at'.ended
      BY <1>2, <3>4 DEF FlushLine
    <3>6. k + 1 \in Nat /\ at'.i = at.start + b * (k + 1)
      BY <2>2, <2>3, <3>4
    <3>7. ASSUME NEW j \in 0 .. k + 1 - 1 PROVE LineOf(at.start + b * j) \in at'.flushed
      <4>1. j \in 0 .. k - 1 \/ j = k
        OBVIOUS
      <4> QED
        BY <2>2, <3>4, <4>1
    <3>8. \E n \in Nat : /\ at'.i = at'.start + LINE_SIZE * n
                         /\ \A j \in 0 .. n - 1 :
                              LineOf(at'.start + LINE_SIZE * j) \in at'.flushed
      <4> WITNESS k + 1 \in Nat
      <4> QED
        BY <2>1, <3>4, <3>6, <3>7
    <3>9. FlushTrail'
      BY <1>2, <3>4, <3>5, <3>8 DEF FlushTrail
    <3> QED
      BY <3>3, <3>9
  <2>5. CASE at.i >= at.end
    <3> DEFINE more == IF at.start % LINE_SIZE = 0 THEN {} ELSE {LineOf(at.i)}
    <3>1. at' = [at EXCEPT !.ended = TRUE, !.flushed = at.flushed \cup more]
      <4>1. at.i \in Nat /\ at.end \in Nat
        BY <1>2 DEF FlushState
      <4>2. ~ (at.i < at.end)
        BY <2>5, <4>1
      <4> QED
        BY <1>2, <4>2 DEF FlushLine
    <3>2. more \subseteq Nat /\ (at.start % LINE_SIZE # 0 => LineOf(at.i) \in more)
      BY <2>3
    <3> HIDE DEF more
    <3>3. at' \in FlushState
      BY <1>2, <3>1, <3>2 DEF FlushState
    <3>4. /\ at'.start = at.start /\ at'.len = at.len /\ at'.by = at.by /\ at'.end = at.end
          /\ at'.i = at.i /\ at'.flushed = at.flushed \cup more
      BY <1>2, <3>1 DEF FlushState
    <3> QED
      BY <1>2, <2>1, <2>2, <2>5, <3>2, <3>3, <3>4 DEF FlushTrail
  <2> QED
    BY <1>2, <2>4, <2>5 DEF FlushLine
<1> QED
  BY <1>1, <1>2

-----------------------------------------------------------------------------
(* The busy wait. *)

\* A microsecond fits into the longest loop, and no more fit than are counted.
LEMMA OnceFits ==
  /\ MostAtOnce \in Nat \ {0}
  /\ MostAtOnce * PerMicro <= IntMax /\ IntMax < (MostAtOnce + 1) * PerMicro
<1>1. PICK p \in Nat \ {0} : p = PerMicro
  BY LoopsAssumption
<1>2. IntMax \in Nat \ {0} /\ p <= IntMax
  BY <1>1, LoopsAssumption
<1>3. PICK m \in Int, r \in 0 .. p - 1 : m = IntMax \div p /\ r = IntMax % p
                                         /\ IntMax = p * m + r
  BY <1>2, Parts
<1>4. p * 0 < p * m
  BY <1>2, <1>3
<1>5. m \in Nat \ {0}
  BY <1>3, <1>4, MultiplesGrow
<1>6. m * p = p * m /\ (m + 1) * p = p * m + p
  BY <1>5
<1>7. m * p <= IntMax /\ IntMax < (m + 1) * p
  BY <1>2, <1>3, <1>5, <1>6
<1> QED
  BY <1>1, <1>3, <1>5, <1>7 DEF MostAtOnce

\* The microseconds asked for are those of the full loops and what is left.
LEMMA AskedIs ==
  ASSUME NEW a \in Nat
  PROVE  \E d \in Nat, r \in 0 .. MostAtOnce - 1 :
           d = a \div MostAtOnce /\ r = a % MostAtOnce /\ a = MostAtOnce * d + r
<1>1. PICK d \in Int, r \in 0 .. MostAtOnce - 1 :
        d = a \div MostAtOnce /\ r = a % MostAtOnce /\ a = MostAtOnce * d + r
  BY OnceFits, Parts
<1>2. MostAtOnce * (-1) < MostAtOnce * d
  BY <1>1, OnceFits
<1>3. d \in Nat
  BY <1>1, <1>2, OnceFits, MultiplesGrow
<1> QED
  BY <1>1, <1>3

SleepState == [of : {"sleep"}, asked : Nat, us : Nat, big_loops : Nat, big : BOOLEAN,
               turns : Nat, ended : BOOLEAN]

\* The full loops that are left, and the microseconds of them and of the rest.
SleepTrail ==
  \E d \in Nat, r \in 0 .. MostAtOnce - 1 :
    /\ d = at.asked \div MostAtOnce /\ r = at.asked % MostAtOnce
    /\ at.asked = MostAtOnce * d + r
    /\ at.big <=> d > 0
    /\ at.big_loops <= d /\ at.us = r + MostAtOnce * at.big_loops
    /\ ~ at.ended => at.turns = IntMax * (d - at.big_loops)
    /\ at.ended => /\ at.big_loops = 0
                   /\ at.turns = IntMax * d + IF d > 0 THEN TurnsToZero(r * PerMicro)
                                              ELSE TurnsWhilePositive(r * PerMicro)

\* How long d full loops take.
LEMMA FullLoops ==
  ASSUME NEW d \in Nat, NEW m \in Nat, NEW p \in Nat, NEW x \in Nat,
         m * p <= x, x < (m + 1) * p
  PROVE  m * d * p <= x * d /\ x * d <= m * d * p + d * p
<1>1. PICK e \in Nat : x = m * p + e /\ e <= p
  <2>1. PICK y \in Nat : y = m * p
    OBVIOUS
  <2>2. (m + 1) * p = y + p
    BY <2>1
  <2>3. x - y \in Nat /\ x = y + (x - y) /\ x - y <= p
    BY <2>1, <2>2
  <2> QED
    BY <2>1, <2>3
<1>2. x * d = m * d * p + e * d
  BY <1>1
<1>3. e * d \in Nat /\ e * d <= d * p
  <2>1. PICK g \in Nat : p = e + g
    <3>1. p - e \in Nat /\ p = e + (p - e)
      BY <1>1
    <3> QED
      BY <3>1
  <2>2. d * p = e * d + g * d /\ g * d \in Nat /\ e * d \in Nat
    BY <2>1
  <2> QED
    BY <2>2
<1> QED
  BY <1>2, <1>3

\* Then the wait is long enough, and not too long.
LEMMA AsLong ==
  ASSUME at \in SleepState, SleepTrail PROVE SleepsAsLong
<1> SUFFICES ASSUME at.ended
             PROVE  /\ at.asked * PerMicro + Surplus <= at.turns
                    /\ at.turns <= Allowed + Surplus
  BY DEF SleepsAsLong
<1>1. PICK d \in Nat, r \in 0 .. MostAtOnce - 1 :
        /\ d = at.asked \div MostAtOnce /\ r = at.asked % MostAtOnce
        /\ at.asked = MostAtOnce * d + r /\ (at.big <=> d > 0)
        /\ at.turns = IntMax * d + IF d > 0 THEN TurnsToZero(r * PerMicro)
                                   ELSE TurnsWhilePositive(r * PerMicro)
  BY DEF SleepTrail
<1>2. PICK m \in Nat \ {0}, p \in Nat \ {0}, x \in Nat :
        m = MostAtOnce /\ p = PerMicro /\ x = IntMax /\ m * p <= x /\ x < (m + 1) * p
  BY OnceFits, LoopsAssumption
<1>3. m * d * p <= x * d /\ x * d <= m * d * p + d * p
  BY <1>2, FullLoops
<1>4. r \in Nat
  BY <1>2
<1>5. PICK n \in Nat : n = r * p /\ (n = 0 <=> r = 0)
  <2>1. r * p \in Nat
    BY <1>4
  <2>2. r # 0 => p * 0 < p * r
    BY <1>4
  <2>3. r * p = 0 <=> r = 0
    BY <1>4, <2>2
  <2> QED
    BY <2>1, <2>3
<1>6. PICK full \in Nat, y \in Nat, z \in Nat : full = x * d /\ y = m * d * p /\ z = d * p
  <2>1. x * d \in Nat /\ m * d * p \in Nat /\ d * p \in Nat
    OBVIOUS
  <2> QED
    BY <2>1
<1>7. at.asked * PerMicro = y + n
  <2>1. (m * d + r) * p = m * d * p + r * p
    BY <1>4
  <2> QED
    BY <1>1, <1>2, <1>5, <1>6, <2>1
<1>8. Allowed = y + n + z + 1
  <2>1. (m * d + r + d) * p = m * d * p + r * p + d * p
    BY <1>4
  <2>2. (at.asked + at.asked \div MostAtOnce) * PerMicro = y + n + z
    BY <1>1, <1>2, <1>5, <1>6, <2>1
  <2> QED
    BY <2>2 DEF Allowed
<1>9. y <= full /\ full <= y + z
  BY <1>3, <1>6
<1>10. CASE d > 0
  <2>1. at.turns = full + TurnsToZero(n)
    BY <1>1, <1>2, <1>5, <1>6, <1>10
  <2>2. PICK s \in Nat : s = Surplus /\ TurnsToZero(n) = n + s
    <3>1. CASE r = 0
      <4>1. n = 0 /\ TurnsToZero(n) = 2 * x + 2
        BY <1>2, <1>5, <3>1 DEF TurnsToZero
      <4>2. Surplus = 2 * x + 2
        BY <1>1, <1>2, <1>10, <3>1 DEF Surplus
      <4> QED
        BY <4>1, <4>2
    <3>2. CASE r # 0
      BY <1>1, <1>2, <1>5, <1>10, <3>2 DEF Surplus, TurnsToZero
    <3> QED
      BY <3>1, <3>2
  <2>3. y + n + s <= at.turns /\ at.turns <= y + n + z + 1 + s
    BY <1>9, <2>1, <2>2
  <2> QED
    BY <1>7, <1>8, <2>2, <2>3
<1>11. CASE d = 0
  <2>1. at.turns = full + TurnsWhilePositive(n)
    <3>1. ~ (d > 0)
      BY <1>11
    <3>2. at.turns = IntMax * d + TurnsWhilePositive(r * PerMicro)
      BY <1>1, <3>1
    <3> QED
      BY <1>2, <1>5, <1>6, <3>2
  <2>2. /\ TurnsWhilePositive(n) \in Nat /\ TurnsWhilePositive(n) >= n
        /\ TurnsWhilePositive(n) <= n + 1
    BY <1>5 DEF TurnsWhilePositive
  <2>3. full = 0 /\ y = 0 /\ z = 0
    BY <1>6, <1>11
  <2>4. Surplus = 0
    BY <1>1, <1>11 DEF Surplus
  <2> QED
    BY <1>7, <1>8, <2>1, <2>2, <2>3, <2>4
<1> QED
  BY <1>10, <1>11

\* A wait begins with all of its loops, and makes one after the other.
LEMMA SleepOK ==
  /\ SleepInit => at \in SleepState /\ SleepTrail
  /\ at \in SleepState /\ SleepTrail /\ BigLoop => (at \in SleepState /\ SleepTrail)'
  /\ at \in SleepState /\ SleepTrail /\ LastLoop => (at \in SleepState /\ SleepTrail)'
<1>0. MostAtOnce \in Nat \ {0} /\ IntMax \in Nat /\ PerMicro \in Nat
  BY OnceFits, LoopsAssumption
<1>1. ASSUME SleepInit PROVE at \in SleepState /\ SleepTrail
  <2>1. PICK us \in Sleeps :
          at = [of |-> "sleep", asked |-> us, us |-> us, big_loops |-> us \div MostAtOnce,
                big |-> us >= MostAtOnce, turns |-> 0, ended |-> FALSE]
    BY <1>1 DEF SleepInit
  <2>2. us \in Nat
    BY LoopsAssumption
  <2>3. PICK d \in Nat, r \in 0 .. MostAtOnce - 1 :
          d = us \div MostAtOnce /\ r = us % MostAtOnce /\ us = MostAtOnce * d + r
    BY <2>2, AskedIs
  <2>4. us >= MostAtOnce <=> d > 0
    <3>1. CASE d = 0
      BY <1>0, <2>3, <3>1
    <3>2. CASE d > 0
      <4>1. MostAtOnce * d = MostAtOnce * (d - 1) + MostAtOnce /\ MostAtOnce * (d - 1) >= 0
        BY <1>0, <3>2
      <4> QED
        BY <1>0, <2>3, <3>2, <4>1
    <3> QED
      BY <3>1, <3>2
  <2>5. at \in SleepState
    BY <2>1, <2>2, <2>3 DEF SleepState
  <2>6. us = r + MostAtOnce * d /\ 0 = IntMax * (d - d)
    BY <1>0, <2>3
  <2>8. /\ at.asked = us /\ at.us = us /\ at.big_loops = d /\ at.turns = 0 /\ ~ at.ended
        /\ at.big <=> d > 0
    BY <2>1, <2>3, <2>4
  <2>9. d <= d
    OBVIOUS
  <2>7. SleepTrail
    BY <2>3, <2>6, <2>8, <2>9 DEF SleepTrail
  <2> QED
    BY <2>5, <2>7
<1>2. ASSUME at \in SleepState, SleepTrail, BigLoop
      PROVE  (at \in SleepState /\ SleepTrail)'
  <2>1. PICK d \in Nat, r \in 0 .. MostAtOnce - 1 :
        /\ d = at.asked \div MostAtOnce /\ r = at.asked % MostAtOnce
        /\ at.asked = MostAtOnce * d + r /\ (at.big <=> d > 0)
        /\ at.big_loops <= d /\ at.us = r + MostAtOnce * at.big_loops
        /\ ~ at.ended => at.turns = IntMax * (d - at.big_loops)
        /\ at.ended => at.big_loops = 0
    BY <1>2 DEF SleepTrail
  <2>2. /\ at' = [at EXCEPT !.big_loops = @ - 1, !.us = @ - MostAtOnce, !.turns = @ + IntMax]
        /\ at.big_loops \in Nat /\ at.big_loops > 0 /\ ~ at.ended /\ at.turns \in Nat
    BY <1>2, <2>1 DEF BigLoop, SleepState
  <2>3. PICK b \in Nat : b = at.big_loops - 1
    BY <2>2
  <2>4. at.us - MostAtOnce = r + MostAtOnce * b /\ r + MostAtOnce * b \in Nat
    <3>1. PICK o \in Nat : o = MostAtOnce * b
      BY <1>0
    <3>2. MostAtOnce * at.big_loops = o + MostAtOnce
      BY <1>0, <2>2, <2>3, <3>1
    <3>3. at.us = r + (o + MostAtOnce)
      BY <2>1, <3>2
    <3>4. at.us - MostAtOnce = r + o /\ r + o \in Nat
      BY <1>0, <3>3
    <3> QED
      BY <3>1, <3>4
  <2>5. at.turns + IntMax = IntMax * (d - b) /\ at.turns + IntMax \in Nat
    <3>1. IntMax * (d - b) = IntMax * (d - at.big_loops) + IntMax
      BY <1>0, <2>2, <2>3
    <3> QED
      BY <1>0, <2>1, <2>2, <3>1
  <2>6. at' = [at EXCEPT !.big_loops = b, !.us = r + MostAtOnce * b, !.turns = IntMax * (d - b)]
    BY <1>2, <2>2, <2>3, <2>4, <2>5 DEF SleepState
  <2>7. at' \in SleepState
    BY <1>2, <2>4, <2>5, <2>6 DEF SleepState
  <2>8. /\ at'.asked = at.asked /\ at'.big = at.big /\ at'.ended = at.ended
        /\ at'.big_loops = b /\ at'.us = r + MostAtOnce * b
        /\ at'.turns = IntMax * (d - b)
    BY <1>2, <2>6 DEF SleepState
  <2>9. b <= d
    BY <2>1, <2>2, <2>3
  <2> QED
    BY <2>1, <2>2, <2>7, <2>8, <2>9 DEF SleepTrail
<1>3. ASSUME at \in SleepState, SleepTrail, LastLoop
      PROVE  (at \in SleepState /\ SleepTrail)'
  <2>1. PICK d \in Nat, r \in 0 .. MostAtOnce - 1 :
        /\ d = at.asked \div MostAtOnce /\ r = at.asked % MostAtOnce
        /\ at.asked = MostAtOnce * d + r /\ (at.big <=> d > 0)
        /\ at.big_loops <= d /\ at.us = r + MostAtOnce * at.big_loops
        /\ ~ at.ended => at.turns = IntMax * (d - at.big_loops)
    BY <1>3 DEF SleepTrail
  <2>2. at.big_loops = 0 /\ ~ at.ended
    BY <1>3 DEF LastLoop
  <2>3. at.us = r /\ at.turns = IntMax * d
    <3>1. MostAtOnce * at.big_loops = 0 /\ d - at.big_loops = d
      BY <1>0, <2>2
    <3>2. at.us = r + 0 /\ at.turns = IntMax * d
      BY <2>1, <2>2, <3>1
    <3> QED
      BY <1>0, <3>2
  <2> DEFINE rest == IF d > 0 THEN TurnsToZero(r * PerMicro) ELSE TurnsWhilePositive(r * PerMicro)
  <2>4. at' = [at EXCEPT !.ended = TRUE, !.turns = IntMax * d + rest]
    BY <1>3, <2>1, <2>3 DEF LastLoop, SleepState
  <2>5. rest \in Nat
    <3>1. r * PerMicro \in Nat
      BY <1>0
    <3> QED
      BY <1>0, <3>1 DEF TurnsToZero, TurnsWhilePositive
  <2>6. IntMax * d + rest \in Nat
    BY <1>0, <2>5
  <2>7. at' \in SleepState
    BY <1>3, <2>4, <2>6 DEF SleepState
  <2>8. /\ at'.asked = at.asked /\ at'.big = at.big /\ at'.ended = TRUE
        /\ at'.big_loops = at.big_loops /\ at'.us = at.us
        /\ at'.turns = IntMax * d + rest
    BY <1>3, <2>4 DEF SleepState
  <2> QED
    BY <2>1, <2>2, <2>7, <2>8 DEF SleepTrail
<1> QED
  BY <1>1, <1>2, <1>3

-----------------------------------------------------------------------------
(* The hexadecimal digits. *)

HexState == [of : {"hex"}, v : HexNumber, shift : 0 .. Digits - 1, started : BOOLEAN,
             put : Seq(0 .. 15), ended : BOOLEAN]

\* The digit n is the first that is not 0, if there is one.
First(v, n) == (n > 0 => v[n] # 0) /\ \A m \in n + 1 .. Digits - 1 : v[m] = 0

\* Either only zeros have been seen, or the digits from the first other one have
\* been put.
HexTrail ==
  /\ ~ at.ended /\ ~ at.started =>
       at.put = <<>> /\ \A m \in at.shift + 1 .. Digits - 1 : at.v[m] = 0
  /\ ~ at.ended /\ at.started =>
       \E n \in at.shift + 1 .. Digits - 1 :
         at.put = Down(at.v, n, at.shift + 1) /\ First(at.v, n)
  /\ at.ended => \E n \in 0 .. Digits - 1 : at.put = Down(at.v, n, 0) /\ First(at.v, n)

\* One more digit.
LEMMA DownOne ==
  ASSUME NEW v \in HexNumber, NEW n \in 0 .. Digits - 1, NEW m \in 0 .. n
  PROVE  /\ Down(v, n, m) \in Seq(0 .. 15)
         /\ Down(v, n, n) = <<v[n]>>
         /\ Append(Down(v, n, m + 1), v[m]) = Down(v, n, m)
<1>1. Digits \in Nat \ {0}
  BY LoopsAssumption
<1>2. \A i \in 0 .. n : v[i] \in 0 .. 15
  BY <1>1 DEF HexNumber
<1>3. ASSUME NEW k \in 0 .. n + 1
      PROVE  /\ Down(v, n, k) \in Seq(0 .. 15) /\ Len(Down(v, n, k)) = n + 1 - k
             /\ \A j \in 1 .. n + 1 - k : Down(v, n, k)[j] = v[n + 1 - j]
  <2>1. n + 1 - k \in Nat /\ \A j \in 1 .. n + 1 - k : n + 1 - j \in 0 .. n
    BY <1>1
  <2>2. Down(v, n, k) \in [1 .. n + 1 - k -> 0 .. 15]
    BY <1>2, <2>1 DEF Down
  <2> QED
    BY <2>1, <2>2 DEF Down
<1>4. /\ n \in 0 .. n + 1 /\ m \in 0 .. n + 1 /\ m + 1 \in 0 .. n + 1
      /\ n \in Nat /\ m \in Nat
  BY <1>1
<1>5. Down(v, n, n) = <<v[n]>>
  <2>1. n + 1 - n = 1 /\ n + 1 - 1 = n
    BY <1>4
  <2>3. /\ Down(v, n, n) \in Seq(0 .. 15) /\ Len(Down(v, n, n)) = n + 1 - n
        /\ \A j \in 1 .. n + 1 - n : Down(v, n, n)[j] = v[n + 1 - j]
    BY <1>3, <1>4
  <2>2. Len(Down(v, n, n)) = 1 /\ Down(v, n, n)[1] = v[n] /\ Down(v, n, n) \in Seq(0 .. 15)
    BY <2>1, <2>3
  <2> QED
    BY <2>2
<1>6. Append(Down(v, n, m + 1), v[m]) = Down(v, n, m)
  <2>1. PICK c \in Seq(0 .. 15) : c = Down(v, n, m + 1)
    BY <1>3, <1>4
  <2>2. PICK d \in Seq(0 .. 15) : d = Down(v, n, m)
    BY <1>3, <1>4
  <2>3. PICK k \in Nat : k = n - m
    BY <1>1
  <2>4. Len(c) = k /\ \A j \in 1 .. k : c[j] = v[n + 1 - j]
    <3>1. n + 1 - (m + 1) = k
      BY <1>4, <2>3
    <3> QED
      BY <1>3, <1>4, <2>1, <3>1
  <2>5. Len(d) = k + 1 /\ \A j \in 1 .. k + 1 : d[j] = v[n + 1 - j]
    <3>1. n + 1 - m = k + 1
      BY <1>4, <2>3
    <3> QED
      BY <1>3, <1>4, <2>2, <3>1
  <2>6. d[k + 1] = v[m] /\ v[m] \in 0 .. 15
    <3>1. k + 1 \in 1 .. k + 1 /\ n + 1 - (k + 1) = m /\ m \in 0 .. n
      BY <1>4, <2>3
    <3> QED
      BY <1>2, <2>5, <3>1
  <2>7. \A j \in 1 .. k : d[j] = c[j]
    BY <2>4, <2>5
  <2>8. Append(c, v[m]) = d
    BY <2>4, <2>5, <2>6, <2>7
  <2> QED
    BY <2>1, <2>2, <2>8
<1> QED
  BY <1>3, <1>4, <1>5, <1>6

\* A number is looked at from its highest digit, and its digits are put one after
\* the other.
LEMMA HexOK ==
  /\ HexInit => at \in HexState /\ HexTrail
  /\ at \in HexState /\ HexTrail /\ HexZero => (at \in HexState /\ HexTrail)'
  /\ at \in HexState /\ HexTrail /\ HexDigit => (at \in HexState /\ HexTrail)'
<1>0. Digits \in Nat \ {0} /\ 0 \in 0 .. Digits - 1 /\ Digits - 1 \in 0 .. Digits - 1
  BY LoopsAssumption
<1>1. ASSUME HexInit PROVE at \in HexState /\ HexTrail
  <2>1. PICK v \in HexNumber :
          at = [of |-> "hex", v |-> v, shift |-> Digits - 1, started |-> FALSE,
                put |-> <<>>, ended |-> FALSE]
    BY <1>1 DEF HexInit
  <2>2. at \in HexState
    BY <1>0, <2>1 DEF HexState
  <2>3. (Digits - 1) + 1 .. Digits - 1 = {}
    BY <1>0
  <2>4. HexTrail
    BY <2>1, <2>3 DEF HexTrail
  <2> QED
    BY <2>2, <2>4
<1>2. ASSUME at \in HexState, HexTrail, HexZero PROVE (at \in HexState /\ HexTrail)'
  <2>1. at.v = NoDigits /\ at.v \in HexNumber /\ at' = [at EXCEPT !.put = <<0>>, !.ended = TRUE]
    BY <1>2 DEF HexZero, HexState
  <2>2. <<0>> \in Seq(0 .. 15)
    OBVIOUS
  <2>3. at' \in HexState
    BY <1>2, <2>1, <2>2 DEF HexState
  <2>4. at'.v = at.v /\ at'.put = <<0>> /\ at'.ended = TRUE
    BY <1>2, <2>1 DEF HexState
  <2>5. \A m \in 0 .. Digits - 1 : at.v[m] = 0
    BY <2>1 DEF NoDigits
  <2>6. Down(at.v, 0, 0) = <<0>>
    <3>1. 0 \in 0 .. 0
      OBVIOUS
    <3> QED
      BY <1>0, <2>1, <2>5, <3>1, DownOne
  <2>7. First(at.v, 0)
    BY <1>0, <2>5 DEF First
  <2> QED
    BY <1>0, <2>3, <2>4, <2>6, <2>7 DEF HexTrail
<1>3. ASSUME at \in HexState, HexTrail, HexDigit PROVE (at \in HexState /\ HexTrail)'
  <2>1. PICK v \in HexNumber, s \in 0 .. Digits - 1 : v = at.v /\ s = at.shift
    BY <1>3 DEF HexState
  <2>2. s \in Nat /\ v[s] \in 0 .. 15 /\ at.put \in Seq(0 .. 15) /\ at.started \in BOOLEAN
        /\ ~ at.ended /\ v # NoDigits
    <3>1. v[s] \in 0 .. 15 /\ s \in Nat
      BY <1>0 DEF HexNumber
    <3>2. at.put \in Seq(0 .. 15) /\ at.started \in BOOLEAN
      BY <1>3 DEF HexState
    <3>3. ~ at.ended /\ v # NoDigits
      BY <1>3, <2>1 DEF HexDigit
    <3> QED
      BY <3>1, <3>2, <3>3
  <2> DEFINE puts == at.started \/ v[s] # 0
             put == IF puts THEN Append(at.put, v[s]) ELSE at.put
             next == IF s = 0 THEN s ELSE s - 1
  <2>3. at' = [at EXCEPT !.put = put, !.started = puts, !.shift = next, !.ended = (s = 0)]
    BY <1>3, <2>1 DEF HexDigit, Digit, HexState
  <2>4. put \in Seq(0 .. 15) /\ puts \in BOOLEAN /\ next \in 0 .. Digits - 1
    BY <1>0, <2>2
  <2>5. puts => \E n \in s .. Digits - 1 : put = Down(v, n, s) /\ First(v, n)
    <3>1. CASE at.started
      <4>1. PICK n \in s + 1 .. Digits - 1 : at.put = Down(v, n, s + 1) /\ First(v, n)
        BY <1>3, <2>1, <2>2, <3>1 DEF HexTrail
      <4>2. n \in 0 .. Digits - 1 /\ s \in 0 .. n /\ n \in s .. Digits - 1
        BY <2>2
      <4>3. put = Down(v, n, s)
        BY <3>1, <4>1, <4>2, DownOne
      <4> QED
        BY <4>1, <4>2, <4>3
    <3>2. CASE ~ at.started /\ v[s] # 0
      <4>1. at.put = <<>> /\ \A m \in s + 1 .. Digits - 1 : v[m] = 0
        BY <1>3, <2>1, <2>2, <3>2 DEF HexTrail
      <4>2. put = <<v[s]>>
        BY <3>2, <4>1
      <4>3. s \in 0 .. s /\ s \in s .. Digits - 1
        BY <2>2
      <4>4. Down(v, s, s) = <<v[s]>>
        BY <4>3, DownOne
      <4>5. First(v, s)
        BY <3>2, <4>1 DEF First
      <4> QED
        BY <4>2, <4>3, <4>4, <4>5
    <3> QED
      BY <2>2, <3>1, <3>2
  <2>6. ~ puts => put = <<>> /\ \A m \in s .. Digits - 1 : v[m] = 0
    <3> SUFFICES ASSUME ~ puts PROVE put = <<>> /\ \A m \in s .. Digits - 1 : v[m] = 0
      OBVIOUS
    <3>1. at.put = <<>> /\ (\A m \in s + 1 .. Digits - 1 : v[m] = 0) /\ v[s] = 0
      BY <1>3, <2>1, <2>2 DEF HexTrail
    <3>2. \A m \in s .. Digits - 1 : m = s \/ m \in s + 1 .. Digits - 1
      BY <2>2
    <3> QED
      BY <3>1, <3>2
  <2> HIDE DEF puts, put, next
  <2>7. at' \in HexState
    BY <1>3, <2>3, <2>4 DEF HexState
  <2>8. /\ at'.v = v /\ at'.put = put /\ at'.started = puts /\ at'.shift = next
        /\ at'.ended = (s = 0)
    BY <1>3, <2>1, <2>3 DEF HexState
  <2>9. CASE s = 0
    <3>1. puts
      <4>1. ASSUME ~ puts PROVE v = NoDigits
        <5>1. \A m \in 0 .. Digits - 1 : v[m] = 0
          BY <2>6, <2>9, <4>1
        <5> QED
          BY <5>1 DEF HexNumber, NoDigits
      <4> QED
        BY <2>2, <4>1
    <3> QED
      BY <2>5, <2>7, <2>8, <2>9, <3>1 DEF HexTrail
  <2>10. CASE s # 0
    <3>1. next + 1 = s
      BY <2>2, <2>10 DEF next
    <3> QED
      BY <2>5, <2>6, <2>7, <2>8, <2>10, <3>1 DEF HexTrail
  <2> QED
    BY <2>9, <2>10
<1> QED
  BY <1>1, <1>2, <1>3

-----------------------------------------------------------------------------

\* A walk through one of the loops.
LoopsInv ==
  \/ at \in FlushState /\ FlushTrail
  \/ at \in SleepState /\ SleepTrail
  \/ at \in HexState /\ HexTrail

\* It begins and goes on as the loop does.
LEMMA LoopsStep ==
  /\ HalWalksInit => LoopsInv
  /\ LoopsInv /\ [HalWalksNext]_at => LoopsInv'
<1>1. ASSUME HalWalksInit PROVE LoopsInv
  BY <1>1, FlushOK, SleepOK, HexOK DEF HalWalksInit, LoopsInv
<1>2. ASSUME LoopsInv, HalWalksNext PROVE LoopsInv'
  <2>1. /\ at \in FlushState => at.of = "flush"
        /\ at \in SleepState => at.of = "sleep"
        /\ at \in HexState => at.of = "hex"
    BY DEF FlushState, SleepState, HexState
  <2>2. ASSUME FlushLine PROVE LoopsInv'
    <3>1. at.of = "flush"
      BY <2>2 DEF FlushLine, On
    <3> QED
      BY <1>2, <2>1, <2>2, <3>1, FlushOK DEF LoopsInv
  <2>3. ASSUME BigLoop \/ LastLoop PROVE LoopsInv'
    <3>1. at.of = "sleep"
      BY <2>3 DEF BigLoop, LastLoop, On
    <3> QED
      BY <1>2, <2>1, <2>3, <3>1, SleepOK DEF LoopsInv
  <2>4. ASSUME HexZero \/ HexDigit PROVE LoopsInv'
    <3>1. at.of = "hex"
      BY <2>4 DEF HexZero, HexDigit, On
    <3> QED
      BY <1>2, <2>1, <2>4, <3>1, HexOK DEF LoopsInv
  <2> QED
    BY <1>2, <2>2, <2>3, <2>4 DEF HalWalksNext
<1>3. ASSUME LoopsInv, UNCHANGED at PROVE LoopsInv'
  BY <1>3 DEF LoopsInv, FlushTrail, SleepTrail, HexTrail
<1> QED
  BY <1>1, <1>2, <1>3

(***************************************************************************)
(* Whatever the sizes of a cache and of its lines, and wherever a region    *)
(* begins and ends, nothing of it stays in the cache; whatever the clock    *)
(* and the time asked for, a wait is not cut short; and a number of any     *)
(* width is printed from its first digit that is not 0 (alt_dcache_flush.c, *)
(* alt_icache_flush.c, alt_busy_sleep.c and alt_printf.c).                  *)
(***************************************************************************)
THEOREM LoopsAlwaysEnd == HalWalksSpec => []LibraryLoops
<1>1. LoopsInv => LibraryLoops
  <2> SUFFICES ASSUME LoopsInv PROVE FlushesAll /\ SleepsAsLong /\ PrintsTheNumber
    BY DEF LibraryLoops
  <2>1. CASE at \in FlushState /\ FlushTrail
    BY <2>1, AllFlushed DEF SleepsAsLong, PrintsTheNumber, On, FlushState
  <2>2. CASE at \in SleepState /\ SleepTrail
    BY <2>2, AsLong DEF FlushesAll, PrintsTheNumber, On, SleepState
  <2>3. CASE at \in HexState /\ HexTrail
    <3>1. PrintsTheNumber
      BY <2>3 DEF PrintsTheNumber, HexTrail, First
    <3> QED
      BY <2>3, <3>1 DEF FlushesAll, SleepsAsLong, On, HexState
  <2> QED
    BY <2>1, <2>2, <2>3 DEF LoopsInv
<1> QED
  BY <1>1, LoopsStep, PTL DEF HalWalksSpec

-----------------------------------------------------------------------------
(* The accelerator as it is: sixteen rounds, 64-bit blocks and keys, words of  *)
(* 32 bits, the actual tables; any data and keys of the program, any number of *)
(* resets.  MaxAccepted bounds RSpec alone, which is not used of these two.    *)

CONSTANTS idata1, idata2, key1, key2, key3, MaxResets

VARIABLES
  accepted, emitted, ghosts,
  reg_idata, reg_key1, reg_key2, reg_key3, reg_decrypt, reg_valid_in,
  reg_odata, reg_valid_out, pending, pc, result, resets, answered,
  fresh

BoardPorts == [idata : Word(64), key1 : Word(64), key2 : Word(64), key3 : Word(64),
               decrypt : BOOLEAN, valid_in : BOOLEAN]

Board == INSTANCE Des3Proofs WITH
           Rounds <- 16, Split <- IP, Join <- IP_inv, F <- f, KS <- key_scheduler,
           Block <- Word(64), ZeroBlock <- {}, Half <- Word(32), Key <- Word(64),
           Ports <- BoardPorts, WordBits <- 32, MaxAccepted <- 0

\* The core alone, of which the program's constants are no part.
Core == INSTANCE Des3Proofs WITH
          Rounds <- 16, Split <- IP, Join <- IP_inv, F <- f, KS <- key_scheduler,
          Block <- Word(64), ZeroBlock <- {}, Half <- Word(32), Key <- Word(64),
          Ports <- BoardPorts, WordBits <- 32, MaxAccepted <- 0, MaxResets <- 0,
          idata1 <- {}, idata2 <- {}, key1 <- {}, key2 <- {}, key3 <- {}

\* The words are the same, and the exclusive or.
LEMMA BoardWords ==
  /\ \A w : Board!Word(w) = Word(w) /\ Core!Word(w) = Word(w)
  /\ \A a, b : Board!Xor(a, b) = Xor(a, b) /\ Core!Xor(a, b) = Xor(a, b)
BY DEF Board!Word, Core!Word, Word, Board!Xor, Core!Xor, Xor

\* The actual data path stays within its widths, as the core assumes of it.
Fits(xor(_, _)) ==
  /\ {} \in Word(64) /\ {} \in Word(32)
  /\ \A b \in Word(64) : IP(b) \in Word(32) \X Word(32)
  /\ \A l, r \in Word(32) : IP_inv(<<l, r>>) \in Word(64)
  /\ \A l, r \in Word(32), key \in Word(64), d \in BOOLEAN, k \in 0 .. 16 - 1 :
       xor(l, f(r, key_scheduler(key, d, k))) \in Word(32)

\* Whichever of the two exclusive ors is meant.
LEMMA BoardFits == Fits(Board!Xor) /\ Fits(Core!Xor)
<1>1. {} \in Word(64) /\ {} \in Word(32)
  BY DEF Word
<1>2. \A b \in Word(64) : IP(b) \in Word(32) \X Word(32)
  BY IPType
<1>3. ASSUME NEW l \in Word(32), NEW r \in Word(32) PROVE IP_inv(<<l, r>>) \in Word(64)
  BY IPTables DEF IP_inv, Undoes, Wire, Word
<1>4. ASSUME NEW l \in Word(32), NEW r \in Word(32), NEW key \in Word(64),
             NEW d \in BOOLEAN, NEW k \in 0 .. 16 - 1
      PROVE  Xor(l, f(r, key_scheduler(key, d, k))) \in Word(32)
  <2>1. k \in 0 .. 15
    OBVIOUS
  <2>2. key_scheduler(key, d, k) \in Word(48)
    BY <2>1, ScheduleNot
  <2>3. f(r, key_scheduler(key, d, k)) \in Word(32)
    BY <2>2, FNot
  <2> QED
    BY <2>3, XorNots
<1> QED
  BY <1>1, <1>2, <1>3, <1>4, BoardWords DEF Fits

\* And so do the ports and the register file.
LEMMA BoardFacts ==
  /\ 16 \in Nat \ {0} /\ 32 \in Nat \ {0} /\ 0 \in Nat
  /\ BoardPorts \subseteq Board!PortType /\ BoardPorts \subseteq Core!PortType
  /\ Word(64) = Board!Word(2 * 32) /\ Word(64) = Core!Word(2 * 32)
  /\ {{}, {}, {}, {}, {}} \subseteq SUBSET (0 .. 2 * 32 - 1)
<1>1. 2 * 32 = 64
  OBVIOUS
<1> QED
  BY <1>1, BoardWords DEF BoardPorts, Board!PortType, Core!PortType

(***************************************************************************)
(* Three instances of the actual sixteen rounds are, while keys are held,   *)
(* a delay line of 57 places that computes triple DES (des3.v).             *)
(***************************************************************************)
THEOREM CoreIsTripleDES == Core!SpecHeld => Core!ImplementsPipe
BY BoardFacts, BoardFits, Core!CoreIsALine DEF Fits

(***************************************************************************)
(* And what it enciphers it deciphers, with decrypt the other way and the   *)
(* same three keys (des3.v, lines 17-52).                                   *)
(***************************************************************************)
THEOREM CoreUndone ==
  ASSUME NEW i \in BoardPorts, NEW j \in BoardPorts, j.decrypt = ~ i.decrypt,
         j.key1 = i.key1, j.key2 = i.key2, j.key3 = i.key3,
         j.idata = Core!TripleCipher(i)
  PROVE  Core!TripleCipher(j) = i.idata
<1>1. Core!EndsUndone
  BY IPUndone DEF Core!EndsUndone
<1>2. Core!ScheduleTurns
  <2>1. ASSUME NEW key \in Word(64), NEW d \in BOOLEAN, NEW k \in 0 .. 16 - 1
        PROVE  key_scheduler(key, d, k) = key_scheduler(key, ~ d, 16 - 1 - k)
    <3>1. k \in 0 .. 15 /\ 16 - 1 - k = 15 - k
      OBVIOUS
    <3> QED
      BY <3>1, ScheduleReverses
  <2> QED
    BY <2>1 DEF Core!ScheduleTurns
<1>3. i \in Core!PortType /\ j \in Core!PortType
  BY DEF BoardPorts, Core!PortType
<1> QED
  BY <1>1, <1>2, <1>3, BoardFacts, BoardFits, Core!TripleUndone DEF Fits

(***************************************************************************)
(* Each word that main.c prints on this accelerator is a word of the triple *)
(* DES ciphertext of one of its two data, but for the sign of the low word, *)
(* whatever the data and keys, through resets of the CPU and of everything, *)
(* as soon as a first result that was asked for has been latched since the  *)
(* last reset of the accelerator (main.c, lines 16-40).                     *)
(***************************************************************************)
THEOREM MainPrintsTripleDES ==
  ASSUME {idata1, idata2, key1, key2, key3} \subseteq Word(64), MaxResets \in Nat
  PROVE  Board!FSpec => []Board!PrintedWords
<1>1. {idata1, idata2, key1, key2, key3} \subseteq SUBSET (0 .. 2 * 32 - 1)
  <2>1. 2 * 32 - 1 = 64 - 1
    OBVIOUS
  <2> QED
    BY <2>1 DEF Word
<1> QED
  BY <1>1, BoardFacts, BoardFits, Board!PrintsCiphertext DEF Fits

-----------------------------------------------------------------------------
(* The testbenches. *)

\* The clock edge of the wrapper is one of the core.
LEMMA TbClocks ==
  ASSUME NEW i, Fsm!FsmClock(i)
  PROVE  Core!CoreClock(i)
<1>1. Core!E1!Clock(Core!Ports1(i))
  BY DEF Fsm!FsmClock, Fsm!CoreClock, Fsm!E1!Clock, Fsm!E1!Clocked, Fsm!E1!K, Fsm!E1!Stage,
         Fsm!E1!Xor, Fsm!Ports1, Fsm!stage1_key,
         Core!E1!Clock, Core!E1!Clocked, Core!E1!K, Core!E1!Stage, Core!E1!Xor,
         Core!Ports1, Core!stage1_key
<1>2. Core!D2!Clock(Core!Ports2(i))
  BY DEF Fsm!FsmClock, Fsm!CoreClock, Fsm!D2!Clock, Fsm!D2!Clocked, Fsm!D2!K, Fsm!D2!Stage,
         Fsm!D2!Xor, Fsm!Ports2,
         Core!D2!Clock, Core!D2!Clocked, Core!D2!K, Core!D2!Stage, Core!D2!Xor, Core!Ports2
<1>3. Core!E3!Clock(Core!Ports3(i))
  BY DEF Fsm!FsmClock, Fsm!CoreClock, Fsm!E3!Clock, Fsm!E3!Clocked, Fsm!E3!K, Fsm!E3!Stage,
         Fsm!E3!Xor, Fsm!Ports3, Fsm!stage3_key,
         Core!E3!Clock, Core!E3!Clocked, Core!E3!K, Core!E3!Stage, Core!E3!Xor,
         Core!Ports3, Core!stage3_key
<1> QED
  BY <1>1, <1>2, <1>3 DEF Core!CoreClock

\* The state that the testbenches begin in is one that the core may power up in.
LEMMA TbPowersUp ==
  ASSUME TbInit
  PROVE  /\ Core!CoreInit
         /\ ~ encrypt1.V_buf /\ ~ decrypt2.V_buf /\ ~ encrypt3.V_buf
<1> DEFINE r == Fsm!E1!PoweredUp({}, {}, FALSE, FALSE, FALSE, <<{}, {}>>)
<1>1. encrypt1 = r /\ decrypt2 = r /\ encrypt3 = r
  BY DEF TbInit
<1>2. {} \in Word(64) /\ IP({}) = <<{}, {}>>
  <2>1. Wire(IPTable, {}) = {}
    BY DEF Wire
  <2>2. Slice({}, 63, 32) = {} /\ Slice({}, 31, 0) = {}
    BY DEF Slice
  <2> QED
    BY <2>1, <2>2 DEF IP, Word
<1>3. /\ r = Core!E1!PoweredUp({}, {}, FALSE, FALSE, FALSE, IP({}))
      /\ r = Core!D2!PoweredUp({}, {}, FALSE, FALSE, FALSE, IP({}))
      /\ r = Core!E3!PoweredUp({}, {}, FALSE, FALSE, FALSE, IP({}))
  BY <1>2 DEF Fsm!E1!PoweredUp, Fsm!E1!Stage, Core!E1!PoweredUp, Core!E1!Stage,
         Core!D2!PoweredUp, Core!D2!Stage, Core!E3!PoweredUp, Core!E3!Stage
<1>4. r.V_buf = FALSE
  BY DEF Fsm!E1!PoweredUp
<1> HIDE DEF r
<1>5. FALSE \in BOOLEAN
  OBVIOUS
<1>6. Core!E1!Init /\ Core!D2!Init /\ Core!E3!Init
  BY <1>1, <1>2, <1>3, <1>5 DEF Core!E1!Init, Core!D2!Init, Core!E3!Init
<1> QED
  BY <1>1, <1>4, <1>6 DEF Core!CoreInit

\* The places of the core: three times nineteen.
LEMMA TbPlaces ==
  /\ Core!StageLen = 19 /\ Core!CorePosition = 0 .. 56 /\ 2 * 19 + 16 = 54
  /\ Core!Fronts = {0, 19, 38}
BY DEF Core!StageLen, Core!CorePosition, Core!Fronts

\* What the core does at a clock edge, at which it is given ports.
LEMMA CoreEdge ==
  ASSUME Core!CoreTypeOK, Core!CoreReady, NEW i \in BoardPorts, Core!CoreClock(i)
  PROVE  /\ Core!CoreTypeOK' /\ Core!CoreReady'
         /\ Core!Holds(0)' = i.valid_in
         /\ \A p \in 0 .. 55 : Core!Holds(p + 1)' = Core!Holds(p)
         /\ i.valid_in => Core!Outcomes(0)' = {Core!TripleCipher(i)}
         /\ Core!PortsHeld(i) =>
              \A p \in 0 .. 55 : Core!Holds(p) => Core!Outcomes(p + 1)' = Core!Outcomes(p)
<1>1. i \in Core!PortType
  BY DEF BoardPorts, Core!PortType
<1>2. 3 * Core!StageLen - 2 = 55
  BY TbPlaces
<1>3. /\ Core!Holds(0)' = i.valid_in
      /\ \A p \in 0 .. 3 * Core!StageLen - 2 : Core!Holds(p + 1)' = Core!Holds(p)
  BY <1>1, BoardFacts, BoardFits, Core!ClockHolds DEF Fits
<1>4. i.valid_in => Core!Outcomes(0)' = {Core!TripleCipher(i)}
  BY <1>1, BoardFacts, BoardFits, Core!ClockEnters DEF Fits
<1>5. ASSUME Core!PortsHeld(i), NEW p \in 0 .. 55, Core!Holds(p)
      PROVE  Core!Outcomes(p + 1)' = Core!Outcomes(p)
  <2>1. p \in 0 .. 3 * Core!StageLen - 2
    BY <1>2
  <2> QED
    BY <1>1, <1>5, <2>1, BoardFacts, BoardFits, Core!ClockOutcomes DEF Fits
<1>6. Core!CoreTypeOK'
  BY <1>1, BoardFacts, BoardFits, Core!CoreClockMoves DEF Fits
<1>7. Core!CoreReady'
  BY <1>1, BoardFacts, BoardFits, Core!ClockReady DEF Fits
<1> QED
  BY <1>2, <1>3, <1>4, <1>5, <1>6, <1>7

\* And the keys and directions that it holds then.
LEMMA CoreKeys ==
  ASSUME Core!CoreTypeOK, NEW i \in BoardPorts, Core!CoreClock(i)
  PROVE  Core!PortsHeld(i)'
<1>1. i \in Core!PortType
  BY DEF BoardPorts, Core!PortType
<1>2. /\ Core!Advanced(encrypt1, Core!Ports1(i), encrypt1')
      /\ Core!Advanced(decrypt2, Core!Ports2(i), decrypt2')
      /\ Core!Advanced(encrypt3, Core!Ports3(i), encrypt3')
  BY <1>1, BoardFacts, BoardFits, Core!CoreClockMoves DEF Fits
<1>3. i.decrypt \in BOOLEAN
  BY DEF BoardPorts
<1> QED
  BY <1>2, <1>3 DEF Core!Advanced, Core!Ports1, Core!Ports2, Core!Ports3, Core!PortsHeld,
         Core!stage1_key, Core!stage3_key

\* The output register is the last place.
LEMMA LastPlace ==
  /\ Core!Holds(56) = encrypt3.valid_out
  /\ encrypt3.valid_out => Core!Outcomes(56) = {encrypt3.odata}
<1>1. 18 \in 0 .. Core!StageLen - 1 /\ 2 * Core!StageLen + 18 = 56
  BY TbPlaces
<1>2. /\ Core!Holds(56) = Core!E1!Occupied(encrypt3, 18)
      /\ Core!Outcomes(56) = Core!One!InFlight(encrypt3)[18]
  BY <1>1, BoardFacts, BoardFits, Core!HoldsAt, Core!OutcomesAt DEF Fits
<1>3. Core!E1!Occupied(encrypt3, 18) = encrypt3.valid_out
  BY DEF Core!E1!Occupied
<1>4. Core!One!InFlight(encrypt3)[18]
        = IF Core!E1!Occupied(encrypt3, 18) THEN {Core!One!Outcome(encrypt3, 18)} ELSE {}
  <2>1. 18 \in Core!One!Position
    BY DEF Core!One!Position
  <2>2. Core!One!Occupied(encrypt3, 18) = Core!E1!Occupied(encrypt3, 18)
    BY DEF Core!One!Occupied, Core!E1!Occupied
  <2> QED
    BY <2>1, <2>2 DEF Core!One!InFlight
<1>5. Core!One!Outcome(encrypt3, 18) = encrypt3.odata
  BY DEF Core!One!Outcome
<1> QED
  BY <1>2, <1>3, <1>4, <1>5

\* The ports at an edge.
TbPorts(b, start) == [idata |-> b, key1 |-> KEY1, key2 |-> KEY2, key3 |-> KEY3,
                      decrypt |-> mode, valid_in |-> start]

\* What the testbenches expect of the cipher: the answers to the four vectors, which
\* TLC computes.
KnownAnswers ==
  \A n \in 1 .. 4 :
    Core!TripleCipher([idata |-> test_data[n], key1 |-> KEY1, key2 |-> KEY2, key3 |-> KEY3,
                       decrypt |-> FALSE, valid_in |-> TRUE]) = test_output[n]

\* A place for each input on its way, those that went in first further on, with what
\* is wanted of it; there is nothing else in the core.
Placed(place) ==
  /\ \A n \in received + 1 .. sent :
       Core!Holds(place[n]) /\ Core!Outcomes(place[n]) = {Wanted[n]}
  /\ \A m, n \in received + 1 .. sent : m < n => place[n] < place[m]
  /\ \A p \in 0 .. 56 : Core!Holds(p) => \E n \in received + 1 .. sent : place[n] = p

TbInv ==
  /\ Core!CoreTypeOK /\ Core!CoreReady
  /\ mode \in BOOLEAN /\ sent \in 0 .. 4 /\ received \in 0 .. sent
  /\ sent > 0 => Core!PortsHeld(TbPorts({}, FALSE))
  /\ \E place \in [1 .. 4 -> 0 .. 56] : Placed(place)

\* The vectors are blocks, and the keys are keys.
LEMMA TbWords ==
  /\ NUM_INPUTS = 4 /\ {} \in Word(64)
  /\ KEY1 \in Word(64) /\ KEY2 \in Word(64) /\ KEY3 \in Word(64)
  /\ \A n \in 1 .. 4 : test_data[n] \in Word(64) /\ test_output[n] \in Word(64)
<1>1. ASSUME NEW a, NEW b, NEW c, NEW d PROVE Word64(a, b, c, d) \in Word(64)
  <2>1. \A n : Vector(n, 16) \subseteq 0 .. 15
    BY DEF Vector
  <2>2. ASSUME NEW x, NEW y, NEW w \in Nat, x \subseteq 0 .. w - 1, y \subseteq 0 .. w - 1
        PROVE  Append2(x, y, w) \subseteq 0 .. 2 * w - 1
    <3>1. \A i \in x : i + w \in 0 .. 2 * w - 1
      BY <2>2
    <3>2. {i + w : i \in x} \subseteq 0 .. 2 * w - 1
      BY <3>1
    <3>3. y \subseteq 0 .. 2 * w - 1
      BY <2>2
    <3> QED
      BY <3>2, <3>3 DEF Append2
  <2>3. \A m, n : Append2(Vector(m, 16), Vector(n, 16), 16) \subseteq 0 .. 31
    <3>1. 16 \in Nat /\ 16 - 1 = 15 /\ 2 * 16 - 1 = 31
      OBVIOUS
    <3> QED
      BY <2>1, <2>2, <3>1
  <2>4. 32 \in Nat /\ 32 - 1 = 31 /\ 2 * 32 - 1 = 64 - 1
    OBVIOUS
  <2> DEFINE x == Append2(Vector(a, 16), Vector(b, 16), 16)
             y == Append2(Vector(c, 16), Vector(d, 16), 16)
  <2>5. x \subseteq 0 .. 31 /\ y \subseteq 0 .. 31 /\ Word64(a, b, c, d) = Append2(x, y, 32)
    BY <2>3 DEF Word64
  <2> HIDE DEF x, y
  <2>6. x \subseteq 0 .. 32 - 1 /\ y \subseteq 0 .. 32 - 1
    BY <2>5
  <2>7. Append2(x, y, 32) \subseteq 0 .. 2 * 32 - 1
    BY <2>2, <2>4, <2>6
  <2> QED
    BY <2>4, <2>5, <2>7 DEF Word
<1>2. KEY1 \in Word(64) /\ KEY2 \in Word(64) /\ KEY3 \in Word(64)
  BY <1>1 DEF KEY1, KEY2, KEY3
<1>3. ASSUME NEW n \in 1 .. 4 PROVE test_data[n] \in Word(64) /\ test_output[n] \in Word(64)
  <2>1. n = 1 \/ n = 2 \/ n = 3 \/ n = 4
    OBVIOUS
  <2> QED
    BY <1>1, <2>1 DEF test_data, test_output
<1>4. NUM_INPUTS = 4 /\ {} \in Word(64)
  BY DEF NUM_INPUTS, test_data, Word
<1> QED
  BY <1>2, <1>3, <1>4

\* The cipher gives what is wanted of what is given, in both modes.
LEMMA WantedOfGiven ==
  ASSUME KnownAnswers, mode \in BOOLEAN, NEW n \in 1 .. 4
  PROVE  /\ Core!TripleCipher(TbPorts(Given[n], TRUE)) = Wanted[n]
         /\ Given[n] \in Word(64)
<1> DEFINE i == [idata |-> test_data[n], key1 |-> KEY1, key2 |-> KEY2, key3 |-> KEY3,
                 decrypt |-> FALSE, valid_in |-> TRUE]
           j == [idata |-> test_output[n], key1 |-> KEY1, key2 |-> KEY2, key3 |-> KEY3,
                 decrypt |-> TRUE, valid_in |-> TRUE]
<1>1. Given[n] \in Word(64)
  BY TbWords DEF Given
<1>2. Core!TripleCipher(i) = test_output[n]
  BY DEF KnownAnswers
<1>3. CASE mode = FALSE
  BY <1>1, <1>2, <1>3 DEF TbPorts, Given, Wanted
<1>4. CASE mode = TRUE
  <2>1. i \in BoardPorts /\ j \in BoardPorts
    BY TbWords DEF BoardPorts
  <2>2. /\ j.decrypt = ~ i.decrypt /\ j.key1 = i.key1 /\ j.key2 = i.key2
        /\ j.key3 = i.key3 /\ j.idata = test_output[n] /\ i.idata = test_data[n]
    OBVIOUS
  <2>3. TbPorts(Given[n], TRUE) = j /\ Wanted[n] = test_data[n]
    BY <1>4 DEF TbPorts, Given, Wanted
  <2> HIDE DEF i, j
  <2>4. Core!TripleCipher(j) = i.idata
    BY <1>2, <2>1, <2>2, CoreUndone
  <2> QED
    BY <1>1, <2>2, <2>3, <2>4
<1> QED
  BY <1>3, <1>4

\* The block in the output register is the next one wanted, and there is none but at
\* the end of the line.
LEMMA FirstOut ==
  ASSUME TbInv, NEW place \in [1 .. 4 -> 0 .. 56], Placed(place)
  PROVE  /\ encrypt3.valid_out => received < sent /\ place[received + 1] = 56
         /\ \A n \in received + 1 .. sent :
              place[n] = 56 => encrypt3.valid_out /\ n = received + 1
<1>1. sent \in 0 .. 4 /\ received \in 0 .. sent
  BY DEF TbInv
<1>2. Core!Holds(56) = encrypt3.valid_out
  BY LastPlace
<1>3. ASSUME NEW n \in received + 1 .. sent, place[n] = 56
      PROVE  n = received + 1 /\ received < sent
  <2>1. received + 1 \in received + 1 .. sent /\ received + 1 \in 1 .. 4
    BY <1>1, <1>3
  <2>2. place[received + 1] \in 0 .. 56
    BY <2>1
  <2>3. received + 1 < n => place[n] < place[received + 1]
    BY <2>1 DEF Placed
  <2> QED
    BY <1>1, <1>3, <2>2, <2>3
<1>4. ASSUME encrypt3.valid_out
      PROVE  received < sent /\ place[received + 1] = 56
  <2>1. 56 \in 0 .. 56
    OBVIOUS
  <2>2. Core!Holds(56)
    BY <1>2, <1>4
  <2>3. PICK n \in received + 1 .. sent : place[n] = 56
    BY <2>1, <2>2 DEF Placed
  <2> QED
    BY <1>3, <2>3
<1>5. ASSUME NEW n \in received + 1 .. sent, place[n] = 56
      PROVE  encrypt3.valid_out
  BY <1>2, <1>5 DEF Placed
<1> QED
  BY <1>3, <1>4, <1>5

\* Each output is the one wanted.
LEMMA TbExpected == TbInv => OutputsExpected
<1> SUFFICES ASSUME TbInv, encrypt3.valid_out
             PROVE  received < NUM_INPUTS /\ encrypt3.odata = Wanted[received + 1]
  BY DEF OutputsExpected, Fsm!done, Fsm!valid_out, Fsm!odata
<1>1. PICK place \in [1 .. 4 -> 0 .. 56] : Placed(place)
  BY DEF TbInv
<1>2. received < sent /\ place[received + 1] = 56
  BY <1>1, FirstOut
<1>3. sent \in 0 .. 4 /\ received \in 0 .. sent
  BY DEF TbInv
<1>4. received + 1 \in received + 1 .. sent
  BY <1>2, <1>3
<1>5. Core!Outcomes(place[received + 1]) = {Wanted[received + 1]}
  BY <1>1, <1>4 DEF Placed
<1>6. {encrypt3.odata} = {Wanted[received + 1]}
  BY <1>2, <1>5, LastPlace
<1> QED
  BY <1>2, <1>3, <1>6, TbWords

\* The numbers of the inputs on their way, before an edge (from r + 1 to s) and after
\* it (from q + 1 to t).
LEMMA OnTheirWay ==
  ASSUME NEW r \in 0 .. 4, NEW s \in r .. 4, NEW q \in r .. s, NEW t \in s .. 4,
         q = r \/ q = r + 1, t = s \/ t = s + 1
  PROVE  /\ \A n \in q + 1 .. s : n \in r + 1 .. s /\ n \in 1 .. 4 /\ n # s + 1 /\ ~ (n <= q)
         /\ \A n \in q + 1 .. t : n \in q + 1 .. s \/ (t = s + 1 /\ n = s + 1)
         /\ \A m, n \in q + 1 .. t : m < n => m \in q + 1 .. s
         /\ \A n \in r + 1 .. s : n \in q + 1 .. s \/ (q = r + 1 /\ n = r + 1)
         /\ t = s + 1 => s + 1 \in q + 1 .. t
         /\ q + 1 .. s # {} => s > 0
         /\ q + 1 .. s \subseteq q + 1 .. t
OBVIOUS

\* An edge moves the inputs on, takes one in or none, and lets the first one go when
\* it is out.
LEMMA TbEdge ==
  ASSUME KnownAnswers, TbInv, NEW start \in BOOLEAN, Edge(start),
         start => sent < 4 /\ sent' = sent + 1, ~ start => sent' = sent
  PROVE  TbInv'
<1>1. PICK place \in [1 .. 4 -> 0 .. 56] : Placed(place)
  BY DEF TbInv
<1>2. /\ Core!CoreTypeOK /\ Core!CoreReady /\ mode \in BOOLEAN
      /\ sent > 0 => Core!PortsHeld(TbPorts({}, FALSE))
  BY DEF TbInv
<1>3. sent \in 0 .. 4 /\ received \in 0 .. sent
  BY DEF TbInv
<1>4. start => sent + 1 \in 1 .. 4
  BY <1>3
<1>5. PICK i : i = TbPorts(IF start THEN Given[sent + 1] ELSE {}, start)
  OBVIOUS
<1>6. /\ Fsm!FsmClock(i) /\ mode' = mode
      /\ received' = received + (IF encrypt3.valid_out THEN 1 ELSE 0)
  BY <1>5 DEF Edge, TbPorts, Fsm!done, Fsm!valid_out
<1>7. i \in BoardPorts /\ i.valid_in = start
  <2>1. (IF start THEN Given[sent + 1] ELSE {}) \in Word(64)
    BY <1>2, <1>4, TbWords, WantedOfGiven
  <2> QED
    BY <1>2, <1>5, <2>1, TbWords DEF TbPorts, BoardPorts
<1>8. start => Core!TripleCipher(i) = Wanted[sent + 1]
  <2>1. ASSUME start PROVE i = TbPorts(Given[sent + 1], TRUE)
    BY <1>5, <2>1
  <2> QED
    BY <1>2, <1>4, <2>1, WantedOfGiven
<1>9. /\ i.key1 = KEY1 /\ i.key2 = KEY2 /\ i.key3 = KEY3 /\ i.decrypt = mode
  BY <1>5 DEF TbPorts
<1>10. Core!CoreClock(i)
  BY <1>6, TbClocks
<1>11. Core!PortsHeld(TbPorts({}, FALSE)) <=> Core!PortsHeld(i)
  BY <1>9 DEF Core!PortsHeld, Core!stage1_key, Core!stage3_key, TbPorts
<1>12. Core!PortsHeld(TbPorts({}, FALSE))'
  <2>1. Core!PortsHeld(i)'
    BY <1>2, <1>7, <1>10, CoreKeys
  <2> QED
    BY <1>6, <1>9, <2>1 DEF Core!PortsHeld, Core!stage1_key, Core!stage3_key, TbPorts
<1>13. /\ Core!CoreTypeOK' /\ Core!CoreReady'
       /\ Core!Holds(0)' = start
       /\ \A p \in 0 .. 55 : Core!Holds(p + 1)' = Core!Holds(p)
       /\ start => Core!Outcomes(0)' = {Wanted[sent + 1]}
       /\ Core!PortsHeld(i) =>
            \A p \in 0 .. 55 : Core!Holds(p) => Core!Outcomes(p + 1)' = Core!Outcomes(p)
  BY <1>2, <1>7, <1>8, <1>10, CoreEdge
<1>14. /\ encrypt3.valid_out => received < sent /\ place[received + 1] = 56
       /\ \A n \in received + 1 .. sent :
            place[n] = 56 => encrypt3.valid_out /\ n = received + 1
  BY <1>1, FirstOut
\* An input is taken in exactly when start is set.
<1>15. sent' = sent \/ sent' = sent + 1
  OBVIOUS
<1>16. sent' = sent + 1 <=> start
  BY <1>3
<1>17. sent' \in 0 .. 4
  BY <1>3, <1>4
<1>18. /\ received' \in 0 .. sent /\ received <= received'
       /\ received' = received \/ (received < sent /\ received' = received + 1)
       /\ \A n \in received + 1 .. sent : place[n] = 56 => n <= received'
       /\ received' = received + 1 => place[received + 1] = 56
  <2>1. CASE encrypt3.valid_out
    <3>1. received' = received + 1 /\ received < sent /\ place[received + 1] = 56
      BY <1>6, <1>14, <2>1
    <3>2. \A n \in received + 1 .. sent : place[n] = 56 => n = received + 1
      BY <1>14
    <3> QED
      BY <1>3, <3>1, <3>2
  <2>2. CASE ~ encrypt3.valid_out
    <3>1. received' = received
      BY <1>3, <1>6, <2>2
    <3>2. \A n \in received + 1 .. sent : place[n] # 56
      BY <1>14, <2>2
    <3> QED
      BY <1>3, <3>1, <3>2
  <2> QED
    BY <2>1, <2>2
<1>19. received' \in 0 .. sent'
  BY <1>3, <1>15, <1>18
<1>20. /\ \A n \in received' + 1 .. sent : /\ n \in received + 1 .. sent /\ n \in 1 .. 4
                                            /\ n # sent + 1 /\ ~ (n <= received')
       /\ \A n \in received' + 1 .. sent' :
            n \in received' + 1 .. sent \/ (sent' = sent + 1 /\ n = sent + 1)
       /\ \A m, n \in received' + 1 .. sent' : m < n => m \in received' + 1 .. sent
       /\ \A n \in received + 1 .. sent :
            n \in received' + 1 .. sent \/ (received' = received + 1 /\ n = received + 1)
       /\ sent' = sent + 1 => sent + 1 \in received' + 1 .. sent'
       /\ received' + 1 .. sent # {} => sent > 0
       /\ received' + 1 .. sent \subseteq received' + 1 .. sent'
  <2>1. PICK r \in 0 .. 4, s \in 0 .. 4, q \in 0 .. 4, t \in 0 .. 4 :
          r = received /\ s = sent /\ q = received' /\ t = sent'
    <3>1. received \in 0 .. 4 /\ sent \in 0 .. 4 /\ received' \in 0 .. 4 /\ sent' \in 0 .. 4
      BY <1>3, <1>17, <1>18
    <3> QED
      BY <3>1
  <2>2. s \in r .. 4 /\ q \in r .. s /\ t \in s .. 4
    BY <1>3, <1>15, <1>18, <2>1
  <2>3. (q = r \/ q = r + 1) /\ (t = s \/ t = s + 1)
    BY <1>15, <1>18, <2>1
  <2>4. /\ \A n \in q + 1 .. s : n \in r + 1 .. s /\ n \in 1 .. 4 /\ n # s + 1 /\ ~ (n <= q)
        /\ \A n \in q + 1 .. t : n \in q + 1 .. s \/ (t = s + 1 /\ n = s + 1)
        /\ \A m, n \in q + 1 .. t : m < n => m \in q + 1 .. s
        /\ \A n \in r + 1 .. s : n \in q + 1 .. s \/ (q = r + 1 /\ n = r + 1)
        /\ t = s + 1 => s + 1 \in q + 1 .. t
        /\ q + 1 .. s # {} => s > 0
        /\ q + 1 .. s \subseteq q + 1 .. t
    BY <2>2, <2>3, OnTheirWay
  <2> QED
    BY <2>1, <2>4, Zenon
<1>21. PICK next \in [1 .. 4 -> 0 .. 56] :
         next = [n \in 1 .. 4 |-> IF n = sent + 1 THEN 0
                                  ELSE IF place[n] < 56 THEN place[n] + 1 ELSE 56]
  <2>1. ASSUME NEW n \in 1 .. 4
        PROVE  (IF n = sent + 1 THEN 0
                ELSE IF place[n] < 56 THEN place[n] + 1 ELSE 56) \in 0 .. 56
    <3>1. place[n] \in 0 .. 56
      OBVIOUS
    <3> QED
      BY <3>1
  <2>2. [n \in 1 .. 4 |-> IF n = sent + 1 THEN 0
                          ELSE IF place[n] < 56 THEN place[n] + 1 ELSE 56]
          \in [1 .. 4 -> 0 .. 56]
    BY <2>1
  <2> QED
    BY <2>2
\* The inputs that stay in the core.
<1>22. ASSUME NEW n \in received' + 1 .. sent
       PROVE  /\ n \in received + 1 .. sent /\ n \in 1 .. 4 /\ place[n] \in 0 .. 55
              /\ next[n] = place[n] + 1
              /\ Core!Holds(place[n]) /\ Core!Outcomes(place[n]) = {Wanted[n]}
  <2>1. n \in received + 1 .. sent /\ n \in 1 .. 4 /\ n # sent + 1 /\ ~ (n <= received')
    BY <1>20
  <2>2. place[n] # 56
    BY <1>18, <2>1
  <2>3. place[n] \in 0 .. 56
    BY <2>1
  <2>4. place[n] \in 0 .. 55
    BY <2>2, <2>3
  <2>5. Core!Holds(place[n]) /\ Core!Outcomes(place[n]) = {Wanted[n]}
    BY <1>1, <2>1 DEF Placed
  <2>6. next[n] = place[n] + 1
    BY <1>21, <2>1, <2>4
  <2> QED
    BY <2>1, <2>4, <2>5, <2>6
<1>23. sent' = sent + 1 => next[sent + 1] = 0
  BY <1>4, <1>16, <1>21
<1>24. ASSUME NEW n \in received' + 1 .. sent'
       PROVE  n \in received' + 1 .. sent \/ (sent' = sent + 1 /\ n = sent + 1)
  BY <1>20
<1>25. received' + 1 .. sent \subseteq received' + 1 .. sent'
  BY <1>20
<1>26. Wanted' = Wanted
  BY <1>6 DEF Wanted
<1>27. ASSUME NEW n \in received' + 1 .. sent'
       PROVE  Core!Holds(next[n])' /\ Core!Outcomes(next[n])' = {Wanted[n]}
  <2>1. CASE n \in received' + 1 .. sent
    <3>1. PICK p \in 0 .. 55 : p = place[n] /\ next[n] = p + 1
      BY <1>22, <2>1
    <3>2. Core!Holds(p) /\ Core!Outcomes(p) = {Wanted[n]}
      BY <1>22, <2>1, <3>1
    <3>3. Core!PortsHeld(i)
      <4>1. sent > 0
        BY <1>20, <2>1
      <4> QED
        BY <1>2, <1>11, <4>1
    <3>4. Core!Holds(p + 1)'
      BY <1>13, <3>2
    <3>5. Core!Outcomes(p + 1)' = {Wanted[n]}
      BY <1>13, <3>2, <3>3
    <3> QED
      BY <3>1, <3>4, <3>5
  <2>2. CASE sent' = sent + 1 /\ n = sent + 1
    <3>1. start /\ next[n] = 0
      BY <1>16, <1>23, <2>2
    <3>2. Core!Holds(0)' /\ Core!Outcomes(0)' = {Wanted[n]}
      BY <1>13, <2>2, <3>1
    <3> QED
      BY <3>1, <3>2
  <2> QED
    BY <1>24, <2>1, <2>2
<1>28. ASSUME NEW m \in received' + 1 .. sent', NEW n \in received' + 1 .. sent', m < n
       PROVE  next[n] < next[m]
  <2>1. m \in received' + 1 .. sent
    BY <1>28, <1>20
  <2>2. next[m] = place[m] + 1 /\ place[m] \in 0 .. 55
    BY <1>22, <2>1
  <2>3. CASE n \in received' + 1 .. sent
    <3>1. m \in received + 1 .. sent /\ n \in received + 1 .. sent
      BY <1>22, <2>1, <2>3
    <3>2. place[n] < place[m]
      BY <1>1, <1>28, <3>1 DEF Placed
    <3>3. next[n] = place[n] + 1 /\ place[n] \in 0 .. 55
      BY <1>22, <2>3
    <3> QED
      BY <2>2, <3>2, <3>3
  <2>4. CASE sent' = sent + 1 /\ n = sent + 1
    BY <1>23, <2>2, <2>4
  <2> QED
    BY <1>24, <2>3, <2>4
<1>29. ASSUME NEW p \in 0 .. 56, Core!Holds(p)'
       PROVE  \E n \in received' + 1 .. sent' : next[n] = p
  <2>1. CASE p = 0
    <3>1. start
      BY <1>13, <1>29, <2>1
    <3>2. sent' = sent + 1 /\ next[sent + 1] = 0
      BY <1>16, <1>23, <3>1
    <3>3. sent + 1 \in received' + 1 .. sent'
      BY <1>20, <3>2
    <3> QED
      BY <2>1, <3>2, <3>3
  <2>2. CASE p # 0
    <3>1. PICK q \in 0 .. 55 : p = q + 1
      <4>1. p - 1 \in 0 .. 55 /\ p = (p - 1) + 1
        BY <2>2
      <4> QED
        BY <4>1
    <3>2. Core!Holds(q)
      BY <1>13, <1>29, <3>1
    <3>3. q \in 0 .. 56 /\ q # 56
      BY <3>1
    <3>4. PICK n \in received + 1 .. sent : place[n] = q
      BY <1>1, <3>2, <3>3 DEF Placed
    <3>5. n \in received' + 1 .. sent
      <4>1. ~ (received' = received + 1 /\ n = received + 1)
        BY <1>18, <3>3, <3>4
      <4> QED
        BY <1>20, <4>1
    <3>6. next[n] = q + 1
      BY <1>22, <3>4, <3>5
    <3> QED
      BY <1>25, <3>1, <3>5, <3>6
  <2> QED
    BY <2>1, <2>2
<1>30. Placed(next)'
  BY <1>26, <1>27, <1>28, <1>29 DEF Placed
<1>31. (\E q \in [1 .. 4 -> 0 .. 56] : Placed(q))'
  BY <1>30
<1>32. mode' \in BOOLEAN
  BY <1>2, <1>6
<1> QED
  BY <1>12, <1>13, <1>17, <1>19, <1>31, <1>32 DEF TbInv

\* With everything received, nothing is left in the core: the mode may change.
LEMMA TbSwitch ==
  ASSUME TbInv, SwitchMode
  PROVE  TbInv'
<1>1. PICK place \in [1 .. 4 -> 0 .. 56] : Placed(place)
  BY DEF TbInv
<1>2. /\ encrypt1' = encrypt1 /\ decrypt2' = decrypt2 /\ encrypt3' = encrypt3
      /\ mode' = TRUE /\ sent' = 0 /\ received' = 0 /\ received = NUM_INPUTS
  BY DEF SwitchMode
<1>3. sent \in 0 .. 4 /\ received \in 0 .. sent
  BY DEF TbInv
<1>4. received + 1 .. sent = {} /\ received' + 1 .. sent' = {}
  <2>1. received = 4
    BY <1>2, TbWords
  <2> QED
    BY <1>2, <1>3, <2>1
<1>5. \A p \in 0 .. 56 : ~ Core!Holds(p)
  BY <1>1, <1>4 DEF Placed
<1>6. \A p : Core!Holds(p)' = Core!Holds(p)
  BY <1>2 DEF Core!Holds, Core!At, Core!E1!Occupied
<1>7. Placed(place)'
  BY <1>4, <1>5, <1>6 DEF Placed
<1>8. Core!CoreTypeOK' /\ Core!CoreReady'
  BY <1>2 DEF TbInv, Core!CoreTypeOK, Core!E1!TypeOK, Core!D2!TypeOK, Core!E3!TypeOK,
         Core!CoreReady, Core!Ready
<1>9. sent' \in 0 .. 4 /\ received' \in 0 .. sent' /\ ~ (sent' > 0)
  BY <1>2
<1> QED
  BY <1>2, <1>7, <1>8, <1>9 DEF TbInv

\* The core is empty when the testbenches begin.
LEMMA TbBegins == TbInit => TbInv
<1> SUFFICES ASSUME TbInit PROVE TbInv
  OBVIOUS
<1>1. /\ Core!CoreTypeOK /\ Core!CoreReady
      /\ \A p \in 0 .. 56 \ {0, 19, 38} : ~ Core!Holds(p)
  BY TbPowersUp, TbPlaces, BoardFacts, BoardFits, Core!InitHolds DEF Fits
<1>2. ~ Core!Holds(0) /\ ~ Core!Holds(19) /\ ~ Core!Holds(38)
  <2>1. 0 \in 0 .. Core!StageLen - 1 /\ Core!StageLen + 0 = 19 /\ 2 * Core!StageLen + 0 = 38
    BY TbPlaces
  <2>2. /\ Core!Holds(0) = Core!E1!Occupied(encrypt1, 0)
        /\ Core!Holds(19) = Core!E1!Occupied(decrypt2, 0)
        /\ Core!Holds(38) = Core!E1!Occupied(encrypt3, 0)
    BY <2>1, BoardFacts, BoardFits, Core!HoldsAt DEF Fits
  <2>3. \A s : Core!E1!Occupied(s, 0) = s.V_buf
    BY DEF Core!E1!Occupied
  <2> QED
    BY <2>2, <2>3, TbPowersUp
<1>3. \A p \in 0 .. 56 : ~ Core!Holds(p)
  BY <1>1, <1>2
<1>4. sent = 0 /\ received = 0 /\ mode = FALSE
  BY DEF TbInit
<1>5. received + 1 .. sent = {} /\ sent \in 0 .. 4 /\ received \in 0 .. sent /\ ~ (sent > 0)
  BY <1>4
<1>6. PICK place \in [1 .. 4 -> 0 .. 56] : place = [n \in 1 .. 4 |-> 0]
  <2>1. [n \in 1 .. 4 |-> 0] \in [1 .. 4 -> 0 .. 56]
    OBVIOUS
  <2> QED
    BY <2>1
<1>7. Placed(place)
  BY <1>3, <1>5 DEF Placed
<1> QED
  BY <1>1, <1>4, <1>5, <1>7 DEF TbInv

\* What a step that changes nothing leaves.
LEMMA TbStutters == TbInv /\ UNCHANGED tb => TbInv'
<1> SUFFICES ASSUME TbInv, UNCHANGED tb PROVE TbInv'
  OBVIOUS
<1>1. /\ encrypt1' = encrypt1 /\ decrypt2' = decrypt2 /\ encrypt3' = encrypt3
      /\ mode' = mode /\ sent' = sent /\ received' = received
  BY DEF tb
<1>2. PICK place \in [1 .. 4 -> 0 .. 56] : Placed(place)
  BY DEF TbInv
<1>3. /\ \A p : Core!Holds(p)' = Core!Holds(p)
      /\ \A p : Core!Outcomes(p)' = Core!Outcomes(p)
  BY <1>1 DEF Core!Holds, Core!At, Core!E1!Occupied, Core!Outcomes, Core!Through,
         Core!One!InFlight, Core!One!Outcome, Core!One!Occupied
<1>4. Placed(place)'
  BY <1>1, <1>2, <1>3 DEF Placed, Wanted
<1>5. Core!CoreTypeOK' /\ Core!CoreReady'
  BY <1>1 DEF TbInv, Core!CoreTypeOK, Core!E1!TypeOK, Core!D2!TypeOK, Core!E3!TypeOK,
         Core!CoreReady, Core!Ready
<1>6. sent' > 0 => Core!PortsHeld(TbPorts({}, FALSE))'
  BY <1>1 DEF TbInv, Core!PortsHeld, Core!stage1_key, Core!stage3_key, TbPorts
<1> QED
  BY <1>1, <1>4, <1>5, <1>6 DEF TbInv

(***************************************************************************)
(* With the four answers that TLC computes, the two testbenches see every   *)
(* output as they expect it, encrypting and then, without a reset between,  *)
(* decrypting, however many idle edges fall between their inputs and after  *)
(* them (des3_pipeline_tb.v, lines 52-69, and des3_tb.v, lines 94-97).      *)
(***************************************************************************)
THEOREM TestbenchesPass == KnownAnswers /\ TbSpec => []OutputsExpected
<1>1. ASSUME KnownAnswers, TbInv, [TbNext]_tb PROVE TbInv'
  <2>1. CASE Submit
    <3>1. Edge(TRUE) /\ sent < 4 /\ sent' = sent + 1
      BY <2>1, TbWords DEF Submit
    <3> QED
      BY <1>1, <3>1, TbEdge
  <2>2. CASE Gap
    <3>1. Edge(FALSE) /\ sent' = sent
      BY <2>2 DEF Gap
    <3> QED
      BY <1>1, <3>1, TbEdge
  <2>3. CASE Wait
    <3>1. Edge(FALSE) /\ sent' = sent
      BY <2>3 DEF Wait
    <3> QED
      BY <1>1, <3>1, TbEdge
  <2>4. CASE SwitchMode
    BY <1>1, <2>4, TbSwitch
  <2>5. CASE UNCHANGED tb
    BY <1>1, <2>5, TbStutters
  <2> QED
    BY <1>1, <2>1, <2>2, <2>3, <2>4, <2>5 DEF TbNext
<1>2. KnownAnswers => KnownAnswers'
  BY DEF KnownAnswers
<1> QED
  BY <1>1, <1>2, TbBegins, TbExpected, PTL DEF TbSpec
=============================================================================
