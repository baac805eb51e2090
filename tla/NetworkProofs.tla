--------------------------- MODULE NetworkProofs ---------------------------
(***************************************************************************)
(* Facts about the Feistel network for every number of rounds and every     *)
(* round function: its recursion is well defined, and it computes the same  *)
(* from its two ends.                                                       *)
(***************************************************************************)
EXTENDS FeistelNetwork, TLAPS, WellFoundedInduction

(***************************************************************************)
(* Induction over the natural numbers, for a set instead of a predicate:    *)
(* the least element outside S would have a predecessor in S.               *)
(***************************************************************************)
LEMMA NatSetInduction ==
    ASSUME NEW S \in SUBSET Nat, 0 \in S, \A n \in S : n + 1 \in S
    PROVE  S = Nat
<1>1. SUFFICES ASSUME Nat \ S # {} PROVE FALSE
  OBVIOUS
<1>2. PICK x \in Nat \ S : \A y \in Nat \ S : ~(<<y, x>> \in OpToRel(<, Nat))
  BY <1>1, WFMin, NatLessThanWellFounded
<1>3. x \in Nat /\ x # 0 /\ x \notin S
  OBVIOUS
<1>4. x - 1 \in Nat /\ x - 1 < x /\ x = (x - 1) + 1
  BY <1>3
<1>5. <<x - 1, x>> \in OpToRel(<, Nat)
  BY <1>3, <1>4 DEF OpToRel
<1>6. x - 1 \in S
  BY <1>2, <1>4, <1>5
<1>7. (x - 1) + 1 \in S
  BY <1>6
<1> QED
  BY <1>3, <1>4, <1>7

(***************************************************************************)
(* The recursive definition of Halves has a solution.                       *)
(***************************************************************************)
LEMMA HalvesUnfold ==
    ASSUME NEW m \in 0 .. Rounds, NEW lr, NEW rk
    PROVE  Halves(m, lr, rk) =
             [n \in m .. Rounds |->
                IF n = m THEN lr
                ELSE Round(Halves(m, lr, rk)[n-1], rk[n-1])]
<1> DEFINE Run(f, e) == f = [n \in m .. e |-> IF n = m THEN lr
                                            ELSE Round(f[n-1], rk[n-1])]
           S == {d \in Nat : \E f : Run(f, m + d)}
<1>0. m \in Nat /\ Rounds \in Nat /\ Rounds - m \in Nat
  BY RoundsAssumption
<1>1. 0 \in S
  <2>1. Run([n \in m .. m |-> lr], m + 0)
    BY <1>0
  <2> QED
    BY <2>1
<1>2. ASSUME NEW d \in S PROVE d + 1 \in S
  <2>1. d \in Nat
    OBVIOUS
  <2>2. PICK f : Run(f, m + d)
    OBVIOUS
  <2> DEFINE g == [n \in m .. m + (d + 1) |->
                     IF n = m THEN lr ELSE Round(f[n-1], rk[n-1])]
  <2>3. \A n \in m .. m + d : g[n] = f[n]
    BY <2>1, <2>2, <1>0
  <2>4. \A n \in m .. m + (d + 1) : n # m => n - 1 \in m .. m + d
    BY <2>1, <1>0
  <2>5. \A n \in m .. m + (d + 1) : n # m => g[n-1] = f[n-1]
    BY <2>3, <2>4
  <2>6. Run(g, m + (d + 1))
    BY <2>5
  <2> HIDE DEF g
  <2>7. \E h : Run(h, m + (d + 1))
    BY <2>6
  <2> QED
    BY <2>1, <2>7
<1>3. S = Nat
  <2> HIDE DEF S
  <2>1. S \in SUBSET Nat
    BY DEF S
  <2> QED
    BY <1>1, <1>2, <2>1, NatSetInduction
<1>4. \E f : Run(f, Rounds)
  <2>1. PICK f : Run(f, m + (Rounds - m))
    BY <1>0, <1>3
  <2>2. m + (Rounds - m) = Rounds
    BY <1>0
  <2> QED
    BY <2>1, <2>2
<1> QED
  BY <1>4 DEF Halves

\* The same, entry by entry.
LEMMA HalvesStart ==
    ASSUME NEW m \in 0 .. Rounds, NEW lr, NEW rk
    PROVE  Halves(m, lr, rk)[m] = lr
<1> DEFINE h == Halves(m, lr, rk)
<1>1. m \in m .. Rounds
  BY RoundsAssumption
<1>2. h = [n \in m .. Rounds |-> IF n = m THEN lr ELSE Round(h[n-1], rk[n-1])]
  BY HalvesUnfold
<1> HIDE DEF h
<1>3. h[m] = lr
  BY <1>1, <1>2
<1> QED
  BY <1>3 DEF h

\* One round swaps the halves and mixes one into the other.
LEMMA HalvesStep ==
    ASSUME NEW m \in 0 .. Rounds, NEW lr, NEW rk, NEW n \in m .. Rounds - 1
    PROVE  Halves(m, lr, rk)[n + 1] = Round(Halves(m, lr, rk)[n], rk[n])
<1> DEFINE h == Halves(m, lr, rk)
<1>1. n + 1 \in m .. Rounds /\ n + 1 # m /\ (n + 1) - 1 = n
  BY RoundsAssumption
<1>2. h = [i \in m .. Rounds |-> IF i = m THEN lr ELSE Round(h[i-1], rk[i-1])]
  BY HalvesUnfold
<1> HIDE DEF h
<1>3. h[n + 1] = Round(h[n], rk[n])
  BY <1>1, <1>2
<1> QED
  BY <1>3 DEF h

(***************************************************************************)
(* The halves after n rounds depend on the first n round keys only.         *)
(***************************************************************************)
LEMMA HalvesAgree ==
    ASSUME NEW lr, NEW rk1, NEW rk2, NEW n \in 0 .. Rounds,
           \A j \in 0 .. n - 1 : rk1[j] = rk2[j]
    PROVE  Halves(0, lr, rk1)[n] = Halves(0, lr, rk2)[n]
<1> DEFINE Same(e) == Halves(0, lr, rk1)[e] = Halves(0, lr, rk2)[e]
           S == {e \in Nat : e <= n => Same(e)}
<1>0. 0 \in 0 .. Rounds /\ n \in Nat /\ n <= Rounds /\ Rounds \in Nat
  BY RoundsAssumption
<1>1. 0 \in S
  BY <1>0, HalvesStart
<1>2. ASSUME NEW e \in S PROVE e + 1 \in S
  <2>1. SUFFICES ASSUME e + 1 <= n PROVE Same(e + 1)
    BY <1>0
  <2>2. e \in 0 .. n - 1 /\ e \in 0 .. Rounds - 1 /\ e <= n
    BY <2>1, <1>0
  <2>3. Same(e) /\ rk1[e] = rk2[e]
    BY <2>2
  <2> QED
    BY <1>0, <2>2, <2>3, HalvesStep
<1>3. S = Nat
  <2> HIDE DEF S
  <2>1. S \in SUBSET Nat
    BY DEF S
  <2> QED
    BY <1>1, <1>2, <2>1, NatSetInduction
<1> QED
  BY <1>0, <1>3

(***************************************************************************)
(* Running the first round by hand changes nothing to what follows.         *)
(***************************************************************************)
LEMMA HalvesFront ==
    ASSUME NEW m \in 0 .. Rounds - 1, NEW lr, NEW rk, NEW n \in m + 1 .. Rounds
    PROVE  Halves(m, lr, rk)[n] = Halves(m + 1, Round(lr, rk[m]), rk)[n]
<1> DEFINE A == Halves(m, lr, rk)
           B == Halves(m + 1, Round(lr, rk[m]), rk)
           S == {d \in Nat : m + 1 + d <= Rounds => A[m + 1 + d] = B[m + 1 + d]}
<1>0. /\ m \in Nat /\ Rounds \in Nat /\ m \in 0 .. Rounds
      /\ m + 1 \in 0 .. Rounds /\ m \in m .. Rounds - 1
  BY RoundsAssumption
<1>1. 0 \in S
  <2>1. A[m + 1] = Round(A[m], rk[m]) /\ A[m] = lr
    BY <1>0, HalvesStep, HalvesStart
  <2>2. B[m + 1] = Round(lr, rk[m])
    BY <1>0, HalvesStart
  <2> QED
    BY <1>0, <2>1, <2>2
<1>2. ASSUME NEW d \in S PROVE d + 1 \in S
  <2> DEFINE e == m + 1 + d
  <2>1. SUFFICES ASSUME e + 1 <= Rounds PROVE A[e + 1] = B[e + 1]
    BY <1>0
  <2>2. e \in m .. Rounds - 1 /\ e \in m + 1 .. Rounds - 1
    BY <1>0, <2>1
  <2>3. A[e] = B[e]
    BY <2>1, <1>0
  <2>4. A[e + 1] = Round(A[e], rk[e])
    BY <1>0, <2>2, HalvesStep
  <2>5. B[e + 1] = Round(B[e], rk[e])
    BY <1>0, <2>2, HalvesStep
  <2> QED
    BY <2>3, <2>4, <2>5
<1>3. S = Nat
  <2> HIDE DEF S
  <2>1. S \in SUBSET Nat
    BY DEF S
  <2> QED
    BY <1>1, <1>2, <2>1, NatSetInduction
<1>4. n - (m + 1) \in Nat /\ m + 1 + (n - (m + 1)) = n /\ n <= Rounds
  BY <1>0
<1>5. n - (m + 1) \in S
  <2> HIDE DEF S
  <2> QED
    BY <1>3, <1>4
<1> HIDE DEF A, B
<1>6. A[n] = B[n]
  BY <1>4, <1>5
<1> QED
  BY <1>6 DEF A, B

(***************************************************************************)
(* A block is finished the same from before and from after its next round.  *)
(***************************************************************************)
LEMMA FinishStep ==
    ASSUME NEW m \in 0 .. Rounds - 1, NEW lr, NEW rk
    PROVE  Finish(m, lr, rk) = Finish(m + 1, Round(lr, rk[m]), rk)
<1>1. Rounds \in m + 1 .. Rounds
  BY RoundsAssumption
<1>2. Halves(m, lr, rk)[Rounds] = Halves(m + 1, Round(lr, rk[m]), rk)[Rounds]
  BY <1>1, HalvesFront
<1> QED
  BY <1>2 DEF Finish

\* After the last round what is left is the crossing and the permutation.
LEMMA FinishLast ==
    ASSUME NEW lr, NEW rk
    PROVE  Finish(Rounds, lr, rk) = Join(<<lr[2], lr[1]>>)
<1>1. Rounds \in 0 .. Rounds
  BY RoundsAssumption
<1>2. Halves(Rounds, lr, rk)[Rounds] = lr
  BY <1>1, HalvesStart
<1> QED
  BY <1>2 DEF Finish

(***************************************************************************)
(* The halves of a block are halves after every round, when those of every  *)
(* round key are.                                                           *)
(***************************************************************************)
LEMMA HalvesType ==
    ASSUME NEW H, NEW m \in 0 .. Rounds, NEW lr \in H \X H, NEW rk,
           \A l, r \in H, k \in 0 .. Rounds - 1 : Xor(l, F(r, rk[k])) \in H,
           NEW n \in m .. Rounds
    PROVE  Halves(m, lr, rk)[n] \in H \X H
<1> DEFINE A == Halves(m, lr, rk)
           S == {d \in Nat : m + d <= Rounds => A[m + d] \in H \X H}
<1>0. m \in Nat /\ Rounds \in Nat
  BY RoundsAssumption
<1>1. 0 \in S
  BY <1>0, HalvesStart
<1>2. ASSUME NEW d \in S PROVE d + 1 \in S
  <2> DEFINE e == m + d
  <2>1. SUFFICES ASSUME e + 1 <= Rounds PROVE A[e + 1] \in H \X H
    BY <1>0
  <2>2. e \in m .. Rounds - 1 /\ e \in 0 .. Rounds - 1
    BY <1>0, <2>1
  <2>3. A[e] \in H \X H
    BY <2>1, <1>0
  <2>4. A[e + 1] = Round(A[e], rk[e])
    BY <1>0, <2>2, HalvesStep
  <2> HIDE DEF A, e
  <2>5. A[e][1] \in H /\ A[e][2] \in H
    BY <2>3
  <2>6. Xor(A[e][1], F(A[e][2], rk[e])) \in H
    BY <2>2, <2>5
  <2> QED
    BY <2>4, <2>5, <2>6 DEF Round
<1>3. S = Nat
  <2> HIDE DEF S
  <2>1. S \in SUBSET Nat
    BY DEF S
  <2> QED
    BY <1>1, <1>2, <2>1, NatSetInduction
<1>4. n - m \in Nat /\ m + (n - m) = n /\ n <= Rounds
  BY <1>0
<1>5. n - m \in S
  <2> HIDE DEF S
  <2> QED
    BY <1>3, <1>4
<1> HIDE DEF A
<1>6. A[n] \in H \X H
  BY <1>4, <1>5
<1> QED
  BY <1>6 DEF A

\* So what the network makes of them is a block.
LEMMA FinishType ==
    ASSUME NEW H, NEW B, \A l, r \in H : Join(<<l, r>>) \in B,
           NEW m \in 0 .. Rounds, NEW lr \in H \X H, NEW rk,
           \A l, r \in H, k \in 0 .. Rounds - 1 : Xor(l, F(r, rk[k])) \in H
    PROVE  Finish(m, lr, rk) \in B
<1>1. Rounds \in m .. Rounds
  BY RoundsAssumption
<1>2. Halves(m, lr, rk)[Rounds] \in H \X H
  BY <1>1, HalvesType
<1>3. PICK l \in H, r \in H : Halves(m, lr, rk)[Rounds] = <<l, r>>
  BY <1>2
<1>4. Finish(m, lr, rk) = Join(<<r, l>>)
  BY <1>3 DEF Finish
<1> QED
  BY <1>4

\* What is masked twice is what it was.
LEMMA XorTwice == ASSUME NEW a, NEW b PROVE Xor(Xor(a, b), b) = a
BY DEF Xor

(***************************************************************************)
(* From the last halves, crossed, the round keys in the opposite order lead *)
(* back through all the halves, crossed.                                    *)
(***************************************************************************)
LEMMA HalvesBack ==
    ASSUME NEW H, NEW lr \in H \X H, NEW rk, NEW kr, NEW back,
           \A l, r \in H, k \in 0 .. Rounds - 1 : Xor(l, F(r, rk[k])) \in H,
           \A k \in 0 .. Rounds - 1 : kr[k] = rk[Rounds - 1 - k],
           back = <<Halves(0, lr, rk)[Rounds][2], Halves(0, lr, rk)[Rounds][1]>>,
           NEW n \in 0 .. Rounds
    PROVE  Halves(0, back, kr)[n]
             = <<Halves(0, lr, rk)[Rounds - n][2], Halves(0, lr, rk)[Rounds - n][1]>>
<1> DEFINE A == Halves(0, lr, rk)
           B == Halves(0, back, kr)
           Met(e) == B[e] = <<A[Rounds - e][2], A[Rounds - e][1]>>
           S == {e \in Nat : e <= Rounds => Met(e)}
<1>0. Rounds \in Nat /\ Rounds > 0 /\ 0 \in 0 .. Rounds /\ Rounds - 0 = Rounds
  BY RoundsAssumption
<1>1. 0 \in S
  <2>1. B[0] = back
    BY <1>0, HalvesStart
  <2>2. back = <<A[Rounds][2], A[Rounds][1]>>
    OBVIOUS
  <2> HIDE DEF A, B
  <2> QED
    BY <1>0, <2>1, <2>2
<1>2. ASSUME NEW e \in S PROVE e + 1 \in S
  <2> HIDE DEF Met
  <2>1. SUFFICES ASSUME e + 1 <= Rounds PROVE Met(e + 1)
    BY <1>0
  <2>2. e \in Nat /\ e \in 0 .. Rounds - 1 /\ Met(e)
    BY <2>1, <1>0
  <2> DEFINE d == Rounds - (e + 1)
  <2>3. /\ d \in 0 .. Rounds - 1 /\ d \in 0 .. Rounds /\ Rounds - e = d + 1
        /\ Rounds - 1 - e = d
    BY <1>0, <2>1, <2>2
  <2>4. kr[e] = rk[d]
    BY <2>2, <2>3
  <2>5. B[e + 1] = Round(B[e], kr[e])
    BY <1>0, <2>2, HalvesStep
  <2>6. A[d + 1] = Round(A[d], rk[d])
    BY <1>0, <2>3, HalvesStep
  <2>7. A[d] \in H \X H
    BY <1>0, <2>3, HalvesType
  <2> USE DEF Met
  <2> HIDE DEF A, B, d
  <2>8. PICK l \in H, r \in H : A[d] = <<l, r>>
    BY <2>7
  <2>9. A[d + 1] = <<r, Xor(l, F(r, rk[d]))>>
    BY <2>6, <2>8 DEF Round
  <2>10. B[e] = <<A[d + 1][2], A[d + 1][1]>>
    BY <2>2, <2>3
  <2>11. B[e + 1] = <<r, Xor(Xor(l, F(r, rk[d])), F(r, rk[d]))>>
    BY <2>4, <2>5, <2>9, <2>10 DEF Round
  <2>12. B[e + 1] = <<A[d][2], A[d][1]>>
    BY <2>8, <2>11, XorTwice
  <2> QED
    BY <2>12 DEF d
<1>3. S = Nat
  <2> HIDE DEF S
  <2>1. S \in SUBSET Nat
    BY DEF S
  <2> QED
    BY <1>1, <1>2, <2>1, NatSetInduction
<1>4. Met(n)
  <2>1. n \in S /\ n <= Rounds
    <3> HIDE DEF S
    <3> QED
      BY <1>0, <1>3
  <2> HIDE DEF Met
  <2> QED
    BY <2>1
<1> QED
  BY <1>4

(***************************************************************************)
(* Deciphering undoes enciphering: with the round keys in the opposite      *)
(* order the same network takes the block it made back to the block it was  *)
(* given, whatever the round function (feistel_algo.v, lines 95-123, where  *)
(* only the order of the round keys depends on decrypt).                    *)
(***************************************************************************)
THEOREM CryptUndone ==
    ASSUME NEW H, NEW b, NEW rk, NEW kr,
           Split(b) \in H \X H, Join(Split(b)) = b,
           \A l, r \in H : Split(Join(<<l, r>>)) = <<l, r>>,
           \A l, r \in H, k \in 0 .. Rounds - 1 : Xor(l, F(r, rk[k])) \in H,
           \A k \in 0 .. Rounds - 1 : kr[k] = rk[Rounds - 1 - k]
    PROVE  Crypt(Crypt(b, rk), kr) = b
<1> DEFINE A == Halves(0, Split(b), rk)
<1>0. 0 \in 0 .. Rounds /\ Rounds \in 0 .. Rounds /\ Rounds - Rounds = 0
  BY RoundsAssumption
<1>1. A[Rounds] \in H \X H /\ A[0] = Split(b)
  <2>1. A[0] = Split(b)
    BY <1>0, HalvesStart
  <2>2. A[Rounds] \in H \X H
    BY <1>0, HalvesType
  <2> QED
    BY <2>1, <2>2
<1>2. PICK l \in H, r \in H : A[Rounds] = <<l, r>>
  BY <1>1
<1>3. Crypt(b, rk) = Join(<<r, l>>)
  BY <1>2 DEF Crypt, Finish
<1>4. Split(Crypt(b, rk)) = <<A[Rounds][2], A[Rounds][1]>>
  BY <1>2, <1>3
<1> DEFINE back == <<A[Rounds][2], A[Rounds][1]>>
           B == Halves(0, back, kr)
<1>5. B[Rounds] = <<A[Rounds - Rounds][2], A[Rounds - Rounds][1]>>
  <2> HIDE DEF back
  <2>1. back = <<Halves(0, Split(b), rk)[Rounds][2], Halves(0, Split(b), rk)[Rounds][1]>>
    BY DEF back
  <2>2. \A n \in 0 .. Rounds :
          Halves(0, back, kr)[n]
            = <<Halves(0, Split(b), rk)[Rounds - n][2], Halves(0, Split(b), rk)[Rounds - n][1]>>
    <3> TAKE n \in 0 .. Rounds
    <3> QED
      BY <2>1, HalvesBack
  <2> QED
    BY <1>0, <2>2
<1> HIDE DEF B
<1>6. B[Rounds] = <<Split(b)[2], Split(b)[1]>>
  BY <1>0, <1>1, <1>5
<1>7. PICK x \in H, y \in H : Split(b) = <<x, y>>
  OBVIOUS
<1>8. <<B[Rounds][2], B[Rounds][1]>> = Split(b)
  BY <1>6, <1>7
<1>9. Crypt(Crypt(b, rk), kr) = Join(<<B[Rounds][2], B[Rounds][1]>>)
  <2>1. Split(Crypt(b, rk)) = back
    BY <1>4
  <2> HIDE DEF back
  <2> QED
    BY <2>1 DEF Crypt, Finish, B
<1> QED
  BY <1>8, <1>9
=============================================================================
