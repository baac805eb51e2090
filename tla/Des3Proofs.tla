----------------------------- MODULE Des3Proofs -----------------------------
(***************************************************************************)
(* Proofs about des3.v and what is built on it, for every number of rounds, *)
(* permutation, round function and key schedule.                            *)
(***************************************************************************)
EXTENDS Firmware, Des3Reset, NetworkProofs, NumberFacts, FiniteSetTheorems

Fields == E1!Regs

\* The port values of one instance.
Sample == E1!Input

\* A round key schedule is one that the network can run under.
LEMMA ScheduleFits ==
  ASSUME NEW key \in Key, NEW d \in BOOLEAN
  PROVE  /\ \A l, r \in Half, k \in 0 .. Rounds - 1 :
              Xor(l, F(r, One!Schedule(key, d)[k])) \in Half
         /\ \A k \in 0 .. Rounds - 1 : One!Schedule(key, d)[k] = KS(key, d, k)
BY WidthAssumption DEF One!Schedule

\* What the network makes of a block is a block.
LEMMA CryptType ==
  ASSUME NEW b \in Block, NEW key \in Key, NEW d \in BOOLEAN
  PROVE  Crypt(b, One!Schedule(key, d)) \in Block
<1> DEFINE rk == One!Schedule(key, d)
<1>1. \A l, r \in Half, k \in 0 .. Rounds - 1 : Xor(l, F(r, rk[k])) \in Half
  BY ScheduleFits
<1>2. Split(b) \in Half \X Half /\ \A l, r \in Half : Join(<<l, r>>) \in Block
  BY WidthAssumption
<1>3. 0 \in 0 .. Rounds
  BY RoundsAssumption
<1> HIDE DEF rk
<1>4. Finish(0, Split(b), rk) \in Block
  BY <1>1, <1>2, <1>3, FinishType
<1> QED
  BY <1>4 DEF Crypt, rk

\* The operators that an instance of the pipeline has of its own are those of
\* this module.
LEMMA SameOperators ==
  /\ \A a, b : E1!Xor(a, b) = Xor(a, b)
  /\ \A m, lr, rk : One!Finish(m, lr, rk) = Finish(m, lr, rk)
  /\ \A b, rk : One!Crypt(b, rk) = Crypt(b, rk)
<1>1. \A a, b : E1!Xor(a, b) = Xor(a, b) /\ One!Xor(a, b) = Xor(a, b)
  BY DEF E1!Xor, One!Xor, Xor
<1>2. \A m, lr, rk : One!Halves(m, lr, rk) = Halves(m, lr, rk)
  BY DEF One!Halves, Halves, One!Round, Round, One!Xor, Xor
<1>3. \A m, lr, rk : One!Finish(m, lr, rk) = Finish(m, lr, rk)
  BY <1>2 DEF One!Finish, Finish
<1>4. \A b, rk : One!Crypt(b, rk) = Crypt(b, rk)
  BY <1>3 DEF One!Crypt, Crypt
<1> QED
  BY <1>1, <1>3, <1>4

-----------------------------------------------------------------------------
(* One instance at a clock edge. *)

\* Every register of `v' is what a clock edge makes of `s'.
Advanced(s, i, v) ==
  /\ v.key_in1 = i.key_in /\ v.key_in2 = i.key_in
  /\ v.decrypt1 = i.decrypt /\ v.decrypt2 = i.decrypt
  /\ v.V_buf = i.valid_in
  /\ v.L_buf = Split(i.idata)[1] /\ v.R_buf = Split(i.idata)[2]
  /\ v.V[0] = s.V_buf /\ v.L[0] = s.L_buf /\ v.R[0] = s.R_buf
  /\ \A k \in 1 .. Rounds :
       /\ v.V[k] = s.V[k - 1] /\ v.L[k] = s.R[k - 1]
       /\ v.R[k] = Xor(s.L[k - 1], F(s.R[k - 1], E1!K(s, k - 1)))
  /\ v.odata = Join(<<s.R[Rounds], s.L[Rounds]>>)
  /\ v.valid_out = s.V[Rounds]

\* A clock edge does that.
LEMMA ClockedFields ==
  ASSUME NEW s, NEW i, NEW v, v = E1!Clocked(s, i)
  PROVE  Advanced(s, i, v)
<1>1. 0 \in E1!Stage /\ \A k \in 1 .. Rounds : k \in E1!Stage /\ k # 0
  BY RoundsAssumption DEF E1!Stage
<1>2. /\ v.key_in1 = i.key_in /\ v.key_in2 = i.key_in
      /\ v.decrypt1 = i.decrypt /\ v.decrypt2 = i.decrypt
      /\ v.V_buf = i.valid_in
      /\ v.L_buf = Split(i.idata)[1] /\ v.R_buf = Split(i.idata)[2]
      /\ v.odata = Join(<<s.R[Rounds], s.L[Rounds]>>)
      /\ v.valid_out = s.V[Rounds]
  BY DEF E1!Clocked
<1>3. /\ v.V = [k \in E1!Stage |-> IF k = 0 THEN s.V_buf ELSE s.V[k-1]]
      /\ v.L = [k \in E1!Stage |-> IF k = 0 THEN s.L_buf ELSE s.R[k-1]]
      /\ v.R = [k \in E1!Stage |-> IF k = 0 THEN s.R_buf
                            ELSE Xor(s.L[k-1], F(s.R[k-1], E1!K(s, k-1)))]
  BY DEF E1!Clocked, E1!Xor, Xor
<1>4. v.V[0] = s.V_buf /\ v.L[0] = s.L_buf /\ v.R[0] = s.R_buf
  BY <1>1, <1>3
<1>5. ASSUME NEW k \in 1 .. Rounds
      PROVE  /\ v.V[k] = s.V[k - 1] /\ v.L[k] = s.R[k - 1]
             /\ v.R[k] = Xor(s.L[k - 1], F(s.R[k - 1], E1!K(s, k - 1)))
  BY <1>1, <1>3
<1> QED
  BY <1>2, <1>4, <1>5 DEF Advanced

\* Every register after a reset.
LEMMA ClearedFields ==
  ASSUME NEW s \in Fields, NEW v, v = E1!Cleared(s)
  PROVE  /\ v.key_in1 = s.key_in1 /\ v.key_in2 = s.key_in2
         /\ v.decrypt1 = s.decrypt1 /\ v.decrypt2 = s.decrypt2
         /\ v.V_buf = s.V_buf /\ v.L_buf = s.L_buf /\ v.R_buf = s.R_buf
         /\ \A k \in E1!Stage : v.V[k] = FALSE /\ v.L[k] = {} /\ v.R[k] = {}
         /\ v.odata = ZeroBlock /\ v.valid_out = FALSE
         /\ v \in Fields
<1>1. /\ s.key_in1 \in Key /\ s.key_in2 \in Key
      /\ s.decrypt1 \in BOOLEAN /\ s.decrypt2 \in BOOLEAN
      /\ s.V_buf \in BOOLEAN /\ s.L_buf \in Half /\ s.R_buf \in Half
  BY DEF Fields, E1!Regs
<1>2. v = [key_in1 |-> s.key_in1, key_in2 |-> s.key_in2,
           decrypt1 |-> s.decrypt1, decrypt2 |-> s.decrypt2,
           V_buf |-> s.V_buf, L_buf |-> s.L_buf, R_buf |-> s.R_buf,
           L |-> [k \in E1!Stage |-> {}], R |-> [k \in E1!Stage |-> {}],
           V |-> [k \in E1!Stage |-> FALSE],
           odata |-> ZeroBlock, valid_out |-> FALSE]
  BY DEF Fields, E1!Regs, E1!Cleared
<1>3. {} \in Half /\ ZeroBlock \in Block
  BY WidthAssumption
<1> QED
  BY <1>1, <1>2, <1>3 DEF Fields, E1!Regs

\* A cleared register set holds the keys and the block that were in it.
LEMMA ClearedKeeps ==
  ASSUME NEW s \in Fields
  PROVE  /\ E1!Cleared(s).key_in1 = s.key_in1 /\ E1!Cleared(s).decrypt1 = s.decrypt1
         /\ E1!Cleared(s).V_buf = s.V_buf
<1>1. PICK v : v = E1!Cleared(s)
  OBVIOUS
<1>2. v.key_in1 = s.key_in1 /\ v.decrypt1 = s.decrypt1 /\ v.V_buf = s.V_buf
  BY <1>1, ClearedFields
<1> QED
  BY <1>1, <1>2

\* A clock edge keeps the types.
LEMMA ClockedType ==
  ASSUME NEW s \in Fields, NEW i \in Sample
  PROVE  E1!Clocked(s, i) \in Fields
<1>1. /\ Rounds \in Nat \ {0}
      /\ s.key_in1 \in Key /\ s.key_in2 \in Key
      /\ s.decrypt1 \in BOOLEAN /\ s.decrypt2 \in BOOLEAN
      /\ s.V_buf \in BOOLEAN /\ s.L_buf \in Half /\ s.R_buf \in Half
      /\ s.L \in [E1!Stage -> Half] /\ s.R \in [E1!Stage -> Half]
      /\ s.V \in [E1!Stage -> BOOLEAN]
  BY RoundsAssumption DEF Fields, E1!Regs
<1>2. /\ i.idata \in Block /\ i.key_in \in Key
      /\ i.decrypt \in BOOLEAN /\ i.valid_in \in BOOLEAN
  BY DEF Sample, E1!Input
<1>3. Split(i.idata)[1] \in Half /\ Split(i.idata)[2] \in Half
  <2>1. Split(i.idata) \in Half \X Half
    BY <1>2, WidthAssumption
  <2> QED
    BY <2>1
<1>4. \A k \in E1!Stage : k # 0 => k - 1 \in E1!Stage /\ k - 1 \in 0 .. Rounds - 1
  BY <1>1 DEF E1!Stage
<1>5. [k \in E1!Stage |-> IF k = 0 THEN s.L_buf ELSE s.R[k-1]] \in [E1!Stage -> Half]
  BY <1>1, <1>4
<1>6. [k \in E1!Stage |-> IF k = 0 THEN s.V_buf ELSE s.V[k-1]] \in [E1!Stage -> BOOLEAN]
  BY <1>1, <1>4
<1>7. ASSUME NEW k \in 0 .. Rounds - 1, k \in E1!Stage
      PROVE  Xor(s.L[k], F(s.R[k], E1!K(s, k))) \in Half
  <2>1. s.L[k] \in Half /\ s.R[k] \in Half
    BY <1>1, <1>7
  <2>2. \E key \in Key, d \in BOOLEAN : E1!K(s, k) = KS(key, d, k)
    BY <1>1 DEF E1!K
  <2> QED
    BY <2>1, <2>2, WidthAssumption
<1>8. [k \in E1!Stage |-> IF k = 0 THEN s.R_buf
                   ELSE Xor(s.L[k-1], F(s.R[k-1], E1!K(s, k-1)))] \in [E1!Stage -> Half]
  BY <1>1, <1>4, <1>7
<1>9. Join(<<s.R[Rounds], s.L[Rounds]>>) \in Block /\ s.V[Rounds] \in BOOLEAN
  <2>1. Rounds \in E1!Stage
    BY <1>1 DEF E1!Stage
  <2>2. s.R[Rounds] \in Half /\ s.L[Rounds] \in Half
    BY <1>1, <2>1
  <2> QED
    BY <1>1, <2>1, <2>2, WidthAssumption
<1>10. PICK l \in [E1!Stage -> Half] :
         l = [k \in E1!Stage |-> IF k = 0 THEN s.L_buf ELSE s.R[k-1]]
  BY <1>5
<1>11. PICK r \in [E1!Stage -> Half] :
         r = [k \in E1!Stage |-> IF k = 0 THEN s.R_buf
                       ELSE Xor(s.L[k-1], F(s.R[k-1], E1!K(s, k-1)))]
  BY <1>8
<1>12. PICK v \in [E1!Stage -> BOOLEAN] :
         v = [k \in E1!Stage |-> IF k = 0 THEN s.V_buf ELSE s.V[k-1]]
  BY <1>6
<1>13. PICK o \in Block : o = Join(<<s.R[Rounds], s.L[Rounds]>>)
  BY <1>9
<1>14. E1!Clocked(s, i) =
         [key_in1 |-> i.key_in, key_in2 |-> i.key_in,
          decrypt1 |-> i.decrypt, decrypt2 |-> i.decrypt,
          V_buf |-> i.valid_in,
          L_buf |-> Split(i.idata)[1], R_buf |-> Split(i.idata)[2],
          L |-> l, R |-> r, V |-> v, odata |-> o, valid_out |-> s.V[Rounds]]
  BY <1>10, <1>11, <1>12, <1>13 DEF E1!Clocked, E1!Xor, Xor
<1> QED
  BY <1>2, <1>3, <1>9, <1>14 DEF Fields, E1!Regs

\* A clock edge moves every block one place on.
LEMMA OccupiedClocked ==
  ASSUME NEW s, NEW i, NEW v, Advanced(s, i, v)
  PROVE  /\ E1!Occupied(v, 0) = i.valid_in
         /\ \A p \in 0 .. Rounds + 1 : E1!Occupied(v, p + 1) = E1!Occupied(s, p)
<1>0. Rounds \in Nat \ {0}
  BY RoundsAssumption
<1>1. /\ v.V_buf = i.valid_in /\ v.V[0] = s.V_buf /\ v.valid_out = s.V[Rounds]
      /\ \A k \in 1 .. Rounds : v.V[k] = s.V[k - 1]
  BY DEF Advanced
<1>2. E1!Occupied(v, 0) = i.valid_in
  BY <1>0, <1>1 DEF E1!Occupied
<1>3. ASSUME NEW p \in 0 .. Rounds + 1
      PROVE  E1!Occupied(v, p + 1) = E1!Occupied(s, p)
  <2>1. CASE p = 0
    BY <1>0, <1>1, <2>1 DEF E1!Occupied
  <2>2. CASE p \in 1 .. Rounds
    <3>1. /\ E1!Occupied(v, p + 1) = v.V[(p + 1) - 1]
          /\ E1!Occupied(s, p) = s.V[p - 1]
      BY <1>0, <2>2 DEF E1!Occupied
    <3>2. (p + 1) - 1 = p
      BY <2>2
    <3> QED
      BY <1>1, <2>2, <3>1, <3>2
  <2>3. CASE p = Rounds + 1
    <3>1. E1!Occupied(v, Rounds + 2) = v.valid_out
      BY <1>0 DEF E1!Occupied
    <3>2. E1!Occupied(s, Rounds + 1) = s.V[(Rounds + 1) - 1]
      BY <1>0 DEF E1!Occupied
    <3>3. (Rounds + 1) - 1 = Rounds /\ p + 1 = Rounds + 2
      BY <1>0, <2>3
    <3> QED
      BY <1>1, <2>3, <3>1, <3>2, <3>3
  <2> QED
    BY <1>0, <2>1, <2>2, <2>3
<1> QED
  BY <1>2, <1>3

\* The two copies of the key and of the direction.
Settled(s) == s.key_in1 = s.key_in2 /\ s.decrypt1 = s.decrypt2

(***************************************************************************)
(* A block that meets no other key on its next round will be the same.      *)
(***************************************************************************)
LEMMA OutcomeClocked ==
  ASSUME NEW s \in Fields, NEW i \in Sample, NEW v, Advanced(s, i, v),
         NEW p \in 0 .. Rounds + 1,
         p < Rounds => i.key_in = s.key_in1 /\ i.decrypt = s.decrypt1,
         p \in 1 .. Rounds => Settled(s)
  PROVE  One!Outcome(v, p + 1) = One!Outcome(s, p)
<1> DEFINE rk == One!Schedule(s.key_in1, s.decrypt1)
           rk2 == One!Schedule(v.key_in1, v.decrypt1)
<1>0. Rounds \in Nat \ {0} /\ p \in Nat
  BY RoundsAssumption
<1>1. v.key_in1 = i.key_in /\ v.decrypt1 = i.decrypt
  BY DEF Advanced
<1>2. p < Rounds => rk2 = rk
  BY <1>1
<1> HIDE DEF rk, rk2
<1>3. CASE p = 0
  <2>1. v.L[0] = s.L_buf /\ v.R[0] = s.R_buf
    BY DEF Advanced
  <2>2. One!Outcome(s, 0) = Finish(0, <<s.L_buf, s.R_buf>>, rk)
    BY <1>0, SameOperators DEF One!Outcome, rk
  <2>3. One!Outcome(v, 1) = Finish(0, <<v.L[0], v.R[0]>>, rk2)
    BY <1>0, SameOperators DEF One!Outcome, rk2
  <2> QED
    BY <1>0, <1>2, <1>3, <2>1, <2>2, <2>3
<1>4. CASE p \in 1 .. Rounds
  <2>1. PICK k \in 0 .. Rounds - 1 : k = p - 1
    BY <1>0, <1>4
  <2>2. One!Outcome(s, p) = Finish(k, <<s.L[k], s.R[k]>>, rk)
    BY <1>0, <1>4, <2>1, SameOperators DEF One!Outcome, rk
  <2>3. One!Outcome(v, p + 1) = Finish(k + 1, <<v.L[k + 1], v.R[k + 1]>>, rk2)
    <3>1. PICK n \in 1 .. Rounds + 1 : n = p + 1 /\ n # 0 /\ n - 1 = k + 1
      BY <1>0, <1>4, <2>1
    <3>2. One!Outcome(v, n) = Finish(n - 1, <<v.L[n - 1], v.R[n - 1]>>, rk2)
      BY <1>0, <3>1, SameOperators DEF One!Outcome, rk2
    <3> QED
      BY <3>1, <3>2
  <2>4. E1!K(s, k) = rk[k]
    <3>1. /\ rk[k] = KS(s.key_in1, s.decrypt1, k)
      BY <2>1 DEF rk, One!Schedule
    <3>2. Settled(s)
      BY <1>4
    <3> QED
      BY <3>1, <3>2 DEF Settled, E1!K
  <2>5. /\ v.L[k + 1] = s.R[k]
        /\ v.R[k + 1] = Xor(s.L[k], F(s.R[k], rk[k]))
    <3>1. k + 1 \in 1 .. Rounds /\ (k + 1) - 1 = k
      BY <1>0, <2>1
    <3> QED
      BY <2>4, <3>1 DEF Advanced
  <2>6. <<v.L[k + 1], v.R[k + 1]>> = Round(<<s.L[k], s.R[k]>>, rk[k])
    BY <2>5 DEF Round
  <2>7. Finish(k, <<s.L[k], s.R[k]>>, rk) = Finish(k + 1, <<v.L[k + 1], v.R[k + 1]>>, rk)
    BY <2>6, FinishStep
  <2>8. CASE p < Rounds
    BY <1>2, <2>2, <2>3, <2>7, <2>8
  <2>9. CASE ~ (p < Rounds)
    <3>1. k + 1 = Rounds
      BY <1>0, <1>4, <2>1, <2>9
    <3>2. \A x : Finish(Rounds, x, rk) = Finish(Rounds, x, rk2)
      BY FinishLast
    <3> QED
      BY <2>2, <2>3, <2>7, <3>1, <3>2
  <2> QED
    BY <2>8, <2>9
<1>5. CASE p = Rounds + 1
  <2>1. One!Outcome(s, Rounds + 1) = Finish(Rounds, <<s.L[Rounds], s.R[Rounds]>>, rk)
    <3>1. (Rounds + 1) - 1 = Rounds /\ Rounds + 1 \in 1 .. Rounds + 1 /\ Rounds + 1 # 0
      BY <1>0
    <3> QED
      BY <3>1, SameOperators DEF One!Outcome, rk
  <2>2. One!Outcome(v, Rounds + 2) = v.odata
    BY <1>0 DEF One!Outcome
  <2>3. v.odata = Join(<<s.R[Rounds], s.L[Rounds]>>)
    BY DEF Advanced
  <2>4. Finish(Rounds, <<s.L[Rounds], s.R[Rounds]>>, rk) = Join(<<s.R[Rounds], s.L[Rounds]>>)
    BY FinishLast
  <2>5. p + 1 = Rounds + 2
    BY <1>0, <1>5
  <2> QED
    BY <1>5, <2>1, <2>2, <2>3, <2>4, <2>5
<1> QED
  BY <1>0, <1>3, <1>4, <1>5

\* A block still in an instance is one, and so is what it will be.
LEMMA OutcomeType ==
  ASSUME NEW s \in Fields, NEW p \in One!Position
  PROVE  One!Outcome(s, p) \in Block
<1> DEFINE rk == One!Schedule(s.key_in1, s.decrypt1)
<1>1. /\ s.key_in1 \in Key /\ s.decrypt1 \in BOOLEAN
      /\ s.L_buf \in Half /\ s.R_buf \in Half /\ s.odata \in Block
      /\ s.L \in [E1!Stage -> Half] /\ s.R \in [E1!Stage -> Half]
  BY DEF Fields, E1!Regs
<1>2. \A l, r \in Half, k \in 0 .. Rounds - 1 : Xor(l, F(r, rk[k])) \in Half
  BY <1>1, ScheduleFits
<1>3. \A l, r \in Half : Join(<<l, r>>) \in Block
  BY WidthAssumption
<1>4. Rounds \in Nat \ {0}
  BY RoundsAssumption
<1> HIDE DEF rk
<1>5. ASSUME NEW m \in 0 .. Rounds, NEW l \in Half, NEW r \in Half
      PROVE  Finish(m, <<l, r>>, rk) \in Block
  <2>1. PICK lr \in Half \X Half : lr = <<l, r>>
    OBVIOUS
  <2> QED
    BY <1>2, <1>3, <2>1, FinishType
<1>6. CASE p = 0
  <2>1. One!Outcome(s, 0) = Finish(0, <<s.L_buf, s.R_buf>>, rk)
    BY <1>4, SameOperators DEF One!Outcome, rk
  <2> QED
    BY <1>1, <1>4, <1>5, <1>6, <2>1
<1>7. CASE p \in 1 .. Rounds + 1
  <2>1. PICK k \in 0 .. Rounds : k = p - 1
    BY <1>4, <1>7
  <2>2. One!Outcome(s, p) = Finish(k, <<s.L[k], s.R[k]>>, rk)
    BY <1>4, <1>7, <2>1, SameOperators DEF One!Outcome, rk
  <2>3. k \in E1!Stage
    BY <2>1 DEF E1!Stage
  <2>4. s.L[k] \in Half /\ s.R[k] \in Half
    BY <1>1, <2>3
  <2> QED
    BY <1>5, <2>2, <2>4
<1>8. CASE p = Rounds + 2
  <2>1. One!Outcome(s, Rounds + 2) = s.odata
    BY <1>4 DEF One!Outcome
  <2> QED
    BY <1>1, <1>8, <2>1
<1> QED
  BY <1>4, <1>6, <1>7, <1>8 DEF One!Position

-----------------------------------------------------------------------------
(* The positions of the core. *)

\* A position is in one of the three instances.
LEMMA Positions ==
  /\ StageLen \in Nat \ {0} /\ StageLen = Rounds + 3
  /\ \A q \in 0 .. StageLen - 1 :
       /\ q \div StageLen = 0 /\ q % StageLen = q
       /\ (StageLen + q) \div StageLen = 1 /\ (StageLen + q) % StageLen = q
       /\ (2 * StageLen + q) \div StageLen = 2 /\ (2 * StageLen + q) % StageLen = q
  /\ \A p \in CorePosition : \E q \in 0 .. StageLen - 1 :
       p = q \/ p = StageLen + q \/ p = 2 * StageLen + q
  /\ One!Position = 0 .. StageLen - 1
<1>1. StageLen \in Nat \ {0} /\ StageLen = Rounds + 3
  BY RoundsAssumption DEF StageLen
<1>2. ASSUME NEW q \in 0 .. StageLen - 1
      PROVE  /\ q \div StageLen = 0 /\ q % StageLen = q
             /\ (StageLen + q) \div StageLen = 1 /\ (StageLen + q) % StageLen = q
             /\ (2 * StageLen + q) \div StageLen = 2 /\ (2 * StageLen + q) % StageLen = q
  <2>1. /\ q = StageLen * 0 + q /\ StageLen + q = StageLen * 1 + q
        /\ 2 * StageLen + q = StageLen * 2 + q
        /\ q \in Int /\ StageLen + q \in Int /\ 2 * StageLen + q \in Int
    BY <1>1
  <2> QED
    BY SMTT(40), <1>1, <2>1, DivModUnique
<1>3. ASSUME NEW p \in CorePosition
      PROVE  \E q \in 0 .. StageLen - 1 :
               p = q \/ p = StageLen + q \/ p = 2 * StageLen + q
  <2>1. CASE p < StageLen
    BY <1>1, <2>1 DEF CorePosition
  <2>2. CASE StageLen <= p /\ p < 2 * StageLen
    <3>1. p - StageLen \in 0 .. StageLen - 1 /\ p = StageLen + (p - StageLen)
      BY <1>1, <2>2 DEF CorePosition
    <3> QED
      BY <3>1
  <2>3. CASE 2 * StageLen <= p
    <3>1. p - 2 * StageLen \in 0 .. StageLen - 1 /\ p = 2 * StageLen + (p - 2 * StageLen)
      BY <1>1, <2>3 DEF CorePosition
    <3> QED
      BY <3>1
  <2> QED
    BY <1>1, <2>1, <2>2, <2>3 DEF CorePosition
<1>4. One!Position = 0 .. StageLen - 1
  BY <1>1, RoundsAssumption DEF One!Position
<1> QED
  BY <1>1, <1>2, <1>3, <1>4

\* What is at a position, now and after a step.
LEMMA HoldsAt ==
  ASSUME NEW q \in 0 .. StageLen - 1
  PROVE  /\ Holds(q) = E1!Occupied(encrypt1, q)
         /\ Holds(StageLen + q) = E1!Occupied(decrypt2, q)
         /\ Holds(2 * StageLen + q) = E1!Occupied(encrypt3, q)
         /\ Holds(q)' = E1!Occupied(encrypt1', q)
         /\ Holds(StageLen + q)' = E1!Occupied(decrypt2', q)
         /\ Holds(2 * StageLen + q)' = E1!Occupied(encrypt3', q)
<1>1. /\ q \div StageLen = 0 /\ q % StageLen = q
      /\ (StageLen + q) \div StageLen = 1 /\ (StageLen + q) % StageLen = q
      /\ (2 * StageLen + q) \div StageLen = 2 /\ (2 * StageLen + q) % StageLen = q
  BY Positions
<1>2. At(q) = encrypt1 /\ At(q)' = encrypt1'
  BY <1>1 DEF At
<1>3. At(StageLen + q) = decrypt2 /\ At(StageLen + q)' = decrypt2'
  BY <1>1 DEF At
<1>4. At(2 * StageLen + q) = encrypt3 /\ At(2 * StageLen + q)' = encrypt3'
  BY <1>1 DEF At
<1>5. \A p : /\ Holds(p) = E1!Occupied(At(p), p % StageLen)
            /\ Holds(p)' = E1!Occupied(At(p)', p % StageLen)
  BY DEF Holds
<1> QED
  BY <1>1, <1>2, <1>3, <1>4, <1>5

\* What becomes of the block at a place: it passes through what is left of its
\* own instance, and then through the instances behind that one.
LEMMA OutcomesAt ==
  ASSUME NEW q \in 0 .. StageLen - 1
  PROVE  /\ Outcomes(q) = Through(encrypt3, Through(decrypt2, One!InFlight(encrypt1)[q]))
         /\ Outcomes(StageLen + q) = Through(encrypt3, One!InFlight(decrypt2)[q])
         /\ Outcomes(2 * StageLen + q) = One!InFlight(encrypt3)[q]
         /\ Outcomes(q)' =
              Through(encrypt3', Through(decrypt2', One!InFlight(encrypt1')[q]))
         /\ Outcomes(StageLen + q)' = Through(encrypt3', One!InFlight(decrypt2')[q])
         /\ Outcomes(2 * StageLen + q)' = One!InFlight(encrypt3')[q]
<1>1. /\ q \div StageLen = 0 /\ q % StageLen = q
      /\ (StageLen + q) \div StageLen = 1 /\ (StageLen + q) % StageLen = q
      /\ (2 * StageLen + q) \div StageLen = 2 /\ (2 * StageLen + q) % StageLen = q
  BY Positions
<1>2. /\ Outcomes(q) = Through(encrypt3, Through(decrypt2, One!InFlight(encrypt1)[q]))
      /\ Outcomes(q)' =
           Through(encrypt3', Through(decrypt2', One!InFlight(encrypt1')[q]))
  BY <1>1 DEF Outcomes, At, Through
<1>3. /\ Outcomes(StageLen + q) = Through(encrypt3, One!InFlight(decrypt2)[q])
      /\ Outcomes(StageLen + q)' = Through(encrypt3', One!InFlight(decrypt2')[q])
  BY <1>1 DEF Outcomes, At, Through
<1>4. /\ Outcomes(2 * StageLen + q) = One!InFlight(encrypt3)[q]
      /\ Outcomes(2 * StageLen + q)' = One!InFlight(encrypt3')[q]
  BY <1>1 DEF Outcomes, At, Through
<1> QED
  BY <1>2, <1>3, <1>4

-----------------------------------------------------------------------------
(* The core at a clock edge and at a reset. *)

\* The registers of the three instances have their widths.
LEMMA CoreTypes ==
  /\ CoreTypeOK <=> encrypt1 \in Fields /\ decrypt2 \in Fields /\ encrypt3 \in Fields
  /\ CoreTypeOK' <=> encrypt1' \in Fields /\ decrypt2' \in Fields /\ encrypt3' \in Fields
<1>1. D2!Regs = Fields /\ E3!Regs = Fields
  BY DEF Fields, E1!Regs, D2!Regs, E3!Regs, E1!Stage, D2!Stage, E3!Stage
<1> QED
  BY <1>1 DEF CoreTypeOK, E1!TypeOK, D2!TypeOK, E3!TypeOK, Fields

\* The three instances move together, each on its own ports.
LEMMA CoreClockMoves ==
  ASSUME CoreTypeOK, NEW i \in PortType, CoreClock(i)
  PROVE  /\ Advanced(encrypt1, Ports1(i), encrypt1')
         /\ Advanced(decrypt2, Ports2(i), decrypt2')
         /\ Advanced(encrypt3, Ports3(i), encrypt3')
         /\ Ports1(i) \in Sample /\ Ports2(i) \in Sample /\ Ports3(i) \in Sample
         /\ CoreTypeOK'
<1>1. encrypt1 \in Fields /\ decrypt2 \in Fields /\ encrypt3 \in Fields
  BY CoreTypes
<1>2. /\ encrypt1' = E1!Clocked(encrypt1, Ports1(i))
      /\ decrypt2' = E1!Clocked(decrypt2, Ports2(i))
      /\ encrypt3' = E1!Clocked(encrypt3, Ports3(i))
  <2>1. encrypt1' = E1!Clocked(encrypt1, Ports1(i))
    BY DEF CoreClock, E1!Clock
  <2>2. decrypt2' = E1!Clocked(decrypt2, Ports2(i))
    BY DEF CoreClock, D2!Clock, D2!Clocked, E1!Clocked, D2!K, E1!K, D2!Stage, E1!Stage,
           D2!Xor, E1!Xor
  <2>3. encrypt3' = E1!Clocked(encrypt3, Ports3(i))
    BY DEF CoreClock, E3!Clock, E3!Clocked, E1!Clocked, E3!K, E1!K, E3!Stage, E1!Stage,
           E3!Xor, E1!Xor
  <2> QED
    BY <2>1, <2>2, <2>3
<1>3. /\ i.idata \in Block /\ i.key1 \in Key /\ i.key2 \in Key /\ i.key3 \in Key
      /\ i.decrypt \in BOOLEAN /\ i.valid_in \in BOOLEAN
  BY DEF PortType
<1>4. /\ encrypt1.odata \in Block /\ encrypt1.valid_out \in BOOLEAN
      /\ decrypt2.odata \in Block /\ decrypt2.valid_out \in BOOLEAN
  BY <1>1 DEF Fields, E1!Regs
<1>5. Ports1(i) \in Sample /\ Ports2(i) \in Sample /\ Ports3(i) \in Sample
  BY <1>3, <1>4 DEF Ports1, Ports2, Ports3, stage1_key, stage3_key, Sample, E1!Input
<1>6. encrypt1' \in Fields /\ decrypt2' \in Fields /\ encrypt3' \in Fields
  BY <1>1, <1>2, <1>5, ClockedType
<1> QED
  BY <1>2, <1>5, <1>6, ClockedFields, CoreTypes

\* A reset keeps what waits in front of the instances, and nothing else.
LEMMA CoreResetClears ==
  ASSUME CoreTypeOK, CoreReset
  PROVE  /\ encrypt1' = E1!Cleared(encrypt1) /\ decrypt2' = E1!Cleared(decrypt2)
         /\ encrypt3' = E1!Cleared(encrypt3)
         /\ CoreTypeOK'
<1>1. encrypt1 \in Fields /\ decrypt2 \in Fields /\ encrypt3 \in Fields
  BY CoreTypes
<1>2. encrypt1' = E1!Cleared(encrypt1)
  BY DEF CoreReset, E1!Reset
<1>3. decrypt2' = E1!Cleared(decrypt2)
  BY DEF CoreReset, D2!Reset, D2!Cleared, E1!Cleared, D2!Stage, E1!Stage
<1>4. encrypt3' = E1!Cleared(encrypt3)
  BY DEF CoreReset, E3!Reset, E3!Cleared, E1!Cleared, E3!Stage, E1!Stage
<1>5. encrypt1' \in Fields /\ decrypt2' \in Fields /\ encrypt3' \in Fields
  BY <1>1, <1>2, <1>3, <1>4, ClearedFields
<1> QED
  BY <1>2, <1>3, <1>4, <1>5, CoreTypes

\* Every block in the core moves one position on, into the next instance at the
\* end of one.
LEMMA ClockHolds ==
  ASSUME CoreTypeOK, NEW i \in PortType, CoreClock(i)
  PROVE  /\ Holds(0)' = i.valid_in
         /\ \A p \in 0 .. 3 * StageLen - 2 : Holds(p + 1)' = Holds(p)
<1>1. /\ Advanced(encrypt1, Ports1(i), encrypt1')
      /\ Advanced(decrypt2, Ports2(i), decrypt2')
      /\ Advanced(encrypt3, Ports3(i), encrypt3')
  BY CoreClockMoves
<1>2. Rounds \in Nat \ {0} /\ StageLen = Rounds + 3
  BY RoundsAssumption, Positions
<1>3. /\ E1!Occupied(encrypt1, Rounds + 2) = encrypt1.valid_out
      /\ E1!Occupied(decrypt2, Rounds + 2) = decrypt2.valid_out
  BY <1>2 DEF E1!Occupied
<1>4. /\ Ports1(i).valid_in = i.valid_in
      /\ Ports2(i).valid_in = encrypt1.valid_out
      /\ Ports3(i).valid_in = decrypt2.valid_out
  BY DEF Ports1, Ports2, Ports3
<1>5. /\ E1!Occupied(encrypt1', 0) = i.valid_in
      /\ E1!Occupied(decrypt2', 0) = E1!Occupied(encrypt1, Rounds + 2)
      /\ E1!Occupied(encrypt3', 0) = E1!Occupied(decrypt2, Rounds + 2)
  BY <1>1, <1>3, <1>4, OccupiedClocked
<1>6. ASSUME NEW q \in 0 .. Rounds + 1
      PROVE  /\ E1!Occupied(encrypt1', q + 1) = E1!Occupied(encrypt1, q)
             /\ E1!Occupied(decrypt2', q + 1) = E1!Occupied(decrypt2, q)
             /\ E1!Occupied(encrypt3', q + 1) = E1!Occupied(encrypt3, q)
  BY <1>1, OccupiedClocked
<1>7. Holds(0)' = i.valid_in
  <2>1. 0 \in 0 .. StageLen - 1
    BY <1>2
  <2>2. Holds(0)' = E1!Occupied(encrypt1', 0)
    BY <2>1, HoldsAt
  <2> QED
    BY <1>5, <2>2
<1>8. ASSUME NEW p \in 0 .. 3 * StageLen - 2
      PROVE  Holds(p + 1)' = Holds(p)
  <2>1. PICK q \in 0 .. StageLen - 1 :
          p = q \/ p = StageLen + q \/ p = 2 * StageLen + q
    <3>1. p \in CorePosition
      BY <1>2 DEF CorePosition
    <3> QED
      BY <3>1, Positions
  <2>2. CASE q \in 0 .. Rounds + 1
    <3>1. q + 1 \in 0 .. StageLen - 1 /\ q \in 0 .. StageLen - 1
      BY <1>2, <2>2
    <3>2. /\ Holds(q + 1)' = Holds(q)
          /\ Holds(StageLen + (q + 1))' = Holds(StageLen + q)
          /\ Holds(2 * StageLen + (q + 1))' = Holds(2 * StageLen + q)
      BY <1>6, <2>2, <3>1, HoldsAt
    <3>3. /\ p = StageLen + q => p + 1 = StageLen + (q + 1)
          /\ p = 2 * StageLen + q => p + 1 = 2 * StageLen + (q + 1)
      BY <1>2
    <3> QED
      BY <2>1, <3>2, <3>3
  <2>3. CASE q = Rounds + 2
    <3>1. 0 \in 0 .. StageLen - 1 /\ q \in 0 .. StageLen - 1
      BY <1>2
    <3>2. /\ Holds(StageLen + 0)' = Holds(q)
          /\ Holds(2 * StageLen + 0)' = Holds(StageLen + q)
      BY <1>5, <2>3, <3>1, HoldsAt
    <3>3. \/ p = q /\ p + 1 = StageLen + 0
          \/ p = StageLen + q /\ p + 1 = 2 * StageLen + 0
      BY <1>2, <2>1, <2>3
    <3> QED
      BY <3>2, <3>3
  <2>4. q \in 0 .. Rounds + 1 \/ q = Rounds + 2
    BY <1>2
  <2> QED
    BY <2>2, <2>3, <2>4
<1> QED
  BY <1>7, <1>8

\* The blocks that an instance will make of those at a place of it.
LEMMA InFlightAt ==
  ASSUME NEW s, NEW q \in 0 .. StageLen - 1
  PROVE  One!InFlight(s)[q] = IF E1!Occupied(s, q) THEN {One!Outcome(s, q)} ELSE {}
<1>1. q \in One!Position
  BY Positions
<1>2. One!Occupied(s, q) = E1!Occupied(s, q)
  BY DEF One!Occupied, E1!Occupied
<1> QED
  BY <1>1, <1>2 DEF One!InFlight

\* A pass through an instance whose key and direction are known.
Pass(s, b) == Crypt(b, One!Schedule(s.key_in1, s.decrypt1))

\* One block comes out of an instance as one block, and none as none.
LEMMA ThroughOne ==
  /\ \A s, b : Through(s, {b}) = {Pass(s, b)}
  /\ \A s : Through(s, {}) = {}
<1>1. ASSUME NEW s, NEW b PROVE Through(s, {b}) = {Pass(s, b)}
  BY DEF Through, Pass
<1>2. ASSUME NEW s PROVE Through(s, {}) = {}
  BY DEF Through
<1> QED
  BY <1>1, <1>2

\* Through depends on the key and the direction only.
LEMMA PassSame ==
  ASSUME NEW s, NEW t, s.key_in1 = t.key_in1, s.decrypt1 = t.decrypt1
  PROVE  \A bs : Through(s, bs) = Through(t, bs)
BY DEF Through

\* An instance in whose rounds there is a block has both copies of one key.
Ready(s) == (\E q \in 1 .. Rounds : E1!Occupied(s, q)) => Settled(s)

CoreReady == Ready(encrypt1) /\ Ready(decrypt2) /\ Ready(encrypt3)

\* A clock edge at which the ports hold the keys and directions that the first
\* registers of the instances hold.
PortsHeld(i) ==
  /\ stage1_key(i) = encrypt1.key_in1 /\ i.decrypt = encrypt1.decrypt1
  /\ i.key2 = decrypt2.key_in1 /\ stage3_key(i) = encrypt3.key_in1
  /\ i.decrypt = ~decrypt2.decrypt1 /\ i.decrypt = encrypt3.decrypt1

\* The ports of the instances after such an edge.
LEMMA PortsHeldKeep ==
  ASSUME CoreTypeOK, NEW i \in PortType, CoreClock(i), PortsHeld(i)
  PROVE  /\ Ports1(i).key_in = encrypt1.key_in1 /\ Ports1(i).decrypt = encrypt1.decrypt1
         /\ Ports2(i).key_in = decrypt2.key_in1 /\ Ports2(i).decrypt = decrypt2.decrypt1
         /\ Ports3(i).key_in = encrypt3.key_in1 /\ Ports3(i).decrypt = encrypt3.decrypt1
         /\ encrypt1'.key_in1 = encrypt1.key_in1 /\ encrypt1'.decrypt1 = encrypt1.decrypt1
         /\ decrypt2'.key_in1 = decrypt2.key_in1 /\ decrypt2'.decrypt1 = decrypt2.decrypt1
         /\ encrypt3'.key_in1 = encrypt3.key_in1 /\ encrypt3'.decrypt1 = encrypt3.decrypt1
<1>1. /\ Ports1(i).key_in = encrypt1.key_in1 /\ Ports1(i).decrypt = encrypt1.decrypt1
      /\ Ports2(i).key_in = decrypt2.key_in1
      /\ Ports3(i).key_in = encrypt3.key_in1 /\ Ports3(i).decrypt = encrypt3.decrypt1
  BY DEF PortsHeld, Ports1, Ports2, Ports3
<1>2. Ports2(i).decrypt = decrypt2.decrypt1
  <2>1. i.decrypt \in BOOLEAN /\ decrypt2.decrypt1 \in BOOLEAN
    BY CoreTypes DEF PortType, Fields, E1!Regs
  <2>2. Ports2(i).decrypt = ~i.decrypt /\ i.decrypt = ~decrypt2.decrypt1
    BY DEF PortsHeld, Ports2
  <2> QED
    BY <2>1, <2>2
<1>3. /\ Advanced(encrypt1, Ports1(i), encrypt1')
      /\ Advanced(decrypt2, Ports2(i), decrypt2')
      /\ Advanced(encrypt3, Ports3(i), encrypt3')
  BY CoreClockMoves
<1> QED
  BY <1>1, <1>2, <1>3 DEF Advanced

\* The blocks at the places of one instance, a clock edge later.
LEMMA InFlightMoves ==
  ASSUME NEW s \in Fields, NEW i \in Sample, NEW v, Advanced(s, i, v),
         NEW q \in 0 .. Rounds + 1, Ready(s), E1!Occupied(s, q),
         q < Rounds => i.key_in = s.key_in1 /\ i.decrypt = s.decrypt1
  PROVE  One!InFlight(v)[q + 1] = One!InFlight(s)[q]
<1>1. q + 1 \in 0 .. StageLen - 1 /\ q \in 0 .. StageLen - 1
  BY Positions, RoundsAssumption
<1>2. E1!Occupied(v, q + 1)
  BY OccupiedClocked
<1>3. q \in 1 .. Rounds => Settled(s)
  BY DEF Ready
<1>4. One!Outcome(v, q + 1) = One!Outcome(s, q)
  BY <1>3, OutcomeClocked
<1> QED
  BY <1>1, <1>2, <1>4, InFlightAt

\* A block that leaves one instance enters the next.
LEMMA InFlightCrosses ==
  ASSUME NEW s, NEW i, NEW t, NEW v, Advanced(t, i, v), s \in Fields,
         E1!Occupied(s, Rounds + 2), i.idata = s.odata, i.valid_in = s.valid_out,
         i.key_in = t.key_in1, i.decrypt = t.decrypt1
  PROVE  One!InFlight(v)[0] = Through(t, One!InFlight(s)[Rounds + 2])
<1>0. Rounds \in Nat \ {0} /\ StageLen = Rounds + 3
  BY RoundsAssumption, Positions
<1>1. E1!Occupied(s, Rounds + 2) = s.valid_out
  BY <1>0 DEF E1!Occupied
<1>2. E1!Occupied(v, 0)
  BY <1>1, OccupiedClocked
<1>3. One!Outcome(v, 0) = Pass(t, s.odata)
  <2>1. One!Outcome(v, 0) = Finish(0, <<v.L_buf, v.R_buf>>, One!Schedule(v.key_in1, v.decrypt1))
    BY <1>0, SameOperators DEF One!Outcome
  <2>2. v.key_in1 = t.key_in1 /\ v.decrypt1 = t.decrypt1
    BY DEF Advanced
  <2>3. <<v.L_buf, v.R_buf>> = Split(s.odata)
    <3>1. Split(s.odata) \in Half \X Half
      BY WidthAssumption DEF Fields, E1!Regs
    <3>2. v.L_buf = Split(s.odata)[1] /\ v.R_buf = Split(s.odata)[2]
      BY DEF Advanced
    <3> QED
      BY <3>1, <3>2
  <2> QED
    BY <2>1, <2>2, <2>3 DEF Pass, Crypt
<1>4. One!Outcome(s, Rounds + 2) = s.odata
  BY <1>0 DEF One!Outcome
<1>5. 0 \in 0 .. StageLen - 1 /\ Rounds + 2 \in 0 .. StageLen - 1
  BY <1>0
<1>6. One!InFlight(v)[0] = {Pass(t, s.odata)}
  BY <1>2, <1>3, <1>5, InFlightAt
<1>7. One!InFlight(s)[Rounds + 2] = {s.odata}
  BY <1>4, <1>5, InFlightAt
<1> QED
  BY <1>6, <1>7, ThroughOne

(***************************************************************************)
(* What a block will be when it leaves the core does not change at a clock  *)
(* edge that holds the keys for as long as it needs them.                   *)
(***************************************************************************)
LEMMA ClockOutcomes ==
  ASSUME CoreTypeOK, CoreReady, NEW i \in PortType, CoreClock(i),
         NEW p \in 0 .. 3 * StageLen - 2, Holds(p),
         p < 2 * StageLen + Rounds => PortsHeld(i)
  PROVE  Outcomes(p + 1)' = Outcomes(p)
<1>1. /\ Advanced(encrypt1, Ports1(i), encrypt1')
      /\ Advanced(decrypt2, Ports2(i), decrypt2')
      /\ Advanced(encrypt3, Ports3(i), encrypt3')
      /\ Ports1(i) \in Sample /\ Ports2(i) \in Sample /\ Ports3(i) \in Sample
  BY CoreClockMoves
<1>2. Rounds \in Nat \ {0} /\ StageLen = Rounds + 3 /\ StageLen \in Nat
  BY RoundsAssumption, Positions
<1>3. encrypt1 \in Fields /\ decrypt2 \in Fields /\ encrypt3 \in Fields
  BY CoreTypes
<1>4. Ready(encrypt1) /\ Ready(decrypt2) /\ Ready(encrypt3)
  BY DEF CoreReady
<1>5. PICK q \in 0 .. StageLen - 1 :
        p = q \/ p = StageLen + q \/ p = 2 * StageLen + q
  <2>1. p \in CorePosition
    BY <1>2 DEF CorePosition
  <2> QED
    BY <2>1, Positions
<1>6. ASSUME PortsHeld(i)
      PROVE  /\ \A bs : Through(encrypt3', bs) = Through(encrypt3, bs)
             /\ \A bs : Through(decrypt2', bs) = Through(decrypt2, bs)
  BY <1>6, PortsHeldKeep, PassSame
<1>7. CASE q \in 0 .. Rounds + 1
  <2>1. q + 1 \in 0 .. StageLen - 1
    BY <1>2, <1>7
  <2>2. CASE p = q
    <3>1. PortsHeld(i)
      BY <1>2, <1>7, <2>2
    <3>2. E1!Occupied(encrypt1, q)
      BY <2>2, HoldsAt
    <3>3. One!InFlight(encrypt1')[q + 1] = One!InFlight(encrypt1)[q]
      BY <1>1, <1>3, <1>4, <1>7, <3>1, <3>2, PortsHeldKeep, InFlightMoves
    <3>4. Outcomes(q) = Through(encrypt3, Through(decrypt2, One!InFlight(encrypt1)[q]))
      BY OutcomesAt
    <3>5. Outcomes(q + 1)' =
            Through(encrypt3', Through(decrypt2', One!InFlight(encrypt1')[q + 1]))
      BY <2>1, OutcomesAt
    <3> QED
      BY <1>6, <2>2, <3>1, <3>3, <3>4, <3>5
  <2>3. CASE p = StageLen + q
    <3>1. PortsHeld(i) /\ p + 1 = StageLen + (q + 1)
      BY <1>2, <1>7, <2>3
    <3>2. E1!Occupied(decrypt2, q)
      BY <2>3, HoldsAt
    <3>3. One!InFlight(decrypt2')[q + 1] = One!InFlight(decrypt2)[q]
      BY <1>1, <1>3, <1>4, <1>7, <3>1, <3>2, PortsHeldKeep, InFlightMoves
    <3>4. Outcomes(StageLen + q) = Through(encrypt3, One!InFlight(decrypt2)[q])
      BY OutcomesAt
    <3>5. Outcomes(StageLen + (q + 1))' = Through(encrypt3', One!InFlight(decrypt2')[q + 1])
      BY <2>1, OutcomesAt
    <3> QED
      BY <1>6, <2>3, <3>1, <3>3, <3>4, <3>5
  <2>4. CASE p = 2 * StageLen + q
    <3>1. (q < Rounds => PortsHeld(i)) /\ p + 1 = 2 * StageLen + (q + 1)
      BY <1>2, <1>7, <2>4
    <3>2. E1!Occupied(encrypt3, q)
      BY <2>4, HoldsAt
    <3>3. One!InFlight(encrypt3')[q + 1] = One!InFlight(encrypt3)[q]
      BY <1>1, <1>3, <1>4, <1>7, <3>1, <3>2, PortsHeldKeep, InFlightMoves
    <3>4. Outcomes(2 * StageLen + q) = One!InFlight(encrypt3)[q]
      BY OutcomesAt
    <3>5. Outcomes(2 * StageLen + (q + 1))' = One!InFlight(encrypt3')[q + 1]
      BY <2>1, OutcomesAt
    <3> QED
      BY <2>4, <3>1, <3>3, <3>4, <3>5
  <2> QED
    BY <1>5, <2>2, <2>3, <2>4
<1>8. CASE q = Rounds + 2
  <2>1. 0 \in 0 .. StageLen - 1 /\ q \in 0 .. StageLen - 1
    BY <1>2
  <2>2. PortsHeld(i)
    BY <1>2, <1>5, <1>8
  <2>3. /\ Ports2(i).idata = encrypt1.odata /\ Ports2(i).valid_in = encrypt1.valid_out
        /\ Ports3(i).idata = decrypt2.odata /\ Ports3(i).valid_in = decrypt2.valid_out
    BY DEF Ports2, Ports3
  <2>4. /\ Ports2(i).key_in = decrypt2.key_in1 /\ Ports2(i).decrypt = decrypt2.decrypt1
        /\ Ports3(i).key_in = encrypt3.key_in1 /\ Ports3(i).decrypt = encrypt3.decrypt1
    BY <2>2, PortsHeldKeep
  <2>5. CASE p = q
    <3>1. E1!Occupied(encrypt1, Rounds + 2)
      BY <1>8, <2>5, HoldsAt
    <3>2. One!InFlight(decrypt2')[0] = Through(decrypt2, One!InFlight(encrypt1)[Rounds + 2])
      BY <1>1, <1>3, <2>3, <2>4, <3>1, InFlightCrosses
    <3>3. Outcomes(q) = Through(encrypt3, Through(decrypt2, One!InFlight(encrypt1)[q]))
      BY OutcomesAt
    <3>4. Outcomes(StageLen + 0)' = Through(encrypt3', One!InFlight(decrypt2')[0])
      BY <2>1, OutcomesAt
    <3>5. p + 1 = StageLen + 0
      BY <1>2, <1>8, <2>5
    <3> QED
      BY <1>6, <1>8, <2>2, <2>5, <3>2, <3>3, <3>4, <3>5
  <2>6. CASE p = StageLen + q
    <3>1. E1!Occupied(decrypt2, Rounds + 2)
      BY <1>8, <2>6, HoldsAt
    <3>2. One!InFlight(encrypt3')[0] = Through(encrypt3, One!InFlight(decrypt2)[Rounds + 2])
      BY <1>1, <1>3, <2>3, <2>4, <3>1, InFlightCrosses
    <3>3. Outcomes(StageLen + q) = Through(encrypt3, One!InFlight(decrypt2)[q])
      BY OutcomesAt
    <3>4. Outcomes(2 * StageLen + 0)' = One!InFlight(encrypt3')[0]
      BY <2>1, OutcomesAt
    <3>5. p + 1 = 2 * StageLen + 0
      BY <1>2, <1>8, <2>6
    <3> QED
      BY <1>8, <2>6, <3>2, <3>3, <3>4, <3>5
  <2>7. p # 2 * StageLen + q
    BY <1>2, <1>8
  <2> QED
    BY <1>5, <2>5, <2>6, <2>7
<1>9. q \in 0 .. Rounds + 1 \/ q = Rounds + 2
  BY <1>2
<1> QED
  BY <1>7, <1>8, <1>9

\* A block comes in as what triple DES will make of it.
LEMMA ClockEnters ==
  ASSUME CoreTypeOK, NEW i \in PortType, CoreClock(i), i.valid_in
  PROVE  Outcomes(0)' = {TripleCipher(i)}
<1> DEFINE b == Crypt(i.idata, One!Schedule(stage1_key(i), i.decrypt))
           c == Crypt(b, One!Schedule(i.key2, ~i.decrypt))
           d == Crypt(c, One!Schedule(stage3_key(i), i.decrypt))
<1>0. Rounds \in Nat \ {0} /\ StageLen = Rounds + 3 /\ 0 \in 0 .. StageLen - 1
  BY RoundsAssumption, Positions
<1>1. /\ Advanced(encrypt1, Ports1(i), encrypt1')
      /\ Advanced(decrypt2, Ports2(i), decrypt2')
      /\ Advanced(encrypt3, Ports3(i), encrypt3')
  BY CoreClockMoves
<1>2. /\ Ports1(i).valid_in /\ Ports1(i).idata = i.idata
      /\ Ports1(i).key_in = stage1_key(i) /\ Ports1(i).decrypt = i.decrypt
      /\ Ports2(i).key_in = i.key2 /\ Ports2(i).decrypt = ~i.decrypt
      /\ Ports3(i).key_in = stage3_key(i) /\ Ports3(i).decrypt = i.decrypt
  BY DEF Ports1, Ports2, Ports3
<1>3. /\ encrypt1'.key_in1 = stage1_key(i) /\ encrypt1'.decrypt1 = i.decrypt
      /\ decrypt2'.key_in1 = i.key2 /\ decrypt2'.decrypt1 = ~i.decrypt
      /\ encrypt3'.key_in1 = stage3_key(i) /\ encrypt3'.decrypt1 = i.decrypt
  BY <1>1, <1>2 DEF Advanced
<1>4. One!InFlight(encrypt1')[0] = {b}
  <2>1. E1!Occupied(encrypt1', 0)
    BY <1>1, <1>2, OccupiedClocked
  <2>2. One!Outcome(encrypt1', 0) =
          Finish(0, <<encrypt1'.L_buf, encrypt1'.R_buf>>,
                 One!Schedule(encrypt1'.key_in1, encrypt1'.decrypt1))
    BY <1>0, SameOperators DEF One!Outcome
  <2>3. <<encrypt1'.L_buf, encrypt1'.R_buf>> = Split(i.idata)
    <3>1. Split(i.idata) \in Half \X Half
      BY WidthAssumption DEF PortType
    <3>2. /\ encrypt1'.L_buf = Split(i.idata)[1] /\ encrypt1'.R_buf = Split(i.idata)[2]
      BY <1>1, <1>2 DEF Advanced
    <3> QED
      BY <3>1, <3>2
  <2>4. One!Outcome(encrypt1', 0) = b
    BY <1>3, <2>2, <2>3 DEF Crypt
  <2> QED
    BY <1>0, <2>1, <2>4, InFlightAt
<1>5. Through(decrypt2', {b}) = {c}
  <2>1. Pass(decrypt2', b) = c
    BY <1>3 DEF Pass
  <2> QED
    BY <2>1, ThroughOne
<1>6. Through(encrypt3', {c}) = {d}
  <2>1. Pass(encrypt3', c) = d
    BY <1>3 DEF Pass
  <2> QED
    BY <2>1, ThroughOne
<1>7. Outcomes(0)' = Through(encrypt3', Through(decrypt2', One!InFlight(encrypt1')[0]))
  BY <1>0, OutcomesAt
<1>8. TripleCipher(i) = d
  <2>1. i.decrypt \in BOOLEAN
    BY DEF PortType
  <2>2. CASE i.decrypt = TRUE
    BY <2>2 DEF TripleCipher, stage1_key, stage3_key
  <2>3. CASE i.decrypt = FALSE
    BY <2>3 DEF TripleCipher, stage1_key, stage3_key
  <2> QED
    BY <2>1, <2>2, <2>3
<1> HIDE DEF b, c, d
<1> QED
  BY <1>4, <1>5, <1>6, <1>7, <1>8

\* Where there is no block there is none to leave.
LEMMA OutcomesHeld ==
  ASSUME NEW p \in CorePosition
  PROVE  /\ ~ Holds(p) => Outcomes(p) = {}
         /\ ~ Holds(p)' => Outcomes(p)' = {}
<1>1. PICK q \in 0 .. StageLen - 1 :
        p = q \/ p = StageLen + q \/ p = 2 * StageLen + q
  BY Positions
<1>2. /\ ~ E1!Occupied(encrypt1, q) => One!InFlight(encrypt1)[q] = {}
      /\ ~ E1!Occupied(decrypt2, q) => One!InFlight(decrypt2)[q] = {}
      /\ ~ E1!Occupied(encrypt3, q) => One!InFlight(encrypt3)[q] = {}
      /\ ~ E1!Occupied(encrypt1', q) => One!InFlight(encrypt1')[q] = {}
      /\ ~ E1!Occupied(decrypt2', q) => One!InFlight(decrypt2')[q] = {}
      /\ ~ E1!Occupied(encrypt3', q) => One!InFlight(encrypt3')[q] = {}
  BY InFlightAt
<1>3. \A s : Through(s, {}) = {}
  BY ThroughOne
<1>4. /\ ~ Holds(q) => Outcomes(q) = {}
      /\ ~ Holds(q)' => Outcomes(q)' = {}
  BY <1>2, <1>3, HoldsAt, OutcomesAt
<1>5. /\ ~ Holds(StageLen + q) => Outcomes(StageLen + q) = {}
      /\ ~ Holds(StageLen + q)' => Outcomes(StageLen + q)' = {}
  BY <1>2, <1>3, HoldsAt, OutcomesAt
<1>6. /\ ~ Holds(2 * StageLen + q) => Outcomes(2 * StageLen + q) = {}
      /\ ~ Holds(2 * StageLen + q)' => Outcomes(2 * StageLen + q)' = {}
  BY <1>2, HoldsAt, OutcomesAt
<1>7. CASE p = q
  BY <1>4, <1>7
<1>8. CASE p = StageLen + q
  BY <1>5, <1>8
<1>9. CASE p = 2 * StageLen + q
  BY <1>6, <1>9
<1> QED
  BY <1>1, <1>7, <1>8, <1>9

\* The places that a reset does not empty.
Fronts == {0, StageLen, 2 * StageLen}

\* An instance after a reset.
LEMMA OccupiedCleared ==
  ASSUME NEW s \in Fields, NEW v, v = E1!Cleared(s)
  PROVE  /\ E1!Occupied(v, 0) = E1!Occupied(s, 0)
         /\ \A q \in 1 .. Rounds + 2 : ~ E1!Occupied(v, q)
         /\ One!InFlight(v)[0] = One!InFlight(s)[0]
<1>0. Rounds \in Nat \ {0} /\ 0 \in 0 .. StageLen - 1
  BY RoundsAssumption, Positions
<1>1. /\ v.key_in1 = s.key_in1 /\ v.decrypt1 = s.decrypt1
      /\ v.V_buf = s.V_buf /\ v.L_buf = s.L_buf /\ v.R_buf = s.R_buf
      /\ v.valid_out = FALSE
  BY ClearedFields
<1>6. \A k \in E1!Stage : ~ v.V[k]
  BY DEF E1!Cleared, Fields, E1!Regs
<1>2. E1!Occupied(v, 0) = E1!Occupied(s, 0)
  BY <1>0, <1>1 DEF E1!Occupied
<1>3. ASSUME NEW q \in 1 .. Rounds + 2
      PROVE  ~ E1!Occupied(v, q)
  <2>1. CASE q \in 1 .. Rounds + 1
    <3>1. q - 1 \in E1!Stage
      BY <1>0, <2>1 DEF E1!Stage
    <3>2. E1!Occupied(v, q) = v.V[q - 1]
      BY <1>0, <2>1 DEF E1!Occupied
    <3> QED
      BY <1>6, <3>1, <3>2
  <2>2. CASE q = Rounds + 2
    <3>1. E1!Occupied(v, Rounds + 2) = v.valid_out
      BY <1>0 DEF E1!Occupied
    <3> QED
      BY <1>1, <2>2, <3>1
  <2> QED
    BY <1>0, <2>1, <2>2
<1>4. One!Outcome(v, 0) = One!Outcome(s, 0)
  BY <1>0, <1>1 DEF One!Outcome
<1>5. One!InFlight(v)[0] = One!InFlight(s)[0]
  BY <1>0, <1>2, <1>4, InFlightAt
<1> QED
  BY <1>2, <1>3, <1>5

\* What a reset leaves in the core, and what will come of it.
LEMMA ResetHolds ==
  ASSUME CoreTypeOK, CoreReset
  PROVE  /\ \A p \in Fronts : Holds(p)' = Holds(p) /\ Outcomes(p)' = Outcomes(p)
         /\ \A p \in CorePosition \ Fronts : ~ Holds(p)'
         /\ CoreReady'
<1>0. /\ Rounds \in Nat \ {0} /\ StageLen = Rounds + 3
      /\ 0 \in 0 .. StageLen - 1 /\ StageLen + 0 = StageLen
      /\ 2 * StageLen + 0 = 2 * StageLen
  BY RoundsAssumption, Positions
<1>1. encrypt1 \in Fields /\ decrypt2 \in Fields /\ encrypt3 \in Fields
  BY CoreTypes
<1>2. /\ encrypt1' = E1!Cleared(encrypt1) /\ decrypt2' = E1!Cleared(decrypt2)
      /\ encrypt3' = E1!Cleared(encrypt3)
  BY CoreResetClears
<1>3. /\ decrypt2'.key_in1 = decrypt2.key_in1 /\ decrypt2'.decrypt1 = decrypt2.decrypt1
      /\ encrypt3'.key_in1 = encrypt3.key_in1 /\ encrypt3'.decrypt1 = encrypt3.decrypt1
  BY <1>1, <1>2, ClearedKeeps
<1>4. /\ \A bs : Through(encrypt3', bs) = Through(encrypt3, bs)
      /\ \A bs : Through(decrypt2', bs) = Through(decrypt2, bs)
  BY <1>3, PassSame
<1>5. /\ E1!Occupied(encrypt1', 0) = E1!Occupied(encrypt1, 0)
      /\ \A q \in 1 .. Rounds + 2 : ~ E1!Occupied(encrypt1', q)
      /\ One!InFlight(encrypt1')[0] = One!InFlight(encrypt1)[0]
  BY <1>1, <1>2, OccupiedCleared
<1>6. /\ E1!Occupied(decrypt2', 0) = E1!Occupied(decrypt2, 0)
      /\ \A q \in 1 .. Rounds + 2 : ~ E1!Occupied(decrypt2', q)
      /\ One!InFlight(decrypt2')[0] = One!InFlight(decrypt2)[0]
  BY <1>1, <1>2, OccupiedCleared
<1>7. /\ E1!Occupied(encrypt3', 0) = E1!Occupied(encrypt3, 0)
      /\ \A q \in 1 .. Rounds + 2 : ~ E1!Occupied(encrypt3', q)
      /\ One!InFlight(encrypt3')[0] = One!InFlight(encrypt3)[0]
  BY <1>1, <1>2, OccupiedCleared
<1>8. /\ Holds(0)' = Holds(0)
      /\ Holds(StageLen + 0)' = Holds(StageLen + 0)
      /\ Holds(2 * StageLen + 0)' = Holds(2 * StageLen + 0)
  BY <1>0, <1>5, <1>6, <1>7, HoldsAt
<1>9. /\ Outcomes(0)' = Outcomes(0)
      /\ Outcomes(StageLen + 0)' = Outcomes(StageLen + 0)
      /\ Outcomes(2 * StageLen + 0)' = Outcomes(2 * StageLen + 0)
  BY <1>0, <1>4, <1>5, <1>6, <1>7, OutcomesAt
<1>10. \A p \in Fronts : Holds(p)' = Holds(p) /\ Outcomes(p)' = Outcomes(p)
  BY <1>0, <1>8, <1>9 DEF Fronts
<1>11. ASSUME NEW p \in CorePosition \ Fronts
       PROVE  ~ Holds(p)'
  <2>1. PICK q \in 0 .. StageLen - 1 :
          p = q \/ p = StageLen + q \/ p = 2 * StageLen + q
    BY Positions
  <2>2. q # 0
    BY <1>0, <2>1 DEF Fronts
  <2>3. q \in 1 .. Rounds + 2
    BY <1>0, <2>2
  <2>4. ~ Holds(q)' /\ ~ Holds(StageLen + q)' /\ ~ Holds(2 * StageLen + q)'
    BY <1>5, <1>6, <1>7, <2>3, HoldsAt
  <2> QED
    BY <2>1, <2>4
<1>12. CoreReady'
  BY <1>0, <1>5, <1>6, <1>7 DEF CoreReady, Ready
<1> QED
  BY <1>10, <1>11, <1>12

\* A clock edge gives both copies of the key and of the direction one value.
LEMMA ClockReady ==
  ASSUME CoreTypeOK, NEW i \in PortType, CoreClock(i)
  PROVE  CoreReady'
<1>1. /\ Advanced(encrypt1, Ports1(i), encrypt1')
      /\ Advanced(decrypt2, Ports2(i), decrypt2')
      /\ Advanced(encrypt3, Ports3(i), encrypt3')
  BY CoreClockMoves
<1>2. Settled(encrypt1') /\ Settled(decrypt2') /\ Settled(encrypt3')
  BY <1>1 DEF Advanced, Settled
<1> QED
  BY <1>2 DEF CoreReady, Ready

\* What is at a position is none or one block.
LEMMA OutcomesType ==
  ASSUME CoreTypeOK, NEW p \in CorePosition
  PROVE  Outcomes(p) \in {{}} \cup {{b} : b \in Block}
<1>1. encrypt1 \in Fields /\ decrypt2 \in Fields /\ encrypt3 \in Fields
  BY CoreTypes
<1>2. ASSUME NEW s \in Fields, NEW q \in 0 .. StageLen - 1
      PROVE  One!InFlight(s)[q] \in {{}} \cup {{b} : b \in Block}
  <2>1. One!Outcome(s, q) \in Block
    BY Positions, OutcomeType
  <2> QED
    BY <2>1, InFlightAt
<1>3. ASSUME NEW s \in Fields, NEW bs \in {{}} \cup {{b} : b \in Block}
      PROVE  Through(s, bs) \in {{}} \cup {{b} : b \in Block}
  <2>1. CASE bs = {}
    BY <2>1, ThroughOne
  <2>2. ASSUME NEW b \in Block, bs = {b}
        PROVE  Through(s, bs) \in {{}} \cup {{c} : c \in Block}
    <3>1. s.key_in1 \in Key /\ s.decrypt1 \in BOOLEAN
      BY DEF Fields, E1!Regs
    <3>2. Pass(s, b) \in Block
      BY <3>1, CryptType DEF Pass
    <3>3. Through(s, bs) = {Pass(s, b)}
      BY <2>2, ThroughOne
    <3> QED
      BY <3>2, <3>3
  <2> QED
    BY <2>1, <2>2
<1>4. PICK q \in 0 .. StageLen - 1 :
        p = q \/ p = StageLen + q \/ p = 2 * StageLen + q
  BY Positions
<1>5. CASE p = q
  <2>1. Outcomes(q) = Through(encrypt3, Through(decrypt2, One!InFlight(encrypt1)[q]))
    BY OutcomesAt
  <2>2. One!InFlight(encrypt1)[q] \in {{}} \cup {{b} : b \in Block}
    BY <1>1, <1>2
  <2>3. Through(decrypt2, One!InFlight(encrypt1)[q]) \in {{}} \cup {{b} : b \in Block}
    BY <1>1, <1>3, <2>2
  <2> QED
    BY <1>1, <1>3, <1>5, <2>1, <2>3
<1>6. CASE p = StageLen + q
  <2>1. Outcomes(StageLen + q) = Through(encrypt3, One!InFlight(decrypt2)[q])
    BY OutcomesAt
  <2>2. One!InFlight(decrypt2)[q] \in {{}} \cup {{b} : b \in Block}
    BY <1>1, <1>2
  <2> QED
    BY <1>1, <1>3, <1>6, <2>1, <2>2
<1>7. CASE p = 2 * StageLen + q
  <2>1. Outcomes(2 * StageLen + q) = One!InFlight(encrypt3)[q]
    BY OutcomesAt
  <2> QED
    BY <1>1, <1>2, <1>7, <2>1
<1> QED
  BY <1>4, <1>5, <1>6, <1>7

\* What an instance holds after power-up is at most what waits in front of it.
LEMMA PoweredFields ==
  ASSUME NEW k1 \in Key, NEW k2 \in Key, NEW d1 \in BOOLEAN, NEW d2 \in BOOLEAN,
         NEW w \in BOOLEAN, NEW b \in Block, NEW v,
         v = E1!PoweredUp(k1, k2, d1, d2, w, Split(b))
  PROVE  /\ v \in Fields
         /\ \A q \in 1 .. Rounds + 2 : ~ E1!Occupied(v, q)
<1>0. Rounds \in Nat \ {0}
  BY RoundsAssumption
<1>1. /\ Split(b) \in Half \X Half /\ {} \in Half /\ ZeroBlock \in Block
  BY WidthAssumption
<1>2. Split(b)[1] \in Half /\ Split(b)[2] \in Half
  BY <1>1
<1>3. v \in Fields
  BY <1>1, <1>2 DEF Fields, E1!Regs, E1!PoweredUp
<1>4. v.V = [k \in E1!Stage |-> FALSE] /\ v.valid_out = FALSE
  BY DEF E1!PoweredUp
<1>5. ASSUME NEW q \in 1 .. Rounds + 2
      PROVE  ~ E1!Occupied(v, q)
  <2>1. CASE q \in 1 .. Rounds + 1
    <3>1. q - 1 \in E1!Stage
      BY <1>0, <2>1 DEF E1!Stage
    <3>2. E1!Occupied(v, q) = v.V[q - 1]
      BY <1>0, <2>1 DEF E1!Occupied
    <3> QED
      BY <1>4, <3>1, <3>2
  <2>2. CASE q = Rounds + 2
    <3>1. E1!Occupied(v, Rounds + 2) = v.valid_out
      BY <1>0 DEF E1!Occupied
    <3> QED
      BY <1>4, <2>2, <3>1
  <2> QED
    BY <1>0, <2>1, <2>2
<1> QED
  BY <1>3, <1>5

\* The core after power-up.
LEMMA InitHolds ==
  ASSUME CoreInit
  PROVE  /\ CoreTypeOK /\ CoreReady
         /\ \A p \in CorePosition \ Fronts : ~ Holds(p)
<1>0. Rounds \in Nat \ {0} /\ StageLen = Rounds + 3
  BY RoundsAssumption, Positions
<1>1. PICK k1, k2 \in Key, d1, d2, w \in BOOLEAN, b \in Block :
        encrypt1 = E1!PoweredUp(k1, k2, d1, d2, w, Split(b))
  BY DEF CoreInit, E1!Init
<1>2. PICK k3, k4 \in Key, d3, d4, w2 \in BOOLEAN, b2 \in Block :
        decrypt2 = E1!PoweredUp(k3, k4, d3, d4, w2, Split(b2))
  BY DEF CoreInit, D2!Init, D2!PoweredUp, E1!PoweredUp, D2!Stage, E1!Stage
<1>3. PICK k5, k6 \in Key, d5, d6, w3 \in BOOLEAN, b3 \in Block :
        encrypt3 = E1!PoweredUp(k5, k6, d5, d6, w3, Split(b3))
  BY DEF CoreInit, E3!Init, E3!PoweredUp, E1!PoweredUp, E3!Stage, E1!Stage
<1>4. /\ encrypt1 \in Fields /\ \A q \in 1 .. Rounds + 2 : ~ E1!Occupied(encrypt1, q)
  BY <1>1, PoweredFields
<1>5. /\ decrypt2 \in Fields /\ \A q \in 1 .. Rounds + 2 : ~ E1!Occupied(decrypt2, q)
  BY <1>2, PoweredFields
<1>6. /\ encrypt3 \in Fields /\ \A q \in 1 .. Rounds + 2 : ~ E1!Occupied(encrypt3, q)
  BY <1>3, PoweredFields
<1>7. CoreTypeOK
  BY <1>4, <1>5, <1>6, CoreTypes
<1>8. CoreReady
  BY <1>0, <1>4, <1>5, <1>6 DEF CoreReady, Ready
<1>9. ASSUME NEW p \in CorePosition \ Fronts
      PROVE  ~ Holds(p)
  <2>1. PICK q \in 0 .. StageLen - 1 :
          p = q \/ p = StageLen + q \/ p = 2 * StageLen + q
    BY Positions
  <2>2. q # 0
    BY <1>0, <2>1 DEF Fronts
  <2>3. q \in 1 .. Rounds + 2
    BY <1>0, <2>2
  <2>4. ~ Holds(q) /\ ~ Holds(StageLen + q) /\ ~ Holds(2 * StageLen + q)
    BY <1>4, <1>5, <1>6, <2>3, HoldsAt
  <2> QED
    BY <2>1, <2>4
<1> QED
  BY <1>7, <1>8, <1>9

-----------------------------------------------------------------------------
(* The core as a delay line. *)

\* What holds in every state of a core whose user holds the keys.
CoreInv == CoreTypeOK /\ CoreReady

\* A clock edge that holds the keys and directions in use is a step of the line.
LEMMA ClockShifts ==
  ASSUME CoreInv, NEW i \in Ports, Held(i), CoreClock(i)
  PROVE  /\ i.valid_in => Outcomes(0)' = {TripleCipher(i)}
         /\ ~ i.valid_in => Outcomes(0)' = {}
         /\ \A p \in 0 .. 3 * StageLen - 2 : Outcomes(p + 1)' = Outcomes(p)
<1>0. Rounds \in Nat \ {0} /\ StageLen = Rounds + 3
  BY RoundsAssumption, Positions
<1>1. i \in PortType /\ CoreTypeOK /\ CoreReady
  BY PortsAssumption DEF CoreInv
<1>2. /\ Holds(0)' = i.valid_in
      /\ \A p \in 0 .. 3 * StageLen - 2 : Holds(p + 1)' = Holds(p)
  BY <1>1, ClockHolds
<1>3. 0 \in CorePosition
  BY <1>0 DEF CorePosition
<1>4. i.valid_in => Outcomes(0)' = {TripleCipher(i)}
  BY <1>1, ClockEnters
<1>5. ~ i.valid_in => Outcomes(0)' = {}
  BY <1>2, <1>3, OutcomesHeld
<1>6. ASSUME NEW p \in 0 .. 3 * StageLen - 2
      PROVE  Outcomes(p + 1)' = Outcomes(p)
  <2>1. p \in CorePosition /\ p + 1 \in CorePosition
    BY <1>0 DEF CorePosition
  <2>2. CASE Holds(p)
    <3>1. ASSUME p < 2 * StageLen + Rounds PROVE PortsHeld(i)
      <4>1. p \in 0 .. 2 * StageLen + Rounds - 1
        BY <1>0, <3>1
      <4> QED
        BY <2>2, <4>1 DEF Held, KeysInUse, PortsHeld
    <3> QED
      BY <1>1, <2>2, <3>1, ClockOutcomes
  <2>3. CASE ~ Holds(p)
    <3>1. ~ Holds(p + 1)'
      BY <1>2, <2>3
    <3>2. Outcomes(p) = {}
      BY <2>1, <2>3, OutcomesHeld
    <3>3. Outcomes(p + 1)' = {}
      BY <2>1, <3>1, OutcomesHeld
    <3> QED
      BY <3>2, <3>3
  <2> QED
    BY <2>2, <2>3
<1> QED
  BY <1>4, <1>5, <1>6

\* The invariant holds along every behaviour.
LEMMA CoreInvHolds == SpecHeld => []CoreInv
<1>1. InitHeld => CoreInv
  BY InitHolds DEF InitHeld, CoreInv
<1>2. CoreInv /\ [NextHeld]_core => CoreInv'
  <2> SUFFICES ASSUME CoreInv, [NextHeld]_core
               PROVE  CoreInv'
    OBVIOUS
  <2>1. ASSUME NEW i \in Ports, CoreClock(i)
        PROVE  CoreInv'
    <3>1. i \in PortType
      BY PortsAssumption
    <3> QED
      BY <2>1, <3>1, CoreClockMoves, ClockReady DEF CoreInv
  <2>2. CASE CoreReset
    BY <2>2, CoreResetClears, ResetHolds DEF CoreInv
  <2>3. CASE UNCHANGED core
    <3>1. CoreTypeOK'
      BY <2>3, CoreTypes DEF core, CoreInv
    <3>2. CoreReady'
      BY <2>3 DEF core, CoreInv, CoreReady, Ready
    <3> QED
      BY <3>1, <3>2 DEF CoreInv
  <2> QED
    BY <2>1, <2>2, <2>3 DEF NextHeld
<1> QED
  BY <1>1, <1>2, PTL DEF SpecHeld

\* The initial states are initial states of the line.
LEMMA LineInit == InitHeld => Pipe!Init
<1> SUFFICES ASSUME InitHeld PROVE Pipe!Init
  OBVIOUS
<1>1. /\ CoreTypeOK
      /\ \A p \in CorePosition \ Fronts : ~ Holds(p)
  BY InitHolds DEF InitHeld
<1>2. \A p \in CorePosition : Outcomes(p) \in {{}} \cup {{b} : b \in Block}
  BY <1>1, OutcomesType
<1>3. \A p \in CorePosition \ Fronts : Outcomes(p) = {}
  BY <1>1, OutcomesHeld
<1>4. Pipe!Place = CorePosition
  BY DEF Pipe!Place, CorePosition
<1> QED
  BY <1>2, <1>3, <1>4 DEF Pipe!Init, Fronts

\* A step maps to a step of the line, or to none.
LEMMA LineNext ==
  CoreInv /\ [NextHeld]_core => [Pipe!Next]_[p \in CorePosition |-> Outcomes(p)]
<1> SUFFICES ASSUME CoreInv, [NextHeld]_core
             PROVE  \/ Pipe!Next
                    \/ UNCHANGED [p \in CorePosition |-> Outcomes(p)]
  OBVIOUS
<1>0. Rounds \in Nat \ {0} /\ StageLen = Rounds + 3
  BY RoundsAssumption, Positions
<1>1. Pipe!Place = CorePosition
  BY DEF Pipe!Place, CorePosition
<1>2. ASSUME NEW i \in Ports, Held(i), CoreClock(i)
      PROVE  Pipe!Next
  <2>1. /\ i.valid_in => Outcomes(0)' = {TripleCipher(i)}
        /\ ~ i.valid_in => Outcomes(0)' = {}
        /\ \A p \in 0 .. 3 * StageLen - 2 : Outcomes(p + 1)' = Outcomes(p)
    BY <1>2, ClockShifts
  <2>2. ASSUME NEW p \in CorePosition, p # 0
        PROVE  Outcomes(p)' = Outcomes(p - 1) /\ p - 1 \in CorePosition
    <3>1. PICK n \in 0 .. 3 * StageLen - 2 : p = n + 1
      <4>1. p - 1 \in 0 .. 3 * StageLen - 2 /\ p = (p - 1) + 1
        BY <1>0, <2>2 DEF CorePosition
      <4> QED
        BY <4>1
    <3>2. p - 1 = n /\ n \in CorePosition
      BY <1>0, <3>1 DEF CorePosition
    <3>3. Outcomes(n + 1)' = Outcomes(n)
      BY <2>1
    <3> QED
      BY <3>1, <3>2, <3>3
  <2>3. CASE i.valid_in
    <3>1. i \in Requests
      BY <2>3 DEF Requests
    <3>2. Outcomes(0)' = {TripleCipher(r) : r \in {i}}
      BY <2>1, <2>3
    <3>3. Pipe!Shift({i})
      BY <1>1, <2>2, <3>2 DEF Pipe!Shift
    <3> QED
      BY <3>1, <3>3 DEF Pipe!Next
  <2>4. CASE ~ i.valid_in
    <3>1. Outcomes(0)' = {TripleCipher(r) : r \in {}}
      BY <2>1, <2>4
    <3>2. Pipe!Shift({})
      BY <1>1, <2>2, <3>1 DEF Pipe!Shift
    <3> QED
      BY <3>2 DEF Pipe!Next
  <2> QED
    BY <2>3, <2>4
<1>3. CASE CoreReset
  <2>1. /\ \A p \in Fronts : Outcomes(p)' = Outcomes(p)
        /\ \A p \in CorePosition \ Fronts : ~ Holds(p)'
    BY <1>3, ResetHolds DEF CoreInv
  <2>2. \A p \in CorePosition \ Fronts : Outcomes(p)' = {}
    BY <2>1, OutcomesHeld
  <2>3. Pipe!Flush
    BY <1>1, <2>1, <2>2 DEF Pipe!Flush, Fronts
  <2> QED
    BY <2>3 DEF Pipe!Next
<1>4. CASE UNCHANGED core
  BY <1>4 DEF core, Outcomes, At, One!InFlight, One!Outcome, Through, One!Occupied
<1> QED
  BY <1>2, <1>3, <1>4 DEF NextHeld

(***************************************************************************)
(* Under held keys the core is a delay line of 3 * (Rounds + 3) places that *)
(* computes triple DES, whose reset leaves the blocks in front of the three *)
(* instances (des3.v, lines 21-52).                                         *)
(***************************************************************************)
THEOREM CoreIsALine == SpecHeld => ImplementsPipe
<1>1. InitHeld => Pipe!Init
  BY LineInit
<1>2. CoreInv /\ [NextHeld]_core => [Pipe!Next]_[p \in CorePosition |-> Outcomes(p)]
  BY LineNext
<1> QED
  BY <1>1, <1>2, CoreInvHolds, PTL DEF SpecHeld, ImplementsPipe, Pipe!Spec

-----------------------------------------------------------------------------
(* The first instance alone. *)

\* What its places hold, now and after a step.
LEMMA FirstLine ==
  /\ One!Position = 0 .. StageLen - 1 /\ One!Pipe!Place = One!Position
  /\ \A s : One!InFlight(s) = [p \in One!Position |-> One!InFlight(s)[p]]
<1>1. One!Position = 0 .. StageLen - 1 /\ StageLen = Rounds + 3
  BY Positions
<1>2. One!Pipe!Place = One!Position
  BY <1>1, RoundsAssumption DEF One!Pipe!Place
<1>3. ASSUME NEW s PROVE One!InFlight(s) = [p \in One!Position |-> One!InFlight(s)[p]]
  BY DEF One!InFlight
<1> QED
  BY <1>1, <1>2, <1>3

\* Its places before the first step.
LEMMA FirstInit == InitHeld => One!Pipe!Init
<1> SUFFICES ASSUME InitHeld PROVE One!Pipe!Init
  OBVIOUS
<1>0. Rounds \in Nat \ {0} /\ StageLen = Rounds + 3
  BY RoundsAssumption, Positions
<1>1. /\ encrypt1 \in Fields
      /\ \A p \in CorePosition \ Fronts : ~ Holds(p)
  BY InitHolds, CoreTypes DEF InitHeld
<1>2. ASSUME NEW p \in One!Position
      PROVE  /\ One!InFlight(encrypt1)[p] \in {{}} \cup {{b} : b \in Block}
             /\ p # 0 => One!InFlight(encrypt1)[p] = {}
  <2>1. p \in 0 .. StageLen - 1
    BY Positions
  <2>2. One!Outcome(encrypt1, p) \in Block
    BY <1>1, OutcomeType
  <2>3. ASSUME p # 0 PROVE ~ E1!Occupied(encrypt1, p)
    <3>1. p \in CorePosition \ Fronts
      BY <1>0, <2>1, <2>3 DEF CorePosition, Fronts
    <3>2. Holds(p) = E1!Occupied(encrypt1, p)
      BY <2>1, HoldsAt
    <3> QED
      BY <1>1, <3>1, <3>2
  <2> QED
    BY <2>1, <2>2, <2>3, InFlightAt
<1> QED
  BY <1>2, FirstLine DEF One!Pipe!Init

\* Its steps.
LEMMA FirstNext ==
  CoreInv /\ [NextHeld]_core => [One!Pipe!Next]_(One!InFlight(encrypt1))
<1> SUFFICES ASSUME CoreInv, [NextHeld]_core
             PROVE  \/ One!Pipe!Next
                    \/ UNCHANGED One!InFlight(encrypt1)
  OBVIOUS
<1>0. /\ Rounds \in Nat \ {0} /\ StageLen = Rounds + 3
      /\ CoreTypeOK /\ CoreReady
  BY RoundsAssumption, Positions DEF CoreInv
<1>1. encrypt1 \in Fields /\ Ready(encrypt1)
  BY CoreTypes DEF CoreInv, CoreReady
<1>2. /\ One!Position = 0 .. StageLen - 1 /\ One!Pipe!Place = One!Position
      /\ One!InFlight(encrypt1)' = One!InFlight(encrypt1')
      /\ One!InFlight(encrypt1') = [p \in One!Position |-> One!InFlight(encrypt1')[p]]
  BY FirstLine
<1>3. ASSUME NEW i \in Ports, Held(i), CoreClock(i)
      PROVE  One!Pipe!Next
  <2>0. i \in PortType
    BY PortsAssumption
  <2>1. Advanced(encrypt1, Ports1(i), encrypt1') /\ Ports1(i) \in Sample
    BY <1>0, <1>3, <2>0, CoreClockMoves
  <2>2. ASSUME NEW p \in One!Position, p # 0
        PROVE  One!InFlight(encrypt1')[p] = One!InFlight(encrypt1)[p - 1]
    <3>1. PICK q \in 0 .. Rounds + 1 : p = q + 1
      <4>1. p - 1 \in 0 .. Rounds + 1 /\ p = (p - 1) + 1
        BY <1>0, <1>2, <2>2
      <4> QED
        BY <4>1
    <3>2. /\ q \in 0 .. StageLen - 1 /\ q + 1 \in 0 .. StageLen - 1 /\ p - 1 = q
      BY <1>0, <3>1
    <3>3. E1!Occupied(encrypt1', q + 1) = E1!Occupied(encrypt1, q)
      BY <2>1, OccupiedClocked
    <3>4. CASE E1!Occupied(encrypt1, q)
      <4>1. ASSUME q < Rounds
            PROVE  Ports1(i).key_in = encrypt1.key_in1 /\ Ports1(i).decrypt = encrypt1.decrypt1
        <5>1. Holds(q) /\ q \in 0 .. 2 * StageLen + Rounds - 1
          BY <1>0, <3>2, <3>4, HoldsAt
        <5>2. PortsHeld(i)
          BY <1>3, <5>1 DEF Held, KeysInUse, PortsHeld
        <5> QED
          BY <1>0, <1>3, <2>0, <5>2, PortsHeldKeep
      <4>2. One!InFlight(encrypt1')[q + 1] = One!InFlight(encrypt1)[q]
        BY <1>1, <2>1, <3>4, <4>1, InFlightMoves
      <4> QED
        BY <3>1, <3>2, <4>2
    <3>5. CASE ~ E1!Occupied(encrypt1, q)
      <4>1. One!InFlight(encrypt1)[q] = {}
        BY <3>2, <3>5, InFlightAt
      <4>2. One!InFlight(encrypt1')[q + 1] = {}
        BY <3>2, <3>3, <3>5, InFlightAt
      <4> QED
        BY <3>1, <3>2, <4>1, <4>2
    <3> QED
      BY <3>4, <3>5
  <2>3. 0 \in 0 .. StageLen - 1 /\ E1!Occupied(encrypt1', 0) = i.valid_in
    <3>1. Ports1(i).valid_in = i.valid_in
      BY DEF Ports1
    <3> QED
      BY <1>0, <2>1, <3>1, OccupiedClocked
  <2>4. CASE i.valid_in
    <3>1. Ports1(i) \in One!Requests
      <4>1. Ports1(i) \in {Ports1(j) : j \in Ports} /\ Ports1(i).valid_in
        BY <2>4 DEF Ports1
      <4> QED
        BY <4>1 DEF One!Requests
    <3>2. One!Outcome(encrypt1', 0) = One!Encipher(Ports1(i))
      <4>1. One!Outcome(encrypt1', 0) =
              Finish(0, <<encrypt1'.L_buf, encrypt1'.R_buf>>,
                     One!Schedule(encrypt1'.key_in1, encrypt1'.decrypt1))
        BY <1>0, SameOperators DEF One!Outcome
      <4>2. /\ encrypt1'.key_in1 = Ports1(i).key_in
            /\ encrypt1'.decrypt1 = Ports1(i).decrypt
        BY <2>1 DEF Advanced
      <4>3. <<encrypt1'.L_buf, encrypt1'.R_buf>> = Split(Ports1(i).idata)
        <5>1. Split(Ports1(i).idata) \in Half \X Half
          BY <2>1, WidthAssumption DEF Sample, E1!Input
        <5>2. /\ encrypt1'.L_buf = Split(Ports1(i).idata)[1]
              /\ encrypt1'.R_buf = Split(Ports1(i).idata)[2]
          BY <2>1 DEF Advanced
        <5> QED
          BY <5>1, <5>2
      <4> QED
        BY <4>1, <4>2, <4>3, SameOperators DEF One!Encipher, Crypt
    <3>3. One!InFlight(encrypt1')[0] = {One!Encipher(r) : r \in {Ports1(i)}}
      BY <2>3, <2>4, <3>2, InFlightAt
    <3>4. One!Pipe!Shift({Ports1(i)})
      BY <1>2, <2>2, <3>3 DEF One!Pipe!Shift
    <3> QED
      BY <3>1, <3>4 DEF One!Pipe!Next
  <2>5. CASE ~ i.valid_in
    <3>1. One!InFlight(encrypt1')[0] = {One!Encipher(r) : r \in {}}
      BY <2>3, <2>5, InFlightAt
    <3>2. One!Pipe!Shift({})
      BY <1>2, <2>2, <3>1 DEF One!Pipe!Shift
    <3> QED
      BY <3>2 DEF One!Pipe!Next
  <2> QED
    BY <2>4, <2>5
<1>4. CASE CoreReset
  <2>1. encrypt1' = E1!Cleared(encrypt1)
    BY <1>0, <1>4, CoreResetClears
  <2>2. /\ One!InFlight(encrypt1')[0] = One!InFlight(encrypt1)[0]
        /\ \A q \in 1 .. Rounds + 2 : ~ E1!Occupied(encrypt1', q)
    BY <1>1, <2>1, OccupiedCleared
  <2>3. ASSUME NEW p \in One!Position, p # 0
        PROVE  One!InFlight(encrypt1')[p] = {}
    <3>1. p \in 1 .. Rounds + 2 /\ p \in 0 .. StageLen - 1
      BY <1>0, <1>2, <2>3
    <3> QED
      BY <2>2, <3>1, InFlightAt
  <2>4. One!Pipe!Flush
    BY <1>2, <2>2, <2>3 DEF One!Pipe!Flush
  <2> QED
    BY <2>4 DEF One!Pipe!Next
<1>5. CASE UNCHANGED core
  BY <1>2, <1>5 DEF core
<1> QED
  BY <1>3, <1>4, <1>5 DEF NextHeld

(***************************************************************************)
(* Under the same held keys the first instance is a delay line of           *)
(* Rounds + 3 places that computes DES, whose reset keeps the first place   *)
(* (feistel_algo.v, lines 65-125).                                          *)
(***************************************************************************)
THEOREM InstanceIsALine == SpecHeld => FirstImplementsPipe
<1>1. InitHeld => One!Pipe!Init
  BY FirstInit
<1>2. CoreInv /\ [NextHeld]_core => [One!Pipe!Next]_(One!InFlight(encrypt1))
  BY FirstNext
<1> QED
  BY <1>1, <1>2, CoreInvHolds, PTL
     DEF SpecHeld, FirstImplementsPipe, One!ImplementsPipe, One!Pipe!Spec

-----------------------------------------------------------------------------
(* Deciphering. *)

\* The permutations of the ends undo each other, and the key schedule of a
\* direction is that of the other backwards, as they do in the real cipher
\* (IPUndone and ScheduleReverses of WalkProofs).
EndsUndone ==
  /\ \A b \in Block : Join(Split(b)) = b
  /\ \A l, r \in Half : Split(Join(<<l, r>>)) = <<l, r>>

ScheduleTurns ==
  \A key \in Key, d \in BOOLEAN, k \in 0 .. Rounds - 1 :
    KS(key, d, k) = KS(key, ~ d, Rounds - 1 - k)

\* Then one pass in the other direction gives the block back.
LEMMA PassUndone ==
  ASSUME EndsUndone, ScheduleTurns, NEW b \in Block, NEW key \in Key
  PROVE  /\ Crypt(Crypt(b, One!Schedule(key, FALSE)), One!Schedule(key, TRUE)) = b
         /\ Crypt(Crypt(b, One!Schedule(key, TRUE)), One!Schedule(key, FALSE)) = b
<1>1. ASSUME NEW d \in BOOLEAN, NEW e \in BOOLEAN, e = ~ d
      PROVE  Crypt(Crypt(b, One!Schedule(key, d)), One!Schedule(key, e)) = b
  <2> DEFINE rk == One!Schedule(key, d)
             kr == One!Schedule(key, e)
  <2>1. Rounds \in Nat
    BY RoundsAssumption
  <2>2. ASSUME NEW k \in 0 .. Rounds - 1
        PROVE  rk[k] = KS(key, d, k) /\ kr[k] = rk[Rounds - 1 - k]
    <3>1. Rounds - 1 - k \in 0 .. Rounds - 1 /\ Rounds - 1 - (Rounds - 1 - k) = k
      BY <2>1
    <3>2. KS(key, e, k) = KS(key, ~ e, Rounds - 1 - k) /\ (~ e) = d
      BY <1>1 DEF ScheduleTurns
    <3> QED
      BY <3>1, <3>2 DEF One!Schedule
  <2>3. \A l, r \in Half, k \in 0 .. Rounds - 1 : Xor(l, F(r, rk[k])) \in Half
    BY ScheduleFits
  <2>4. Split(b) \in Half \X Half /\ Join(Split(b)) = b
    BY WidthAssumption DEF EndsUndone
  <2> HIDE DEF rk, kr
  <2>5. Crypt(Crypt(b, rk), kr) = b
    BY <2>2, <2>3, <2>4, CryptUndone DEF EndsUndone
  <2> QED
    BY <2>5 DEF rk, kr
<1>2. FALSE \in BOOLEAN /\ TRUE \in BOOLEAN /\ TRUE = ~ FALSE /\ FALSE = ~ TRUE
  OBVIOUS
<1> QED
  BY <1>1, <1>2

(***************************************************************************)
(* What the core deciphers under three keys is what it enciphered under     *)
(* them: the instances undo one another from the last to the first, since   *)
(* the outer keys are exchanged and all three directions turned (des3.v,    *)
(* lines 17-52).                                                            *)
(***************************************************************************)
THEOREM TripleUndone ==
  ASSUME EndsUndone, ScheduleTurns, NEW i \in PortType, NEW j \in PortType,
         j.decrypt = ~ i.decrypt,
         j.key1 = i.key1, j.key2 = i.key2, j.key3 = i.key3, j.idata = TripleCipher(i)
  PROVE  TripleCipher(j) = i.idata
<1> DEFINE Enc(b, key) == Crypt(b, One!Schedule(key, FALSE))
           Dec(b, key) == Crypt(b, One!Schedule(key, TRUE))
<1>1. /\ i.idata \in Block /\ i.key1 \in Key /\ i.key2 \in Key /\ i.key3 \in Key
      /\ i.decrypt \in BOOLEAN
  BY DEF PortType
<1>2. /\ i.decrypt = TRUE =>
           TripleCipher(i) = Dec(Enc(Dec(i.idata, i.key3), i.key2), i.key1)
      /\ i.decrypt = FALSE =>
           TripleCipher(i) = Enc(Dec(Enc(i.idata, i.key1), i.key2), i.key3)
      /\ i.decrypt = FALSE =>
           TripleCipher(j) = Dec(Enc(Dec(j.idata, i.key3), i.key2), i.key1)
      /\ i.decrypt = TRUE =>
           TripleCipher(j) = Enc(Dec(Enc(j.idata, i.key1), i.key2), i.key3)
  BY DEF TripleCipher
<1>3. ASSUME NEW b \in Block, NEW key \in Key
      PROVE  Enc(b, key) \in Block /\ Dec(b, key) \in Block
  BY CryptType
<1>4. ASSUME NEW b \in Block, NEW key \in Key
      PROVE  Dec(Enc(b, key), key) = b /\ Enc(Dec(b, key), key) = b
  BY PassUndone
<1> HIDE DEF Enc, Dec
<1>5. CASE i.decrypt = FALSE
  <2>1. PICK x \in Block : x = Enc(i.idata, i.key1)
    BY <1>1, <1>3
  <2>2. PICK y \in Block : y = Dec(x, i.key2)
    BY <1>1, <1>3
  <2>3. TripleCipher(j) = Dec(Enc(Dec(Enc(y, i.key3), i.key3), i.key2), i.key1)
    BY <1>2, <1>5, <2>1, <2>2
  <2>4. Dec(Enc(y, i.key3), i.key3) = y /\ Enc(y, i.key2) = x /\ Dec(x, i.key1) = i.idata
    BY <1>1, <1>4, <2>1, <2>2
  <2> QED
    BY <2>3, <2>4
<1>6. CASE i.decrypt = TRUE
  <2>1. PICK x \in Block : x = Dec(i.idata, i.key3)
    BY <1>1, <1>3
  <2>2. PICK y \in Block : y = Enc(x, i.key2)
    BY <1>1, <1>3
  <2>3. TripleCipher(j) = Enc(Dec(Enc(Dec(y, i.key1), i.key1), i.key2), i.key3)
    BY <1>2, <1>6, <2>1, <2>2
  <2>4. Enc(Dec(y, i.key1), i.key1) = y /\ Dec(y, i.key2) = x /\ Enc(x, i.key3) = i.idata
    BY <1>1, <1>4, <2>1, <2>2
  <2> QED
    BY <2>3, <2>4
<1> QED
  BY <1>1, <1>5, <1>6

-----------------------------------------------------------------------------
(* The monitor of Des3Reset. *)

\* A set of places that moves up by one loses the last and gains the first.
LEMMA ShiftedCount ==
  ASSUME NEW n \in Nat, NEW S \in SUBSET (0 .. n), NEW T \in SUBSET (0 .. n),
         \A p \in 0 .. n - 1 : p + 1 \in T <=> p \in S
  PROVE  /\ Cardinality(S) \in Nat /\ Cardinality(T) \in Nat
         /\ Cardinality(T) + (IF n \in S THEN 1 ELSE 0)
              = Cardinality(S) + (IF 0 \in T THEN 1 ELSE 0)
<1> DEFINE U == S \ {n}
           W == T \ {0}
           f == [p \in U |-> p + 1]
<1>1. IsFiniteSet(S) /\ IsFiniteSet(T)
  <2>1. IsFiniteSet(0 .. n)
    BY FS_Interval
  <2> QED
    BY <2>1, FS_Subset
<1>2. /\ IsFiniteSet(U)
      /\ Cardinality(U) = IF n \in S THEN Cardinality(S) - 1 ELSE Cardinality(S)
  BY <1>1, FS_RemoveElement
<1>3. /\ IsFiniteSet(W)
      /\ Cardinality(W) = IF 0 \in T THEN Cardinality(T) - 1 ELSE Cardinality(T)
  BY <1>1, FS_RemoveElement
<1>4. f \in Bijection(U, W)
  <2>1. f \in [U -> W]
    OBVIOUS
  <2>2. \A a, b \in U : f[a] = f[b] => a = b
    OBVIOUS
  <2>3. \A w \in W : w - 1 \in U /\ f[w - 1] = w
    OBVIOUS
  <2> QED
    BY <2>1, <2>2, <2>3 DEF Bijection, Injection, Surjection, IsInjective
<1>5. Cardinality(W) = Cardinality(U)
  BY <1>2, <1>4, FS_Bijection DEF ExistsBijection
<1>6. Cardinality(S) \in Nat /\ Cardinality(T) \in Nat
  BY <1>1, FS_CardinalityType
<1> HIDE DEF U, W, f
<1> QED
  BY <1>2, <1>3, <1>5, <1>6

HeldPlaces == {p \in CorePosition : Holds(p)}

\* The blocks in the core, across a clock edge.
LEMMA InFlightClocked ==
  ASSUME CoreTypeOK, NEW i \in PortType, CoreClock(i)
  PROVE  /\ InFlight \in Nat /\ InFlight' \in Nat
         /\ InFlight' + (IF valid_out THEN 1 ELSE 0)
              = InFlight + (IF i.valid_in THEN 1 ELSE 0)
<1> DEFINE n == 3 * StageLen - 1
           S == {p \in CorePosition : Holds(p)}
           T == {p \in CorePosition : Holds(p)'}
<1>0. Rounds \in Nat \ {0} /\ StageLen = Rounds + 3
  BY RoundsAssumption, Positions
<1>1. n \in Nat /\ CorePosition = 0 .. n
  BY <1>0 DEF CorePosition
<1>2. /\ Holds(0)' = i.valid_in
      /\ \A p \in 0 .. 3 * StageLen - 2 : Holds(p + 1)' = Holds(p)
  BY ClockHolds
<1>3. \A p \in 0 .. n - 1 : p + 1 \in T <=> p \in S
  BY <1>0, <1>1, <1>2
<1>4. 0 \in T <=> i.valid_in
  BY <1>0, <1>1, <1>2
<1>5. n \in S <=> valid_out
  <2>1. /\ Rounds + 2 \in 0 .. StageLen - 1 /\ n = 2 * StageLen + (Rounds + 2)
        /\ n \in CorePosition
    BY <1>0, <1>1
  <2>2. Holds(2 * StageLen + (Rounds + 2)) = E1!Occupied(encrypt3, Rounds + 2)
    BY <2>1, HoldsAt
  <2>3. E1!Occupied(encrypt3, Rounds + 2) = encrypt3.valid_out
    BY <1>0 DEF E1!Occupied
  <2> QED
    BY <2>1, <2>2, <2>3 DEF valid_out
<1>6. InFlight = Cardinality(S) /\ InFlight' = Cardinality(T)
  BY DEF InFlight
<1>7. S \in SUBSET (0 .. n) /\ T \in SUBSET (0 .. n)
  BY <1>1
<1> HIDE DEF S, T, n
<1> QED
  BY <1>1, <1>3, <1>4, <1>5, <1>6, <1>7, ShiftedCount

\* The number of the blocks in the core is one.
LEMMA InFlightType == InFlight \in Nat /\ InFlight' \in Nat
<1>1. CorePosition = 0 .. 3 * StageLen - 1 /\ 3 * StageLen - 1 \in Int
  BY Positions DEF CorePosition
<1>2. IsFiniteSet(CorePosition)
  BY <1>1, FS_Interval
<1>3. ASSUME NEW S \in SUBSET CorePosition PROVE Cardinality(S) \in Nat
  BY <1>2, FS_Subset, FS_CardinalityType
<1>4. /\ Cardinality({p \in CorePosition : Holds(p)}) \in Nat
      /\ Cardinality({p \in CorePosition : Holds(p)'}) \in Nat
  BY <1>3
<1> QED
  BY <1>4 DEF InFlight

\* What holds in every state of the monitor.
MonitorInv ==
  /\ CoreTypeOK /\ state \in {"IDLE", "RUNNING"}
  /\ accepted \in Nat /\ emitted \in Nat /\ ghosts \in Nat
  /\ BlocksConserved /\ LeftoversInStep

\* Leftovers that are in step stay so while they move.
LEMMA InStepMoves ==
  ASSUME CoreTypeOK, NEW i \in PortType, CoreClock(i), ~ i.valid_in,
         \A p, q \in CorePosition :
            Holds(p) /\ Holds(q) => p % StageLen = q % StageLen
  PROVE  \A p, q \in CorePosition :
            Holds(p)' /\ Holds(q)' => p % StageLen = q % StageLen
<1>0. StageLen \in Nat \ {0} /\ CorePosition = 0 .. 3 * StageLen - 1
  BY Positions DEF CorePosition
<1>1. /\ ~ Holds(0)'
      /\ \A p \in 0 .. 3 * StageLen - 2 : Holds(p + 1)' = Holds(p)
  BY ClockHolds
<1>2. \A p \in CorePosition : Holds(p)' =>
        /\ p - 1 \in CorePosition /\ p - 1 \in 0 .. 3 * StageLen - 2 /\ Holds(p - 1)
  <2>1. ASSUME NEW p \in CorePosition, Holds(p)'
        PROVE  p - 1 \in CorePosition /\ p - 1 \in 0 .. 3 * StageLen - 2 /\ Holds(p - 1)
    <3>1. p # 0
      BY <1>1, <2>1
    <3>2. PICK m \in 0 .. 3 * StageLen - 2 : p = m + 1
      <4>1. p - 1 \in 0 .. 3 * StageLen - 2 /\ p = (p - 1) + 1
        BY <1>0, <3>1
      <4> QED
        BY <4>1
    <3>3. Holds(m + 1)' = Holds(m)
      BY <1>1
    <3>4. p - 1 = m /\ m \in CorePosition
      BY <1>0, <3>2
    <3> QED
      BY <2>1, <3>2, <3>3, <3>4
  <2> QED
    BY <2>1
<1>3. ASSUME NEW p \in CorePosition, NEW q \in CorePosition, Holds(p)', Holds(q)'
      PROVE  p % StageLen = q % StageLen
  <2>1. /\ p - 1 \in CorePosition /\ q - 1 \in CorePosition
        /\ Holds(p - 1) /\ Holds(q - 1)
    BY <1>2, <1>3
  <2>2. (p - 1) % StageLen = (q - 1) % StageLen
    BY <2>1
  <2>3. p \in Int /\ q \in Int /\ p - 1 \in Int /\ q - 1 \in Int
    BY <1>0
  <2> QED
    BY <1>0, <2>2, <2>3, NextMod
<1> QED
  BY <1>3

\* What waits in front of the instances is in step.
LEMMA FrontsInStep ==
  /\ (\A p \in CorePosition \ Fronts : ~ Holds(p)) =>
        \A p, q \in CorePosition : Holds(p) /\ Holds(q) => p % StageLen = q % StageLen
  /\ (\A p \in CorePosition \ Fronts : ~ Holds(p)') =>
        \A p, q \in CorePosition : Holds(p)' /\ Holds(q)' => p % StageLen = q % StageLen
<1>1. 0 \in 0 .. StageLen - 1 /\ StageLen \in Nat \ {0}
  BY Positions
<1>2. /\ 0 % StageLen = 0 /\ (StageLen + 0) % StageLen = 0
      /\ (2 * StageLen + 0) % StageLen = 0
  BY <1>1, Positions
<1>3. \A p \in Fronts : p % StageLen = 0
  BY <1>1, <1>2 DEF Fronts
<1> QED
  BY <1>3

\* And at most three blocks wait there.
LEMMA FrontsAreFew ==
  /\ (\A p \in CorePosition \ Fronts : ~ Holds(p)) => InFlight <= 3
  /\ (\A p \in CorePosition \ Fronts : ~ Holds(p)') => InFlight' <= 3
<1>1. IsFiniteSet(Fronts) /\ Cardinality(Fronts) <= 3
  <2>1. IsFiniteSet({0}) /\ Cardinality({0}) = 1
    BY FS_Singleton
  <2>2. /\ IsFiniteSet({0} \cup {StageLen})
        /\ Cardinality({0} \cup {StageLen}) <= 2 /\ Cardinality({0} \cup {StageLen}) \in Nat
    BY <2>1, FS_AddElement
  <2>3. /\ IsFiniteSet({0} \cup {StageLen} \cup {2 * StageLen})
        /\ Cardinality({0} \cup {StageLen} \cup {2 * StageLen}) <= 3
    BY <2>2, FS_AddElement
  <2>4. Fronts = {0} \cup {StageLen} \cup {2 * StageLen}
    BY DEF Fronts
  <2> QED
    BY <2>3, <2>4
<1>2. ASSUME NEW S \in SUBSET Fronts PROVE Cardinality(S) <= 3
  BY <1>1, FS_Subset, FS_CardinalityType
<1>3. ASSUME \A p \in CorePosition \ Fronts : ~ Holds(p) PROVE InFlight <= 3
  BY <1>2, <1>3 DEF InFlight
<1>4. ASSUME \A p \in CorePosition \ Fronts : ~ Holds(p)' PROVE InFlight' <= 3
  <2>1. {p \in CorePosition : Holds(p)'} \in SUBSET Fronts
    BY <1>4
  <2> QED
    BY <1>2, <2>1 DEF InFlight
<1> QED
  BY <1>3, <1>4

\* The invariant of the monitor is one.
LEMMA MonitorInit == RInit => MonitorInv
<1> SUFFICES ASSUME RInit PROVE MonitorInv
  OBVIOUS
<1>1. /\ CoreInit /\ state = "IDLE" /\ accepted = 0 /\ emitted = 0
      /\ ghosts = InFlight
  BY DEF RInit, FsmInit
<1>2. CoreTypeOK /\ \A p \in CorePosition \ Fronts : ~ Holds(p)
  BY <1>1, InitHolds
<1>3. BlocksConserved
  BY <1>1, <1>2, InFlightType, FrontsAreFew DEF BlocksConserved
<1>4. LeftoversInStep
  BY <1>2, FrontsInStep DEF LeftoversInStep
<1> QED
  BY <1>1, <1>2, <1>3, <1>4, InFlightType DEF MonitorInv

\* Every step keeps it.
LEMMA MonitorNext == MonitorInv /\ [RNext]_rvars => MonitorInv'
<1> SUFFICES ASSUME MonitorInv, [RNext]_rvars
             PROVE  MonitorInv'
  OBVIOUS
<1>1. /\ CoreTypeOK /\ state \in {"IDLE", "RUNNING"}
      /\ accepted \in Nat /\ emitted \in Nat /\ ghosts \in Nat
      /\ emitted + InFlight = accepted + ghosts /\ ghosts <= 3
  BY DEF MonitorInv, BlocksConserved
<1>2. ASSUME NEW i \in Ports, RClock(i)
      PROVE  MonitorInv'
  <2>1. /\ CoreClock(i) /\ i \in PortType
        /\ state' = IF i.valid_in THEN "RUNNING" ELSE state
        /\ accepted' = accepted + (IF i.valid_in THEN 1 ELSE 0)
        /\ emitted' = emitted + (IF valid_out THEN 1 ELSE 0)
        /\ ghosts' = ghosts
    BY <1>2, PortsAssumption DEF RClock, FsmClock, done
  <2>2. /\ InFlight \in Nat /\ InFlight' \in Nat
        /\ InFlight' + (IF valid_out THEN 1 ELSE 0)
             = InFlight + (IF i.valid_in THEN 1 ELSE 0)
    BY <1>1, <2>1, InFlightClocked
  <2>3. CoreTypeOK'
    BY <1>1, <2>1, CoreClockMoves
  <2>4. accepted' \in Nat /\ emitted' \in Nat /\ ghosts' \in Nat
    BY <1>1, <2>1
  <2>5. BlocksConserved'
    <3>0. PICK a, e \in Nat : /\ a = IF i.valid_in THEN 1 ELSE 0
                             /\ e = IF valid_out THEN 1 ELSE 0
      OBVIOUS
    <3>2. PICK m, n \in Nat : m = InFlight /\ n = InFlight'
      BY <2>2
    <3>3. PICK s, t, g \in Nat : s = emitted /\ t = accepted /\ g = ghosts
      BY <1>1
    <3>4. n + e = m + a /\ s + m = t + g
      BY <1>1, <2>2, <3>0, <3>2, <3>3
    <3>5. (s + e) + n = (t + a) + g
      BY <3>4
    <3>6. emitted' = s + e /\ accepted' = t + a /\ ghosts' = g /\ InFlight' = n
      BY <2>1, <3>0, <3>2, <3>3
    <3>1. emitted' + InFlight' = accepted' + ghosts'
      BY <3>5, <3>6
    <3> QED
      BY <1>1, <2>1, <3>1 DEF BlocksConserved
  <2>6. LeftoversInStep'
    <3>1. ASSUME state' = "IDLE"
          PROVE  \A p, q \in CorePosition :
                    Holds(p)' /\ Holds(q)' => p % StageLen = q % StageLen
      <4>1. ~ i.valid_in /\ state = "IDLE"
        BY <2>1, <3>1
      <4>2. \A p, q \in CorePosition :
               Holds(p) /\ Holds(q) => p % StageLen = q % StageLen
        BY <4>1 DEF MonitorInv, LeftoversInStep
      <4> QED
        BY <1>1, <2>1, <4>1, <4>2, InStepMoves
    <3> QED
      BY <3>1 DEF LeftoversInStep
  <2> QED
    BY <1>1, <2>1, <2>3, <2>4, <2>5, <2>6 DEF MonitorInv
<1>3. CASE RReset
  <2>1. /\ CoreReset /\ state' = "IDLE" /\ accepted' = 0 /\ emitted' = 0
        /\ ghosts' = InFlight'
    BY <1>3 DEF RReset, FsmReset
  <2>2. CoreTypeOK'
    BY <1>1, <2>1, CoreResetClears
  <2>3. \A p \in CorePosition \ Fronts : ~ Holds(p)'
    BY <1>1, <2>1, ResetHolds
  <2>4. InFlight' \in Nat
    BY InFlightType
  <2>5. BlocksConserved'
    BY <2>1, <2>3, <2>4, FrontsAreFew DEF BlocksConserved
  <2>6. LeftoversInStep'
    BY <2>3, FrontsInStep DEF LeftoversInStep
  <2> QED
    BY <2>1, <2>2, <2>4, <2>5, <2>6 DEF MonitorInv
<1>4. CASE UNCHANGED rvars
  <2>1. /\ UNCHANGED <<encrypt1, decrypt2, encrypt3, state>>
        /\ UNCHANGED <<accepted, emitted, ghosts>>
    BY <1>4 DEF rvars, fsm, core
  <2>2. CoreTypeOK'
    BY <1>1, <2>1, CoreTypes
  <2>3. \A p : At(p)' = At(p)
    BY <2>1 DEF At
  <2>4. \A p : Holds(p)' = Holds(p)
    BY <2>3 DEF Holds
  <2>5. InFlight' = InFlight
    BY <2>4 DEF InFlight
  <2>6. BlocksConserved'
    BY <1>1, <2>1, <2>5 DEF BlocksConserved
  <2>7. LeftoversInStep'
    BY <2>1, <2>4 DEF LeftoversInStep, MonitorInv
  <2> QED
    BY <1>1, <2>1, <2>2, <2>6, <2>7 DEF MonitorInv
<1> QED
  BY <1>2, <1>3, <1>4 DEF RNext

\* So every state has it.
LEMMA MonitorHolds == RSpec => []MonitorInv
BY MonitorInit, MonitorNext, PTL DEF RSpec

(***************************************************************************)
(* Between two resets no block is lost, doubled or invented, for any number *)
(* of rounds (des3.v, lines 24-52).                                         *)
(***************************************************************************)
THEOREM CoreLosesNothing == RSpec => []BlocksConserved
BY MonitorHolds, PTL DEF MonitorInv

(***************************************************************************)
(* The blocks that outlive a reset leave at the same distance from the end  *)
(* of their instances, until the next start (feistel_algo.v, lines 66-88).  *)
(***************************************************************************)
THEOREM LeftoversMoveTogether == RSpec => []LeftoversInStep
BY MonitorHolds, PTL DEF MonitorInv

-----------------------------------------------------------------------------
(* The words of the register file. *)

\* The width of a word.
W == WordBits

\* The two words of a register, as sets of bits.
LEMMA WordsOf ==
  ASSUME NEW x \in Word(2 * W)
  PROVE  /\ Lo(x) = {n \in 0 .. W - 1 : n \in x} /\ Lo(x) \in Word(W)
         /\ Hi(x) = {n \in 0 .. W - 1 : n + W \in x} /\ Hi(x) \in Word(W)
<1>0. W \in Nat \ {0} /\ x \subseteq 0 .. 2 * W - 1
  BY WordsAssumption DEF W, Word
<1>1. ASSUME NEW n PROVE n \in Lo(x) <=> n \in 0 .. W - 1 /\ n \in x
  <2>1. n \in Lo(x) <=> \E i \in x : 0 <= i /\ i <= W - 1 /\ n = i - 0
    BY <1>0 DEF Lo, Slice, W
  <2> QED
    BY <1>0, <2>1
<1>2. ASSUME NEW n PROVE n \in Hi(x) <=> n \in 0 .. W - 1 /\ n + W \in x
  <2>1. n \in Hi(x) <=> \E i \in x : W <= i /\ i <= 2 * W - 1 /\ n = i - W
    BY <1>0 DEF Hi, Slice, W
  <2>2. ASSUME n \in Hi(x) PROVE n \in 0 .. W - 1 /\ n + W \in x
    <3>1. PICK i \in x : W <= i /\ i <= 2 * W - 1 /\ n = i - W
      BY <2>1, <2>2
    <3>2. i \in Nat
      BY <1>0
    <3>3. n + W = i
      BY <1>0, <3>1, <3>2
    <3> QED
      BY <1>0, <3>1, <3>2, <3>3
  <2>3. ASSUME n \in 0 .. W - 1, n + W \in x PROVE n \in Hi(x)
    <3>1. W <= n + W /\ n + W <= 2 * W - 1 /\ n = (n + W) - W
      BY <1>0, <2>3
    <3> QED
      BY <2>1, <2>3, <3>1
  <2> QED
    BY <2>2, <2>3
<1> QED
  BY <1>1, <1>2 DEF Word

\* A register is its two words.
LEMMA WordsDetermine ==
  ASSUME NEW x \in Word(2 * W), NEW y \in Word(2 * W), Lo(x) = Lo(y), Hi(x) = Hi(y)
  PROVE  x = y
<1>0. W \in Nat \ {0} /\ x \subseteq 0 .. 2 * W - 1 /\ y \subseteq 0 .. 2 * W - 1
  BY WordsAssumption DEF W, Word
<1>1. ASSUME NEW n \in 0 .. 2 * W - 1 PROVE n \in x <=> n \in y
  <2>1. CASE n <= W - 1
    <3>1. n \in 0 .. W - 1
      BY <1>0, <2>1
    <3> QED
      BY <3>1, WordsOf
  <2>2. CASE ~ (n <= W - 1)
    <3>1. PICK m \in 0 .. W - 1 : m + W = n
      <4>1. n - W \in 0 .. W - 1 /\ (n - W) + W = n
        BY <1>0, <2>2
      <4> QED
        BY <4>1
    <3>2. (m \in Hi(x) <=> n \in x) /\ (m \in Hi(y) <=> n \in y)
      BY <3>1, WordsOf
    <3> QED
      BY <3>2
  <2> QED
    BY <2>1, <2>2
<1> QED
  BY <1>0, <1>1

\* A concatenation of two words has these words.
LEMMA WordsJoined ==
  ASSUME NEW h \in Word(W), NEW l \in Word(W)
  PROVE  /\ Append2(h, l, W) \in Word(2 * W)
         /\ Lo(Append2(h, l, W)) = l /\ Hi(Append2(h, l, W)) = h
<1> DEFINE x == Append2(h, l, W)
<1>0. W \in Nat \ {0} /\ h \subseteq 0 .. W - 1 /\ l \subseteq 0 .. W - 1
  BY WordsAssumption DEF W, Word
<1>1. \A n : n \in x <=> n \in l \/ \E i \in h : n = i + W
  BY DEF Append2
<1> HIDE DEF x
<1>2. x \in Word(2 * W)
  <2>1. ASSUME NEW n \in x PROVE n \in 0 .. 2 * W - 1
    <3>1. CASE n \in l
      BY <1>0, <3>1
    <3>2. ASSUME NEW i \in h, n = i + W PROVE n \in 0 .. 2 * W - 1
      BY <1>0, <3>2
    <3> QED
      BY <1>1, <3>1, <3>2
  <2> QED
    BY <2>1 DEF Word
<1>3. \A n \in 0 .. W - 1 : n \in x <=> n \in l
  BY <1>0, <1>1
<1>4. \A n \in 0 .. W - 1 : n + W \in x <=> n \in h
  BY <1>0, <1>1
<1>5. Lo(x) = l
  BY <1>0, <1>2, <1>3, WordsOf
<1>6. Hi(x) = h
  BY <1>0, <1>2, <1>4, WordsOf
<1> QED
  BY <1>2, <1>5, <1>6 DEF x

\* What a write makes of a register.
LEMMA WrittenWords ==
  ASSUME NEW x \in Word(2 * W), NEW w \in Word(W)
  PROVE  /\ WithLo(x, w) \in Word(2 * W)
         /\ Lo(WithLo(x, w)) = w /\ Hi(WithLo(x, w)) = Hi(x)
         /\ WithHi(x, w) \in Word(2 * W)
         /\ Lo(WithHi(x, w)) = Lo(x) /\ Hi(WithHi(x, w)) = w
<1>1. Lo(x) \in Word(W) /\ Hi(x) \in Word(W)
  BY WordsOf
<1>2. WithLo(x, w) = Append2(Hi(x), w, W) /\ WithHi(x, w) = Append2(w, Lo(x), W)
  BY DEF WithLo, WithHi, W
<1> QED
  BY <1>1, <1>2, WordsJoined

\* A register after a bus cycle.
LEMMA WrittenType ==
  ASSUME NEW x \in Word(2 * W), NEW b \in Bus, NEW a
  PROVE  Written(x, b, a) \in Word(2 * W)
<1>1. b.avs_writedata \in Word(W)
  BY DEF Bus, W
<1> QED
  BY <1>1, WrittenWords DEF Written

-----------------------------------------------------------------------------
(* The queue of the requests. *)

\* The control write that has not yet been sampled, and the places of the core.
Slot == 0 .. 3 * StageLen

Takes(s) == IF s = 0 THEN reg_valid_in ELSE Holds(s - 1)

\* The blocks at s and before it on the way out.
Ahead(s) == Cardinality({t \in Slot : s <= t /\ Takes(t)})

\* What the block at s will be.
Due(s) == IF s = 0 THEN {TripleCipher(CorePorts)} ELSE Outcomes(s - 1)

\* The block at s was asked for, and not left over by a reset.
Wanted(s) == Takes(s) /\ pending[Ahead(s)] # {}

QueueInv ==
  /\ pending \in Seq({{}} \cup {{b} : b \in Block})
  /\ Len(pending) = Ahead(0)
  /\ \A s \in Slot : Wanted(s) => pending[Ahead(s)] = Due(s)
  /\ \A s \in 1 .. 2 * StageLen + Rounds : Wanted(s) => PortsHeld(CorePorts)

AvalonInv == AvalonTypeOK /\ CoreReady /\ QueueInv

\* How many there are, at a place.
LEMMA AheadType ==
  ASSUME NEW s \in Slot
  PROVE  /\ Ahead(s) \in Nat /\ Ahead(s) <= Ahead(0)
         /\ Takes(s) => Ahead(s) \in 1 .. Ahead(0)
         /\ Ahead(s)' \in Nat /\ Ahead(s)' <= Ahead(0)'
         /\ Takes(s)' => Ahead(s)' \in 1 .. Ahead(0)'
<1>0. 3 * StageLen \in Nat /\ Slot = 0 .. 3 * StageLen
  BY Positions DEF Slot
<1>1. IsFiniteSet(Slot)
  BY <1>0, FS_Interval
<1>2. ASSUME NEW S \in SUBSET Slot, NEW T \in SUBSET S
      PROVE  /\ Cardinality(S) \in Nat /\ Cardinality(T) \in Nat
             /\ Cardinality(T) <= Cardinality(S)
             /\ T # {} => Cardinality(T) # 0
  <2>1. IsFiniteSet(S)
    BY <1>1, FS_Subset
  <2>2. IsFiniteSet(T) /\ Cardinality(T) <= Cardinality(S)
    BY <2>1, FS_Subset
  <2> QED
    BY <2>1, <2>2, FS_CardinalityType, FS_EmptySet
<1>3. /\ Ahead(s) \in Nat /\ Ahead(0) \in Nat /\ Ahead(s) <= Ahead(0)
      /\ Takes(s) => Ahead(s) # 0
  <2> DEFINE T == {t \in Slot : s <= t /\ Takes(t)}
             S == {t \in Slot : 0 <= t /\ Takes(t)}
  <2>1. S \in SUBSET Slot /\ T \in SUBSET S
    BY <1>0
  <2>2. Takes(s) => s \in T
    BY <1>0
  <2>3. Ahead(s) = Cardinality(T) /\ Ahead(0) = Cardinality(S)
    BY DEF Ahead
  <2> HIDE DEF S, T
  <2> QED
    BY <1>2, <2>1, <2>2, <2>3
<1>4. /\ Ahead(s)' \in Nat /\ Ahead(0)' \in Nat /\ Ahead(s)' <= Ahead(0)'
      /\ Takes(s)' => Ahead(s)' # 0
  <2> DEFINE T == {t \in Slot : s <= t /\ Takes(t)'}
             S == {t \in Slot : 0 <= t /\ Takes(t)'}
  <2>1. S \in SUBSET Slot /\ T \in SUBSET S
    BY <1>0
  <2>2. Takes(s)' => s \in T
    BY <1>0
  <2>3. Ahead(s)' = Cardinality(T) /\ Ahead(0)' = Cardinality(S)
    BY DEF Ahead
  <2> HIDE DEF S, T
  <2> QED
    BY <1>2, <2>1, <2>2, <2>3
<1> QED
  BY <1>3, <1>4

\* A clock edge moves the blocks one slot on and takes in a control write.
LEMMA TakesClocked ==
  ASSUME AvalonTypeOK, NEW b \in Bus, BusCycle(b)
  PROVE  /\ CorePorts \in PortType /\ CoreClock(CorePorts) /\ CoreTypeOK
         /\ \A s \in 0 .. 3 * StageLen - 1 : Takes(s + 1)' = Takes(s)
         /\ Takes(0)' = valid_in_Next(b)
         /\ Takes(3 * StageLen) = valid_out
<1>0. Rounds \in Nat \ {0} /\ StageLen = Rounds + 3 /\ StageLen \in Nat \ {0}
  BY RoundsAssumption, Positions
<1>1. CorePorts \in PortType
  BY WordsAssumption DEF AvalonTypeOK, CorePorts, PortType
<1>2. CoreClock(CorePorts) /\ CoreTypeOK
  BY DEF BusCycle, AvalonTypeOK
<1>3. /\ Holds(0)' = reg_valid_in
      /\ \A p \in 0 .. 3 * StageLen - 2 : Holds(p + 1)' = Holds(p)
  <2>1. CorePorts.valid_in = reg_valid_in
    BY DEF CorePorts
  <2> QED
    BY <1>1, <1>2, <2>1, ClockHolds
<1>4. ASSUME NEW s \in 0 .. 3 * StageLen - 1
      PROVE  Takes(s + 1)' = Takes(s)
  <2>1. s + 1 # 0 /\ (s + 1) - 1 = s
    BY <1>0
  <2>2. Takes(s + 1)' = Holds(s)'
    BY <2>1 DEF Takes
  <2>3. CASE s = 0
    BY <1>3, <2>2, <2>3 DEF Takes
  <2>4. CASE s # 0
    <3>1. PICK p \in 0 .. 3 * StageLen - 2 : s = p + 1 /\ s - 1 = p
      <4>1. s - 1 \in 0 .. 3 * StageLen - 2 /\ s = (s - 1) + 1
        BY <1>0, <2>4
      <4> QED
        BY <4>1
    <3>2. Holds(p + 1)' = Holds(p)
      BY <1>3
    <3>3. Takes(s) = Holds(s - 1)
      BY <2>4 DEF Takes
    <3> QED
      BY <2>2, <3>1, <3>2, <3>3
  <2> QED
    BY <2>3, <2>4
<1>5. Takes(0)' = valid_in_Next(b)
  BY DEF Takes, BusCycle
<1>6. Takes(3 * StageLen) = valid_out
  <2>1. /\ Rounds + 2 \in 0 .. StageLen - 1 /\ 3 * StageLen # 0
        /\ 3 * StageLen - 1 = 2 * StageLen + (Rounds + 2)
    BY <1>0
  <2>2. Holds(2 * StageLen + (Rounds + 2)) = E1!Occupied(encrypt3, Rounds + 2)
    BY <2>1, HoldsAt
  <2>3. E1!Occupied(encrypt3, Rounds + 2) = encrypt3.valid_out
    BY <1>0 DEF E1!Occupied
  <2> QED
    BY <2>1, <2>2, <2>3 DEF Takes, valid_out
<1> QED
  BY <1>1, <1>2, <1>4, <1>5, <1>6

\* One leaves the count of every slot when a block leaves the core.
LEMMA AheadClocked ==
  ASSUME AvalonTypeOK, NEW b \in Bus, BusCycle(b)
  PROVE  /\ \A s \in 0 .. 3 * StageLen - 1 :
              Ahead(s + 1)' + (IF valid_out THEN 1 ELSE 0) = Ahead(s)
         /\ Ahead(0)' + (IF valid_out THEN 1 ELSE 0)
              = Ahead(0) + (IF valid_in_Next(b) THEN 1 ELSE 0)
<1> DEFINE n == 3 * StageLen
<1>0. n \in Nat \ {0} /\ Slot = 0 .. n
  BY Positions DEF Slot
<1>1. /\ \A s \in 0 .. n - 1 : Takes(s + 1)' = Takes(s)
      /\ Takes(0)' = valid_in_Next(b) /\ Takes(n) = valid_out
  BY TakesClocked
<1> HIDE DEF n
<1>2. ASSUME NEW s \in 0 .. n - 1
      PROVE  Ahead(s + 1)' + (IF valid_out THEN 1 ELSE 0) = Ahead(s)
  <2> DEFINE S == {t \in Slot : s <= t /\ Takes(t)}
             T == {t \in Slot : s + 1 <= t /\ Takes(t)'}
  <2>1. S \in SUBSET (0 .. n) /\ T \in SUBSET (0 .. n)
    BY <1>0
  <2>2. \A p \in 0 .. n - 1 : p + 1 \in T <=> p \in S
    BY <1>0, <1>1
  <2>3. 0 \notin T /\ (n \in S <=> valid_out)
    BY <1>0, <1>1
  <2>4. Ahead(s) = Cardinality(S) /\ Ahead(s + 1)' = Cardinality(T)
    BY DEF Ahead
  <2> HIDE DEF S, T
  <2>5. /\ Cardinality(T) \in Nat
        /\ Cardinality(T) + (IF n \in S THEN 1 ELSE 0)
             = Cardinality(S) + (IF 0 \in T THEN 1 ELSE 0)
        /\ Cardinality(S) \in Nat
    BY <1>0, <2>1, <2>2, ShiftedCount
  <2> QED
    BY <2>3, <2>4, <2>5
<1>3. Ahead(0)' + (IF valid_out THEN 1 ELSE 0)
        = Ahead(0) + (IF valid_in_Next(b) THEN 1 ELSE 0)
  <2> DEFINE S == {t \in Slot : 0 <= t /\ Takes(t)}
             T == {t \in Slot : 0 <= t /\ Takes(t)'}
  <2>1. S \in SUBSET (0 .. n) /\ T \in SUBSET (0 .. n)
    BY <1>0
  <2>2. \A p \in 0 .. n - 1 : p + 1 \in T <=> p \in S
    BY <1>0, <1>1
  <2>3. (0 \in T <=> valid_in_Next(b)) /\ (n \in S <=> valid_out)
    BY <1>0, <1>1
  <2>4. Ahead(0) = Cardinality(S) /\ Ahead(0)' = Cardinality(T)
    BY DEF Ahead
  <2> HIDE DEF S, T
  <2>5. /\ Cardinality(T) + (IF n \in S THEN 1 ELSE 0)
             = Cardinality(S) + (IF 0 \in T THEN 1 ELSE 0)
    BY <1>0, <2>1, <2>2, ShiftedCount
  <2> QED
    BY <2>3, <2>4, <2>5
<1> QED
  BY <1>2, <1>3 DEF n

\* One more entry at the end of a queue, or none.
LEMMA QueueAppend ==
  ASSUME NEW E, NEW q \in Seq(E)
  PROVE  /\ \A x \in E : /\ q \o <<x>> \in Seq(E) /\ Len(q \o <<x>>) = Len(q) + 1
                         /\ \A k \in 1 .. Len(q) : (q \o <<x>>)[k] = q[k]
                         /\ (q \o <<x>>)[Len(q) + 1] = x
         /\ q \o <<>> = q
OBVIOUS

\* The queue after a bus cycle: it has one entry for each block, and a block
\* keeps its own.
LEMMA QueueMoves ==
  ASSUME AvalonTypeOK, QueueInv, NEW b \in Bus, BusCycle(b)
  PROVE  /\ pending' \in Seq({{}} \cup {{c} : c \in Block})
         /\ Len(pending') = Ahead(0)'
         /\ \A s \in 0 .. 3 * StageLen - 1 :
              Takes(s) => pending'[Ahead(s + 1)'] = pending[Ahead(s)]
         /\ valid_in_Next(b) =>
              pending'[Ahead(0)'] =
                {TripleCipher([CorePorts EXCEPT !.decrypt = 1 \in b.avs_writedata])}
<1> DEFINE e == IF valid_out THEN 1 ELSE 0
           q == IF valid_out THEN Tail(pending) ELSE pending
           E == {{}} \cup {{c} : c \in Block}
           i == [CorePorts EXCEPT !.decrypt = 1 \in b.avs_writedata]
<1>0. 3 * StageLen \in Nat \ {0} /\ 0 \in Slot /\ 3 * StageLen \in Slot
  BY Positions DEF Slot
<1>1. /\ pending \in Seq(E) /\ Len(pending) = Ahead(0) /\ Ahead(0) \in Nat
      /\ pending' = q \o Asked(b)
  BY <1>0, AheadType DEF QueueInv, BusCycle
<1>2. valid_out => Len(pending) # 0
  <2>1. valid_out => Takes(3 * StageLen)
    BY TakesClocked
  <2>2. Takes(3 * StageLen) => Ahead(3 * StageLen) \in 1 .. Ahead(0)
    BY <1>0, AheadType
  <2> QED
    BY <1>1, <2>1, <2>2
<1>3. /\ q \in Seq(E) /\ Len(q) \in Nat /\ Len(q) + e = Len(pending)
      /\ \A k \in 1 .. Len(q) : q[k] = pending[k + e]
  <2>1. CASE valid_out
    <3>1. pending # <<>>
      BY <1>1, <1>2, <2>1
    <3>2. q = Tail(pending) /\ e = 1
      BY <2>1
    <3>3. /\ Tail(pending) \in Seq(E) /\ Len(Tail(pending)) = Len(pending) - 1
          /\ \A k \in 1 .. Len(Tail(pending)) : Tail(pending)[k] = pending[k + 1]
          /\ Len(pending) \in Nat
      BY <1>1, <3>1
    <3> HIDE DEF q, e
    <3> QED
      BY <3>2, <3>3
  <2>2. CASE ~ valid_out
    BY <1>1, <2>2
  <2> QED
    BY <2>1, <2>2
<1>4. /\ valid_in_Next(b) => Asked(b) = <<{TripleCipher(i)}>>
      /\ ~ valid_in_Next(b) => Asked(b) = <<>>
  BY DEF Asked, valid_in_Next
<1>5. {TripleCipher(i)} \in E
  <2>1. /\ i.idata \in Block /\ i.key1 \in Key /\ i.key2 \in Key /\ i.key3 \in Key
        /\ i.decrypt \in BOOLEAN
    <3>1. CorePorts \in PortType
      BY TakesClocked
    <3> QED
      BY <3>1 DEF PortType
  <2> HIDE DEF i
  <2>2. \A d \in BOOLEAN, k \in Key, c \in Block : Crypt(c, One!Schedule(k, d)) \in Block
    BY CryptType
  <2>3. TripleCipher(i) \in Block
    BY <2>1, <2>2 DEF TripleCipher
  <2> QED
    BY <2>3
<1> HIDE DEF e, q, i, E
<1>6. /\ \A x \in E : /\ q \o <<x>> \in Seq(E) /\ Len(q \o <<x>>) = Len(q) + 1
                      /\ \A k \in 1 .. Len(q) : (q \o <<x>>)[k] = q[k]
                      /\ (q \o <<x>>)[Len(q) + 1] = x
      /\ q \o <<>> = q
  BY <1>3, QueueAppend
<1>7. /\ pending' \in Seq(E)
      /\ Len(pending') = Len(q) + (IF valid_in_Next(b) THEN 1 ELSE 0)
      /\ \A k \in 1 .. Len(q) : pending'[k] = q[k]
      /\ valid_in_Next(b) => pending'[Len(q) + 1] = {TripleCipher(i)}
  <2>1. CASE valid_in_Next(b)
    <3>1. pending' = q \o <<{TripleCipher(i)}>>
      BY <1>1, <1>4, <2>1
    <3> QED
      BY <1>5, <1>6, <2>1, <3>1
  <2>2. CASE ~ valid_in_Next(b)
    <3>1. pending' = q
      BY <1>1, <1>4, <1>6, <2>2
    <3> QED
      BY <1>3, <2>2, <3>1
  <2> QED
    BY <2>1, <2>2
<1>8. /\ \A s \in 0 .. 3 * StageLen - 1 : Ahead(s + 1)' + e = Ahead(s)
      /\ Ahead(0)' + e = Ahead(0) + (IF valid_in_Next(b) THEN 1 ELSE 0)
      /\ Ahead(0)' \in Nat /\ e \in {0, 1}
  BY <1>0, AheadClocked, AheadType DEF e
<1>9. Len(pending') = Ahead(0)'
  BY <1>1, <1>3, <1>7, <1>8
<1>10. valid_in_Next(b) => pending'[Ahead(0)'] = {TripleCipher(i)}
  BY <1>7, <1>9
<1>11. ASSUME NEW s \in 0 .. 3 * StageLen - 1, Takes(s)
       PROVE  pending'[Ahead(s + 1)'] = pending[Ahead(s)]
  <2>1. s + 1 \in Slot /\ s \in Slot
    BY <1>0 DEF Slot
  <2>2. Takes(s + 1)'
    BY <1>11, TakesClocked
  <2>3. Ahead(s + 1)' \in 1 .. Ahead(0)'
    BY <2>1, <2>2, AheadType
  <2>4. PICK k \in Nat : k = Ahead(s + 1)' /\ k # 0 /\ k + e = Ahead(s)
    BY <1>8, <2>3
  <2>5. k + e <= Ahead(0)
    BY <2>1, <2>4, AheadType
  <2>6. k \in 1 .. Len(q)
    BY SMTT(40), <1>1, <1>3, <1>8, <2>4, <2>5
  <2> QED
    BY <1>3, <1>7, <2>4, <2>6
<1> QED
  BY <1>7, <1>9, <1>10, <1>11 DEF E, i

\* What a block that was asked for still needs the keys and the direction for.
KeysNeeded == \E s \in 0 .. 2 * StageLen + Rounds - 1 : Wanted(s)

KeysKept == /\ reg_key1' = reg_key1 /\ reg_key2' = reg_key2 /\ reg_key3' = reg_key3
            /\ reg_decrypt' = reg_decrypt

\* Triple DES reads the block, the keys and the direction of a request.
LEMMA TripleCipherReads ==
  ASSUME NEW i, NEW j, i.idata = j.idata, i.key1 = j.key1, i.key2 = j.key2,
         i.key3 = j.key3, i.decrypt = j.decrypt
  PROVE  TripleCipher(i) = TripleCipher(j)
BY DEF TripleCipher

\* A bus cycle keeps the types of the register file.
LEMMA BusCycleType ==
  ASSUME AvalonTypeOK, NEW b \in Bus, BusCycle(b)
  PROVE  AvalonTypeOK'
<1>1. Block = Word(2 * W) /\ Key = Word(2 * W)
  BY WordsAssumption DEF W
<1>2. CorePorts \in PortType /\ CoreClock(CorePorts) /\ CoreTypeOK
  BY TakesClocked
<1>3. CoreTypeOK'
  BY <1>2, CoreClockMoves
<1>4. /\ reg_idata' \in Block /\ reg_key1' \in Key
      /\ reg_key2' \in Key /\ reg_key3' \in Key
  BY <1>1, WrittenType DEF BusCycle, AvalonTypeOK
<1>5. reg_odata' \in Block /\ reg_valid_out' \in BOOLEAN
  <2>1. odata \in Block
    BY <1>2, CoreTypes DEF Fields, E1!Regs, odata
  <2> QED
    BY <2>1 DEF BusCycle, AvalonTypeOK
<1>6. reg_decrypt' \in BOOLEAN /\ reg_valid_in' \in BOOLEAN
  <2>1. reg_valid_in' = valid_in_Next(b)
    BY DEF BusCycle
  <2>2. reg_decrypt' = IF Writes(b, 8) THEN 1 \in b.avs_writedata ELSE reg_decrypt
    BY DEF BusCycle
  <2>3. valid_in_Next(b) \in BOOLEAN
    BY DEF valid_in_Next, Writes, Bus
  <2>4. reg_decrypt \in BOOLEAN
    BY DEF AvalonTypeOK
  <2>5. CASE Writes(b, 8)
    <3>1. reg_decrypt' = (1 \in b.avs_writedata)
      BY <2>2, <2>5
    <3> QED
      BY <2>1, <2>3, <3>1
  <2>6. CASE ~ Writes(b, 8)
    <3>1. reg_decrypt' = reg_decrypt
      BY <2>2, <2>6
    <3> QED
      BY <2>1, <2>3, <2>4, <3>1
  <2> QED
    BY <2>5, <2>6
<1> QED
  BY <1>3, <1>4, <1>5, <1>6 DEF AvalonTypeOK

\* The core after a clock edge whose ports still have their keys.
LEMMA PortsHeldNext ==
  ASSUME AvalonTypeOK, NEW b \in Bus, BusCycle(b), KeysKept
  PROVE  PortsHeld(CorePorts)'
<1>1. /\ Advanced(encrypt1, Ports1(CorePorts), encrypt1')
      /\ Advanced(decrypt2, Ports2(CorePorts), decrypt2')
      /\ Advanced(encrypt3, Ports3(CorePorts), encrypt3')
  BY TakesClocked, CoreClockMoves
<1>2. /\ encrypt1'.key_in1 = stage1_key(CorePorts) /\ encrypt1'.decrypt1 = CorePorts.decrypt
      /\ decrypt2'.key_in1 = CorePorts.key2 /\ decrypt2'.decrypt1 = ~CorePorts.decrypt
      /\ encrypt3'.key_in1 = stage3_key(CorePorts) /\ encrypt3'.decrypt1 = CorePorts.decrypt
  BY <1>1 DEF Advanced, Ports1, Ports2, Ports3
<1>3. /\ CorePorts'.key1 = CorePorts.key1 /\ CorePorts'.key2 = CorePorts.key2
      /\ CorePorts'.key3 = CorePorts.key3 /\ CorePorts'.decrypt = CorePorts.decrypt
  BY DEF KeysKept, CorePorts
<1>4. /\ stage1_key(CorePorts)' = stage1_key(CorePorts)
      /\ stage3_key(CorePorts)' = stage3_key(CorePorts)
  BY <1>3 DEF stage1_key, stage3_key
<1>5. CorePorts.decrypt \in BOOLEAN
  BY TakesClocked DEF PortType
<1> QED
  BY <1>2, <1>3, <1>4, <1>5 DEF PortsHeld

(***************************************************************************)
(* A bus cycle that changes no key and no direction while a block that was  *)
(* asked for needs them keeps every block with its entry.                   *)
(***************************************************************************)
LEMMA QueueClocked ==
  ASSUME AvalonInv, NEW b \in Bus, BusCycle(b), KeysNeeded => KeysKept
  PROVE  AvalonInv'
<1>0. /\ Rounds \in Nat \ {0} /\ StageLen = Rounds + 3 /\ StageLen \in Nat \ {0}
      /\ AvalonTypeOK /\ CoreReady /\ QueueInv /\ CoreTypeOK
      /\ Slot = 0 .. 3 * StageLen
  BY RoundsAssumption, Positions DEF AvalonInv, AvalonTypeOK, Slot
<1>1. /\ CorePorts \in PortType /\ CoreClock(CorePorts)
      /\ \A s \in 0 .. 3 * StageLen - 1 : Takes(s + 1)' = Takes(s)
      /\ Takes(0)' = valid_in_Next(b)
  BY <1>0, TakesClocked
<1>2. /\ pending' \in Seq({{}} \cup {{c} : c \in Block})
      /\ Len(pending') = Ahead(0)'
      /\ \A s \in 0 .. 3 * StageLen - 1 :
           Takes(s) => pending'[Ahead(s + 1)'] = pending[Ahead(s)]
      /\ valid_in_Next(b) =>
           pending'[Ahead(0)'] =
             {TripleCipher([CorePorts EXCEPT !.decrypt = 1 \in b.avs_writedata])}
  BY <1>0, QueueMoves
<1>3. AvalonTypeOK' /\ CoreReady'
  BY <1>0, <1>1, BusCycleType, ClockReady
<1>4. ASSUME NEW s \in 0 .. 3 * StageLen - 1
      PROVE  Wanted(s + 1)' => Wanted(s)
  BY <1>1, <1>2 DEF Wanted
<1>5. ASSUME NEW s \in 0 .. 3 * StageLen - 1, Wanted(s)
      PROVE  Due(s + 1)' = Due(s)
  <2>1. s + 1 # 0 /\ (s + 1) - 1 = s
    BY <1>0
  <2>2. Due(s + 1)' = Outcomes(s)'
    BY <2>1 DEF Due
  <2>3. CASE s = 0
    <3>1. CorePorts.valid_in
      BY <1>5, <2>3 DEF Wanted, Takes, CorePorts
    <3>2. Outcomes(0)' = {TripleCipher(CorePorts)}
      BY <1>0, <1>1, <3>1, ClockEnters
    <3> QED
      BY <2>2, <2>3, <3>2 DEF Due
  <2>4. CASE s # 0
    <3>1. PICK p \in 0 .. 3 * StageLen - 2 : s = p + 1 /\ s - 1 = p
      <4>1. s - 1 \in 0 .. 3 * StageLen - 2 /\ s = (s - 1) + 1
        BY <1>0, <2>4
      <4> QED
        BY <4>1
    <3>2. Holds(p)
      BY <1>5, <2>4, <3>1 DEF Wanted, Takes
    <3>3. ASSUME p < 2 * StageLen + Rounds PROVE PortsHeld(CorePorts)
      <4>1. s \in 1 .. 2 * StageLen + Rounds
        BY <1>0, <3>1, <3>3
      <4> QED
        BY <1>0, <1>5, <4>1 DEF QueueInv
    <3>4. Outcomes(p + 1)' = Outcomes(p)
      BY <1>0, <1>1, <3>2, <3>3, ClockOutcomes
    <3> QED
      BY <2>2, <2>4, <3>1, <3>4 DEF Due
  <2> QED
    BY <2>3, <2>4
<1>6. ASSUME NEW s \in Slot, s # 0
      PROVE  \E t \in 0 .. 3 * StageLen - 1 : s = t + 1
  <2>1. s - 1 \in 0 .. 3 * StageLen - 1 /\ s = (s - 1) + 1
    BY <1>0, <1>6
  <2> QED
    BY <2>1
<1>7. ASSUME NEW s \in Slot, Wanted(s)'
      PROVE  pending'[Ahead(s)'] = Due(s)'
  <2>1. CASE s = 0
    <3>1. valid_in_Next(b)
      BY <1>1, <1>7, <2>1 DEF Wanted
    <3>2. /\ Writes(b, 8) /\ ~ Writes(b, 0) /\ ~ Writes(b, 1) /\ ~ Writes(b, 2)
          /\ ~ Writes(b, 3) /\ ~ Writes(b, 4) /\ ~ Writes(b, 5) /\ ~ Writes(b, 6)
          /\ ~ Writes(b, 7)
      BY <3>1 DEF valid_in_Next, Writes
    <3>3. /\ reg_idata' = reg_idata /\ reg_key1' = reg_key1 /\ reg_key2' = reg_key2
          /\ reg_key3' = reg_key3 /\ reg_decrypt' = (1 \in b.avs_writedata)
      BY <3>2 DEF BusCycle, Written
    <3>4. TripleCipher([CorePorts EXCEPT !.decrypt = 1 \in b.avs_writedata])
            = TripleCipher(CorePorts')
      <4> DEFINE i == [CorePorts EXCEPT !.decrypt = 1 \in b.avs_writedata]
      <4>1. /\ i.idata = CorePorts'.idata /\ i.key1 = CorePorts'.key1
            /\ i.key2 = CorePorts'.key2 /\ i.key3 = CorePorts'.key3
            /\ i.decrypt = CorePorts'.decrypt
        BY <3>3 DEF CorePorts
      <4> HIDE DEF i
      <4>2. TripleCipher(i) = TripleCipher(CorePorts')
        BY <4>1, TripleCipherReads
      <4> QED
        BY <4>2 DEF i
    <3>5. Due(0)' = {TripleCipher(CorePorts')}
      BY DEF Due, TripleCipher
    <3> QED
      BY <1>2, <2>1, <3>1, <3>4, <3>5
  <2>2. CASE s # 0
    <3>1. PICK t \in 0 .. 3 * StageLen - 1 : s = t + 1
      BY <1>6, <2>2
    <3>2. Wanted(t + 1)'
      BY <1>7, <3>1
    <3>3. Wanted(t)
      BY <1>4, <3>2
    <3>4. pending'[Ahead(t + 1)'] = pending[Ahead(t)]
      BY <1>2, <3>3 DEF Wanted
    <3>5. pending[Ahead(t)] = Due(t)
      <4>1. t \in Slot
        BY <1>0
      <4> QED
        BY <1>0, <3>3, <4>1 DEF QueueInv
    <3>6. pending'[Ahead(t + 1)'] = Due(t + 1)'
      BY <1>5, <3>3, <3>4, <3>5
    <3> QED
      BY <3>1, <3>6
  <2> QED
    BY <2>1, <2>2
<1>8. ASSUME NEW s \in 1 .. 2 * StageLen + Rounds, Wanted(s)'
      PROVE  PortsHeld(CorePorts)'
  <2>1. PICK t \in 0 .. 2 * StageLen + Rounds - 1 : s = t + 1
    <3>1. s - 1 \in 0 .. 2 * StageLen + Rounds - 1 /\ s = (s - 1) + 1
      BY <1>0
    <3> QED
      BY <3>1
  <2>2. t \in 0 .. 3 * StageLen - 1
    BY <1>0
  <2>3. Wanted(t + 1)'
    BY <1>8, <2>1
  <2>4. Wanted(t)
    BY <1>4, <2>2, <2>3
  <2>5. KeysKept
    BY <2>4 DEF KeysNeeded
  <2> QED
    BY <1>0, <2>5, PortsHeldNext
<1>9. QueueInv'
  BY <1>2, <1>7, <1>8 DEF QueueInv
<1> QED
  BY <1>3, <1>9 DEF AvalonInv

\* A polite bus cycle is one of those.
LEMMA PoliteKeeps ==
  ASSUME AvalonInv, NEW b \in Bus, BusCycle(b), Polite(b), KeysNeeded
  PROVE  KeysKept
<1>0. Rounds \in Nat \ {0} /\ StageLen = Rounds + 3
  BY RoundsAssumption, Positions
<1>1. RekeyUnsafe
  <2>1. PICK s \in 0 .. 2 * StageLen + Rounds - 1 : Takes(s)
    BY DEF KeysNeeded, Wanted
  <2>2. CASE s = 0
    BY <2>1, <2>2 DEF Takes, RekeyUnsafe
  <2>3. CASE s # 0
    <3>1. s - 1 \in 0 .. 2 * StageLen + Rounds - 2
      BY <1>0, <2>3
    <3> QED
      BY <2>1, <2>3, <3>1 DEF Takes, RekeyUnsafe
  <2> QED
    BY <2>2, <2>3
<1>2. /\ Written(reg_key1, b, 2) = reg_key1 /\ Written(reg_key2, b, 4) = reg_key2
      /\ Written(reg_key3, b, 6) = reg_key3
  <2>1. \A r \in {<<reg_key1, 2>>, <<reg_key2, 4>>, <<reg_key3, 6>>} :
          Written(r[1], b, r[2]) = r[1]
    BY <1>1 DEF Polite
  <2> QED
    BY <2>1
<1>3. Writes(b, 8) => (1 \in b.avs_writedata) = reg_decrypt
  BY <1>1 DEF Polite
<1> QED
  BY <1>2, <1>3 DEF KeysKept, BusCycle

\* One more element, or none.
LEMMA OneMore ==
  ASSUME NEW S, IsFiniteSet(S), NEW a, a \notin S, NEW x \in BOOLEAN,
         NEW T, \A t : t \in T <=> t \in S \/ (t = a /\ x)
  PROVE  /\ IsFiniteSet(T)
         /\ Cardinality(T) = Cardinality(S) + (IF x THEN 1 ELSE 0)
<1>1. Cardinality(S) \in Nat
  BY FS_CardinalityType
<1>2. CASE x
  <2>1. T = S \cup {a}
    BY <1>2
  <2> QED
    BY <1>2, <2>1, FS_AddElement
<1>3. CASE ~ x
  <2>1. T = S
    BY <1>3
  <2> QED
    BY <1>1, <1>3, <2>1
<1> QED
  BY <1>2, <1>3

\* S holds a, b and c, each if its own condition does.
Picks(S, a, x, b, y, c, z) ==
  \A t : t \in S <=> (t = a /\ x) \/ (t = b /\ y) \/ (t = c /\ z)

\* The size of such a set.
LEMMA ThreeCount ==
  ASSUME NEW a, NEW b, NEW c, a # b, a # c, b # c,
         NEW x \in BOOLEAN, NEW y \in BOOLEAN, NEW z \in BOOLEAN,
         NEW S, Picks(S, a, x, b, y, c, z)
  PROVE  Cardinality(S) = (IF x THEN 1 ELSE 0) + (IF y THEN 1 ELSE 0) + (IF z THEN 1 ELSE 0)
<1> DEFINE A == {t \in {a} : x}
           B == {t \in {a, b} : (t = a /\ x) \/ (t = b /\ y)}
<1>1. IsFiniteSet({}) /\ Cardinality({}) = 0
  BY FS_EmptySet
<1>2. \A t : t \in A <=> t \in {} \/ (t = a /\ x)
  OBVIOUS
<1>3. \A t : t \in B <=> t \in A \/ (t = b /\ y)
  OBVIOUS
<1>4. \A t : t \in S <=> t \in B \/ (t = c /\ z)
  BY DEF Picks
<1>5. b \notin A /\ c \notin B
  OBVIOUS
<1> HIDE DEF A, B
<1>6. IsFiniteSet(A) /\ Cardinality(A) = Cardinality({}) + (IF x THEN 1 ELSE 0)
  BY <1>1, <1>2, OneMore
<1>7. IsFiniteSet(B) /\ Cardinality(B) = Cardinality(A) + (IF y THEN 1 ELSE 0)
  BY <1>3, <1>5, <1>6, OneMore
<1>8. Cardinality(S) = Cardinality(B) + (IF z THEN 1 ELSE 0)
  BY <1>4, <1>5, <1>7, OneMore
<1> QED
  BY <1>1, <1>6, <1>7, <1>8

\* The entries for the leftovers.
LEMMA LeftoversType ==
  ASSUME CoreTypeOK
  PROVE  /\ Leftovers \in Seq({{}} \cup {{c} : c \in Block})
         /\ Len(Leftovers) = (IF encrypt1.V_buf THEN 1 ELSE 0)
                             + (IF decrypt2.V_buf THEN 1 ELSE 0)
                             + (IF encrypt3.V_buf THEN 1 ELSE 0)
         /\ \A k \in 1 .. Len(Leftovers) : Leftovers[k] = {}
<1> DEFINE a == <<1, encrypt1>>
           b == <<2, decrypt2>>
           c == <<3, encrypt3>>
           n == Cardinality({s \in {a, b, c} : s[2].V_buf})
<1>1. /\ encrypt1.V_buf \in BOOLEAN /\ decrypt2.V_buf \in BOOLEAN
      /\ encrypt3.V_buf \in BOOLEAN
  BY CoreTypes DEF Fields, E1!Regs
<1>2. a # b /\ a # c /\ b # c
  OBVIOUS
<1>3. a[2] = encrypt1 /\ b[2] = decrypt2 /\ c[2] = encrypt3
  OBVIOUS
<1>4. Leftovers = [k \in 1 .. n |-> {}]
  BY DEF Leftovers
<1> HIDE DEF a, b, c
<1> DEFINE S == {s \in {a, b, c} : s[2].V_buf}
<1>5. Picks(S, a, encrypt1.V_buf, b, decrypt2.V_buf, c, encrypt3.V_buf)
  <2>1. /\ a \in S <=> encrypt1.V_buf
        /\ b \in S <=> decrypt2.V_buf
        /\ c \in S <=> encrypt3.V_buf
    BY <1>3
  <2>2. \A t \in S : t = a \/ t = b \/ t = c
    OBVIOUS
  <2> HIDE DEF S
  <2> QED
    BY <2>1, <2>2 DEF Picks
<1> HIDE DEF S
<1>6. n = (IF encrypt1.V_buf THEN 1 ELSE 0) + (IF decrypt2.V_buf THEN 1 ELSE 0)
          + (IF encrypt3.V_buf THEN 1 ELSE 0)
  <2>1. n = Cardinality(S)
    BY DEF n, S
  <2> QED
    BY <1>1, <1>2, <1>5, <2>1, ThreeCount
<1>7. n \in Nat
  BY <1>6
<1> HIDE DEF n
<1> QED
  BY <1>4, <1>6, <1>7

\* The slots of the leftovers.
LEMMA LeftoversAhead ==
  /\ CoreTypeOK /\ (\A p \in CorePosition \ Fronts : ~ Holds(p)) /\ ~ reg_valid_in =>
       Ahead(0) = (IF encrypt1.V_buf THEN 1 ELSE 0) + (IF decrypt2.V_buf THEN 1 ELSE 0)
                  + (IF encrypt3.V_buf THEN 1 ELSE 0)
  /\ CoreTypeOK' /\ (\A p \in CorePosition \ Fronts : ~ Holds(p)') /\ ~ reg_valid_in' =>
       Ahead(0)' = (IF encrypt1'.V_buf THEN 1 ELSE 0) + (IF decrypt2'.V_buf THEN 1 ELSE 0)
                   + (IF encrypt3'.V_buf THEN 1 ELSE 0)
<1> DEFINE a == 1
           b == StageLen + 1
           c == 2 * StageLen + 1
<1>0. /\ Rounds \in Nat \ {0} /\ StageLen = Rounds + 3 /\ StageLen \in Nat \ {0}
      /\ Slot = 0 .. 3 * StageLen /\ CorePosition = 0 .. 3 * StageLen - 1
      /\ 0 \in 0 .. StageLen - 1
  BY RoundsAssumption, Positions DEF Slot, CorePosition
<1>1. /\ a \in Slot /\ b \in Slot /\ c \in Slot
      /\ a # b /\ a # c /\ b # c /\ a # 0 /\ b # 0 /\ c # 0
      /\ a - 1 = 0 /\ b - 1 = StageLen + 0 /\ c - 1 = 2 * StageLen + 0
  BY <1>0
<1>2. /\ Holds(0) = encrypt1.V_buf /\ Holds(StageLen + 0) = decrypt2.V_buf
      /\ Holds(2 * StageLen + 0) = encrypt3.V_buf
      /\ Holds(0)' = encrypt1'.V_buf /\ Holds(StageLen + 0)' = decrypt2'.V_buf
      /\ Holds(2 * StageLen + 0)' = encrypt3'.V_buf
  <2>1. \A s : E1!Occupied(s, 0) = s.V_buf
    BY <1>0 DEF E1!Occupied
  <2> QED
    BY <1>0, <2>1, HoldsAt
<1>3. \A t \in Slot : t # 0 /\ t # a /\ t # b /\ t # c => t - 1 \in CorePosition \ Fronts
  BY <1>0 DEF Fronts
<1>4. /\ Takes(a) = encrypt1.V_buf /\ Takes(b) = decrypt2.V_buf /\ Takes(c) = encrypt3.V_buf
      /\ Takes(a)' = encrypt1'.V_buf /\ Takes(b)' = decrypt2'.V_buf
      /\ Takes(c)' = encrypt3'.V_buf
  BY <1>1, <1>2 DEF Takes
<1>5. /\ Takes(0) = reg_valid_in /\ Takes(0)' = reg_valid_in'
      /\ \A t \in Slot : t # 0 => Takes(t) = Holds(t - 1) /\ Takes(t)' = Holds(t - 1)'
  BY DEF Takes
<1>6. \A t \in Slot : 0 <= t
  BY <1>0
<1> HIDE DEF a, b, c
<1>7. ASSUME CoreTypeOK, \A p \in CorePosition \ Fronts : ~ Holds(p), ~ reg_valid_in
      PROVE  Ahead(0) = (IF encrypt1.V_buf THEN 1 ELSE 0)
                        + (IF decrypt2.V_buf THEN 1 ELSE 0)
                        + (IF encrypt3.V_buf THEN 1 ELSE 0)
  <2>1. /\ encrypt1.V_buf \in BOOLEAN /\ decrypt2.V_buf \in BOOLEAN
        /\ encrypt3.V_buf \in BOOLEAN
    BY <1>7, CoreTypes DEF Fields, E1!Regs
  <2> DEFINE S == {t \in Slot : 0 <= t /\ Takes(t)}
  <2>2. ASSUME NEW t \in Slot, t # a, t # b, t # c PROVE ~ Takes(t)
    BY <1>3, <1>5, <1>7, <2>2
  <2>3. Picks(S, a, encrypt1.V_buf, b, decrypt2.V_buf, c, encrypt3.V_buf)
    <3>1. /\ a \in S <=> encrypt1.V_buf
          /\ b \in S <=> decrypt2.V_buf
          /\ c \in S <=> encrypt3.V_buf
      BY <1>1, <1>4, <1>6
    <3>2. \A t \in S : t = a \/ t = b \/ t = c
      BY <2>2
    <3> HIDE DEF S
    <3> QED
      BY <3>1, <3>2 DEF Picks
  <2>4. Ahead(0) = Cardinality(S)
    BY DEF Ahead
  <2> HIDE DEF S
  <2> QED
    BY <1>1, <2>1, <2>3, <2>4, ThreeCount
<1>8. ASSUME CoreTypeOK', \A p \in CorePosition \ Fronts : ~ Holds(p)', ~ reg_valid_in'
      PROVE  Ahead(0)' = (IF encrypt1'.V_buf THEN 1 ELSE 0)
                         + (IF decrypt2'.V_buf THEN 1 ELSE 0)
                         + (IF encrypt3'.V_buf THEN 1 ELSE 0)
  <2>1. /\ encrypt1'.V_buf \in BOOLEAN /\ decrypt2'.V_buf \in BOOLEAN
        /\ encrypt3'.V_buf \in BOOLEAN
    BY <1>8, CoreTypes DEF Fields, E1!Regs
  <2> DEFINE S == {t \in Slot : 0 <= t /\ Takes(t)'}
  <2>2. ASSUME NEW t \in Slot, t # a, t # b, t # c PROVE ~ Takes(t)'
    BY <1>3, <1>5, <1>8, <2>2
  <2>3. Picks(S, a, encrypt1'.V_buf, b, decrypt2'.V_buf, c, encrypt3'.V_buf)
    <3>1. /\ a \in S <=> encrypt1'.V_buf
          /\ b \in S <=> decrypt2'.V_buf
          /\ c \in S <=> encrypt3'.V_buf
      BY <1>1, <1>4, <1>6
    <3>2. \A t \in S : t = a \/ t = b \/ t = c
      BY <2>2
    <3> HIDE DEF S
    <3> QED
      BY <3>1, <3>2 DEF Picks
  <2>4. Ahead(0)' = Cardinality(S)
    BY DEF Ahead
  <2> HIDE DEF S
  <2> QED
    BY <1>1, <2>1, <2>3, <2>4, ThreeCount
<1> QED
  BY <1>7, <1>8

\* A cleared register file has its types.
LEMMA ClearedFile == {} \in Block /\ {} \in Key
BY WordsAssumption DEF Word

\* Power-up starts the queue with the leftovers.
LEMMA QueueInit == AvalonInit => AvalonInv
<1> SUFFICES ASSUME AvalonInit PROVE AvalonInv
  OBVIOUS
<1>1. /\ CoreTypeOK /\ CoreReady
      /\ \A p \in CorePosition \ Fronts : ~ Holds(p)
  BY InitHolds DEF AvalonInit
<1>2. AvalonTypeOK /\ ~ reg_valid_in /\ pending = Leftovers
  BY <1>1, ClearedFile DEF AvalonTypeOK, AvalonInit, RegfileInit
<1>3. /\ pending \in Seq({{}} \cup {{c} : c \in Block})
      /\ Len(pending) = Ahead(0)
      /\ \A k \in 1 .. Len(pending) : pending[k] = {}
  BY <1>1, <1>2, LeftoversType, LeftoversAhead
<1>4. \A s \in Slot : ~ Wanted(s)
  BY <1>3, AheadType DEF Wanted
<1>5. 1 .. 2 * StageLen + Rounds \subseteq Slot
  BY Positions, RoundsAssumption DEF Slot
<1> QED
  BY <1>1, <1>2, <1>3, <1>4, <1>5 DEF AvalonInv, QueueInv

\* So does a reset.
LEMMA QueueReset ==
  ASSUME AvalonInv, AvalonReset
  PROVE  AvalonInv' /\ \A k \in 1 .. Len(pending') : pending'[k] = {}
<1>1. CoreTypeOK /\ CoreReset
  BY DEF AvalonInv, AvalonTypeOK, AvalonReset
<1>2. /\ CoreTypeOK' /\ CoreReady'
      /\ \A p \in CorePosition \ Fronts : ~ Holds(p)'
  BY <1>1, CoreResetClears, ResetHolds
<1>3. AvalonTypeOK' /\ ~ reg_valid_in' /\ pending' = Leftovers
  BY <1>2, ClearedFile DEF AvalonTypeOK, AvalonReset
<1>4. /\ encrypt1'.V_buf = encrypt1.V_buf /\ decrypt2'.V_buf = decrypt2.V_buf
      /\ encrypt3'.V_buf = encrypt3.V_buf
  <2>1. encrypt1 \in Fields /\ decrypt2 \in Fields /\ encrypt3 \in Fields
    BY <1>1, CoreTypes
  <2>2. /\ encrypt1' = E1!Cleared(encrypt1) /\ decrypt2' = E1!Cleared(decrypt2)
        /\ encrypt3' = E1!Cleared(encrypt3)
    BY <1>1, CoreResetClears
  <2>3. encrypt1'.V_buf = encrypt1.V_buf
    BY <2>1, <2>2 DEF E1!Cleared, Fields, E1!Regs
  <2>4. decrypt2'.V_buf = decrypt2.V_buf
    BY <2>1, <2>2, ClearedKeeps
  <2>5. encrypt3'.V_buf = encrypt3.V_buf
    BY <2>1, <2>2, ClearedFields
  <2> QED
    BY <2>3, <2>4, <2>5
<1>5. /\ pending' \in Seq({{}} \cup {{c} : c \in Block})
      /\ Len(pending') = Ahead(0)'
      /\ \A k \in 1 .. Len(pending') : pending'[k] = {}
  BY <1>1, <1>2, <1>3, <1>4, LeftoversType, LeftoversAhead
<1>6. \A s \in Slot : ~ Wanted(s)'
  BY <1>5, AheadType DEF Wanted
<1>7. 1 .. 2 * StageLen + Rounds \subseteq Slot
  BY Positions, RoundsAssumption DEF Slot
<1> QED
  BY <1>2, <1>3, <1>5, <1>6, <1>7 DEF AvalonInv, QueueInv

\* What the invariant says of the block that leaves, and of the count.
LEMMA QueueAnswers == AvalonInv => ResultsAnswerRequests /\ OnePulsePerWrite
<1> SUFFICES ASSUME AvalonInv PROVE ResultsAnswerRequests /\ OnePulsePerWrite
  OBVIOUS
<1> DEFINE n == 3 * StageLen
           S == {t \in Slot : 0 <= t /\ Takes(t)}
           T == {p \in CorePosition : Holds(p)}
<1>0. /\ Rounds \in Nat \ {0} /\ StageLen = Rounds + 3 /\ n \in Nat \ {0}
      /\ Slot = 0 .. n /\ CorePosition = 0 .. n - 1 /\ n \in Slot /\ 0 \in Slot
  BY RoundsAssumption, Positions DEF Slot, CorePosition
<1>1. QueueInv /\ CoreTypeOK
  BY DEF AvalonInv, AvalonTypeOK
<1>2. Takes(n) = valid_out
  <2>1. /\ Rounds + 2 \in 0 .. StageLen - 1 /\ n # 0
        /\ n - 1 = 2 * StageLen + (Rounds + 2)
    BY <1>0
  <2>2. Holds(2 * StageLen + (Rounds + 2)) = E1!Occupied(encrypt3, Rounds + 2)
    BY <2>1, HoldsAt
  <2>3. E1!Occupied(encrypt3, Rounds + 2) = encrypt3.valid_out
    BY <1>0 DEF E1!Occupied
  <2> QED
    BY <2>1, <2>2, <2>3 DEF Takes, valid_out
<1>3. ResultsAnswerRequests
  <2> SUFFICES ASSUME valid_out
               PROVE  pending # <<>> /\ \A r \in Head(pending) : odata = r
    BY DEF ResultsAnswerRequests
  <2>1. Ahead(n) \in 1 .. Ahead(0)
    BY <1>0, <1>2, AheadType
  <2>2. Ahead(n) = 1
    <3>1. {t \in Slot : n <= t /\ Takes(t)} = {n}
      <4>1. \A t \in 0 .. n : n <= t => t = n
        BY <1>0
      <4>2. n \in Slot /\ Slot = 0 .. n /\ n <= n
        BY <1>0
      <4>3. Takes(n)
        BY <1>2
      <4> HIDE DEF n
      <4> QED
        BY <4>1, <4>2, <4>3
    <3> QED
      BY <3>1, FS_Singleton DEF Ahead
  <2>3. /\ pending \in Seq({{}} \cup {{c} : c \in Block}) /\ Len(pending) = Ahead(0)
    BY <1>1 DEF QueueInv
  <2>4. pending # <<>> /\ Head(pending) = pending[1]
    BY <2>1, <2>2, <2>3
  <2>5. ASSUME NEW r \in Head(pending) PROVE odata = r
    <3>1. Wanted(n)
      BY <1>2, <2>2, <2>4, <2>5 DEF Wanted
    <3>2. Head(pending) = Due(n)
      BY <1>0, <1>1, <2>2, <2>4, <3>1 DEF QueueInv
    <3>3. Due(n) = Outcomes(n - 1)
      BY <1>0 DEF Due
    <3>4. Rounds + 2 \in 0 .. StageLen - 1 /\ n - 1 = 2 * StageLen + (Rounds + 2)
      BY <1>0
    <3>5. Outcomes(2 * StageLen + (Rounds + 2)) = One!InFlight(encrypt3)[Rounds + 2]
      BY <3>4, OutcomesAt
    <3>6. /\ One!Outcome(encrypt3, Rounds + 2) = encrypt3.odata
          /\ E1!Occupied(encrypt3, Rounds + 2) = encrypt3.valid_out
      BY <1>0 DEF One!Outcome, E1!Occupied
    <3>7. One!InFlight(encrypt3)[Rounds + 2] = {encrypt3.odata}
      BY <3>4, <3>6, InFlightAt DEF valid_out
    <3> QED
      BY <2>5, <3>2, <3>3, <3>4, <3>5, <3>7 DEF odata
  <2> QED
    BY <2>4, <2>5
<1>4. OnePulsePerWrite
  <2>0. n \in Nat
    BY <1>0
  <2>1. S \in SUBSET (0 .. n) /\ T \in SUBSET (0 .. n)
    BY <1>0
  <2>2. \A p \in 0 .. n - 1 : p + 1 \in S <=> p \in T
    BY <1>0 DEF Takes
  <2>3. n \notin T /\ (0 \in S <=> reg_valid_in)
    BY <1>0 DEF Takes
  <2>4. Len(pending) = Cardinality(S)
    BY <1>1 DEF QueueInv, Ahead
  <2> HIDE DEF S, T, n
  <2>5. /\ Cardinality(S) + (IF n \in T THEN 1 ELSE 0)
             = Cardinality(T) + (IF 0 \in S THEN 1 ELSE 0)
        /\ Cardinality(S) \in Nat /\ Cardinality(T) \in Nat
    BY <2>0, <2>1, <2>2, ShiftedCount
  <2>6. Len(pending) = Cardinality(T) + (IF reg_valid_in THEN 1 ELSE 0)
    BY <2>3, <2>4, <2>5
  <2> QED
    BY <2>6 DEF OnePulsePerWrite, T
<1> QED
  BY <1>3, <1>4

\* A step that changes nothing.
LEMMA AvalonStutters == AvalonInv /\ UNCHANGED avalon => AvalonInv'
<1> SUFFICES ASSUME AvalonInv, UNCHANGED avalon PROVE AvalonInv'
  OBVIOUS
<1>1. /\ UNCHANGED <<encrypt1, decrypt2, encrypt3>>
      /\ UNCHANGED <<reg_idata, reg_key1, reg_key2, reg_key3, reg_decrypt>>
      /\ UNCHANGED <<reg_valid_in, reg_odata, reg_valid_out, pending>>
  BY DEF avalon, core, regfile
<1>2. CoreTypeOK'
  BY <1>1, CoreTypes DEF AvalonInv, AvalonTypeOK
<1>3. AvalonTypeOK'
  BY <1>1, <1>2 DEF AvalonInv, AvalonTypeOK
<1>4. CoreReady'
  BY <1>1 DEF AvalonInv, CoreReady, Ready
<1>5. /\ \A p : At(p)' = At(p)
      /\ CorePorts' = CorePorts
  BY <1>1 DEF At, CorePorts
<1>6. /\ \A p : Holds(p)' = Holds(p)
      /\ \A p : Outcomes(p)' = Outcomes(p)
      /\ PortsHeld(CorePorts)' = PortsHeld(CorePorts)
  BY <1>1, <1>5 DEF Holds, Outcomes, Through, PortsHeld, stage1_key, stage3_key
<1>7. \A s : Takes(s)' = Takes(s)
  BY <1>1, <1>6 DEF Takes
<1>8. \A s : Ahead(s)' = Ahead(s)
  BY <1>7 DEF Ahead
<1>9. \A s : Due(s)' = Due(s) /\ Wanted(s)' = Wanted(s)
  BY <1>1, <1>5, <1>6, <1>7, <1>8 DEF Due, Wanted, TripleCipher
<1>10. QueueInv'
  BY <1>1, <1>6, <1>8, <1>9 DEF AvalonInv, QueueInv
<1> QED
  BY <1>3, <1>4, <1>10 DEF AvalonInv

\* The invariant of the register file under any polite host.
LEMMA AvalonHolds == PoliteSpec => []AvalonInv
<1>1. AvalonInit => AvalonInv
  BY QueueInit
<1>2. AvalonInv /\ [PoliteNext]_avalon => AvalonInv'
  <2> SUFFICES ASSUME AvalonInv, [PoliteNext]_avalon
               PROVE  AvalonInv'
    OBVIOUS
  <2>1. ASSUME NEW b \in Bus, Polite(b), BusCycle(b)
        PROVE  AvalonInv'
    <3>1. KeysNeeded => KeysKept
      BY <2>1, PoliteKeeps
    <3> QED
      BY <2>1, <3>1, QueueClocked
  <2>2. CASE AvalonReset
    BY <2>2, QueueReset
  <2>3. CASE UNCHANGED avalon
    BY <2>3, AvalonStutters
  <2> QED
    BY <2>1, <2>2, <2>3 DEF PoliteNext
<1> QED
  BY <1>1, <1>2, PTL DEF PoliteSpec

(***************************************************************************)
(* For any host that keeps the keys and the direction while a block may     *)
(* meet them, whatever it writes and whenever resets come, the results      *)
(* answer the control writes in order (des3_avalon.v, lines 67-94).         *)
(***************************************************************************)
THEOREM ResultsAnswer == PoliteSpec => []ResultsAnswerRequests
BY AvalonHolds, QueueAnswers, PTL

(***************************************************************************)
(* And one control write is one block (des3_avalon.v, lines 71 and 77-78).  *)
(***************************************************************************)
THEOREM OneBlockPerWrite == PoliteSpec => []OnePulsePerWrite
BY AvalonHolds, QueueAnswers, PTL

-----------------------------------------------------------------------------
(* The program. *)

\* The writes of the loop.
LEMMA ProgramIs ==
  /\ Len(Program) = 12 /\ DOMAIN Program = 1 .. 12
  /\ Poll = 13 /\ ReadLo = 14 /\ ReadHi = 15 /\ Display = 16
  /\ Program[1] = Write(0, Lo(idata1)) /\ Program[2] = Write(1, Hi(idata1))
  /\ Program[3] = Write(2, Lo(key1)) /\ Program[4] = Write(3, Hi(key1))
  /\ Program[5] = Write(4, Lo(key2)) /\ Program[6] = Write(5, Hi(key2))
  /\ Program[7] = Write(6, Lo(key3)) /\ Program[8] = Write(7, Hi(key3))
  /\ Program[9] = Write(8, {0})
  /\ Program[10] = Write(0, Lo(idata2)) /\ Program[11] = Write(1, Hi(idata2))
  /\ Program[12] = Write(8, {0})
<1>1. /\ Len(Program) = 12 /\ DOMAIN Program = 1 .. 12
  BY DEF Program
<1>2. Poll = 13 /\ ReadLo = 14 /\ ReadHi = 15 /\ Display = 16
  BY <1>1 DEF Poll, ReadLo, ReadHi, Display
<1> QED
  BY <1>1, <1>2 DEF Program

\* A write as the bus sees it.
LEMMA WriteIs ==
  ASSUME NEW a \in 0 .. 15, NEW w \in Word(W)
  PROVE  /\ Write(a, w) \in Bus /\ Write(a, w).avs_writedata = w
         /\ \A c : Writes(Write(a, w), c) <=> c = a
BY DEF Write, Bus, Writes, W

\* No write.
LEMMA NoWriteIs == NoWrite \in Bus /\ \A c : ~ Writes(NoWrite, c)
<1>1. {} \in Word(WordBits)
  BY DEF Word
<1> QED
  BY <1>1 DEF NoWrite, Bus, Writes

\* Where the write of each step goes, and that it is one.
LEMMA ProgramWrites ==
  /\ \A n \in 1 .. 12 : Program[n] \in Bus
  /\ \A n \in 1 .. 8 : \A c : Writes(Program[n], c) <=> c = n - 1
  /\ \A n \in {9, 12} : /\ Program[n].avs_writedata = {0}
                        /\ \A c : Writes(Program[n], c) <=> c = 8
  /\ \A n \in {10, 11} : \A c : Writes(Program[n], c) <=> c = n - 10
<1>1. /\ idata1 \in Word(2 * W) /\ idata2 \in Word(2 * W) /\ key1 \in Word(2 * W)
      /\ key2 \in Word(2 * W) /\ key3 \in Word(2 * W) /\ {0} \in Word(W)
  BY ProgramAssumption, WordsAssumption DEF Word, W
<1>2. /\ Lo(idata1) \in Word(W) /\ Hi(idata1) \in Word(W)
      /\ Lo(key1) \in Word(W) /\ Hi(key1) \in Word(W)
      /\ Lo(key2) \in Word(W) /\ Hi(key2) \in Word(W)
      /\ Lo(key3) \in Word(W) /\ Hi(key3) \in Word(W)
      /\ Lo(idata2) \in Word(W) /\ Hi(idata2) \in Word(W)
  BY <1>1, WordsOf
<1>3. \A a \in 0 .. 15, w \in Word(W) :
        /\ Write(a, w) \in Bus /\ Write(a, w).avs_writedata = w
        /\ \A c : Writes(Write(a, w), c) <=> c = a
  BY WriteIs
<1>4. \A n \in 1 .. 12 : Program[n] \in Bus
  <2>1. \A n \in 1 .. 12 : \/ n = 1 \/ n = 2 \/ n = 3 \/ n = 4 \/ n = 5 \/ n = 6
                           \/ n = 7 \/ n = 8 \/ n = 9 \/ n = 10 \/ n = 11 \/ n = 12
    OBVIOUS
  <2> QED
    BY <1>1, <1>2, <1>3, <2>1, ProgramIs
<1>5. \A n \in 1 .. 8 : \A c : Writes(Program[n], c) <=> c = n - 1
  <2>1. \A n \in 1 .. 8 : \/ n = 1 \/ n = 2 \/ n = 3 \/ n = 4 \/ n = 5 \/ n = 6
                          \/ n = 7 \/ n = 8
    OBVIOUS
  <2> QED
    BY <1>2, <1>3, <2>1, ProgramIs
<1>6. \A n \in {9, 12} : /\ Program[n].avs_writedata = {0}
                         /\ \A c : Writes(Program[n], c) <=> c = 8
  BY <1>1, <1>3, ProgramIs
<1>7. \A n \in {10, 11} : \A c : Writes(Program[n], c) <=> c = n - 10
  BY <1>2, <1>3, ProgramIs
<1> QED
  BY <1>4, <1>5, <1>6, <1>7

\* What the read multiplexer returns.
LEMMA ReadsAre ==
  /\ avs_readdata(0) = Lo(reg_idata) /\ avs_readdata(1) = Hi(reg_idata)
  /\ avs_readdata(2) = Lo(reg_key1) /\ avs_readdata(3) = Hi(reg_key1)
  /\ avs_readdata(4) = Lo(reg_key2) /\ avs_readdata(5) = Hi(reg_key2)
  /\ avs_readdata(6) = Lo(reg_key3) /\ avs_readdata(7) = Hi(reg_key3)
  /\ avs_readdata(9) = Lo(reg_odata) /\ avs_readdata(10) = Hi(reg_odata)
  /\ avs_readdata(11) = (IF reg_valid_out THEN {0} ELSE {})
BY DEF avs_readdata

\* A word of the register file after a bus cycle: what was written, if it was.
LEMMA WordWritten ==
  ASSUME NEW x \in Word(2 * W), NEW b \in Bus, NEW a \in Nat
  PROVE  /\ Lo(Written(x, b, a)) = IF Writes(b, a) THEN b.avs_writedata ELSE Lo(x)
         /\ Hi(Written(x, b, a)) = IF Writes(b, a + 1) THEN b.avs_writedata ELSE Hi(x)
<1>1. b.avs_writedata \in Word(W)
  BY DEF Bus, W
<1>2. ~ (Writes(b, a) /\ Writes(b, a + 1))
  BY DEF Writes
<1> QED
  BY <1>1, <1>2, WrittenWords DEF Written

(***************************************************************************)
(* The data and key registers read back what was last written to them.      *)
(***************************************************************************)
LEMMA ReadsBack ==
  ASSUME AvalonTypeOK, NEW b \in Bus, BusCycle(b), NEW a \in 0 .. 7
  PROVE  avs_readdata(a)' = IF Writes(b, a) THEN b.avs_writedata ELSE avs_readdata(a)
<1>1. /\ reg_idata \in Word(2 * W) /\ reg_key1 \in Word(2 * W)
      /\ reg_key2 \in Word(2 * W) /\ reg_key3 \in Word(2 * W)
  BY WordsAssumption DEF AvalonTypeOK, W
<1>2. /\ reg_idata' = Written(reg_idata, b, 0) /\ reg_key1' = Written(reg_key1, b, 2)
      /\ reg_key2' = Written(reg_key2, b, 4) /\ reg_key3' = Written(reg_key3, b, 6)
  BY DEF BusCycle
<1>3. /\ Lo(reg_idata)' = Lo(reg_idata') /\ Hi(reg_idata)' = Hi(reg_idata')
      /\ Lo(reg_key1)' = Lo(reg_key1') /\ Hi(reg_key1)' = Hi(reg_key1')
      /\ Lo(reg_key2)' = Lo(reg_key2') /\ Hi(reg_key2)' = Hi(reg_key2')
      /\ Lo(reg_key3)' = Lo(reg_key3') /\ Hi(reg_key3)' = Hi(reg_key3')
  BY DEF Lo, Hi, Slice
<1>4. /\ Lo(reg_idata') = IF Writes(b, 0) THEN b.avs_writedata ELSE Lo(reg_idata)
      /\ Hi(reg_idata') = IF Writes(b, 0 + 1) THEN b.avs_writedata ELSE Hi(reg_idata)
  BY <1>1, <1>2, WordWritten
<1>5. /\ Lo(reg_key1') = IF Writes(b, 2) THEN b.avs_writedata ELSE Lo(reg_key1)
      /\ Hi(reg_key1') = IF Writes(b, 2 + 1) THEN b.avs_writedata ELSE Hi(reg_key1)
  BY <1>1, <1>2, WordWritten
<1>6. /\ Lo(reg_key2') = IF Writes(b, 4) THEN b.avs_writedata ELSE Lo(reg_key2)
      /\ Hi(reg_key2') = IF Writes(b, 4 + 1) THEN b.avs_writedata ELSE Hi(reg_key2)
  BY <1>1, <1>2, WordWritten
<1>7. /\ Lo(reg_key3') = IF Writes(b, 6) THEN b.avs_writedata ELSE Lo(reg_key3)
      /\ Hi(reg_key3') = IF Writes(b, 6 + 1) THEN b.avs_writedata ELSE Hi(reg_key3)
  BY <1>1, <1>2, WordWritten
<1>8. 0 + 1 = 1 /\ 2 + 1 = 3 /\ 4 + 1 = 5 /\ 6 + 1 = 7
  OBVIOUS
<1>9. /\ avs_readdata(0)' = Lo(reg_idata)' /\ avs_readdata(1)' = Hi(reg_idata)'
      /\ avs_readdata(2)' = Lo(reg_key1)' /\ avs_readdata(3)' = Hi(reg_key1)'
      /\ avs_readdata(4)' = Lo(reg_key2)' /\ avs_readdata(5)' = Hi(reg_key2)'
      /\ avs_readdata(6)' = Lo(reg_key3)' /\ avs_readdata(7)' = Hi(reg_key3)'
  BY DEF avs_readdata
<1>10. \/ a = 0 \/ a = 1 \/ a = 2 \/ a = 3 \/ a = 4 \/ a = 5 \/ a = 6 \/ a = 7
  OBVIOUS
<1> QED
  BY <1>3, <1>4, <1>5, <1>6, <1>7, <1>8, <1>9, <1>10, ReadsAre

\* A request of the program is on its way.
Real == \E k \in 1 .. Len(pending) : pending[k] # {}

\* The parts of the invariant of the program.
Entries == \A k \in 1 .. Len(pending) :
             pending[k] \in {{}, {Answer(idata1)}, {Answer(idata2)}}

KeyWords == \A n \in 3 .. 8 :
              n < pc \/ Real => avs_readdata(n - 1) = Program[n].avs_writedata

DataWords ==
  /\ \A n \in {1, 2} : n < pc /\ pc <= n + 9 =>
        avs_readdata(n - 1) = Program[n].avs_writedata
  /\ \A n \in {10, 11} : n < pc /\ pc <= 12 =>
        avs_readdata(n - 10) = Program[n].avs_writedata

\* Leftovers of a reset are ahead of what the program asked for.
LeftoversFirst == \A k \in 1 .. Len(pending) :
                    \A j \in 1 .. k : pending[k] = {} => pending[j] = {}

AllAsked == \A k \in 1 .. Len(pending) : pending[k] # {}

Latched == answered => reg_odata \in Answers /\ AllAsked

Fetched ==
  /\ pc \in {ReadHi, Display} /\ fresh => answered
  /\ pc = ReadHi /\ fresh => \E c \in Answers : result = Widened(Lo(c))
  /\ pc = Display /\ fresh =>
       \E c, d \in Answers : result = Widened(Lo(c)) \cup {i + WordBits : i \in Hi(d)}

CpuTypeOK == /\ pc \in 1 .. Display /\ result \in Word(2 * WordBits)
             /\ resets \in 0 .. MaxResets
             /\ answered \in BOOLEAN /\ fresh \in BOOLEAN

FirmwareInv ==
  /\ AvalonInv /\ CpuTypeOK /\ reg_decrypt = FALSE
  /\ Entries /\ LeftoversFirst /\ KeyWords /\ DataWords /\ Latched /\ Fetched

\* The keys of the program, once all their words are in the registers.
KeysLoaded == reg_key1 = key1 /\ reg_key2 = key2 /\ reg_key3 = key3

\* Registers whose words read back as the six key words of the program hold its
\* three keys (main.c, lines 20-25).
LEMMA AllWordsAreKeys ==
  ASSUME AvalonTypeOK
  PROVE  (\A n \in 3 .. 8 : avs_readdata(n - 1) = Program[n].avs_writedata) => KeysLoaded
<1> SUFFICES ASSUME \A n \in 3 .. 8 : avs_readdata(n - 1) = Program[n].avs_writedata
             PROVE  KeysLoaded
  OBVIOUS
<1>1. /\ key1 \in Word(2 * W) /\ key2 \in Word(2 * W) /\ key3 \in Word(2 * W)
      /\ reg_key1 \in Word(2 * W) /\ reg_key2 \in Word(2 * W) /\ reg_key3 \in Word(2 * W)
  BY ProgramAssumption, WordsAssumption DEF Word, W, AvalonTypeOK
<1>2. \A a \in 0 .. 15, w \in Word(W) : Write(a, w).avs_writedata = w
  BY WriteIs
<1>3. /\ Program[3].avs_writedata = Lo(key1) /\ Program[4].avs_writedata = Hi(key1)
      /\ Program[5].avs_writedata = Lo(key2) /\ Program[6].avs_writedata = Hi(key2)
      /\ Program[7].avs_writedata = Lo(key3) /\ Program[8].avs_writedata = Hi(key3)
  BY ProgramIs DEF Write
<1>4. /\ avs_readdata(2) = Lo(key1) /\ avs_readdata(3) = Hi(key1)
      /\ avs_readdata(4) = Lo(key2) /\ avs_readdata(5) = Hi(key2)
      /\ avs_readdata(6) = Lo(key3) /\ avs_readdata(7) = Hi(key3)
  <2>1. /\ avs_readdata(3 - 1) = Program[3].avs_writedata
        /\ avs_readdata(4 - 1) = Program[4].avs_writedata
        /\ avs_readdata(5 - 1) = Program[5].avs_writedata
        /\ avs_readdata(6 - 1) = Program[6].avs_writedata
        /\ avs_readdata(7 - 1) = Program[7].avs_writedata
        /\ avs_readdata(8 - 1) = Program[8].avs_writedata
    OBVIOUS
  <2>2. 3 - 1 = 2 /\ 4 - 1 = 3 /\ 5 - 1 = 4 /\ 6 - 1 = 5 /\ 7 - 1 = 6 /\ 8 - 1 = 7
    OBVIOUS
  <2> QED
    BY <1>3, <2>1, <2>2
<1>5. /\ Lo(reg_key1) = Lo(key1) /\ Hi(reg_key1) = Hi(key1)
      /\ Lo(reg_key2) = Lo(key2) /\ Hi(reg_key2) = Hi(key2)
      /\ Lo(reg_key3) = Lo(key3) /\ Hi(reg_key3) = Hi(key3)
  BY <1>4, ReadsAre
<1>6. reg_key1 = key1
  BY <1>1, <1>5, WordsDetermine
<1>7. reg_key2 = key2
  BY <1>1, <1>5, WordsDetermine
<1>8. reg_key3 = key3
  BY <1>1, <1>5, WordsDetermine
<1> QED
  BY <1>6, <1>7, <1>8 DEF KeysLoaded

\* What the program puts on the bus.
OnTheBus(b) == b = NoWrite \/ (pc \in 1 .. 12 /\ b = Program[pc])

\* A key word is written only with what it holds once it is the program's.
LEMMA KeyWordsKept ==
  ASSUME FirmwareInv, NEW b, OnTheBus(b), BusCycle(b)
  PROVE  /\ b \in Bus
         /\ \A n \in 3 .. 8 :
              avs_readdata(n - 1) = Program[n].avs_writedata
                => avs_readdata(n - 1)' = Program[n].avs_writedata
         /\ reg_decrypt' = FALSE
<1>1. b \in Bus
  BY NoWriteIs, ProgramWrites DEF OnTheBus
<1>2. AvalonTypeOK
  BY DEF FirmwareInv, AvalonInv
<1>3. ASSUME NEW n \in 3 .. 8, avs_readdata(n - 1) = Program[n].avs_writedata
      PROVE  avs_readdata(n - 1)' = Program[n].avs_writedata
  <2>1. n - 1 \in 0 .. 7
    OBVIOUS
  <2>2. avs_readdata(n - 1)' = IF Writes(b, n - 1) THEN b.avs_writedata
                                                  ELSE avs_readdata(n - 1)
    BY <1>1, <1>2, <2>1, ReadsBack
  <2>3. ASSUME Writes(b, n - 1) PROVE b = Program[n]
    <3>1. pc \in 1 .. 12 /\ b = Program[pc]
      BY <2>3, NoWriteIs DEF OnTheBus
    <3>2. CASE pc \in 1 .. 8
      <4>1. n - 1 = pc - 1
        BY <2>3, <3>1, <3>2, ProgramWrites
      <4>2. n = pc
        BY <3>2, <4>1
      <4> QED
        BY <3>1, <4>2
    <3>3. CASE pc \in {9, 12}
      <4>1. n - 1 = 8
        BY <2>3, <3>1, <3>3, ProgramWrites
      <4> QED
        BY <4>1
    <3>4. CASE pc \in {10, 11}
      <4>1. n - 1 = pc - 10
        BY <2>3, <3>1, <3>4, ProgramWrites
      <4> QED
        BY <3>4, <4>1
    <3>5. pc \in 1 .. 8 \/ pc \in {9, 12} \/ pc \in {10, 11}
      BY <3>1
    <3> QED
      BY <3>2, <3>3, <3>4, <3>5
  <2> QED
    BY <1>3, <2>2, <2>3
<1>4. reg_decrypt' = FALSE
  <2>1. reg_decrypt' = IF Writes(b, 8) THEN 1 \in b.avs_writedata ELSE reg_decrypt
    BY DEF BusCycle
  <2>2. reg_decrypt = FALSE
    BY DEF FirmwareInv
  <2>3. ASSUME Writes(b, 8) PROVE b.avs_writedata = {0}
    <3>1. pc \in 1 .. 12 /\ b = Program[pc]
      BY <2>3, NoWriteIs DEF OnTheBus
    <3>2. CASE pc \in 1 .. 8
      BY <2>3, <3>1, <3>2, ProgramWrites
    <3>3. CASE pc \in {9, 12}
      BY <3>1, <3>3, ProgramWrites
    <3>4. CASE pc \in {10, 11}
      BY <2>3, <3>1, <3>4, ProgramWrites
    <3>5. pc \in 1 .. 8 \/ pc \in {9, 12} \/ pc \in {10, 11}
      BY <3>1
    <3> QED
      BY <3>2, <3>3, <3>4, <3>5
  <2>4. CASE Writes(b, 8)
    <3>1. (1 \in b.avs_writedata) = FALSE
      BY <2>3, <2>4
    <3>2. reg_decrypt' = (1 \in b.avs_writedata)
      BY <2>1, <2>4
    <3> QED
      BY <3>1, <3>2
  <2>5. CASE ~ Writes(b, 8)
    BY <2>1, <2>2, <2>5
  <2> QED
    BY <2>4, <2>5
<1> QED
  BY <1>1, <1>3, <1>4

\* Where a control write is in the program.
LEMMA ControlWrites ==
  ASSUME NEW b, OnTheBus(b)
  PROVE  /\ valid_in_Next(b) => pc \in {9, 12}
         /\ ~ valid_in_Next(b) => Asked(b) = <<>>
<1>1. ASSUME Writes(b, 8) PROVE pc \in {9, 12}
  <2>1. pc \in 1 .. 12 /\ b = Program[pc]
    BY <1>1, NoWriteIs DEF OnTheBus
  <2>2. CASE pc \in 1 .. 8
    <3>1. 8 = pc - 1
      BY <1>1, <2>1, <2>2, ProgramWrites
    <3> QED
      BY <2>2, <3>1
  <2>3. CASE pc \in {10, 11}
    <3>1. 8 = pc - 10
      BY <1>1, <2>1, <2>3, ProgramWrites
    <3> QED
      BY <2>3, <3>1
  <2>4. pc \in 1 .. 8 \/ pc \in {9, 12} \/ pc \in {10, 11}
    BY <2>1
  <2> QED
    BY <2>2, <2>3, <2>4
<1> QED
  BY <1>1 DEF valid_in_Next, Asked

\* What a control write of the program asks for.
LEMMA ProgramAsks ==
  ASSUME FirmwareInv, NEW b, OnTheBus(b), valid_in_Next(b)
  PROVE  Asked(b) = <<{Answer(idata1)}>> \/ Asked(b) = <<{Answer(idata2)}>>
<1>0. pc \in {9, 12}
  BY ControlWrites
<1>1. AvalonTypeOK /\ reg_decrypt = FALSE /\ KeyWords /\ DataWords
  BY DEF FirmwareInv, AvalonInv
<1>2. KeysLoaded
  <2>1. \A n \in 3 .. 8 : n < pc
    BY <1>0
  <2>2. \A n \in 3 .. 8 : avs_readdata(n - 1) = Program[n].avs_writedata
    BY <1>1, <2>1 DEF KeyWords
  <2> QED
    BY <1>1, <2>2, AllWordsAreKeys
<1>3. b.avs_writedata = {0}
  <2>1. b = Program[pc]
    BY <1>0, NoWriteIs DEF OnTheBus, valid_in_Next
  <2> QED
    BY <1>0, <2>1, ProgramWrites
<1>4. /\ idata1 \in Word(2 * W) /\ idata2 \in Word(2 * W) /\ reg_idata \in Word(2 * W)
  BY <1>1, ProgramAssumption, WordsAssumption DEF Word, W, AvalonTypeOK
<1>5. ASSUME NEW d \in Word(2 * W), Lo(reg_idata) = Lo(d), Hi(reg_idata) = Hi(d)
      PROVE  Asked(b) = <<{Answer(d)}>>
  <2> DEFINE i == [CorePorts EXCEPT !.decrypt = 1 \in b.avs_writedata]
             j == [idata |-> d, key1 |-> key1, key2 |-> key2,
                   key3 |-> key3, decrypt |-> FALSE, valid_in |-> TRUE]
  <2>1. reg_idata = d
    BY <1>4, <1>5, WordsDetermine
  <2>2. /\ i.idata = j.idata /\ i.key1 = j.key1 /\ i.key2 = j.key2
        /\ i.key3 = j.key3 /\ i.decrypt = j.decrypt
    <3>1. (1 \in b.avs_writedata) = FALSE
      BY <1>3
    <3>2. i = [CorePorts EXCEPT !.decrypt = FALSE]
      BY <3>1
    <3>3. i.idata = d /\ i.key1 = key1 /\ i.key2 = key2 /\ i.key3 = key3 /\ i.decrypt = FALSE
      BY <1>2, <2>1, <3>2 DEF CorePorts, KeysLoaded
    <3> HIDE DEF i
    <3> QED
      BY <3>3
  <2>3. Asked(b) = <<{TripleCipher(i)}>> /\ Answer(d) = TripleCipher(j)
    BY DEF Asked, valid_in_Next, Answer
  <2> HIDE DEF i, j
  <2>4. TripleCipher(i) = TripleCipher(j)
    BY <2>2, TripleCipherReads
  <2> QED
    BY <2>3, <2>4
<1>6. CASE pc = 9
  <2>1. /\ avs_readdata(1 - 1) = Program[1].avs_writedata
        /\ avs_readdata(2 - 1) = Program[2].avs_writedata
    BY <1>1, <1>6 DEF DataWords
  <2>2. /\ Program[1].avs_writedata = Lo(idata1) /\ Program[2].avs_writedata = Hi(idata1)
    BY ProgramIs DEF Write
  <2>3. 1 - 1 = 0 /\ 2 - 1 = 1
    OBVIOUS
  <2>4. Lo(reg_idata) = Lo(idata1) /\ Hi(reg_idata) = Hi(idata1)
    BY <2>1, <2>2, <2>3, ReadsAre
  <2> QED
    BY <1>4, <1>5, <2>4
<1>7. CASE pc = 12
  <2>1. /\ avs_readdata(10 - 10) = Program[10].avs_writedata
        /\ avs_readdata(11 - 10) = Program[11].avs_writedata
    BY <1>1, <1>7 DEF DataWords
  <2>2. /\ Program[10].avs_writedata = Lo(idata2) /\ Program[11].avs_writedata = Hi(idata2)
    BY ProgramIs DEF Write
  <2>3. 10 - 10 = 0 /\ 11 - 10 = 1
    OBVIOUS
  <2>4. Lo(reg_idata) = Lo(idata2) /\ Hi(reg_idata) = Hi(idata2)
    BY <2>1, <2>2, <2>3, ReadsAre
  <2> QED
    BY <1>4, <1>5, <2>4
<1> QED
  BY <1>0, <1>6, <1>7

\* While a request of the program is on its way no cycle changes a key.
LEMMA ProgramKeysKept ==
  ASSUME FirmwareInv, NEW b, OnTheBus(b), BusCycle(b), Real
  PROVE  KeysKept
<1>0. AvalonTypeOK /\ AvalonTypeOK'
  BY KeyWordsKept, BusCycleType DEF FirmwareInv, AvalonInv
<1>1. \A n \in 3 .. 8 : avs_readdata(n - 1)' = avs_readdata(n - 1)
  <2>1. \A n \in 3 .. 8 : avs_readdata(n - 1) = Program[n].avs_writedata
    BY DEF FirmwareInv, KeyWords
  <2> QED
    BY <2>1, KeyWordsKept
<1>2. \A n \in 2 .. 7 : avs_readdata(n)' = avs_readdata(n)
  <2> SUFFICES ASSUME NEW n \in 2 .. 7 PROVE avs_readdata(n)' = avs_readdata(n)
    OBVIOUS
  <2>1. PICK m \in 3 .. 8 : m - 1 = n
    <3>1. n + 1 \in 3 .. 8 /\ (n + 1) - 1 = n
      OBVIOUS
    <3> QED
      BY <3>1
  <2> QED
    BY <1>1, <2>1
<1>3. /\ avs_readdata(2)' = Lo(reg_key1') /\ avs_readdata(3)' = Hi(reg_key1')
      /\ avs_readdata(4)' = Lo(reg_key2') /\ avs_readdata(5)' = Hi(reg_key2')
      /\ avs_readdata(6)' = Lo(reg_key3') /\ avs_readdata(7)' = Hi(reg_key3')
  BY DEF avs_readdata, Lo, Hi, Slice
<1>4. /\ Lo(reg_key1') = Lo(reg_key1) /\ Hi(reg_key1') = Hi(reg_key1)
      /\ Lo(reg_key2') = Lo(reg_key2) /\ Hi(reg_key2') = Hi(reg_key2)
      /\ Lo(reg_key3') = Lo(reg_key3) /\ Hi(reg_key3') = Hi(reg_key3)
  BY <1>2, <1>3, ReadsAre
<1>5. /\ reg_key1 \in Word(2 * W) /\ reg_key2 \in Word(2 * W) /\ reg_key3 \in Word(2 * W)
      /\ reg_key1' \in Word(2 * W) /\ reg_key2' \in Word(2 * W) /\ reg_key3' \in Word(2 * W)
  BY <1>0, WordsAssumption DEF AvalonTypeOK, W
<1>6. reg_key1' = reg_key1
  BY <1>4, <1>5, WordsDetermine
<1>7. reg_key2' = reg_key2
  BY <1>4, <1>5, WordsDetermine
<1>8. reg_key3' = reg_key3
  BY <1>4, <1>5, WordsDetermine
<1>9. reg_decrypt' = reg_decrypt
  BY KeyWordsKept DEF FirmwareInv
<1> QED
  BY <1>6, <1>7, <1>8, <1>9 DEF KeysKept

\* The register file keeps its invariant under the program.
LEMMA ProgramPolite ==
  ASSUME FirmwareInv, NEW b, OnTheBus(b), BusCycle(b)
  PROVE  AvalonInv'
<1>1. KeysNeeded => Real
  <2> SUFFICES ASSUME KeysNeeded PROVE Real
    OBVIOUS
  <2>1. PICK s \in 0 .. 2 * StageLen + Rounds - 1 : Wanted(s)
    BY DEF KeysNeeded
  <2>2. s \in Slot
    BY RoundsAssumption DEF Slot, StageLen
  <2>3. Takes(s) /\ pending[Ahead(s)] # {}
    BY <2>1 DEF Wanted
  <2>4. Ahead(s) \in 1 .. Ahead(0)
    BY <2>2, <2>3, AheadType
  <2>5. Len(pending) = Ahead(0)
    BY DEF FirmwareInv, AvalonInv, QueueInv
  <2> QED
    BY <2>3, <2>4, <2>5 DEF Real
<1> QED
  BY <1>1, ProgramKeysKept, KeyWordsKept, QueueClocked DEF FirmwareInv

\* What a bus cycle of the program does to the entries.
LEMMA EntriesMove ==
  ASSUME FirmwareInv, NEW b, OnTheBus(b), BusCycle(b)
  PROVE  Entries' /\ (Real' => Real \/ valid_in_Next(b))
<1> DEFINE q == IF valid_out THEN Tail(pending) ELSE pending
<1>1. /\ pending \in Seq({{}} \cup {{c} : c \in Block})
      /\ valid_out => pending # <<>>
  BY QueueAnswers DEF FirmwareInv, AvalonInv, QueueInv, ResultsAnswerRequests
<1>2. /\ q \in Seq({{}} \cup {{c} : c \in Block}) /\ Len(q) \in Nat
      /\ \A k \in 1 .. Len(q) : \E j \in 1 .. Len(pending) : q[k] = pending[j]
  <2>1. CASE valid_out
    <3>1. /\ Len(q) = Len(pending) - 1 /\ Len(pending) \in Nat
          /\ \A k \in 1 .. Len(q) : q[k] = pending[k + 1]
          /\ q \in Seq({{}} \cup {{c} : c \in Block}) /\ Len(q) \in Nat
      BY <1>1, <2>1
    <3> HIDE DEF q
    <3>2. \A k \in 1 .. Len(q) : k + 1 \in 1 .. Len(pending)
      BY <3>1
    <3> QED
      BY <3>1, <3>2
  <2>2. CASE ~ valid_out
    <3>1. q = pending
      BY <2>2
    <3> QED
      BY <1>1, <3>1
  <2> QED
    BY <2>1, <2>2
<1>3. pending' = q \o Asked(b)
  BY DEF BusCycle
<1> HIDE DEF q
<1>4. Entries
  BY DEF FirmwareInv
<1>5. CASE ~ valid_in_Next(b)
  <2>1. pending' = q
    BY <1>2, <1>3, <1>5, ControlWrites
  <2>2. \A k \in 1 .. Len(pending') : \E j \in 1 .. Len(pending) : pending'[k] = pending[j]
    BY <1>2, <2>1
  <2> QED
    BY <1>4, <2>2 DEF Entries, Real
<1>6. CASE valid_in_Next(b)
  <2>1. PICK e \in {{Answer(idata1)}, {Answer(idata2)}} : Asked(b) = <<e>>
    BY <1>6, ProgramAsks
  <2>2. /\ Len(pending') = Len(q) + 1
        /\ \A k \in 1 .. Len(q) : pending'[k] = q[k]
        /\ pending'[Len(q) + 1] = e
    <3>1. pending' = q \o <<e>>
      BY <1>3, <2>1
    <3>2. Len(<<e>>) = 1 /\ <<e>>[1] = e /\ Len(q) \in Nat
      BY <1>2
    <3> QED
      BY <1>2, <3>1, <3>2
  <2>3. \A k \in 1 .. Len(pending') : k \in 1 .. Len(q) \/ k = Len(q) + 1
    BY <1>2, <2>2
  <2>4. \A k \in 1 .. Len(pending') :
          pending'[k] = e \/ \E j \in 1 .. Len(pending) : pending'[k] = pending[j]
    BY <1>2, <2>2, <2>3
  <2>5. Entries'
    BY <1>4, <2>1, <2>4 DEF Entries
  <2> QED
    BY <1>6, <2>5
<1> QED
  BY <1>5, <1>6

\* A bus cycle of the program leaves the leftovers in front, and none once a
\* result that was asked for has been latched.
LEMMA LeftoversMove ==
  ASSUME FirmwareInv, NEW b, OnTheBus(b), BusCycle(b)
  PROVE  LeftoversFirst' /\ (answered \/ Answering => AllAsked')
<1> DEFINE q == IF valid_out THEN Tail(pending) ELSE pending
           a == Asked(b)
<1>1. /\ pending \in Seq({{}} \cup {{c} : c \in Block}) /\ Len(pending) \in Nat
      /\ valid_out => pending # <<>>
  BY QueueAnswers DEF FirmwareInv, AvalonInv, QueueInv, ResultsAnswerRequests
<1>2. LeftoversFirst /\ (answered => AllAsked)
  BY DEF FirmwareInv, Latched
<1>3. /\ q \in Seq({{}} \cup {{c} : c \in Block}) /\ Len(q) \in Nat
      /\ \A k \in 1 .. Len(q) : \A j \in 1 .. k : q[k] = {} => q[j] = {}
      /\ answered \/ Answering => \A k \in 1 .. Len(q) : q[k] # {}
  <2>1. CASE valid_out
    <3>1. /\ Len(q) = Len(pending) - 1 /\ Len(q) \in Nat
          /\ \A k \in 1 .. Len(q) : q[k] = pending[k + 1]
          /\ q \in Seq({{}} \cup {{c} : c \in Block})
      BY <1>1, <2>1
    <3> HIDE DEF q
    <3>2. \A k \in 1 .. Len(q) :
            k + 1 \in 1 .. Len(pending) /\ \A j \in 1 .. k : j + 1 \in 1 .. k + 1 /\ j \in 1 .. Len(q)
      BY <1>1, <3>1
    <3>3. \A k \in 1 .. Len(q) : \A j \in 1 .. k : q[k] = {} => q[j] = {}
      BY <1>2, <3>1, <3>2 DEF LeftoversFirst
    <3>4. ASSUME Answering, NEW k \in 1 .. Len(q) PROVE q[k] # {}
      <4>1. pending[1] # {}
        BY <1>1, <2>1, <3>4 DEF Answering
      <4>2. 1 \in 1 .. k + 1
        OBVIOUS
      <4> QED
        BY <1>2, <3>1, <3>2, <4>1, <4>2 DEF LeftoversFirst
    <3>5. ASSUME answered, NEW k \in 1 .. Len(q) PROVE q[k] # {}
      BY <1>2, <3>1, <3>2, <3>5 DEF AllAsked
    <3> QED
      BY <3>1, <3>3, <3>4, <3>5
  <2>2. CASE ~ valid_out
    <3>1. q = pending /\ ~ Answering
      BY <2>2 DEF Answering
    <3> QED
      BY <1>1, <1>2, <3>1 DEF LeftoversFirst, AllAsked
  <2> QED
    BY <2>1, <2>2
<1>4. pending' = q \o a
  BY DEF BusCycle
<1>5. a = <<>> \/ \E e : e # {} /\ a = <<e>>
  BY DEF Asked
<1> HIDE DEF q, a
<1>6. CASE a = <<>>
  <2>1. pending' = q
    BY <1>3, <1>4, <1>6
  <2> QED
    BY <1>3, <2>1 DEF LeftoversFirst, AllAsked
<1>7. CASE a # <<>>
  <2>1. PICK e : e # {} /\ a = <<e>>
    BY <1>5, <1>7
  <2>2. /\ Len(pending') = Len(q) + 1
        /\ \A k \in 1 .. Len(q) : pending'[k] = q[k]
        /\ pending'[Len(q) + 1] # {}
    <3>1. Len(a) = 1 /\ a[1] = e
      BY <2>1
    <3>2. q \in Seq({{}} \cup {{c} : c \in Block} \cup {e}) /\ a \in Seq({{}} \cup {{c} : c \in Block} \cup {e})
      BY <1>3, <2>1
    <3> QED
      BY <1>3, <1>4, <2>1, <3>1, <3>2
  <2>3. \A k \in 1 .. Len(pending') : k \in 1 .. Len(q) \/ k = Len(q) + 1
    BY <1>3, <2>2
  <2>4. \A k \in 1 .. Len(q) : \A j \in 1 .. k : j \in 1 .. Len(q)
    BY <1>3
  <2>5. LeftoversFirst'
    BY <1>3, <2>2, <2>3, <2>4 DEF LeftoversFirst
  <2>6. answered \/ Answering => AllAsked'
    BY <1>3, <2>2, <2>3 DEF AllAsked
  <2> QED
    BY <2>5, <2>6
<1> QED
  BY <1>6, <1>7

\* What a bus cycle of the program latches.
LEMMA LatchedMoves ==
  ASSUME FirmwareInv, NEW b, OnTheBus(b), BusCycle(b),
         answered' = (answered \/ Answering)
  PROVE  Latched' /\ (answered => answered') /\ answered' \in BOOLEAN
<1>1. /\ pending \in Seq({{}} \cup {{c} : c \in Block})
      /\ valid_out => pending # <<>> /\ \A r \in Head(pending) : odata = r
  BY QueueAnswers DEF FirmwareInv, AvalonInv, QueueInv, ResultsAnswerRequests
<1>2. Entries /\ Latched /\ answered \in BOOLEAN
  BY DEF FirmwareInv, CpuTypeOK
<1>3. (answered => answered') /\ answered' \in BOOLEAN
  BY <1>2
<1>4. ASSUME answered' PROVE reg_odata' \in Answers
  <2>1. CASE valid_out
    <3>1. reg_odata' = odata
      BY <2>1 DEF BusCycle
    <3>2. Head(pending) = pending[1] /\ 1 \in 1 .. Len(pending)
      BY <1>1, <2>1
    <3>3. Head(pending) # {}
      <4>1. CASE answered
        BY <1>2, <3>2, <4>1 DEF Latched, AllAsked
      <4>2. CASE Answering
        BY <4>2 DEF Answering
      <4> QED
        BY <1>4, <4>1, <4>2
    <3>4. Head(pending) \in {{Answer(idata1)}, {Answer(idata2)}}
      BY <1>2, <3>2, <3>3 DEF Entries
    <3> QED
      BY <1>1, <2>1, <3>1, <3>4 DEF Answers
  <2>2. CASE ~ valid_out
    <3>1. reg_odata' = reg_odata
      BY <2>2 DEF BusCycle
    <3>2. answered
      BY <1>4, <2>2 DEF Answering
    <3> QED
      BY <1>2, <3>1, <3>2 DEF Latched
  <2> QED
    BY <2>1, <2>2
<1>5. Answers' = Answers
  BY DEF Answers, Answer, TripleCipher
<1>6. answered' => AllAsked'
  BY LeftoversMove
<1> QED
  BY <1>3, <1>4, <1>5, <1>6 DEF Latched

\* A cycle without a write leaves every word alone.
LEMMA IdleWords ==
  ASSUME FirmwareInv, BusCycle(NoWrite)
  PROVE  \A a \in 0 .. 7 : avs_readdata(a)' = avs_readdata(a)
BY NoWriteIs, ReadsBack DEF FirmwareInv, AvalonInv

\* The words after a cycle without a write.
LEMMA IdleCycle ==
  ASSUME FirmwareInv, BusCycle(NoWrite), pc' \in 1 .. 16,
         \/ pc' = 1
         \/ pc' = pc
         \/ pc >= 13 /\ pc' >= 13
  PROVE  KeyWords' /\ DataWords'
<1>0. KeyWords /\ DataWords /\ pc \in 1 .. 16
  BY ProgramIs DEF FirmwareInv, CpuTypeOK
<1>1. Real' => Real
  BY EntriesMove, ControlWrites, NoWriteIs DEF OnTheBus, valid_in_Next
<1>2. \A a \in 0 .. 7 : avs_readdata(a)' = avs_readdata(a)
  BY IdleWords
<1>3. KeyWords'
  <2> SUFFICES ASSUME NEW n \in 3 .. 8, n < pc' \/ Real'
               PROVE  avs_readdata(n - 1)' = Program[n].avs_writedata
    BY DEF KeyWords
  <2>1. n < pc \/ Real
    BY <1>0, <1>1
  <2>2. n - 1 \in 0 .. 7
    OBVIOUS
  <2> QED
    BY <1>0, <1>2, <2>1, <2>2 DEF KeyWords
<1>4. ASSUME NEW n \in {1, 2}, n < pc', pc' <= n + 9
      PROVE  avs_readdata(n - 1)' = Program[n].avs_writedata
  <2>1. n < pc /\ pc <= n + 9
    BY <1>0, <1>4
  <2>2. n - 1 \in 0 .. 7
    OBVIOUS
  <2> QED
    BY <1>0, <1>2, <2>1, <2>2 DEF DataWords
<1>5. ASSUME NEW n \in {10, 11}, n < pc', pc' <= 12
      PROVE  avs_readdata(n - 10)' = Program[n].avs_writedata
  <2>1. n < pc /\ pc <= 12
    BY <1>0, <1>5
  <2>2. n - 10 \in 0 .. 7
    OBVIOUS
  <2> QED
    BY <1>0, <1>2, <2>1, <2>2 DEF DataWords
<1> QED
  BY <1>3, <1>4, <1>5 DEF DataWords

\* The words after a write of the program.
LEMMA WriteCycle ==
  ASSUME FirmwareInv, pc \in 1 .. 12, BusCycle(Program[pc]), pc' = pc + 1
  PROVE  KeyWords' /\ DataWords'
<1>0. KeyWords /\ DataWords /\ OnTheBus(Program[pc]) /\ Program[pc] \in Bus
  BY ProgramWrites DEF FirmwareInv, OnTheBus
<1>1. \A a \in 0 .. 7 :
        avs_readdata(a)' = IF Writes(Program[pc], a) THEN Program[pc].avs_writedata
                                                     ELSE avs_readdata(a)
  BY <1>0, ReadsBack DEF FirmwareInv, AvalonInv
<1>2. \A a \in 0 .. 7 : Writes(Program[pc], a) <=>
        (pc \in 1 .. 8 /\ a = pc - 1) \/ (pc \in {10, 11} /\ a = pc - 10)
  <2>1. pc \in 1 .. 8 \/ pc \in {9, 12} \/ pc \in {10, 11}
    OBVIOUS
  <2>2. CASE pc \in 1 .. 8
    BY <2>2, ProgramWrites
  <2>3. CASE pc \in {9, 12}
    BY <2>3, ProgramWrites
  <2>4. CASE pc \in {10, 11}
    BY <2>4, ProgramWrites
  <2> QED
    BY <2>1, <2>2, <2>3, <2>4
<1>3. KeyWords'
  <2> SUFFICES ASSUME NEW n \in 3 .. 8, n < pc' \/ Real'
               PROVE  avs_readdata(n - 1)' = Program[n].avs_writedata
    BY DEF KeyWords
  <2>0. n - 1 \in 0 .. 7
    OBVIOUS
  <2>1. CASE n < pc \/ Real
    <3>1. avs_readdata(n - 1) = Program[n].avs_writedata
      BY <1>0, <2>1 DEF KeyWords
    <3> QED
      BY <1>0, <3>1, KeyWordsKept
  <2>2. CASE ~ (n < pc \/ Real)
    <3>1. n = pc
      <4>1. Real' => pc \in {9, 12}
        BY <1>0, <2>2, EntriesMove, ControlWrites
      <4> QED
        BY <2>2, <4>1
    <3>2. Writes(Program[pc], n - 1)
      BY <1>2, <2>0, <3>1
    <3> QED
      BY <1>1, <2>0, <3>1, <3>2
  <2> QED
    BY <2>1, <2>2
<1>4. ASSUME NEW n \in {1, 2}, n < pc', pc' <= n + 9
      PROVE  avs_readdata(n - 1)' = Program[n].avs_writedata
  <2>0. n - 1 \in 0 .. 7
    OBVIOUS
  <2>1. CASE n = pc
    <3>1. Writes(Program[pc], n - 1)
      BY <1>2, <2>0, <2>1
    <3> QED
      BY <1>1, <2>0, <2>1, <3>1
  <2>2. CASE n # pc
    <3>1. n < pc /\ pc <= n + 9
      BY <1>4, <2>2
    <3>2. ~ Writes(Program[pc], n - 1)
      BY <1>2, <1>4, <2>0, <2>2
    <3> QED
      BY <1>0, <1>1, <2>0, <3>1, <3>2 DEF DataWords
  <2> QED
    BY <2>1, <2>2
<1>5. ASSUME NEW n \in {10, 11}, n < pc', pc' <= 12
      PROVE  avs_readdata(n - 10)' = Program[n].avs_writedata
  <2>0. n - 10 \in 0 .. 7
    OBVIOUS
  <2>1. CASE n = pc
    <3>1. Writes(Program[pc], n - 10)
      BY <1>2, <2>0, <2>1
    <3> QED
      BY <1>1, <2>0, <2>1, <3>1
  <2>2. CASE n # pc
    <3>1. n < pc /\ pc <= 12
      BY <1>5, <2>2
    <3>2. ~ Writes(Program[pc], n - 10)
      BY <1>2, <1>5, <2>0, <2>2
    <3> QED
      BY <1>0, <1>1, <2>0, <3>1, <3>2 DEF DataWords
  <2> QED
    BY <2>1, <2>2
<1> QED
  BY <1>3, <1>4, <1>5 DEF DataWords

\* What the program asks for is a block.
LEMMA AnswerType ==
  /\ \A d \in Block : Answer(d) \in Block
  /\ Answers \subseteq Word(2 * W)
<1>1. /\ {idata1, idata2, key1, key2, key3} \subseteq Word(2 * W)
      /\ Block = Word(2 * W) /\ Key = Word(2 * W)
  BY ProgramAssumption, WordsAssumption DEF Word, W
<1>2. ASSUME NEW d \in Block PROVE Answer(d) \in Block
  <2> DEFINE i == [idata |-> d, key1 |-> key1, key2 |-> key2,
                   key3 |-> key3, decrypt |-> FALSE, valid_in |-> TRUE]
  <2>1. Crypt(d, One!Schedule(key1, FALSE)) \in Block
    BY <1>1, CryptType
  <2>2. Crypt(Crypt(d, One!Schedule(key1, FALSE)), One!Schedule(key2, TRUE)) \in Block
    BY <1>1, <2>1, CryptType
  <2>3. Crypt(Crypt(Crypt(d, One!Schedule(key1, FALSE)), One!Schedule(key2, TRUE)),
              One!Schedule(key3, FALSE)) \in Block
    BY <1>1, <2>2, CryptType
  <2>4. i.idata = d /\ i.key1 = key1 /\ i.key2 = key2 /\ i.key3 = key3 /\ i.decrypt = FALSE
    OBVIOUS
  <2>5. Answer(d) = TripleCipher(i)
    BY DEF Answer
  <2> HIDE DEF i
  <2> QED
    BY <2>3, <2>4, <2>5 DEF TripleCipher
<1> QED
  BY <1>1, <1>2 DEF Answers

\* The integer that a read of the low word gives, and what its words are.
LEMMA WidenedWords ==
  ASSUME NEW w \in Word(W)
  PROVE  /\ Widened(w) \in Word(2 * W) /\ Lo(Widened(w)) = w
         /\ Hi(Widened(w)) = IF W - 1 \in w THEN 0 .. W - 1 ELSE {}
<1>0. W \in Nat \ {0} /\ w \subseteq 0 .. W - 1
  BY WordsAssumption DEF W, Word
<1>1. CASE W - 1 \in w
  <2>1. Widened(w) = w \cup (W .. 2 * W - 1)
    BY <1>1 DEF Widened, W
  <2>2. Widened(w) \in Word(2 * W)
    BY <1>0, <2>1 DEF Word
  <2>3. \A n \in 0 .. W - 1 : n \in Widened(w) <=> n \in w
    BY <1>0, <2>1
  <2>4. \A n \in 0 .. W - 1 : n + W \in Widened(w)
    BY <1>0, <2>1
  <2>5. Lo(Widened(w)) = w
    BY <1>0, <2>2, <2>3, WordsOf
  <2>6. Hi(Widened(w)) = 0 .. W - 1
    BY <2>2, <2>4, WordsOf
  <2> QED
    BY <1>1, <2>2, <2>5, <2>6
<1>2. CASE ~ (W - 1 \in w)
  <2>1. Widened(w) = w
    BY <1>2 DEF Widened, W
  <2>2. Widened(w) \in Word(2 * W)
    BY <1>0, <2>1 DEF Word
  <2>3. \A n \in 0 .. W - 1 : ~ (n + W \in Widened(w))
    BY <1>0, <2>1
  <2>5. Lo(Widened(w)) = w
    BY <1>0, <2>1, <2>2, WordsOf
  <2>6. Hi(Widened(w)) = {}
    BY <2>2, <2>3, WordsOf
  <2> QED
    BY <1>2, <2>2, <2>5, <2>6
<1> QED
  BY <1>1, <1>2

\* A word or-ed into the high half, as odata |= ... << 32.
LEMMA ShiftedWords ==
  ASSUME NEW x \in Word(2 * W), NEW h \in Word(W)
  PROVE  LET y == x \cup {i + W : i \in h}
         IN  y \in Word(2 * W) /\ Lo(y) = Lo(x) /\ Hi(y) = Hi(x) \cup h
<1> DEFINE y == x \cup {i + W : i \in h}
<1>0. W \in Nat \ {0} /\ h \subseteq 0 .. W - 1 /\ x \subseteq 0 .. 2 * W - 1
  BY WordsAssumption DEF W, Word
<1>1. \A n : n \in y <=> n \in x \/ \E i \in h : n = i + W
  OBVIOUS
<1> HIDE DEF y
<1>2. y \in Word(2 * W)
  <2>1. ASSUME NEW n \in y PROVE n \in 0 .. 2 * W - 1
    <3>1. ASSUME NEW i \in h, n = i + W PROVE n \in 0 .. 2 * W - 1
      BY <1>0, <3>1
    <3> QED
      BY <1>0, <1>1, <3>1
  <2> QED
    BY <2>1 DEF Word
<1>3. \A n \in 0 .. W - 1 : n \in y <=> n \in x
  BY <1>0, <1>1
<1>4. \A n \in 0 .. W - 1 : n + W \in y <=> n + W \in x \/ n \in h
  BY <1>0, <1>1
<1>5. Lo(y) = Lo(x)
  BY <1>2, <1>3, WordsOf
<1>6. Hi(y) = Hi(x) \cup h
  <2>1. Hi(x) = {n \in 0 .. W - 1 : n + W \in x}
    BY WordsOf
  <2>2. Hi(y) = {n \in 0 .. W - 1 : n + W \in y}
    BY <1>2, WordsOf
  <2> QED
    BY <1>0, <1>4, <2>1, <2>2
<1> QED
  BY <1>2, <1>5, <1>6 DEF y

\* What is kept by every bus cycle, whatever the CPU does.
LEMMA CycleKeeps ==
  ASSUME FirmwareInv, NEW b, OnTheBus(b), BusCycle(b),
         answered' = (answered \/ Answering)
  PROVE  /\ AvalonInv' /\ reg_decrypt' = FALSE /\ Entries' /\ LeftoversFirst'
         /\ Latched' /\ (answered => answered') /\ answered' \in BOOLEAN
BY ProgramPolite, KeyWordsKept, EntriesMove, LeftoversMove, LatchedMoves

\* A write of the loop.
LEMMA WriteStep == FirmwareInv /\ CpuWrite => FirmwareInv'
<1> SUFFICES ASSUME FirmwareInv, CpuWrite PROVE FirmwareInv'
  OBVIOUS
<1>1. /\ pc \in 1 .. 12 /\ pc' = pc + 1 /\ result' = result /\ resets' = resets
      /\ fresh' = fresh /\ BusCycle(Program[pc]) /\ OnTheBus(Program[pc])
      /\ answered' = (answered \/ Answering)
  BY ProgramIs DEF CpuWrite, Cycle, OnTheBus
<1>2. KeyWords' /\ DataWords'
  BY <1>1, WriteCycle
<1>3. CpuTypeOK'
  BY <1>1, CycleKeeps, ProgramIs DEF FirmwareInv, CpuTypeOK
<1>4. Fetched'
  BY <1>1, ProgramIs DEF Fetched
<1> QED
  BY <1>1, <1>2, <1>3, <1>4, CycleKeeps DEF FirmwareInv

\* A step of the CPU other than a write, with what it leaves in the registers.
LEMMA OtherStep ==
  ASSUME FirmwareInv, BusCycle(NoWrite),
         answered' = (answered \/ Answering),
         pc' \in 1 .. 16, pc' = 1 \/ pc' = pc \/ (pc >= 13 /\ pc' >= 13),
         result' \in Word(2 * W), resets' \in 0 .. MaxResets, fresh' \in BOOLEAN,
         Fetched'
  PROVE  FirmwareInv'
<1>1. KeyWords' /\ DataWords'
  BY IdleCycle
<1>2. OnTheBus(NoWrite)
  BY DEF OnTheBus
<1>3. CpuTypeOK'
  BY <1>2, CycleKeeps, ProgramIs DEF CpuTypeOK, W
<1> QED
  BY <1>1, <1>2, <1>3, CycleKeeps DEF FirmwareInv

\* A poll: the program goes on to read when a result is latched.
LEMMA PollStep == FirmwareInv /\ CpuPoll => FirmwareInv'
<1> SUFFICES ASSUME FirmwareInv, CpuPoll PROVE FirmwareInv'
  OBVIOUS
<1>1. /\ pc = 13 /\ result' = result /\ resets' = resets /\ fresh' = fresh
      /\ BusCycle(NoWrite) /\ OnTheBus(NoWrite)
      /\ answered' = (answered \/ Answering)
      /\ pc' = IF avs_readdata(11) # {} THEN 14 ELSE 1
  BY ProgramIs DEF CpuPoll, Cycle, OnTheBus
<1>2. result \in Word(2 * W) /\ resets \in 0 .. MaxResets /\ fresh \in BOOLEAN
  BY DEF FirmwareInv, CpuTypeOK, W
<1>3. pc' = 14 \/ pc' = 1
  BY <1>1
<1>4. Fetched'
  BY <1>3, ProgramIs DEF Fetched
<1>5. pc' \in 1 .. 16 /\ (pc' = 1 \/ pc' = pc \/ (pc >= 13 /\ pc' >= 13))
  BY <1>1, <1>3
<1> QED
  BY <1>1, <1>2, <1>4, <1>5, OtherStep

\* The read of the low word.
LEMMA ReadLoStep == FirmwareInv /\ CpuReadLo => FirmwareInv'
<1> SUFFICES ASSUME FirmwareInv, CpuReadLo PROVE FirmwareInv'
  OBVIOUS
<1>1. /\ pc = 14 /\ pc' = 15 /\ resets' = resets
      /\ BusCycle(NoWrite) /\ OnTheBus(NoWrite)
      /\ answered' = (answered \/ Answering)
      /\ result' = Widened(Lo(reg_odata)) /\ fresh' = answered
  BY ProgramIs, ReadsAre DEF CpuReadLo, Cycle, OnTheBus
<1>2. reg_odata \in Word(2 * W)
  BY WordsAssumption DEF FirmwareInv, AvalonInv, AvalonTypeOK, W
<1>3. result' \in Word(2 * W) /\ resets \in 0 .. MaxResets
  <2>1. Lo(reg_odata) \in Word(W)
    BY <1>2, WordsOf
  <2> QED
    BY <1>1, <2>1, WidenedWords DEF FirmwareInv, CpuTypeOK
<1>4. answered \in BOOLEAN /\ (answered => answered' /\ reg_odata \in Answers)
  BY <1>1, CycleKeeps DEF FirmwareInv, CpuTypeOK, Latched
<1>5. Fetched'
  BY <1>1, <1>4, ProgramIs DEF Fetched
<1> QED
  BY <1>1, <1>3, <1>4, <1>5, OtherStep

\* The read of the high word, which may be of a later result.
LEMMA ReadHiStep == FirmwareInv /\ CpuReadHi => FirmwareInv'
<1> SUFFICES ASSUME FirmwareInv, CpuReadHi PROVE FirmwareInv'
  OBVIOUS
<1>1. /\ pc = 15 /\ pc' = 16 /\ resets' = resets
      /\ BusCycle(NoWrite) /\ OnTheBus(NoWrite)
      /\ answered' = (answered \/ Answering)
      /\ result' = result \cup {i + WordBits : i \in Hi(reg_odata)} /\ fresh' = fresh
  BY ProgramIs, ReadsAre DEF CpuReadHi, Cycle, OnTheBus
<1>2. reg_odata \in Word(2 * W) /\ result \in Word(2 * W)
  BY WordsAssumption DEF FirmwareInv, AvalonInv, AvalonTypeOK, CpuTypeOK, W
<1>3. result' \in Word(2 * W) /\ resets \in 0 .. MaxResets
  <2>1. Hi(reg_odata) \in Word(W)
    BY <1>2, WordsOf
  <2>2. result \cup {i + W : i \in Hi(reg_odata)} \in Word(2 * W)
    BY <1>2, <2>1, ShiftedWords
  <2> QED
    BY <1>1, <2>2 DEF FirmwareInv, CpuTypeOK, W
<1>4. /\ fresh \in BOOLEAN /\ (fresh => answered)
      /\ answered => answered' /\ reg_odata \in Answers
  BY <1>1, CycleKeeps, ProgramIs DEF FirmwareInv, CpuTypeOK, Latched, Fetched
<1>5. ASSUME fresh
      PROVE  \E c, d \in Answers : result' = Widened(Lo(c)) \cup {i + WordBits : i \in Hi(d)}
  <2>1. PICK c \in Answers : result = Widened(Lo(c))
    BY <1>1, <1>5, ProgramIs DEF FirmwareInv, Fetched
  <2> QED
    BY <1>1, <1>4, <1>5, <2>1
<1>6. Fetched'
  BY <1>1, <1>4, <1>5, ProgramIs DEF Fetched
<1> QED
  BY <1>1, <1>3, <1>4, <1>6, OtherStep

\* The printf, a cycle without an access, and a reset of the CPU.
LEMMA QuietStep == FirmwareInv /\ (CpuPrint \/ CpuBusy \/ CpuReset) => FirmwareInv'
<1> SUFFICES ASSUME FirmwareInv, CpuPrint \/ CpuBusy \/ CpuReset PROVE FirmwareInv'
  OBVIOUS
<1>0. /\ pc \in 1 .. 16 /\ result \in Word(2 * W) /\ resets \in 0 .. MaxResets
      /\ MaxResets \in Nat /\ fresh \in BOOLEAN /\ Fetched
  BY ProgramIs, ProgramAssumption DEF FirmwareInv, CpuTypeOK, W
<1>1. /\ BusCycle(NoWrite) /\ OnTheBus(NoWrite)
      /\ answered' = (answered \/ Answering)
  BY DEF CpuPrint, CpuBusy, CpuReset, Cycle, OnTheBus
<1>2. answered => answered'
  BY <1>1, CycleKeeps
<1>3. CASE CpuPrint
  <2>1. pc' = 1 /\ result' = result /\ resets' = resets /\ fresh' = fresh
    BY <1>3 DEF CpuPrint, Cycle
  <2>2. Fetched'
    BY <2>1, ProgramIs DEF Fetched
  <2> QED
    BY <1>0, <1>1, <2>1, <2>2, OtherStep
<1>4. CASE CpuBusy
  <2>1. pc' = pc /\ result' = result /\ resets' = resets /\ fresh' = fresh
    BY <1>4 DEF CpuBusy, cpu, Cycle
  <2>2. Fetched'
    BY <1>0, <1>2, <2>1 DEF Fetched
  <2> QED
    BY <1>0, <1>1, <2>1, <2>2, OtherStep
<1>5. CASE CpuReset
  <2>1. pc' = 1 /\ result' = {} /\ resets' \in 0 .. MaxResets /\ fresh' = FALSE
    BY <1>0, <1>5 DEF CpuReset
  <2>2. Fetched'
    BY <2>1, ProgramIs DEF Fetched
  <2>3. {} \in Word(2 * W)
    BY DEF Word
  <2>4. fresh' \in BOOLEAN /\ result' \in Word(2 * W)
    BY <2>1, <2>3, Zenon
  <2>5. pc' \in 1 .. 16
    BY <2>1
  <2> QED
    BY <1>1, <2>1, <2>2, <2>4, <2>5, OtherStep
<1> QED
  BY <1>3, <1>4, <1>5

\* A reset of everything leaves only entries of blocks left over.
LEMMA ResetStep == FirmwareInv /\ SystemReset => FirmwareInv'
<1> SUFFICES ASSUME FirmwareInv, SystemReset PROVE FirmwareInv'
  OBVIOUS
<1>1. /\ AvalonReset /\ answered' = FALSE /\ fresh' = FALSE /\ pc' = 1 /\ result' = {}
      /\ resets < MaxResets /\ resets' = resets + 1
  BY DEF SystemReset
<1>2. /\ AvalonInv' /\ \A k \in 1 .. Len(pending') : pending'[k] = {}
  BY <1>1, QueueReset DEF FirmwareInv
<1>3. reg_decrypt' = FALSE
  BY <1>1 DEF AvalonReset
<1>4. Entries' /\ LeftoversFirst' /\ ~ Real'
  <2>1. Len(pending') \in Nat
    BY <1>2 DEF AvalonInv, QueueInv
  <2>2. \A k \in 1 .. Len(pending') : \A j \in 1 .. k : j \in 1 .. Len(pending')
    BY <2>1
  <2> QED
    BY <1>2, <2>2 DEF Entries, LeftoversFirst, Real
<1>5. CpuTypeOK'
  <2>1. {} \in Word(2 * WordBits) /\ resets \in 0 .. MaxResets /\ MaxResets \in Nat
    BY ProgramAssumption DEF Word, FirmwareInv, CpuTypeOK
  <2>2. resets' \in 0 .. MaxResets
    BY <1>1, <2>1
  <2>3. pc' \in 1 .. Display
    BY <1>1, ProgramIs
  <2> QED
    BY <1>1, <2>1, <2>2, <2>3 DEF CpuTypeOK
<1>6. KeyWords' /\ DataWords' /\ Latched' /\ Fetched'
  BY <1>1, <1>3, <1>4, ProgramIs DEF KeyWords, DataWords, Latched, Fetched
<1> QED
  BY <1>2, <1>3, <1>4, <1>5, <1>6 DEF FirmwareInv

\* Power-up.
LEMMA FirmwareInit == FInit => FirmwareInv
<1> SUFFICES ASSUME FInit PROVE FirmwareInv
  OBVIOUS
<1>1. AvalonInit /\ pc = 1 /\ result = {} /\ resets = 0
      /\ answered = FALSE /\ fresh = FALSE
  BY DEF FInit
<1>2. AvalonInv
  BY <1>1, QueueInit
<1>3. reg_decrypt = FALSE /\ pending = Leftovers
  BY <1>1 DEF AvalonInit, RegfileInit
<1>4. \A k \in 1 .. Len(pending) : pending[k] = {}
  BY <1>1, <1>3, InitHolds, LeftoversType DEF AvalonInit
<1>5. Entries /\ LeftoversFirst /\ ~ Real
  <2>1. Len(pending) \in Nat
    BY <1>2 DEF AvalonInv, QueueInv
  <2>2. \A k \in 1 .. Len(pending) : \A j \in 1 .. k : j \in 1 .. Len(pending)
    BY <2>1
  <2> QED
    BY <1>4, <2>2 DEF Entries, LeftoversFirst, Real
<1>6. CpuTypeOK
  <2>1. {} \in Word(2 * WordBits)
    BY DEF Word
  <2>2. resets \in 0 .. MaxResets
    BY <1>1, ProgramAssumption
  <2>3. pc \in 1 .. Display
    BY <1>1, ProgramIs
  <2> QED
    BY <1>1, <2>1, <2>2, <2>3 DEF CpuTypeOK
<1>7. KeyWords /\ DataWords
  <2>1. /\ \A n \in 3 .. 8 : ~ (n < pc)
        /\ ~ (1 < pc) /\ ~ (2 < pc) /\ ~ (10 < pc) /\ ~ (11 < pc)
    BY <1>1
  <2>2. KeyWords
    BY <1>5, <2>1 DEF KeyWords
  <2>3. DataWords
    BY <2>1 DEF DataWords
  <2> QED
    BY <2>2, <2>3
<1>8. Latched /\ Fetched
  <2>1. pc # ReadLo /\ pc # ReadHi /\ pc # Display
    BY <1>1, ProgramIs
  <2> QED
    BY <1>1, <2>1 DEF Latched, Fetched
<1> QED
  BY <1>2, <1>3, <1>5, <1>6, <1>7, <1>8 DEF FirmwareInv

\* A step that changes nothing.
LEMMA FirmwareStutters == FirmwareInv /\ UNCHANGED fvars => FirmwareInv'
<1> SUFFICES ASSUME FirmwareInv, UNCHANGED fvars PROVE FirmwareInv'
  OBVIOUS
<1>1. /\ UNCHANGED avalon /\ UNCHANGED <<pc, result, resets, answered, fresh>>
      /\ UNCHANGED <<reg_idata, reg_key1, reg_key2, reg_key3, reg_decrypt>>
      /\ UNCHANGED <<reg_valid_in, reg_odata, reg_valid_out, pending>>
  BY DEF fvars, cpu, avalon, regfile
<1>2. AvalonInv'
  BY <1>1, AvalonStutters DEF FirmwareInv
<1>3. \A a : avs_readdata(a)' = avs_readdata(a)
  BY <1>1 DEF avs_readdata, Lo, Hi, Slice
<1>4. /\ CpuTypeOK' /\ Entries' /\ LeftoversFirst' /\ Latched' /\ Fetched'
      /\ reg_decrypt' = FALSE
  BY <1>1 DEF FirmwareInv, CpuTypeOK, Entries, LeftoversFirst, Latched, AllAsked, Fetched
<1>5. Real' <=> Real
  BY <1>1 DEF Real
<1>6. KeyWords' /\ DataWords'
  BY <1>1, <1>3, <1>5 DEF FirmwareInv, KeyWords, DataWords
<1> QED
  BY <1>2, <1>4, <1>6 DEF FirmwareInv

\* The invariant of the program on the register file on the core.
LEMMA FirmwareHolds == FSpec => []FirmwareInv
<1>1. FInit => FirmwareInv
  BY FirmwareInit
<1>2. FirmwareInv /\ [FNext]_fvars => FirmwareInv'
  BY WriteStep, PollStep, ReadLoStep, ReadHiStep, QuietStep, ResetStep, FirmwareStutters
     DEF FNext, CpuStep
<1> QED
  BY <1>1, <1>2, PTL DEF FSpec

\* What the CPU has when it prints.
LEMMA PrintsAnswers == FirmwareInv => PrintedWords
<1> SUFFICES ASSUME FirmwareInv, pc = Display, fresh
             PROVE  /\ Lo(result) \in {Lo(c) : c \in Answers}
                    /\ IF WordBits - 1 \in Lo(result)
                       THEN Hi(result) = 0 .. WordBits - 1
                       ELSE Hi(result) \in {Hi(c) : c \in Answers}
  BY DEF PrintedWords
<1>1. PICK c \in Answers, d \in Answers :
        result = Widened(Lo(c)) \cup {i + WordBits : i \in Hi(d)}
  BY DEF FirmwareInv, Fetched
<1>2. /\ c \in Word(2 * W) /\ d \in Word(2 * W)
      /\ Lo(c) \in Word(W) /\ Hi(d) \in Word(W)
  BY AnswerType, WordsOf
<1>3. /\ Widened(Lo(c)) \in Word(2 * W) /\ Lo(Widened(Lo(c))) = Lo(c)
      /\ Hi(Widened(Lo(c))) = IF W - 1 \in Lo(c) THEN 0 .. W - 1 ELSE {}
  BY <1>2, WidenedWords
<1>4. result = Widened(Lo(c)) \cup {i + W : i \in Hi(d)}
  BY <1>1 DEF W
<1>5. Lo(result) = Lo(c) /\ Hi(result) = Hi(Widened(Lo(c))) \cup Hi(d)
  BY <1>2, <1>3, <1>4, ShiftedWords
<1>6. CASE W - 1 \in Lo(c)
  <2>1. Hi(d) \subseteq 0 .. W - 1
    BY <1>2 DEF Word
  <2>2. Hi(result) = 0 .. W - 1
    BY <1>3, <1>5, <1>6, <2>1
  <2> QED
    BY <1>5, <1>6, <2>2 DEF W
<1>7. CASE ~ (W - 1 \in Lo(c))
  <2>1. Hi(result) = Hi(d)
    BY <1>3, <1>5, <1>7
  <2> QED
    BY <1>5, <1>7, <2>1 DEF W
<1> QED
  BY <1>6, <1>7

(***************************************************************************)
(* Whatever the widths, the cipher, the constants of main and the moments   *)
(* of the two resets, every register keeps its type and the program counter *)
(* stays in the loop (main.c, lines 16-40).                                 *)
(***************************************************************************)
THEOREM FirmwareType == FSpec => []FTypeOK
<1>1. FirmwareInv => FTypeOK
  BY DEF FirmwareInv, CpuTypeOK, FTypeOK, AvalonInv
<1> QED
  BY <1>1, FirmwareHolds, PTL

(***************************************************************************)
(* Once a result that was asked for has been latched since the last reset  *)
(* of des3, each printed word is a word of one of the two ciphertexts, but *)
(* for the sign of the low word; they need not be of one result, but none  *)
(* is of a leftover any more (main.c, lines 36-38).                        *)
(***************************************************************************)
THEOREM PrintsCiphertext == FSpec => []PrintedWords
BY FirmwareHolds, PrintsAnswers, PTL

(***************************************************************************)
(* main.c is a host whose results answer its writes, one block each, though *)
(* it rewrites the key registers while blocks are in the core: every        *)
(* rewrite is of the value that is there (main.c, lines 18-31).             *)
(***************************************************************************)
THEOREM MainIsPolite == FSpec => [](ResultsAnswerRequests /\ OnePulsePerWrite)
<1>1. FirmwareInv => ResultsAnswerRequests /\ OnePulsePerWrite
  BY QueueAnswers DEF FirmwareInv
<1> QED
  BY <1>1, FirmwareHolds, PTL
=============================================================================
