--------------------------- MODULE FeistelProofs ---------------------------
(***************************************************************************)
(* Proofs about feistel_algo.v for every number of rounds, round function,  *)
(* key schedule and set of port values.  The argument: the history is in    *)
(* step with the valid bits; the registered copies of the key are the last  *)
(* sampled key; hence the halves in stage k + 1 are one more round of those *)
(* of stage k, under the key sampled one edge ago, which is what KeysMet    *)
(* says of the block after the edge.                                        *)
(***************************************************************************)
EXTENDS FeistelHistory, NetworkProofs

USE DEF Position, Stage

\* A pair is made of its two components.
LEMMA SplitPair ==
    ASSUME NEW b \in Block
    PROVE  /\ Split(b)[1] \in Half /\ Split(b)[2] \in Half
           /\ Split(b) = <<Split(b)[1], Split(b)[2]>>
<1>1. Split(b) \in Half \X Half
  BY DataAssumption
<1> QED
  BY <1>1

\* Every stage's next right half is a half.
LEMMA RoundType ==
    ASSUME NEW l \in Half, NEW r \in Half, NEW k \in 0 .. Rounds - 1,
           TypeOK
    PROVE  Xor(l, F(r, K(regs, k))) \in Half
<1>1. /\ regs.key_in1 \in Key /\ regs.key_in2 \in Key
      /\ regs.decrypt1 \in BOOLEAN /\ regs.decrypt2 \in BOOLEAN
  BY DEF TypeOK, Regs
<1>2. CASE k < Rounds \div 2
  BY <1>1, <1>2, DataAssumption DEF K
<1>3. CASE ~(k < Rounds \div 2)
  BY <1>1, <1>3, DataAssumption DEF K
<1> QED
  BY <1>2, <1>3

\* A clock edge keeps the types.
LEMMA ClockType ==
    ASSUME TypeOK, NEW i \in Input, Clock(i)
    PROVE  TypeOK'
<1>0. Rounds \in Nat \ {0}
  BY RoundsAssumption
<1>1. Split(i.idata)[1] \in Half /\ Split(i.idata)[2] \in Half
  BY SplitPair DEF Input
<1>2. [k \in Stage |-> IF k = 0 THEN regs.L_buf ELSE regs.R[k-1]]
        \in [Stage -> Half]
  BY <1>0 DEF TypeOK, Regs
<1>3. [k \in Stage |-> IF k = 0 THEN regs.R_buf
              ELSE Xor(regs.L[k-1], F(regs.R[k-1], K(regs, k-1)))]
        \in [Stage -> Half]
  <2>1. ASSUME NEW k \in Stage, k # 0
        PROVE  Xor(regs.L[k-1], F(regs.R[k-1], K(regs, k-1))) \in Half
    <3>1. k - 1 \in 0 .. Rounds - 1 /\ k - 1 \in Stage
      BY <1>0, <2>1
    <3>2. regs.L[k-1] \in Half /\ regs.R[k-1] \in Half
      BY <3>1 DEF TypeOK, Regs
    <3> QED
      BY <3>1, <3>2, RoundType
  <2>2. regs.R_buf \in Half
    BY DEF TypeOK, Regs
  <2> QED
    BY <2>1, <2>2
<1>4. [k \in Stage |-> IF k = 0 THEN regs.V_buf ELSE regs.V[k-1]]
        \in [Stage -> BOOLEAN]
  BY <1>0 DEF TypeOK, Regs
<1>5. Join(<<regs.R[Rounds], regs.L[Rounds]>>) \in Block
  <2>1. regs.R[Rounds] \in Half /\ regs.L[Rounds] \in Half
    BY <1>0 DEF TypeOK, Regs
  <2> QED
    BY <2>1, DataAssumption
<1>6. regs.V[Rounds] \in BOOLEAN
  BY <1>0 DEF TypeOK, Regs
<1> QED
  BY <1>1, <1>2, <1>3, <1>4, <1>5, <1>6 DEF TypeOK, Regs, Clock, Clocked, Input

\* A reset establishes the types.
LEMMA ResetType ==
    ASSUME TypeOK, Reset
    PROVE  TypeOK'
<1>1. {} \in Half /\ ZeroBlock \in Block
  BY DataAssumption
<1>2. /\ [k \in Stage |-> {}] \in [Stage -> Half]
      /\ [k \in Stage |-> FALSE] \in [Stage -> BOOLEAN]
  BY <1>1
<1> QED
  BY <1>1, <1>2 DEF TypeOK, Regs, Reset, Cleared

\* The initial states have the types.
LEMMA InitType == Init => TypeOK
<1> SUFFICES ASSUME NEW k1 \in Key, NEW k2 \in Key, NEW d1 \in BOOLEAN,
                    NEW d2 \in BOOLEAN, NEW v \in BOOLEAN, NEW b \in Block,
                    regs = PoweredUp(k1, k2, d1, d2, v, Split(b))
             PROVE  TypeOK
  BY DEF Init
<1>1. {} \in Half /\ ZeroBlock \in Block
  BY DataAssumption
<1>2. /\ [k \in Stage |-> {}] \in [Stage -> Half]
      /\ [k \in Stage |-> FALSE] \in [Stage -> BOOLEAN]
  BY <1>1
<1>3. Split(b)[1] \in Half /\ Split(b)[2] \in Half
  BY SplitPair
<1> QED
  BY <1>1, <1>2, <1>3 DEF TypeOK, Regs, PoweredUp

(***************************************************************************)
(* Every register of the pipeline keeps a value of its width.               *)
(***************************************************************************)
THEOREM TypeCorrect == Spec => []TypeOK
<1>1. ASSUME TypeOK, [Next]_regs
      PROVE  TypeOK'
  <2>1. ASSUME NEW i \in Samples, Clock(i) PROVE TypeOK'
    BY <1>1, <2>1, SamplesAssumption, ClockType
  <2>2. CASE Reset
    BY <1>1, <2>2, ResetType
  <2>3. CASE UNCHANGED regs
    BY <1>1, <2>3 DEF TypeOK
  <2> QED
    BY <1>1, <2>1, <2>2, <2>3 DEF Next
<1> QED
  BY <1>1, InitType, PTL DEF Spec

-----------------------------------------------------------------------------
(***************************************************************************)
(* What the round keys met by a block become at a clock edge: the block     *)
(* moves one position on, and the round it undergoes reads the last key.    *)
(***************************************************************************)
LEMMA KeysMetClock ==
    ASSUME NEW i \in Input, ClockH(i), NEW p \in 1 .. Rounds + 1,
           NEW j \in 0 .. Rounds - 1, j <= p - 1
    PROVE  KeysMet(p + 1)'[j] =
             IF j = p - 1 THEN KS(past[0].key_in, past[0].decrypt, j)
                          ELSE KeysMet(p)[j]
<1>0. Rounds \in Nat /\ p \in Nat /\ j \in Nat
  BY RoundsAssumption
<1>1. past' = [q \in Position |-> IF q = 0 THEN i ELSE past[q - 1]]
  BY DEF ClockH
<1>2. /\ p - j \in Position /\ p - j # 0
      /\ (p + 1) - 1 - j = p - j /\ (p - j) - 1 = p - 1 - j
      /\ j <= (p + 1) - 2
  BY <1>0
<1>3. past'[p - j] = past[p - 1 - j]
  BY <1>1, <1>2
<1>4. KeysMet(p + 1)'[j] = KS(past[p - 1 - j].key_in, past[p - 1 - j].decrypt, j)
  BY <1>2, <1>3 DEF KeysMet
<1>5. CASE j = p - 1
  <2>1. p - 1 - j = 0
    BY <1>0, <1>5
  <2> QED
    BY <1>4, <1>5, <2>1
<1>6. CASE j # p - 1
  <2>1. j <= p - 2
    BY <1>0, <1>6
  <2> QED
    BY <1>4, <1>6, <2>1 DEF KeysMet
<1> QED
  BY <1>5, <1>6

\* The initial states satisfy the invariant.
LEMMA InitInv == InitH => IInv
<1> SUFFICES ASSUME InitH PROVE IInv
  OBVIOUS
<1>0. Rounds \in Nat \ {0}
  BY RoundsAssumption
<1>1. TypeOK
  BY InitType DEF InitH
<1>2. PICK b \in Block :
        /\ Split(b) = <<regs.L_buf, regs.R_buf>>
        /\ past = [p \in Position |->
              [idata |-> b, key_in |-> regs.key_in1, decrypt |-> regs.decrypt1,
               valid_in |-> p = 0 /\ regs.V_buf]]
  BY DEF InitH
<1>3. PastOK
  BY <1>1, <1>2 DEF PastOK, Input, TypeOK, Regs
<1>4. /\ \A k \in Stage : regs.V[k] = FALSE
      /\ regs.valid_out = FALSE
  BY DEF InitH, Init, PoweredUp
<1>5. OneOutPerIn
  <2> SUFFICES ASSUME NEW p \in Position
               PROVE  Occupied(regs, p) = past[p].valid_in
    BY DEF OneOutPerIn
  <2>1. CASE p = 0
    BY <1>0, <1>1, <1>2, <2>1 DEF Occupied, TypeOK, Regs
  <2>2. CASE p \in 1 .. Rounds + 1
    <3>1. p - 1 \in Stage /\ p # 0
      BY <1>0, <2>2
    <3> QED
      BY <1>2, <1>4, <2>2, <3>1 DEF Occupied
  <2>3. CASE p = Rounds + 2
    <3>1. p # 0 /\ p \notin 1 .. Rounds + 1
      BY <1>0, <2>3
    <3> QED
      BY <1>2, <1>4, <2>3, <3>1 DEF Occupied
  <2> QED
    BY <1>0, <2>1, <2>2, <2>3
<1>6. BufferInv
  BY <1>0, <1>2 DEF BufferInv
<1> QED
  BY <1>1, <1>3, <1>4, <1>5, <1>6
     DEF IInv, CopiesAgree, HalvesInv, OutputIsCipher

(***************************************************************************)
(* A clock edge preserves the invariant.                                    *)
(***************************************************************************)
LEMMA ClockInv ==
    ASSUME IInv, NEW i \in Input, ClockH(i)
    PROVE  IInv'
<1>0. Rounds \in Nat \ {0}
  BY RoundsAssumption
<1>1. past' = [q \in Position |-> IF q = 0 THEN i ELSE past[q - 1]]
  BY DEF ClockH
<1>2. \A p \in 1 .. Rounds + 2 : p - 1 \in Position /\ past'[p] = past[p - 1]
  BY <1>0, <1>1
<1>3. regs' = Clocked(regs, i)
  BY DEF ClockH, Clock
<1>4. TypeOK'
  BY ClockType DEF ClockH, IInv
<1>5. PastOK'
  BY <1>0, <1>1 DEF PastOK, IInv
<1>6. /\ \A k \in Stage : regs'.V[k] = IF k = 0 THEN regs.V_buf ELSE regs.V[k-1]
      /\ regs'.valid_out = regs.V[Rounds] /\ regs'.V_buf = i.valid_in
      /\ \A k \in Stage : regs'.L[k] = IF k = 0 THEN regs.L_buf ELSE regs.R[k-1]
      /\ \A k \in Stage : regs'.R[k] =
            IF k = 0 THEN regs.R_buf
            ELSE Xor(regs.L[k-1], F(regs.R[k-1], K(regs, k-1)))
      /\ regs'.odata = Join(<<regs.R[Rounds], regs.L[Rounds]>>)
  BY <1>3 DEF Clocked
<1>7. OneOutPerIn'
  <2> SUFFICES ASSUME NEW p \in Position
               PROVE  Occupied(regs', p) = past'[p].valid_in
    BY DEF OneOutPerIn
  <2>1. CASE p = 0
    BY <1>0, <1>1, <1>6, <2>1 DEF Occupied
  <2>2. CASE p = 1
    <3>1. Occupied(regs', p) = regs.V_buf
      BY <1>0, <1>6, <2>2 DEF Occupied
    <3>2. past[0].valid_in = regs.V_buf
      BY <1>0 DEF IInv, OneOutPerIn, Occupied
    <3> QED
      BY <1>0, <1>2, <2>2, <3>1, <3>2
  <2>3. CASE p \in 2 .. Rounds + 1
    <3>1. Occupied(regs', p) = regs.V[(p - 1) - 1]
      BY <1>0, <1>6, <2>3 DEF Occupied
    <3>2. Occupied(regs, p - 1) = regs.V[(p - 1) - 1]
      BY <1>0, <2>3 DEF Occupied
    <3>3. p - 1 \in Position
      BY <1>0, <2>3
    <3>4. past[p - 1].valid_in = Occupied(regs, p - 1)
      BY <3>3 DEF IInv, OneOutPerIn
    <3> QED
      BY <1>2, <2>3, <3>1, <3>2, <3>4
  <2>4. CASE p = Rounds + 2
    <3>1. Occupied(regs', p) = regs.V[Rounds]
      BY <1>0, <1>6, <2>4 DEF Occupied
    <3>2. Occupied(regs, Rounds + 1) = regs.V[Rounds]
      BY <1>0 DEF Occupied
    <3>3. past[Rounds + 1].valid_in = Occupied(regs, Rounds + 1)
      BY <1>0 DEF IInv, OneOutPerIn
    <3> QED
      BY <1>0, <1>2, <2>4, <3>1, <3>2, <3>3
  <2> QED
    BY <1>0, <2>1, <2>2, <2>3, <2>4
<1>8. CopiesAgree'
  BY <1>0, <1>1, <1>3 DEF CopiesAgree, Clocked
<1>9. BufferInv'
  <2>1. regs'.L_buf = Split(i.idata)[1] /\ regs'.R_buf = Split(i.idata)[2]
    BY <1>3 DEF Clocked
  <2>2. past'[0] = i
    BY <1>0, <1>1
  <2> QED
    BY <2>1, <2>2, SplitPair DEF BufferInv, Input
<1>10. HalvesInv'
  <2> SUFFICES ASSUME NEW k \in Stage, regs'.V[k]
               PROVE  <<regs'.L[k], regs'.R[k]>> =
                        Halves(0, Split(past'[k + 1].idata), KeysMet(k + 1)')[k]
    BY DEF HalvesInv
  <2>1. k + 1 \in 1 .. Rounds + 2 /\ past'[k + 1] = past[k]
    BY <1>0, <1>2
  <2> DEFINE lr == Split(past[k].idata)
             km == KeysMet(k + 1)'
  <2>2. CASE k = 0
    <3>1. <<regs'.L[k], regs'.R[k]>> = <<regs.L_buf, regs.R_buf>> /\ regs.V_buf
      BY <1>0, <1>6, <2>2
    <3>2. <<regs.L_buf, regs.R_buf>> = lr
      BY <2>2, <3>1 DEF IInv, BufferInv
    <3>3. Halves(0, lr, km)[0] = lr
      BY <1>0, HalvesStart
    <3> QED
      BY <2>1, <2>2, <3>1, <3>2, <3>3
  <2>3. CASE k # 0
    <3>1. /\ k - 1 \in Stage /\ k - 1 \in 0 .. Rounds - 1 /\ (k - 1) + 1 = k
          /\ k \in 1 .. Rounds + 1 /\ k \in 0 .. Rounds
      BY <1>0, <2>3
    <3>2. regs.V[k - 1]
      BY <1>6, <2>3
    <3>3. <<regs.L[k-1], regs.R[k-1]>> = Halves(0, lr, KeysMet(k))[k - 1]
      BY <3>1, <3>2 DEF IInv, HalvesInv
    <3>4. K(regs, k - 1) = KS(past[0].key_in, past[0].decrypt, k - 1)
      BY <3>1, <3>2 DEF IInv, CopiesAgree, K
    <3>5. \A j \in 0 .. k - 1 :
            km[j] = IF j = k - 1 THEN KS(past[0].key_in, past[0].decrypt, j)
                                 ELSE KeysMet(k)[j]
      <4> SUFFICES ASSUME NEW j \in 0 .. k - 1
                   PROVE km[j] = IF j = k - 1
                                 THEN KS(past[0].key_in, past[0].decrypt, j)
                                 ELSE KeysMet(k)[j]
        OBVIOUS
      <4>1. j \in 0 .. Rounds - 1 /\ j <= k - 1
        BY <1>0, <3>1
      <4> QED
        BY <3>1, <4>1, KeysMetClock
    <3>6. km[k - 1] = K(regs, k - 1)
      BY <3>1, <3>4, <3>5
    <3>7. Halves(0, lr, KeysMet(k))[k - 1] = Halves(0, lr, km)[k - 1]
      <4>1. \A j \in 0 .. (k - 1) - 1 : KeysMet(k)[j] = km[j]
        BY <1>0, <3>1, <3>5
      <4> HIDE DEF km
      <4> QED
        BY <3>1, <4>1, HalvesAgree
    <3>8. Halves(0, lr, km)[k] = Round(Halves(0, lr, km)[k - 1], km[k - 1])
      <4> HIDE DEF km
      <4>1. Halves(0, lr, km)[(k - 1) + 1]
              = Round(Halves(0, lr, km)[k - 1], km[k - 1])
        BY <1>0, <3>1, HalvesStep
      <4> QED
        BY <3>1, <4>1
    <3>9. Round(<<regs.L[k-1], regs.R[k-1]>>, K(regs, k - 1))
            = <<regs'.L[k], regs'.R[k]>>
      BY <1>6, <2>3 DEF Round
    <3> QED
      BY <2>1, <3>3, <3>6, <3>7, <3>8, <3>9
  <2> QED
    BY <2>2, <2>3
<1>11. OutputIsCipher'
  <2> SUFFICES ASSUME regs'.valid_out
               PROVE  regs'.odata = Crypt(past'[Rounds + 2].idata,
                                          KeysMet(Rounds + 2)')
    BY DEF OutputIsCipher
  <2> DEFINE lr == Split(past[Rounds + 1].idata)
             km == KeysMet(Rounds + 2)'
  <2>1. past'[Rounds + 2] = past[Rounds + 1]
    BY <1>0, <1>2
  <2>2. <<regs.L[Rounds], regs.R[Rounds]>>
          = Halves(0, lr, KeysMet(Rounds + 1))[Rounds]
    BY <1>0, <1>6 DEF IInv, HalvesInv
  <2>3. \A j \in 0 .. Rounds - 1 : KeysMet(Rounds + 1)[j] = km[j]
    <3> SUFFICES ASSUME NEW j \in 0 .. Rounds - 1
                 PROVE  km[j] = KeysMet(Rounds + 1)[j]
      OBVIOUS
    <3>1. /\ Rounds + 1 \in 1 .. Rounds + 1 /\ (Rounds + 1) + 1 = Rounds + 2
          /\ j <= (Rounds + 1) - 1 /\ j # (Rounds + 1) - 1
      BY <1>0
    <3> QED
      BY <3>1, KeysMetClock
  <2>4. Halves(0, lr, KeysMet(Rounds + 1))[Rounds] = Halves(0, lr, km)[Rounds]
    <3> HIDE DEF km
    <3> QED
      BY <1>0, <2>3, HalvesAgree
  <2>5. regs'.odata = Join(<<regs.R[Rounds], regs.L[Rounds]>>)
    BY <1>6
  <2> QED
    BY <2>1, <2>2, <2>4, <2>5 DEF Crypt, Finish
<1> QED
  BY <1>4, <1>5, <1>7, <1>8, <1>9, <1>10, <1>11 DEF IInv

(***************************************************************************)
(* A reset preserves the invariant: only the block in the input buffer      *)
(* survives it, and it has met no key yet.                                  *)
(***************************************************************************)
LEMMA ResetInv ==
    ASSUME IInv, ResetH
    PROVE  IInv'
<1>0. Rounds \in Nat \ {0}
  BY RoundsAssumption
<1>1. past' = [p \in Position |-> [past[p] EXCEPT !.valid_in = (p = 0 /\ @)]]
  BY DEF ResetH
<1>2. regs' = Cleared(regs)
  BY DEF ResetH, Reset
<1>3. TypeOK'
  BY ResetType DEF ResetH, IInv
<1>4. PastOK'
  BY <1>0, <1>1 DEF PastOK, IInv, Input
<1>5. /\ past'[0].valid_in = past[0].valid_in
      /\ \A p \in Position \ {0} : past'[p].valid_in = FALSE
  <2>1. 0 \in Position
    BY <1>0
  <2>2. past[0].valid_in \in BOOLEAN
    BY <2>1 DEF IInv, PastOK, Input
  <2>3. \A p \in Position : past'[p].valid_in = (p = 0 /\ past[p].valid_in)
    BY <1>1 DEF IInv, PastOK, Input
  <2> QED
    BY <2>1, <2>2, <2>3
<1>6. /\ \A k \in Stage : regs'.V[k] = FALSE
      /\ regs'.valid_out = FALSE
      /\ regs'.V_buf = regs.V_buf
      /\ regs'.L_buf = regs.L_buf /\ regs'.R_buf = regs.R_buf
  BY <1>2 DEF Cleared, IInv, TypeOK, Regs
<1>7. OneOutPerIn'
  <2> SUFFICES ASSUME NEW p \in Position
               PROVE  Occupied(regs', p) = past'[p].valid_in
    BY DEF OneOutPerIn
  <2>1. CASE p = 0
    <3>1. past[0].valid_in = regs.V_buf
      BY <1>0 DEF IInv, OneOutPerIn, Occupied
    <3> QED
      BY <1>0, <1>5, <1>6, <2>1, <3>1 DEF Occupied
  <2>2. CASE p \in 1 .. Rounds + 1
    <3>1. p # 0 /\ p # Rounds + 2 /\ p - 1 \in Stage
      BY <1>0, <2>2
    <3>2. Occupied(regs', p) = regs'.V[p - 1]
      BY <2>2, <3>1 DEF Occupied
    <3> QED
      BY <1>5, <1>6, <3>1, <3>2
  <2>3. CASE p = Rounds + 2
    <3>1. p # 0 /\ p \notin 1 .. Rounds + 1
      BY <1>0, <2>3
    <3>2. Occupied(regs', p) = regs'.valid_out
      BY <2>3, <3>1 DEF Occupied
    <3> QED
      BY <1>5, <1>6, <3>1, <3>2
  <2> QED
    BY <1>0, <2>1, <2>2, <2>3
<1>8. BufferInv'
  <2>1. past'[0].idata = past[0].idata
    BY <1>0, <1>1
  <2> QED
    BY <1>6, <2>1 DEF BufferInv, IInv
<1> QED
  BY <1>3, <1>4, <1>6, <1>7, <1>8
     DEF IInv, CopiesAgree, HalvesInv, OutputIsCipher

\* Every step keeps the invariant.
LEMMA NextInv == IInv /\ [NextH]_vars => IInv'
<1> SUFFICES ASSUME IInv, [NextH]_vars PROVE IInv'
  OBVIOUS
<1>1. ASSUME NEW i \in Samples, ClockH(i) PROVE IInv'
  BY <1>1, SamplesAssumption, ClockInv
<1>2. CASE ResetH
  BY <1>2, ResetInv
<1>3. CASE UNCHANGED vars
  BY <1>3 DEF vars, IInv, TypeOK, PastOK, OneOutPerIn, CopiesAgree, BufferInv,
              HalvesInv, OutputIsCipher, KeysMet
<1> QED
  BY <1>1, <1>2, <1>3 DEF NextH

(***************************************************************************)
(* What leaves the pipeline is, in every execution, the network applied to  *)
(* the block that entered Rounds + 3 edges before, each round under the key *)
(* sampled when the block reached it.                                       *)
(***************************************************************************)
THEOREM PipelineComputesTheNetwork == SpecH => []OutputIsCipher
<1>1. IInv => OutputIsCipher
  BY DEF IInv
<1> QED
  BY <1>1, InitInv, NextInv, PTL DEF SpecH

(***************************************************************************)
(* Every valid output is one accepted input and the other way round.        *)
(***************************************************************************)
THEOREM PipelineLosesNothing == SpecH => []OneOutPerIn
<1>1. IInv => OneOutPerIn
  BY DEF IInv
<1> QED
  BY <1>1, InitInv, NextInv, PTL DEF SpecH
=============================================================================
