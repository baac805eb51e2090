--------------------------- MODULE FeistelHistory ---------------------------
(***************************************************************************)
(* feistel_algo.v with a history variable: past[p] is what the ports held   *)
(* p clock edges ago, made a bubble when a reset has wiped it out of the    *)
(* pipeline since.  The history states what a block that leaves the         *)
(* pipeline is: which input, and under which of the keys sampled on its way.*)
(***************************************************************************)
EXTENDS FeistelAlgo

VARIABLE past

vars == <<regs, past>>

InitH ==
    /\ Init
    /\ \E b \in Block :
          /\ Split(b) = <<regs.L_buf, regs.R_buf>>
          /\ past = [p \in Position |->
                [idata |-> b, key_in |-> regs.key_in1, decrypt |-> regs.decrypt1,
                 valid_in |-> p = 0 /\ regs.V_buf]]

ClockH(i) ==
    /\ Clock(i)
    /\ past' = [p \in Position |-> IF p = 0 THEN i ELSE past[p - 1]]

\* What a reset leaves in the pipeline is the block in V_buf, L_buf, R_buf.
ResetH ==
    /\ Reset
    /\ past' = [p \in Position |->
                   [past[p] EXCEPT !.valid_in = (p = 0 /\ @)]]

NextH == (\E i \in Samples : ClockH(i)) \/ ResetH

SpecH == InitH /\ [][NextH]_vars

-----------------------------------------------------------------------------
\* The round keys met by the block at position p on its way there: round j
\* ran p - 1 - j edges ago, on the key sampled one edge before.
KeysMet(p) ==
    [j \in 0 .. Rounds - 1 |->
        IF j <= p - 2
        THEN KS(past[p - 1 - j].key_in, past[p - 1 - j].decrypt, j)
        ELSE KS(past[0].key_in, past[0].decrypt, j)]

(***************************************************************************)
(* A block leaves the pipeline exactly Rounds + 3 edges after the edge that *)
(* sampled it, in the order of entry, and none is lost, invented or doubled *)
(* between two resets.                                                      *)
(***************************************************************************)
OneOutPerIn == \A p \in Position : Occupied(regs, p) = past[p].valid_in

(***************************************************************************)
(* What leaves is the input run through the network, where round j used the *)
(* key and direction sampled j + 1 edges after the block itself: the block  *)
(* does not carry its key along (feistel_algo.v, lines 30-45 and 90-93).    *)
(***************************************************************************)
OutputIsCipher ==
    regs.valid_out =>
        regs.odata = Crypt(past[Rounds + 2].idata, KeysMet(Rounds + 2))

(***************************************************************************)
(* The two copies of the key and of the direction agree as soon as a block  *)
(* can meet them, so that the two halves of the rounds work under one key.  *)
(***************************************************************************)
CopiesAgree ==
    (\E k \in Stage : regs.V[k]) =>
        /\ regs.key_in1 = regs.key_in2 /\ regs.key_in1 = past[0].key_in
        /\ regs.decrypt1 = regs.decrypt2 /\ regs.decrypt1 = past[0].decrypt

\* Every intermediate pair of halves is that of its input after k rounds.
HalvesInv ==
    \A k \in Stage : regs.V[k] =>
        <<regs.L[k], regs.R[k]>> =
            Halves(0, Split(past[k + 1].idata), KeysMet(k + 1))[k]

\* The pair waiting in front of the rounds is the permuted input.
BufferInv ==
    regs.V_buf => <<regs.L_buf, regs.R_buf>> = Split(past[0].idata)

PastOK == past \in [Position -> Input]

\* The inductive invariant.
IInv ==
    /\ TypeOK /\ PastOK /\ OneOutPerIn /\ CopiesAgree
    /\ BufferInv /\ HalvesInv /\ OutputIsCipher
=============================================================================
