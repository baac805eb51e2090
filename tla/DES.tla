-------------------------------- MODULE DES --------------------------------
(***************************************************************************)
(* The combinational modules of the DES core on real vectors: IP.v,         *)
(* IP_inv.v, E.v, S.v, P.v, f.v and key_scheduler.v.                        *)
(***************************************************************************)
EXTENDS BitVectors, DesTables

\* feistel_algo.v: idata through IP, cut into {L, R}; {R16, L16} through IP_inv.
IP(in) == LET out == Wire(IPTable, in) IN <<Slice(out, 63, 32), Slice(out, 31, 0)>>
\* Faulty: the two halves are concatenated in the other order.
IP_inv_Swapped(lr) == Wire(IPInvTable, Append2(lr[2], lr[1], 32))

IP_inv(lr) == Wire(IPInvTable, Append2(lr[1], lr[2], 32))

SBoxes == <<S1, S2, S3, S4, S5, S6, S7, S8>>

\* Faulty: the lines of two inputs of S3 exchanged.
SBox_Exchanged(n, in) ==
    LET at == IF n = 3 /\ in \in {{1}, {2}} THEN {1, 2} \ in ELSE in
    IN  Vector(SBoxes[n][Number(at) + 1], 4)

\* The output of S-box n = 1 .. 8 for a 6-bit vector.
SBox(n, in) == Vector(SBoxes[n][Number(in) + 1], 4)

\* Faulty: the boxes in the opposite order.
S_Backwards(in) ==
    UNION {{i + 4 * (n - 1) : i \in SBox(n, Slice(in, 6*n - 1, 6*n - 6))} : n \in 1 .. 8}

\* S.v: S1 reads in[47:42] and drives out[31:28], and so on down.
S(in) == UNION {{i + 4 * (8 - n) : i \in SBox(n, Slice(in, 53 - 6*n, 48 - 6*n))} :
                   n \in 1 .. 8}

\* Faulty: one wire comes from the bit beside its own.
E_Typo(in) == Wire([ETable EXCEPT ![2] = 1], in)

\* E.v: the expansion of a half to the width of a round key.
E(in) == Wire(ETable, in)

\* Faulty: the round key is or-ed.
f_Or(R, K) == Wire(PTable, S(E(R) \cup K))

\* f.v: expansion, key addition, S-boxes and permutation.
f(R, K) == Wire(PTable, S(Xor(E(R), K)))

\* E_xor.v, an unused module: the expansion and the key addition in one.
E_xor(in, K) == {j \in 0 .. 47 : (EXorTable[j + 1] \in in) # (j \in K)}

\* key_scheduler.v: one of the rotations Cn_enc, Dn_enc, Cn_dec, Dn_dec.
Rotated(x, shift) == ShiftLeft(x, shift, 28) \cup ShiftRight(x, 28 - shift)

\* key_scheduler.v: K_out of the instance for ROUND = round.
key_scheduler(key_in, decrypt, round) ==
    LET shift == IF decrypt THEN ShiftDec[round + 1] ELSE ShiftEnc[round + 1]
        C == Rotated(Concat(C0List, key_in), shift)
        D == Rotated(Concat(D0List, key_in), shift)
    IN  Concat(KOutList, Append2(C, D, 28))

\* PC1.v and PC2.v, unused modules: the same permutations, wire by wire.
PC1(in) == Wire(PC1Table, in)
PC2(in) == Wire(PC2Table, in)
=============================================================================
