----------------------------- MODULE MCCipher ------------------------------
(***************************************************************************)
(* The cipher: one pipeline on a network small enough for TLC, with 4-bit  *)
(* blocks, two-bit halves, four rounds and a handful of port values; the   *)
(* testbenches of Des3PipelineTb; and the walks of DesWalks, on the blocks *)
(* and keys of main.c, lines 10-14, and on those all of whose bits are     *)
(* alike.  A behaviour is one of the three.                                *)
(***************************************************************************)
EXTENDS DesWalks, Des3PipelineTb, FeistelHistory

VARIABLE part  \* what this behaviour is

MCBlock == Word(4)
MCHalf == Word(2)
MCKey == {{0, 2}, {1}}

\* A permutation of the block that mixes the two halves, and its inverse.
MCSplit(b) == LET p == Wire(<<2, 0, 3, 1>>, b)
              IN  <<Slice(p, 3, 2), Slice(p, 1, 0)>>
MCJoin(lr) == Wire(<<1, 3, 0, 2>>, Append2(lr[1], lr[2], 2))

\* A round function that is not linear and not injective in the half.
MCF(r, k) == IF r \subseteq k THEN {1} ELSE Xor({0}, k \cap r)

\* Every round and each direction has a key of its own.
MCKS(key, d, j) ==
    LET n == IF d THEN 3 - j ELSE j
    IN  IF n % 2 = 0 THEN Slice(key, n \div 2 + 1, n \div 2)
                     ELSE Xor(Slice(key, 1, 0), {n \div 2})

In(b, key, d, v) == [idata |-> b, key_in |-> key, decrypt |-> d, valid_in |-> v]

MCSamples == {In({0, 3}, {0, 2}, FALSE, TRUE), In({1}, {1}, TRUE, TRUE),
              In({1}, {0, 2}, TRUE, FALSE)}

idata1 == Word64(\h0123, \h4567, \h89AB, \hCDEF)
idata2 == Word64(\h2345, \h6789, \hABCD, \hEF01)
key3 == Word64(\h4567, \h89AB, \hCDEF, \h0123)

MCBlocks == {idata1, idata2, {}}
MCKeys == {idata1, idata2, key3, 0 .. 63}

\* A part that does not run stays in one of its initial states.
MCInit ==
    /\ part \in {"pipeline", "testbench", "walk"}
    /\ TbInit /\ InitH
    /\ part # "pipeline" =>
          regs = PoweredUp({1}, {1}, FALSE, FALSE, FALSE, Split({}))
    /\ IF part = "walk" THEN DesInit ELSE at = [of |-> part]

MCNext ==
    /\ UNCHANGED part
    /\ \/ part = "pipeline" /\ NextH /\ UNCHANGED <<tb, at>>
       \/ part = "testbench" /\ TbNext /\ UNCHANGED <<vars, at>>
       \/ part = "walk" /\ DesNext /\ UNCHANGED <<vars, tb>>

MCSpec == MCInit /\ [][MCNext]_<<vars, tb, at, part>>
=============================================================================
