--------------------------- MODULE FeistelNetwork ---------------------------
(***************************************************************************)
(* What one pass of feistel_algo.v computes, without its clock: a Feistel   *)
(* network of Rounds rounds around the round function F, between the        *)
(* initial permutation Split and its inverse Join.                          *)
(***************************************************************************)
EXTENDS BitVectors

CONSTANTS
    Rounds,      \* the number of rounds, 16 in the source
    Split(_),    \* a block -> <<left, right>>: IP, then its two halves
    Join(_),     \* <<left, right>> -> a block: IP_inv of {left, right}
    F(_, _)      \* the round function f.v of a half and a round key

ASSUME RoundsAssumption == Rounds \in Nat \ {0}

\* One round: the halves cross and the left one is masked.
Round(lr, k) == <<lr[2], Xor(lr[1], F(lr[2], k))>>

\* The halves after n rounds, for every n from m to Rounds, when those after
\* m rounds are lr and the round keys are rk[0], ..., rk[Rounds - 1].
Halves(m, lr, rk) ==
    LET h[n \in m .. Rounds] == IF n = m THEN lr ELSE Round(h[n-1], rk[n-1])
    IN  h

\* The block that leaves the network when its halves after m rounds are lr:
\* the last halves are joined crossed.
Finish(m, lr, rk) ==
    LET last == Halves(m, lr, rk)[Rounds] IN Join(<<last[2], last[1]>>)

\* The whole network.
Crypt(b, rk) == Finish(0, Split(b), rk)
=============================================================================
