------------------------- MODULE FeistelRefinement -------------------------
(***************************************************************************)
(* feistel_algo.v as a delay line.  A block does not carry its key, so the  *)
(* pipeline is one only for a user that holds key_in and decrypt from the   *)
(* edge that samples a block through the Rounds edges after it.             *)
(***************************************************************************)
EXTENDS FeistelAlgo

Schedule(key, d) == [j \in 0 .. Rounds - 1 |-> KS(key, d, j)]

\* A block before its last round is in V_buf or V[0], ..., V[Rounds - 2].
KeyInUse == \E p \in 0 .. Rounds - 1 : Occupied(regs, p)

Held(i) ==
    KeyInUse => i.key_in = regs.key_in1 /\ i.decrypt = regs.decrypt1

NextHeld == (\E i \in Samples : Held(i) /\ Clock(i)) \/ Reset

SpecHeld == Init /\ [][NextHeld]_regs

-----------------------------------------------------------------------------
\* What the block at position p will be once it has left, under a held key.
Outcome(s, p) ==
    LET rk == Schedule(s.key_in1, s.decrypt1)
    IN  CASE p = 0 -> Finish(0, <<s.L_buf, s.R_buf>>, rk)
          [] p \in 1 .. Rounds + 1 -> Finish(p - 1, <<s.L[p-1], s.R[p-1]>>, rk)
          [] p = Rounds + 2 -> s.odata

InFlight(s) ==
    [p \in Position |-> IF Occupied(s, p) THEN {Outcome(s, p)} ELSE {}]

Requests == {i \in Samples : i.valid_in}

Encipher(r) == Crypt(r.idata, Schedule(r.key_in, r.decrypt))

Pipe == INSTANCE CipherPipe WITH
            Latency <- Rounds + 3, Survivors <- {0}, Request <- Requests,
            Result <- Block, Cipher <- Encipher, line <- InFlight(regs)

(***************************************************************************)
(* Under held keys the pipeline is a delay line of Rounds + 3 places whose  *)
(* reset keeps the first one (feistel_algo.v, lines 65-124).                *)
(***************************************************************************)
ImplementsPipe == Pipe!Spec
=============================================================================
