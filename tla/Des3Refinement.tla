-------------------------- MODULE Des3Refinement --------------------------
(***************************************************************************)
(* des3.v as one delay line three times as long, for a user that holds the  *)
(* keys and the direction while a block may still meet them.                *)
(***************************************************************************)
EXTENDS Des3

One == INSTANCE FeistelRefinement WITH
          regs <- encrypt1, Samples <- {Ports1(i) : i \in Ports}

\* A block still has a round to run before the last stages of encrypt3.
KeysInUse == \E p \in 0 .. 2 * StageLen + Rounds - 1 : Holds(p)

Held(i) ==
    KeysInUse =>
        /\ stage1_key(i) = encrypt1.key_in1 /\ i.decrypt = encrypt1.decrypt1
        /\ i.key2 = decrypt2.key_in1 /\ stage3_key(i) = encrypt3.key_in1
        /\ i.decrypt = ~decrypt2.decrypt1 /\ i.decrypt = encrypt3.decrypt1

NextHeld == (\E i \in Ports : Held(i) /\ CoreClock(i)) \/ CoreReset

\* The three direction registers start with the one port they sample.
InitHeld == /\ CoreInit
            /\ encrypt1.decrypt1 = encrypt3.decrypt1
            /\ encrypt1.decrypt1 # decrypt2.decrypt1

SpecHeld == InitHeld /\ [][NextHeld]_core

-----------------------------------------------------------------------------
\* The blocks in bs after a whole pass through one instance.
Through(s, bs) == {Crypt(b, One!Schedule(s.key_in1, s.decrypt1)) : b \in bs}

\* The blocks at position p, none or one, as they will leave the core.
Outcomes(p) ==
    LET here == One!InFlight(At(p))[p % StageLen]
    IN  CASE p \div StageLen = 0 -> Through(encrypt3, Through(decrypt2, here))
          [] p \div StageLen = 1 -> Through(encrypt3, here)
          [] p \div StageLen = 2 -> here

Requests == {i \in Ports : i.valid_in}

\* Triple DES: encrypt, decrypt, encrypt, or the reverse.
TripleCipher(i) ==
    LET Encrypt(b, key) == Crypt(b, One!Schedule(key, FALSE))
        Decrypt(b, key) == Crypt(b, One!Schedule(key, TRUE))
    IN  IF i.decrypt
        THEN Decrypt(Encrypt(Decrypt(i.idata, i.key3), i.key2), i.key1)
        ELSE Encrypt(Decrypt(Encrypt(i.idata, i.key1), i.key2), i.key3)

Pipe == INSTANCE CipherPipe WITH
            Latency <- 3 * StageLen, Survivors <- {0, StageLen, 2 * StageLen},
            Request <- Requests, Result <- Block, Cipher <- TripleCipher,
            line <- [p \in CorePosition |-> Outcomes(p)]

(***************************************************************************)
(* Under held keys the core is a delay line of 3 * (Rounds + 3) places that *)
(* computes triple DES, and a reset leaves the blocks that wait in front of *)
(* the three instances (des3.v, lines 21-52).                               *)
(***************************************************************************)
ImplementsPipe == Pipe!Spec

(***************************************************************************)
(* So is the first instance alone, with Rounds + 3 places (feistel_algo.v,  *)
(* lines 65-125).                                                           *)
(***************************************************************************)
FirstImplementsPipe == One!ImplementsPipe
=============================================================================
