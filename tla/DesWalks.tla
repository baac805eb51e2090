------------------------------ MODULE DesWalks ------------------------------
(***************************************************************************)
(* The tables of the cipher, walked: the S-boxes over the cube of their    *)
(* inputs, the wirings bit by bit through the sixteen rounds, and blocks   *)
(* round by round through an encryption and back.                          *)
(***************************************************************************)
EXTENDS DES, Walks

CONSTANTS Blocks, Keys      \* the blocks and keys tried

-----------------------------------------------------------------------------
(* S1.v ... S8.v: a step flips one of the six input bits.                   *)

SBoxInit == at \in [of : {"sbox"}, box : 1 .. 8, in : {{}}]

Flip(i) == On("sbox") /\ at' = [at EXCEPT !.in = Xor(@, {i})]

out == SBox(at.box, at.in)

\* The inputs whose outer bits, 5 and 0, are those of x: a row of the table.
Row(x) == {(x \cap {0, 5}) \cup m : m \in SUBSET (1 .. 4)}

\* The inputs that differ from x in the bits d.
Beside(x, D) == {Xor(x, d) : d \in D}

OneBit == {{i} : i \in 0 .. 5}

(***************************************************************************)
(* The design criteria of the DES S-boxes, which a mistyped entry of S1.v   *)
(* ... S8.v breaks: each row is a permutation of the sixteen outputs; a     *)
(* change of one input bit, or of the two middle ones together, changes two *)
(* output bits at least; and one of the two first bits and of either of the *)
(* two last never leaves the output as it was.                              *)
(***************************************************************************)
SBoxCriteria ==
    On("sbox") =>
        /\ {SBox(at.box, x) : x \in Row(at.in)} = Word(4)
        /\ \A x \in Beside(at.in, OneBit \cup {{2, 3}}) :
              Cardinality(Xor(out, SBox(at.box, x))) >= 2
        /\ \A x \in Beside(at.in, {{4, 5} \cup m : m \in SUBSET {2, 3}}) :
              out # SBox(at.box, x)

-----------------------------------------------------------------------------
(* A key with one bit that is 1 goes through the sixteen instances of       *)
(* key_scheduler.v, and the block with the same bit through IP.v, IP_inv.v, *)
(* E.v and P.v.  A wiring moves each bit by itself, so what holds for the   *)
(* 64 bits holds for all keys and blocks.                                   *)

BitInit == at \in [of : {"bit"}, bit : 0 .. 63, decrypt : BOOLEAN, round : {0}]

K_out == key_scheduler({at.bit}, at.decrypt, at.round)

NextRound == On("bit") /\ at.round < 16 /\ at' = [at EXCEPT !.round = @ + 1]

InRound == On("bit") /\ at.round < 16

\* The instance for ROUND of the decryption makes the round key of the instance
\* for 15 - ROUND of the encryption, from a table of its own.
DecryptReverses ==
    InRound => K_out = key_scheduler({at.bit}, ~at.decrypt, 15 - at.round)

\* PC-1 and PC-2 of PC1.v and PC2.v, with the rotation between them, give the
\* round key too.
AgreesWithPC ==
    InRound =>
        LET cd == PC1({at.bit})
            shift == (IF at.decrypt THEN ShiftDec ELSE ShiftEnc)[at.round + 1]
        IN  K_out = PC2(Append2(Rotated(Slice(cd, 55, 28), shift),
                                Rotated(Slice(cd, 27, 0), shift), 28))

\* IP_inv.v undoes IP.v, and IP.v undoes IP_inv.v, with the halves cut and
\* joined as feistel_algo.v does.
IPInverts ==
    On("bit") => /\ IP_inv(IP({at.bit})) = {at.bit}
                 /\ IP(IP_inv(IP({at.bit}))) = IP({at.bit})

\* The S-box, 0 .. 7 from the top, that reads bit j of its 48 input bits.
BoxOf(j) == (47 - j) \div 6

\* The boxes that bit j of the output of S.v reaches in the next round, through
\* P.v and E.v.
Reaches(j) == {BoxOf(i) : i \in E(Wire(PTable, {j}))}

\* P.v and E.v spread each S-box over the next round: its four output bits
\* reach six boxes and never itself, two of them reaching two boxes each.
BoxesSpread ==
    On("bit") /\ at.bit < 32 =>
        LET box == 4 * (at.bit \div 4) .. 4 * (at.bit \div 4) + 3
        IN  /\ Cardinality(UNION {Reaches(j) : j \in box}) = 6
            /\ \A j \in box : 7 - at.bit \div 4 \notin Reaches(j)
            /\ Cardinality({j \in box : Cardinality(Reaches(j)) = 2}) = 2

\* E_xor.v adds the round key to what E.v makes of the half.
ExpansionsAgree ==
    On("bit") =>
        LET half == {at.bit} \cap (0 .. 31)
            key == {at.bit} \cap (0 .. 47)
        IN  E_xor(half, key) = Xor(E(half), key)

(***************************************************************************)
(* The wirings, typed bit by bit, agree with one another: SHIFT_DEC with    *)
(* SHIFT_ENC (key_scheduler.v, lines 11-27), PC-1 and PC-2 with PC1.v and   *)
(* PC2.v, IP_inv.v with IP.v (feistel_algo.v, lines 27-28), E.v, which f.v  *)
(* expands a half with, with E_xor.v, and the spread of P.v and E.v with    *)
(* the layout of the boxes in S.v.                                          *)
(***************************************************************************)
WiringsAgree ==
    DecryptReverses /\ AgreesWithPC /\ IPInverts /\ ExpansionsAgree /\ BoxesSpread

-----------------------------------------------------------------------------
(* The real round function and key schedule: a block is enciphered and what *)
(* comes out deciphered again, with the complement of the block under the   *)
(* complement of the key in lockstep.  `trail' has the halves of the        *)
(* encryption so far.                                                       *)

Net == INSTANCE FeistelNetwork WITH Rounds <- 16, Split <- IP, Join <- IP_inv,
                                    F <- f

RoundsInit ==
    \E b \in Blocks, k \in Keys :
        at = [of |-> "rounds", key |-> k, decrypt |-> FALSE, round |-> 0,
              lr |-> IP(b), lrNot |-> IP(Not(b, 64)), trail |-> <<IP(b)>>]

OneRound ==
    /\ On("rounds") /\ at.round < 16
    /\ LET lr == Net!Round(at.lr, key_scheduler(at.key, at.decrypt, at.round))
       IN  at' = [at EXCEPT
             !.round = @ + 1, !.lr = lr,
             !.lrNot = Net!Round(@, key_scheduler(Not(at.key, 64), at.decrypt, at.round)),
             !.trail = IF at.decrypt THEN @ ELSE Append(@, lr)]

\* The last halves leave crossed, through IP_inv, and come back through IP.
Turned(lr) == IP(IP_inv(<<lr[2], lr[1]>>))
Turn ==
    /\ On("rounds") /\ at.round = 16 /\ ~at.decrypt
    /\ at' = [at EXCEPT !.decrypt = TRUE, !.round = 0,
                        !.lr = Turned(@), !.lrNot = Turned(@)]

(***************************************************************************)
(* The decryption goes back through the halves of the encryption, crossed,  *)
(* round by round, to the block it began with (feistel_algo.v, lines 98-123,*)
(* with decrypt low and then high).                                         *)
(***************************************************************************)
Retraces ==
    On("rounds") /\ at.decrypt =>
        at.lr = <<at.trail[17 - at.round][2], at.trail[17 - at.round][1]>>

(***************************************************************************)
(* The complement of a block under the complement of its key has the        *)
(* complemented halves after every round: the round key enters f.v only     *)
(* added to the expanded half, whichever bits of it meet.                   *)
(***************************************************************************)
ComplementFollows ==
    On("rounds") => at.lrNot = <<Not(at.lr[1], 32), Not(at.lr[2], 32)>>

-----------------------------------------------------------------------------
DesInit == SBoxInit \/ BitInit \/ RoundsInit

DesNext == (\E i \in 0 .. 5 : Flip(i)) \/ NextRound \/ OneRound \/ Turn

DesSpec == DesInit /\ [][DesNext]_at
=============================================================================
