---------------------------- MODULE FeistelAlgo ----------------------------
(***************************************************************************)
(* feistel_algo.v: the registers of one DES pipeline and its clocked        *)
(* process.  Every rising clock edge shifts one stage; the asynchronous     *)
(* reset clears only the registers its branch names.                        *)
(***************************************************************************)
EXTENDS FeistelNetwork

CONSTANTS
    Block,           \* the values of idata and odata
    ZeroBlock,       \* 64'b0
    Half,            \* the values of L[i] and R[i]; 32'b0 is {}
    Key,             \* the values of key_in
    KS(_, _, _),     \* key_scheduler.v: (key, decrypt, ROUND) -> K_out
    Samples          \* the values the input ports take at a clock edge

ASSUME DataAssumption ==
    /\ ZeroBlock \in Block
    /\ {} \in Half
    /\ \A b \in Block : Split(b) \in Half \X Half
    /\ \A l, r \in Half : Join(<<l, r>>) \in Block
    /\ \A l, r \in Half, key \in Key, d \in BOOLEAN, k \in 0 .. Rounds - 1 :
          Xor(l, F(r, KS(key, d, k))) \in Half

Input == [idata : Block, key_in : Key, decrypt : BOOLEAN, valid_in : BOOLEAN]

ASSUME SamplesAssumption == Samples \subseteq Input

VARIABLE regs        \* the registers, one field for each

Stage == 0 .. Rounds

Regs == [key_in1 : Key, key_in2 : Key,
         decrypt1 : BOOLEAN, decrypt2 : BOOLEAN,
         V_buf : BOOLEAN, L_buf : Half, R_buf : Half,
         L : [Stage -> Half], R : [Stage -> Half], V : [Stage -> BOOLEAN],
         odata : Block, valid_out : BOOLEAN]

\* K[k]: the first half of the rounds reads key_in1, the other key_in2.
K(s, k) == IF k < Rounds \div 2 THEN KS(s.key_in1, s.decrypt1, k)
                                ELSE KS(s.key_in2, s.decrypt2, k)

\* The registers after a clock edge that samples the ports i.
Clocked(s, i) ==
    [key_in1 |-> i.key_in, key_in2 |-> i.key_in,
     decrypt1 |-> i.decrypt, decrypt2 |-> i.decrypt,
     V_buf |-> i.valid_in,
     L_buf |-> Split(i.idata)[1], R_buf |-> Split(i.idata)[2],
     L |-> [k \in Stage |-> IF k = 0 THEN s.L_buf ELSE s.R[k-1]],
     R |-> [k \in Stage |-> IF k = 0 THEN s.R_buf
                            ELSE Xor(s.L[k-1], F(s.R[k-1], K(s, k-1)))],
     V |-> [k \in Stage |-> IF k = 0 THEN s.V_buf ELSE s.V[k-1]],
     odata |-> Join(<<s.R[Rounds], s.L[Rounds]>>),
     valid_out |-> s.V[Rounds]]

\* The registers after the reset branch, which leaves V_buf, L_buf, R_buf,
\* the registered keys and directions as they are.
Cleared(s) ==
    [s EXCEPT !.V = [k \in Stage |-> FALSE],
              !.L = [k \in Stage |-> {}], !.R = [k \in Stage |-> {}],
              !.odata = ZeroBlock, !.valid_out = FALSE]

\* Power-up ends with a reset; what it does not clear holds any value.
PoweredUp(k1, k2, d1, d2, v, lr) ==
    [key_in1 |-> k1, key_in2 |-> k2, decrypt1 |-> d1, decrypt2 |-> d2,
     V_buf |-> v, L_buf |-> lr[1], R_buf |-> lr[2],
     L |-> [k \in Stage |-> {}], R |-> [k \in Stage |-> {}],
     V |-> [k \in Stage |-> FALSE],
     odata |-> ZeroBlock, valid_out |-> FALSE]

Init == \E k1, k2 \in Key, d1, d2, v \in BOOLEAN, b \in Block :
            regs = PoweredUp(k1, k2, d1, d2, v, Split(b))

\* Faulty: the permuted block is not cut; valid_out leaves one stage early;
\* the last halves are not crossed.
Clock_Uncut(i) == regs' = [Clocked(regs, i) EXCEPT !.L_buf = i.idata]
Clock_EarlyValid(i) ==
    regs' = [Clocked(regs, i) EXCEPT !.valid_out = regs.V[Rounds - 1]]
Clock_Uncrossed(i) ==
    regs' = [Clocked(regs, i) EXCEPT !.odata = Join(<<regs.L[Rounds], regs.R[Rounds]>>)]

Clock(i) == regs' = Clocked(regs, i)

\* Faulty: the reset branch forgets V[0].
Reset_KeepsV0 == regs' = [Cleared(regs) EXCEPT !.V[0] = regs.V[0]]

Reset == regs' = Cleared(regs)

Next == (\E i \in Samples : Clock(i)) \/ Reset

Spec == Init /\ [][Next]_regs

\* The positions a block occupies: 0 is V_buf, k + 1 is V[k], the last odata.
Position == 0 .. Rounds + 2

Occupied(s, p) == CASE p = 0 -> s.V_buf
                    [] p \in 1 .. Rounds + 1 -> s.V[p - 1]
                    [] p = Rounds + 2 -> s.valid_out

\* Every register holds a value of its width.
TypeOK == regs \in Regs
=============================================================================
