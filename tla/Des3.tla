-------------------------------- MODULE Des3 --------------------------------
(***************************************************************************)
(* des3.v: three feistel_algo in series, the middle one in the opposite     *)
(* direction, the outer keys exchanged for decryption.                      *)
(***************************************************************************)
EXTENDS FeistelNetwork

CONSTANTS
    Block, ZeroBlock, Half, Key, KS(_, _, _),   \* as in FeistelAlgo
    Ports                                       \* values of the input ports

PortType == [idata : Block, key1 : Key, key2 : Key, key3 : Key,
             decrypt : BOOLEAN, valid_in : BOOLEAN]

ASSUME PortsAssumption == Ports \subseteq PortType

\* The widths, as FeistelAlgo assumes them.
ASSUME WidthAssumption ==
    /\ ZeroBlock \in Block /\ {} \in Half
    /\ \A b \in Block : Split(b) \in Half \X Half
    /\ \A l, r \in Half : Join(<<l, r>>) \in Block
    /\ \A l, r \in Half, key \in Key, d \in BOOLEAN, k \in 0 .. Rounds - 1 :
          Xor(l, F(r, KS(key, d, k))) \in Half

VARIABLES encrypt1, decrypt2, encrypt3     \* the registers of the instances

core == <<encrypt1, decrypt2, encrypt3>>

E1 == INSTANCE FeistelAlgo WITH regs <- encrypt1, Samples <- {}
D2 == INSTANCE FeistelAlgo WITH regs <- decrypt2, Samples <- {}
E3 == INSTANCE FeistelAlgo WITH regs <- encrypt3, Samples <- {}

\* Faulty: the keys of the outer instances are not exchanged for decryption.
stage3_key_Fixed(i) == i.key3

stage1_key(i) == IF i.decrypt THEN i.key3 ELSE i.key1
stage3_key(i) == IF i.decrypt THEN i.key1 ELSE i.key3

odata == encrypt3.odata
valid_out == encrypt3.valid_out

CoreInit == E1!Init /\ D2!Init /\ E3!Init

\* The ports of the three instances at a clock edge.
Ports1(i) == [idata |-> i.idata, key_in |-> stage1_key(i),
              decrypt |-> i.decrypt, valid_in |-> i.valid_in]
Ports2(i) == [idata |-> encrypt1.odata, key_in |-> i.key2,
              decrypt |-> ~i.decrypt, valid_in |-> encrypt1.valid_out]
Ports3(i) == [idata |-> decrypt2.odata, key_in |-> stage3_key(i),
              decrypt |-> i.decrypt, valid_in |-> decrypt2.valid_out]

\* Faulty: encrypt3 takes its valid_in from encrypt1; it is left unconnected.
CoreClock_Tapped(i) ==
    /\ E1!Clock(Ports1(i)) /\ D2!Clock(Ports2(i))
    /\ E3!Clock([Ports3(i) EXCEPT !.valid_in = encrypt1.valid_out])
CoreClock_Cut(i) ==
    /\ E1!Clock(Ports1(i)) /\ D2!Clock(Ports2(i))
    /\ E3!Clock([Ports3(i) EXCEPT !.valid_in = FALSE])

CoreClock(i) == E1!Clock(Ports1(i)) /\ D2!Clock(Ports2(i)) /\ E3!Clock(Ports3(i))

CoreReset == E1!Reset /\ D2!Reset /\ E3!Reset

CoreNext == (\E i \in Ports : CoreClock(i)) \/ CoreReset

CoreSpec == CoreInit /\ [][CoreNext]_core

CoreTypeOK == E1!TypeOK /\ D2!TypeOK /\ E3!TypeOK

-----------------------------------------------------------------------------
\* The positions of the whole core: StageLen of them for each instance.
StageLen == Rounds + 3
CorePosition == 0 .. 3 * StageLen - 1

\* The instance a position is in and its position there.
At(p) == CASE p \div StageLen = 0 -> encrypt1
           [] p \div StageLen = 1 -> decrypt2
           [] p \div StageLen = 2 -> encrypt3

Holds(p) == E1!Occupied(At(p), p % StageLen)
=============================================================================
