----------------------------- MODULE Des3Avalon -----------------------------
(***************************************************************************)
(* des3_avalon.v: the register file around the core.  A bus cycle is a      *)
(* clock edge with or without a write; reads are combinational.  The        *)
(* requests of the host are remembered in the history variable pending, so  *)
(* that the results can be compared with them.                              *)
(***************************************************************************)
EXTENDS Des3Refinement

CONSTANT WordBits      \* half the width of a block: 32 in the source

\* A data or key register is two words of the bus.
ASSUME WordsAssumption ==
    /\ WordBits \in Nat \ {0}
    /\ Block = Word(2 * WordBits) /\ Key = Word(2 * WordBits)

VARIABLES
    reg_idata, reg_key1, reg_key2, reg_key3, reg_decrypt, reg_valid_in,
    reg_odata, reg_valid_out,
    pending       \* history: for each request on its way the result it asked
                  \* for, as a set of one, or {} when a reset left it over

regfile == <<reg_idata, reg_key1, reg_key2, reg_key3, reg_decrypt,
             reg_valid_in, reg_odata, reg_valid_out>>

avalon == <<core, regfile, pending>>

Lo(x) == Slice(x, WordBits - 1, 0)
Hi(x) == Slice(x, 2 * WordBits - 1, WordBits)
WithLo(x, w) == Append2(Hi(x), w, WordBits)
WithHi(x, w) == Append2(w, Lo(x), WordBits)

\* The bus at an edge: avs_write with its address and data.
Bus == [avs_write : BOOLEAN, avs_address : 0 .. 15, avs_writedata : Word(WordBits)]
Write(a, w) == [avs_write |-> TRUE, avs_address |-> a, avs_writedata |-> w]
NoWrite == [avs_write |-> FALSE, avs_address |-> 0, avs_writedata |-> {}]

Writes(b, a) == b.avs_write /\ b.avs_address = a

\* A 64-bit register written through the word addresses a and a + 1.
Written(x, b, a) == IF Writes(b, a) THEN WithLo(x, b.avs_writedata)
                    ELSE IF Writes(b, a + 1) THEN WithHi(x, b.avs_writedata)
                    ELSE x

\* The read multiplexer.
avs_readdata(a) ==
    CASE a = 0 -> Lo(reg_idata) [] a = 1 -> Hi(reg_idata)
      [] a = 2 -> Lo(reg_key1) [] a = 3 -> Hi(reg_key1)
      [] a = 4 -> Lo(reg_key2) [] a = 5 -> Hi(reg_key2)
      [] a = 6 -> Lo(reg_key3) [] a = 7 -> Hi(reg_key3)
      [] a = 8 -> (IF reg_valid_in THEN {0} ELSE {}) \cup
                  (IF reg_decrypt THEN {1} ELSE {})
      [] a = 9 -> Lo(reg_odata) [] a = 10 -> Hi(reg_odata)
      [] a = 11 -> IF reg_valid_out THEN {0} ELSE {}
      [] OTHER -> {}

CorePorts == [idata |-> reg_idata, key1 |-> reg_key1, key2 |-> reg_key2,
              key3 |-> reg_key3, decrypt |-> reg_decrypt,
              valid_in |-> reg_valid_in]

RegfileInit ==
    /\ reg_idata = {} /\ reg_key1 = {} /\ reg_key2 = {} /\ reg_key3 = {}
    /\ reg_decrypt = FALSE /\ reg_valid_in = FALSE
    /\ reg_odata = {} /\ reg_valid_out = FALSE

\* The blocks a reset leaves in front of the instances, last instance first.
Leftovers == LET n == Cardinality({s \in {<<1, encrypt1>>, <<2, decrypt2>>,
                                          <<3, encrypt3>>} : s[2].V_buf})
             IN  [k \in 1 .. n |-> {}]

AvalonInit == CoreInit /\ RegfileInit /\ pending = Leftovers

\* The result that a write to the control register asks for, if it does.
Asked(b) ==
    IF Writes(b, 8) /\ 0 \in b.avs_writedata
    THEN <<{TripleCipher([CorePorts EXCEPT !.decrypt = 1 \in b.avs_writedata])}>>
    ELSE <<>>

\* What reg_valid_in holds after an edge; faulty, with no edge that clears it.
valid_in_Stays(b) == reg_valid_in \/ (Writes(b, 8) /\ 0 \in b.avs_writedata)
valid_in_Next(b) == Writes(b, 8) /\ 0 \in b.avs_writedata

\* A clock edge with the bus b.
BusCycle(b) ==
    /\ CoreClock(CorePorts)
    /\ IF valid_out THEN reg_odata' = odata /\ reg_valid_out' = TRUE
                    ELSE UNCHANGED <<reg_odata, reg_valid_out>>
    /\ reg_valid_in' = valid_in_Next(b)
    /\ reg_decrypt' = IF Writes(b, 8) THEN 1 \in b.avs_writedata ELSE reg_decrypt
    /\ reg_idata' = Written(reg_idata, b, 0)
    /\ reg_key1' = Written(reg_key1, b, 2)
    /\ reg_key2' = Written(reg_key2, b, 4)
    /\ reg_key3' = Written(reg_key3, b, 6)
    /\ pending' = (IF valid_out THEN Tail(pending) ELSE pending) \o Asked(b)

AvalonReset ==
    /\ CoreReset
    /\ reg_idata' = {} /\ reg_key1' = {} /\ reg_key2' = {} /\ reg_key3' = {}
    /\ reg_decrypt' = FALSE /\ reg_valid_in' = FALSE
    /\ reg_odata' = {} /\ reg_valid_out' = FALSE
    /\ pending' = Leftovers

-----------------------------------------------------------------------------
\* A block may still meet what the key registers hold after the next edge.
RekeyUnsafe ==
    \/ reg_valid_in
    \/ \E p \in 0 .. 2 * StageLen + Rounds - 2 : Holds(p)

\* The bus cycle leaves keys and direction alone while that is so.
Polite(b) ==
    RekeyUnsafe =>
        /\ \A r \in {<<reg_key1, 2>>, <<reg_key2, 4>>, <<reg_key3, 6>>} :
              Written(r[1], b, r[2]) = r[1]
        /\ Writes(b, 8) => (1 \in b.avs_writedata) = reg_decrypt

\* Any host that is polite.
PoliteNext == (\E b \in Bus : Polite(b) /\ BusCycle(b)) \/ AvalonReset

PoliteSpec == AvalonInit /\ [][PoliteNext]_avalon

AvalonTypeOK ==
    /\ CoreTypeOK
    /\ reg_idata \in Block /\ reg_odata \in Block
    /\ reg_key1 \in Key /\ reg_key2 \in Key /\ reg_key3 \in Key
    /\ reg_decrypt \in BOOLEAN /\ reg_valid_in \in BOOLEAN
    /\ reg_valid_out \in BOOLEAN

(***************************************************************************)
(* For a host that keeps the keys and the direction while a block may meet  *)
(* them, the results are latched in the order of the control writes, each   *)
(* the triple cipher of what idata and the keys held at its write: data may *)
(* be rewritten on the very next cycle (des3_avalon.v, lines 67-94).        *)
(***************************************************************************)
ResultsAnswerRequests ==
    valid_out => /\ pending # <<>>
                 /\ \A r \in Head(pending) : odata = r

(***************************************************************************)
(* One control write is one block: a pulse of one cycle, at the bus rate.   *)
(***************************************************************************)
OnePulsePerWrite ==
    Len(pending) = Cardinality({p \in CorePosition : Holds(p)})
                   + (IF reg_valid_in THEN 1 ELSE 0)
=============================================================================
