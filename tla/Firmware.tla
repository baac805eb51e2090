------------------------------ MODULE Firmware ------------------------------
(***************************************************************************)
(* main.c on the Nios II, driving des3_avalon.v: eight register writes and  *)
(* a start for the first block, two and a start for the second, one poll of *)
(* the status, and the two reads and the printf when it is not 0.  Between  *)
(* two accesses any number of bus cycles may pass.                          *)
(***************************************************************************)
EXTENDS Des3Avalon

CONSTANTS
    idata1, idata2, key1, key2, key3,   \* the constants of main
    MaxResets                           \* bound on the resets of either kind

ASSUME ProgramAssumption ==
    /\ {idata1, idata2, key1, key2, key3} \subseteq SUBSET (0 .. 2 * WordBits - 1)
    /\ MaxResets \in Nat

VARIABLES
    pc,          \* the next access of the loop
    result,      \* the local odata of main
    resets,      \* resets so far
    answered,    \* history: a result that was asked for has been latched
    fresh        \* history: one had been when the low word was read

cpu == <<pc, result, fresh>>
fvars == <<avalon, cpu, resets, answered>>

\* Faulty: the start of the first block precedes the high word of key3.
Program_LateKey ==
    <<Write(0, Lo(idata1)), Write(1, Hi(idata1)),
      Write(2, Lo(key1)), Write(3, Hi(key1)),
      Write(4, Lo(key2)), Write(5, Hi(key2)),
      Write(6, Lo(key3)), Write(8, {0}), Write(7, Hi(key3)),
      Write(0, Lo(idata2)), Write(1, Hi(idata2)), Write(8, {0})>>

\* The writes of the loop body, in program order.
Program ==
    <<Write(0, Lo(idata1)), Write(1, Hi(idata1)),
      Write(2, Lo(key1)), Write(3, Hi(key1)),
      Write(4, Lo(key2)), Write(5, Hi(key2)),
      Write(6, Lo(key3)), Write(7, Hi(key3)), Write(8, {0}),
      Write(0, Lo(idata2)), Write(1, Hi(idata2)), Write(8, {0})>>

Poll == Len(Program) + 1
ReadLo == Poll + 1
ReadHi == Poll + 2
Display == Poll + 3

\* (uint64_t) of the int that IORD returns: its sign bit fills the high word.
Widened(w) ==
    w \cup (IF WordBits - 1 \in w THEN WordBits .. 2 * WordBits - 1 ELSE {})

FInit == /\ AvalonInit /\ pc = 1 /\ result = {} /\ resets = 0
         /\ answered = FALSE /\ fresh = FALSE

\* The edge latches a result that was asked for, and not a leftover of a reset.
Answering == valid_out /\ Head(pending) # {}

Cycle(b) ==
    /\ BusCycle(b)
    /\ answered' = (answered \/ Answering)
    /\ UNCHANGED resets

CpuWrite == /\ pc \in DOMAIN Program
            /\ Cycle(Program[pc]) /\ pc' = pc + 1 /\ UNCHANGED <<result, fresh>>

\* Faulty: the if of main is the wrong way round.
CpuPoll_Inverted == /\ pc = Poll
                    /\ Cycle(NoWrite)
                    /\ pc' = IF avs_readdata(11) = {} THEN ReadLo ELSE 1
                    /\ UNCHANGED <<result, fresh>>

\* valid_out = IORD(11), and the if that follows.
CpuPoll == /\ pc = Poll
           /\ Cycle(NoWrite)
           /\ pc' = IF avs_readdata(11) # {} THEN ReadLo ELSE 1
           /\ UNCHANGED <<result, fresh>>

\* Faulty: the low word is read from the address of the high one; the high
\* word is shifted by 64.
CpuReadLo_Address == /\ pc = ReadLo
                     /\ Cycle(NoWrite) /\ pc' = ReadHi
                     /\ result' = Widened(avs_readdata(10)) /\ fresh' = answered
CpuReadHi_Shift ==
    /\ pc = ReadHi
    /\ Cycle(NoWrite) /\ pc' = Display
    /\ result' = result \cup {i + 2 * WordBits : i \in avs_readdata(10)}
    /\ UNCHANGED fresh

CpuReadLo == /\ pc = ReadLo
             /\ Cycle(NoWrite) /\ pc' = ReadHi
             /\ result' = Widened(avs_readdata(9)) /\ fresh' = answered

\* odata |= ... << 32
CpuReadHi == /\ pc = ReadHi
             /\ Cycle(NoWrite) /\ pc' = Display
             /\ result' = result \cup {i + WordBits : i \in avs_readdata(10)}
             /\ UNCHANGED fresh

CpuPrint == /\ pc = Display
            /\ Cycle(NoWrite) /\ pc' = 1 /\ UNCHANGED <<result, fresh>>

CpuBusy == Cycle(NoWrite) /\ UNCHANGED cpu

\* The debug module resets the CPU alone; the button resets everything, and is
\* held for longer than the two reset controllers take.
CpuReset == /\ resets < MaxResets /\ resets' = resets + 1
            /\ BusCycle(NoWrite)
            /\ answered' = (answered \/ Answering)
            /\ pc' = 1 /\ result' = {} /\ fresh' = FALSE

SystemReset == /\ resets < MaxResets /\ resets' = resets + 1
               /\ AvalonReset /\ answered' = FALSE
               /\ pc' = 1 /\ result' = {} /\ fresh' = FALSE

CpuStep == CpuWrite \/ CpuPoll \/ CpuReadLo \/ CpuReadHi \/ CpuPrint

FNext == CpuStep \/ CpuBusy \/ CpuReset \/ SystemReset

\* The clock runs and the CPU executes on: no access waits forever.  CpuStep
\* is always enabled and always moves pc.
FFairness == WF_pc(pc' \in 1 .. Display)

FSpec == FInit /\ [][FNext]_fvars /\ FFairness
-----------------------------------------------------------------------------
Answer(d) == TripleCipher([idata |-> d, key1 |-> key1, key2 |-> key2,
                           key3 |-> key3, decrypt |-> FALSE, valid_in |-> TRUE])

Answers == {Answer(idata1), Answer(idata2)}

FTypeOK == /\ AvalonTypeOK
           /\ pc \in 1 .. Display /\ result \in Word(2 * WordBits)
           /\ resets \in 0 .. MaxResets
           /\ answered \in BOOLEAN /\ fresh \in BOOLEAN

(***************************************************************************)
(* What is printed, once a result that was asked for has been latched since *)
(* the last reset of des3: each word is that of one of the two ciphertexts, *)
(* except that a low word with its top bit set makes the high word all      *)
(* ones.  From then on no leftover of the reset is read any more, as all of *)
(* them leave before.  The words need not be of one result, since a result  *)
(* may be latched between the reads (main.c, lines 36-38).                  *)
(***************************************************************************)
PrintedWords ==
    pc = Display /\ fresh =>
        /\ Lo(result) \in {Lo(c) : c \in Answers}
        /\ IF WordBits - 1 \in Lo(result)
           THEN Hi(result) = 0 .. WordBits - 1
           ELSE Hi(result) \in {Hi(c) : c \in Answers}

(***************************************************************************)
(* The loop prints over and over (main.c, lines 16-40): the status becomes  *)
(* 1 and stays so, and no poll waits.                                       *)
(***************************************************************************)
PrintsForever == []<>(pc = Display)

(***************************************************************************)
(* "latched, clears on read" (des3_avalon.v, line 15): a read of the status *)
(* leaves it 0 unless a result arrives with it.                             *)
(***************************************************************************)
StatusClearsOnRead ==
    [][CpuPoll /\ ~valid_out => ~reg_valid_out']_fvars

(***************************************************************************)
(* odata_lo is bits [31:0] of the result (des3_avalon.v, line 13): reading  *)
(* it gives the program no other bit.                                       *)
(***************************************************************************)
LowWordOnly == pc = ReadHi => result \subseteq 0 .. WordBits - 1
=============================================================================
