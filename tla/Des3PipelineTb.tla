--------------------------- MODULE Des3PipelineTb ---------------------------
(***************************************************************************)
(* The two testbenches on the real cipher.  des3_pipeline_tb.v feeds its    *)
(* four vectors and compares the outputs in order; des3_tb.v then sets      *)
(* decrypt, once done is low again, and feeds a ciphertext back.  Here all  *)
(* four ciphertexts go back, and up to MaxGaps idle edges may fall between  *)
(* two inputs.                                                              *)
(***************************************************************************)
EXTENDS DES

CONSTANTS MaxGaps, MaxIdle    \* idle edges between inputs, and at the end

VARIABLES
    encrypt1, decrypt2, encrypt3, state,   \* des3_fsm.v
    mode,           \* the reg decrypt of the testbench
    sent, received, \* inputs fed and outputs seen in this mode
    gaps            \* idle edges since the first input of this mode

Word64(a, b, c, d) == Append2(Append2(Vector(a, 16), Vector(b, 16), 16),
                              Append2(Vector(c, 16), Vector(d, 16), 16), 32)

KEY1 == Word64(\h576D, \h5A24, \hD0E7, \h493A)
KEY2 == Word64(\h4F3F, \hC2A8, \h1707, \hAC64)
KEY3 == Word64(\h6F29, \h5595, \hC05E, \hD7FB)

test_data == <<Word64(\h35A2, \hF80F, \h5156, \h4C52),
               Word64(\h0123, \h4567, \h89AB, \hCDEF),
               Word64(\hFEDC, \hBA98, \h7654, \h3210),
               Word64(\hAABB, \hCCDD, \hEEFF, \h0011)>>

test_output == <<Word64(\hAE32, \h960F, \h482A, \h7362),
                 Word64(\h8D09, \h591C, \hBDEC, \h06BE),
                 Word64(\hC2C2, \h9F8A, \h82D0, \hC084),
                 Word64(\hEC5E, \h2747, \hD759, \h4392)>>

NUM_INPUTS == Len(test_data)

Fsm == INSTANCE Des3Fsm WITH
          Rounds <- 16, Split <- IP, Join <- IP_inv, F <- f,
          Block <- {}, ZeroBlock <- {}, Half <- {}, Key <- {},
          KS <- key_scheduler, Ports <- {}

tb == <<encrypt1, decrypt2, encrypt3, state, mode, sent, received, gaps>>

\* What the mode reads and what it should give.
Given == IF mode THEN test_output ELSE test_data
Wanted == IF mode THEN test_data ELSE test_output

\* The three reset edges of the testbench.  What they leave unset is unknown
\* in simulation, and an unknown done is not counted: the model starts empty.
TbInit ==
    /\ \E r \in {Fsm!E1!PoweredUp({}, {}, FALSE, FALSE, FALSE, <<{}, {}>>)} :
          encrypt1 = r /\ decrypt2 = r /\ encrypt3 = r
    /\ state = "IDLE" /\ mode = FALSE
    /\ sent = 0 /\ received = 0 /\ gaps = 0

\* A clock edge with or without start.  The monitor counts the output that
\* the registers show before the edge.
Edge(start) ==
    /\ Fsm!FsmClock([idata |-> IF start THEN Given[sent + 1] ELSE {},
                     key1 |-> KEY1, key2 |-> KEY2, key3 |-> KEY3,
                     decrypt |-> mode, valid_in |-> start])
    /\ received' = received + (IF Fsm!done THEN 1 ELSE 0)
    /\ UNCHANGED mode

Submit == sent < NUM_INPUTS /\ Edge(TRUE) /\ sent' = sent + 1 /\ UNCHANGED gaps

Gap == /\ sent \in 1 .. NUM_INPUTS - 1 /\ gaps < MaxGaps
       /\ Edge(FALSE) /\ gaps' = gaps + 1 /\ UNCHANGED sent

\* The edges of WAIT_CYCLES, cut to MaxIdle after the last output.
Wait == /\ sent = NUM_INPUTS /\ gaps < MaxGaps + MaxIdle
        /\ Edge(FALSE)
        /\ gaps' = IF received < NUM_INPUTS THEN gaps ELSE gaps + 1
        /\ UNCHANGED sent

\* decrypt = 1, once the last output is gone.
SwitchMode ==
    /\ ~mode /\ received = NUM_INPUTS /\ ~Fsm!done
    /\ mode' = TRUE /\ sent' = 0 /\ received' = 0 /\ gaps' = 0
    /\ UNCHANGED <<encrypt1, decrypt2, encrypt3, state>>

TbNext == Submit \/ Gap \/ Wait \/ SwitchMode

TbSpec == TbInit /\ [][TbNext]_tb

-----------------------------------------------------------------------------
(***************************************************************************)
(* Each output is the expected block for its number, which the testbench    *)
(* compares with === (des3_pipeline_tb.v, lines 52-69), and the decryption  *)
(* of des3_tb.v gives the plaintext back (lines 94-97).                     *)
(***************************************************************************)
OutputsExpected ==
    Fsm!done => received < NUM_INPUTS /\ Fsm!odata = Wanted[received + 1]
=============================================================================
