----------------------------- MODULE Des3Reset -----------------------------
(***************************************************************************)
(* des3_fsm.v under resets at any time.  A reset clears V, valid_out and    *)
(* the state register but not V_buf (feistel_algo.v, lines 66-88), so up to *)
(* three blocks outlive it, one in front of each instance.  The counters    *)
(* are those of a monitor that a reset restarts.                            *)
(***************************************************************************)
EXTENDS Des3Fsm

CONSTANT MaxAccepted    \* bound on the starts between two resets

VARIABLES
    accepted, emitted,   \* starts and outputs since the last reset
    ghosts               \* blocks in the core at the end of that reset

rvars == <<fsm, accepted, emitted, ghosts>>

InFlight == Cardinality({p \in CorePosition : Holds(p)})

RInit == FsmInit /\ accepted = 0 /\ emitted = 0 /\ ghosts = InFlight

RClock(i) ==
    /\ i.valid_in => accepted < MaxAccepted
    /\ FsmClock(i)
    /\ accepted' = accepted + (IF i.valid_in THEN 1 ELSE 0)
    /\ emitted' = emitted + (IF done THEN 1 ELSE 0)
    /\ UNCHANGED ghosts

RReset == FsmReset /\ accepted' = 0 /\ emitted' = 0 /\ ghosts' = InFlight'

RNext == (\E i \in Ports : RClock(i)) \/ RReset

\* The board's clock never stops (top.v).
RSpec == RInit /\ [][RNext]_rvars /\ WF_rvars(\E i \in Ports : RClock(i))

-----------------------------------------------------------------------------
(***************************************************************************)
(* Between two resets no block is lost, doubled or invented: what left and  *)
(* what is in the core are the starts and the ghosts (des3.v chains         *)
(* valid_out to valid_in, lines 24-52), which are three at most, so that a  *)
(* monitor that knows nothing of them is wrong by no more.                  *)
(***************************************************************************)
BlocksConserved == emitted + InFlight = accepted + ghosts /\ ghosts <= 3

(***************************************************************************)
(* While the wrapper has seen no start, whatever the core holds sits at the *)
(* same distance from the end of its instance: the leftovers move in step.  *)
(***************************************************************************)
LeftoversInStep ==
    state = "IDLE" =>
        \A p, q \in CorePosition :
            Holds(p) /\ Holds(q) => p % StageLen = q % StageLen

(***************************************************************************)
(* Every start is answered, by an output beyond the ghosts that leave       *)
(* before its own, unless a reset intervenes.                               *)
(***************************************************************************)
EveryStartAnswered ==
    \A n \in 1 .. MaxAccepted :
        (accepted = n) ~> (emitted >= n + ghosts \/ state = "IDLE")

(***************************************************************************)
(* What des3_pipeline_tb.v expects of any monitor reset with the core: an   *)
(* output beyond the inputs is "unexpected" (line 65) and fails the test    *)
(* (line 120).                                                              *)
(***************************************************************************)
NoExtraOutput == emitted <= accepted
=============================================================================
