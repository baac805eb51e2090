------------------------------ MODULE Des3Fsm ------------------------------
(***************************************************************************)
(* des3_fsm.v: a start pulse is the core's valid_in, done its valid_out.    *)
(* The state register remembers that there was a start; nothing reads it.   *)
(***************************************************************************)
EXTENDS Des3

VARIABLE state

fsm == <<core, state>>

done == valid_out

FsmInit == CoreInit /\ state = "IDLE"

\* A clock edge; the port start of the wrapper is the field valid_in.
FsmClock(i) ==
    /\ CoreClock(i)
    /\ state' = IF i.valid_in THEN "RUNNING" ELSE state

FsmReset == CoreReset /\ state' = "IDLE"
=============================================================================
