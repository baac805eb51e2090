------------------------------- MODULE Timers -------------------------------
(***************************************************************************)
(* What the alarms of the HAL promise: an alarm started for n ticks is     *)
(* called at the n+1st tick from then, exactly, and its answer is the      *)
(* ticks to its next call; every alarm that is due is called before the    *)
(* tick ends, and none that is stopped.  Nothing is promised once the      *)
(* program or a callback has made a call that is not allowed.              *)
(***************************************************************************)
EXTENDS Integers, FiniteSets

CONSTANTS Alarms, Periods, Off

VARIABLES
  remaining,  \* the ticks to the next call of each alarm, or Off
  ticking,    \* is a tick being processed?
  kept        \* have all calls been allowed ones?

timers == <<remaining, ticking, kept>>

Init == remaining = [a \in Alarms |-> Off] /\ ticking = FALSE /\ kept = TRUE

Due == {a \in Alarms : remaining[a] = 0}

Start(a, n) == remaining[a] = Off /\ remaining' = [remaining EXCEPT ![a] = n + 1]
Stop(a) == remaining' = [remaining EXCEPT ![a] = Off]

Program ==
  /\ ~ ticking /\ UNCHANGED ticking
  /\ \E a \in Alarms : Stop(a) \/ \E n \in Periods : Start(a, n)

Tick ==
  /\ ~ ticking /\ ticking'
  /\ remaining' = [a \in Alarms |-> IF remaining[a] = Off THEN Off ELSE remaining[a] - 1]

\* A call ends with the alarm stopped or set again; meanwhile the callback may
\* stop or start one other alarm.
Call(a) ==
  /\ ticking /\ a \in Due /\ UNCHANGED ticking
  /\ \E set \in (Periods \ {0}) \cup {Off}, b \in Alarms :
       \E other \in {remaining[b], Off}
                    \cup {n + 1 : n \in IF remaining[b] = Off THEN Periods ELSE {}} :
         remaining' = [c \in Alarms |-> IF c = a THEN set
                                       ELSE IF c = b THEN other ELSE remaining[c]]

End == ticking /\ Due = {} /\ ~ ticking' /\ UNCHANGED remaining

Next ==
  \/ /\ kept /\ kept'
     /\ Program \/ Tick \/ (\E a \in Alarms : Call(a)) \/ End
  \/ ~ kept'

SafeSpec == Init /\ [][Next]_timers

\* A tick that is processed ends.
Spec == SafeSpec /\ []<>(~ ticking \/ ~ kept)
=============================================================================
