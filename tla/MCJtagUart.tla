----------------------------- MODULE MCJtagUart -----------------------------
(***************************************************************************)
(* Both drivers of the JTAG UART with a host that may leave at any moment. *)
(* The build chooses the driver, and whether there is a system clock.      *)
(***************************************************************************)
EXTENDS JtagFast

CONSTANT SentWithClock  \* bound: characters the host sends where timers run

VARIABLES build,  \* "fast" or "small": ALTERA_AVALON_JTAG_UART_SMALL
          host    \* the host is connected

vars == <<fastVars, build, host>>

Small == INSTANCE JtagSmall

MCInit ==
  /\ \/ build = "fast" /\ FastInit
     \/ build = "small" /\ Small!SmallInit /\ isr = [Idle EXCEPT !.at = "none"]
        /\ sp = [Started(FALSE) EXCEPT !.irq_enable = {}]
  /\ host \in BOOLEAN

ProgramStep ==
  /\ IF build = "fast" THEN FastProgram ELSE Small!SmallProgram /\ UNCHANGED <<sp, isr>>
  /\ UNCHANGED <<build, host>>

\* Whether a character arrives is the host's choice, and bounded.
Within == sp.alarm => uart'.sent <= SentWithClock

InterruptStep == build = "fast" /\ Interrupt /\ Within /\ UNCHANGED <<build, host>>
TimerStep == build = "fast" /\ TimerRoutine /\ UNCHANGED <<build, host>>
HostStep == host /\ Host /\ Within /\ UNCHANGED <<build, host>>
HostTakesOne ==
  host /\ HostTakes /\ UNCHANGED <<sp, isr, pc, call, io, build, host>>
HostLeaves == host /\ host' = FALSE /\ UNCHANGED <<fastVars, build>>

MCNext == ProgramStep \/ InterruptStep \/ TimerStep \/ HostStep \/ HostLeaves

\* A call once made goes on, interrupts are served, the timer ticks, and a
\* host that stays connected takes what is sent.
MCSpec ==
  /\ MCInit /\ [][MCNext]_vars
  /\ WF_vars(pc # "idle" /\ ProgramStep)
  /\ WF_vars(InterruptStep) /\ WF_vars(TimerStep) /\ WF_vars(HostTakesOne)

-----------------------------------------------------------------------------

\* The device and the driver that is built keep their types.
TypeOK == IF build = "fast" THEN FastTypeOK ELSE Small!SmallTypeOK

\* The characters of a ring from `out' up to `in'.
Ring(buf, in, out) == [k \in 1 .. (in - out) % BufLen |-> buf[(out + k - 1) % BufLen]]

\* The rings and the FIFOs are the two channels of Console: each character
\* arrives once and in order, whichever driver is built.
C == INSTANCE Console WITH
  MaxRun <- MaxWritten,
  out <- [sent |-> io.written, got |-> uart.took,
          queue |-> uart.tx \o Ring(sp.tx_buf, sp.tx_in, sp.tx_out)],
  in <- [sent |-> uart.sent, got |-> io.read,
         queue |-> Ring(sp.rx_buf, sp.rx_in, sp.rx_out) \o uart.rx]
ImplementsConsole == C!Spec

\* Every write and every close returns, with a system clock: the host takes
\* the characters or is found absent.  A timeout of INT_MAX - 1 is for ever.
WritesEnd ==
  (pc \in {"w_look", "close"} /\ sp.alarm /\ sp.timeout < IntMax - 1) ~> (pc = "idle")
=============================================================================
