------------------------------ MODULE JtagFast ------------------------------
(***************************************************************************)
(* The interrupt-driven driver of the JTAG UART, which the package uses    *)
(* when small drivers are not asked for.  The program and the interrupt    *)
(* routine share two ring buffers and a copy of the interrupt enables; a   *)
(* timer routine watches whether the host is alive.  The interrupt routine *)
(* may start between any two steps of the program, and the host moves      *)
(* characters between any two steps of either.                             *)
(***************************************************************************)
EXTENDS JtagUart

CONSTANTS
  BufLen,      \* ALTERA_AVALON_JTAG_UART_BUF_LEN (2048)
  Timeout,     \* ALTERA_AVALON_JTAG_UART_DEFAULT_TIMEOUT (10)
  IntMax,      \* INT_MAX
  MaxWritten   \* bound: characters the program writes in all

ASSUME FastAssumption == /\ BufLen \in Nat /\ BufLen > 1
                         /\ IntMax \in Nat /\ Timeout \in 2 .. IntMax - 2
                         /\ MaxWritten \in Nat

VARIABLES
  sp,    \* altera_avalon_jtag_uart_state
  isr,   \* the interrupt routine: where it is, and its local variables
  pc,    \* where the program is in a call of the driver
  call,  \* the arguments and the local variables of the call
  io     \* ghost: how many characters were written, which were read

fastVars == <<uart, sp, isr, pc, call, io>>

Idle == [at |-> "idle", WI |-> FALSE, avail |-> FALSE, space |-> 0]
NoCall == [left |-> 0, some |-> FALSE, nonblock |-> FALSE, in |-> 0, out |-> 0]
NoIO == [written |-> 0, read |-> <<>>]

\* Faulty: the index runs off the ring.
Next1_Unwrapped(i) == i + 1

Next1(i) == (i + 1) % BufLen

\* The interrupt routine runs with interrupts disabled: the program waits.
Running == isr.at = "idle"

-----------------------------------------------------------------------------
(* Initialisation. *)

\* altera_avalon_jtag_uart_init: without a system clock there is no alarm,
\* and the host counts as present for ever.
Started(clock) ==
  [rx_in |-> 0, rx_out |-> 0, tx_in |-> 0, tx_out |-> 0,
   rx_buf |-> [i \in 0 .. BufLen - 1 |-> 0], tx_buf |-> [i \in 0 .. BufLen - 1 |-> 0],
   irq_enable |-> {"RE"}, host_inactive |-> 0,
   timeout |-> IF clock THEN Timeout ELSE IntMax, alarm |-> clock]

FastInit ==
  /\ \E clock \in BOOLEAN : sp = Started(clock)
  /\ uart = SetControl(UartReset, {"RE"}, FALSE)
  /\ isr = Idle
  /\ pc = "idle"
  /\ call = NoCall
  /\ io = NoIO

-----------------------------------------------------------------------------
(* The interrupt routine. *)

\* An interrupt is taken, or the outer loop goes round: it reads the control
\* register until neither bit is set.
IsrLoop ==
  /\ isr.at = "loop" \/ ReadIrq(uart) \/ WriteIrq(uart)
  /\ isr.at \in {"idle", "loop"}
  /\ LET control == Control(uart) IN
     isr' = IF control.RI
            THEN [at |-> "rx", WI |-> control.WI, avail |-> TRUE, space |-> control.WSPACE]
            ELSE IF control.WI
            THEN [Idle EXCEPT !.at = "tx", !.space = control.WSPACE]
            ELSE Idle
  /\ UNCHANGED <<uart, sp, pc, call, io>>

\* After the receive loop: if the last data word said that more is waiting,
\* receive interrupts are turned off.
RxDone(u, avail) ==
  LET enable == IF avail THEN sp.irq_enable \ {"RE"} ELSE sp.irq_enable IN
  /\ uart' = IF avail THEN SetControl(u, enable, FALSE) ELSE u
  /\ sp' = [sp EXCEPT !.irq_enable = enable]
  /\ isr' = IF isr.WI THEN [Idle EXCEPT !.at = "tx", !.space = isr.space]
            ELSE [Idle EXCEPT !.at = "loop"]

\* One turn of the receive loop.
IsrReceive ==
  /\ isr.at = "rx"
  /\ \/ /\ Next1(sp.rx_in) = sp.rx_out
        /\ RxDone(uart, isr.avail)
     \/ /\ Next1(sp.rx_in) # sp.rx_out
        /\ \E u \in MayArrive(GetData(uart)) :
             IF uart.rx = <<>> THEN RxDone(u, u.rx # <<>>)
             ELSE /\ uart' = u
                  /\ sp' = [sp EXCEPT !.rx_buf[sp.rx_in] = Head(uart.rx), !.rx_in = Next1(@)]
                  /\ isr' = [isr EXCEPT !.avail = u.rx # <<>>]
  /\ UNCHANGED <<pc, call, io>>

\* One turn of the transmit loop, or its end: with room left in the FIFO the
\* ring is empty, and transmit interrupts are turned off.
IsrTransmit ==
  /\ isr.at = "tx"
  /\ \/ /\ isr.space > 0 /\ sp.tx_out # sp.tx_in
        /\ uart' = PutData(uart, sp.tx_buf[sp.tx_out])
        /\ sp' = [sp EXCEPT !.tx_out = Next1(@)]
        /\ isr' = [isr EXCEPT !.space = @ - 1]
     \/ /\ isr.space > 0 /\ sp.tx_out = sp.tx_in
        /\ sp' = [sp EXCEPT !.irq_enable = @ \ {"WE"}]
        /\ uart' = SetControl(uart, sp'.irq_enable, FALSE)
        /\ isr' = [Idle EXCEPT !.at = "loop"]
     \/ /\ isr.space = 0
        /\ isr' = [Idle EXCEPT !.at = "loop"]
        /\ UNCHANGED <<uart, sp>>
  /\ UNCHANGED <<pc, call, io>>

\* Faulty: the acknowledgement clears the interrupt enables.
TimerRoutine_Disables ==
  /\ Running /\ sp.alarm /\ uart.ac
  /\ uart' = SetControl(uart, {}, TRUE)
  /\ sp' = [sp EXCEPT !.host_inactive = 0]
  /\ UNCHANGED <<isr, pc, call, io>>

\* altera_avalon_jtag_uart_timeout, every second if there is a system clock.
TimerRoutine ==
  /\ Running /\ sp.alarm
  /\ IF uart.ac
     THEN /\ uart' = SetControl(uart, sp.irq_enable, TRUE)
          /\ sp' = [sp EXCEPT !.host_inactive = 0]
     ELSE /\ sp.host_inactive < IntMax - 2
          /\ sp' = [sp EXCEPT !.host_inactive = @ + 1]
          /\ UNCHANGED uart
  /\ UNCHANGED <<isr, pc, call, io>>

-----------------------------------------------------------------------------
(* The program.  A step is what it does between two reads or writes of what *)
(* it shares with the interrupt routine; the character copies are merged    *)
(* with the index update that makes them visible.                           *)

HostGone == sp.host_inactive >= sp.timeout

Return == pc' = "idle" /\ call' = NoCall

Called(at, n, nb) ==
  /\ Running /\ pc = "idle"
  /\ pc' = at
  /\ call' = [NoCall EXCEPT !.left = n, !.nonblock = nb]
  /\ UNCHANGED <<uart, sp, isr, io>>

Least(a, b) == IF a < b THEN a ELSE b

\* Faulty: the ring fills up to its last place when tx_out is 0.
TxRoom_Full(in, out) == IF in < out THEN out - 1 - in ELSE BufLen - in

\* Room in the transmit ring from `in' on, without wrapping.
TxRoom(in, out) ==
  IF in < out THEN out - 1 - in
  ELSE IF out > 0 THEN BufLen - in
  ELSE BufLen - 1 - in

\* Characters in the receive ring from `out' on, without wrapping.
RxCount(in, out) == IF in >= out THEN in - out ELSE BufLen - out

CallWrite ==
  \E count \in 1 .. MaxWritten - io.written, nb \in BOOLEAN : Called("w_look", count, nb)

\* The indices are read; the interrupt routine may move tx_out after that.
WriteLook ==
  /\ Running /\ pc = "w_look"
  /\ call' = [call EXCEPT !.in = sp.tx_in, !.out = sp.tx_out]
  /\ pc' = IF TxRoom(sp.tx_in, sp.tx_out) = 0 THEN "w_kick" ELSE "w_copy"
  /\ UNCHANGED <<uart, sp, isr, io>>

WriteCopy ==
  /\ Running /\ pc = "w_copy"
  /\ LET n == Least(TxRoom(call.in, call.out), call.left) IN
     /\ sp' = [sp EXCEPT !.tx_in = (call.in + n) % BufLen,
                         !.tx_buf = [i \in 0 .. BufLen - 1 |->
                            IF i \in call.in .. call.in + n - 1
                            THEN io.written + 1 + i - call.in ELSE @[i]]]
     /\ io' = [io EXCEPT !.written = @ + n]
     /\ call' = [call EXCEPT !.left = @ - n, !.some = TRUE]
     /\ pc' = IF call.left > n THEN "w_look" ELSE "w_kick"
  /\ UNCHANGED <<uart, isr>>

\* irq_enable is updated with interrupts disabled.
Enable(bit) ==
  /\ sp' = [sp EXCEPT !.irq_enable = @ \cup {bit}]
  /\ uart' = SetControl(uart, sp'.irq_enable, FALSE)

\* Faulty: the transmit interrupt is enabled by a blocking call only.
WriteKick_Blocking ==
  /\ Running /\ pc = "w_kick"
  /\ IF call.left > 0 /\ ~ call.nonblock
     THEN Enable("WE") /\ pc' = "w_spin" /\ UNCHANGED call
     ELSE Return /\ UNCHANGED <<uart, sp>>
  /\ UNCHANGED <<isr, io>>

WriteKick ==
  /\ Running /\ pc = "w_kick"
  /\ Enable("WE")
  /\ IF call.left > 0 /\ ~ call.nonblock
     THEN pc' = "w_spin" /\ UNCHANGED call
     ELSE Return
  /\ UNCHANGED <<isr, io>>

\* Faulty: the loop does not look whether the host is there.
WriteSpin_Forever ==
  /\ Running /\ pc = "w_spin"
  /\ call.out # sp.tx_out
  /\ pc' = "w_test"
  /\ UNCHANGED <<uart, sp, isr, call, io>>

\* The loop that waits for the interrupt routine, or for the host to be
\* found absent, and the test after it.
WriteSpin ==
  /\ Running /\ pc = "w_spin"
  /\ call.out # sp.tx_out \/ HostGone
  /\ pc' = "w_test"
  /\ UNCHANGED <<uart, sp, isr, call, io>>

WriteTest ==
  /\ Running /\ pc = "w_test"
  /\ IF call.out = sp.tx_out THEN Return
     ELSE pc' = "w_look" /\ UNCHANGED call
  /\ UNCHANGED <<uart, sp, isr, io>>

CallRead ==
  \E space \in 0 .. BufLen - 1, nb \in BOOLEAN : Called("r_look", space, nb)

\* Nothing read: a non-blocking call is over, another waits.
ReadLook ==
  /\ Running /\ pc = "r_look"
  /\ IF call.left = 0 /\ ~ call.some
     THEN Return
     ELSE /\ call' = [call EXCEPT !.in = sp.rx_in, !.out = sp.rx_out]
          /\ pc' = IF sp.rx_in # sp.rx_out THEN "r_copy"
                   ELSE IF call.some THEN "r_kick"
                   ELSE IF call.nonblock THEN "r_end"
                   ELSE "r_spin"
  /\ UNCHANGED <<uart, sp, isr, io>>

ReadCopy ==
  /\ Running /\ pc = "r_copy"
  /\ LET n == Least(RxCount(call.in, call.out), call.left) IN
     /\ io' = [io EXCEPT !.read = @ \o [i \in 1 .. n |-> sp.rx_buf[call.out + i - 1]]]
     /\ sp' = [sp EXCEPT !.rx_out = (call.out + n) % BufLen]
     /\ call' = [call EXCEPT !.left = @ - n, !.some = TRUE]
     /\ pc' = IF call.left > n THEN "r_look" ELSE "r_kick"
  /\ UNCHANGED <<uart, isr>>

ReadSpin ==
  /\ Running /\ pc = "r_spin"
  /\ call.in # sp.rx_in \/ HostGone
  /\ pc' = "r_test"
  /\ UNCHANGED <<uart, sp, isr, call, io>>

ReadTest ==
  /\ Running /\ pc = "r_test"
  /\ pc' = IF call.in = sp.rx_in THEN "r_end" ELSE "r_look"
  /\ UNCHANGED <<uart, sp, isr, call, io>>

ReadEnd ==
  /\ Running /\ pc = "r_end"
  /\ Return
  /\ UNCHANGED <<uart, sp, isr, io>>

\* Room was made in the ring, so receive interrupts are turned on again.
ReadKick ==
  /\ Running /\ pc = "r_kick"
  /\ Enable("RE")
  /\ Return
  /\ UNCHANGED <<isr, io>>

CallClose == \E nb \in BOOLEAN : Called("close", 0, nb)

\* altera_avalon_jtag_uart_close waits for the ring to drain.
Close ==
  /\ Running /\ pc = "close"
  /\ IF sp.tx_out = sp.tx_in \/ HostGone THEN Return
     ELSE call.nonblock /\ Return
  /\ UNCHANGED <<uart, sp, isr, io>>

\* TIOCSTIMEOUT; a driver without an alarm refuses it.
SetTimeout ==
  /\ Running /\ pc = "idle" /\ sp.timeout # IntMax
  /\ \E t \in 1 .. IntMax :
       sp' = [sp EXCEPT !.timeout = IF t \in 2 .. IntMax - 1 THEN t ELSE IntMax - 1]
  /\ UNCHANGED <<uart, isr, pc, call, io>>

FastProgram ==
  \/ CallWrite \/ WriteLook \/ WriteCopy \/ WriteKick \/ WriteSpin \/ WriteTest
  \/ CallRead \/ ReadLook \/ ReadCopy \/ ReadKick \/ ReadSpin \/ ReadTest \/ ReadEnd
  \/ CallClose \/ Close \/ SetTimeout

Interrupt == IsrLoop \/ IsrReceive \/ IsrTransmit

Host == (HostSends \/ HostTakes \/ HostPauses) /\ UNCHANGED <<sp, isr, pc, call, io>>

FastNext == FastProgram \/ Interrupt \/ TimerRoutine \/ Host

FastSpec == FastInit /\ [][FastNext]_fastVars

-----------------------------------------------------------------------------
(* Properties. *)

IrqBits == {"RE", "WE"}
Index == 0 .. BufLen - 1

SpType == [rx_in : Index, rx_out : Index, tx_in : Index, tx_out : Index,
           rx_buf : [Index -> Nat], tx_buf : [Index -> Nat],
           irq_enable : SUBSET IrqBits, host_inactive : 0 .. IntMax - 2,
           timeout : 2 .. IntMax, alarm : BOOLEAN]
IsrType == [at : {"idle", "loop", "rx", "tx"}, WI : BOOLEAN, avail : BOOLEAN,
            space : 0 .. Depth]
CallType == [left : Nat, some : BOOLEAN, nonblock : BOOLEAN, in : Index, out : Index]
Places == {"idle", "w_look", "w_copy", "w_kick", "w_spin", "w_test", "close",
           "r_look", "r_copy", "r_kick", "r_spin", "r_test", "r_end"}

\* What altera_avalon_jtag_uart_state, the device and a call may hold.
FastTypeOK ==
  /\ uart \in UartType /\ sp \in SpType /\ isr \in IsrType
  /\ pc \in Places /\ call \in CallType
  /\ io \in [written : Nat, read : Seq(Nat)]

\* Between the steps of every routine the interrupt enables of the device are
\* those the driver believes, although the program, the interrupt routine and
\* the timer routine all write them.
EnablesAgree ==
  uart.ien_AF = ("RE" \in sp.irq_enable) /\ uart.ien_AE = ("WE" \in sp.irq_enable)

\* Characters in the transmit ring never wait for an interrupt that is off,
\* unless the program is about to turn it on.
TransmitArmed ==
  sp.tx_in # sp.tx_out => "WE" \in sp.irq_enable \/ pc \in {"w_look", "w_copy", "w_kick"}

\* Receive interrupts are off only while the program has characters to read,
\* or is about to turn them on.
ReceiveArmed ==
  Running /\ "RE" \notin sp.irq_enable =>
    sp.rx_in # sp.rx_out \/ pc \in {"r_look", "r_kick"}

\* No ring is left waiting for an interrupt that nobody will turn on.
Armed == TransmitArmed /\ ReceiveArmed
=============================================================================
