------------------------------ MODULE JtagSmall ------------------------------
(***************************************************************************)
(* The polled driver of the JTAG UART, which the board support package of  *)
(* this project selects (ALT_USE_SMALL_DRIVERS in public.mk): no interrupt *)
(* and no buffer; `write' waits for room for each character.               *)
(***************************************************************************)
EXTENDS JtagUart

CONSTANTS MaxWritten  \* bound: characters the program writes in all

VARIABLES
  pc,    \* where the program is in a call of the driver
  call,  \* the arguments and the progress of the call
  io     \* ghost: characters written and read in all

NoCall == [left |-> 0, some |-> FALSE, nonblock |-> FALSE, in |-> 0, out |-> 0]

Return == pc' = "idle" /\ call' = NoCall

\* The small driver does not touch the device before the first call.
SmallInit ==
  /\ uart = UartReset
  /\ pc = "idle"
  /\ call = NoCall
  /\ io = [written |-> 0, read |-> <<>>]

-----------------------------------------------------------------------------

CallWrite ==
  /\ pc = "idle"
  /\ \E count \in 1 .. MaxWritten - io.written :
       call' = [NoCall EXCEPT !.left = count]
  /\ pc' = "s_write"
  /\ UNCHANGED <<uart, io>>

\* One turn of the loop of altera_avalon_jtag_uart_write: without room the
\* loop reads the control register again, and nothing changes.
SmallWrite ==
  /\ pc = "s_write"
  /\ \/ /\ call.left > 0 /\ Control(uart).WSPACE # 0
        /\ uart' = PutData(uart, io.written + 1)
        /\ io' = [io EXCEPT !.written = @ + 1]
        /\ call' = [call EXCEPT !.left = @ - 1, !.some = TRUE]
        /\ UNCHANGED pc
     \/ call.left = 0 /\ Return /\ UNCHANGED <<uart, io>>

CallRead ==
  /\ pc = "idle"
  /\ \E space \in 0 .. 2, nb \in BOOLEAN :
       call' = [NoCall EXCEPT !.left = space, !.nonblock = nb]
  /\ pc' = "s_read"
  /\ UNCHANGED <<uart, io>>

\* One turn of the loop of altera_avalon_jtag_uart_read, or its end.  A
\* blocking read waits for the first character only.
SmallRead ==
  /\ pc = "s_read"
  /\ \/ /\ call.left > 0 /\ uart.rx # <<>>
        /\ io' = [io EXCEPT !.read = Append(@, Head(uart.rx))]
        /\ uart' = GetData(uart)
        /\ call' = [call EXCEPT !.left = @ - 1, !.some = TRUE]
        /\ UNCHANGED pc
     \/ /\ call.left > 0 /\ uart.rx = <<>>
        /\ uart' = GetData(uart)
        /\ IF call.some \/ call.nonblock THEN Return ELSE UNCHANGED <<pc, call>>
        /\ UNCHANGED io
     \/ call.left = 0 /\ Return /\ UNCHANGED <<uart, io>>

SmallProgram == CallWrite \/ SmallWrite \/ CallRead \/ SmallRead

SmallHost == (HostSends \/ HostTakes \/ HostPauses) /\ UNCHANGED <<pc, call, io>>

-----------------------------------------------------------------------------

\* What the device and a call of the polled driver may hold: it keeps no index.
SmallTypeOK ==
  /\ uart \in UartType /\ Len(uart.tx) <= Depth
  /\ pc \in {"idle", "s_write", "s_read"}
  /\ call \in [left : Nat, some : BOOLEAN, nonblock : BOOLEAN, in : {0}, out : {0}]
  /\ io \in [written : Nat, read : Seq(Nat)]
=============================================================================
