------------------------------ MODULE JtagUart ------------------------------
(***************************************************************************)
(* The JTAG UART of the board (system_jtag_uart_0.v): two FIFOs between    *)
(* the CPU and the host that reads and writes them over the cable, two     *)
(* interrupt enables, and the bits of the control register.  The state is  *)
(* one record `uart'; a driver composes its steps from the operators that  *)
(* read and write the two registers.                                       *)
(*                                                                         *)
(* A character is its number: the program's n-th is n, and so is the       *)
(* host's.  `took' is what the host has taken and `sent' how many it sent. *)
(* A bus access lasts two clock cycles, so the registered copies fifo_AE   *)
(* and fifo_AF have settled when the next one reads them.                  *)
(***************************************************************************)
EXTENDS Integers, Sequences

CONSTANTS Depth,   \* characters in a FIFO (64)
          Level,   \* the distance from empty, or full, that interrupts (8)
          MaxSent  \* bound: the host sends at most so many characters

ASSUME UartAssumption == /\ Depth \in Nat \ {0}
                         /\ Level \in 0 .. Depth - 1
                         /\ MaxSent \in Nat

VARIABLE uart

UartType == [tx : Seq(Nat), rx : Seq(Nat), ien_AE : BOOLEAN, ien_AF : BOOLEAN,
             pause_irq : BOOLEAN, ac : BOOLEAN, took : Seq(Nat), sent : Nat]

UartReset ==
  [tx |-> <<>>, rx |-> <<>>, ien_AE |-> FALSE, ien_AF |-> FALSE,
   pause_irq |-> FALSE, ac |-> FALSE, took |-> <<>>, sent |-> 0]

-----------------------------------------------------------------------------
(* Registers. *)

\* The transmit FIFO is nearly empty; the receive FIFO is nearly full, or
\* the host has paused with characters in it.
WriteIrq(u) == u.ien_AE /\ Len(u.tx) <= Level
ReadIrq(u) == u.ien_AF /\ (u.pause_irq \/ Depth - Len(u.rx) <= Level)

Control(u) == [RI |-> ReadIrq(u), WI |-> WriteIrq(u), AC |-> u.ac,
               WSPACE |-> Depth - Len(u.tx)]

\* A write to the control register; `ack' is its AC bit.
SetControl(u, enable, ack) ==
  [u EXCEPT !.ien_AF = "RE" \in enable, !.ien_AE = "WE" \in enable,
            !.ac = @ /\ ~ack]

\* A write to the data register; a full FIFO drops the character.
PutData(u, c) == IF Len(u.tx) < Depth THEN [u EXCEPT !.tx = Append(@, c)] ELSE u

\* A read of the data register takes a character, if there is one.
GetData(u) ==
  [u EXCEPT !.rx = IF @ = <<>> THEN <<>> ELSE Tail(@), !.pause_irq = FALSE]

-----------------------------------------------------------------------------
(* The host. *)

HasRoom(u) == Len(u.rx) < Depth /\ u.sent < MaxSent

Arrive(u) == [u EXCEPT !.rx = Append(@, u.sent + 1), !.sent = @ + 1, !.ac = TRUE]

\* A read of the data register takes the character in one cycle and samples
\* the number that remain in the next, between which one may arrive.
MayArrive(u) == {u} \cup {Arrive(v) : v \in {w \in {u} : HasRoom(w)}}

HostSends == HasRoom(uart) /\ uart' = Arrive(uart)

HostTakes ==
  /\ uart.tx # <<>>
  /\ uart' = [uart EXCEPT !.tx = Tail(@), !.took = Append(@, Head(uart.tx))]

\* The host has polled and has nothing more to send for now.
HostPauses ==
  uart' = [uart EXCEPT !.ac = TRUE, !.pause_irq = @ \/ uart.rx # <<>>]
=============================================================================
