----------------------------- MODULE JtagProofs -----------------------------
(***************************************************************************)
(* Proofs about the drivers of the JTAG UART for every size of the rings   *)
(* and the FIFOs, every timeout, and every host.  First the safety of the  *)
(* interrupt-driven driver, whose indices and interrupt enables three      *)
(* routines share; then, on sequences and rings, that both drivers         *)
(* implement the two channels of Console.                                  *)
(***************************************************************************)
EXTENDS MCJtagUart, NumberFacts, SequenceTheorems, TLAPS

\* The FIFO to the host never holds more than it can, so that the space the
\* device reports is a number of characters.
FifoFits == Len(uart.tx) <= Depth

TypeInv == FastTypeOK /\ FifoFits

\* The host's pause interrupts only while there are characters to read.
PauseHasData == uart.pause_irq => uart.rx # <<>>

\* The receive loop starts with a character to read, so that it never leaves
\* the ring empty and turns its interrupt off.
RxHasWork == isr.at = "rx" /\ sp.rx_in = sp.rx_out => uart.rx # <<>>

\* Receive interrupts are off with an empty ring only in a call that has just
\* emptied it, and that will turn them on.
OffIsNoticed ==
  "RE" \notin sp.irq_enable /\ sp.rx_in = sp.rx_out
    => pc \in {"r_look", "r_kick"} /\ call.some

\* What the safety of the driver rests on; each part is needed by another.
FastInv ==
  /\ TypeInv /\ EnablesAgree
  /\ TransmitArmed /\ OffIsNoticed
  /\ PauseHasData /\ RxHasWork

-----------------------------------------------------------------------------
(* What the registers of the device do. *)

\* `v' is the device `u' after the control register is written.
Wrote(u, enable, v) ==
  /\ v \in UartType /\ v.tx = u.tx /\ v.rx = u.rx /\ v.pause_irq = u.pause_irq
  /\ v.ien_AF = ("RE" \in enable) /\ v.ien_AE = ("WE" \in enable)

\* A write of the control register writes the enables it is given.
LEMMA SetControlFacts ==
  ASSUME NEW u \in UartType, NEW enable, NEW v,
         v = SetControl(u, enable, FALSE) \/ v = SetControl(u, enable, TRUE)
  PROVE  Wrote(u, enable, v)
<1>1. ASSUME NEW ack, v = SetControl(u, enable, ack)
      PROVE  Wrote(u, enable, v)
  <2>1. /\ (u.ac /\ ~ack) \in BOOLEAN
        /\ ("RE" \in enable) \in BOOLEAN /\ ("WE" \in enable) \in BOOLEAN
    OBVIOUS
  <2>2. v = [u EXCEPT !.ien_AF = "RE" \in enable, !.ien_AE = "WE" \in enable,
                      !.ac = u.ac /\ ~ack]
    BY <1>1 DEF SetControl
  <2>3. v \in UartType
    BY <2>1, <2>2 DEF UartType
  <2>4. /\ v.tx = u.tx /\ v.rx = u.rx /\ v.pause_irq = u.pause_irq
        /\ v.ien_AF = ("RE" \in enable) /\ v.ien_AE = ("WE" \in enable)
    BY <2>2 DEF UartType
  <2> QED
    BY <2>3, <2>4 DEF Wrote
<1> QED
  BY <1>1

\* A write of the data register.
LEMMA PutDataFacts ==
  ASSUME NEW u \in UartType, Len(u.tx) <= Depth, NEW c \in Nat,
         NEW v, v = PutData(u, c)
  PROVE  /\ v \in UartType /\ Len(v.tx) <= Depth
         /\ v.rx = u.rx /\ v.pause_irq = u.pause_irq
         /\ v.ien_AF = u.ien_AF /\ v.ien_AE = u.ien_AE
<1>1. CASE Len(u.tx) < Depth
  <2>1. u.tx \in Seq(Nat)
    BY DEF UartType
  <2>2. Append(u.tx, c) \in Seq(Nat) /\ Len(Append(u.tx, c)) = Len(u.tx) + 1
    BY <2>1
  <2>3. Len(u.tx) + 1 <= Depth
    BY <1>1, <2>1, UartAssumption
  <2>4. v = [u EXCEPT !.tx = Append(u.tx, c)]
    BY <1>1 DEF PutData
  <2>5. v \in UartType /\ v.tx = Append(u.tx, c)
    BY <2>2, <2>4 DEF UartType
  <2> QED
    BY <2>2, <2>3, <2>4, <2>5 DEF UartType
<1>2. CASE ~ (Len(u.tx) < Depth)
  BY <1>2 DEF PutData
<1> QED
  BY <1>1, <1>2

\* A character arrives from the host.
LEMMA ArriveFacts ==
  ASSUME NEW u \in UartType, NEW v, v = Arrive(u)
  PROVE  /\ v \in UartType /\ v.tx = u.tx /\ v.rx # <<>>
         /\ v.pause_irq = u.pause_irq /\ v.ien_AF = u.ien_AF /\ v.ien_AE = u.ien_AE
<1>1. u.rx \in Seq(Nat) /\ u.sent + 1 \in Nat
  BY DEF UartType
<1>2. Append(u.rx, u.sent + 1) \in Seq(Nat) /\ Len(Append(u.rx, u.sent + 1)) > 0
  BY <1>1
<1>3. Append(u.rx, u.sent + 1) # <<>>
  BY <1>2
<1>4. v = [u EXCEPT !.rx = Append(u.rx, u.sent + 1), !.sent = u.sent + 1, !.ac = TRUE]
  BY DEF Arrive
<1>5. v \in UartType
  BY <1>1, <1>2, <1>4 DEF UartType
<1> QED
  BY <1>3, <1>4, <1>5 DEF UartType

\* A read of the data register.
LEMMA GetDataFacts ==
  ASSUME NEW u \in UartType, NEW v, v = GetData(u)
  PROVE  /\ v \in UartType /\ v.tx = u.tx /\ ~ v.pause_irq
         /\ v.ien_AF = u.ien_AF /\ v.ien_AE = u.ien_AE
<1>1. (IF u.rx = <<>> THEN <<>> ELSE Tail(u.rx)) \in Seq(Nat)
  BY DEF UartType
<1> QED
  BY <1>1 DEF GetData, UartType

\* A read of the data register, with what may arrive meanwhile.
LEMMA ReadDataFacts ==
  ASSUME NEW u \in UartType, NEW v \in MayArrive(GetData(u))
  PROVE  /\ v \in UartType /\ v.tx = u.tx
         /\ v.ien_AF = u.ien_AF /\ v.ien_AE = u.ien_AE
         /\ v.pause_irq => v.rx # <<>>
<1> DEFINE w == GetData(u)
<1>1. w \in UartType /\ w.tx = u.tx /\ ~ w.pause_irq
      /\ w.ien_AF = u.ien_AF /\ w.ien_AE = u.ien_AE
  BY GetDataFacts
<1>2. v = w \/ v = Arrive(w)
  BY DEF MayArrive
<1> HIDE DEF w
<1>3. CASE v = w
  BY <1>1, <1>3
<1>4. CASE v = Arrive(w)
  BY <1>1, <1>4, ArriveFacts
<1> QED
  BY <1>2, <1>3, <1>4

-----------------------------------------------------------------------------
(* The indices of the rings. *)

\* The next position of a ring is another one.
LEMMA Next1Facts ==
  ASSUME NEW i \in Index
  PROVE  Next1(i) \in Index /\ Next1(i) # i
<1>1. BufLen \in Nat /\ BufLen > 1 /\ i \in 0 .. BufLen - 1
  BY FastAssumption DEF Index
<1>2. CASE i + 1 < BufLen
  BY <1>1, <1>2 DEF Index, Next1
<1>3. CASE i + 1 = BufLen
  BY <1>1, <1>3 DEF Index, Next1
<1> QED
  BY <1>1, <1>2, <1>3

\* There is room for what is copied, and it ends in the ring.
LEMMA TxRoomFacts ==
  ASSUME NEW in \in Index, NEW out \in Index, NEW left \in Nat,
         NEW n, n = Least(TxRoom(in, out), left)
  PROVE  /\ n \in Nat /\ n <= left /\ in + n <= BufLen
         /\ (in + n) % BufLen \in Index
<1>1. /\ BufLen \in Nat /\ BufLen > 1
      /\ in \in 0 .. BufLen - 1 /\ out \in 0 .. BufLen - 1
  BY FastAssumption DEF Index
<1>2. TxRoom(in, out) \in Nat /\ in + TxRoom(in, out) <= BufLen
  BY <1>1 DEF TxRoom
<1>3. n \in Nat /\ n <= left /\ in + n <= BufLen
  BY <1>1, <1>2 DEF Least
<1>4. (in + n) % BufLen \in 0 .. BufLen - 1
  BY <1>1, <1>3
<1> QED
  BY <1>3, <1>4 DEF Index

\* What one copy takes from the receive ring ends within the ring.
LEMMA RxCountFacts ==
  ASSUME NEW in \in Index, NEW out \in Index, NEW left \in Nat,
         NEW n, n = Least(RxCount(in, out), left)
  PROVE  /\ n \in Nat /\ n <= left /\ out + n <= BufLen
         /\ (out + n) % BufLen \in Index
<1>1. /\ BufLen \in Nat /\ BufLen > 1
      /\ in \in 0 .. BufLen - 1 /\ out \in 0 .. BufLen - 1
  BY FastAssumption DEF Index
<1>2. RxCount(in, out) \in Nat /\ out + RxCount(in, out) <= BufLen
  BY <1>1 DEF RxCount
<1>3. n \in Nat /\ n <= left /\ out + n <= BufLen
  BY <1>1, <1>2 DEF Least
<1>4. (out + n) % BufLen \in 0 .. BufLen - 1
  BY <1>1, <1>3
<1> QED
  BY <1>3, <1>4 DEF Index

-----------------------------------------------------------------------------
(* One field of a record changes, the others stay. *)

WithEnable(s, e) == [s EXCEPT !.irq_enable = e]
WithRxPut(s, c, i) == [s EXCEPT !.rx_buf[s.rx_in] = c, !.rx_in = i]
WithRxOut(s, i) == [s EXCEPT !.rx_out = i]
WithTxOut(s, i) == [s EXCEPT !.tx_out = i]
WithTxIn(s, i, b) == [s EXCEPT !.tx_in = i, !.tx_buf = b]
WithInactive(s, n) == [s EXCEPT !.host_inactive = n]
WithTimeout(s, t) == [s EXCEPT !.timeout = t]
WithAvail(s, b) == [s EXCEPT !.avail = b]
WithSpace(s, n) == [s EXCEPT !.space = n]

\* An enable is the control register without the strobe bits.
LEMMA EnableFacts ==
  ASSUME NEW s \in SpType, NEW e \in SUBSET IrqBits,
         NEW v, v = WithEnable(s, e)
  PROVE  /\ v \in SpType /\ v.irq_enable = e
         /\ v.rx_in = s.rx_in /\ v.rx_out = s.rx_out
         /\ v.tx_in = s.tx_in /\ v.tx_out = s.tx_out
BY DEF SpType, WithEnable

\* A character put into the receive ring.
LEMMA RxPutFacts ==
  ASSUME NEW s \in SpType, NEW c \in Nat, NEW i \in Index,
         NEW v, v = WithRxPut(s, c, i)
  PROVE  /\ v \in SpType /\ v.rx_in = i /\ v.rx_out = s.rx_out
         /\ v.tx_in = s.tx_in /\ v.tx_out = s.tx_out
         /\ v.irq_enable = s.irq_enable
BY DEF SpType, WithRxPut

\* A character taken from the receive ring.
LEMMA RxOutFacts ==
  ASSUME NEW s \in SpType, NEW i \in Index, NEW v, v = WithRxOut(s, i)
  PROVE  /\ v \in SpType /\ v.rx_out = i /\ v.rx_in = s.rx_in
         /\ v.tx_in = s.tx_in /\ v.tx_out = s.tx_out
         /\ v.irq_enable = s.irq_enable
BY DEF SpType, WithRxOut

\* A character taken from the transmit ring.
LEMMA TxOutFacts ==
  ASSUME NEW s \in SpType, NEW i \in Index, NEW v, v = WithTxOut(s, i)
  PROVE  /\ v \in SpType /\ v.tx_out = i /\ v.tx_in = s.tx_in
         /\ v.rx_in = s.rx_in /\ v.rx_out = s.rx_out
         /\ v.irq_enable = s.irq_enable
BY DEF SpType, WithTxOut

\* A character put into the transmit ring.
LEMMA TxInFacts ==
  ASSUME NEW s \in SpType, NEW i \in Index, NEW b \in [Index -> Nat],
         NEW v, v = WithTxIn(s, i, b)
  PROVE  /\ v \in SpType /\ v.tx_in = i /\ v.tx_out = s.tx_out
         /\ v.rx_in = s.rx_in /\ v.rx_out = s.rx_out
         /\ v.irq_enable = s.irq_enable
BY DEF SpType, WithTxIn

\* The host counted as inactive.
LEMMA InactiveFacts ==
  ASSUME NEW s \in SpType, NEW n \in 0 .. IntMax - 2,
         NEW v, v = WithInactive(s, n)
  PROVE  /\ v \in SpType /\ v.irq_enable = s.irq_enable
         /\ v.rx_in = s.rx_in /\ v.rx_out = s.rx_out
         /\ v.tx_in = s.tx_in /\ v.tx_out = s.tx_out
BY DEF SpType, WithInactive

\* The timeout set anew.
LEMMA TimeoutFacts ==
  ASSUME NEW s \in SpType, NEW t \in 2 .. IntMax,
         NEW v, v = WithTimeout(s, t)
  PROVE  /\ v \in SpType /\ v.irq_enable = s.irq_enable
         /\ v.rx_in = s.rx_in /\ v.rx_out = s.rx_out
         /\ v.tx_in = s.tx_in /\ v.tx_out = s.tx_out
BY DEF SpType, WithTimeout

\* A state of the interrupt routine.
LEMMA IsrFacts ==
  ASSUME NEW at \in {"idle", "loop", "rx", "tx"}, NEW WI \in BOOLEAN,
         NEW avail \in BOOLEAN, NEW space \in 0 .. Depth
  PROVE  [at |-> at, WI |-> WI, avail |-> avail, space |-> space] \in IsrType
BY DEF IsrType

\* The interrupt routine before it has looked at anything.
LEMMA IdleFacts ==
  ASSUME NEW at \in {"idle", "loop", "rx", "tx"}, NEW space \in 0 .. Depth,
         NEW v, v = [at |-> at, WI |-> FALSE, avail |-> FALSE, space |-> space]
  PROVE  v \in IsrType /\ v.at = at
BY DEF IsrType

\* The routine has noted whether the data register held a character.
LEMMA AvailFacts ==
  ASSUME NEW s \in IsrType, NEW b \in BOOLEAN, NEW v, v = WithAvail(s, b)
  PROVE  v \in IsrType /\ v.at = s.at
BY DEF IsrType, WithAvail

\* The routine has noted how much the transmit queue takes.
LEMMA SpaceFacts ==
  ASSUME NEW s \in IsrType, NEW n \in 0 .. Depth, NEW v, v = WithSpace(s, n)
  PROVE  v \in IsrType /\ v.at = s.at
BY DEF IsrType, WithSpace

\* The parts of the types that the steps below use.
LEMMA Parts ==
  ASSUME FastInv
  PROVE  /\ uart \in UartType /\ sp \in SpType /\ isr \in IsrType
         /\ pc \in Places /\ call \in CallType
         /\ io \in [written : Nat, read : Seq(Nat)]
         /\ Len(uart.tx) <= Depth
BY DEF FastInv, TypeInv, FastTypeOK, FifoFits

\* The fields of the driver.
LEMMA SpParts ==
  ASSUME NEW s \in SpType
  PROVE  /\ s.rx_in \in Index /\ s.rx_out \in Index
         /\ s.tx_in \in Index /\ s.tx_out \in Index
         /\ s.rx_buf \in [Index -> Nat] /\ s.tx_buf \in [Index -> Nat]
         /\ s.irq_enable \in SUBSET IrqBits
         /\ s.host_inactive \in 0 .. IntMax - 2
BY DEF SpType

-----------------------------------------------------------------------------
(* The interrupt routine. *)

\* The look of the interrupt routine at the control register keeps the invariant.
LEMMA IsrLoopInv ==
  ASSUME FastInv, IsrLoop PROVE FastInv'
<1>1. uart \in UartType /\ Len(uart.tx) <= Depth
  BY Parts
<1>2. Depth - Len(uart.tx) \in 0 .. Depth /\ 0 \in 0 .. Depth
  <2>1. Len(uart.tx) \in Nat
    BY <1>1 DEF UartType
  <2> QED
    BY <1>1, <2>1, UartAssumption
<1>3. ReadIrq(uart) \in BOOLEAN /\ WriteIrq(uart) \in BOOLEAN
  BY <1>1 DEF ReadIrq, WriteIrq, UartType
<1>4. UNCHANGED <<uart, sp, pc, call, io>>
  BY DEF IsrLoop
<1>5. /\ Control(uart).RI = ReadIrq(uart) /\ Control(uart).WI = WriteIrq(uart)
      /\ Control(uart).WSPACE = Depth - Len(uart.tx)
  BY DEF Control
<1>6. CASE ReadIrq(uart)
  <2>1. isr' = [at |-> "rx", WI |-> WriteIrq(uart), avail |-> TRUE,
                space |-> Depth - Len(uart.tx)]
    BY <1>5, <1>6 DEF IsrLoop
  <2>2. isr' \in IsrType
    BY <1>2, <1>3, <2>1, IsrFacts
  <2>3. uart.rx # <<>>
    <3>1. CASE uart.pause_irq
      BY <3>1 DEF FastInv, PauseHasData
    <3>2. CASE Depth - Len(uart.rx) <= Level
      <4>1. Len(uart.rx) > 0
        BY <1>1, <3>2, UartAssumption DEF UartType
      <4> QED
        BY <4>1
    <3> QED
      BY <1>6, <3>1, <3>2 DEF ReadIrq
  <2> QED
    BY <1>4, <2>2, <2>3 DEF FastInv, TypeInv, FastTypeOK, FifoFits, EnablesAgree,
       TransmitArmed, OffIsNoticed, PauseHasData, RxHasWork
<1>7. CASE ~ ReadIrq(uart)
  <2>1. isr' = [Idle EXCEPT !.at = "tx", !.space = Depth - Len(uart.tx)] \/ isr' = Idle
    BY <1>5, <1>7 DEF IsrLoop
  <2>2. PICK at \in {"tx", "idle"}, space \in 0 .. Depth :
           isr' = [at |-> at, WI |-> FALSE, avail |-> FALSE, space |-> space]
    BY <1>2, <2>1 DEF Idle
  <2>3. isr' \in IsrType /\ isr'.at # "rx"
    BY <2>2, IdleFacts
  <2> QED
    BY <1>4, <2>3 DEF FastInv, TypeInv, FastTypeOK, FifoFits, EnablesAgree,
       TransmitArmed, OffIsNoticed, PauseHasData, RxHasWork
<1> QED
  BY <1>3, <1>6, <1>7

\* What ends the receive loop; with `avail' the ring is not empty.
LEMMA RxDoneInv ==
  ASSUME FastInv, NEW u \in UartType, u.tx = uart.tx,
         u.ien_AF = uart.ien_AF, u.ien_AE = uart.ien_AE, u.pause_irq => u.rx # <<>>,
         NEW avail \in BOOLEAN, avail => sp.rx_in # sp.rx_out,
         RxDone(u, avail), UNCHANGED <<pc, call, io>>
  PROVE  FastInv'
<1>1. sp \in SpType /\ isr \in IsrType /\ Len(uart.tx) <= Depth
  BY Parts
<1>2. PICK enable \in SUBSET IrqBits :
         /\ enable = IF avail THEN sp.irq_enable \ {"RE"} ELSE sp.irq_enable
         /\ uart' = IF avail THEN SetControl(u, enable, FALSE) ELSE u
         /\ sp' = WithEnable(sp, enable)
  <2>1. (IF avail THEN sp.irq_enable \ {"RE"} ELSE sp.irq_enable) \in SUBSET IrqBits
    BY <1>1, SpParts
  <2> QED
    BY <2>1 DEF RxDone, WithEnable
<1>3. /\ sp' \in SpType /\ sp'.irq_enable = enable
      /\ sp'.rx_in = sp.rx_in /\ sp'.rx_out = sp.rx_out
      /\ sp'.tx_in = sp.tx_in /\ sp'.tx_out = sp.tx_out
  BY <1>1, <1>2, EnableFacts
<1>4. /\ uart' \in UartType /\ uart'.tx = uart.tx /\ uart'.rx = u.rx
      /\ uart'.pause_irq = u.pause_irq
      /\ uart'.ien_AF = ("RE" \in enable) /\ uart'.ien_AE = ("WE" \in enable)
  <2>1. CASE avail
    <3>1. uart' = SetControl(u, enable, FALSE)
      BY <1>2, <2>1
    <3>2. Wrote(u, enable, uart')
      BY <3>1, SetControlFacts
    <3> QED
      BY <3>2 DEF Wrote
  <2>2. CASE ~ avail
    BY <1>2, <2>2 DEF FastInv, EnablesAgree
  <2> QED
    BY <2>1, <2>2
<1>5. isr' \in IsrType /\ isr'.at # "rx"
  <2>1. 0 \in 0 .. Depth /\ isr.space \in 0 .. Depth
    BY <1>1, UartAssumption DEF IsrType
  <2>2. PICK at \in {"tx", "loop"}, space \in 0 .. Depth :
           isr' = [at |-> at, WI |-> FALSE, avail |-> FALSE, space |-> space]
    BY <2>1 DEF RxDone, Idle
  <2> QED
    BY <2>2, IdleFacts
<1>6. TypeInv'
  BY <1>1, <1>3, <1>4, <1>5 DEF FastInv, TypeInv, FastTypeOK, FifoFits
<1>7. EnablesAgree'
  BY <1>3, <1>4 DEF EnablesAgree
<1>8. TransmitArmed'
  BY <1>2, <1>3 DEF FastInv, TransmitArmed
<1>9. OffIsNoticed'
  BY <1>2, <1>3 DEF FastInv, OffIsNoticed
<1>10. PauseHasData' /\ RxHasWork'
  BY <1>4, <1>5 DEF PauseHasData, RxHasWork
<1> QED
  BY <1>6, <1>7, <1>8, <1>9, <1>10 DEF FastInv

\* Its receive step keeps the invariant.
LEMMA IsrReceiveInv ==
  ASSUME FastInv, IsrReceive PROVE FastInv'
<1>1. uart \in UartType /\ sp \in SpType /\ isr \in IsrType /\ Len(uart.tx) <= Depth
  BY Parts
<1>2. sp.rx_in \in Index
  BY <1>1, SpParts
<1>3. CASE Next1(sp.rx_in) = sp.rx_out /\ RxDone(uart, isr.avail)
  <2>1. isr.avail \in BOOLEAN
    BY <1>1 DEF IsrType
  <2>2. sp.rx_in # sp.rx_out
    BY <1>2, <1>3, Next1Facts
  <2> QED
    BY <1>1, <1>3, <2>1, <2>2, RxDoneInv DEF IsrReceive, FastInv, PauseHasData
<1>4. CASE /\ Next1(sp.rx_in) # sp.rx_out
           /\ \E u \in MayArrive(GetData(uart)) :
                IF uart.rx = <<>> THEN RxDone(u, u.rx # <<>>)
                ELSE /\ uart' = u
                     /\ sp' = [sp EXCEPT !.rx_buf[sp.rx_in] = Head(uart.rx),
                                         !.rx_in = Next1(sp.rx_in)]
                     /\ isr' = [isr EXCEPT !.avail = u.rx # <<>>]
  <2>1. PICK u \in MayArrive(GetData(uart)) :
           IF uart.rx = <<>> THEN RxDone(u, u.rx # <<>>)
           ELSE /\ uart' = u
                /\ sp' = [sp EXCEPT !.rx_buf[sp.rx_in] = Head(uart.rx),
                                    !.rx_in = Next1(sp.rx_in)]
                /\ isr' = [isr EXCEPT !.avail = u.rx # <<>>]
    BY <1>4
  <2>2. /\ u \in UartType /\ u.tx = uart.tx
        /\ u.ien_AF = uart.ien_AF /\ u.ien_AE = uart.ien_AE
        /\ u.pause_irq => u.rx # <<>>
    BY <1>1, ReadDataFacts
  <2>3. CASE uart.rx = <<>>
    <3>1. (u.rx # <<>>) \in BOOLEAN
      OBVIOUS
    <3>2. sp.rx_in # sp.rx_out
      BY <2>3 DEF FastInv, RxHasWork, IsrReceive
    <3> QED
      BY <2>1, <2>2, <2>3, <3>1, <3>2, RxDoneInv DEF IsrReceive
  <2>4. CASE uart.rx # <<>>
    <3>1. Head(uart.rx) \in Nat /\ Next1(sp.rx_in) \in Index
      BY <1>1, <1>2, <2>4, Next1Facts DEF UartType
    <3>2. /\ sp' \in SpType /\ sp'.irq_enable = sp.irq_enable
          /\ sp'.rx_in = Next1(sp.rx_in) /\ sp'.rx_out = sp.rx_out
          /\ sp'.tx_in = sp.tx_in /\ sp'.tx_out = sp.tx_out
      <4>1. sp' = WithRxPut(sp, Head(uart.rx), Next1(sp.rx_in))
        BY <2>1, <2>4 DEF WithRxPut
      <4> QED
        BY <1>1, <3>1, <4>1, RxPutFacts
    <3>3. isr' \in IsrType
      <4>1. (u.rx # <<>>) \in BOOLEAN
        OBVIOUS
      <4>2. isr' = WithAvail(isr, u.rx # <<>>)
        BY <2>1, <2>4 DEF WithAvail
      <4> QED
        BY <1>1, <4>1, <4>2, AvailFacts
    <3>4. uart' = u /\ UNCHANGED <<pc, call, io>>
      BY <2>1, <2>4 DEF IsrReceive
    <3>5. TypeInv'
      BY <1>1, <2>2, <3>2, <3>3, <3>4 DEF FastInv, TypeInv, FastTypeOK, FifoFits
    <3>6. EnablesAgree'
      BY <2>2, <3>2, <3>4 DEF FastInv, EnablesAgree
    <3>7. TransmitArmed'
      BY <3>2, <3>4 DEF FastInv, TransmitArmed
    <3>8. OffIsNoticed' /\ RxHasWork'
      BY <1>4, <3>2 DEF OffIsNoticed, RxHasWork
    <3>9. PauseHasData'
      BY <2>2, <3>4 DEF PauseHasData
    <3> QED
      BY <3>5, <3>6, <3>7, <3>8, <3>9 DEF FastInv
  <2> QED
    BY <2>3, <2>4
<1> QED
  BY <1>3, <1>4 DEF IsrReceive

\* Its transmit step keeps the invariant.
LEMMA IsrTransmitInv ==
  ASSUME FastInv, IsrTransmit PROVE FastInv'
<1>1. uart \in UartType /\ sp \in SpType /\ isr \in IsrType /\ Len(uart.tx) <= Depth
  BY Parts
<1>2. ASSUME isr' = [Idle EXCEPT !.at = "loop"]
      PROVE  isr' \in IsrType /\ isr'.at # "rx"
  <2>1. isr' = [at |-> "loop", WI |-> FALSE, avail |-> FALSE, space |-> 0]
    BY <1>2 DEF Idle
  <2>2. 0 \in 0 .. Depth
    BY UartAssumption
  <2> QED
    BY <2>1, <2>2, IdleFacts
<1>3. UNCHANGED <<pc, call, io>> /\ isr.at = "tx"
  BY DEF IsrTransmit
<1>4. CASE /\ isr.space > 0 /\ sp.tx_out # sp.tx_in
           /\ uart' = PutData(uart, sp.tx_buf[sp.tx_out])
           /\ sp' = [sp EXCEPT !.tx_out = Next1(sp.tx_out)]
           /\ isr' = [isr EXCEPT !.space = isr.space - 1]
  <2>1. /\ sp.tx_out \in Index /\ sp.tx_buf[sp.tx_out] \in Nat
        /\ Next1(sp.tx_out) \in Index
    BY <1>1, SpParts, Next1Facts
  <2>2. /\ uart' \in UartType /\ Len(uart'.tx) <= Depth
        /\ uart'.rx = uart.rx /\ uart'.pause_irq = uart.pause_irq
        /\ uart'.ien_AF = uart.ien_AF /\ uart'.ien_AE = uart.ien_AE
    BY <1>1, <1>4, <2>1, PutDataFacts
  <2>3. /\ sp' \in SpType /\ sp'.irq_enable = sp.irq_enable
        /\ sp'.rx_in = sp.rx_in /\ sp'.rx_out = sp.rx_out /\ sp'.tx_in = sp.tx_in
    <3>1. sp' = WithTxOut(sp, Next1(sp.tx_out))
      BY <1>4 DEF WithTxOut
    <3> QED
      BY <1>1, <2>1, <3>1, TxOutFacts
  <2>4. isr.space - 1 \in 0 .. Depth
    BY <1>1, <1>4, UartAssumption DEF IsrType
  <2>5. isr' \in IsrType /\ isr'.at = "tx"
    <3>1. isr' = WithSpace(isr, isr.space - 1)
      BY <1>4 DEF WithSpace
    <3> QED
      BY <1>1, <1>3, <2>4, <3>1, SpaceFacts
  <2>6. TypeInv'
    BY <1>3, <2>2, <2>3, <2>5 DEF FastInv, TypeInv, FastTypeOK, FifoFits
  <2>7. EnablesAgree' /\ PauseHasData' /\ OffIsNoticed'
    BY <1>3, <2>2, <2>3 DEF FastInv, EnablesAgree, PauseHasData, OffIsNoticed
  <2>8. TransmitArmed'
    BY <1>3, <1>4, <2>3 DEF FastInv, TransmitArmed
  <2>9. RxHasWork'
    BY <2>5 DEF RxHasWork
  <2> QED
    BY <2>6, <2>7, <2>8, <2>9 DEF FastInv
<1>5. CASE /\ isr.space > 0 /\ sp.tx_out = sp.tx_in
           /\ sp' = [sp EXCEPT !.irq_enable = sp.irq_enable \ {"WE"}]
           /\ uart' = SetControl(uart, sp'.irq_enable, FALSE)
           /\ isr' = [Idle EXCEPT !.at = "loop"]
  <2>1. sp.irq_enable \ {"WE"} \in SUBSET IrqBits
    BY <1>1, SpParts
  <2>2. /\ sp' \in SpType /\ sp'.irq_enable = sp.irq_enable \ {"WE"}
        /\ sp'.rx_in = sp.rx_in /\ sp'.rx_out = sp.rx_out
        /\ sp'.tx_in = sp.tx_in /\ sp'.tx_out = sp.tx_out
    <3>1. sp' = WithEnable(sp, sp.irq_enable \ {"WE"})
      BY <1>5 DEF WithEnable
    <3> QED
      BY <1>1, <2>1, <3>1, EnableFacts
  <2>3. /\ uart' \in UartType /\ uart'.tx = uart.tx /\ uart'.rx = uart.rx
        /\ uart'.pause_irq = uart.pause_irq
        /\ uart'.ien_AF = ("RE" \in sp'.irq_enable)
        /\ uart'.ien_AE = ("WE" \in sp'.irq_enable)
    <3>1. PICK e : e = sp'.irq_enable /\ uart' = SetControl(uart, e, FALSE)
      BY <1>5
    <3>2. Wrote(uart, e, uart')
      BY <1>1, <3>1, SetControlFacts
    <3> QED
      BY <3>1, <3>2 DEF Wrote
  <2>4. TypeInv'
    BY <1>1, <1>2, <1>3, <1>5, <2>2, <2>3 DEF FastInv, TypeInv, FastTypeOK, FifoFits
  <2>5. EnablesAgree' /\ PauseHasData' /\ OffIsNoticed'
    BY <1>3, <2>2, <2>3 DEF FastInv, EnablesAgree, PauseHasData, OffIsNoticed
  <2>6. TransmitArmed' /\ RxHasWork'
    BY <1>2, <1>5, <2>2 DEF TransmitArmed, RxHasWork
  <2> QED
    BY <2>4, <2>5, <2>6 DEF FastInv
<1>6. CASE isr' = [Idle EXCEPT !.at = "loop"] /\ UNCHANGED <<uart, sp>>
  <2>1. isr' \in IsrType /\ isr'.at # "rx"
    BY <1>2, <1>6
  <2> QED
    BY <1>3, <1>6, <2>1 DEF FastInv, TypeInv, FastTypeOK, FifoFits, EnablesAgree,
       TransmitArmed, OffIsNoticed, PauseHasData, RxHasWork
<1> QED
  BY <1>4, <1>5, <1>6 DEF IsrTransmit

\* The routine of the timer keeps the invariant.
LEMMA TimerRoutineInv ==
  ASSUME FastInv, TimerRoutine PROVE FastInv'
<1>1. uart \in UartType /\ sp \in SpType /\ Len(uart.tx) <= Depth
  BY Parts
<1>2. PICK n \in 0 .. IntMax - 2 : sp' = WithInactive(sp, n)
  <2>1. sp.host_inactive \in 0 .. IntMax - 2
    BY <1>1, SpParts
  <2>2. CASE uart.ac
    <3>1. 0 \in 0 .. IntMax - 2 /\ sp' = WithInactive(sp, 0)
      <4>1. 0 \in 0 .. IntMax - 2
        BY FastAssumption
      <4>2. sp' = WithInactive(sp, 0)
        BY <2>2 DEF TimerRoutine, WithInactive
      <4> QED
        BY <4>1, <4>2
    <3> QED
      BY <3>1
  <2>3. CASE ~ uart.ac
    <3>1. /\ sp.host_inactive < IntMax - 2
          /\ sp' = WithInactive(sp, sp.host_inactive + 1)
      BY <2>3 DEF TimerRoutine, WithInactive
    <3>2. sp.host_inactive + 1 \in 0 .. IntMax - 2
      BY <2>1, <3>1, FastAssumption
    <3> QED
      BY <3>1, <3>2
  <2> QED
    BY <2>2, <2>3
<1>3. /\ sp' \in SpType /\ sp'.irq_enable = sp.irq_enable
      /\ sp'.rx_in = sp.rx_in /\ sp'.rx_out = sp.rx_out
      /\ sp'.tx_in = sp.tx_in /\ sp'.tx_out = sp.tx_out
  BY <1>1, <1>2, InactiveFacts
<1>4. /\ uart' \in UartType /\ uart'.tx = uart.tx /\ uart'.rx = uart.rx
      /\ uart'.pause_irq = uart.pause_irq
      /\ uart'.ien_AF = ("RE" \in sp.irq_enable)
      /\ uart'.ien_AE = ("WE" \in sp.irq_enable)
  <2>1. CASE uart.ac
    <3>1. PICK e : e = sp.irq_enable /\ uart' = SetControl(uart, e, TRUE)
      BY <2>1 DEF TimerRoutine
    <3>2. Wrote(uart, e, uart')
      BY <1>1, <3>1, SetControlFacts
    <3> QED
      BY <3>1, <3>2 DEF Wrote
  <2>2. CASE ~ uart.ac
    BY <1>1, <2>2 DEF TimerRoutine, FastInv, EnablesAgree
  <2> QED
    BY <2>1, <2>2
<1>5. UNCHANGED <<isr, pc, call, io>>
  BY DEF TimerRoutine
<1>6. TypeInv'
  BY <1>1, <1>3, <1>4, <1>5 DEF FastInv, TypeInv, FastTypeOK, FifoFits
<1>7. EnablesAgree' /\ PauseHasData' /\ OffIsNoticed' /\ TransmitArmed' /\ RxHasWork'
  BY <1>3, <1>4, <1>5 DEF FastInv, EnablesAgree, PauseHasData, OffIsNoticed,
     TransmitArmed, RxHasWork
<1> QED
  BY <1>6, <1>7 DEF FastInv

-----------------------------------------------------------------------------
(* The program. *)

\* A step that is not about to turn an interrupt on, and moves no index.
LEMMA QuietStep ==
  ASSUME FastInv, UNCHANGED <<uart, sp, isr, io>>,
         pc \notin {"w_look", "w_copy", "w_kick", "r_look", "r_kick"},
         pc' \in Places, call' \in CallType
  PROVE  FastInv'
<1>1. TypeInv'
  BY DEF FastInv, TypeInv, FastTypeOK, FifoFits
<1>2. EnablesAgree' /\ PauseHasData' /\ RxHasWork'
  BY DEF FastInv, EnablesAgree, PauseHasData, RxHasWork
<1>3. TransmitArmed' /\ OffIsNoticed'
  BY DEF FastInv, TransmitArmed, OffIsNoticed
<1> QED
  BY <1>1, <1>2, <1>3 DEF FastInv

WithLooked(c, in, out) == [c EXCEPT !.in = in, !.out = out]
WithMoved(c, n) == [c EXCEPT !.left = n, !.some = TRUE]

\* A call has noted the positions of its ring.
LEMMA LookedFacts ==
  ASSUME NEW c \in CallType, NEW in \in Index, NEW out \in Index,
         NEW v, v = WithLooked(c, in, out)
  PROVE  v \in CallType /\ v.some = c.some
BY DEF CallType, WithLooked

\* A call has moved some characters.
LEMMA MovedFacts ==
  ASSUME NEW c \in CallType, NEW n \in Nat, NEW v, v = WithMoved(c, n)
  PROVE  v \in CallType /\ v.some
BY DEF CallType, WithMoved

\* The fields of a call.
LEMMA CallParts ==
  ASSUME NEW c \in CallType
  PROVE  c.left \in Nat /\ c.in \in Index /\ c.out \in Index
BY DEF CallType

\* No call is a call too.
LEMMA NoCallFacts == NoCall \in CallType
<1>1. 0 \in Index
  BY FastAssumption DEF Index
<1> QED
  BY <1>1 DEF NoCall, CallType

\* A call of the program keeps the invariant.
LEMMA CalledInv ==
  ASSUME FastInv, NEW at \in {"w_look", "r_look", "close"}, NEW n \in Nat,
         NEW nb \in BOOLEAN, Called(at, n, nb)
  PROVE  FastInv'
<1>1. call' = [left |-> n, some |-> FALSE, nonblock |-> nb, in |-> 0, out |-> 0]
  BY DEF Called, NoCall
<1>2. 0 \in Index
  BY FastAssumption DEF Index
<1>3. call' \in CallType
  BY <1>1, <1>2 DEF CallType
<1>4. UNCHANGED <<uart, sp, isr, io>> /\ pc = "idle" /\ pc' \in Places
  BY DEF Called, Places
<1> QED
  BY <1>3, <1>4, QuietStep

\* The calls, and the steps that only wait or return.
LEMMA QuietInv ==
  ASSUME FastInv,
         \/ CallWrite \/ CallRead \/ CallClose \/ Close
         \/ WriteSpin \/ WriteTest \/ ReadSpin \/ ReadTest \/ ReadEnd
  PROVE  FastInv'
<1>1. call \in CallType /\ NoCall \in CallType
  BY Parts, NoCallFacts
<1>2. CASE CallWrite
  <2>1. io.written \in Nat
    BY Parts
  <2>2. PICK n \in 1 .. MaxWritten - io.written, nb \in BOOLEAN : Called("w_look", n, nb)
    BY <1>2 DEF CallWrite
  <2>3. n \in Nat
    BY <2>1, <2>2, FastAssumption
  <2> QED
    BY <2>2, <2>3, CalledInv
<1>3. CASE CallRead
  <2>1. PICK n \in 0 .. BufLen - 1, nb \in BOOLEAN : Called("r_look", n, nb)
    BY <1>3 DEF CallRead
  <2>2. n \in Nat
    BY <2>1, FastAssumption
  <2> QED
    BY <2>1, <2>2, CalledInv
<1>4. CASE CallClose
  <2>1. PICK nb \in BOOLEAN : Called("close", 0, nb)
    BY <1>4 DEF CallClose
  <2>2. 0 \in Nat
    OBVIOUS
  <2> QED
    BY <2>1, <2>2, CalledInv
<1>5. CASE Close
  <2>1. /\ UNCHANGED <<uart, sp, isr, io>> /\ pc = "close" /\ pc' = "idle"
        /\ call' = NoCall
    BY <1>5 DEF Close, Return
  <2> QED
    BY <1>1, <2>1, QuietStep DEF Places
<1>6. CASE WriteSpin
  BY <1>1, <1>6, QuietStep DEF WriteSpin, Places
<1>7. CASE WriteTest
  <2>1. /\ UNCHANGED <<uart, sp, isr, io>> /\ pc = "w_test"
        /\ pc' \in {"idle", "w_look"} /\ call' \in {call, NoCall}
    BY <1>7 DEF WriteTest, Return
  <2> QED
    BY <1>1, <2>1, QuietStep DEF Places
<1>8. CASE ReadSpin
  BY <1>1, <1>8, QuietStep DEF ReadSpin, Places
<1>9. CASE ReadTest
  BY <1>1, <1>9, QuietStep DEF ReadTest, Places
<1>10. CASE ReadEnd
  <2>1. /\ UNCHANGED <<uart, sp, isr, io>> /\ pc = "r_end" /\ pc' = "idle"
        /\ call' = NoCall
    BY <1>10 DEF ReadEnd, Return
  <2> QED
    BY <1>1, <2>1, QuietStep DEF Places
<1> QED
  BY <1>2, <1>3, <1>4, <1>5, <1>6, <1>7, <1>8, <1>9, <1>10

\* The look of write at its ring keeps the invariant.
LEMMA WriteLookInv ==
  ASSUME FastInv, WriteLook PROVE FastInv'
<1>1. sp \in SpType /\ call \in CallType
  BY Parts
<1>2. call' \in CallType
  <2>1. call' = WithLooked(call, sp.tx_in, sp.tx_out)
    BY DEF WriteLook, WithLooked
  <2> QED
    BY <1>1, <2>1, SpParts, LookedFacts
<1>3. /\ UNCHANGED <<uart, sp, isr, io>> /\ pc = "w_look"
      /\ pc' \in {"w_kick", "w_copy"}
  BY DEF WriteLook
<1>4. TypeInv'
  BY <1>2, <1>3 DEF FastInv, TypeInv, FastTypeOK, FifoFits, Places
<1>5. EnablesAgree' /\ PauseHasData' /\ RxHasWork'
  BY <1>3 DEF FastInv, EnablesAgree, PauseHasData, RxHasWork
<1>6. TransmitArmed' /\ OffIsNoticed'
  BY <1>3 DEF FastInv, TransmitArmed, OffIsNoticed
<1> QED
  BY <1>4, <1>5, <1>6 DEF FastInv

\* The copy of write keeps the invariant.
LEMMA WriteCopyInv ==
  ASSUME FastInv, WriteCopy PROVE FastInv'
<1>1. /\ sp \in SpType /\ call \in CallType /\ io.written \in Nat
      /\ io \in [written : Nat, read : Seq(Nat)]
  BY Parts
<1>2. call.left \in Nat /\ call.in \in Index /\ call.out \in Index
  BY <1>1, CallParts
<1> DEFINE n == Least(TxRoom(call.in, call.out), call.left)
           b == [i \in 0 .. BufLen - 1 |->
                   IF i \in call.in .. call.in + n - 1
                   THEN io.written + 1 + i - call.in ELSE sp.tx_buf[i]]
<1>3. /\ sp' = WithTxIn(sp, (call.in + n) % BufLen, b)
      /\ io' = [io EXCEPT !.written = io.written + n]
      /\ call' = WithMoved(call, call.left - n)
      /\ pc' \in {"w_look", "w_kick"} /\ pc = "w_copy"
      /\ UNCHANGED <<uart, isr>>
  BY DEF WriteCopy, WithTxIn, WithMoved
<1>4. /\ n \in Nat /\ n <= call.left /\ (call.in + n) % BufLen \in Index
  BY <1>2, TxRoomFacts
<1> HIDE DEF n
<1>5. b \in [Index -> Nat]
  <2>1. sp.tx_buf \in [Index -> Nat] /\ Index = 0 .. BufLen - 1
    BY <1>1, SpParts DEF Index
  <2>2. \A i \in Index :
          (IF i \in call.in .. call.in + n - 1
           THEN io.written + 1 + i - call.in ELSE sp.tx_buf[i]) \in Nat
    <3>1. \A i \in call.in .. call.in + n - 1 : io.written + 1 + i - call.in \in Nat
      <4>1. call.in \in Nat /\ n \in Nat /\ io.written \in Nat
        BY <1>1, <1>2, <1>4, <2>1, FastAssumption
      <4> QED
        BY <4>1
    <3>2. \A i \in Index : sp.tx_buf[i] \in Nat
      BY <2>1
    <3> QED
      BY <3>1, <3>2
  <2> QED
    BY <2>1, <2>2
<1> HIDE DEF b
<1>6. /\ sp' \in SpType /\ sp'.irq_enable = sp.irq_enable
      /\ sp'.rx_in = sp.rx_in /\ sp'.rx_out = sp.rx_out
  BY SMTT(30), <1>1, <1>3, <1>4, <1>5, TxInFacts
<1>7. call' \in CallType
  <2>1. call.left - n \in Nat
    BY <1>2, <1>4
  <2> QED
    BY <1>1, <1>3, <2>1, MovedFacts
<1>8. io' \in [written : Nat, read : Seq(Nat)]
  <2>1. io.written + n \in Nat
    BY <1>1, <1>4
  <2> QED
    BY <1>1, <1>3, <2>1
<1>9. TypeInv'
  BY <1>3, <1>6, <1>7, <1>8 DEF FastInv, TypeInv, FastTypeOK, FifoFits, Places
<1>10. EnablesAgree' /\ PauseHasData' /\ RxHasWork'
  BY <1>3, <1>6 DEF FastInv, EnablesAgree, PauseHasData, RxHasWork
<1>11. TransmitArmed' /\ OffIsNoticed'
  BY <1>3, <1>6 DEF FastInv, TransmitArmed, OffIsNoticed
<1> QED
  BY <1>9, <1>10, <1>11 DEF FastInv

\* What turning an interrupt on changes.
LEMMA EnableStep ==
  ASSUME FastInv, NEW bit \in IrqBits, Enable(bit)
  PROVE  /\ sp' \in SpType /\ sp'.irq_enable = sp.irq_enable \cup {bit}
         /\ sp'.rx_in = sp.rx_in /\ sp'.rx_out = sp.rx_out
         /\ sp'.tx_in = sp.tx_in /\ sp'.tx_out = sp.tx_out
         /\ uart' \in UartType /\ uart'.tx = uart.tx /\ uart'.rx = uart.rx
         /\ uart'.pause_irq = uart.pause_irq /\ EnablesAgree'
<1>1. uart \in UartType /\ sp \in SpType
  BY Parts
<1>2. sp.irq_enable \cup {bit} \in SUBSET IrqBits
  BY <1>1, SpParts
<1>3. sp' = WithEnable(sp, sp.irq_enable \cup {bit})
  BY DEF Enable, WithEnable
<1>4. /\ sp' \in SpType /\ sp'.irq_enable = sp.irq_enable \cup {bit}
      /\ sp'.rx_in = sp.rx_in /\ sp'.rx_out = sp.rx_out
      /\ sp'.tx_in = sp.tx_in /\ sp'.tx_out = sp.tx_out
  BY <1>1, <1>2, <1>3, EnableFacts
<1>5. PICK e : e = sp'.irq_enable /\ uart' = SetControl(uart, e, FALSE)
  BY DEF Enable
<1>6. Wrote(uart, e, uart')
  BY <1>1, <1>5, SetControlFacts
<1> QED
  BY <1>4, <1>5, <1>6 DEF Wrote, EnablesAgree

\* The enable at the end of write keeps the invariant.
LEMMA WriteKickInv ==
  ASSUME FastInv, WriteKick PROVE FastInv'
<1>1. /\ Enable("WE") /\ "WE" \in IrqBits /\ pc = "w_kick" /\ isr.at = "idle"
      /\ UNCHANGED <<isr, io>>
  BY DEF WriteKick, IrqBits, Running
<1>2. pc' \in {"w_spin", "idle"} /\ call' \in {call, NoCall}
  BY DEF WriteKick, Return
<1>3. /\ sp' \in SpType /\ sp'.irq_enable = sp.irq_enable \cup {"WE"}
      /\ sp'.rx_in = sp.rx_in /\ sp'.rx_out = sp.rx_out
      /\ uart' \in UartType /\ uart'.tx = uart.tx /\ uart'.rx = uart.rx
      /\ uart'.pause_irq = uart.pause_irq /\ EnablesAgree'
  BY <1>1, EnableStep
<1>4. call' \in CallType
  BY <1>2, Parts, NoCallFacts
<1>5. TypeInv'
  BY <1>1, <1>2, <1>3, <1>4 DEF FastInv, TypeInv, FastTypeOK, FifoFits, Places
<1>6. PauseHasData' /\ RxHasWork'
  BY <1>1, <1>3 DEF FastInv, PauseHasData, RxHasWork
<1>7. TransmitArmed' /\ OffIsNoticed'
  BY <1>1, <1>2, <1>3 DEF FastInv, TransmitArmed, OffIsNoticed
<1> QED
  BY <1>3, <1>5, <1>6, <1>7 DEF FastInv

\* The look of read at its ring keeps the invariant.
LEMMA ReadLookInv ==
  ASSUME FastInv, ReadLook PROVE FastInv'
<1>1. sp \in SpType /\ call \in CallType /\ NoCall \in CallType
  BY Parts, NoCallFacts
<1>2. UNCHANGED <<uart, sp, isr, io>> /\ pc = "r_look"
  BY DEF ReadLook
<1>3. CASE call.left = 0 /\ ~ call.some
  <2>1. pc' = "idle" /\ call' = NoCall
    BY <1>3 DEF ReadLook, Return
  <2>2. TypeInv'
    BY <1>1, <1>2, <2>1 DEF FastInv, TypeInv, FastTypeOK, FifoFits, Places
  <2>3. EnablesAgree' /\ PauseHasData' /\ RxHasWork' /\ TransmitArmed'
    BY <1>2, <2>1 DEF FastInv, EnablesAgree, PauseHasData, RxHasWork, TransmitArmed
  <2>4. OffIsNoticed'
    BY <1>2, <1>3, <2>1 DEF FastInv, OffIsNoticed
  <2> QED
    BY <2>2, <2>3, <2>4 DEF FastInv
<1>4. CASE ~ (call.left = 0 /\ ~ call.some)
  <2>1. /\ call' = WithLooked(call, sp.rx_in, sp.rx_out)
        /\ pc' = IF sp.rx_in # sp.rx_out THEN "r_copy"
                 ELSE IF call.some THEN "r_kick"
                 ELSE IF call.nonblock THEN "r_end"
                 ELSE "r_spin"
    BY <1>4 DEF ReadLook, WithLooked
  <2>2. call' \in CallType /\ call'.some = call.some
    BY <1>1, <2>1, SpParts, LookedFacts
  <2>3. TypeInv'
    BY <1>2, <2>1, <2>2 DEF FastInv, TypeInv, FastTypeOK, FifoFits, Places
  <2>4. EnablesAgree' /\ PauseHasData' /\ RxHasWork' /\ TransmitArmed'
    BY <1>2, <2>1 DEF FastInv, EnablesAgree, PauseHasData, RxHasWork, TransmitArmed
  <2>5. OffIsNoticed'
    BY <1>2, <2>1, <2>2 DEF FastInv, OffIsNoticed
  <2> QED
    BY <2>3, <2>4, <2>5 DEF FastInv
<1> QED
  BY <1>3, <1>4

\* The copy of read keeps the invariant.
LEMMA ReadCopyInv ==
  ASSUME FastInv, ReadCopy PROVE FastInv'
<1>1. /\ sp \in SpType /\ call \in CallType
      /\ io \in [written : Nat, read : Seq(Nat)] /\ io.read \in Seq(Nat)
  BY Parts
<1>2. call.left \in Nat /\ call.in \in Index /\ call.out \in Index
  BY <1>1, CallParts
<1> DEFINE n == Least(RxCount(call.in, call.out), call.left)
           r == [i \in 1 .. n |-> sp.rx_buf[call.out + i - 1]]
<1>3. /\ sp' = WithRxOut(sp, (call.out + n) % BufLen)
      /\ io' = [io EXCEPT !.read = io.read \o r]
      /\ call' = WithMoved(call, call.left - n)
      /\ pc' \in {"r_look", "r_kick"} /\ pc = "r_copy" /\ isr.at = "idle"
      /\ UNCHANGED <<uart, isr>>
  BY DEF ReadCopy, WithRxOut, WithMoved, Running
<1>4. /\ n \in Nat /\ n <= call.left /\ call.out + n <= BufLen
      /\ (call.out + n) % BufLen \in Index
  BY <1>2, RxCountFacts
<1> HIDE DEF n
<1>5. r \in Seq(Nat)
  <2>1. sp.rx_buf \in [Index -> Nat] /\ Index = 0 .. BufLen - 1
    BY <1>1, SpParts DEF Index
  <2>2. \A i \in 1 .. n : sp.rx_buf[call.out + i - 1] \in Nat
    <3>1. \A i \in 1 .. n : call.out + i - 1 \in Index
      BY SMTT(30), <1>2, <1>4, <2>1, FastAssumption
    <3> QED
      BY <2>1, <3>1
  <2> QED
    BY <1>4, <2>2
<1> HIDE DEF r
<1>6. /\ sp' \in SpType /\ sp'.irq_enable = sp.irq_enable
      /\ sp'.tx_in = sp.tx_in /\ sp'.tx_out = sp.tx_out
  BY <1>1, <1>3, <1>4, RxOutFacts
<1>7. call' \in CallType /\ call'.some
  <2>1. call.left - n \in Nat
    BY <1>2, <1>4
  <2> QED
    BY <1>1, <1>3, <2>1, MovedFacts
<1>8. io' \in [written : Nat, read : Seq(Nat)]
  <2>1. io.read \o r \in Seq(Nat)
    BY <1>1, <1>5
  <2> QED
    BY <1>1, <1>3, <2>1
<1>9. TypeInv'
  BY <1>3, <1>6, <1>7, <1>8 DEF FastInv, TypeInv, FastTypeOK, FifoFits, Places
<1>10. EnablesAgree' /\ PauseHasData' /\ RxHasWork'
  BY <1>3, <1>6 DEF FastInv, EnablesAgree, PauseHasData, RxHasWork
<1>11. TransmitArmed' /\ OffIsNoticed'
  BY <1>3, <1>6, <1>7 DEF FastInv, TransmitArmed, OffIsNoticed
<1> QED
  BY <1>9, <1>10, <1>11 DEF FastInv

\* The enable at the end of read keeps the invariant.
LEMMA ReadKickInv ==
  ASSUME FastInv, ReadKick PROVE FastInv'
<1>1. /\ Enable("RE") /\ "RE" \in IrqBits /\ pc = "r_kick" /\ isr.at = "idle"
      /\ pc' = "idle" /\ call' = NoCall /\ UNCHANGED <<isr, io>>
  BY DEF ReadKick, IrqBits, Running, Return
<1>2. /\ sp' \in SpType /\ sp'.irq_enable = sp.irq_enable \cup {"RE"}
      /\ sp'.tx_in = sp.tx_in /\ sp'.tx_out = sp.tx_out
      /\ uart' \in UartType /\ uart'.tx = uart.tx /\ uart'.rx = uart.rx
      /\ uart'.pause_irq = uart.pause_irq /\ EnablesAgree'
  BY <1>1, EnableStep
<1>3. TypeInv'
  BY <1>1, <1>2, NoCallFacts DEF FastInv, TypeInv, FastTypeOK, FifoFits, Places
<1>4. PauseHasData' /\ RxHasWork'
  BY <1>1, <1>2 DEF FastInv, PauseHasData, RxHasWork
<1>5. TransmitArmed' /\ OffIsNoticed'
  BY <1>1, <1>2 DEF FastInv, TransmitArmed, OffIsNoticed
<1> QED
  BY <1>2, <1>3, <1>4, <1>5 DEF FastInv

\* Setting the timeout keeps the invariant.
LEMMA SetTimeoutInv ==
  ASSUME FastInv, SetTimeout PROVE FastInv'
<1>1. sp \in SpType
  BY Parts
<1>2. PICK t \in 2 .. IntMax : sp' = WithTimeout(sp, t)
  <2>1. PICK t \in 1 .. IntMax :
           sp' = WithTimeout(sp, IF t \in 2 .. IntMax - 1 THEN t ELSE IntMax - 1)
    BY DEF SetTimeout, WithTimeout
  <2>2. (IF t \in 2 .. IntMax - 1 THEN t ELSE IntMax - 1) \in 2 .. IntMax
    BY FastAssumption
  <2> QED
    BY <2>1, <2>2
<1>3. /\ sp' \in SpType /\ sp'.irq_enable = sp.irq_enable
      /\ sp'.rx_in = sp.rx_in /\ sp'.rx_out = sp.rx_out
      /\ sp'.tx_in = sp.tx_in /\ sp'.tx_out = sp.tx_out
  BY <1>1, <1>2, TimeoutFacts
<1>4. UNCHANGED <<uart, isr, pc, call, io>>
  BY DEF SetTimeout
<1>5. TypeInv'
  BY <1>3, <1>4 DEF FastInv, TypeInv, FastTypeOK, FifoFits
<1>6. EnablesAgree' /\ PauseHasData' /\ RxHasWork' /\ TransmitArmed' /\ OffIsNoticed'
  BY <1>3, <1>4 DEF FastInv, EnablesAgree, PauseHasData, RxHasWork, TransmitArmed,
     OffIsNoticed
<1> QED
  BY <1>5, <1>6 DEF FastInv

-----------------------------------------------------------------------------
(* The host. *)

\* Every step of the host and the device keeps the invariant.
LEMMA HostInv ==
  ASSUME FastInv, Host PROVE FastInv'
<1>1. uart \in UartType /\ Len(uart.tx) <= Depth
  BY Parts
<1>2. UNCHANGED <<sp, isr, pc, call, io>>
  BY DEF Host
<1>3. ASSUME uart' \in UartType, Len(uart'.tx) <= Depth,
             uart'.ien_AF = uart.ien_AF, uart'.ien_AE = uart.ien_AE,
             uart.rx # <<>> => uart'.rx # <<>>, PauseHasData'
      PROVE  FastInv'
  <2>1. TypeInv'
    BY <1>2, <1>3 DEF FastInv, TypeInv, FastTypeOK, FifoFits
  <2>2. EnablesAgree' /\ RxHasWork' /\ TransmitArmed' /\ OffIsNoticed'
    BY <1>2, <1>3 DEF FastInv, EnablesAgree, RxHasWork, TransmitArmed, OffIsNoticed
  <2> QED
    BY <1>3, <2>1, <2>2 DEF FastInv
<1>4. CASE HostSends
  <2>1. uart' = Arrive(uart)
    BY <1>4 DEF HostSends
  <2>2. /\ uart' \in UartType /\ uart'.tx = uart.tx /\ uart'.rx # <<>>
        /\ uart'.pause_irq = uart.pause_irq
        /\ uart'.ien_AF = uart.ien_AF /\ uart'.ien_AE = uart.ien_AE
    BY <1>1, <2>1, ArriveFacts
  <2> QED
    BY <1>1, <1>3, <2>2 DEF PauseHasData
<1>5. CASE HostTakes
  <2>1. /\ uart.tx \in Seq(Nat) /\ uart.tx # <<>> /\ uart.took \in Seq(Nat)
    BY <1>1, <1>5 DEF HostTakes, UartType
  <2>2. /\ Tail(uart.tx) \in Seq(Nat) /\ Len(Tail(uart.tx)) <= Depth
        /\ Append(uart.took, Head(uart.tx)) \in Seq(Nat)
    BY <1>1, <2>1, UartAssumption
  <2>3. uart' = [uart EXCEPT !.tx = Tail(uart.tx),
                             !.took = Append(uart.took, Head(uart.tx))]
    BY <1>5 DEF HostTakes
  <2>4. /\ uart' \in UartType /\ uart'.tx = Tail(uart.tx) /\ uart'.rx = uart.rx
        /\ uart'.pause_irq = uart.pause_irq
        /\ uart'.ien_AF = uart.ien_AF /\ uart'.ien_AE = uart.ien_AE
    BY <1>1, <2>2, <2>3 DEF UartType
  <2> QED
    BY <1>3, <2>2, <2>4 DEF FastInv, PauseHasData
<1>6. CASE HostPauses
  <2>1. (uart.pause_irq \/ uart.rx # <<>>) \in BOOLEAN
    OBVIOUS
  <2>2. uart' = [uart EXCEPT !.ac = TRUE,
                             !.pause_irq = uart.pause_irq \/ uart.rx # <<>>]
    BY <1>6 DEF HostPauses
  <2>3. uart' \in UartType
    BY <1>1, <2>1, <2>2 DEF UartType
  <2>4. /\ uart'.tx = uart.tx /\ uart'.rx = uart.rx
        /\ uart'.ien_AF = uart.ien_AF /\ uart'.ien_AE = uart.ien_AE
        /\ uart'.pause_irq => uart.pause_irq \/ uart.rx # <<>>
    BY <1>1, <2>2 DEF UartType
  <2> QED
    BY <1>1, <1>3, <2>3, <2>4 DEF FastInv, PauseHasData
<1> QED
  BY <1>4, <1>5, <1>6 DEF Host

-----------------------------------------------------------------------------
(* The invariant holds, and with it what the driver promises. *)

\* The initial states satisfy the invariant.
LEMMA FastInitInv ==
  ASSUME FastInit PROVE FastInv
<1>1. BufLen \in Nat /\ BufLen > 1 /\ IntMax \in Nat /\ Timeout \in 2 .. IntMax - 2
  BY FastAssumption
<1>2. 0 \in Index /\ 0 \in 0 .. IntMax - 2 /\ Timeout \in 2 .. IntMax /\ IntMax \in 2 .. IntMax
  BY <1>1 DEF Index
<1>3. sp \in SpType /\ sp.irq_enable = {"RE"} /\ sp.tx_in = sp.tx_out
  <2>1. PICK clock \in BOOLEAN : sp = Started(clock)
    BY DEF FastInit
  <2>2. [i \in 0 .. BufLen - 1 |-> 0] \in [Index -> Nat]
    BY DEF Index
  <2>3. {"RE"} \in SUBSET IrqBits
    BY DEF IrqBits
  <2>4. (IF clock THEN Timeout ELSE IntMax) \in 2 .. IntMax
    BY <1>2
  <2> DEFINE b == [i \in 0 .. BufLen - 1 |-> 0]
             t == IF clock THEN Timeout ELSE IntMax
  <2>5. sp = [rx_in |-> 0, rx_out |-> 0, tx_in |-> 0, tx_out |-> 0,
              rx_buf |-> b, tx_buf |-> b, irq_enable |-> {"RE"},
              host_inactive |-> 0, timeout |-> t, alarm |-> clock]
    BY <2>1 DEF Started
  <2>6. b \in [Index -> Nat] /\ t \in 2 .. IntMax
    BY <2>2, <2>4
  <2> HIDE DEF b, t
  <2> QED
    BY <1>2, <2>3, <2>5, <2>6 DEF SpType
<1>4. UartReset \in UartType /\ UartReset.tx = <<>> /\ ~ UartReset.pause_irq
  <2>1. <<>> \in Seq(Nat)
    OBVIOUS
  <2> QED
    BY <2>1 DEF UartReset, UartType
<1>5. Wrote(UartReset, {"RE"}, uart)
  <2>1. uart = SetControl(UartReset, {"RE"}, FALSE)
    BY DEF FastInit
  <2> QED
    BY <1>4, <2>1, SetControlFacts
<1>6. /\ uart \in UartType /\ uart.tx = <<>> /\ ~ uart.pause_irq
      /\ uart.ien_AF = ("RE" \in {"RE"}) /\ uart.ien_AE = ("WE" \in {"RE"})
  BY <1>4, <1>5 DEF Wrote
<1>7. isr \in IsrType /\ isr.at # "rx"
  <2>1. isr = [at |-> "idle", WI |-> FALSE, avail |-> FALSE, space |-> 0]
    BY DEF FastInit, Idle
  <2>2. 0 \in 0 .. Depth
    BY UartAssumption
  <2> QED
    BY <2>1, <2>2, IdleFacts
<1>8. io \in [written : Nat, read : Seq(Nat)]
  <2>1. <<>> \in Seq(Nat) /\ 0 \in Nat
    OBVIOUS
  <2> QED
    BY <2>1 DEF FastInit, NoIO
<1>9. FifoFits
  <2>1. Len(<<>>) <= Depth
    BY UartAssumption
  <2> QED
    BY <1>6, <2>1 DEF FifoFits
<1>10. TypeInv
  BY <1>3, <1>6, <1>7, <1>8, <1>9, NoCallFacts DEF FastInit, TypeInv, FastTypeOK, Places
<1>11. EnablesAgree
  BY <1>3, <1>6 DEF EnablesAgree
<1>12. TransmitArmed /\ OffIsNoticed /\ PauseHasData /\ RxHasWork
  BY <1>3, <1>6, <1>7 DEF TransmitArmed, OffIsNoticed, PauseHasData, RxHasWork
<1> QED
  BY <1>10, <1>11, <1>12 DEF FastInv

\* Every step keeps the invariant.
LEMMA FastStepInv ==
  ASSUME FastInv, [FastNext]_fastVars PROVE FastInv'
<1>1. CASE FastProgram
  BY <1>1, QuietInv, WriteLookInv, WriteCopyInv, WriteKickInv, ReadLookInv, ReadCopyInv,
     ReadKickInv, SetTimeoutInv DEF FastProgram
<1>2. CASE Interrupt
  BY <1>2, IsrLoopInv, IsrReceiveInv, IsrTransmitInv DEF Interrupt
<1>3. CASE TimerRoutine
  BY <1>3, TimerRoutineInv
<1>4. CASE Host
  BY <1>4, HostInv
<1>5. CASE UNCHANGED fastVars
  BY <1>5 DEF fastVars, FastInv, TypeInv, FastTypeOK, FifoFits, EnablesAgree,
     TransmitArmed, OffIsNoticed, PauseHasData, RxHasWork
<1> QED
  BY <1>1, <1>2, <1>3, <1>4, <1>5 DEF FastNext

\* Whatever the program, the host, the interrupts and the timer do, and in
\* any order, all parts of the invariant hold.
THEOREM FastInvariant == FastSpec => []FastInv
<1>1. FastInit => FastInv
  BY FastInitInv
<1>2. FastInv /\ [FastNext]_fastVars => FastInv'
  BY FastStepInv
<1> QED
  BY <1>1, <1>2, PTL DEF FastSpec

\* The indices of the driver stay in its rings, and its counters in range.
THEOREM FastTypes == FastSpec => []FastTypeOK
<1>1. FastInv => FastTypeOK
  BY DEF FastInv, TypeInv
<1> QED
  BY <1>1, FastInvariant, PTL

\* The device is never enabled otherwise than the driver believes.
THEOREM EnablesAlwaysAgree == FastSpec => []EnablesAgree
<1>1. FastInv => EnablesAgree
  BY DEF FastInv
<1> QED
  BY <1>1, FastInvariant, PTL

\* No ring is ever left waiting for an interrupt that nobody will turn on.
THEOREM AlwaysArmed == FastSpec => []Armed
<1>1. FastInv => Armed
  BY DEF FastInv, Armed, ReceiveArmed, OffIsNoticed
<1> QED
  BY <1>1, FastInvariant, PTL

-----------------------------------------------------------------------------
(* Sequences of characters. *)

\* Sequences with the same characters are the same.
LEMMA SameSeq ==
  ASSUME NEW s \in Seq(Nat), NEW t \in Seq(Nat), NEW n \in Nat,
         Len(s) = n, Len(t) = n, \A i \in 1 .. n : s[i] = t[i]
  PROVE  s = t
OBVIOUS

\* q is a sequence of m and then n characters, those of s and of t.
IsJoin(q, s, t, m, n) ==
  /\ q \in Seq(Nat) /\ Len(q) = m + n
  /\ \A i \in 1 .. m : q[i] = s[i]
  /\ \A i \in m + 1 .. m + n : q[i] = t[i - m]

\* What joining two sequences gives.
LEMMA JoinFacts ==
  ASSUME NEW s \in Seq(Nat), NEW t \in Seq(Nat), NEW m \in Nat, NEW n \in Nat,
         m = Len(s), n = Len(t)
  PROVE  IsJoin(s \o t, s, t, m, n)
BY DEF IsJoin

\* A sequence falls into its first element and the rest.
LEMMA HeadAndTail ==
  ASSUME NEW s \in Seq(Nat), s # <<>>
  PROVE  /\ Head(s) \in Nat /\ Tail(s) \in Seq(Nat)
         /\ <<Head(s)>> \in Seq(Nat) /\ Len(<<Head(s)>>) = 1
         /\ s = <<Head(s)>> \o Tail(s)
<1>1. Head(s) \in Nat /\ Tail(s) \in Seq(Nat) /\ Head(s) = s[1] /\ Len(s) \in Nat \ {0}
  BY HeadTailProperties, EmptySeq
<1>2. 1 \in 1 .. Len(s) /\ Len(s) \in 1 .. Len(s)
  BY <1>1
<1>3. SubSeq(s, 1, Len(s)) = <<s[1]>> \o SubSeq(s, 1 + 1, Len(s))
  BY <1>2, SubSeqRecursiveFirst
<1>4. SubSeq(s, 1, Len(s)) = s /\ SubSeq(s, 2, Len(s)) = Tail(s)
  BY SubSeqFull, TailIsSubSeq
<1>5. <<Head(s)>> \in Seq(Nat) /\ Len(<<Head(s)>>) = 1
  BY <1>1
<1> QED
  BY <1>1, <1>3, <1>4, <1>5

\* y has the m characters of q that follow the n-th.
IsPart(y, q, n, m) ==
  y \in Seq(Nat) /\ Len(y) = m /\ \A i \in 1 .. m : y[i] = q[n + i]

\* The m elements of a sequence that follow the n-th.
LEMMA SubSeqFacts ==
  ASSUME NEW q, NEW n \in Nat, NEW m \in Nat, NEW k \in Int, k = n + 1,
         NEW p \in Int, p = n + m, \A i \in k .. p : q[i] \in Nat,
         NEW y, y = SubSeq(q, k, p)
  PROVE  IsPart(y, q, n, m)
<1>4. /\ y \in Seq(Nat) /\ Len(y) = (IF k <= p THEN p - k + 1 ELSE 0)
      /\ \A i \in 1 .. p - k + 1 : y[i] = q[k + i - 1]
  BY SubSeqProperties
<1>5. Len(y) = m
  BY <1>4
<1>6. ASSUME NEW i \in 1 .. m PROVE y[i] = q[n + i]
  <2>1. i \in 1 .. p - k + 1 /\ k + i - 1 = n + i
    OBVIOUS
  <2> QED
    BY <1>4, <2>1
<1> QED
  BY <1>4, <1>5, <1>6 DEF IsPart

\* The first m elements of a sequence.
LEMMA SubSeqFrom1 ==
  ASSUME NEW q, NEW m \in Nat, \A i \in 1 .. m : q[i] \in Nat,
         NEW y, y = SubSeq(q, 1, m)
  PROVE  y \in Seq(Nat) /\ Len(y) = m /\ \A i \in 1 .. m : y[i] = q[i]
<1>1. PICK z \in Nat : z = 0
  OBVIOUS
<1>2. 1 = z + 1 /\ m = z + m /\ 1 \in Int /\ m \in Int
  BY <1>1
<1>3. IsPart(y, q, z, m)
  BY <1>2, SubSeqFacts
<1> QED
  BY <1>1, <1>3 DEF IsPart

\* Two pieces joined fall into the same pieces again.
LEMMA JoinSplits ==
  ASSUME NEW a \in Seq(Nat), NEW b \in Seq(Nat), NEW q, q = a \o b,
         NEW n \in Nat, n = Len(a)
  PROVE  /\ q \in Seq(Nat) /\ SubSeq(q, 1, n) = a /\ SubSeq(q, n + 1, Len(q)) = b
         /\ n <= Len(q) /\ (n > 0 => q # <<>>)
<1>1. PICK m \in Nat : m = Len(b)
  OBVIOUS
<1>2. /\ q \in Seq(Nat) /\ Len(q) = n + m
      /\ \A i \in 1 .. n : q[i] = a[i]
      /\ \A i \in n + 1 .. n + m : q[i] = b[i - n]
  BY <1>1, JoinFacts DEF IsJoin
<1>3. PICK x : x = SubSeq(q, 1, n)
  OBVIOUS
<1>4. x \in Seq(Nat) /\ Len(x) = n /\ \A i \in 1 .. n : x[i] = q[i]
  <2>1. \A i \in 1 .. n : q[i] \in Nat
    BY <1>2
  <2> QED
    BY <1>3, <2>1, SubSeqFrom1
<1>5. x = a
  <2>1. \A i \in 1 .. n : x[i] = a[i]
    BY <1>2, <1>4
  <2> QED
    BY <1>4, <2>1, SameSeq
<1>6. PICK y : y = SubSeq(q, n + 1, n + m)
  OBVIOUS
<1>7. y \in Seq(Nat) /\ Len(y) = m /\ \A i \in 1 .. m : y[i] = q[n + i]
  <2>1. PICK k \in Int : k = n + 1
    OBVIOUS
  <2>2. PICK p \in Int : p = n + m
    OBVIOUS
  <2>3. ASSUME NEW i \in k .. p PROVE q[i] \in Nat
    <3>1. i \in 1 .. Len(q)
      BY <1>2, <2>1, <2>2
    <3> QED
      BY <1>2, <3>1
  <2>4. y = SubSeq(q, k, p)
    BY <1>6, <2>1, <2>2
  <2>5. IsPart(y, q, n, m)
    BY <2>1, <2>2, <2>3, <2>4, SubSeqFacts
  <2> QED
    BY <2>5 DEF IsPart
<1>8. ASSUME NEW i \in 1 .. m PROVE y[i] = b[i]
  <2>1. n + i \in n + 1 .. n + m /\ (n + i) - n = i
    OBVIOUS
  <2> QED
    BY <1>2, <1>7, <2>1
<1>9. y = b
  BY <1>1, <1>7, <1>8, SameSeq
<1>10. n <= Len(q) /\ (n > 0 => q # <<>>)
  BY <1>2
<1> QED
  BY <1>2, <1>3, <1>5, <1>6, <1>9, <1>10

-----------------------------------------------------------------------------
(* The rings. *)

\* The contents of a buffer.
Buffers == [Index -> Nat]

\* How many characters a ring holds.
Fill(in, out) == (in - out) % BufLen

\* Where the k-th character of a ring is.
Place(out, k) == (out + k - 1) % BufLen

\* In numbers, the characters that lie from `out' up to `in', and where the k-th
\* of them is, in a ring of b positions; and a position that moved on by n.
Between(b, in, out) == IF in >= out THEN in - out ELSE in - out + b
At(b, out, k) == IF out + k - 1 < b THEN out + k - 1 ELSE out + k - 1 - b
Onward(b, i, n) == IF i + n = b THEN 0 ELSE i + n

\* A ring of b positions has the m from `out' up to `in' taken; the position
\* `at' moves on by n to e.  p are taken then.
Moves(b, in, out, m, n, at, e) ==
  /\ b \in Nat /\ in \in Nat /\ out \in Nat /\ m \in Nat /\ n \in Nat /\ e \in Nat
  /\ in < b /\ out < b /\ at + n <= b
  /\ m = Between(b, in, out) /\ e = Onward(b, at, n)
MovesIn(b, in, out, m, n, e, p) ==
  Moves(b, in, out, m, n, in, e) /\ p \in Nat /\ p = m + n /\ p < b
MovesOut(b, in, out, m, n, e, p) ==
  Moves(b, in, out, m, n, out, e) /\ p \in Nat /\ m = n + p

\* When n more are taken from `in' on, the m stay where they are, and the n come
\* after them.
ComeLast(b, in, out, m, n, e, p) ==
  /\ p = Between(b, e, out)
  /\ \A k \in 1 .. m, j \in Nat : j = At(b, out, k) => j < in \/ j >= in + n
  /\ \A i \in 1 .. n, j \in Nat : j = At(b, out, m + i) => j = in + i - 1

\* When the n from `out' on are given back, they were the first, and the rest
\* stay where they are.
CameFirst(b, in, out, n, e, p) ==
  /\ p = Between(b, in, e)
  /\ \A k \in 1 .. n : At(b, out, k) = out + k - 1
  /\ \A i \in 1 .. p : At(b, out, n + i) = At(b, e, i)

\* What is put comes last.
LEMMA PutPlaces ==
  ASSUME NEW b, NEW in, NEW out, NEW m, NEW n, NEW e, NEW p,
         MovesIn(b, in, out, m, n, e, p)
  PROVE  ComeLast(b, in, out, m, n, e, p)
BY DEF ComeLast, MovesIn, Moves, Between, At, Onward

\* What is taken came first.
LEMMA TakePlaces ==
  ASSUME NEW b, NEW in, NEW out, NEW m, NEW n, NEW e, NEW p,
         MovesOut(b, in, out, m, n, e, p)
  PROVE  CameFirst(b, in, out, n, e, p)
BY DEF CameFirst, MovesOut, Moves, Between, At, Onward

\* A position that ran off the end of a ring, or off its beginning, wraps round.
LEMMA WrapFacts ==
  ASSUME NEW x \in Int
  PROVE  /\ 0 <= x /\ x < BufLen => x % BufLen = x
         /\ BufLen <= x /\ x < 2 * BufLen => x % BufLen = x - BufLen
         /\ - BufLen <= x /\ x < 0 => x % BufLen = x + BufLen
<1>1. BufLen \in Nat \ {0}
  BY FastAssumption
<1> QED
  BY <1>1, WrapOnce

\* The characters of a ring lie from `out' up to `in', and wrap round.
LEMMA FillFacts ==
  ASSUME NEW in \in Index, NEW out \in Index
  PROVE  /\ Fill(in, out) \in 0 .. BufLen - 1
         /\ Fill(in, out) = Between(BufLen, in, out)
<1>1. BufLen \in Nat /\ BufLen > 1 /\ in \in 0 .. BufLen - 1 /\ out \in 0 .. BufLen - 1
  BY FastAssumption DEF Index
<1>2. CASE in >= out
  <2>1. (in - out) % BufLen = in - out
    BY <1>1, <1>2, WrapFacts
  <2> QED
    BY <1>1, <1>2, <2>1 DEF Fill, Between
<1>3. CASE in < out
  <2>1. (in - out) % BufLen = in - out + BufLen
    BY <1>1, <1>3, WrapFacts
  <2> QED
    BY <1>1, <1>3, <2>1 DEF Fill, Between
<1> QED
  BY <1>1, <1>2, <1>3

\* The place of a character, once round at most.
LEMMA PlaceFacts ==
  ASSUME NEW out \in Index, NEW k \in 1 .. BufLen
  PROVE  /\ Place(out, k) \in Index
         /\ Place(out, k) = At(BufLen, out, k)
<1>1. BufLen \in Nat /\ BufLen > 1 /\ out \in 0 .. BufLen - 1 /\ out + k - 1 \in Nat
  BY FastAssumption DEF Index
<1>2. CASE out + k - 1 < BufLen
  <2>1. (out + k - 1) % BufLen = out + k - 1
    BY <1>1, <1>2, WrapFacts
  <2> QED
    BY <1>1, <1>2, <2>1 DEF Place, At, Index
<1>3. CASE BufLen <= out + k - 1
  <2>1. (out + k - 1) % BufLen = out + k - 1 - BufLen
    BY <1>1, <1>3, WrapFacts
  <2> QED
    BY <1>1, <1>3, <2>1 DEF Place, At, Index
<1> QED
  BY <1>1, <1>2, <1>3

\* r has the m characters of a ring that starts at `out'.
IsRing(r, buf, out, m) ==
  r \in Seq(Nat) /\ Len(r) = m /\ \A k \in 1 .. m : r[k] = buf[Place(out, k)]

\* A ring is a sequence of characters.
LEMMA RingFacts ==
  ASSUME NEW buf \in Buffers, NEW in \in Index, NEW out \in Index,
         NEW m, m = Fill(in, out)
  PROVE  IsRing(Ring(buf, in, out), buf, out, m)
<1>1. m \in 0 .. BufLen - 1 /\ BufLen \in Nat
  BY FillFacts, FastAssumption
<1>2. \A k \in 1 .. m : k \in 1 .. BufLen
  BY <1>1
<1>3. \A k \in 1 .. m : Place(out, k) \in Index
  BY <1>2, PlaceFacts
<1>4. PICK r : r = Ring(buf, in, out)
  OBVIOUS
<1>5. r = [k \in 1 .. m |-> buf[Place(out, k)]]
  BY <1>4 DEF Ring, Fill, Place
<1>6. \A k \in 1 .. m : buf[Place(out, k)] \in Nat
  BY <1>3 DEF Buffers
<1> QED
  BY <1>1, <1>4, <1>5, <1>6 DEF IsRing

\* The position n on from another.
On(i, n) == (i + n) % BufLen

\* The position n on from another, with no end of the ring between.
LEMMA OnFacts ==
  ASSUME NEW i \in Index, NEW n \in Nat, i + n <= BufLen
  PROVE  /\ On(i, n) \in Index
         /\ On(i, n) = Onward(BufLen, i, n)
<1>1. BufLen \in Nat /\ BufLen > 1 /\ i \in 0 .. BufLen - 1
  BY FastAssumption DEF Index
<1>2. CASE i + n = BufLen
  <2>1. (i + n) % BufLen = (i + n) - BufLen
    BY <1>1, <1>2, WrapFacts
  <2> QED
    BY <1>1, <1>2, <2>1 DEF Index, On, Onward
<1>3. CASE i + n < BufLen
  <2>1. (i + n) % BufLen = i + n
    BY <1>1, <1>3, WrapFacts
  <2> QED
    BY <1>1, <1>3, <2>1 DEF Index, On, Onward
<1> QED
  BY <1>1, <1>2, <1>3

\* There is room for n characters from `in' on, without wrapping; there are n
\* from `out' on.
RoomFor(in, out, n) == in + n <= BufLen /\ Fill(in, out) + n < BufLen
HasRun(in, out, n) == out + n <= BufLen /\ n <= Fill(in, out)

\* `new' is the buffer `buf' with the n characters d written from `in' on.
Written(buf, new, in, n, d) ==
  /\ \A i \in 1 .. n : new[in + i - 1] = d[i]
  /\ \A j \in Index : j < in \/ j >= in + n => new[j] = buf[j]

\* The n characters d are those of the buffer from `out' on.
From(buf, out, n, d) == \A i \in 1 .. n : d[i] = buf[out + i - 1]

\* n characters are put into a ring with room for them.
PutRun(buf, new, in, out, n, d, e) ==
  /\ buf \in Buffers /\ new \in Buffers
  /\ in \in Index /\ out \in Index /\ d \in Seq(Nat) /\ n \in Nat /\ n = Len(d)
  /\ RoomFor(in, out, n) /\ Written(buf, new, in, n, d) /\ e = On(in, n)

\* n characters are taken from a ring that has them.
TakeRun(buf, in, out, n, d, e) ==
  /\ buf \in Buffers
  /\ in \in Index /\ out \in Index /\ d \in Seq(Nat) /\ n \in Nat /\ n = Len(d)
  /\ HasRun(in, out, n) /\ From(buf, out, n, d) /\ e = On(out, n)

\* Characters written from `in' on, where there is room, come last in the ring.
LEMMA RingPutRun ==
  ASSUME NEW buf \in Buffers, NEW new \in Buffers,
         NEW in \in Index, NEW out \in Index, NEW n \in Nat, NEW d \in Seq(Nat),
         NEW e, PutRun(buf, new, in, out, n, d, e)
  PROVE  /\ e \in Index /\ Ring(new, e, out) = Ring(buf, in, out) \o d
         /\ Fill(e, out) = Fill(in, out) + n
<1>0. n = Len(d) /\ RoomFor(in, out, n) /\ Written(buf, new, in, n, d) /\ e = On(in, n)
  BY DEF PutRun
<1>1. /\ BufLen \in Nat /\ in \in Nat /\ in < BufLen /\ out \in Nat /\ out < BufLen
      /\ Index \subseteq Nat
  BY FastAssumption DEF Index
<1>2. PICK m \in Nat : m = Fill(in, out) /\ m < BufLen
  BY <1>1, FillFacts
<1>3. /\ m = Between(BufLen, in, out)
      /\ in + n <= BufLen /\ m + n < BufLen
  BY <1>0, <1>2, FillFacts DEF RoomFor
<1>4. e \in Index /\ e \in Nat /\ e = Onward(BufLen, in, n)
  BY <1>0, <1>1, <1>3, OnFacts
<1>5. PICK p \in Nat : p = m + n
  OBVIOUS
<1>6. ComeLast(BufLen, in, out, m, n, e, p)
  <2>1. MovesIn(BufLen, in, out, m, n, e, p)
    BY <1>1, <1>2, <1>3, <1>4, <1>5 DEF MovesIn, Moves
  <2> QED
    BY <2>1, PutPlaces
<1>7. p = Fill(e, out)
  BY <1>4, <1>6, FillFacts DEF ComeLast
<1>8. PICK r : r = Ring(buf, in, out)
  OBVIOUS
<1>9. IsRing(r, buf, out, m)
  BY <1>2, <1>8, RingFacts
<1>10. PICK s : s = Ring(new, e, out)
  OBVIOUS
<1>11. IsRing(s, new, out, p)
  BY <1>4, <1>7, <1>10, RingFacts
<1>12. PICK q : q = r \o d
  OBVIOUS
<1>13. IsJoin(q, r, d, m, n)
  BY <1>0, <1>9, <1>12, JoinFacts DEF IsRing
<1>14. ASSUME NEW k \in 1 .. p PROVE s[k] = q[k]
  <2>1. k \in 1 .. BufLen
    BY <1>1, <1>2, <1>3, <1>5
  <2>2. PICK j \in Index : j = Place(out, k)
    BY <2>1, PlaceFacts
  <2>3. /\ j = At(BufLen, out, k)
        /\ j \in Nat
    BY <1>1, <2>1, <2>2, PlaceFacts
  <2>4. s[k] = new[j]
    BY <1>11, <2>2 DEF IsRing
  <2>5. CASE k <= m
    <3>1. k \in 1 .. m
      BY <2>5
    <3>2. j < in \/ j >= in + n
      BY <1>6, <2>3, <3>1 DEF ComeLast
    <3>3. q[k] = buf[j]
      BY <1>9, <1>13, <2>2, <3>1 DEF IsRing, IsJoin
    <3> QED
      BY <1>0, <2>4, <3>2, <3>3 DEF Written
  <2>6. CASE k > m
    <3>1. PICK i \in 1 .. n : k = m + i /\ k - m = i
      BY <1>5, <2>6
    <3>2. j = in + i - 1
      BY <1>6, <2>3, <3>1 DEF ComeLast
    <3>3. k \in m + 1 .. m + n
      BY <1>5, <2>6
    <3>4. q[k] = d[i]
      BY <1>13, <3>1, <3>3 DEF IsJoin
    <3> QED
      BY <1>0, <2>4, <3>2, <3>4 DEF Written
  <2> QED
    BY <2>5, <2>6
<1>15. s = q
  BY <1>5, <1>11, <1>13, <1>14, SameSeq DEF IsRing, IsJoin
<1> QED
  BY <1>2, <1>4, <1>5, <1>7, <1>8, <1>10, <1>12, <1>15

\* Of which nothing but the one fact is asked.
LEMMA RingPut ==
  ASSUME NEW buf, NEW new, NEW in, NEW out, NEW n, NEW d, NEW e,
         PutRun(buf, new, in, out, n, d, e)
  PROVE  /\ e \in Index /\ Ring(new, e, out) = Ring(buf, in, out) \o d
         /\ Fill(e, out) = Fill(in, out) + n
<1>1. /\ buf \in Buffers /\ new \in Buffers
      /\ in \in Index /\ out \in Index /\ d \in Seq(Nat) /\ n \in Nat
  BY DEF PutRun
<1> QED
  BY <1>1, RingPutRun

\* Characters taken from `out' on are the first of the ring.
LEMMA RingTakeRun ==
  ASSUME NEW buf \in Buffers, NEW in \in Index, NEW out \in Index,
         NEW n \in Nat, NEW d \in Seq(Nat), NEW e, TakeRun(buf, in, out, n, d, e)
  PROVE  /\ e \in Index /\ Ring(buf, in, out) = d \o Ring(buf, in, e)
         /\ Fill(in, out) = n + Fill(in, e)
<1>0. n = Len(d) /\ HasRun(in, out, n) /\ From(buf, out, n, d) /\ e = On(out, n)
  BY DEF TakeRun
<1>1. /\ BufLen \in Nat /\ in \in Nat /\ in < BufLen /\ out \in Nat /\ out < BufLen
      /\ Index \subseteq Nat
  BY FastAssumption DEF Index
<1>2. PICK m \in Nat : m = Fill(in, out) /\ m < BufLen
  BY <1>1, FillFacts
<1>3. m = Between(BufLen, in, out)
      /\ n <= m /\ out + n <= BufLen
  BY <1>0, <1>2, FillFacts DEF HasRun
<1>4. e \in Index /\ e \in Nat /\ e = Onward(BufLen, out, n)
  BY <1>0, <1>1, <1>3, OnFacts
<1>5. PICK p \in Nat : m = n + p
  <2>1. n <= m /\ m - n \in Nat /\ m = n + (m - n)
    BY <1>3
  <2> QED
    BY <2>1
<1>6. CameFirst(BufLen, in, out, n, e, p)
  <2>1. MovesOut(BufLen, in, out, m, n, e, p)
    BY <1>1, <1>2, <1>3, <1>4, <1>5 DEF MovesOut, Moves
  <2> QED
    BY <2>1, TakePlaces
<1>7. p = Fill(in, e)
  BY <1>4, <1>6, FillFacts DEF CameFirst
<1>8. PICK r : r = Ring(buf, in, out)
  OBVIOUS
<1>9. IsRing(r, buf, out, m)
  BY <1>2, <1>8, RingFacts
<1>10. PICK s : s = Ring(buf, in, e)
  OBVIOUS
<1>11. IsRing(s, buf, e, p)
  BY <1>4, <1>7, <1>10, RingFacts
<1>12. PICK q : q = d \o s
  OBVIOUS
<1>13. IsJoin(q, d, s, n, p)
  BY <1>0, <1>11, <1>12, JoinFacts DEF IsRing
<1>14. ASSUME NEW k \in 1 .. m PROVE r[k] = q[k]
  <2>1. k \in 1 .. BufLen
    BY <1>1, <1>2
  <2>2. PICK j \in Index : j = Place(out, k)
    BY <2>1, PlaceFacts
  <2>3. /\ j = At(BufLen, out, k)
        /\ j \in Nat
    BY <1>1, <2>1, <2>2, PlaceFacts
  <2>4. r[k] = buf[j]
    BY <1>9, <2>2 DEF IsRing
  <2>5. CASE k <= n
    <3>1. k \in 1 .. n
      BY <2>5
    <3>2. j = out + k - 1
      BY <1>6, <2>3, <3>1 DEF CameFirst
    <3>3. d[k] = buf[out + k - 1]
      BY <1>0, <3>1 DEF From
    <3> QED
      BY <1>13, <2>4, <3>1, <3>2, <3>3 DEF IsJoin
  <2>6. CASE k > n
    <3>1. PICK i \in 1 .. p : k = n + i /\ k - n = i
      BY <1>5, <2>6
    <3>2. i \in 1 .. BufLen
      BY <1>1, <1>2, <1>5
    <3>3. Place(e, i) = At(BufLen, e, i)
      BY <1>4, <3>2, PlaceFacts
    <3>4. Place(e, i) = j
      BY <1>6, <2>3, <3>1, <3>2, <3>3 DEF CameFirst
    <3>5. k \in n + 1 .. n + p
      BY <1>5, <2>6
    <3>6. q[k] = s[i] /\ s[i] = buf[Place(e, i)]
      BY <1>11, <1>13, <3>1, <3>5 DEF IsRing, IsJoin
    <3> QED
      BY <2>4, <3>4, <3>6
  <2> QED
    BY <2>5, <2>6
<1>15. r = q
  BY <1>5, <1>9, <1>13, <1>14, SameSeq DEF IsRing, IsJoin
<1> QED
  BY <1>2, <1>4, <1>5, <1>7, <1>8, <1>10, <1>12, <1>15

\* Of which nothing but the one fact is asked.
LEMMA RingTake ==
  ASSUME NEW buf, NEW in, NEW out, NEW n, NEW d, NEW e,
         TakeRun(buf, in, out, n, d, e)
  PROVE  /\ e \in Index /\ Ring(buf, in, out) = d \o Ring(buf, in, e)
         /\ Fill(in, out) = n + Fill(in, e)
<1>1. /\ buf \in Buffers
      /\ in \in Index /\ out \in Index /\ d \in Seq(Nat) /\ n \in Nat
  BY DEF TakeRun
<1> QED
  BY <1>1, RingTakeRun

\* A copy into the transmit ring ends before it reaches `tx_out'.
LEMMA TxRoomFill ==
  ASSUME NEW in \in Index, NEW out \in Index, NEW left \in Nat,
         NEW n, n = Least(TxRoom(in, out), left)
  PROVE  in + n <= BufLen /\ Fill(in, out) + n < BufLen
<1>1. /\ BufLen \in Nat /\ BufLen > 1
      /\ in \in 0 .. BufLen - 1 /\ out \in 0 .. BufLen - 1
  BY FastAssumption DEF Index
<1>2. Fill(in, out) = Between(BufLen, in, out)
  BY FillFacts
<1>3. /\ TxRoom(in, out) \in Nat /\ in + TxRoom(in, out) <= BufLen
      /\ Between(BufLen, in, out) \in Nat
      /\ Between(BufLen, in, out) + TxRoom(in, out) < BufLen
  BY <1>1 DEF TxRoom, Between
<1>4. n \in Nat /\ n <= TxRoom(in, out)
  BY <1>3 DEF Least
<1> QED
  BY <1>1, <1>2, <1>3, <1>4

\* A copy from the receive ring takes no more than is there.
LEMMA RxCountFill ==
  ASSUME NEW in \in Index, NEW out \in Index, NEW left \in Nat,
         NEW n, n = Least(RxCount(in, out), left)
  PROVE  out + n <= BufLen /\ n <= Fill(in, out)
<1>1. /\ BufLen \in Nat /\ BufLen > 1
      /\ in \in 0 .. BufLen - 1 /\ out \in 0 .. BufLen - 1
  BY FastAssumption DEF Index
<1>2. Fill(in, out) = Between(BufLen, in, out)
  BY FillFacts
<1>3. /\ RxCount(in, out) \in Nat /\ out + RxCount(in, out) <= BufLen
      /\ Between(BufLen, in, out) \in Nat
      /\ RxCount(in, out) <= Between(BufLen, in, out)
  BY <1>1 DEF RxCount, Between
<1>4. n \in Nat /\ n <= RxCount(in, out)
  BY <1>3 DEF Least
<1> QED
  BY <1>1, <1>2, <1>3, <1>4

\* The interrupt routine puts a character only where the ring is not full.
LEMMA NotFull ==
  ASSUME NEW in \in Index, NEW out \in Index, Next1(in) # out
  PROVE  RoomFor(in, out, 1) /\ Next1(in) = On(in, 1)
<1>1. /\ BufLen \in Nat /\ BufLen > 1
      /\ in \in 0 .. BufLen - 1 /\ out \in 0 .. BufLen - 1
  BY FastAssumption DEF Index
<1>2. Fill(in, out) = Between(BufLen, in, out)
  BY FillFacts
<1>3. Next1(in) = On(in, 1)
  BY DEF Next1, On
<1>4. On(in, 1) = Onward(BufLen, in, 1)
  BY <1>1, OnFacts
<1>5. in + 1 <= BufLen /\ Between(BufLen, in, out) + 1 < BufLen
  BY <1>1, <1>3, <1>4 DEF Onward, Between
<1> QED
  BY <1>2, <1>3, <1>5 DEF RoomFor

\* A ring whose indices differ has a character to take; with equal indices it
\* is empty.
LEMMA NotEmpty ==
  ASSUME NEW in \in Index, NEW out \in Index
  PROVE  /\ in # out => HasRun(in, out, 1) /\ Next1(out) = On(out, 1)
         /\ in = out => Fill(in, out) = 0
<1>1. /\ BufLen \in Nat /\ BufLen > 1
      /\ in \in 0 .. BufLen - 1 /\ out \in 0 .. BufLen - 1
  BY FastAssumption DEF Index
<1>2. Fill(in, out) = Between(BufLen, in, out)
  BY FillFacts
<1>3. Next1(out) = On(out, 1)
  BY DEF Next1, On
<1>4. /\ in = out => Between(BufLen, in, out) = 0
      /\ in # out => out + 1 <= BufLen /\ 1 <= Between(BufLen, in, out)
  BY <1>1 DEF Between
<1> QED
  BY <1>2, <1>3, <1>4 DEF HasRun

\* A ring holds a sequence of characters; none when its indices agree.
LEMMA RingIsSeq ==
  ASSUME NEW buf \in Buffers, NEW in \in Index, NEW out \in Index
  PROVE  Ring(buf, in, out) \in Seq(Nat) /\ (in = out => Ring(buf, in, out) = <<>>)
<1>1. PICK m \in Nat : m = Fill(in, out)
  BY FillFacts, FastAssumption
<1>2. PICK r : r = Ring(buf, in, out)
  OBVIOUS
<1>3. r \in Seq(Nat) /\ Len(r) = m
  BY <1>1, <1>2, RingFacts DEF IsRing
<1>4. ASSUME in = out PROVE r = <<>>
  <2>1. Len(r) = 0
    BY <1>1, <1>3, <1>4, NotEmpty
  <2> QED
    BY <1>3, <2>1
<1> QED
  BY <1>2, <1>3, <1>4

\* A buffer with one character stored in it.
Stored(buf, in, c) == [buf EXCEPT ![in] = c]

\* One character put into a ring that is not full comes last.
LEMMA RingPutOne ==
  ASSUME NEW buf \in Buffers, NEW in \in Index, NEW out \in Index,
         NEW c \in Nat, Next1(in) # out, NEW new, new = Stored(buf, in, c),
         NEW e, e = Next1(in)
  PROVE  /\ e \in Index /\ Ring(new, e, out) = Ring(buf, in, out) \o <<c>>
         /\ Fill(e, out) = Fill(in, out) + 1
<1>1. PICK d : d = <<c>>
  OBVIOUS
<1>2. d \in Seq(Nat) /\ Len(d) = 1 /\ d[1] = c
  BY <1>1
<1>3. new \in Buffers /\ \A j \in Index : new[j] = IF j = in THEN c ELSE buf[j]
  BY DEF Stored, Buffers
<1>4. RoomFor(in, out, 1) /\ e = On(in, 1)
  BY NotFull
<1>5. Written(buf, new, in, 1, d)
  <2>1. BufLen \in Nat /\ in \in 0 .. BufLen - 1
    BY FastAssumption DEF Index
  <2>2. ASSUME NEW i \in 1 .. 1 PROVE new[in + i - 1] = d[i]
    <3>1. i = 1 /\ in + i - 1 = in
      BY <2>1
    <3> QED
      BY <1>2, <1>3, <3>1
  <2>3. ASSUME NEW j \in Index, j < in \/ j >= in + 1 PROVE new[j] = buf[j]
    <3>1. j # in
      BY <2>1, <2>3
    <3> QED
      BY <1>3, <3>1
  <2> QED
    BY <2>2, <2>3 DEF Written
<1>6. PICK n \in Nat : n = 1
  OBVIOUS
<1>7. PutRun(buf, new, in, out, n, d, e)
  BY <1>2, <1>3, <1>4, <1>5, <1>6 DEF PutRun
<1>8. e \in Index /\ Ring(new, e, out) = Ring(buf, in, out) \o d
      /\ Fill(e, out) = Fill(in, out) + n
  BY <1>7, RingPut
<1> QED
  BY <1>1, <1>6, <1>8

\* One character taken from a ring that is not empty was its first.
LEMMA RingTakeOne ==
  ASSUME NEW buf \in Buffers, NEW in \in Index, NEW out \in Index, in # out,
         NEW e, e = Next1(out)
  PROVE  /\ e \in Index /\ buf[out] \in Nat
         /\ Ring(buf, in, out) = <<buf[out]>> \o Ring(buf, in, e)
         /\ Fill(in, out) = 1 + Fill(in, e)
<1>1. PICK d : d = <<buf[out]>>
  OBVIOUS
<1>2. buf[out] \in Nat /\ d \in Seq(Nat) /\ Len(d) = 1 /\ d[1] = buf[out]
  BY <1>1 DEF Buffers
<1>3. HasRun(in, out, 1) /\ e = On(out, 1)
  BY NotEmpty
<1>4. From(buf, out, 1, d)
  <2>1. BufLen \in Nat /\ out \in 0 .. BufLen - 1
    BY FastAssumption DEF Index
  <2>2. ASSUME NEW i \in 1 .. 1 PROVE d[i] = buf[out + i - 1]
    <3>1. i = 1 /\ out + i - 1 = out
      BY <2>1
    <3> QED
      BY <1>2, <3>1
  <2> QED
    BY <2>2 DEF From
<1>5. PICK n \in Nat : n = 1
  OBVIOUS
<1>6. TakeRun(buf, in, out, n, d, e)
  BY <1>2, <1>3, <1>4, <1>5 DEF TakeRun
<1>7. /\ e \in Index /\ Ring(buf, in, out) = d \o Ring(buf, in, e)
      /\ Fill(in, out) = n + Fill(in, e)
  BY <1>6, RingTake
<1> QED
  BY <1>1, <1>2, <1>5, <1>7

-----------------------------------------------------------------------------
(* The channels. *)

\* Two sequences, and what comes of putting the second after the first: an
\* operator of its own, so that the facts below are found by their form.
Join(s, t) == s \o t

\* A channel: what was sent, what arrived, what is on its way.
Chan(w, g, q) == [sent |-> w, got |-> g, queue |-> q]

\* The two channels of Console, as the device, the driver and the program hold
\* them: `w' characters were written and `r' are those that were read.
OutChan(u, s, w) ==
  Chan(w, u.took, Join(u.tx, Ring(s.tx_buf, s.tx_in, s.tx_out)))
InChan(u, s, r) ==
  Chan(u.sent, r, Join(Ring(s.rx_buf, s.rx_in, s.rx_out), u.rx))

OutNow == OutChan(uart, sp, io.written)
InNow == InChan(uart, sp, io.read)

\* A step of Console, or none.
ConsoleStep ==
  \/ OutNow' = OutNow /\ InNow' = InNow
  \/ InNow' = InNow /\ \E n \in 1 .. MaxWritten : OutNow' = C!Put(OutNow, n)
  \/ InNow' = InNow /\ OutNow.queue # <<>> /\ OutNow' = C!Take(OutNow, 1)
  \/ OutNow' = OutNow /\ InNow' = C!Put(InNow, 1)
  \/ OutNow' = OutNow /\ \E n \in 1 .. Len(InNow.queue) : InNow' = C!Take(InNow, n)

\* It is a step of Console.
LEMMA StepsAreConsole ==
  ASSUME ConsoleStep PROVE C!Next \/ UNCHANGED C!vars
<1>1. CASE OutNow' = OutNow /\ InNow' = InNow
  BY <1>1 DEF OutNow, InNow, OutChan, InChan, Chan, Join, C!vars
<1>2. CASE InNow' = InNow /\ \E n \in 1 .. MaxWritten : OutNow' = C!Put(OutNow, n)
  BY <1>2 DEF OutNow, InNow, OutChan, InChan, Chan, Join, C!Next, C!Writes
<1>3. CASE InNow' = InNow /\ OutNow.queue # <<>> /\ OutNow' = C!Take(OutNow, 1)
  BY <1>3 DEF OutNow, InNow, OutChan, InChan, Chan, Join, C!Next, C!HostTakes
<1>4. CASE OutNow' = OutNow /\ InNow' = C!Put(InNow, 1)
  BY <1>4 DEF OutNow, InNow, OutChan, InChan, Chan, Join, C!Next, C!HostSends
<1>5. CASE OutNow' = OutNow /\ \E n \in 1 .. Len(InNow.queue) : InNow' = C!Take(InNow, n)
  BY <1>5 DEF OutNow, InNow, OutChan, InChan, Chan, Join, C!Next, C!Reads
<1> QED
  BY <1>1, <1>2, <1>3, <1>4, <1>5 DEF ConsoleStep

\* Joining is associative, and the empty sequence adds nothing.
LEMMA JoinAssociates ==
  ASSUME NEW a \in Seq(Nat), NEW b \in Seq(Nat), NEW c \in Seq(Nat)
  PROVE  /\ Join(a, b) \in Seq(Nat) /\ Join(a, Join(b, c)) = Join(Join(a, b), c)
         /\ Join(a, <<>>) = a /\ Join(<<>>, a) = a
<1>1. a \o b \in Seq(Nat)
  OBVIOUS
<1>2. (a \o b) \o c = a \o (b \o c)
  BY ConcatAssociative
<1>3. a \o <<>> = a /\ <<>> \o a = a
  BY ConcatEmptySeq
<1> QED
  BY <1>1, <1>2, <1>3 DEF Join

\* The n characters that follow the w-th.
NextChars(w, n) == [i \in 1 .. n |-> w + i]

\* Two fields of a channel set anew.
SentAndQueue(c, v, p) == [c EXCEPT !.sent = v, !.queue = p]
QueueAndGot(c, b, p) == [c EXCEPT !.queue = b, !.got = p]

\* The fields of a channel into which characters are put.
LEMMA PutFields ==
  ASSUME NEW w, NEW g, NEW q, NEW v, NEW p
  PROVE  SentAndQueue(Chan(w, g, q), v, p) = Chan(v, g, p)
<1>1. [Chan(w, g, q) EXCEPT !.sent = v] = Chan(v, g, q)
  BY DEF Chan
<1>2. SentAndQueue(Chan(w, g, q), v, p) = [Chan(v, g, q) EXCEPT !.queue = p]
  BY <1>1 DEF SentAndQueue
<1>3. [Chan(v, g, q) EXCEPT !.queue = p] = Chan(v, g, p)
  BY DEF Chan
<1> QED
  BY <1>2, <1>3

\* Characters that join the end of a channel's queue are put.
LEMMA PutIs ==
  ASSUME NEW w \in Nat, NEW g, NEW q \in Seq(Nat), NEW n \in Nat
  PROVE  Chan(w + n, g, Join(q, NextChars(w, n))) = C!Put(Chan(w, g, q), n)
<1>1. Chan(w, g, q).sent = w /\ Chan(w, g, q).queue = q
  BY DEF Chan
<1>2. C!Put(Chan(w, g, q), n) = SentAndQueue(Chan(w, g, q), w + n, Join(q, NextChars(w, n)))
  BY <1>1 DEF C!Put, SentAndQueue, Join, NextChars
<1>3. PICK v : v = w + n
  OBVIOUS
<1>4. \A p : SentAndQueue(Chan(w, g, q), v, p) = Chan(v, g, p)
  BY PutFields
<1> QED
  BY <1>2, <1>3, <1>4

\* The fields of a channel from which characters are taken.
LEMMA TakeFields ==
  ASSUME NEW w, NEW g, NEW q, NEW b, NEW p
  PROVE  QueueAndGot(Chan(w, g, q), b, p) = Chan(w, p, b)
<1>1. [Chan(w, g, q) EXCEPT !.queue = b] = Chan(w, g, b)
  BY DEF Chan
<1>2. QueueAndGot(Chan(w, g, q), b, p) = [Chan(w, g, b) EXCEPT !.got = p]
  BY <1>1 DEF QueueAndGot
<1>3. [Chan(w, g, b) EXCEPT !.got = p] = Chan(w, p, b)
  BY DEF Chan
<1> QED
  BY <1>2, <1>3

\* Characters that leave the front of a channel's queue and arrive are taken.
LEMMA TakeIs ==
  ASSUME NEW w, NEW g, NEW a \in Seq(Nat), NEW b \in Seq(Nat)
  PROVE  /\ Chan(w, Join(g, a), b) = C!Take(Chan(w, g, Join(a, b)), Len(a))
         /\ Len(a) <= Len(Chan(w, g, Join(a, b)).queue)
         /\ a # <<>> => Chan(w, g, Join(a, b)).queue # <<>>
<1>1. PICK q : q = Join(a, b)
  OBVIOUS
<1>2. PICK n \in Nat : n = Len(a) /\ (a # <<>> => n > 0)
  OBVIOUS
<1>3. /\ SubSeq(q, 1, n) = a /\ SubSeq(q, n + 1, Len(q)) = b
      /\ n <= Len(q) /\ (n > 0 => q # <<>>)
  BY <1>1, <1>2, JoinSplits DEF Join
<1>4. Chan(w, g, q).queue = q /\ Chan(w, g, q).got = g
  BY DEF Chan
<1>5. C!Take(Chan(w, g, q), n) = QueueAndGot(Chan(w, g, q), b, Join(g, a))
  BY <1>3, <1>4 DEF C!Take, QueueAndGot, Join
<1>6. QueueAndGot(Chan(w, g, q), b, Join(g, a)) = Chan(w, Join(g, a), b)
  BY TakeFields
<1>7. n <= Len(Chan(w, g, q).queue) /\ (n > 0 => Chan(w, g, q).queue # <<>>)
  BY <1>3, <1>4
<1> QED
  BY <1>1, <1>2, <1>5, <1>6, <1>7

\* One character is a sequence.
LEMMA OneChar ==
  ASSUME NEW c \in Nat
  PROVE  <<c>> \in Seq(Nat) /\ Len(<<c>>) = 1 /\ <<c>>[1] = c
OBVIOUS

\* The character that is sent next, alone.
LEMMA NextChar ==
  ASSUME NEW w \in Nat
  PROVE  NextChars(w, 1) = <<w + 1>>
<1>1. NextChars(w, 1) \in Seq(Nat) /\ Len(NextChars(w, 1)) = 1
  BY DEF NextChars
<1>2. PICK d \in Seq(Nat) : d = NextChars(w, 1)
  BY <1>1
<1>3. PICK x \in Nat : x = w + 1
  OBVIOUS
<1>4. d[1] = x
  BY <1>2, <1>3 DEF NextChars
<1>5. PICK t \in Seq(Nat) : t = <<x>>
  BY OneChar
<1>6. PICK n \in Nat : n = 1
  OBVIOUS
<1>7. Len(t) = n /\ t[1] = x /\ Len(d) = n
  BY <1>1, <1>2, <1>5, <1>6, OneChar
<1>8. \A i \in 1 .. n : d[i] = t[i]
  BY <1>4, <1>6, <1>7
<1>9. d = t
  BY <1>7, <1>8, SameSeq
<1> QED
  BY <1>2, <1>3, <1>5, <1>9

\* One more character at the end of a channel is put there.
LEMMA PutOne ==
  ASSUME NEW w \in Nat, NEW g, NEW q \in Seq(Nat)
  PROVE  Chan(w + 1, g, Join(q, <<w + 1>>)) = C!Put(Chan(w, g, q), 1)
<1>1. PICK n \in Nat : n = 1
  OBVIOUS
<1>2. Chan(w + n, g, Join(q, NextChars(w, n))) = C!Put(Chan(w, g, q), n)
  BY PutIs
<1> QED
  BY <1>1, <1>2, NextChar

\* The head and the tail of a sequence, with the join named.
LEMMA HeadJoins ==
  ASSUME NEW s \in Seq(Nat), s # <<>>
  PROVE  /\ Head(s) \in Nat /\ Tail(s) \in Seq(Nat)
         /\ <<Head(s)>> \in Seq(Nat) /\ Len(<<Head(s)>>) = 1
         /\ s = Join(<<Head(s)>>, Tail(s))
BY HeadAndTail DEF Join

\* The last character joins a sequence.
LEMMA AppendJoins ==
  ASSUME NEW s \in Seq(Nat), NEW c \in Nat
  PROVE  Append(s, c) = Join(s, <<c>>) /\ <<c>> \in Seq(Nat) /\ Append(s, c) \in Seq(Nat)
<1>1. Append(s, c) = s \o <<c>>
  BY AppendIsConcat
<1> QED
  BY <1>1 DEF Join

-----------------------------------------------------------------------------
(* The interrupt-driven driver keeps the channels. *)

\* While a copy is made, the interrupt routine only moves the index that the
\* program does not: the transmit ring has drained, the receive ring has filled.
CopyFits ==
  pc = "w_copy" => /\ call.in = sp.tx_in
                   /\ Fill(sp.tx_in, sp.tx_out) <= Fill(call.in, call.out)
ReadFits ==
  pc = "r_copy" => /\ call.out = sp.rx_out
                   /\ Fill(call.in, call.out) <= Fill(sp.rx_in, sp.rx_out)

\* A call writes no more than the program may write in all.
Writing == {"w_look", "w_copy", "w_kick", "w_spin", "w_test"}
WritesBounded == pc \in Writing => io.written + call.left <= MaxWritten

\* The transmit loop never puts a character into a full FIFO.
SpaceIsRoom == isr.space + Len(uart.tx) <= Depth

CopyInv == CopyFits /\ ReadFits /\ WritesBounded
LookInv == CopyInv /\ SpaceIsRoom

\* One side of the device, or of the driver, is as it was.
SameOut(u, v) == v.tx = u.tx /\ v.took = u.took
SameIn(u, v) == v.rx = u.rx /\ v.sent = u.sent
SameTx(s, t) == t.tx_buf = s.tx_buf /\ t.tx_in = s.tx_in /\ t.tx_out = s.tx_out
SameRx(s, t) == t.rx_buf = s.rx_buf /\ t.rx_in = s.rx_in /\ t.rx_out = s.rx_out

\* Then so are the characters on their way.
LEMMA OutStays ==
  ASSUME NEW u, NEW v, NEW s, NEW t, NEW w, SameOut(u, v), SameTx(s, t)
  PROVE  OutChan(v, t, w) = OutChan(u, s, w)
BY DEF SameOut, SameTx, OutChan

\* And those of the other direction.
LEMMA InStays ==
  ASSUME NEW u, NEW v, NEW s, NEW t, NEW r, SameIn(u, v), SameRx(s, t)
  PROVE  InChan(v, t, r) = InChan(u, s, r)
BY DEF SameIn, SameRx, InChan

\* Nothing moved.
LEMMA NothingMoves ==
  ASSUME SameOut(uart, uart'), SameIn(uart, uart'), SameTx(sp, sp'), SameRx(sp, sp'),
         io' = io
  PROVE  ConsoleStep
BY OutStays, InStays DEF ConsoleStep, OutNow, InNow

\* A step of the interrupt routine, or of the host, that moves nothing in the
\* rings leaves a copy as it was.
LEMMA CopyStays ==
  ASSUME CopyInv, SameTx(sp, sp'), SameRx(sp, sp'), pc' = pc, call' = call, io' = io
  PROVE  CopyInv'
BY DEF CopyInv, CopyFits, ReadFits, WritesBounded, SameTx, SameRx

\* The fields of the device.
LEMMA UartParts ==
  ASSUME NEW u \in UartType
  PROVE  /\ u.tx \in Seq(Nat) /\ u.rx \in Seq(Nat) /\ u.took \in Seq(Nat)
         /\ u.sent \in Nat
BY DEF UartType

\* The rings of the driver.
LEMMA SpRings ==
  ASSUME NEW s \in SpType
  PROVE  /\ s.rx_in \in Index /\ s.rx_out \in Index
         /\ s.tx_in \in Index /\ s.tx_out \in Index
         /\ s.rx_buf \in Buffers /\ s.tx_buf \in Buffers
BY SpParts DEF Buffers

\* A write of the control register moves no character.
LEMMA ControlMovesNothing ==
  ASSUME NEW u \in UartType, NEW enable, NEW ack, NEW v, v = SetControl(u, enable, ack)
  PROVE  SameOut(u, v) /\ SameIn(u, v)
BY DEF SetControl, UartType, SameOut, SameIn

\* Neither does a change of another field of the driver.
LEMMA FieldMovesNothing ==
  ASSUME NEW s \in SpType, NEW x, NEW t,
         t = WithEnable(s, x) \/ t = WithInactive(s, x) \/ t = WithTimeout(s, x)
  PROVE  SameTx(s, t) /\ SameRx(s, t)
BY DEF WithEnable, WithInactive, WithTimeout, SpType, SameTx, SameRx

\* A character arrives from the host: it is put at the end of its channel.
LEMMA ArriveMoves ==
  ASSUME NEW u \in UartType, NEW s \in SpType, NEW r, NEW v, v = Arrive(u)
  PROVE  /\ SameOut(u, v) /\ InChan(v, s, r) = C!Put(InChan(u, s, r), 1)
<1>1. PICK q \in Seq(Nat) : q = Ring(s.rx_buf, s.rx_in, s.rx_out)
  BY SpRings, RingIsSeq
<1>2. PICK n \in Nat : n = u.sent
  BY UartParts
<1>3. PICK x \in Seq(Nat) : x = u.rx
  BY UartParts
<1>4. /\ v.sent = n + 1 /\ v.rx = Append(x, n + 1) /\ SameOut(u, v)
  BY <1>2, <1>3 DEF Arrive, UartType, SameOut
<1>5. PICK c \in Nat : c = n + 1
  OBVIOUS
<1>6. PICK d \in Seq(Nat) : d = <<c>> /\ Append(x, c) = Join(x, d)
  BY AppendJoins
<1>7. Join(q, Join(x, d)) = Join(Join(q, x), d) /\ Join(q, x) \in Seq(Nat)
  BY JoinAssociates
<1>8. Chan(n + 1, r, Join(Join(q, x), <<n + 1>>)) = C!Put(Chan(n, r, Join(q, x)), 1)
  BY <1>7, PutOne
<1>9. InChan(v, s, r) = Chan(c, r, Join(q, Append(x, c)))
  BY <1>1, <1>4, <1>5 DEF InChan
<1>10. InChan(u, s, r) = Chan(n, r, Join(q, x))
  BY <1>1, <1>2, <1>3 DEF InChan
<1> QED
  BY <1>4, <1>5, <1>6, <1>7, <1>8, <1>9, <1>10

\* The same, for a step.
LEMMA ArriveStep ==
  ASSUME uart \in UartType, sp \in SpType, uart' = Arrive(uart), sp' = sp, io' = io
  PROVE  ConsoleStep
<1>1. SameOut(uart, uart') /\ InChan(uart', sp, io.read) = C!Put(InChan(uart, sp, io.read), 1)
  BY ArriveMoves
<1>2. OutChan(uart', sp, io.written) = OutChan(uart, sp, io.written)
  BY <1>1, OutStays DEF SameTx
<1> QED
  BY <1>1, <1>2 DEF ConsoleStep, OutNow, InNow

\* The data register is read, and a character may arrive meanwhile.
LEMMA ReadDataMoves ==
  ASSUME NEW u \in UartType, NEW v \in MayArrive(GetData(u)), NEW s \in SpType, NEW r,
         NEW g, g = GetData(u)
  PROVE  /\ g \in UartType /\ g.rx = (IF u.rx = <<>> THEN <<>> ELSE Tail(u.rx))
         /\ g.sent = u.sent /\ SameOut(u, v) /\ v.rx \in Seq(Nat)
         /\ \/ v = g
            \/ v = Arrive(g) /\ InChan(v, s, r) = C!Put(InChan(g, s, r), 1)
<1>1. (IF u.rx = <<>> THEN <<>> ELSE Tail(u.rx)) \in Seq(Nat)
  BY UartParts
<1>2. /\ g \in UartType /\ g.rx = (IF u.rx = <<>> THEN <<>> ELSE Tail(u.rx))
      /\ g.sent = u.sent /\ SameOut(u, g)
  BY <1>1 DEF GetData, UartType, SameOut
<1>3. v = g \/ v = Arrive(g)
  BY DEF MayArrive
<1>4. CASE v = g
  BY <1>2, <1>4, UartParts
<1>5. CASE v = Arrive(g)
  <2>1. SameOut(g, v) /\ InChan(v, s, r) = C!Put(InChan(g, s, r), 1) /\ v \in UartType
    BY <1>2, <1>5, ArriveMoves, ArriveFacts
  <2> QED
    BY <1>2, <1>5, <2>1, UartParts DEF SameOut
<1> QED
  BY <1>3, <1>4, <1>5

\* The interrupt routine moves a character from the FIFO into the ring: what is
\* on its way to the program stays the same.
LEMMA MoveIn ==
  ASSUME NEW u \in UartType, u.rx # <<>>, NEW s \in SpType, Next1(s.rx_in) # s.rx_out,
         NEW t, t = WithRxPut(s, Head(u.rx), Next1(s.rx_in)),
         NEW g, g.sent = u.sent, g.rx = Tail(u.rx), NEW r
  PROVE  /\ InChan(g, t, r) = InChan(u, s, r) /\ SameTx(s, t)
         /\ t.rx_out = s.rx_out
         /\ Fill(t.rx_in, t.rx_out) = Fill(s.rx_in, s.rx_out) + 1
<1>1. PICK x \in Seq(Nat) : x = u.rx /\ x # <<>>
  BY UartParts
<1>2. /\ s.rx_in \in Index /\ s.rx_out \in Index /\ s.rx_buf \in Buffers
  BY SpRings
<1>3. PICK c \in Nat : c = Head(x)
  BY <1>1, HeadJoins
<1>4. PICK y \in Seq(Nat) : y = Tail(x)
  BY <1>1, HeadJoins
<1>5. PICK d \in Seq(Nat) : d = <<c>>
  BY OneChar
<1>6. x = Join(d, y)
  BY <1>1, <1>3, <1>4, <1>5, HeadJoins
<1>7. PICK new : new = Stored(s.rx_buf, s.rx_in, c)
  OBVIOUS
<1>8. PICK e : e = Next1(s.rx_in)
  OBVIOUS
<1>9. /\ Ring(new, e, s.rx_out) = Join(Ring(s.rx_buf, s.rx_in, s.rx_out), d)
      /\ Fill(e, s.rx_out) = Fill(s.rx_in, s.rx_out) + 1
  BY <1>2, <1>5, <1>7, <1>8, RingPutOne DEF Join
<1>10. /\ t.rx_buf = new /\ t.rx_in = e /\ t.rx_out = s.rx_out
       /\ SameTx(s, t)
  BY <1>1, <1>3, <1>7, <1>8 DEF WithRxPut, Stored, SpType, SameTx
<1>11. PICK q \in Seq(Nat) : q = Ring(s.rx_buf, s.rx_in, s.rx_out)
  BY <1>2, RingIsSeq
<1>12. Join(Join(q, d), y) = Join(q, Join(d, y))
  BY JoinAssociates
<1>13. InChan(g, t, r) = Chan(u.sent, r, Join(Join(q, d), y))
  BY <1>1, <1>4, <1>9, <1>10, <1>11 DEF InChan
<1>14. InChan(u, s, r) = Chan(u.sent, r, Join(q, Join(d, y)))
  BY <1>1, <1>6, <1>11 DEF InChan
<1> QED
  BY <1>9, <1>10, <1>12, <1>13, <1>14

\* It moves one from the ring into the FIFO, where there is room: what is on its
\* way to the host stays the same.
LEMMA MoveOut ==
  ASSUME NEW u \in UartType, Len(u.tx) < Depth, NEW s \in SpType, s.tx_in # s.tx_out,
         NEW t, t = WithTxOut(s, Next1(s.tx_out)),
         NEW v, v = PutData(u, s.tx_buf[s.tx_out]), NEW w
  PROVE  /\ OutChan(v, t, w) = OutChan(u, s, w) /\ SameIn(u, v) /\ SameRx(s, t)
         /\ t.tx_in = s.tx_in /\ Len(v.tx) = Len(u.tx) + 1
         /\ Fill(s.tx_in, s.tx_out) = 1 + Fill(t.tx_in, t.tx_out)
<1>1. PICK x \in Seq(Nat) : x = u.tx
  BY UartParts
<1>2. s.tx_in \in Index /\ s.tx_out \in Index /\ s.tx_buf \in Buffers
  BY SpRings
<1>3. PICK e : e = Next1(s.tx_out)
  OBVIOUS
<1>4. PICK c \in Nat : c = s.tx_buf[s.tx_out]
  BY <1>2, RingTakeOne
<1>5. PICK d \in Seq(Nat) : d = <<c>>
  BY OneChar
<1>6. PICK q \in Seq(Nat) : q = Ring(s.tx_buf, s.tx_in, e)
  BY <1>2, <1>3, RingTakeOne, RingIsSeq
<1>7. /\ Ring(s.tx_buf, s.tx_in, s.tx_out) = Join(d, q)
      /\ Fill(s.tx_in, s.tx_out) = 1 + Fill(s.tx_in, e)
  BY <1>2, <1>3, <1>4, <1>5, <1>6, RingTakeOne DEF Join
<1>8. /\ t.tx_buf = s.tx_buf /\ t.tx_in = s.tx_in /\ t.tx_out = e /\ SameRx(s, t)
  BY <1>3 DEF WithTxOut, SpType, SameRx
<1>9. Append(x, c) = Join(x, d) /\ Len(Append(x, c)) = Len(x) + 1
  BY <1>5, AppendJoins
<1>10. v.tx = Append(x, c) /\ v.took = u.took /\ SameIn(u, v)
  BY <1>1, <1>4 DEF PutData, UartType, SameIn
<1>11. Join(Join(x, d), q) = Join(x, Join(d, q))
  BY JoinAssociates
<1>12. OutChan(v, t, w) = Chan(w, u.took, Join(Join(x, d), q))
  BY <1>6, <1>8, <1>9, <1>10 DEF OutChan
<1>13. OutChan(u, s, w) = Chan(w, u.took, Join(x, Join(d, q)))
  BY <1>1, <1>7 DEF OutChan
<1> QED
  BY <1>1, <1>7, <1>8, <1>9, <1>10, <1>11, <1>12, <1>13

\* The device without the first character of its transmit FIFO.
Taken(u) == [u EXCEPT !.tx = Tail(u.tx), !.took = Append(u.took, Head(u.tx))]

\* The host takes a character, the first of those on their way to it.
LEMMA HostTakesMoves ==
  ASSUME NEW u \in UartType, u.tx # <<>>, NEW s \in SpType, NEW w,
         NEW v, v = Taken(u)
  PROVE  /\ OutChan(v, s, w) = C!Take(OutChan(u, s, w), 1)
         /\ OutChan(u, s, w).queue # <<>> /\ SameIn(u, v)
         /\ Len(u.tx) = Len(v.tx) + 1
<1>1. PICK x \in Seq(Nat) : x = u.tx /\ x # <<>>
  BY UartParts
<1>2. PICK g \in Seq(Nat) : g = u.took
  BY UartParts
<1>3. PICK c \in Nat : c = Head(x)
  BY <1>1, HeadJoins
<1>4. PICK y \in Seq(Nat) : y = Tail(x)
  BY <1>1, HeadJoins
<1>5. PICK d \in Seq(Nat) : d = <<c>> /\ Len(d) = 1
  BY OneChar
<1>6. x = Join(d, y) /\ Append(g, c) = Join(g, d)
  BY <1>1, <1>3, <1>4, <1>5, HeadJoins, AppendJoins
<1>7. PICK q \in Seq(Nat) : q = Ring(s.tx_buf, s.tx_in, s.tx_out)
  BY SpRings, RingIsSeq
<1>8. v.tx = y /\ v.took = Append(g, c) /\ SameIn(u, v)
  BY <1>1, <1>2, <1>3, <1>4 DEF Taken, UartType, SameIn
<1>9. Join(Join(d, y), q) = Join(d, Join(y, q)) /\ Join(y, q) \in Seq(Nat)
  BY JoinAssociates
<1>10. PICK z \in Seq(Nat) : z = Join(y, q)
  BY <1>9
<1>11. Len(d) = 1 /\ d # <<>>
  BY <1>5
<1>12. /\ Chan(w, Join(g, d), z) = C!Take(Chan(w, g, Join(d, z)), Len(d))
       /\ Chan(w, g, Join(d, z)).queue # <<>>
  <2>1. Chan(w, Join(g, d), z) = C!Take(Chan(w, g, Join(d, z)), Len(d))
    BY TakeIs
  <2>2. d # <<>> => Chan(w, g, Join(d, z)).queue # <<>>
    BY TakeIs
  <2> QED
    BY <1>11, <2>1, <2>2
<1>13. OutChan(v, s, w) = Chan(w, Join(g, d), z)
  BY <1>6, <1>7, <1>8, <1>10 DEF OutChan
<1>14. OutChan(u, s, w) = Chan(w, g, Join(d, z))
  BY <1>1, <1>2, <1>6, <1>7, <1>9, <1>10 DEF OutChan
<1>15. Len(x) = Len(y) + 1
  BY <1>1, <1>4
<1> QED
  BY <1>1, <1>8, <1>11, <1>12, <1>13, <1>14, <1>15

\* The look of the interrupt routine moves nothing, and counts the room there is.
LEMMA IsrLoopMoves ==
  ASSUME FastInv, LookInv, IsrLoop PROVE ConsoleStep /\ LookInv'
<1>1. UNCHANGED <<uart, sp, pc, call, io>>
  BY DEF IsrLoop
<1>2. ConsoleStep /\ CopyInv'
  BY <1>1, NothingMoves, CopyStays DEF SameOut, SameIn, SameTx, SameRx, LookInv
<1>3. PICK k \in Nat : k = Len(uart.tx) /\ k <= Depth
  BY Parts, UartParts
<1>4. isr'.space = 0 \/ isr'.space = Depth - k
  BY <1>3 DEF IsrLoop, Control, Idle
<1>5. Depth \in Nat
  BY UartAssumption
<1> QED
  BY <1>1, <1>2, <1>3, <1>4, <1>5 DEF LookInv, SpaceIsRoom

\* The end of the receive loop: it may turn receive interrupts off.
LEMMA RxDoneMoves ==
  ASSUME NEW u \in UartType, NEW avail \in BOOLEAN, FastInv, LookInv, isr.at = "rx",
         SameOut(uart, u), RxDone(u, avail), pc' = pc, call' = call, io' = io
  PROVE  /\ SameOut(u, uart') /\ SameIn(u, uart') /\ SameTx(sp, sp') /\ SameRx(sp, sp')
         /\ LookInv'
<1>1. uart' = u \/ uart' = SetControl(u, sp'.irq_enable, FALSE)
  BY Parts DEF RxDone, SpType
<1>2. SameOut(u, uart') /\ SameIn(u, uart')
  <2>1. CASE uart' = u
    BY <2>1 DEF SameOut, SameIn
  <2>2. CASE uart' = SetControl(u, sp'.irq_enable, FALSE)
    BY <2>2, ControlMovesNothing
  <2> QED
    BY <1>1, <2>1, <2>2
<1>3. SameTx(sp, sp') /\ SameRx(sp, sp')
  <2>1. PICK enable : sp' = WithEnable(sp, enable)
    BY DEF RxDone, WithEnable
  <2> QED
    BY <2>1, Parts, FieldMovesNothing
<1>4. CopyInv'
  BY <1>3, CopyStays DEF LookInv
<1>5. isr'.space = 0 \/ isr'.space = isr.space
  BY DEF RxDone, Idle
<1>6. uart'.tx = uart.tx
  BY <1>2 DEF SameOut
<1>7. PICK k \in Nat : k = Len(uart.tx) /\ k <= Depth
  BY Parts, UartParts
<1>8. PICK p \in Nat : p = isr.space
  BY Parts, UartAssumption DEF IsrType
<1>9. p + k <= Depth /\ Depth \in Nat
  BY <1>7, <1>8, UartAssumption DEF LookInv, SpaceIsRoom
<1>10. SpaceIsRoom'
  BY <1>5, <1>6, <1>7, <1>8, <1>9 DEF SpaceIsRoom
<1> QED
  BY <1>2, <1>3, <1>4, <1>10 DEF LookInv

\* The receive loop: a character moves from the FIFO into the ring, and one may
\* arrive from the host.
LEMMA IsrReceiveMoves ==
  ASSUME FastInv, LookInv, IsrReceive PROVE ConsoleStep /\ LookInv'
<1>1. /\ uart \in UartType /\ sp \in SpType /\ isr \in IsrType
      /\ isr.at = "rx" /\ pc' = pc /\ call' = call /\ io' = io
  BY Parts DEF IsrReceive
<1>2. CASE RxDone(uart, isr.avail)
  <2>1. isr.avail \in BOOLEAN /\ SameOut(uart, uart)
    BY <1>1 DEF IsrType, SameOut
  <2>2. /\ SameOut(uart, uart') /\ SameIn(uart, uart') /\ SameTx(sp, sp') /\ SameRx(sp, sp')
        /\ LookInv'
    BY <1>1, <1>2, <2>1, RxDoneMoves
  <2> QED
    BY <1>1, <2>2, NothingMoves
<1>3. ASSUME NEW u \in MayArrive(GetData(uart)), Next1(sp.rx_in) # sp.rx_out,
             uart.rx = <<>>, RxDone(u, u.rx # <<>>)
      PROVE  ConsoleStep /\ LookInv'
  <2>1. PICK g : g = GetData(uart)
    OBVIOUS
  <2>2. /\ g \in UartType /\ g.rx = <<>> /\ g.sent = uart.sent /\ SameOut(uart, u)
        /\ \/ u = g
           \/ u = Arrive(g) /\ InChan(u, sp, io.read) = C!Put(InChan(g, sp, io.read), 1)
    BY <1>1, <1>3, <2>1, ReadDataMoves
  <2>3. u \in UartType /\ (u.rx # <<>>) \in BOOLEAN
    BY <1>1, <1>3, ReadDataFacts
  <2>4. /\ SameOut(u, uart') /\ SameIn(u, uart') /\ SameTx(sp, sp') /\ SameRx(sp, sp')
        /\ LookInv'
    BY <1>1, <1>3, <2>2, <2>3, RxDoneMoves
  <2>5. SameOut(uart, uart')
    BY <2>2, <2>4 DEF SameOut
  <2>6. OutNow' = OutNow
    BY <1>1, <2>4, <2>5, OutStays DEF OutNow
  <2>7. InNow' = InChan(u, sp, io.read)
    BY <1>1, <2>4, InStays DEF InNow
  <2>8. InNow = InChan(g, sp, io.read)
    BY <1>3, <2>2, InStays DEF InNow, SameIn, SameRx
  <2> QED
    BY <2>2, <2>4, <2>6, <2>7, <2>8 DEF ConsoleStep
<1>4. ASSUME NEW u \in MayArrive(GetData(uart)), Next1(sp.rx_in) # sp.rx_out,
             uart.rx # <<>>, uart' = u,
             sp' = WithRxPut(sp, Head(uart.rx), Next1(sp.rx_in)),
             isr'.space = isr.space
      PROVE  ConsoleStep /\ LookInv'
  <2>1. PICK g : g = GetData(uart)
    OBVIOUS
  <2>2. /\ InChan(g, sp', io.read) = InChan(uart, sp, io.read) /\ SameTx(sp, sp')
        /\ sp'.rx_out = sp.rx_out
        /\ Fill(sp'.rx_in, sp'.rx_out) = Fill(sp.rx_in, sp.rx_out) + 1
        /\ g.sent = uart.sent /\ g.rx = Tail(uart.rx)
    <3>1. g.sent = uart.sent /\ g.rx = Tail(uart.rx)
      BY <1>1, <1>4, <2>1, ReadDataMoves
    <3> QED
      BY <1>1, <1>4, <3>1, MoveIn
  <2>3. sp' \in SpType
    <3>1. Head(uart.rx) \in Nat /\ Next1(sp.rx_in) \in Index
      BY <1>1, <1>4, UartParts, HeadJoins, SpRings, Next1Facts
    <3> QED
      BY <1>1, <1>4, <3>1, RxPutFacts
  <2>4. /\ SameOut(uart, u)
        /\ \/ u = g
           \/ u = Arrive(g) /\ InChan(u, sp', io.read) = C!Put(InChan(g, sp', io.read), 1)
    BY <1>1, <1>4, <2>1, <2>3, ReadDataMoves
  <2>5. OutNow' = OutNow
    BY <1>1, <1>4, <2>2, <2>4, OutStays DEF OutNow
  <2>6. InNow' = InNow \/ InNow' = C!Put(InNow, 1)
    BY <1>1, <1>4, <2>2, <2>4 DEF InNow
  <2>7. PICK m \in Nat : m = Fill(sp.rx_in, sp.rx_out)
    BY <1>1, SpRings, FillFacts, FastAssumption
  <2>8. call \in CallType
    BY Parts
  <2>9. PICK l \in Nat : l = Fill(call.in, call.out)
    <3>1. call.in \in Index /\ call.out \in Index
      BY <2>8 DEF CallType
    <3> QED
      BY <3>1, FillFacts, FastAssumption
  <2>10. CopyInv'
    BY <1>1, <2>2, <2>7, <2>9
       DEF LookInv, CopyInv, CopyFits, ReadFits, WritesBounded, SameTx
  <2>11. SpaceIsRoom'
    BY <1>4, <2>4 DEF LookInv, SpaceIsRoom, SameOut
  <2> QED
    BY <2>5, <2>6, <2>10, <2>11 DEF ConsoleStep, LookInv
<1>5. CASE /\ Next1(sp.rx_in) # sp.rx_out
           /\ \E u \in MayArrive(GetData(uart)) :
                IF uart.rx = <<>> THEN RxDone(u, u.rx # <<>>)
                ELSE /\ uart' = u
                     /\ sp' = [sp EXCEPT !.rx_buf[sp.rx_in] = Head(uart.rx),
                                         !.rx_in = Next1(sp.rx_in)]
                     /\ isr' = [isr EXCEPT !.avail = u.rx # <<>>]
  <2>1. PICK u \in MayArrive(GetData(uart)) :
           IF uart.rx = <<>> THEN RxDone(u, u.rx # <<>>)
           ELSE /\ uart' = u
                /\ sp' = [sp EXCEPT !.rx_buf[sp.rx_in] = Head(uart.rx),
                                    !.rx_in = Next1(sp.rx_in)]
                /\ isr' = [isr EXCEPT !.avail = u.rx # <<>>]
    BY <1>5
  <2>2. CASE uart.rx = <<>>
    BY <1>3, <1>5, <2>1, <2>2
  <2>3. CASE uart.rx # <<>>
    <3>1. sp' = WithRxPut(sp, Head(uart.rx), Next1(sp.rx_in))
      BY <2>1, <2>3 DEF WithRxPut
    <3>2. isr'.space = isr.space
      BY <1>1, <2>1, <2>3 DEF IsrType
    <3> QED
      BY <1>4, <1>5, <2>1, <2>3, <3>1, <3>2
  <2> QED
    BY <2>2, <2>3
<1> QED
  BY <1>2, <1>5 DEF IsrReceive

\* The transmit loop moves a character from the ring into the FIFO: nothing that
\* the host or the program could tell.
LEMMA IsrTransmitMoves ==
  ASSUME FastInv, LookInv, IsrTransmit PROVE ConsoleStep /\ LookInv'
<1>1. /\ uart \in UartType /\ sp \in SpType /\ isr \in IsrType
      /\ pc' = pc /\ call' = call /\ io' = io
  BY Parts DEF IsrTransmit
<1>2. PICK k \in Nat : k = Len(uart.tx)
  BY <1>1, UartParts
<1>3. PICK p \in Nat : p = isr.space /\ p + k <= Depth /\ Depth \in Nat
  BY <1>1, <1>2, UartAssumption DEF IsrType, LookInv, SpaceIsRoom
<1>4. CASE /\ isr.space > 0 /\ sp.tx_out # sp.tx_in
           /\ uart' = PutData(uart, sp.tx_buf[sp.tx_out])
           /\ sp' = [sp EXCEPT !.tx_out = Next1(sp.tx_out)]
           /\ isr' = [isr EXCEPT !.space = isr.space - 1]
  <2>1. sp' = WithTxOut(sp, Next1(sp.tx_out)) /\ Len(uart.tx) < Depth
    BY <1>2, <1>3, <1>4 DEF WithTxOut
  <2>2. /\ OutChan(uart', sp', io.written) = OutChan(uart, sp, io.written)
        /\ SameIn(uart, uart') /\ SameRx(sp, sp')
        /\ sp'.tx_in = sp.tx_in /\ Len(uart'.tx) = Len(uart.tx) + 1
        /\ Fill(sp.tx_in, sp.tx_out) = 1 + Fill(sp'.tx_in, sp'.tx_out)
    <3>1. sp.tx_in # sp.tx_out /\ uart' = PutData(uart, sp.tx_buf[sp.tx_out])
      BY <1>4
    <3> QED
      BY <1>1, <2>1, <3>1, MoveOut
  <2>3. ConsoleStep
    BY <1>1, <2>2, InStays DEF ConsoleStep, OutNow, InNow
  <2>4. isr'.space = p - 1
    BY <1>1, <1>3, <1>4 DEF IsrType
  <2>5. SpaceIsRoom'
    BY <1>2, <1>3, <2>2, <2>4 DEF SpaceIsRoom
  <2>6. PICK m \in Nat : m = Fill(sp'.tx_in, sp'.tx_out)
    <3>1. sp'.tx_in \in Index /\ sp'.tx_out \in Index
      BY <1>1, <2>1, SpRings, Next1Facts, TxOutFacts
    <3> QED
      BY <3>1, FillFacts, FastAssumption
  <2>7. PICK l \in Nat : l = Fill(call.in, call.out)
    <3>1. call.in \in Index /\ call.out \in Index
      BY Parts DEF CallType
    <3> QED
      BY <3>1, FillFacts, FastAssumption
  <2>8. CopyInv'
    BY <1>1, <2>2, <2>6, <2>7
       DEF LookInv, CopyInv, CopyFits, ReadFits, WritesBounded, SameRx
  <2> QED
    BY <2>3, <2>5, <2>8 DEF LookInv
<1>5. ASSUME NEW x, sp' = sp \/ sp' = WithEnable(sp, x),
             uart' = uart \/ uart' = SetControl(uart, x, FALSE), isr'.space = 0
      PROVE  ConsoleStep /\ LookInv'
  <2>1. SameTx(sp, sp') /\ SameRx(sp, sp')
    <3>1. CASE sp' = sp
      BY <3>1 DEF SameTx, SameRx
    <3>2. CASE sp' = WithEnable(sp, x)
      BY <1>1, <3>2, FieldMovesNothing
    <3> QED
      BY <1>5, <3>1, <3>2
  <2>2. SameOut(uart, uart') /\ SameIn(uart, uart')
    <3>1. CASE uart' = uart
      BY <3>1 DEF SameOut, SameIn
    <3>2. CASE uart' = SetControl(uart, x, FALSE)
      BY <1>1, <3>2, ControlMovesNothing
    <3> QED
      BY <1>5, <3>1, <3>2
  <2>3. ConsoleStep /\ CopyInv'
    BY <1>1, <2>1, <2>2, NothingMoves, CopyStays DEF LookInv
  <2>4. SpaceIsRoom'
    BY <1>2, <1>3, <1>5, <2>2 DEF SpaceIsRoom, SameOut
  <2> QED
    BY <2>3, <2>4 DEF LookInv
<1>6. CASE /\ isr.space > 0 /\ sp.tx_out = sp.tx_in
           /\ sp' = [sp EXCEPT !.irq_enable = @ \ {"WE"}]
           /\ uart' = SetControl(uart, sp'.irq_enable, FALSE)
           /\ isr' = [Idle EXCEPT !.at = "loop"]
  <2>1. PICK x : x = sp.irq_enable \ {"WE"}
    OBVIOUS
  <2>2. sp' = WithEnable(sp, x) /\ sp'.irq_enable = x
    BY <1>1, <1>6, <2>1 DEF WithEnable, SpType
  <2>3. isr'.space = 0
    BY <1>6 DEF Idle
  <2> QED
    BY <1>5, <1>6, <2>2, <2>3
<1>7. CASE isr' = [Idle EXCEPT !.at = "loop"] /\ UNCHANGED <<uart, sp>>
  <2>1. isr'.space = 0
    BY <1>7 DEF Idle
  <2> QED
    BY <1>5, <1>7, <2>1
<1> QED
  BY <1>4, <1>6, <1>7 DEF IsrTransmit

\* The timer routine moves nothing.
LEMMA TimerMoves ==
  ASSUME FastInv, LookInv, TimerRoutine PROVE ConsoleStep /\ LookInv'
<1>1. /\ uart \in UartType /\ sp \in SpType
      /\ pc' = pc /\ call' = call /\ io' = io /\ isr' = isr
  BY Parts DEF TimerRoutine
<1>2. SameTx(sp, sp') /\ SameRx(sp, sp')
  <2>1. PICK n : sp' = WithInactive(sp, n)
    BY DEF TimerRoutine, WithInactive
  <2> QED
    BY <1>1, <2>1, FieldMovesNothing
<1>3. SameOut(uart, uart') /\ SameIn(uart, uart')
  <2>1. CASE uart' = uart
    BY <2>1 DEF SameOut, SameIn
  <2>2. CASE uart' = SetControl(uart, sp.irq_enable, TRUE)
    BY <1>1, <2>2, ControlMovesNothing
  <2> QED
    BY <2>1, <2>2 DEF TimerRoutine
<1>4. ConsoleStep /\ CopyInv'
  BY <1>1, <1>2, <1>3, NothingMoves, CopyStays DEF LookInv
<1>5. SpaceIsRoom'
  BY <1>1, <1>3 DEF LookInv, SpaceIsRoom, SameOut
<1> QED
  BY <1>4, <1>5 DEF LookInv

\* The host sends, takes, or pauses, whatever the driver.
LEMMA HostPlays ==
  ASSUME uart \in UartType, sp \in SpType, Host
  PROVE  ConsoleStep /\ uart' \in UartType /\ Len(uart'.tx) <= Len(uart.tx)
<1>1. io' = io /\ sp' = sp
  BY DEF Host
<1>2. PICK k \in Nat : k = Len(uart.tx)
  BY UartParts
<1>3. CASE HostSends
  <2>1. uart' = Arrive(uart)
    BY <1>3 DEF HostSends
  <2>2. ConsoleStep
    BY <1>1, <2>1, ArriveStep
  <2>3. uart'.tx = uart.tx /\ uart' \in UartType
    BY <2>1, ArriveFacts
  <2> QED
    BY <1>2, <2>2, <2>3
<1>4. CASE HostTakes
  <2>1. uart.tx # <<>> /\ uart' = Taken(uart)
    BY <1>4 DEF HostTakes, Taken
  <2>2. /\ OutNow' = C!Take(OutNow, 1) /\ OutNow.queue # <<>> /\ SameIn(uart, uart')
        /\ Len(uart.tx) = Len(uart'.tx) + 1
    BY <1>1, <2>1, HostTakesMoves DEF OutNow
  <2>3. InNow' = InNow
    BY <1>1, <2>2, InStays DEF InNow, SameRx
  <2>4. uart' \in UartType
    <3>1. Tail(uart.tx) \in Seq(Nat) /\ Head(uart.tx) \in Nat /\ uart.took \in Seq(Nat)
      BY <2>1, HeadJoins, UartParts
    <3>2. Append(uart.took, Head(uart.tx)) \in Seq(Nat)
      BY <3>1
    <3> QED
      BY <2>1, <3>1, <3>2 DEF Taken, UartType
  <2>5. PICK l \in Nat : l = Len(uart'.tx)
    BY <2>4, UartParts
  <2>6. Len(uart'.tx) <= Len(uart.tx)
    BY <1>2, <2>2, <2>5
  <2> QED
    BY <2>2, <2>3, <2>4, <2>6 DEF ConsoleStep
<1>5. CASE HostPauses
  <2>1. SameOut(uart, uart') /\ SameIn(uart, uart') /\ uart' \in UartType
    <3>1. (uart.pause_irq \/ uart.rx # <<>>) \in BOOLEAN
      BY DEF UartType
    <3> QED
      BY <1>5, <3>1 DEF HostPauses, UartType, SameOut, SameIn
  <2>2. ConsoleStep
    BY <1>1, <2>1, NothingMoves DEF SameTx, SameRx
  <2> QED
    BY <1>2, <2>1, <2>2 DEF SameOut
<1> QED
  BY <1>3, <1>4, <1>5 DEF Host

\* So it does beside the interrupt-driven driver.
LEMMA HostMoves ==
  ASSUME FastInv, LookInv, Host PROVE ConsoleStep /\ LookInv'
<1>1. /\ uart \in UartType /\ sp \in SpType /\ isr \in IsrType
      /\ pc' = pc /\ call' = call /\ io' = io /\ isr' = isr /\ sp' = sp
  BY Parts DEF Host
<1>2. CopyInv'
  BY <1>1, CopyStays DEF LookInv, SameTx, SameRx
<1>3. ConsoleStep /\ uart' \in UartType /\ Len(uart'.tx) <= Len(uart.tx)
  BY <1>1, HostPlays
<1>4. PICK k \in Nat : k = Len(uart.tx)
  BY <1>1, UartParts
<1>5. PICK l \in Nat : l = Len(uart'.tx)
  BY <1>3, UartParts
<1>6. PICK p \in Nat : p = isr.space
  BY <1>1, UartAssumption DEF IsrType
<1>7. SpaceIsRoom'
  BY <1>1, <1>3, <1>4, <1>5, <1>6, UartAssumption DEF LookInv, SpaceIsRoom
<1> QED
  BY <1>2, <1>3, <1>7 DEF LookInv

-----------------------------------------------------------------------------
(* The program. *)

\* A step of the program that moves no character and starts no copy.
LEMMA QuietMoves ==
  ASSUME LookInv, SameOut(uart, uart'), SameIn(uart, uart'),
         SameTx(sp, sp'), SameRx(sp, sp'), io' = io, isr' = isr,
         pc' \notin {"w_copy", "r_copy"},
         pc' \in Writing => io.written + call'.left <= MaxWritten
  PROVE  ConsoleStep /\ LookInv'
<1>1. ConsoleStep
  BY NothingMoves
<1>2. CopyInv'
  BY DEF CopyInv, CopyFits, ReadFits, WritesBounded
<1>3. SpaceIsRoom'
  BY DEF LookInv, SpaceIsRoom, SameOut
<1> QED
  BY <1>1, <1>2, <1>3 DEF LookInv

\* A call that only looks at the device or the rings, or that ends.
LEMMA LooksOnly ==
  ASSUME LookInv, UNCHANGED <<uart, sp, isr, io>>,
         pc' \notin {"w_copy", "r_copy"},
         pc' \in Writing => pc \in Writing /\ call' = call
  PROVE  ConsoleStep /\ LookInv'
<1>1. /\ SameOut(uart, uart') /\ SameIn(uart, uart') /\ SameTx(sp, sp') /\ SameRx(sp, sp')
  BY DEF SameOut, SameIn, SameTx, SameRx
<1>2. pc' \in Writing => io.written + call'.left <= MaxWritten
  BY DEF LookInv, CopyInv, WritesBounded
<1> QED
  BY <1>1, <1>2, QuietMoves

\* The end of a call.
LEMMA ReturnPlace == ASSUME Return PROVE pc' = "idle" /\ pc' \notin Writing
BY DEF Return, Writing

\* A call starts.
LEMMA CalledMoves ==
  ASSUME NEW at \in {"w_look", "r_look", "close"}, NEW n \in Nat, NEW nb, LookInv,
         Called(at, n, nb), at = "w_look" => io.written + n <= MaxWritten
  PROVE  ConsoleStep /\ LookInv'
<1>1. UNCHANGED <<uart, sp, isr, io>> /\ pc' = at
  BY DEF Called
<1>2. call'.left = n
  BY DEF Called, NoCall
<1>3. SameOut(uart, uart') /\ SameIn(uart, uart') /\ SameTx(sp, sp') /\ SameRx(sp, sp')
  BY <1>1 DEF SameOut, SameIn, SameTx, SameRx
<1>4. pc' \notin {"w_copy", "r_copy"}
  BY <1>1
<1>5. pc' \in Writing => io.written + call'.left <= MaxWritten
  BY <1>1, <1>2 DEF Writing
<1> QED
  BY <1>1, <1>3, <1>4, <1>5, QuietMoves

\* A write, a read or a close is called.
LEMMA CallsMove ==
  ASSUME FastInv, LookInv, CallWrite \/ CallRead \/ CallClose
  PROVE  ConsoleStep /\ LookInv'
<1>1. CASE CallWrite
  <2>1. PICK count \in 1 .. MaxWritten - io.written, nb \in BOOLEAN :
           Called("w_look", count, nb)
    BY <1>1 DEF CallWrite
  <2>2. PICK w \in Nat : w = io.written
    BY Parts
  <2>3. count \in Nat /\ w + count <= MaxWritten
    BY <2>2, FastAssumption
  <2> QED
    BY <2>1, <2>2, <2>3, CalledMoves
<1>2. CASE CallRead
  <2>1. PICK space \in 0 .. BufLen - 1, nb \in BOOLEAN : Called("r_look", space, nb)
    BY <1>2 DEF CallRead
  <2>2. space \in Nat
    BY FastAssumption
  <2> QED
    BY <2>1, <2>2, CalledMoves
<1>3. CASE CallClose
  BY <1>3, CalledMoves DEF CallClose
<1> QED
  BY <1>1, <1>2, <1>3

\* The indices are read: what the copy then finds is what is there.
LEMMA LooksMove ==
  ASSUME FastInv, LookInv, WriteLook \/ ReadLook PROVE ConsoleStep /\ LookInv'
<1>1. /\ sp \in SpType /\ call \in CallType
      /\ UNCHANGED <<uart, sp, isr, io>>
  BY Parts DEF WriteLook, ReadLook
<1>2. ConsoleStep /\ SpaceIsRoom'
  <2>1. /\ SameOut(uart, uart') /\ SameIn(uart, uart')
        /\ SameTx(sp, sp') /\ SameRx(sp, sp')
    BY <1>1 DEF SameOut, SameIn, SameTx, SameRx
  <2> QED
    BY <1>1, <2>1, NothingMoves DEF LookInv, SpaceIsRoom
<1>3. CASE WriteLook
  <2>1. /\ call'.in = sp.tx_in /\ call'.out = sp.tx_out /\ call'.left = call.left
        /\ pc = "w_look" /\ pc' \in {"w_kick", "w_copy"}
    BY <1>1, <1>3 DEF WriteLook, CallType
  <2>2. PICK m \in Nat : m = Fill(sp.tx_in, sp.tx_out)
    BY <1>1, SpRings, FillFacts, FastAssumption
  <2>3. CopyInv'
    BY <1>1, <2>1, <2>2
       DEF LookInv, CopyInv, CopyFits, ReadFits, WritesBounded, Writing
  <2> QED
    BY <1>2, <2>3 DEF LookInv
<1>4. CASE ReadLook
  <2>1. CASE Return
    BY <1>1, <2>1, ReturnPlace, LooksOnly
  <2>2. CASE /\ call' = [call EXCEPT !.in = sp.rx_in, !.out = sp.rx_out]
             /\ pc' \in {"r_copy", "r_kick", "r_end", "r_spin"}
    <3>1. call'.in = sp.rx_in /\ call'.out = sp.rx_out
      BY <1>1, <2>2 DEF CallType
    <3>2. PICK m \in Nat : m = Fill(sp.rx_in, sp.rx_out)
      BY <1>1, SpRings, FillFacts, FastAssumption
    <3>3. CopyInv'
      BY <1>1, <2>2, <3>1, <3>2
         DEF LookInv, CopyInv, CopyFits, ReadFits, WritesBounded, Writing
    <3> QED
      BY <1>2, <3>3 DEF LookInv
  <2> QED
    BY <1>4, <2>1, <2>2 DEF ReadLook
<1> QED
  BY <1>3, <1>4

\* An enable is set, and the call goes on or ends.
LEMMA KicksMove ==
  ASSUME FastInv, LookInv, WriteKick \/ ReadKick PROVE ConsoleStep /\ LookInv'
<1>1. /\ uart \in UartType /\ sp \in SpType
      /\ isr' = isr /\ io' = io
  BY Parts DEF WriteKick, ReadKick
<1>2. PICK bit : Enable(bit)
  BY DEF WriteKick, ReadKick
<1>3. PICK x : x = sp.irq_enable \cup {bit}
  OBVIOUS
<1>4. sp' = WithEnable(sp, x) /\ uart' = SetControl(uart, sp'.irq_enable, FALSE)
  BY <1>2, <1>3 DEF Enable, WithEnable
<1>5. SameOut(uart, uart') /\ SameIn(uart, uart') /\ SameTx(sp, sp') /\ SameRx(sp, sp')
  BY <1>1, <1>4, ControlMovesNothing, FieldMovesNothing
<1>6. CASE WriteKick
  <2>1. pc = "w_kick" /\ ((pc' = "w_spin" /\ call' = call) \/ Return)
    BY <1>6 DEF WriteKick
  <2>2. /\ pc' \notin {"w_copy", "r_copy"}
        /\ pc' \in Writing => io.written + call'.left <= MaxWritten
    BY <2>1, ReturnPlace DEF LookInv, CopyInv, WritesBounded, Writing
  <2> QED
    BY <1>1, <1>5, <2>2, QuietMoves
<1>7. CASE ReadKick
  <2>1. pc' = "idle" /\ pc' \notin Writing
    BY <1>7, ReturnPlace DEF ReadKick
  <2> QED
    BY <1>1, <1>5, <2>1, QuietMoves
<1> QED
  BY <1>6, <1>7

\* The waiting loops, the tests after them, and the ends of the calls.
LEMMA WaitsMove ==
  ASSUME LookInv, WriteSpin \/ WriteTest \/ ReadSpin \/ ReadTest \/ ReadEnd \/ Close
  PROVE  ConsoleStep /\ LookInv'
<1>1. UNCHANGED <<uart, sp, isr, io>>
  BY DEF WriteSpin, WriteTest, ReadSpin, ReadTest, ReadEnd, Close
<1>2. CASE WriteSpin \/ WriteTest
  <2>1. pc \in Writing /\ ((pc' \in {"w_test", "w_look"} /\ call' = call) \/ Return)
    BY <1>2 DEF WriteSpin, WriteTest, Writing
  <2> QED
    BY <1>1, <2>1, ReturnPlace, LooksOnly
<1>3. CASE ReadSpin \/ ReadTest \/ ReadEnd \/ Close
  <2>1. pc' \in {"r_test", "r_end", "r_look"} \/ Return
    BY <1>3 DEF ReadSpin, ReadTest, ReadEnd, Close
  <2>2. pc' \notin {"w_copy", "r_copy"} /\ pc' \notin Writing
    BY <2>1, ReturnPlace DEF Writing
  <2> QED
    BY <1>1, <2>2, LooksOnly
<1> QED
  BY <1>2, <1>3

\* A new timeout.
LEMMA SetTimeoutMoves ==
  ASSUME FastInv, LookInv, SetTimeout PROVE ConsoleStep /\ LookInv'
<1>1. sp \in SpType /\ UNCHANGED <<uart, isr, pc, call, io>> /\ pc = "idle"
  BY Parts DEF SetTimeout
<1>2. PICK t : sp' = WithTimeout(sp, t)
  BY DEF SetTimeout, WithTimeout
<1>3. SameOut(uart, uart') /\ SameIn(uart, uart') /\ SameTx(sp, sp') /\ SameRx(sp, sp')
  BY <1>1, <1>2, FieldMovesNothing DEF SameOut, SameIn
<1> QED
  BY <1>1, <1>3, QuietMoves DEF Writing

\* The buffer after a copy of the n characters that follow the w-th.
Copied(buf, in, n, w) ==
  [i \in 0 .. BufLen - 1 |-> IF i \in in .. in + n - 1 THEN w + 1 + i - in ELSE buf[i]]

\* The characters that follow are a sequence, empty when there are none.
LEMMA NextCharsFacts ==
  ASSUME NEW w \in Nat, NEW n \in Nat
  PROVE  /\ NextChars(w, n) \in Seq(Nat) /\ Len(NextChars(w, n)) = n
         /\ \A i \in 1 .. n : NextChars(w, n)[i] = w + i
         /\ n = 0 => NextChars(w, n) = <<>>
<1>1. NextChars(w, n) \in Seq(Nat) /\ Len(NextChars(w, n)) = n
  BY DEF NextChars
<1>2. \A i \in 1 .. n : NextChars(w, n)[i] = w + i
  BY DEF NextChars
<1>3. PICK d \in Seq(Nat) : d = NextChars(w, n)
  BY <1>1
<1>4. n = 0 => d = <<>>
  <2>1. Len(d) = n
    BY <1>1, <1>3
  <2> QED
    BY <2>1
<1> QED
  BY <1>1, <1>2, <1>3, <1>4

\* They are written into the buffer.
LEMMA CopyWrites ==
  ASSUME NEW buf \in Buffers, NEW in \in Index, NEW n \in Nat, NEW w \in Nat,
         in + n <= BufLen, NEW new, new = Copied(buf, in, n, w)
  PROVE  new \in Buffers /\ Written(buf, new, in, n, NextChars(w, n))
<1>1. BufLen \in Nat /\ in \in Nat /\ in < BufLen /\ Index = 0 .. BufLen - 1
  BY FastAssumption DEF Index
<1>2. \A j \in Index : new[j] = IF j \in in .. in + n - 1 THEN w + 1 + j - in ELSE buf[j]
  BY <1>1 DEF Copied
<1>3. \A j \in Index : buf[j] \in Nat
  BY DEF Buffers
<1>4. ASSUME NEW j \in Index
      PROVE  (IF j \in in .. in + n - 1 THEN w + 1 + j - in ELSE buf[j]) \in Nat
  <2>1. CASE j \in in .. in + n - 1
    BY <1>1, <2>1
  <2>2. CASE j \notin in .. in + n - 1
    BY <1>3, <2>2
  <2> QED
    BY <2>1, <2>2
<1>5. new \in Buffers
  BY <1>1, <1>4 DEF Copied, Buffers
<1>6. ASSUME NEW i \in 1 .. n PROVE new[in + i - 1] = NextChars(w, n)[i]
  <2>1. PICK j \in Index : j = in + i - 1
    BY <1>1
  <2>2. j \in in .. in + n - 1 /\ w + 1 + j - in = w + i
    BY <1>1, <2>1
  <2>3. new[j] = w + i
    BY <1>2, <2>2
  <2> QED
    BY <2>1, <2>3, NextCharsFacts
<1>7. ASSUME NEW j \in Index, j < in \/ j >= in + n PROVE new[j] = buf[j]
  <2>1. j \notin in .. in + n - 1
    BY <1>1, <1>7
  <2> QED
    BY <1>2, <2>1
<1> QED
  BY <1>5, <1>6, <1>7 DEF Written

\* A driver into whose ring n characters are copied puts them on their way.
LEMMA CopyPuts ==
  ASSUME NEW u \in UartType, NEW s \in SpType, NEW n \in Nat, NEW w \in Nat,
         RoomFor(s.tx_in, s.tx_out, n),
         NEW t, t = WithTxIn(s, On(s.tx_in, n), Copied(s.tx_buf, s.tx_in, n, w))
  PROVE  /\ OutChan(u, t, w + n) = C!Put(OutChan(u, s, w), n)
         /\ n = 0 => OutChan(u, t, w + n) = OutChan(u, s, w)
         /\ SameRx(s, t)
<1>1. PICK in \in Index : in = s.tx_in
  BY SpRings
<1>2. PICK out \in Index : out = s.tx_out
  BY SpRings
<1>3. PICK buf \in Buffers : buf = s.tx_buf
  BY SpRings
<1>4. PICK x \in Seq(Nat) : x = u.tx
  BY UartParts
<1>5. PICK d \in Seq(Nat) : d = NextChars(w, n)
  BY NextCharsFacts
<1>6. PICK new : new = Copied(buf, in, n, w)
  OBVIOUS
<1>7. PICK e : e = On(in, n)
  OBVIOUS
<1>8. new \in Buffers /\ Written(buf, new, in, n, d)
  <2>1. in + n <= BufLen
    BY <1>1 DEF RoomFor
  <2> QED
    BY <1>5, <1>6, <2>1, CopyWrites
<1>9. n = Len(d) /\ RoomFor(in, out, n) /\ (n = 0 => d = <<>>)
  BY <1>1, <1>2, <1>5, NextCharsFacts
<1>10. PutRun(buf, new, in, out, n, d, e)
  BY <1>7, <1>8, <1>9 DEF PutRun
<1>11. Ring(new, e, out) = Join(Ring(buf, in, out), d)
  BY <1>10, RingPut DEF Join
<1>12. t.tx_buf = new /\ t.tx_in = e /\ t.tx_out = out /\ SameRx(s, t)
  BY <1>1, <1>2, <1>3, <1>6, <1>7 DEF WithTxIn, SpType, SameRx
<1>13. PICK q \in Seq(Nat) : q = Ring(buf, in, out)
  BY RingIsSeq
<1>14. Join(x, Join(q, d)) = Join(Join(x, q), d) /\ Join(x, q) \in Seq(Nat)
  BY JoinAssociates
<1>15. OutChan(u, t, w + n) = Chan(w + n, u.took, Join(Join(x, q), d))
  BY <1>4, <1>11, <1>12, <1>13, <1>14 DEF OutChan
<1>16. OutChan(u, s, w) = Chan(w, u.took, Join(x, q))
  BY <1>1, <1>2, <1>3, <1>4, <1>13 DEF OutChan
<1>17. Chan(w + n, u.took, Join(Join(x, q), d)) = C!Put(Chan(w, u.took, Join(x, q)), n)
  BY <1>5, <1>14, PutIs
<1>18. ASSUME n = 0 PROVE OutChan(u, t, w + n) = OutChan(u, s, w)
  <2>1. Join(Join(x, q), d) = Join(x, q) /\ w + n = w
    BY <1>9, <1>14, <1>18, JoinAssociates
  <2> QED
    BY <1>15, <1>16, <2>1
<1> QED
  BY <1>12, <1>15, <1>16, <1>17, <1>18

\* The copy of a write puts characters on their way to the host: the interrupt
\* routine may have drained the ring since the indices were read, never filled it.
LEMMA WriteCopyMoves ==
  ASSUME FastInv, LookInv, WriteCopy PROVE ConsoleStep /\ LookInv'
<1>1. /\ uart \in UartType /\ sp \in SpType /\ call \in CallType
      /\ io \in [written : Nat, read : Seq(Nat)]
      /\ uart' = uart /\ isr' = isr /\ pc = "w_copy"
  BY Parts DEF WriteCopy
<1>2. /\ call.in \in Index /\ call.out \in Index /\ call.left \in Nat
  BY <1>1 DEF CallType
<1>3. PICK n : n = Least(TxRoom(call.in, call.out), call.left)
  OBVIOUS
<1>4. n \in Nat /\ n <= call.left
  BY <1>2, <1>3, TxRoomFacts
<1>5. call.in + n <= BufLen /\ Fill(call.in, call.out) + n < BufLen
  BY <1>2, <1>3, TxRoomFill
<1>6. call.in = sp.tx_in /\ Fill(sp.tx_in, sp.tx_out) <= Fill(call.in, call.out)
  BY <1>1 DEF LookInv, CopyInv, CopyFits
<1>7. RoomFor(sp.tx_in, sp.tx_out, n)
  <2>1. PICK m \in Nat : m = Fill(sp.tx_in, sp.tx_out)
    BY <1>1, SpRings, FillFacts, FastAssumption
  <2>2. PICK l \in Nat : l = Fill(call.in, call.out)
    BY <1>2, FillFacts, FastAssumption
  <2>3. m + n < BufLen
    BY <1>4, <1>5, <1>6, <2>1, <2>2, FastAssumption
  <2> QED
    BY <1>5, <1>6, <2>1, <2>3 DEF RoomFor
<1>8. PICK w \in Nat : w = io.written
  BY <1>1
<1>9. /\ sp' = WithTxIn(sp, On(sp.tx_in, n), Copied(sp.tx_buf, sp.tx_in, n, w))
      /\ io' = [io EXCEPT !.written = w + n]
      /\ call' = [call EXCEPT !.left = call.left - n, !.some = TRUE]
      /\ pc' \in {"w_look", "w_kick"}
  BY <1>3, <1>6, <1>8 DEF WriteCopy, WithTxIn, On, Copied
<1>10. /\ OutChan(uart, sp', w + n) = C!Put(OutChan(uart, sp, w), n)
       /\ n = 0 => OutChan(uart, sp', w + n) = OutChan(uart, sp, w)
       /\ SameRx(sp, sp')
  <2>1. sp' = WithTxIn(sp, On(sp.tx_in, n), Copied(sp.tx_buf, sp.tx_in, n, w))
    BY <1>9
  <2> QED
    BY <1>1, <1>4, <1>7, <2>1, CopyPuts
<1>11. io'.written = w + n /\ io'.read = io.read /\ call'.left = call.left - n
  BY <1>1, <1>9 DEF CallType
<1>12. InNow' = InNow
  BY <1>1, <1>10, <1>11, InStays DEF InNow, SameIn
<1>13. OutNow' = C!Put(OutNow, n) /\ (n = 0 => OutNow' = OutNow)
  BY <1>1, <1>8, <1>10, <1>11 DEF OutNow
<1>14. PICK l \in Nat : l = call.left /\ w + l <= MaxWritten
  BY <1>1, <1>2, <1>8 DEF LookInv, CopyInv, WritesBounded, Writing
<1>15. ConsoleStep
  <2>1. CASE n = 0
    BY <1>12, <1>13, <2>1 DEF ConsoleStep
  <2>2. CASE n # 0
    <3>1. n \in 1 .. MaxWritten
      BY <1>4, <1>14, <2>2, FastAssumption
    <3> QED
      BY <1>12, <1>13, <3>1 DEF ConsoleStep
  <2> QED
    BY <2>1, <2>2
<1>16. CopyInv'
  <2>1. io'.written + call'.left <= MaxWritten
    BY <1>4, <1>11, <1>14, FastAssumption
  <2> QED
    BY <1>9, <2>1 DEF CopyInv, CopyFits, ReadFits, WritesBounded
<1> QED
  BY <1>1, <1>15, <1>16 DEF LookInv, SpaceIsRoom

\* The n characters of a buffer from `out' on.
Copy(buf, out, n) == [i \in 1 .. n |-> buf[out + i - 1]]

\* They are a sequence, empty when there are none.
LEMMA CopyReads ==
  ASSUME NEW buf \in Buffers, NEW out \in Index, NEW n \in Nat, out + n <= BufLen,
         NEW d, d = Copy(buf, out, n)
  PROVE  d \in Seq(Nat) /\ Len(d) = n /\ From(buf, out, n, d) /\ (n = 0 => d = <<>>)
<1>1. BufLen \in Nat /\ out \in Nat /\ out < BufLen /\ Index = 0 .. BufLen - 1
  BY FastAssumption DEF Index
<1>2. \A j \in Index : buf[j] \in Nat
  BY DEF Buffers
<1>3. \A i \in 1 .. n : out + i - 1 \in Index
  BY <1>1
<1>4. \A i \in 1 .. n : buf[out + i - 1] \in Nat
  BY <1>2, <1>3
<1>5. d \in Seq(Nat) /\ Len(d) = n
  BY <1>4 DEF Copy
<1>6. From(buf, out, n, d)
  BY DEF From, Copy
<1>7. n = 0 => d = <<>>
  BY <1>5
<1> QED
  BY <1>5, <1>6, <1>7

\* A driver from whose ring n characters are copied takes them from their way.
LEMMA CopyTakes ==
  ASSUME NEW u \in UartType, NEW s \in SpType, NEW n \in Nat, NEW r \in Seq(Nat),
         HasRun(s.rx_in, s.rx_out, n),
         NEW d, d = Copy(s.rx_buf, s.rx_out, n),
         NEW t, t = WithRxOut(s, On(s.rx_out, n))
  PROVE  /\ d \in Seq(Nat) /\ Len(d) = n
         /\ InChan(u, t, Join(r, d)) = C!Take(InChan(u, s, r), Len(d))
         /\ Len(d) <= Len(InChan(u, s, r).queue)
         /\ n = 0 => InChan(u, t, Join(r, d)) = InChan(u, s, r)
         /\ SameTx(s, t)
<1>1. PICK in \in Index : in = s.rx_in
  BY SpRings
<1>2. PICK out \in Index : out = s.rx_out
  BY SpRings
<1>3. PICK buf \in Buffers : buf = s.rx_buf
  BY SpRings
<1>4. PICK x \in Seq(Nat) : x = u.rx
  BY UartParts
<1>5. PICK e : e = On(out, n)
  OBVIOUS
<1>6. d \in Seq(Nat) /\ Len(d) = n /\ From(buf, out, n, d) /\ (n = 0 => d = <<>>)
  <2>1. out + n <= BufLen
    BY <1>2 DEF HasRun
  <2>2. d = Copy(buf, out, n)
    BY <1>2, <1>3
  <2> QED
    BY <2>1, <2>2, CopyReads
<1>7. n = Len(d) /\ HasRun(in, out, n)
  BY <1>1, <1>2, <1>6
<1>8. TakeRun(buf, in, out, n, d, e)
  BY <1>5, <1>6, <1>7 DEF TakeRun
<1>9. e \in Index /\ Ring(buf, in, out) = Join(d, Ring(buf, in, e))
  <2>1. PICK m \in Nat : m = n
    OBVIOUS
  <2>2. PICK c \in Seq(Nat) : c = d
    BY <1>6
  <2>3. TakeRun(buf, in, out, m, c, e)
    BY <1>8, <2>1, <2>2
  <2>4. e \in Index /\ Ring(buf, in, out) = c \o Ring(buf, in, e)
    BY <2>3, RingTake
  <2> QED
    BY <2>2, <2>4 DEF Join
<1>10. t.rx_buf = buf /\ t.rx_in = in /\ t.rx_out = e /\ SameTx(s, t)
  BY <1>1, <1>2, <1>3, <1>5 DEF WithRxOut, SpType, SameTx
<1>11. PICK q \in Seq(Nat) : q = Ring(buf, in, e)
  BY <1>9, RingIsSeq
<1>12. Join(d, Join(q, x)) = Join(Join(d, q), x) /\ Join(q, x) \in Seq(Nat)
  BY <1>6, JoinAssociates
<1>13. PICK z \in Seq(Nat) : z = Join(q, x)
  BY <1>12
<1>14. InChan(u, t, Join(r, d)) = Chan(u.sent, Join(r, d), z)
  BY <1>4, <1>10, <1>11, <1>13 DEF InChan
<1>15. InChan(u, s, r) = Chan(u.sent, r, Join(d, z))
  BY <1>1, <1>2, <1>3, <1>4, <1>9, <1>11, <1>12, <1>13 DEF InChan
<1>16. Chan(u.sent, Join(r, d), z) = C!Take(Chan(u.sent, r, Join(d, z)), Len(d))
  BY <1>6, TakeIs
<1>17. Len(d) <= Len(Chan(u.sent, r, Join(d, z)).queue)
  BY <1>6, TakeIs
<1>18. ASSUME n = 0 PROVE InChan(u, t, Join(r, d)) = InChan(u, s, r)
  <2>1. d = <<>> /\ Join(r, <<>>) = r /\ Join(<<>>, z) = z
    BY <1>6, <1>18, JoinAssociates
  <2> QED
    BY <1>14, <1>15, <2>1
<1> QED
  BY <1>6, <1>10, <1>14, <1>15, <1>16, <1>17, <1>18

\* The copy of a read takes characters from those on their way to the program:
\* the interrupt routine may have filled the ring since the indices were read,
\* never taken from it.
LEMMA ReadCopyMoves ==
  ASSUME FastInv, LookInv, ReadCopy PROVE ConsoleStep /\ LookInv'
<1>1. /\ uart \in UartType /\ sp \in SpType /\ call \in CallType
      /\ io \in [written : Nat, read : Seq(Nat)]
      /\ uart' = uart /\ isr' = isr /\ pc = "r_copy"
  BY Parts DEF ReadCopy
<1>2. /\ call.in \in Index /\ call.out \in Index /\ call.left \in Nat
  BY <1>1 DEF CallType
<1>3. PICK n : n = Least(RxCount(call.in, call.out), call.left)
  OBVIOUS
<1>4. n \in Nat
  BY <1>2, <1>3, RxCountFacts
<1>5. call.out + n <= BufLen /\ n <= Fill(call.in, call.out)
  BY <1>2, <1>3, RxCountFill
<1>6. call.out = sp.rx_out /\ Fill(call.in, call.out) <= Fill(sp.rx_in, sp.rx_out)
  BY <1>1 DEF LookInv, CopyInv, ReadFits
<1>7. HasRun(sp.rx_in, sp.rx_out, n)
  <2>1. PICK m \in Nat : m = Fill(sp.rx_in, sp.rx_out)
    BY <1>1, SpRings, FillFacts, FastAssumption
  <2>2. PICK l \in Nat : l = Fill(call.in, call.out)
    BY <1>2, FillFacts, FastAssumption
  <2>3. n <= m
    BY <1>4, <1>5, <1>6, <2>1, <2>2
  <2> QED
    BY <1>5, <1>6, <2>1, <2>3 DEF HasRun
<1>8. PICK r \in Seq(Nat) : r = io.read
  BY <1>1
<1>9. PICK d : d = Copy(sp.rx_buf, sp.rx_out, n)
  OBVIOUS
<1>10. /\ sp' = WithRxOut(sp, On(sp.rx_out, n))
       /\ io' = [io EXCEPT !.read = Join(r, d)]
       /\ pc' \in {"r_look", "r_kick"}
  BY <1>3, <1>6, <1>8, <1>9 DEF ReadCopy, WithRxOut, On, Copy, Join
<1>11. /\ d \in Seq(Nat) /\ Len(d) = n
       /\ InChan(uart, sp', Join(r, d)) = C!Take(InChan(uart, sp, r), Len(d))
       /\ Len(d) <= Len(InChan(uart, sp, r).queue)
       /\ n = 0 => InChan(uart, sp', Join(r, d)) = InChan(uart, sp, r)
       /\ SameTx(sp, sp')
  <2>1. sp' = WithRxOut(sp, On(sp.rx_out, n))
    BY <1>10
  <2> QED
    BY <1>1, <1>4, <1>7, <1>8, <1>9, <2>1, CopyTakes
<1>12. io'.written = io.written /\ io'.read = Join(r, d)
  BY <1>1, <1>10
<1>13. OutNow' = OutNow
  BY <1>1, <1>11, <1>12, OutStays DEF OutNow, SameOut
<1>14. /\ InNow' = C!Take(InNow, n) /\ n <= Len(InNow.queue)
       /\ n = 0 => InNow' = InNow
  BY <1>1, <1>8, <1>11, <1>12 DEF InNow
<1>15. ConsoleStep
  <2>1. CASE n = 0
    BY <1>13, <1>14, <2>1 DEF ConsoleStep
  <2>2. CASE n # 0
    <3>1. PICK k \in Nat : k = Len(InNow.queue)
      <4>1. InNow.queue \in Seq(Nat)
        <5>1. Ring(sp.rx_buf, sp.rx_in, sp.rx_out) \in Seq(Nat) /\ uart.rx \in Seq(Nat)
          BY <1>1, SpRings, RingIsSeq, UartParts
        <5>2. Join(Ring(sp.rx_buf, sp.rx_in, sp.rx_out), uart.rx) \in Seq(Nat)
          BY <5>1, JoinAssociates
        <5> QED
          BY <5>2 DEF InNow, InChan, Chan
      <4> QED
        BY <4>1
    <3>2. n \in 1 .. k
      BY <1>4, <1>14, <2>2, <3>1
    <3> QED
      BY <1>13, <1>14, <3>1, <3>2 DEF ConsoleStep
  <2> QED
    BY <2>1, <2>2
<1>16. CopyInv'
  BY <1>10 DEF CopyInv, CopyFits, ReadFits, WritesBounded, Writing
<1> QED
  BY <1>1, <1>15, <1>16 DEF LookInv, SpaceIsRoom

\* Every step of the interrupt-driven driver is a step of the console or none.
LEMMA FastMoves ==
  ASSUME FastInv, LookInv, FastNext PROVE ConsoleStep /\ LookInv'
<1>1. CASE FastProgram
  BY <1>1, CallsMove, LooksMove, KicksMove, WaitsMove, SetTimeoutMoves, WriteCopyMoves,
     ReadCopyMoves DEF FastProgram
<1>2. CASE Interrupt
  BY <1>2, IsrLoopMoves, IsrReceiveMoves, IsrTransmitMoves DEF Interrupt
<1>3. CASE TimerRoutine
  BY <1>3, TimerMoves
<1>4. CASE Host
  BY <1>4, HostMoves
<1> QED
  BY <1>1, <1>2, <1>3, <1>4 DEF FastNext

-----------------------------------------------------------------------------
(* The polled driver. *)

\* What the other driver left where it is: two empty rings.
Unused == WithEnable(Started(FALSE), {})

\* No ring is in use, the FIFO holds no more than it can, and a call writes no
\* more than the program may write in all.
PolledCall ==
  [left : Nat, some : BOOLEAN, nonblock : BOOLEAN, in : {0}, out : {0}]
PolledPlaces == {"idle", "s_write", "s_read"}
SmallBounded == pc = "s_write" => io.written + call.left <= MaxWritten
SmallInv ==
  /\ uart \in UartType /\ FifoFits /\ sp = Unused
  /\ io \in [written : Nat, read : Seq(Nat)] /\ call \in PolledCall
  /\ pc \in PolledPlaces /\ SmallBounded

\* A started driver is well typed, and its rings are empty.
LEMMA StartedFacts ==
  ASSUME NEW clock \in BOOLEAN, NEW s, s = Started(clock) \/ s = Unused
  PROVE  /\ s \in SpType /\ s.tx_in = s.tx_out /\ s.rx_in = s.rx_out
<1>1. BufLen \in Nat /\ BufLen > 1 /\ IntMax \in Nat /\ Timeout \in 2 .. IntMax - 2
  BY FastAssumption
<1>2. 0 \in Index /\ 0 \in 0 .. IntMax - 2 /\ Timeout \in 2 .. IntMax /\ IntMax \in 2 .. IntMax
  BY <1>1 DEF Index
<1>3. [i \in 0 .. BufLen - 1 |-> 0] \in [Index -> Nat]
  BY DEF Index
<1>4. {"RE"} \in SUBSET IrqBits /\ {} \in SUBSET IrqBits
  BY DEF IrqBits
<1>5. \A c \in BOOLEAN : (IF c THEN Timeout ELSE IntMax) \in 2 .. IntMax
  BY <1>2
<1>6. \A c \in BOOLEAN : Started(c) \in SpType
  BY <1>2, <1>3, <1>4, <1>5 DEF Started, SpType
<1>7. \A c \in BOOLEAN : Started(c).tx_in = Started(c).tx_out /\ Started(c).rx_in = Started(c).rx_out
  BY DEF Started
<1>8. PICK p \in SpType : p = Started(FALSE)
  BY <1>6
<1>9. /\ WithEnable(p, {}) \in SpType
      /\ WithEnable(p, {}).tx_in = p.tx_in /\ WithEnable(p, {}).tx_out = p.tx_out
      /\ WithEnable(p, {}).rx_in = p.rx_in /\ WithEnable(p, {}).rx_out = p.rx_out
  BY <1>4 DEF WithEnable, SpType
<1> QED
  BY <1>6, <1>7, <1>8, <1>9 DEF Unused

\* With empty rings the channels are the FIFOs.
LEMMA EmptyRings ==
  ASSUME NEW u \in UartType, NEW s \in SpType, s.tx_in = s.tx_out, s.rx_in = s.rx_out,
         NEW w, NEW r
  PROVE  OutChan(u, s, w) = Chan(w, u.took, u.tx) /\ InChan(u, s, r) = Chan(u.sent, r, u.rx)
<1>1. Ring(s.tx_buf, s.tx_in, s.tx_out) = <<>> /\ Ring(s.rx_buf, s.rx_in, s.rx_out) = <<>>
  BY SpRings, RingIsSeq
<1>2. Join(u.tx, <<>>) = u.tx /\ Join(<<>>, u.rx) = u.rx
  BY UartParts, JoinAssociates
<1> QED
  BY <1>1, <1>2 DEF OutChan, InChan

\* So they are for the polled driver, before a step and after it.
LEMMA PolledChannels ==
  ASSUME SmallInv, uart' \in UartType, sp' = sp
  PROVE  /\ OutNow = Chan(io.written, uart.took, uart.tx)
         /\ InNow = Chan(uart.sent, io.read, uart.rx)
         /\ OutNow' = Chan(io'.written, uart'.took, uart'.tx)
         /\ InNow' = Chan(uart'.sent, io'.read, uart'.rx)
<1>1. sp \in SpType /\ sp.tx_in = sp.tx_out /\ sp.rx_in = sp.rx_out
  BY StartedFacts DEF SmallInv
<1>2. uart \in UartType
  BY DEF SmallInv
<1>3. /\ OutChan(uart, sp, io.written) = Chan(io.written, uart.took, uart.tx)
      /\ InChan(uart, sp, io.read) = Chan(uart.sent, io.read, uart.rx)
  BY <1>1, <1>2, EmptyRings
<1>4. /\ OutChan(uart', sp, io'.written) = Chan(io'.written, uart'.took, uart'.tx)
      /\ InChan(uart', sp, io'.read) = Chan(uart'.sent, io'.read, uart'.rx)
  BY <1>1, EmptyRings
<1> QED
  BY <1>3, <1>4 DEF OutNow, InNow

\* A step that ends or starts a call, or finds nothing to do.
LEMMA PolledRests ==
  ASSUME SmallInv, uart' \in UartType, SameOut(uart, uart'), SameIn(uart, uart'),
         sp' = sp, io' = io, call' \in PolledCall, pc' \in PolledPlaces,
         pc' = "s_write" => io.written + call'.left <= MaxWritten
  PROVE  ConsoleStep /\ SmallInv'
<1>1. ConsoleStep
  BY NothingMoves DEF SameTx, SameRx
<1>2. FifoFits'
  BY DEF SmallInv, FifoFits, SameOut
<1> QED
  BY <1>1, <1>2 DEF SmallInv, SmallBounded

\* A write or a read is called.
LEMMA PolledCalls ==
  ASSUME SmallInv, Small!CallWrite \/ Small!CallRead, sp' = sp
  PROVE  ConsoleStep /\ SmallInv'
<1>1. uart' = uart /\ io' = io
  BY DEF Small!CallWrite, Small!CallRead
<1>2. uart' \in UartType /\ SameOut(uart, uart') /\ SameIn(uart, uart')
  BY <1>1 DEF SmallInv, SameOut, SameIn
<1>3. CASE Small!CallWrite
  <2>1. PICK count \in 1 .. MaxWritten - io.written :
          call' = [Small!NoCall EXCEPT !.left = count]
    BY <1>3 DEF Small!CallWrite
  <2>2. PICK w \in Nat : w = io.written
    BY DEF SmallInv
  <2>3. PICK n \in Nat : n = count /\ w + n <= MaxWritten
    BY <2>1, <2>2, FastAssumption
  <2>4. call' \in PolledCall /\ call'.left = n
    BY <2>1, <2>3 DEF Small!NoCall, PolledCall
  <2>5. pc' \in PolledPlaces
    BY <1>3 DEF Small!CallWrite, PolledPlaces
  <2> QED
    BY <1>1, <1>2, <2>2, <2>3, <2>4, <2>5, PolledRests
<1>4. CASE Small!CallRead
  <2>1. PICK space \in 0 .. 2, nb \in BOOLEAN :
          call' = [Small!NoCall EXCEPT !.left = space, !.nonblock = nb]
    BY <1>4 DEF Small!CallRead
  <2>2. PICK n \in Nat : n = space
    OBVIOUS
  <2>3. call' \in PolledCall
    BY <2>1, <2>2 DEF Small!NoCall, PolledCall
  <2>4. pc' = "s_read" /\ pc' \in PolledPlaces
    BY <1>4 DEF Small!CallRead, PolledPlaces
  <2> QED
    BY <1>1, <1>2, <2>3, <2>4, PolledRests
<1> QED
  BY <1>3, <1>4

\* The end of a call.
LEMMA PolledReturns ==
  ASSUME SmallInv, uart' \in UartType, SameOut(uart, uart'), SameIn(uart, uart'),
         sp' = sp, io' = io, Small!Return
  PROVE  ConsoleStep /\ SmallInv'
<1>1. call' \in PolledCall
  BY DEF Small!Return, Small!NoCall, PolledCall
<1>2. pc' = "idle" /\ pc' \in PolledPlaces
  BY DEF Small!Return, PolledPlaces
<1> QED
  BY <1>1, <1>2, PolledRests

\* The call with one character less to move.
Progressed(c, n) == [c EXCEPT !.left = n, !.some = TRUE]

\* It is a call.
LEMMA ProgressedFacts ==
  ASSUME NEW c \in PolledCall, c.left > 0
  PROVE  /\ c.left - 1 \in Nat /\ Progressed(c, c.left - 1) \in PolledCall
         /\ Progressed(c, c.left - 1).left = c.left - 1
<1>1. PICK k \in Nat : k = c.left /\ k > 0
  BY DEF PolledCall
<1>2. PICK n \in Nat : n = k - 1
  BY <1>1
<1>3. Progressed(c, n) \in PolledCall /\ Progressed(c, n).left = n
  BY DEF Progressed, PolledCall
<1> QED
  BY <1>1, <1>2, <1>3

\* The loop of a write puts a character where there is room.
LEMMA PolledWrites ==
  ASSUME SmallInv, Small!SmallWrite, sp' = sp
  PROVE  ConsoleStep /\ SmallInv'
<1>1. /\ uart \in UartType /\ FifoFits
      /\ io \in [written : Nat, read : Seq(Nat)] /\ call \in PolledCall /\ call.left \in Nat
  BY DEF SmallInv, PolledCall
<1>2. PICK w \in Nat : w = io.written
  BY <1>1
<1>3. PICK x \in Seq(Nat) : x = uart.tx
  BY <1>1, UartParts
<1>4. CASE call.left > 0 /\ Small!Control(uart).WSPACE # 0
  <2>1. /\ uart' = PutData(uart, w + 1) /\ io' = [io EXCEPT !.written = w + 1]
        /\ call' = Progressed(call, call.left - 1) /\ pc' = pc /\ pc = "s_write"
    BY <1>2, <1>4 DEF Small!SmallWrite, Small!PutData, PutData, Progressed
  <2>2. Len(x) < Depth
    BY <1>1, <1>3, <1>4, UartAssumption DEF Small!Control, FifoFits
  <2>3. PICK c \in Nat : c = w + 1
    OBVIOUS
  <2>4. uart' \in UartType /\ FifoFits'
    BY <1>1, <2>1, <2>3, PutDataFacts DEF FifoFits
  <2>5. /\ uart'.tx = Append(x, c) /\ uart'.took = uart.took /\ SameIn(uart, uart')
    BY <1>1, <1>3, <2>1, <2>2, <2>3 DEF PutData, UartType, SameIn
  <2>6. io' \in [written : Nat, read : Seq(Nat)] /\ io'.written = c /\ io'.read = io.read
    BY <1>1, <2>1, <2>3
  <2>7. PICK k \in Nat : k = call.left /\ k > 0
    BY <1>1, <1>4
  <2>8. call' \in PolledCall /\ call'.left = k - 1
    BY <1>1, <2>1, <2>7, ProgressedFacts
  <2>9. w + k <= MaxWritten
    BY <1>2, <2>1, <2>7 DEF SmallInv, SmallBounded
  <2>10. SmallInv'
    <3>1. PICK l \in Nat : l = k - 1
      BY <2>7
    <3>2. c + l <= MaxWritten
      BY <2>3, <2>7, <2>9, <3>1, FastAssumption
    <3>3. SmallBounded'
      BY <2>6, <2>8, <3>1, <3>2 DEF SmallBounded
    <3> QED
      BY <2>1, <2>4, <2>6, <2>8, <3>3 DEF SmallInv
  <2>11. InNow' = InNow /\ OutNow = Chan(w, uart.took, x) /\ OutNow' = Chan(c, uart.took, Append(x, c))
    BY <1>2, <1>3, <2>4, <2>5, <2>6, PolledChannels DEF SameIn
  <2>12. Chan(w + 1, uart.took, Join(x, <<w + 1>>)) = C!Put(Chan(w, uart.took, x), 1)
    BY PutOne
  <2>13. OutNow' = C!Put(OutNow, 1)
    BY <2>3, <2>11, <2>12, AppendJoins
  <2>14. 1 \in 1 .. MaxWritten
    BY <2>7, <2>9, FastAssumption
  <2> QED
    BY <2>10, <2>11, <2>13, <2>14 DEF ConsoleStep
<1>5. CASE call.left = 0 /\ Small!Return /\ UNCHANGED <<uart, io>>
  BY <1>1, <1>5, PolledReturns DEF SameOut, SameIn
<1> QED
  BY <1>4, <1>5 DEF Small!SmallWrite

\* The loop of a read takes a character if there is one.
LEMMA PolledReads ==
  ASSUME SmallInv, Small!SmallRead, sp' = sp
  PROVE  ConsoleStep /\ SmallInv'
<1>1. /\ uart \in UartType /\ FifoFits
      /\ io \in [written : Nat, read : Seq(Nat)] /\ call \in PolledCall /\ call.left \in Nat
  BY DEF SmallInv, PolledCall
<1>2. PICK x \in Seq(Nat) : x = uart.rx
  BY <1>1, UartParts
<1>3. CASE call.left = 0 /\ Small!Return /\ UNCHANGED <<uart, io>>
  BY <1>1, <1>3, PolledReturns DEF SameOut, SameIn
<1>4. CASE call.left > 0 /\ uart.rx # <<>>
  <2>1. PICK r \in Seq(Nat) : r = io.read
    BY <1>1
  <2>2. PICK c \in Nat : c = Head(x)
    BY <1>2, <1>4, HeadJoins
  <2>3. PICK y \in Seq(Nat) : y = Tail(x)
    BY <1>2, <1>4, HeadJoins
  <2>4. PICK d \in Seq(Nat) : d = <<c>> /\ Len(d) = 1 /\ d # <<>>
    BY OneChar
  <2>5. x = Join(d, y) /\ Append(r, c) = Join(r, d) /\ Append(r, c) \in Seq(Nat)
    BY <1>2, <1>4, <2>2, <2>3, <2>4, HeadJoins, AppendJoins
  <2>6. /\ uart' = GetData(uart) /\ io' = [io EXCEPT !.read = Append(r, c)]
        /\ call' = Progressed(call, call.left - 1) /\ pc' = pc /\ pc = "s_read"
    BY <1>2, <1>4, <2>1, <2>2 DEF Small!SmallRead, Small!GetData, GetData, Progressed
  <2>7. uart' \in UartType /\ uart'.tx = uart.tx
    BY <1>1, <2>6, GetDataFacts
  <2>8. uart'.rx = y /\ uart'.took = uart.took /\ uart'.sent = uart.sent
    BY <1>1, <1>2, <1>4, <2>3, <2>6 DEF GetData, UartType
  <2>9. io' \in [written : Nat, read : Seq(Nat)] /\ io'.written = io.written /\ io'.read = Join(r, d)
    BY <1>1, <2>5, <2>6
  <2>10. PICK k \in Nat : k = call.left /\ k > 0
    BY <1>1, <1>4
  <2>11. call' \in PolledCall
    BY <1>1, <2>6, <2>10, ProgressedFacts
  <2>12. SmallInv'
    BY <1>1, <2>6, <2>7, <2>9, <2>11 DEF SmallInv, SmallBounded, FifoFits
  <2>13. /\ OutNow' = OutNow /\ InNow = Chan(uart.sent, r, Join(d, y))
         /\ InNow' = Chan(uart.sent, Join(r, d), y)
    BY <1>2, <2>1, <2>5, <2>7, <2>8, <2>9, PolledChannels
  <2>14. /\ Chan(uart.sent, Join(r, d), y) = C!Take(Chan(uart.sent, r, Join(d, y)), Len(d))
         /\ Len(d) <= Len(Chan(uart.sent, r, Join(d, y)).queue)
    BY TakeIs
  <2>15. InNow' = C!Take(InNow, 1) /\ 1 <= Len(InNow.queue)
    BY <2>4, <2>13, <2>14
  <2>16. 1 \in 1 .. Len(InNow.queue)
    <3>1. InNow.queue \in Seq(Nat)
      BY <1>2, <2>5, <2>13 DEF Chan
    <3>2. PICK l \in Nat : l = Len(InNow.queue)
      BY <3>1
    <3> QED
      BY <2>15, <3>2
  <2> QED
    BY <2>12, <2>13, <2>15, <2>16 DEF ConsoleStep
<1>5. CASE call.left > 0 /\ uart.rx = <<>>
  <2>1. uart' = GetData(uart) /\ io' = io
    BY <1>5 DEF Small!SmallRead, Small!GetData, GetData
  <2>2. uart' \in UartType /\ SameOut(uart, uart') /\ SameIn(uart, uart')
    <3>1. uart' \in UartType
      BY <1>1, <2>1, GetDataFacts
    <3>2. SameOut(uart, uart') /\ SameIn(uart, uart')
      BY <1>1, <1>5, <2>1 DEF GetData, UartType, SameOut, SameIn
    <3> QED
      BY <3>1, <3>2
  <2>3. CASE Small!Return
    BY <2>1, <2>2, <2>3, PolledReturns
  <2>4. CASE UNCHANGED <<pc, call>>
    BY <1>1, <2>1, <2>2, <2>4, PolledRests DEF SmallInv, SmallBounded
  <2> QED
    BY <1>5, <2>3, <2>4 DEF Small!SmallRead
<1> QED
  BY <1>3, <1>4, <1>5 DEF Small!SmallRead

\* The host beside the polled driver.
LEMMA HostBesidePolled ==
  ASSUME SmallInv, Host PROVE ConsoleStep /\ SmallInv'
<1>1. uart \in UartType /\ sp \in SpType
  BY StartedFacts DEF SmallInv
<1>2. ConsoleStep /\ uart' \in UartType /\ Len(uart'.tx) <= Len(uart.tx)
  BY <1>1, HostPlays
<1>3. PICK k \in Nat : k = Len(uart.tx)
  BY <1>1, UartParts
<1>4. PICK l \in Nat : l = Len(uart'.tx)
  BY <1>2, UartParts
<1>5. FifoFits'
  BY <1>2, <1>3, <1>4, UartAssumption DEF SmallInv, FifoFits
<1> QED
  BY <1>2, <1>5 DEF Host, SmallInv, SmallBounded

\* Every step of the polled driver is a step of the console or none.
LEMMA PolledMoves ==
  ASSUME SmallInv, Small!SmallProgram, sp' = sp PROVE ConsoleStep /\ SmallInv'
BY PolledCalls, PolledWrites, PolledReads DEF Small!SmallProgram

-----------------------------------------------------------------------------
(* Both drivers. *)

\* What holds of the driver that is built.
DriverInv ==
  /\ build = "fast" => FastInv /\ LookInv
  /\ build # "fast" => SmallInv

\* The device after reset.
LEMMA UartResetType == UartReset \in UartType
<1>1. <<>> \in Seq(Nat)
  OBVIOUS
<1> QED
  BY <1>1 DEF UartReset, UartType

\* Before anything is sent both channels are quiet.
LEMMA QuietChannels ==
  ASSUME uart \in UartType, SameOut(UartReset, uart), SameIn(UartReset, uart),
         sp \in SpType, sp.tx_in = sp.tx_out, sp.rx_in = sp.rx_out,
         io.written = 0, io.read = <<>>
  PROVE  C!Init
<1>1. OutNow = Chan(0, uart.took, uart.tx) /\ InNow = Chan(uart.sent, <<>>, uart.rx)
  BY EmptyRings DEF OutNow, InNow
<1>2. uart.took = <<>> /\ uart.tx = <<>> /\ uart.rx = <<>> /\ uart.sent = 0
  BY DEF SameOut, SameIn, UartReset
<1>3. OutNow = C!Quiet /\ InNow = C!Quiet
  BY <1>1, <1>2 DEF Chan, C!Quiet
<1> QED
  BY <1>3 DEF OutNow, InNow, OutChan, InChan, Chan, Join, C!Init

\* It holds at the start, when nothing has been sent.
LEMMA StartsQuiet ==
  ASSUME MCInit
  PROVE  DriverInv /\ C!Init
<1>1. CASE build = "fast" /\ FastInit
  <2>1. FastInv
    BY <1>1, FastInitInv
  <2>2. PICK clock \in BOOLEAN : sp = Started(clock)
    BY <1>1 DEF FastInit
  <2>3. sp \in SpType /\ sp.tx_in = sp.tx_out /\ sp.rx_in = sp.rx_out
    BY <2>2, StartedFacts
  <2>4. uart \in UartType /\ SameOut(UartReset, uart) /\ SameIn(UartReset, uart)
    <3>1. uart \in UartType
      BY <2>1, Parts
    <3>2. UartReset \in UartType
      BY UartResetType
    <3>3. uart = SetControl(UartReset, {"RE"}, FALSE)
      BY <1>1 DEF FastInit
    <3> QED
      BY <3>1, <3>2, <3>3, ControlMovesNothing
  <2>5. LookInv
    <3>1. CopyInv
      BY <1>1 DEF FastInit, CopyInv, CopyFits, ReadFits, WritesBounded, Writing
    <3>2. isr.space = 0
      BY <1>1 DEF FastInit, Idle
    <3>3. FifoFits /\ uart.tx \in Seq(Nat)
      BY <2>1, <2>4, UartParts DEF FastInv, TypeInv
    <3>4. PICK k \in Nat : k = Len(uart.tx)
      BY <3>3
    <3>5. SpaceIsRoom
      BY <3>2, <3>3, <3>4, UartAssumption DEF FifoFits, SpaceIsRoom
    <3> QED
      BY <3>1, <3>5 DEF LookInv
  <2>6. io.written = 0 /\ io.read = <<>>
    BY <1>1 DEF FastInit, NoIO
  <2> QED
    BY <1>1, <2>1, <2>3, <2>4, <2>5, <2>6, QuietChannels DEF DriverInv
<1>2. CASE build = "small" /\ Small!SmallInit /\ sp = Unused
  <2>1. sp \in SpType /\ sp.tx_in = sp.tx_out /\ sp.rx_in = sp.rx_out
    BY <1>2, StartedFacts
  <2>2. uart = UartReset
    BY <1>2 DEF Small!SmallInit, Small!UartReset, UartReset
  <2>3. uart \in UartType /\ SameOut(UartReset, uart) /\ SameIn(UartReset, uart)
    BY <2>2, UartResetType DEF SameOut, SameIn
  <2>4. io = [written |-> 0, read |-> <<>>] /\ call \in PolledCall /\ pc = "idle"
    BY <1>2 DEF Small!SmallInit, Small!NoCall, PolledCall
  <2>5. io \in [written : Nat, read : Seq(Nat)] /\ io.written = 0 /\ io.read = <<>>
    <3>1. <<>> \in Seq(Nat)
      OBVIOUS
    <3> QED
      BY <2>4, <3>1
  <2>6. FifoFits
    <3>1. uart.tx = <<>> /\ Len(<<>>) = 0
      BY <2>2 DEF UartReset
    <3> QED
      BY <3>1, UartAssumption DEF FifoFits
  <2> QED
    BY <1>2, <2>1, <2>3, <2>4, <2>5, <2>6, QuietChannels
      DEF DriverInv, SmallInv, SmallBounded, PolledPlaces
<1> QED
  BY <1>1, <1>2 DEF MCInit, Unused, WithEnable

\* The host comes and goes without moving anything.
LEMMA LeavesMove ==
  ASSUME DriverInv, UNCHANGED fastVars, build' = build
  PROVE  ConsoleStep /\ DriverInv'
<1>1. uart' = uart /\ sp' = sp /\ isr' = isr /\ pc' = pc /\ call' = call /\ io' = io
  BY DEF fastVars
<1>2. ConsoleStep
  BY <1>1, NothingMoves DEF SameOut, SameIn, SameTx, SameRx
<1>3. CASE build = "fast"
  <2>1. FastInv /\ LookInv
    BY <1>3 DEF DriverInv
  <2>2. FastInv'
    BY <2>1, FastStepInv
  <2>3. CopyInv'
    BY <1>1, <2>1, CopyStays DEF LookInv, SameTx, SameRx
  <2>4. SpaceIsRoom'
    BY <1>1, <2>1 DEF LookInv, SpaceIsRoom
  <2> QED
    BY <1>2, <1>3, <2>2, <2>3, <2>4 DEF DriverInv, LookInv
<1>4. CASE build # "fast"
  BY <1>1, <1>2, <1>4 DEF DriverInv, SmallInv, SmallBounded, FifoFits
<1> QED
  BY <1>2, <1>3, <1>4

\* Every step keeps it and is a step of the console or none.
LEMMA DriversMove ==
  ASSUME DriverInv, [MCNext]_vars PROVE ConsoleStep /\ DriverInv'
<1>1. CASE UNCHANGED vars \/ HostLeaves
  BY <1>1, LeavesMove DEF vars, HostLeaves
<1>2. CASE build = "fast" /\ FastNext /\ build' = build
  <2>1. FastInv /\ LookInv
    BY <1>2 DEF DriverInv
  <2> QED
    BY <1>2, <2>1, FastMoves, FastStepInv DEF DriverInv
<1>3. CASE build # "fast" /\ build' = build /\ (Host \/ (Small!SmallProgram /\ sp' = sp))
  <2>1. SmallInv
    BY <1>3 DEF DriverInv
  <2> QED
    BY <1>3, <2>1, PolledMoves, HostBesidePolled DEF DriverInv
<1>4. \/ UNCHANGED vars \/ HostLeaves
      \/ build = "fast" /\ FastNext /\ build' = build
      \/ build # "fast" /\ build' = build /\ (Host \/ (Small!SmallProgram /\ sp' = sp))
  <2>1. CASE ProgramStep
    BY <2>1 DEF ProgramStep, FastNext
  <2>2. CASE InterruptStep
    BY <2>2 DEF InterruptStep, FastNext
  <2>3. CASE TimerStep
    BY <2>3 DEF TimerStep, FastNext
  <2>4. CASE HostStep
    <3>1. Host /\ build' = build
      BY <2>4 DEF HostStep
    <3>2. CASE build = "fast"
      BY <3>1, <3>2 DEF FastNext
    <3> QED
      BY <3>1, <3>2
  <2>5. CASE MCNext
    BY <2>1, <2>2, <2>3, <2>4, <2>5 DEF MCNext
  <2> QED
    BY <2>5
<1> QED
  BY <1>1, <1>2, <1>3, <1>4

\* Whatever the program, the interrupts, the timer and a host that may leave do,
\* and in any order, each character that the program writes reaches the host once
\* and in order, and so does each that the host sends: both drivers implement the
\* two channels.
THEOREM DriversAreChannels == MCSpec => ImplementsConsole
<1>1. MCInit => DriverInv /\ C!Init
  BY StartsQuiet
<1>2. DriverInv /\ [MCNext]_vars => DriverInv'
  BY DriversMove
<1>3. DriverInv /\ [MCNext]_vars => [C!Next]_(C!vars)
  BY DriversMove, StepsAreConsole
<1> QED
  BY <1>1, <1>2, <1>3, PTL DEF MCSpec, ImplementsConsole, C!Spec

\* The device and whichever driver is built keep their types beside a host that may
\* leave: the indices of the interrupt-driven driver stay inside its rings, and the
\* polled one never fills the FIFO beyond its depth.
THEOREM DriversTyped == MCSpec => []TypeOK
<1>1. MCInit => DriverInv
  BY StartsQuiet
<1>2. DriverInv /\ [MCNext]_vars => DriverInv'
  BY DriversMove
<1>3. ASSUME SmallInv PROVE Small!SmallTypeOK
  <2>1. uart \in Small!UartType
    BY <1>3 DEF SmallInv, UartType, Small!UartType
  <2>2. Len(uart.tx) <= Depth
    BY <1>3 DEF SmallInv, FifoFits
  <2> QED
    BY <1>3, <2>1, <2>2 DEF SmallInv, PolledCall, PolledPlaces, Small!SmallTypeOK
<1>4. DriverInv => TypeOK
  BY <1>3 DEF DriverInv, TypeOK, FastInv, TypeInv
<1> QED
  BY <1>1, <1>2, <1>4, PTL DEF MCSpec
=============================================================================
