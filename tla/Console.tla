------------------------------ MODULE Console ------------------------------
(***************************************************************************)
(* What a driver of the JTAG UART promises, whatever its buffers and its   *)
(* interrupts: two channels, from the program to the host and back, that   *)
(* lose, repeat and reorder nothing.  The n-th character of a channel is n.*)
(***************************************************************************)
EXTENDS Naturals, Sequences

CONSTANT MaxRun  \* the most characters a call moves at once

VARIABLES out, in   \* the channels: what was sent, what is on its way, what arrived

vars == <<out, in>>

Quiet == [sent |-> 0, queue |-> <<>>, got |-> <<>>]

\* n characters are sent; the first n on their way arrive.
Put(c, n) ==
  [c EXCEPT !.sent = @ + n, !.queue = @ \o [i \in 1 .. n |-> c.sent + i]]
Take(c, n) ==
  [c EXCEPT !.queue = SubSeq(@, n + 1, Len(@)), !.got = @ \o SubSeq(c.queue, 1, n)]

Init == out = Quiet /\ in = Quiet

Writes == \E n \in 1 .. MaxRun : out' = Put(out, n) /\ UNCHANGED in
HostTakes == out.queue # <<>> /\ out' = Take(out, 1) /\ UNCHANGED in
HostSends == in' = Put(in, 1) /\ UNCHANGED out
Reads == \E n \in 1 .. Len(in.queue) : in' = Take(in, n) /\ UNCHANGED out

Next == Writes \/ HostTakes \/ HostSends \/ Reads

Spec == Init /\ [][Next]_vars
=============================================================================
