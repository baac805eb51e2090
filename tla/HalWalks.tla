------------------------------ MODULE HalWalks ------------------------------
(***************************************************************************)
(* Three loops of the HAL whose ends are delicate, walked turn by turn:    *)
(* the flushing of a region from a cache, the busy wait under usleep, and  *)
(* the hexadecimal digits of alt_printf.                                   *)
(***************************************************************************)
EXTENDS Naturals, Sequences, Walks

CONSTANTS
  LINE_SIZE,       \* bytes in a line of a cache
  CACHE_SIZE,      \* bytes in a cache
  Starts, Lens,    \* the regions that are flushed
  PerMicro,        \* turns of the delay loop in a microsecond
  IntMax,          \* INT_MAX; the loop counts in 2 * IntMax + 2 numbers
  Sleeps,          \* the microseconds that are slept
  Digits           \* hexadecimal digits in an unsigned long (8)

\* A cache is of whole lines, and a loop can count a microsecond.
ASSUME LoopsAssumption ==
  /\ {LINE_SIZE, CACHE_SIZE, PerMicro, IntMax, Digits} \subseteq Nat \ {0}
  /\ CACHE_SIZE % LINE_SIZE = 0 /\ PerMicro <= IntMax
  /\ Starts \subseteq Nat /\ Lens \subseteq Nat /\ Sleeps \subseteq Nat

-----------------------------------------------------------------------------
(* Flushing [start, start + len) from a direct-mapped cache.  By address,  *)
(* a line leaves the cache only under its own address; by index, whatever  *)
(* is in its place leaves, and no more than the whole cache is asked for.  *)
(* Addresses are unbounded: no region reaches the last line of the 32-bit  *)
(* address space, where the end, or the address of the next line, would    *)
(* wrap round to 0.                                                        *)

LineOf(a) == a \div LINE_SIZE
Place(l) == l % (CACHE_SIZE \div LINE_SIZE)

\* Faulty: the trimmed length is that of the cache less a line.
Trimmed_Short(len) == IF len >= CACHE_SIZE THEN CACHE_SIZE - LINE_SIZE ELSE len
Trimmed(len) == IF len > CACHE_SIZE THEN CACHE_SIZE ELSE len

FlushInit ==
  \E start \in Starts, len \in Lens, by \in {"address", "index"} :
    at = [of |-> "flush", start |-> start, len |-> len, by |-> by, i |-> start,
          end |-> start + (IF by = "index" THEN Trimmed(len) ELSE len),
          flushed |-> {}, ended |-> FALSE]

\* A turn of the loop, or what follows it: a region that does not start at a line
\* may reach into one line more.
FlushLine ==
  /\ On("flush") /\ ~ at.ended
  /\ \/ /\ at.i < at.end
        /\ at' = [at EXCEPT !.flushed = @ \cup {LineOf(at.i)}, !.i = @ + LINE_SIZE]
     \/ /\ at.i >= at.end
        /\ at' = [at EXCEPT !.ended = TRUE,
                            !.flushed = IF at.start % LINE_SIZE = 0 THEN @
                                        ELSE @ \cup {LineOf(at.i)}]

\* Nothing of the region stays in the cache, wherever it starts and ends.
FlushesAll ==
  On("flush") /\ at.ended =>
    \A a \in at.start .. at.start + at.len - 1 :
      IF at.by = "address" THEN LineOf(a) \in at.flushed
      ELSE \E l \in at.flushed : Place(l) = Place(LineOf(a))

-----------------------------------------------------------------------------
(* alt_busy_sleep: loops of IntMax turns, and one for what remains.        *)

MostAtOnce == IntMax \div PerMicro

\* The turns of the two loops.  `bne' goes round once more from 0 through all the
\* numbers of a word; `bgt' stops at once.
TurnsToZero(n) == IF n = 0 THEN 2 * IntMax + 2 ELSE n
TurnsWhilePositive(n) == IF n = 0 THEN 1 ELSE n

SleepInit ==
  \E us \in Sleeps :
    at = [of |-> "sleep", asked |-> us, us |-> us, big_loops |-> us \div MostAtOnce,
          big |-> us >= MostAtOnce, turns |-> 0, ended |-> FALSE]

BigLoop ==
  /\ On("sleep") /\ at.big_loops > 0
  /\ at' = [at EXCEPT !.big_loops = @ - 1, !.us = @ - MostAtOnce, !.turns = @ + IntMax]

LastLoop ==
  /\ On("sleep") /\ at.big_loops = 0 /\ ~ at.ended
  /\ LET n == at.us * PerMicro
     IN  at' = [at EXCEPT !.ended = TRUE,
                          !.turns = @ + IF at.big THEN TurnsToZero(n)
                                        ELSE TurnsWhilePositive(n)]

\* Where full loops leave nothing over, the last one goes round all the numbers.
Surplus == IF at.big /\ at.asked % MostAtOnce = 0 THEN 2 * IntMax + 2 ELSE 0

\* The turns asked for, a microsecond more for each full loop, and one for none.
Allowed == (at.asked + at.asked \div MostAtOnce) * PerMicro + 1

\* The wait is at least as long as asked, and longer by no more than a microsecond
\* for each full loop and a turn, and by the surplus, which it never misses.
SleepsAsLong ==
  On("sleep") /\ at.ended =>
    at.asked * PerMicro + Surplus <= at.turns /\ at.turns <= Allowed + Surplus

\* "The ASM instructions in the routine are equivalent to
\* for (i=0;i<us*(ALT_CPU_FREQ/3);i++);" (alt_busy_sleep.c, lines 34-36): the
\* wait is no longer than that loop, but for the rounding of the full loops.
SleepsNoLonger == On("sleep") /\ at.ended => at.turns <= Allowed

-----------------------------------------------------------------------------
(* The case 'x' of alt_printf.  A number is its hexadecimal digits, the    *)
(* digit n times 16^n.                                                     *)

HexNumber == [0 .. Digits - 1 -> 0 .. 15]

\* What the mask at a shift leaves, shifted down.
Digit(v, n) == v[n]
NoDigits == [n \in 0 .. Digits - 1 |-> 0]

HexInit ==
  \E v \in HexNumber :
    at = [of |-> "hex", v |-> v, shift |-> Digits - 1, started |-> FALSE, put |-> <<>>,
          ended |-> FALSE]

HexZero ==
  /\ On("hex") /\ at.v = NoDigits /\ ~ at.ended
  /\ at' = [at EXCEPT !.put = <<0>>, !.ended = TRUE]

\* The shift of the first digit that is not 0 is looked for, and the digits are
\* put from there on.
HexDigit ==
  /\ On("hex") /\ at.v # NoDigits /\ ~ at.ended
  /\ LET d == Digit(at.v, at.shift)
         puts == at.started \/ d # 0
     IN  at' = [at EXCEPT !.put = IF puts THEN Append(@, d) ELSE @, !.started = puts,
                          !.shift = IF @ = 0 THEN @ ELSE @ - 1, !.ended = at.shift = 0]

\* The digits of a number from n down to m, as they are read.
Down(v, n, m) == [j \in 1 .. n + 1 - m |-> v[n + 1 - j]]

\* What is put is the number, from its first digit that is not 0 to the last.
PrintsTheNumber ==
  On("hex") /\ at.ended =>
    \E n \in 0 .. Digits - 1 :
      /\ at.put = Down(at.v, n, 0) /\ (n > 0 => at.v[n] # 0)
      /\ \A m \in n + 1 .. Digits - 1 : at.v[m] = 0

-----------------------------------------------------------------------------
HalWalksInit == FlushInit \/ SleepInit \/ HexInit

HalWalksNext == FlushLine \/ BigLoop \/ LastLoop \/ HexZero \/ HexDigit

HalWalksSpec == HalWalksInit /\ [][HalWalksNext]_at

\* The loops of the library do what their callers rely on at every boundary: a
\* flushed region has left the cache whether or not it starts at a line or exceeds
\* the cache (alt_dcache_flush.c, lines 88-92), a wait is not cut short, and is
\* longer than asked by what SleepsAsLong says (alt_busy_sleep.c), and a printed
\* number reads back (alt_printf.c).
LibraryLoops == FlushesAll /\ SleepsAsLong /\ PrintsTheNumber
=============================================================================
