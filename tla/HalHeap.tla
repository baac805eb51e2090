------------------------------- MODULE HalHeap -------------------------------
(***************************************************************************)
(* sbrk, and the stack below which the heap grows.  Addresses are numbers, *)
(* WORD of them in a word.  sbrk disables interrupts, so it is one step.   *)
(* `blocks' has what sbrk has handed out, the oldest first.                *)
(***************************************************************************)
EXTENDS Integers, Sequences

CONSTANTS
  WORD,                \* bytes of a word (4)
  __alt_heap_start, __alt_heap_limit,
  StackTop,            \* where the stack starts, at or above the limit
  Increments           \* what the program calls sbrk with

ASSUME HeapAssumption ==
  /\ WORD \in Nat \ {0}
  /\ __alt_heap_start \in Nat /\ __alt_heap_start % WORD = 0
  /\ __alt_heap_limit \in Nat /\ __alt_heap_start <= __alt_heap_limit
  /\ StackTop \in Nat /\ __alt_heap_limit <= StackTop
  /\ Increments \subseteq Int

VARIABLES
  heap_end,     \* the first address above the heap
  stack_limit,  \* the register that generated code compares the stack with
  sp,           \* the stack pointer
  overflow,     \* alt_report_stack_overflow was called
  odd,          \* ghost: some increment was no multiple of a word
  blocks        \* ghost: the blocks handed out and not taken back

heapVars == <<heap_end, stack_limit, sp, overflow, odd, blocks>>

HeapInit ==
  /\ heap_end = __alt_heap_start /\ stack_limit = __alt_heap_start
  /\ sp = StackTop /\ overflow = FALSE
  /\ odd = FALSE /\ blocks = <<>>

Aligned(a) == ((a + WORD - 1) \div WORD) * WORD

\* Faulty: the limit is compared with the end before the increment.
Fits_Late(incr) == Aligned(heap_end) <= __alt_heap_limit
Fits(incr) == Aligned(heap_end) + incr <= __alt_heap_limit

\* The block a call returns, or for a negative increment what is left of the
\* newest block.
Shortened(b, n) == IF b.size = n THEN <<>> ELSE <<[b EXCEPT !.size = @ - n]>>
Newest == blocks[Len(blocks)]
Older == SubSeq(blocks, 1, Len(blocks) - 1)
BlocksAfter(base, incr, owner) ==
  IF incr > 0 THEN Append(blocks, [at |-> base, size |-> incr, owner |-> owner])
  ELSE IF incr < 0 THEN Older \o Shortened(Newest, -incr)
  ELSE blocks

\* A call for which there is room.  The stack limit follows the heap as long as
\* it is where the heap ended.
Extend(incr, owner) ==
  LET base == Aligned(heap_end)
      end == base + incr
  IN  /\ Fits(incr)
      /\ heap_end' = end
      /\ overflow' = (overflow \/ (stack_limit = base /\ sp <= end))
      /\ stack_limit' = IF stack_limit = base THEN end ELSE stack_limit
      /\ odd' = (odd \/ incr % WORD # 0)
      /\ blocks' = BlocksAfter(base, incr, owner)
      /\ UNCHANGED sp

\* A call for which there is none returns -1; the end is aligned all the same.
Refuse(incr) ==
  /\ ~ Fits(incr)
  /\ heap_end' = Aligned(heap_end)
  /\ UNCHANGED <<stack_limit, sp, overflow, odd, blocks>>

\* The program's allocator gives back no more than its own, once sbrk(0) has told
\* it that nothing is above.
GivesBack(incr) ==
  incr < 0 => /\ blocks # <<>> /\ Newest.owner = "program"
              /\ Newest.at + Newest.size = Aligned(heap_end) /\ Newest.size >= -incr

ALT_SBRK ==
  \E incr \in Increments :
    GivesBack(incr) /\ (Extend(incr, "program") \/ Refuse(incr))

\* A function is entered or left.  Code compiled with stack checking reports a
\* stack pointer below the limit.
MoveStack ==
  /\ ~ overflow
  /\ \E n \in {-WORD, WORD} :
       /\ sp + n \in 0 .. StackTop
       /\ sp' = sp + n
       /\ overflow' = (sp' < stack_limit)
  /\ UNCHANGED <<heap_end, stack_limit, odd, blocks>>

HeapNext == ALT_SBRK \/ MoveStack

HeapSpec == HeapInit /\ [][HeapNext]_heapVars

-----------------------------------------------------------------------------
(* Properties. *)

BlocksApart ==
  /\ \A i, j \in DOMAIN blocks : i < j => blocks[i].at + blocks[i].size <= blocks[j].at
  /\ \A i \in DOMAIN blocks :
       /\ blocks[i].at % WORD = 0 /\ blocks[i].at >= __alt_heap_start
       /\ blocks[i].at + blocks[i].size <= heap_end
  /\ heap_end <= Aligned(__alt_heap_limit)

StackClear == ~ odd /\ ~ overflow => heap_end <= sp

\* No two blocks that sbrk hands out overlap or leave the heap, whoever asks and
\* whatever is given back and refused in between: lines 76-92 check the bound,
\* which the comment in lines 46-48 says nothing does.  As long as increments are
\* whole words the heap does not grow into the stack unreported.  After one that
\* is not the limit stops following the heap, and nothing is said of the stack.
HeapInOrder == BlocksApart /\ StackClear
=============================================================================
