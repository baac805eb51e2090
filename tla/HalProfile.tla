----------------------------- MODULE HalProfile -----------------------------
(***************************************************************************)
(* The profiler (alt_gmon.c, alt_mcount.S): every function that is entered *)
(* counts the arc from its caller, in the program and in interrupt         *)
(* routines, which may start between any two of its steps and count to the *)
(* end before it goes on.  The functions here share a hash bucket.  Memory *)
(* comes from sbrk in slabs; there is enough, for mcount_allocate does not *)
(* look whether sbrk fails.                                                *)
(***************************************************************************)
EXTENDS HalHeap, FiniteSets

CONSTANTS
  Functions, Callers,
  MCOUNT_SLAB_INCREMENT,
  EntrySize,     \* of a mcount_fn_entry or a mcount_fn_arc (12)
  Histogram,     \* bytes of the buffer for the samples of the program counter
  MaxNesting,    \* the program and the interrupt routines that interrupt one another
  MaxCalls       \* bound on the functions entered

ASSUME ProfileAssumption ==
  /\ EntrySize \in Nat \ {0} /\ MCOUNT_SLAB_INCREMENT \in Nat
  /\ 2 * EntrySize <= MCOUNT_SLAB_INCREMENT
  /\ Histogram \in Nat /\ MaxNesting \in Nat /\ MaxCalls \in Nat

VARIABLES
  nesting,       \* how many may count at once, in this behaviour
  ticking,       \* the system clock runs: alt_ticks_per_second() # 0
  need_init,     \* pcsample_need_init
  starts,        \* ghost: how often the sampling alarm was started
  entries,       \* the list of a bucket, the head last, each with its arcs
  slab,          \* mcount_slab_ptr and mcount_slab_size
  frames,        \* the arcs that are being counted, the running one last
  calls          \* ghost: how often each arc was entered

profileVars == <<heapVars, nesting, ticking, need_init, starts, entries, slab, frames, calls>>

Arcs == Functions \X Callers

ProfileInit ==
  /\ HeapInit
  /\ nesting \in 1 .. MaxNesting
  /\ ticking = FALSE /\ need_init = TRUE /\ starts = 0
  /\ entries = <<>> /\ slab = [ptr |-> 0, size |-> 0]
  /\ frames = <<>> /\ calls = [arc \in Arcs |-> 0]

-----------------------------------------------------------------------------
(* What mcount and __mcount_record do. *)

Latest(S) == IF S = {} THEN 0 ELSE CHOOSE i \in S : \A j \in S : j <= i

\* The entry of the function, and in it the arc from the caller, or 0.
EntryOf(arc) == Latest({e \in DOMAIN entries : entries[e].self_pc = arc[1]})
ArcOf(arc, e) ==
  IF e = 0 THEN 0
  ELSE Latest({a \in DOMAIN entries[e].arcs : entries[e].arcs[a].from_pc = arc[2]})

SetCount(e, a, n) == entries' = [entries EXCEPT ![e].arcs[a].count = n]

\* mcount_allocate, n times.
mcount_allocate(n) ==
  IF slab.size >= n * EntrySize
  THEN /\ slab' = [ptr |-> slab.ptr + n * EntrySize, size |-> slab.size - n * EntrySize]
       /\ UNCHANGED heapVars
  ELSE LET fresh == n - slab.size \div EntrySize IN
       /\ Extend(MCOUNT_SLAB_INCREMENT, "slab")
       /\ slab' = [ptr |-> Aligned(heap_end) + fresh * EntrySize,
                   size |-> MCOUNT_SLAB_INCREMENT - fresh * EntrySize]

\* Faulty: a new arc starts at 0, as the entry of its function does.
Insert_Uncounted(arc, e) ==
  LET new == [from_pc |-> arc[2], count |-> 0] IN
  IF e = 0
  THEN /\ entries' = Append(entries, [self_pc |-> arc[1], arcs |-> <<new>>])
       /\ mcount_allocate(2)
  ELSE /\ entries' = [entries EXCEPT ![e].arcs = Append(@, new)]
       /\ mcount_allocate(1)

\* The part of __mcount_record that runs with interrupts disabled; e is the entry
\* that was found before.
Insert(arc, e) ==
  LET new == [from_pc |-> arc[2], count |-> 1] IN
  IF e = 0
  THEN /\ entries' = Append(entries, [self_pc |-> arc[1], arcs |-> <<new>>])
       /\ mcount_allocate(2)
  ELSE /\ entries' = [entries EXCEPT ![e].arcs = Append(@, new)]
       /\ mcount_allocate(1)

-----------------------------------------------------------------------------
(* Counting an arc. *)

Sum(f, S) == LET sum[T \in SUBSET S] ==
               IF T = {} THEN 0 ELSE LET x == CHOOSE x \in T : TRUE IN f[x] + sum[T \ {x}]
             IN  sum[S]

Counting == frames[Len(frames)]
At(step) == frames # <<>> /\ Counting.at = step
GoesOn(step) == frames' = [frames EXCEPT ![Len(frames)].at = step]
Leaves == frames' = SubSeq(frames, 1, Len(frames) - 1)

\* The program, or an interrupt routine, enters a function: mcount looks the arc
\* up, and loads the count it will add 1 to.
Enter ==
  /\ Len(frames) < nesting
  /\ \E arc \in Arcs :
       LET e == EntryOf(arc)
           a == ArcOf(arc, e)
       IN  /\ frames' = Append(frames, [at |-> IF a # 0 THEN "store" ELSE "look", arc |-> arc, e |-> e, a |-> a,
                            count |-> IF a # 0 THEN entries[e].arcs[a].count ELSE 0])
           /\ calls' = [calls EXCEPT ![arc] = @ + 1]
           /\ Sum(calls', Arcs) <= MaxCalls
  /\ UNCHANGED <<heapVars, ticking, need_init, starts, entries, slab>>

Store ==
  /\ At("store")
  /\ SetCount(Counting.e, Counting.a, Counting.count + 1)
  /\ Leaves
  /\ UNCHANGED <<heapVars, ticking, need_init, starts, slab, calls>>

\* __mcount_record looks at the flag, and clears it in a step of its own.
Look ==
  /\ At("look")
  /\ GoesOn(IF need_init THEN "claim" ELSE "insert")
  /\ UNCHANGED <<heapVars, ticking, need_init, starts, entries, slab, calls>>

Claim ==
  /\ At("claim")
  /\ need_init' = FALSE
  /\ GoesOn("init")
  /\ UNCHANGED <<heapVars, ticking, starts, entries, slab, calls>>

\* nios2_pcsample_init: without a clock it is to be tried again.
Initialise ==
  /\ At("init")
  /\ IF ticking
     THEN Extend(Histogram, "samples") /\ starts' = starts + 1
     ELSE UNCHANGED <<heapVars, starts>>
  /\ need_init' = ~ ticking
  /\ GoesOn("insert")
  /\ UNCHANGED <<ticking, entries, slab, calls>>

\* The rest of __mcount_record, with interrupts disabled: the arc is added to the
\* entry that was found before, or to a new one.
Record ==
  /\ At("insert")
  /\ Insert(Counting.arc, Counting.e)
  /\ Leaves
  /\ UNCHANGED <<ticking, need_init, starts, calls>>

ClockStarts ==
  /\ ~ ticking
  /\ ticking' = TRUE
  /\ UNCHANGED <<heapVars, need_init, starts, entries, slab, frames, calls>>

ProgramMemory ==
  ALT_SBRK /\ UNCHANGED <<ticking, need_init, starts, entries, slab, frames, calls>>

ProfileNext ==
  /\ UNCHANGED nesting
  /\ \/ Enter \/ Store \/ Look \/ Claim \/ Initialise
     \/ Record \/ ClockStarts \/ ProgramMemory

ProfileSpec == ProfileInit /\ [][ProfileNext]_profileVars

-----------------------------------------------------------------------------
(* Properties. *)

\* How often an arc was counted, over its copies; the calls of it that are done.
Cells == UNION {{e} \X DOMAIN entries[e].arcs : e \in DOMAIN entries}
Copies(arc) ==
  {c \in Cells : entries[c[1]].self_pc = arc[1] /\ entries[c[1]].arcs[c[2]].from_pc = arc[2]}
Counted(arc) ==
  Sum([c \in Copies(arc) |-> entries[c[1]].arcs[c[2]].count], Copies(arc))
Finished(arc) ==
  calls[arc] - Cardinality({n \in DOMAIN frames : frames[n].arc = arc})

\* An arc that was entered is on the list and is never counted more often than it
\* was entered; where no interrupt routine is instrumented, every call is counted
\* and the sampler is started once.
ArcsRecorded ==
  /\ \A arc \in Arcs : Counted(arc) <= Finished(arc) /\ (Finished(arc) > 0 => Counted(arc) > 0)
  /\ nesting = 1 => /\ \A arc \in Arcs : Counted(arc) = Finished(arc)
                    /\ starts <= 1
=============================================================================
