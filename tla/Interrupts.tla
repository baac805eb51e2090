----------------------------- MODULE Interrupts -----------------------------
(***************************************************************************)
(* The interrupts of the HAL: registering and enabling them, the dispatch  *)
(* loop, and interrupt routines that let others interrupt them.            *)
(*                                                                         *)
(* The processor runs the frame on top of a stack: the program, the        *)
(* dispatch loop of an interrupt that was taken, and the routine the loop  *)
(* called.  A frame has the accesses it still has to make, and the values  *)
(* that calls of alt_irq_disable_all returned to it.  An interrupt can be  *)
(* taken between any two accesses; one between the two of                  *)
(* alt_irq_disable_all is harmless, because the return from an interrupt   *)
(* restores the status, so that call is one access here.  Work may also    *)
(* raise an exception of its own, which enters by the same vector.         *)
(***************************************************************************)
EXTENDS Integers, Sequences

CONSTANTS
  Irqs,         \* the interrupts; a lower number has a higher priority
  Routines,     \* the routines that may be registered
  NULL,         \* no routine
  NestedCalls,  \* may routines change what is enabled while one is interruptible?
  alt_instruction_exception_handler  \* what it may return, or NULL

ASSUME IrqAssumption ==
  /\ Irqs \subseteq 0 .. 31 /\ Irqs # {}
  /\ NULL \notin Routines
  /\ alt_instruction_exception_handler \in (SUBSET {"REISSUE_INST", "SKIP_INST"}) \cup {NULL}
  /\ NestedCalls \in BOOLEAN

VARIABLES
  status,             \* the PIE bit: interrupts are taken
  ienable,            \* the interrupts the processor lets through
  line,               \* the requests the devices make
  alt_irq,            \* the routine registered for each interrupt
  alt_irq_active,     \* the interrupts that are enabled
  alt_priority_mask,  \* those that may interrupt the routine that runs
  stack               \* the frames, the running one first

irqVars == <<status, ienable, line, alt_irq, alt_irq_active, alt_priority_mask, stack>>

NotConnected == -1    \* ALT_IRQ_NOT_CONNECTED, for a frame that answers no interrupt

-----------------------------------------------------------------------------
(* The calls, as the accesses they make. *)

disable_all == [op |-> "disable_all"]
enable_all == [op |-> "enable_all"]

alt_irq_disable(id) == <<disable_all, [op |-> "disable", id |-> id], enable_all>>
alt_irq_enable(id) == <<disable_all, [op |-> "enable", id |-> id], enable_all>>

\* Faulty: the routine is stored with interrupts enabled.
alt_iic_isr_register_Open(id, r) ==
  <<[op |-> "store", id |-> id, routine |-> r]>>
  \o (IF r # NULL THEN alt_irq_enable(id) ELSE alt_irq_disable(id))

\* alt_iic_isr_register, of an interrupt there is; the calls of the enhanced
\* interface do no more than call these.
alt_iic_isr_register(id, r) ==
  <<disable_all, [op |-> "store", id |-> id, routine |-> r]>>
  \o (IF r # NULL THEN alt_irq_enable(id) ELSE alt_irq_disable(id))
  \o <<enable_all>>

\* alt_ic_irq_enabled: is the interrupt let through?
alt_ic_irq_enabled(id) == id \in ienable

\* What a critical section of a driver or of the program looks like.
Section == <<disable_all, [op |-> "work"], enable_all>>

\* A routine clears its request; it may also call the functions above, or let
\* interrupts of a higher priority in while it works.
Clear(id) == <<[op |-> "clear", id |-> id]>>
Interruptible(id, body) ==
  <<[op |-> "interruptible", id |-> id]>> \o body \o <<[op |-> "non_interruptible"]>>
Registered == {i \in Irqs : alt_irq[i] # NULL}
Changes(id) == {alt_irq_disable(id)} \cup {alt_irq_enable(j) : j \in Registered}
Bodies(id) ==
  {Clear(id), Clear(id) \o Section, Interruptible(id, Clear(id) \o Section)}
  \cup {Clear(id) \o c : c \in
          IF NestedCalls \/ alt_priority_mask = Irqs THEN Changes(id) ELSE {}}
  \cup {Interruptible(id, Clear(id) \o c) : c \in IF NestedCalls THEN Changes(id) ELSE {}}

\* What the program does: work of its own, in a critical section or not, and
\* calls; it enables only what it has registered.
CallsMade ==
  {Section, <<[op |-> "work"]>>}
  \cup {alt_irq_enable(i) : i \in Registered}
  \cup {alt_irq_disable(i) : i \in Irqs}
  \cup {alt_iic_isr_register(i, r) : i \in Irqs, r \in Routines \cup {NULL}}

-----------------------------------------------------------------------------
(* The processor. *)

\* ipending: the requests that are let through.
alt_irq_pending == line \cap ienable

\* After altera_nios2_qsys_irq_init and alt_irq_cpu_enable_interrupts.
ProgramFrame == [kind |-> "program", code |-> <<>>, saved |-> <<>>,
                 mask |-> {}, id |-> NotConnected]
IrqInit ==
  /\ status = TRUE /\ ienable = {} /\ line = {}
  /\ alt_irq = [i \in Irqs |-> NULL]
  /\ alt_irq_active = {} /\ alt_priority_mask = Irqs
  /\ stack = <<ProgramFrame>>

Top == Head(stack)
Push(f) == stack' = <<f>> \o stack
Pop == stack' = Tail(stack)

\* An interrupt that can be taken is taken before the next access.
Interrupted == status /\ alt_irq_pending # {}
Runs == Top.kind \in {"program", "routine"} /\ ~ Interrupted

\* The running frame makes its next access, and saves or takes back a status.
Accessing(op) == Runs /\ Top.code # <<>> /\ Head(Top.code).op = op
Proceed(saved) ==
  stack' = <<[Top EXCEPT !.code = Tail(@), !.saved = saved]>> \o Tail(stack)

DisableAll ==
  /\ Accessing("disable_all")
  /\ status' = FALSE
  /\ Proceed(<<status>> \o Top.saved)
  /\ UNCHANGED <<ienable, line, alt_irq, alt_irq_active, alt_priority_mask>>

\* Faulty: interrupts are enabled whatever was saved.
EnableAll_Always ==
  /\ Accessing("enable_all")
  /\ status' = TRUE
  /\ Proceed(Tail(Top.saved))
  /\ UNCHANGED <<ienable, line, alt_irq, alt_irq_active, alt_priority_mask>>

EnableAll ==
  /\ Accessing("enable_all")
  /\ status' = Head(Top.saved)
  /\ Proceed(Tail(Top.saved))
  /\ UNCHANGED <<ienable, line, alt_irq, alt_irq_active, alt_priority_mask>>

Work ==
  /\ Accessing("work") \/ Accessing("repaired")
  /\ Proceed(Top.saved)
  /\ UNCHANGED <<status, ienable, line, alt_irq, alt_irq_active, alt_priority_mask>>

\* alt_irq_enable and alt_irq_disable, inside their section.
\* Faulty: the interrupts are numbered from 1.
Bit_From1(id) == {id + 1}
Bit(id) == {id}
Enable ==
  /\ Accessing("enable")
  /\ alt_irq_active' = alt_irq_active \cup Bit(Head(Top.code).id)
  /\ ienable' = alt_irq_active'
  /\ Proceed(Top.saved)
  /\ UNCHANGED <<status, line, alt_irq, alt_priority_mask>>

Disable ==
  /\ Accessing("disable")
  /\ alt_irq_active' = alt_irq_active \ Bit(Head(Top.code).id)
  /\ ienable' = alt_irq_active'
  /\ Proceed(Top.saved)
  /\ UNCHANGED <<status, line, alt_irq, alt_priority_mask>>

StoreRoutine ==
  /\ Accessing("store")
  /\ LET a == Head(Top.code) IN alt_irq' = [alt_irq EXCEPT ![a.id] = a.routine]
  /\ Proceed(Top.saved)
  /\ UNCHANGED <<status, ienable, line, alt_irq_active, alt_priority_mask>>

\* A routine answers its device.
Acknowledge ==
  /\ Accessing("clear")
  /\ line' = line \ {Head(Top.code).id}
  /\ Proceed(Top.saved)
  /\ UNCHANGED <<status, ienable, alt_irq, alt_irq_active, alt_priority_mask>>

\* Faulty: the interrupt may interrupt its own routine.
Higher_OrSame(id) == {i \in Irqs : i <= id}

\* alt_irq_interruptible lets the interrupts of higher priority in, and returns
\* the mask that alt_irq_non_interruptible restores.
Higher(id) == {i \in Irqs : i < id}
alt_irq_interruptible ==
  /\ Accessing("interruptible")
  /\ alt_priority_mask' = Higher(Head(Top.code).id)
  /\ ienable' = alt_irq_active \cap alt_priority_mask'
  /\ status' = TRUE
  /\ stack' = <<[Top EXCEPT !.code = Tail(@), !.mask = alt_priority_mask]>> \o Tail(stack)
  /\ UNCHANGED <<line, alt_irq, alt_irq_active>>

\* Faulty: the enables keep the mask of the routine.
alt_irq_non_interruptible_Keeps ==
  /\ Accessing("non_interruptible")
  /\ status' = FALSE
  /\ alt_priority_mask' = Top.mask
  /\ Proceed(Top.saved)
  /\ UNCHANGED <<line, ienable, alt_irq, alt_irq_active>>

alt_irq_non_interruptible ==
  /\ Accessing("non_interruptible")
  /\ status' = FALSE
  /\ alt_priority_mask' = Top.mask
  /\ ienable' = alt_priority_mask' \cap alt_irq_active
  /\ Proceed(Top.saved)
  /\ UNCHANGED <<line, alt_irq, alt_irq_active>>

\* The processor takes an interrupt: it clears PIE and enters alt_irq_entry,
\* which finds requests pending and calls alt_irq_handler.
Entered(kind) == [kind |-> kind, code |-> <<>>, saved |-> <<status>>,
                  mask |-> {}, id |-> NotConnected]
TakeInterrupt ==
  /\ Interrupted
  /\ status' = FALSE
  /\ Push(Entered("dispatch"))
  /\ UNCHANGED <<ienable, line, alt_irq, alt_irq_active, alt_priority_mask>>

\* The work of a section raises an exception.
Fault ==
  /\ Accessing("work")
  /\ status' = FALSE
  /\ Push(Entered("exception"))
  /\ UNCHANGED <<ienable, line, alt_irq, alt_irq_active, alt_priority_mask>>

\* alt_irq_entry takes it for an interrupt if interrupts were enabled and a
\* request has come meanwhile; the instruction is then run again.
MistakeForInterrupt ==
  /\ Top.kind = "exception" /\ Head(Top.saved) /\ alt_irq_pending # {}
  /\ stack' = <<[Top EXCEPT !.kind = "dispatch"]>> \o Tail(stack)
  /\ UNCHANGED <<status, ienable, line, alt_irq, alt_irq_active, alt_priority_mask>>

\* alt_instruction_exception_entry: the handler, if there is one, has the
\* instruction run again, having repaired what it lacked, or skipped.  Without
\* a handler the processor stays here for ever.
Skipped(f) == [f EXCEPT !.code = Tail(@)]
Repaired(f) == [f EXCEPT !.code = <<[op |-> "repaired"]>> \o Tail(@)]
HandleException ==
  /\ Top.kind = "exception" /\ ~ (Head(Top.saved) /\ alt_irq_pending # {})
  /\ alt_instruction_exception_handler # NULL
  /\ \E result \in alt_instruction_exception_handler :
       stack' = <<IF result = "SKIP_INST" THEN Skipped(stack[2]) ELSE Repaired(stack[2])>>
                \o Tail(Tail(stack))
  /\ status' = Head(Top.saved)
  /\ UNCHANGED <<ienable, line, alt_irq, alt_irq_active, alt_priority_mask>>

\* Faulty: the highest number is taken first.
Foremost_Last(S) == CHOOSE i \in S : \A j \in S : i >= j

\* alt_irq_handler calls the routine of the lowest number that is pending; it
\* returns when, after a routine, none is.
Foremost(S) == CHOOSE i \in S : \A j \in S : i <= j
CallRoutine ==
  /\ Top.kind = "dispatch" /\ alt_irq_pending # {}
  /\ LET i == Foremost(alt_irq_pending) IN
     \E body \in Bodies(i) :
       Push([kind |-> "routine", code |-> body, saved |-> <<>>,
             mask |-> {}, id |-> i])
  /\ UNCHANGED <<status, ienable, line, alt_irq, alt_irq_active, alt_priority_mask>>

ReturnRoutine ==
  /\ Runs /\ Top.kind = "routine" /\ Top.code = <<>>
  /\ Pop
  /\ UNCHANGED <<status, ienable, line, alt_irq, alt_irq_active, alt_priority_mask>>

\* The return from the interrupt restores the status it was taken with.
ReturnInterrupt ==
  /\ Top.kind = "dispatch" /\ alt_irq_pending = {}
  /\ status' = Head(Top.saved)
  /\ Pop
  /\ UNCHANGED <<ienable, line, alt_irq, alt_irq_active, alt_priority_mask>>

Accesses ==
  \/ DisableAll \/ EnableAll \/ Work \/ Enable \/ Disable \/ StoreRoutine
  \/ Acknowledge \/ alt_irq_interruptible \/ alt_irq_non_interruptible
Dispatch ==
  \/ TakeInterrupt \/ CallRoutine \/ ReturnRoutine \/ ReturnInterrupt
  \/ MistakeForInterrupt \/ HandleException

Call ==
  /\ Runs /\ Top.kind = "program" /\ Top.code = <<>>
  /\ \E code \in CallsMade : stack' = <<[Top EXCEPT !.code = code]>>
  /\ UNCHANGED <<status, ienable, line, alt_irq, alt_irq_active, alt_priority_mask>>

\* A device requests; it goes on until its routine answers.
Request ==
  /\ \E i \in Irqs \ line : line' = line \cup {i}
  /\ UNCHANGED <<status, ienable, alt_irq, alt_irq_active, alt_priority_mask, stack>>

IrqNext == Accesses \/ Fault \/ Dispatch \/ Call \/ Request

\* A processor that can take a step takes one.
IrqSpec == IrqInit /\ [][IrqNext]_irqVars /\ WF_irqVars(Accesses \/ Dispatch)

-----------------------------------------------------------------------------
(* Properties. *)

Masks == SUBSET Irqs
Operation ==
  [op : {"disable_all", "enable_all", "work", "repaired", "non_interruptible"}]
  \cup [op : {"enable", "disable", "clear", "interruptible"}, id : Irqs]
  \cup [op : {"store"}, id : Irqs, routine : Routines \cup {NULL}]
Frame ==
  [kind : {"program", "dispatch", "routine", "exception"}, code : Seq(Operation),
   saved : Seq(BOOLEAN), mask : Masks, id : Irqs \cup {NotConnected}]
IrqTypeOK ==
  /\ status \in BOOLEAN
  /\ ienable \in Masks /\ line \in Masks
  /\ alt_irq \in [Irqs -> Routines \cup {NULL}]
  /\ alt_irq_active \in Masks /\ alt_priority_mask \in Masks
  /\ stack \in Seq(Frame) /\ stack # <<>>

\* The routine the dispatch loop calls is there: an interrupt that can be taken,
\* or that the loop finds pending, has one.
CalledAreRegistered ==
  status \/ Top.kind = "dispatch" => \A i \in ienable : alt_irq[i] # NULL

\* No interrupt is taken inside a section between alt_irq_disable_all and
\* alt_irq_enable_all, however the sections nest.
SectionsExclude ==
  \A k \in DOMAIN stack :
    k > 1 /\ stack[k - 1].kind = "dispatch" => stack[k].saved = <<>>

\* Once the last routine has returned nothing is left of its priority: what is
\* enabled is let through, in and out of sections of the program.
PriorityRestored ==
  Len(stack) = 1 => alt_priority_mask = Irqs /\ ienable = alt_irq_active

\* A routine is interrupted only by routines of a higher priority.
HigherInterrupts ==
  \A j, k \in DOMAIN stack :
    /\ j < k /\ stack[j].kind = "routine" /\ stack[k].kind = "routine"
    => stack[j].id < stack[k].id

\* A request of the highest priority that is enabled is answered, or the
\* interrupt disabled.
Highest == CHOOSE i \in Irqs : \A j \in Irqs : i <= j
HighestAnswered ==
  Highest \in line /\ Highest \in alt_irq_active
    ~> Highest \notin line \/ Highest \notin alt_irq_active
=============================================================================
