# Verification of the DES3 accelerator and its software

This directory specifies in TLA+ the Triple-DES accelerator of this repository
and the software that runs beside it: the Verilog pipeline (`feistel_algo.v`,
`des3.v`), its wrapper (`des3_fsm.v`) and register file (`des3_avalon.v`), the
tables and wirings of DES, the program `software/des3/main.c`, and of its board
support package (`software/des3_bsp`) the JTAG UART driver under `printf`, the
file descriptors, the heap, the profiler, the interrupts, the alarms and the
clock.  TLC checks every module on small instances (and the tables and the
testbench vectors on the real sixteen-round cipher).  TLAPS proves the safety
properties of the pipeline, the core, the register file, the program, the
drivers, the descriptors, the heap, the profiler, the interrupts, the alarms,
the clock and the library's loops for all values of their constants, that the
core, the drivers and the alarms implement their abstract specifications, and
that the cipher with its actual tables deciphers what it enciphered.

## The system

| component | code | state | operations | in `tla/` |
|---|---|---|---|---|
| DES data path | `IP.v IP_inv.v E.v S.v S1.v..S8.v P.v f.v` | none | combinational | `DesTables`, `DES`, `DesWalks` |
| key schedule | `key_scheduler.v` | none | combinational, an instance a round | `DesTables`, `DES`, `DesWalks` |
| unused modules | `E_xor.v PC1.v PC2.v` | none | combinational | `DesTables`, `DES`, `DesWalks` |
| DES pipeline | `feistel_algo.v` | two copies of key and direction, input buffer, 17 stages of L, R, V, output | clock edge, asynchronous reset | `FeistelNetwork`, `FeistelAlgo`, `FeistelHistory` |
| Triple DES | `des3.v` | three pipelines | the same | `Des3`, `Des3Refinement` |
| wrapper | `des3_fsm.v` | the state bit | the same, `start` | `Des3Fsm`, `Des3Reset` |
| register file | `des3_avalon.v` | input, key, control, result registers | bus write, combinational read, reset | `Des3Avalon` |
| firmware | `software/des3/main.c` | program counter, `odata` | twelve writes, a poll, two reads, a print | `Firmware` |
| testbenches | `des3_tb.v des3_pipeline_tb.v` | counters | stimuli, monitor | `Des3PipelineTb` |
| JTAG UART | `system_jtag_uart_0.v` | two FIFOs, enables, activity bit | register accesses, the host | `JtagUart` |
| its driver | `altera_avalon_jtag_uart_*` | two rings, indices, a copy of the enables, the count of the host's absence | `write read ioctl close`, interrupt routine, timer routine | `JtagSmall`, `JtagFast` |
| startup and files | `alt_main.c alt_open.c ...` | device lists, descriptors, `alt_max_fd` | the system calls, redirection, exit | `HalFiles`, `HalDirect`, `HalBoot` |
| heap and stack | `alt_sbrk.c alt_stack.h` | end of the heap, stack limit | `sbrk`, stack check | `HalHeap` |
| profiler | `alt_gmon.c alt_mcount.S` | hash of functions and arcs, slab | `mcount`, sampler | `HalProfile` |
| interrupts | `alt_irq_*.c alt_irq_entry.S alt_legacy_irq.h ...` | routines, enables, priority mask, status | register, enable, disable, sections, dispatch | `Interrupts` |
| alarms | `alt_tick.c alt_alarm_start.c alt_llist.h` | list, tick counter | start, stop, tick | `Alarms` |
| time of day | `alt_gettod.c alt_settod.c` | reset time, ticks | `gettimeofday`, `settimeofday` | `HalClock` |
| library loops | `alt_busy_sleep.c alt_*cache_flush*.c alt_printf.c` | none | loops | `HalWalks` |
| reset controllers, board | `altera_reset_controller.v`, `system.v`, `top.v` | synchronizers | reset of the CPU alone, of everything | only their effect, in `Firmware` |
| interconnect, CPU, memory | `system/synthesis/**` | | | not modelled |

How they interact.  The program writes data, keys and the control register over
the Avalon bus.  A control write with bit 0 makes `reg_valid_in` 1 for one
cycle, with which the core samples the data register.  The block then moves one
stage at every clock edge, 19 edges through each of three pipelines, with a
valid bit beside it; nothing can stall it.  *The key does not move with it*:
every round reads the key registers, which sample the key ports at every edge.
When the valid bit leaves the last pipeline, the result is latched over the
previous one and a status bit is set, which nothing but a reset clears.  The
program polls that bit once a loop and prints through the HAL: `printf` writes
to descriptor 1, which `alt_io_redirect` has pointed at the JTAG UART, whose
driver either polls the FIFO (`ALT_USE_SMALL_DRIVERS`, which `public.mk:207`
selects here) or fills a ring that an interrupt routine empties.  Routines reach
the driver through the dispatch of the HAL; its timer routine runs as an alarm,
alarms run in the tick of a system clock, and drivers keep the routines out
with `alt_irq_disable_all`.

What is hard about it:

* a block meets whatever keys are sampled while it travels; only a user who
  keeps them still during the right window gets Triple DES;
* the reset clears the valid bits of the stages but not those of the three
  input buffers, so a reset leaves up to three blocks behind;
* the validity chain has to stay in step with the data over 57 edges and three
  modules, through back-to-back blocks, gaps and resets;
* requests and results are matched by order alone, and results overwrite one
  another while the program reads them in two halves;
* the CPU can be reset without the accelerator (debug module), so a new run of
  the program meets the blocks of the old one;
* some 1000 table entries were typed by hand, several tables twice;
* the program, an interrupt routine and a timer routine share rings and one
  control register, without a lock in two of the three;
* critical sections nest by saving a status, in routines that let others
  interrupt them, whose own work may raise an exception by the same vector;
* an alarm's callback may change the list that the tick walks, while the tick
  counter rolls over;
* descriptors are released and taken again, calls fail half way, and one number
  (`alt_max_fd`) is a count in one loop and an index in another;
* 32-bit products, addresses and counters are at their limits.

`PROJECT.json` lists these hazards at their lines with the properties that
cover them.

What makes each component correct:

| component | correct when |
|---|---|
| data path, key schedule | S-boxes meet the DES criteria, the permutations are inverse where they must be, the two schedules are each other's reverse, every key bit is used, decryption retraces encryption |
| DES pipeline | one output for each input, in order, `Rounds + 3` edges later; the output is the network on the input under the keys met; for a steady key it is a delay line |
| Triple DES | for steady keys a delay line of `3 * (Rounds + 3)` places computing EDE or its inverse |
| wrapper | no block lost or doubled; bounded leftovers; every start answered |
| register file | one pulse for each control write; results in request order, for the data and the keys at the write |
| firmware | it keeps within the window in which the keys may change; what it prints are words of its results; it goes on printing |
| UART and driver | two channels that lose, repeat and reorder nothing; no ring waits for an interrupt that is off; with a system clock `write` and `close` return, host or no host |
| startup and files | the pool is fit for the next call; failures open nothing; locks exclude; the standard streams stay on their devices |
| heap | blocks apart, heap below the stack |
| profiler | an arc is recorded once it was counted, whoever interrupts |
| interrupts | none inside a section; called routines exist; only higher priorities interrupt; the highest is answered |
| alarms | each fires when it is due and never else; the list stays a ring; both as long as no call is made that the code does not bear |
| clock | `gettimeofday` tells the time set and the ticks since |
| library loops | a flushed region is out of the cache; a wait is as long as asked; a number is printed whole |

## Modules

**The accelerator.**  A bit vector is the set of the indices of its 1 bits
(`BitVectors`), so `^` is the symmetric difference and a permutation is a
renaming.

* `FeistelNetwork` - what one pass computes, as a recursive function over the
  rounds, parameterised by the number of rounds, the permutations and the round
  function.
* `FeistelAlgo` - the registers of `feistel_algo.v` as one record `regs`.
  `Clock(i)` is the branch at a clock edge that samples the ports `i`;
  `Reset` the reset branch, *with its omissions*.  `Init` is a reset at power-up:
  what the branch does not assign has any value.  The state during a held reset
  is a stutter of the one after it, so a reset is one step.
* `FeistelHistory` - the same with a history variable: what the ports held at
  the last `Rounds + 3` edges.  It states what an output is and contains the
  inductive invariant `IInv`.
* `CipherPipe` - the abstract promise: a delay line in which each place holds no
  block or one, already enciphered on entry; a flush keeps only the places in
  `Survivors`.
* `FeistelRefinement`, `Des3Refinement` - the contract (`Held`: keys and
  direction do not change while a block may still meet them) under which one
  pipeline, and the core of three, implement `CipherPipe`.  The refinement
  mapping sends a block under way to what it will be when it leaves.
* `Des3`, `Des3Fsm`, `Des3Reset` - the composition by three instances of
  `FeistelAlgo`; the wrapper; and counters of starts and outputs that a reset
  restarts.
* `Des3Avalon` - the register file; `BusCycle(b)` is a clock edge of the module
  and of the core with the write `b` or none.  The history variable `pending` is
  the queue of the results asked for.  `Polite(b)` is what a host must respect.
* `Firmware` - the loop of `main.c`, an action for each access; `CpuBusy` is any
  bus cycle between two accesses, `CpuReset` a reset of the CPU alone,
  `SystemReset` the push button.  `IORD` returns an `int`, so the low word is
  sign-extended (`Widened`).  The history variable `answered` says that the
  module has latched a result that was asked for since its last reset, `fresh`
  that it had when the low word was read: before that a leftover of the reset
  may be read, afterwards none, as all of them leave before (`PrintedWords`).
* `DesTables`, `DES` - the tables, entry by entry from the source, and the
  combinational modules on 64-bit vectors.  `DesWalks` walks over all S-box
  inputs, all bits of keys and blocks, and the rounds of encryptions and back;
  `Walks` is the variable those walks and `HalWalks` share.
* `Des3PipelineTb` - the testbenches: the real core cycle by cycle.

**The console.**

* `JtagUart` - the device: FIFOs, enables, the interrupt conditions with their
  levels, the activity bit, and the host.  The registers are operators that a
  driver's step composes; a read of the data register takes a character.
* `JtagSmall`, `JtagFast` - the two drivers, one action for each look at the
  rings or the device, so that the interrupt routine (`IsrLoop`, `IsrReceive`,
  `IsrTransmit`) and the host come in between.  The interrupt routine starts
  between any two steps of the program and runs with interrupts off;
  `TimerRoutine` is the alarm.
* `Console` - the abstract promise of both: two channels in which the n-th
  character sent is the n-th to arrive.

**The HAL.**

* `HalFiles`, `HalDirect`, `HalBoot` - the pool of descriptors and the system
  calls on them, each an operator from the state of the HAL to the set of its
  outcomes; the same calls in a build with direct drivers; and `alt_main`, from
  `alt_sys_init` to the endless loop of `_exit`.  A driver is the set of the
  callbacks it has, each of which succeeds or fails.  An outcome has what is
  returned and what is written to `ALT_ERRNO`, apart from each other, since the
  calls differ there: `read`, `write` and `lseek` report a driver's error as -1
  and in `ALT_ERRNO` (`Reported`), `fstat` and the direct build return it as it is
  (`Passed`), `ioctl` returns the negated error as well as setting it (`Negated`),
  and `isatty` answers 0 or 1.
* `HalHeap`, `HalProfile` - `sbrk` and the stack limit; `mcount`, interrupted
  by itself, whose entries come from slabs that `sbrk` gives.
* `Interrupts` - a stack of frames (program, dispatch loop, routine, exception),
  each with the accesses it has still to make and the statuses that its sections
  saved.  An interrupt is taken, and an exception raised, between any two.
* `Alarms`, `Timers` - the linked list, a tick as a step for each alarm it
  visits, and the abstract promise: a number of ticks to go for each alarm.  The
  calls check nothing, and three of them are more than the code bears (see
  Findings): they are steps of the model like any other, after which `misuse`
  names them.  `Timers` promises nothing from then on (`kept`).
* `HalClock`, `HalWalks` - the time of day; the loops of the library.

**Proofs.**  `NetworkProofs`, `FeistelProofs`, `Des3Proofs`, `JtagProofs`,
`HalProofs`, `InterruptProofs`, `WalkProofs`; `NumberFacts` has what they need of
division, least elements and induction.  `MC...` are the small instances.

Definitions whose comment begins with "Faulty" are plausible mistakes in the
code.  No specification uses them; each property is known to fail when its
faulty variant takes the place of the definition beside it (`mutants` in
`PROJECT.json`).

## Runs and bounds

An MC module whose parts share no state runs one of them in each behaviour
(variables `part`, `build`, `host`), so one run covers them all.

| run | shows | instance and why it is enough |
|---|---|---|
| `cipher` | one output for each input, and what it is, under any interleaving of port values and resets; DES criteria, wirings, decryption retraces encryption, complementation; the vectors of both testbenches, and back, on the real core | the pipeline with 4 rounds, so that both halves of the rounds have two; 4-bit blocks; two keys, whose round keys all differ, both directions, a bubble; a register depends on the last 7 edges only, all sequences of which occur.  All 8 * 64 S-box inputs and all 64 bits: complete, as wirings act on each bit by itself; 3 blocks, 4 keys; gaps of up to `MaxGaps` = 3 edges |
| `des3` | the core, and the first pipeline in it, implement `CipherPipe`; and under resets at any time leftovers move in step and are three at most, blocks are conserved, every start is answered | 2 rounds an instance, both directions, `MaxInFlight` = 3 blocks: one for each instance.  Under resets only valid bits matter, so one block value; at most `MaxAccepted` = 3 starts between two resets, any number of resets |
| `bus` | results answer requests, one pulse for each write; the program keeps the window, what it prints, that it prints forever | all of `main.c` with `MaxBusy` = 2 idle cycles and `MaxResets` = 1, so that the poll and the reads fall at every offset from the results; any host with `MaxWrites` = 3 writes from 8, any number of idle cycles and resets |
| `jtag_uart` | both drivers implement `Console`; the driver and the device agree on the enables; no ring waits in vain; writes end | FIFOs of `Depth` = 1 and rings of `BufLen` = 3, so both fill, empty and wrap; 4 characters written and 3 received, more than the ring holds; timeouts of 2 ticks and of `INT_MAX`; the host comes late, pauses and leaves.  With a clock the host sends one character (`SentWithClock`) |
| `hal` | descriptors from `alt_main` to `_exit`; `sbrk`; `mcount`; the library's loops; dispatch, sections, priorities; alarms implement `Timers`; the clock tells | `MaxFd` = 5, two beyond the standard three; two devices and a file system that have different callbacks; a heap of 6 words; slabs of 3 entries, so that a slab is exhausted by one entry and by two; two functions, two callers, one interrupt in another, 4 entries.  Caches of 2 lines of 4 bytes with regions up to 11 bytes from 6 starts, counters of 5 bits, numbers of 2 digits.  3 interrupts, so that there is one above and one below another.  3 alarms, so that one is before and one behind the alarm that is called; a counter of 3 values with every number of ticks it can hold, so that it rolls over before, at and after each alarm; a behaviour ends with an alarm that is started while registered or for the longest wait, as nothing is promised then (`AlarmsToMisuse`).  A second of 6 microseconds and ticks of a half, a third and a quarter of it, the last of which does not come out even; 32 bits made 4 |

The five runs have 0.2 to 0.6 million distinct states each.  Seven more runs, on the
same modules, each end in a violation (see Findings).  The
data of the small instances were chosen so that a wrong key, direction or order
gives a different block.  `CHECK_DEADLOCK FALSE` stands where a behaviour really
ends: a walk, a program that has written its characters, `_exit`, an exception
without a handler, an alarm misused.

Fairness.  `EveryStartAnswered` needs weak fairness of the clock edge: the
board's oscillator does not stop (`top.v`).  `MainPrints` needs weak fairness of
the program counter: the next access of the CPU is always possible and is made
in the end; this includes that `printf` returns.  `WritesEnd` needs that a call
goes on, that pending interrupts are served, that the timer ticks and that a
host *which stays connected* takes what it is sent; nothing is assumed of a host
that leaves.  `HighestAnswered` and the tick of `Alarms` need that the processor
takes the steps it can; neither requests nor calls of the program are fair.

## Findings

* `ghost_block`: after a reset that follows a start by one edge (or falls
  between two pipelines) the core emits a result that no start since the reset
  asked for.  `des3_pipeline_tb.v` (lines 65, 120) counts such an output as a
  failure.
* `status_clears`: "clears on read" (`des3_avalon.v`, line 15) is not
  implemented; after the first result the status is always 1.
* `low_word_only`: the low word is read as an `int` (`main.c`, line 36), so its
  top bit fills the high word.
* `lock_exclusive`: `alt_fd_lock` looks below `alt_max_fd` where the highest
  descriptor in use *is* `alt_max_fd`, and does not see the standard three; so
  it grants a lock its comment says it refuses.
* `set_time`: `settimeofday` computes the ticks in 32 bits where `gettimeofday`
  uses 64, so 71.6 minutes after the start the time read back is another.
* `long_sleep`: the loop that "is equivalent to" `for(i=0;i<us*(FREQ/3);i++)`
  (`alt_busy_sleep.c`, lines 34-36) goes round 2^32 times more when the time is a
  multiple of the longest delay, as the last loop then counts down from 0.
* `early_alarm`: an alarm started for 2^32 - 1 ticks gets the current tick as its
  time, which `alt_alarm_start.c:89` does not take for a roll-over, and is called
  at the next tick, "too early" (lines 85-87).

Met on the way, without a run of their own:

* `main.c`: "wait for output" (line 33) polls once and starts over when there is
  none, which `bus` shows to be harmless; the two words printed may be of two
  results, which `PrintedWords` allows since the program does.
* the polled driver waits at `write.c:70-72` for ever when no host reads.
* `alt_irq_enable` and `alt_irq_disable` write `alt_irq_active` to the enables
  whatever the priority mask (`alt_legacy_irq.h:75, 93`): called while a routine
  is interruptible they let lower priorities in.  With `NestedCalls = TRUE`
  `HigherInterrupts` fails; the run sets it `FALSE`.
* two more calls that `Alarms` marks in `misuse`, besides the start of
  `early_alarm`: a callback that stops the alarm which the tick visits next leaves
  `alt_tick` in an alarm that points to itself, for ever (`alt_tick.c:102`); and
  `alt_alarm_start.c:98` inserts an alarm that is already in the list once more,
  after which the links no longer form a ring.  No text of the repository promises
  anything for them.  `ListIsRing` excludes the second and `ImplementsTimers` all
  three.
* `alt_sbrk`: the comment in lines 46-48 says that no bounds are checked and that
  memory is given out even if it collides with the stack.  Lines 76-92 return -1
  beyond `__alt_heap_limit` all the same; the model follows the code, and
  `HeapInOrder` holds because of that check.  After an increment that is no
  multiple of a word the stack limit no longer follows the heap, which may then
  grow into the stack unreported: `StackClear` excludes it (`~ odd`).  The end is
  aligned also by a call that is refused.
* `mcount` starts the sampler outside its section, so twice if interrupted
  (`alt_gmon.c:167-170`), which registers the sampler's alarm twice (the case
  above); it may record an arc more than once, loses counts
  (`alt_mcount.S:120-122`) and does not look whether `sbrk` failed.
* `alt_iic_isr_register` accepts the interrupt -1; a request that is let through
  without a cause keeps `alt_irq_handler` in its loop; an exception without a
  handler stops the processor.
* `close` on descriptors 0 to 2 keeps their lock; `ioctl` returns the negative
  error number besides setting `errno`; `fstat` returns the driver's and sets
  none; `isatty` does not look whether the driver's `fstat` failed; reads before the
  redirection fail with `EACCES`, where the comment at `alt_dev.c:81-86` has
  stdin, stdout and stderr directed towards `/dev/null` by then.
* `gettimeofday` runs backwards when the tick rate does not divide a second, and when
  the tick counter rolls over (`ClockTells` holds until then).

## Proofs

All but five (on what the cipher and its key schedule compute) are theorems of
the whole specification of a module: `Spec => []Inv`, a statement about its
steps, or that it implements its abstract specification. They rest on the named
assumptions about the constants, which TLC evaluates on every instance. Each has
an inductive invariant, preserved action by action.

**One pipeline** (`FeistelProofs`, on `FeistelAlgo` and `FeistelHistory`; any
`Rounds >= 1`, permutations and round function that stay within their widths):
`TypeCorrect`, `PipelineLosesNothing` (`OneOutPerIn`) and
`PipelineComputesTheNetwork` (`OutputIsCipher`).  `OutputIsCipher` speaks of the
last register only, and is not inductive.  `IInv` strengthens it: each valid
stage `k` holds what the network gives for *its* input after `k` rounds under
the keys that input met (`HalvesInv`); the buffer holds the permuted input
(`BufferInv`); the valid bits are those of the history; and as soon as a block
is in the stages the two copies of the key are the key sampled last
(`CopiesAgree`), without which the second half of the rounds could not be
matched with the history.  The key step is that advancing a block by one stage
extends the sequence of the keys it met by one and leaves its beginning alone;
`NetworkProofs` proves what that needs of the recursive function `Halves`, by
induction on sets of naturals.

**Cipher** (`NetworkProofs`, `WalkProofs` on `DesSpec`, `Des3Proofs`; every block
and key):

* `CryptUndone`: the network is undone by itself with the round keys in the
  opposite order, for any number of rounds and any round function; by induction
  from both ends (`HalvesBack`).
* `AlwaysRetraces`, `ComplementAlwaysFollows`, with the tables of the source.
  What they need of the tables is little and is proved entry by entry: each of
  `IP` and `IP_inv` has the other's inverse (`IPTables`), `SHIFT_DEC` is
  `SHIFT_ENC` backwards (`Shifts`), and no entry is outside of its word
  (`Within`).  Then a wiring moves the complement of what it moves (`WireNot`),
  the half and the round key meet in an exclusive or, and the S-boxes see the same
  input.  `WalkInv` follows both walks: each half on the trail is a round after
  the one before, and the decryption is as far back as it has made rounds
  (`OnTrail`).
* `ScheduleIsPC` and `WiringsAlwaysAgree`: every round key of every key is what
  `PC1.v`, the rotation and `PC2.v` make of it, though `key_scheduler.v` has the
  tables a second time, as concatenations; and its two directions are each other's
  reverse (`ScheduleReverses`).  A concatenation is a wiring with the table the
  other way round (`ConcatIsWire`), and the two transcriptions are compared entry
  by entry.  So are `E.v`, which `f.v` expands a half with, and `E_xor.v`, which
  has the expansion a second time and the round key in it.  The spread of an S-box
  over the next one, by `P.v` and `E.v`, is read off two tables of the first and
  the last input that each bit reaches (`InputsFrom`, `BoxIsSpread`).
* `DESUndone` instantiates `CryptUndone` with those tables; `TripleUndone` is the
  same for what `CoreIsALine` says that the core of three computes, for any data
  path whose ends and key schedule turn back as those are proved to.
* The theorems about the core are stated for any data path within its widths.
  That the actual one is such a path is proved too (`BoardFits`, `BoardFacts`):
  with the tables of the source, sixteen rounds and 64-bit ports no hypothesis is
  left in `CoreIsTripleDES` (the core, with keys held, is a delay line that
  computes triple DES) nor, but for the width of the program's constants, in
  `MainPrintsTripleDES`.  `CoreUndone`: it deciphers what it enciphers.
* `TestbenchesPass` (`WalkProofs`, on `TbSpec`): both testbenches see each output
  when its turn comes and as they expect it, however many idle edges fall between
  their inputs and after them, and with no reset before the mode changes.  The
  theorem's hypothesis `KnownAnswers` is that the triple cipher of each of the
  four vectors is the answer that `des3_pipeline_tb.v` lists: a computation with
  the tables, which TLC makes on the core as part of `cipher`.  The answers of the
  decryption are no hypothesis; they follow (`CoreUndone`).  `TbInv` gives each
  input under way a place in the line of 57 (`Placed`): the outcome there is what
  is wanted of that input, those fed first are further on, and no other place is
  occupied, so that the block in the output register is the next one wanted
  (`FirstOut`) and nothing is left when the mode changes (`TbSwitch`).

**Core** (`Des3Proofs`, on `SpecHeld` and `RSpec`; the same assumptions):

* `CoreIsALine` and `InstanceIsALine`: three instances, and one, implement
  `CipherPipe` while keys are held.  `CoreInv` adds to the types that an
  instance in whose rounds there is a block has one key in both its copies
  (`CoreReady`).  A place of the line is mapped to what its block will be
  (`Outcomes`): a clock edge moves every block one place with its outcome
  unchanged, whether it stays in an instance or crosses into the next, and a
  reset keeps the places that the reset branch forgets (`Survivors`).
* `CoreLosesNothing` and `LeftoversMoveTogether`, under resets at any time and
  ports that may do anything: with the types the two are inductive
  (`MonitorInv`).  The work is in counting the occupied places, over three
  modules whose ends are not at the same distance: an edge moves all of them and
  adds or takes one at the borders, a reset leaves those in the input buffers,
  of which there are three (`FrontsAreFew`).

**Register file and program** (`Des3Proofs`, on `PoliteSpec` and `FSpec`; any
width of a word, any keys and data, any number of resets of the CPU):

* `ResultsAnswer`, `OneBlockPerWrite`: for a host that keeps `Polite` the queue
  of the results asked for is the core's contents.  The block at slot `s`, unless
  a reset left it behind, will be `pending[Ahead(s)]`, where `Ahead` counts the
  blocks from there to the end (`QueueInv`); so the block that leaves answers the
  first request, and taking both away keeps the rest matched.
* `FirmwareType`, `PrintsCiphertext`, `MainIsPolite`: `main.c` rewrites the key
  registers with blocks in the core, which `Polite` allows only when the value
  does not change.  `FirmwareInv` says why it does not: as long as a result is
  asked for the key registers hold the words the program is about to write
  (`KeyWords`), even when the CPU is reset alone and starts over.  `Entries`,
  `Latched` and `Fetched` follow the two answers from the queue to the result
  register and from there, half by half, to the print.  The leftovers of a reset
  are all in front of the first block that was asked for (`LeftoversFirst`), so
  once one of those has been latched no leftover comes any more, and what is read
  from then on (`fresh`) is an answer.

**Driver** (`JtagProofs`, on `FastSpec` and on `MCSpec`, either driver with any
host; any depth, levels, ring and timeout):

* `DriversAreChannels`: both drivers implement `Console`.  What is under way to
  the host is the FIFO of the device and behind it the ring; each step of either
  routine only moves the border.  `CopyInv` says that a copy which was planned
  from indices that have become stale still fits, as the interrupt routine moves
  only the other index: the room in the transmit ring, and the characters in
  the receive ring, can only have grown (`CopyFits`, `ReadFits`).  `SpaceIsRoom`
  keeps the transmit loop within the FIFO.  `DriversTyped` is the type invariant
  of that composition, for either driver.
* `FastTypes`, `EnablesAlwaysAgree`, `AlwaysArmed`.  `Armed` is not inductive:
  the interrupt routine may find nothing to do and turn transmit interrupts off
  while the program is between its look at the ring and its copy.  `FastInv`
  replaces its receive half by what every step keeps: receive interrupts are off
  with an empty ring only in a call that has just emptied it and will turn them
  on (`OffIsNoticed`); the receive loop of the routine starts with a character
  to read, so that it never leaves the ring empty with its interrupt off
  (`RxHasWork`); the interrupt of a pause is pending only while there are
  characters to read (`PauseHasData`).

**Descriptors** (`HalProofs`, on `BootSpec`; any devices, names and number of
descriptors): `FilesAlwaysTyped`, `PoolAlwaysInOrder`, `FailuresNeverOpen` and
`LockedAlwaysStaysClosed` (both about steps), `StreamsAlwaysStay`.  `BootInv` is
the order of the pool after every call (`PoolOK`: also that device lists and
file systems are apart) and what each stage of the startup may rely on
(`StageOK`).  Each system call has one lemma, that all of its outcomes are
`Good`: the pool is in order, nothing was opened by a failure or under a lock.
`StreamsStay` needs what a board must give (`StreamsAssumption`): that the name
of a standard device is that of no other, and that no file system covers it.

**Heap and profiler** (`HalProofs`, on `HeapSpec` and `ProfileSpec`; any word,
bounds, increments and nesting):

* `HeapAlwaysInOrder`, `ProfiledHeapInOrder`: `HeapInv` has the blocks `Apart`
  below the end of the heap, and the limit of the stack follow that end until an
  odd increment (`LimitFollows`).
* `ArcsAlwaysRecorded`: whatever `mcount` interrupts whatever other, an arc that
  was called is in the table with a count above 0.  `ProfileInv` says of each
  frame that what it looked up is still there (`FramesOK`), and that an
  interrupting routine has loaded no smaller a count than the one it interrupts
  (`Rising`), so that increments get lost but never all of them: the count is at
  most the number of the calls done and not 0 after the first (`Tally`).  Without
  interrupts it is that number (`Alone`).  Counts are sums over finite sets; what
  is needed of them is proved with least elements.

**Alarms and clock** (`InterruptProofs`, on `AlarmSpec` and `ClockSpec`; any alarms,
wrap of the counter, callbacks; any tick rate and width):

* `RingIsKept`, `AlarmsTyped`: the two links are each other's inverse and an
  alarm outside points to itself (`Ring`), until an alarm is started that is in
  the list.  The list is the least set closed
  under the links that has the head; unlinking and linking change it by one.
* `AlarmsAreTimely`: each alarm fires at its tick and at no other, up to the first
  call that the code does not bear: every step of the list is one of `Timers`
  (`CallsAreTimely`).  `Timed` relates an alarm's time and its rollover flag to the
  counter, which may just have wrapped or be about to, and `Visited` says which
  alarms the tick has already passed, as callbacks stop and restart them.  It has
  no hypothesis but that the counter has more than two values and can hold each
  wait.  That a tick ends, which `ImplementsTimers` adds, is a matter of fairness
  and is left to TLC.
* `ClockAlwaysTells`: `ClockInv` says what `settimeofday` left in the reset time,
  with its borrow (`ResetIs`); until the tick counter rolls over.

**Interrupts** (`InterruptProofs`, on `IrqSpec`; any interrupts and routines,
any handler of exceptions):

* `IrqAlwaysTyped`, `SectionsAlwaysExclude`.  `SectionsExclude` speaks of a frame
  that was interrupted; to keep it one must know what every frame will still do.
  `IrqInv` gives each frame a *level* (how many sections it is inside of, and
  whether interrupts are taken outside of them) such that the rest of its
  accesses lead from there out of every section (`Leads`, a certificate that has
  a level for each access), the statuses it saved are those of that level
  (`SavedAre`), and the status it runs with, or will when the frame above
  returns, is on exactly outside (`FrameOK`, `StackOK`).  Code that is `Balanced`
  composes, so the calls, nested as they are, need one lemma each.
* `PriorityIsRestored`: `PrioInv` adds the mask that each frame found and has to
  put back (`MasksOK`) and the enables that go with it (`EnablesOK`).
* `HigherPriorityInterrupts`, under `~ NestedCalls` (see Findings): the enables
  of the device are within the mask, so what comes is above what runs.
* `CalledAlwaysRegistered`: every interrupt that is enabled has a routine
  (`ActiveOK`), but in the gap between taking a routine away and disabling its
  interrupt, which lies inside a section of the program (`Window`, `Coming`).
  All other code, as far as it is still to run, enables only what has a routine
  and stores none (`Safe`).

**Library loops** (`WalkProofs`, on `HalWalksSpec`; any cache of whole lines, any
region, clock, time and width of a number): `LoopsAlwaysEnd`.  After `k` turns of
a flush the `k` lines from that of the start are out (`FlushTrail`); a region
that does not begin at a line may end in the line after those (`LineWithin`), and
as many lines as the cache has take every place in it (`PlaceAmong`).  Of a
wait the full loops that are left and what remains are known (`SleepTrail`): it is
never cut short, and longer only by the rounding of the full loops and by the 2^32
turns of `long_sleep`, which are made exactly when nothing remains.  Of a
number the digits from the first that is not 0 (`HexTrail`).

Only model-checked, and why:

* liveness under fairness (`EveryStartAnswered`, `MainPrints`, `WritesEnd`,
  `HighestAnswered`, the end of a tick in `ImplementsTimers`): out of the
  prover's reach, as is `ENABLED`;
* `SBoxCriteria`, and the four triple encryptions that `TestbenchesPass` takes as
  known: computations over the actual tables and vectors, which TLC does
  completely (the S-boxes on all of their inputs), and which would be a proof of
  a leaf for each entry and round;
* the seven violations under Findings, which are counterexamples.

## Not modelled

* The Qsys interconnect, the Nios II and the memory are generated code; for the
  accelerator they amount to bus cycles with or without a write.  A read takes
  one cycle more on the bus (`AV_READ_WAIT_CYCLES`), which is one of the idle
  cycles.
* The reset controllers are modelled by their effect; that the accelerator
  leaves reset some edges before the CPU is not, nor a press of the button
  shorter than their delay.
* Unknown (X) values of simulation: at power-up the unassigned registers have
  any ordinary value.
* Of the driver: the variants for uC/OS-II and `IGNORE_FIFO_FULL_ERROR`.  Of the
  HAL: logging (`alt_log_printf`, compiled out), section copying (`alt_load`),
  DMA and flash (no such device), uncached memory, the locks of `malloc` and of
  the environment (empty in a single-threaded build), and calls that only return
  `ENOSYS`.  Of the profiler: the samples and the dump.
* Files without behaviour: register macros, prototypes, generated settings.

## What could be added

The reset controllers edge by edge, composed with the CPU and the core; a model
of the section copying and of the DMA and flash interfaces of the HAL, should a
board use them; more of the profiler (the samples and the dump).
