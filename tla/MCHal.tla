------------------------------- MODULE MCHal --------------------------------
(***************************************************************************)
(* The parts of the HAL, which share no state, one in a behaviour: the     *)
(* startup and the descriptors, with two devices besides /dev/null, the    *)
(* board's UART and one with every callback, and a file system; sbrk under *)
(* a program that also moves its stack; the profiler, which takes its      *)
(* memory from sbrk; the loops of the library; the dispatching of          *)
(* interrupts; the alarms; and the time of day.                            *)
(***************************************************************************)
EXTENDS HalBoot, HalProfile, HalWalks, Interrupts, Alarms, HalClock, TLC

CONSTANTS
  null, uart, lcd, zip,
  MaxBlocks,    \* bound on the blocks of the heap, in the part "profile"
  Parts

VARIABLE part   \* what this behaviour runs

mcVars == <<bootVars, profileVars, at, irqVars, alarmVars, clockVars, part>>

MCDevices == {null, uart, lcd, zip}

MCDriver ==
  null :> [name |-> <<"n">>, ops |-> {"write"}] @@
  uart :> [name |-> <<"u">>, ops |-> {"read", "write"}] @@
  lcd :> [name |-> <<"l">>,
          ops |-> {"open", "close", "read", "write", "lseek", "fstat", "ioctl"}] @@
  zip :> [name |-> <<"z", "/">>, ops |-> {"open", "close", "read", "fstat"}]

\* Standard input on a device of its own, so that it can be locked.
MCStd == [i \in 0 .. 2 |-> IF i = 0 THEN lcd ELSE uart]
MCSysInit == <<uart, lcd, zip>>
MCModes == {[access |-> "O_RDONLY", flags |-> {}],
            [access |-> "O_WRONLY", flags |-> {"O_NONBLOCK"}]}
MCNames == {<<"u">>, <<"l">>, <<"l", "x">>, <<"z", "/", "x">>}

MCIncrements == {4, 3, 0, -2}

MCStarts == 0 .. 5
MCLens == 0 .. 11
MCSleeps == 0 .. 14
MCPeriods == 0 .. Wrap - 1
MCTimes == [sec : {0, 2}, usec : {0, 5}]

MCInit ==
  /\ BootInit /\ ProfileInit /\ IrqInit /\ AlarmInit /\ ClockInit /\ part \in Parts
  /\ IF part = "loops" THEN HalWalksInit ELSE at = [of |-> part]
  /\ part # "profile" => nesting = 1
  /\ part # "clock" => tick_rate = 0

\* Bound: nothing is promised once an alarm was started while it was registered, or
\* for Wrap - 1 ticks, and a behaviour ends there.
AlarmsToMisuse == misuse \subseteq {"stopnext"} /\ AlarmNext

MCNext ==
  /\ UNCHANGED part
  /\ \/ /\ part = "boot" /\ BootNext
        /\ UNCHANGED <<profileVars, at, irqVars, alarmVars, clockVars>>
     \/ /\ part = "memory" /\ HeapNext
        /\ UNCHANGED <<nesting, ticking, need_init, starts, entries, slab, frames,
                       calls, bootVars, at, irqVars, alarmVars, clockVars>>
     \/ /\ part = "profile" /\ ProfileNext /\ Len(blocks') <= MaxBlocks
        /\ UNCHANGED <<bootVars, at, irqVars, alarmVars, clockVars>>
     \/ /\ part = "loops" /\ HalWalksNext
        /\ UNCHANGED <<bootVars, profileVars, irqVars, alarmVars, clockVars>>
     \/ /\ part = "interrupts" /\ IrqNext
        /\ UNCHANGED <<bootVars, profileVars, at, alarmVars, clockVars>>
     \/ /\ part = "alarms" /\ AlarmsToMisuse
        /\ UNCHANGED <<bootVars, profileVars, at, irqVars, clockVars>>
     \/ /\ part = "clock" /\ ClockNext
        /\ UNCHANGED <<bootVars, profileVars, at, irqVars, alarmVars>>

MCSpec ==
  /\ MCInit /\ [][MCNext]_mcVars
  /\ WF_mcVars(/\ part = "interrupts" /\ (Accesses \/ Dispatch)
               /\ UNCHANGED <<bootVars, profileVars, at, alarmVars, clockVars, part>>)
  /\ WF_mcVars(/\ part = "alarms" /\ misuse \subseteq {"stopnext"}
               /\ (Pass \/ Callback \/ TickEnd)
               /\ UNCHANGED <<bootVars, profileVars, at, irqVars, clockVars, part>>)
=============================================================================
