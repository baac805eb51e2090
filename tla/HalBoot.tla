------------------------------ MODULE HalBoot ------------------------------
(***************************************************************************)
(* alt_main: the devices are registered, the standard streams redirected,  *)
(* the constructors run, and main is called; when it returns standard      *)
(* output is closed, the destructors run, and _exit spins for ever.        *)
(***************************************************************************)
EXTENDS HalDirect

CONSTANTS
  SysInit,   \* what alt_sys_init registers, in order: devices and file systems
  FileSystems,  \* those of them that are file systems
  Ctors,     \* how many constructors there are
  Dtors,     \* how many destructors there are
  Names,     \* the names the program opens
  Modes,     \* the `access' and `flags' it opens them with
  Settings   \* the flags it sets with fcntl

\* alt_open masks the bits of its `flags' that are the HAL's own.
ASSUME BootAssumption ==
  /\ SysInit \in Seq(Devices) /\ Null \notin FileSystems
  /\ Ctors \in Nat /\ Dtors \in Nat
  /\ Modes \subseteq [access : Access, flags : SUBSET Settable]

\* The standard streams name devices that no other shares its name with, and that
\* read or write; no file system is mounted over their names.
ASSUME StreamsAssumption ==
  \A fd \in 0 .. 2 :
    /\ \A d \in Devices : Driver[d].name = Driver[Std[fd]].name => d = Std[fd]
    /\ \A d \in FileSystems : ~ Under(d, Driver[Std[fd]].name)
    /\ Std[fd] # Null => Has(Std[fd], IF fd = 0 THEN "read" ELSE "write")

VARIABLES
  stage,  \* where alt_main is
  left    \* what the loop of this stage has left to do

bootVars == <<hal, err, stage, left>>

BootInit ==
  /\ hal = PoolInit
  /\ err = NoError
  /\ stage = "sys_init"
  /\ left = Len(SysInit)

\* One call that the program, or the startup code, makes.
Calls(outcomes) == \E o \in outcomes : hal' = o.hal /\ err' = o.err

\* The result of registering a device is not looked at.
Register ==
  /\ stage = "sys_init" /\ left > 0
  /\ LET d == SysInit[Len(SysInit) - left + 1] IN
     Calls({IF d \in FileSystems THEN FsReg(hal, d) ELSE DevReg(hal, d)})
  /\ left' = left - 1
  /\ UNCHANGED stage

Redirect ==
  /\ stage = "sys_init" /\ left = 0
  /\ hal' \in IoRedirect(hal, Driver[Std[1]].name, Driver[Std[0]].name, Driver[Std[2]].name)
  /\ stage' = "ctors" /\ left' = Ctors
  /\ UNCHANGED err

\* _do_ctors and _do_dtors run their lists from the last entry to the first.
RunOne ==
  /\ stage \in {"ctors", "dtors"} /\ left > 0
  /\ left' = left - 1
  /\ UNCHANGED <<hal, err, stage>>

EnterMain == stage = "ctors" /\ left = 0 /\ stage' = "main" /\ UNCHANGED <<hal, err, left>>

\* main returns: close(STDOUT_FILENO), then exit, which calls _do_dtors.
Return ==
  /\ stage = "main"
  /\ Calls(Close(hal, 1))
  /\ stage' = "dtors" /\ left' = Dtors

\* _exit, at the end, or from kill in the middle of the program.
Exit ==
  /\ stage \in {"ctors", "main", "dtors"}
  /\ stage = "dtors" => left = 0
  /\ stage' = "spin"
  /\ UNCHANGED <<hal, err, left>>

Startup == Register \/ Redirect \/ RunOne \/ EnterMain \/ Return \/ Exit

-----------------------------------------------------------------------------
(* The program: any call, from a constructor, main or a destructor.        *)

Opened == {i \in Fds : hal.alt_fd_list[i].dev # None} \cup {-1}

ProgramCalls(outcomes) ==
  stage \in {"ctors", "main", "dtors"} /\ Calls(outcomes) /\ UNCHANGED <<stage, left>>

CallOpen ==
  \E name \in Names, mode \in Modes :
    ProgramCalls(Open(hal, name, mode.access, mode.flags))
CallClose == \E fd \in Opened : ProgramCalls(Close(hal, fd))
CallRead == \E fd \in Opened : ProgramCalls(Read(hal, fd))
CallWrite == \E fd \in Opened : ProgramCalls(Write(hal, fd))
CallLseek == \E fd \in Opened : ProgramCalls(Lseek(hal, fd))
CallFstat == \E fd \in Opened : ProgramCalls(Fstat(hal, fd))
CallIsatty == \E fd \in Opened : ProgramCalls(Isatty(hal, fd))
CallIoctl == \E fd \in Opened, req \in Requests : ProgramCalls(Ioctl(hal, fd, req))
CallFcntl ==
  \E fd \in Opened, cmd \in {"F_GETFL", "F_SETFL", "other"}, flags \in Settings :
    ProgramCalls(Fcntl(hal, fd, cmd, flags))
CallStat == \E name \in Names : ProgramCalls(Stat(hal, name))

Program ==
  \/ CallOpen \/ CallClose \/ CallRead \/ CallWrite \/ CallLseek
  \/ CallFstat \/ CallIsatty \/ CallIoctl \/ CallFcntl \/ CallStat

BootNext == Startup \/ Program

BootSpec == BootInit /\ [][BootNext]_bootVars

-----------------------------------------------------------------------------
(* Properties. *)

Running == stage \notin {"sys_init"}

FilesTypeOK ==
  /\ hal \in [alt_dev_list : Seq(Devices), alt_fs_list : Seq(Devices),
              alt_fd_list : [Fds -> Entry], alt_max_fd : -1 .. MaxFd - 1]
  /\ \A i \in 0 .. 2 : hal.alt_fd_list[i].dev # None
  /\ stage \in {"sys_init", "ctors", "main", "dtors", "spin"}
  /\ left \in Nat

\* A descriptor that is not in use carries no flag, so the device that gets it
\* next is neither locked nor taken for another kind.
FreeAreClean ==
  \A i \in Fds : hal.alt_fd_list[i].dev = None => hal.alt_fd_list[i] = Free

\* alt_max_fd bounds the descriptors in use beyond the standard three.
HighWater ==
  \A i \in Fds : i > 2 /\ hal.alt_fd_list[i].dev # None => i <= hal.alt_max_fd

\* Only a descriptor of a device, never one of a file system, is locked.
LocksAreOnDevices ==
  \A i \in Fds : "ALT_FD_EXCL" \in hal.alt_fd_list[i].flags =>
    "ALT_FD_DEV" \in hal.alt_fd_list[i].flags

\* The pool is fit for the next call: every free descriptor is clean, the scans
\* up to alt_max_fd reach every one in use, and locks are where they can be seen.
PoolInOrder == FreeAreClean /\ HighWater /\ LocksAreOnDevices

\* While a descriptor holds the lock of a device, no descriptor comes to refer
\* to that device.
Locked(d) ==
  \E i \in Fds : hal.alt_fd_list[i].dev = d /\ "ALT_FD_EXCL" \in hal.alt_fd_list[i].flags
LockedStaysClosed ==
  [][\A i \in Fds :
       hal.alt_fd_list[i].dev = None /\ hal'.alt_fd_list[i].dev # None /\ Running =>
         ~ Locked(hal'.alt_fd_list[i].dev)]_bootVars

\* A call that fails opens nothing: what is open after it was open before it,
\* as it was.
FailuresOpenNothing ==
  [][err' # NoError /\ Running =>
       \A i \in Fds : hal'.alt_fd_list[i] \in {Free, hal.alt_fd_list[i]}]_bootVars

\* From the redirection to the end the standard streams reach their devices,
\* whatever the program opens and closes: reads and writes go where those of a
\* build with direct drivers go, and end as they do, but that a driver's error is
\* reported in ALT_ERRNO and not by its number.  A device that could not be opened
\* leaves its stream at /dev/null.
Reaches(fd) == Dev(hal, fd) = Std[fd]
StreamsStay ==
  Running =>
    /\ Dev(hal, 0) # Null =>
         Reaches(0) /\ Read(hal, 0) = {Reported(o) : o \in DirectRead(hal, 0)}
    /\ \A fd \in {1, 2} : Dev(hal, fd) # Null =>
         Reaches(fd) /\ Write(hal, fd) = {Reported(o) : o \in DirectWrite(hal, fd)}

\* alt_fd_lock.c promises the lock to a descriptor that is alone on its device.
LockIsExclusive ==
  \A i, j \in Fds :
    /\ "ALT_FD_EXCL" \in hal.alt_fd_list[i].flags
    /\ hal.alt_fd_list[j].dev = hal.alt_fd_list[i].dev
    => i = j
=============================================================================
