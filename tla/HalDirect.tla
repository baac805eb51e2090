------------------------------ MODULE HalDirect ------------------------------
(***************************************************************************)
(* The system calls of a build with ALT_USE_DIRECT_DRIVERS: no descriptors *)
(* and no lists, a call on a standard descriptor goes straight to the      *)
(* driver of its device, and every other one is refused.                   *)
(***************************************************************************)
EXTENDS HalFiles

CONSTANT Std  \* the devices of standard input, output and error, by descriptor

Refused(h) == {Failed(h, "EBADFD")}
Unimplemented(h) == {Failed(h, "ENOSYS")}

DirectOpen(h) == Unimplemented(h)
DirectClose(h) == Unimplemented(h)
DirectLseek(h) == Unimplemented(h)

\* What the driver returns is returned: an error of its does not set ALT_ERRNO.
DirectRead(h, fd) == IF fd = 0 THEN Passed(h, Std[0]) ELSE Refused(h)
DirectWrite(h, fd) == IF fd \in {1, 2} THEN Passed(h, Std[fd]) ELSE Refused(h)
DirectIoctl(h, fd) == IF fd \in 0 .. 2 THEN Passed(h, Std[fd]) ELSE Refused(h)

\* These two do not set ALT_ERRNO.
DirectFstat(h, fd) == IF fd \in 0 .. 2 THEN {Done(h, 0)} ELSE {Done(h, -1)}
DirectIsatty(h, fd) == IF fd \in 0 .. 2 THEN {Done(h, 1)} ELSE {Done(h, 0)}
=============================================================================
