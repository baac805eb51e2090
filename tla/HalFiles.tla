------------------------------ MODULE HalFiles ------------------------------
(***************************************************************************)
(* The file descriptors of the HAL: the lists of registered devices and    *)
(* file systems, the pool of descriptors, and the system calls on them.    *)
(* Descriptors 0, 1 and 2 are standard input, output and error.            *)
(*                                                                         *)
(* A driver is a name and the set of the callbacks it provides; a callback *)
(* succeeds or fails with EIO.  A name is a sequence of characters.  The   *)
(* program is single threaded, so a call is one step, and it calls with -1 *)
(* or with a descriptor that refers to a device: the code follows a null   *)
(* pointer otherwise.                                                      *)
(***************************************************************************)
EXTENDS Integers, Sequences

CONSTANTS
  MaxFd,    \* ALT_MAX_FD
  Devices,  \* the devices and file systems that may be registered
  Null,     \* alt_dev_null, one of them
  None,     \* no device
  Driver    \* the `name' and the `ops' of each

ASSUME FilesAssumption ==
  /\ MaxFd \in Nat /\ MaxFd > 3
  /\ Null \in Devices /\ None \notin Devices
  /\ Driver[Null].ops = {"write"}

VARIABLES
  hal,  \* the lists and the pool of descriptors
  err   \* what the last call set ALT_ERRNO to, or NoError

Fds == 0 .. MaxFd - 1
Access == {"O_RDONLY", "O_WRONLY", "O_RDWR"}
Flags == {"ALT_FD_EXCL", "ALT_FD_DEV", "O_NONBLOCK", "O_APPEND"}

Entry == [dev : Devices \cup {None}, access : Access, flags : SUBSET Flags]
Free == [dev |-> None, access |-> "O_RDONLY", flags |-> {}]

\* alt_dev.c: only alt_dev_null is registered, and the three standard
\* descriptors refer to it with no flag set, which is O_RDONLY.
PoolInit ==
  [alt_dev_list |-> <<Null>>, alt_fs_list |-> <<>>,
   alt_fd_list |-> [i \in Fds |-> IF i <= 2 THEN [Free EXCEPT !.dev = Null] ELSE Free],
   alt_max_fd |-> -1]

Has(d, op) == op \in Driver[d].ops

NoError == "none"

Errno == [EIO |-> 5, EACCES |-> 13, ENOTTY |-> 25, EBADFD |-> 81]

\* What a call leaves, returns and sets ALT_ERRNO to.  Most return -1 when they
\* fail, ioctl the negated error itself.
Done(h, value) == [hal |-> h, ret |-> value, err |-> NoError]
Failed(h, error) == [hal |-> h, ret |-> -1, err |-> error]
Negated(h, error) == [hal |-> h, ret |-> -Errno[error], err |-> error]

-----------------------------------------------------------------------------
(* Names. *)

FirstOf(list, hits) ==
  IF hits = {} THEN None ELSE list[CHOOSE i \in hits : \A j \in hits : i <= j]

\* alt_find_dev: the first device of exactly this name.
FindDev(h, name) ==
  FirstOf(h.alt_dev_list,
          {i \in DOMAIN h.alt_dev_list : Driver[h.alt_dev_list[i]].name = name})

\* The name of a file system without the slash it may end in.
Mount(d) ==
  LET n == Driver[d].name IN
  IF n[Len(n)] = "/" THEN SubSeq(n, 1, Len(n) - 1) ELSE n

\* alt_find_file: the first file system whose name, followed by a slash or by
\* nothing, begins this one.
Under(d, name) ==
  /\ Len(Mount(d)) <= Len(name)
  /\ SubSeq(name, 1, Len(Mount(d))) = Mount(d)
  /\ Len(Mount(d)) = Len(name) \/ name[Len(Mount(d)) + 1] = "/"

FindFile(h, name) ==
  FirstOf(h.alt_fs_list, {i \in DOMAIN h.alt_fs_list : Under(h.alt_fs_list[i], name)})

-----------------------------------------------------------------------------
(* Descriptors. *)

FreeFds(h) == {i \in Fds : h.alt_fd_list[i].dev = None}

\* alt_get_fd: the lowest free descriptor; its flags are left as they are.
Lowest(S) == CHOOSE i \in S : \A j \in S : i <= j
GetFd(h, d) ==
  LET i == Lowest(FreeFds(h)) IN
  [h EXCEPT !.alt_fd_list[i].dev = d,
            !.alt_max_fd = IF i > @ THEN i ELSE @]

\* Faulty: any descriptor is released; and one keeps its flags.
ReleaseFd_Any(h, i) == [h EXCEPT !.alt_fd_list[i] = Free]
ReleaseFd_Keeps(h, i) == IF i > 2 THEN [h EXCEPT !.alt_fd_list[i].dev = None] ELSE h

\* alt_release_fd: the standard descriptors are never released.
ReleaseFd(h, i) == IF i > 2 THEN [h EXCEPT !.alt_fd_list[i] = Free] ELSE h

\* Faulty: the loop stops short of alt_max_fd, as that of alt_fd_lock does.
FileLocked_Short(h, i) ==
  \E j \in 0 .. h.alt_max_fd - 1 :
    /\ j # i
    /\ h.alt_fd_list[j].dev = h.alt_fd_list[i].dev
    /\ "ALT_FD_EXCL" \in h.alt_fd_list[j].flags

\* alt_file_locked: another descriptor has the device for itself.
FileLocked(h, i) ==
  \E j \in 0 .. h.alt_max_fd :
    /\ j # i
    /\ h.alt_fd_list[j].dev = h.alt_fd_list[i].dev
    /\ "ALT_FD_EXCL" \in h.alt_fd_list[j].flags

\* alt_fd_lock: the loop stops short of alt_max_fd.
OthersOpen(h, i) ==
  \E j \in 0 .. h.alt_max_fd - 1 :
    j # i /\ h.alt_fd_list[j].dev = h.alt_fd_list[i].dev

-----------------------------------------------------------------------------
(* Opening and closing.  Each call is the set of its outcomes.             *)

\* Faulty: a failed open keeps its descriptor.
OpenOn_Leaks(h, d, isafs, access, flags) ==
  LET i == Lowest(FreeFds(h))
      s == [GetFd(h, d) EXCEPT
             !.alt_fd_list[i] = [dev |-> d, access |-> access, flags |-> flags]]
  IN  {Done(s, i)} \cup {Failed(s, "EIO") : e \in {"open"} \cap Driver[d].ops}

\* alt_open once a device or file system is found.
OpenOn(h, d, isafs, access, flags) ==
  LET i == Lowest(FreeFds(h))
      kind == IF isafs THEN {} ELSE {"ALT_FD_DEV"}
      s == [GetFd(h, d) EXCEPT
             !.alt_fd_list[i] = [dev |-> d, access |-> access, flags |-> flags \cup kind]]
  IN  IF ~ isafs /\ FileLocked(s, i) THEN {Failed(ReleaseFd(s, i), "EACCES")}
      ELSE {Done(s, i)}
           \cup {Failed(ReleaseFd(s, i), "EIO") : e \in {"open"} \cap Driver[d].ops}

Open(h, name, access, flags) ==
  LET dev == FindDev(h, name)
      d == IF dev = None THEN FindFile(h, name) ELSE dev
  IN  IF d = None THEN {Failed(h, "ENODEV")}
      ELSE IF FreeFds(h) = {} THEN {Failed(h, "EMFILE")}
      ELSE OpenOn(h, d, dev = None, access, flags)

\* alt_close: the descriptor is released whether the driver fails or not.
Close(h, fd) ==
  IF fd < 0 THEN {Failed(h, "EBADFD")}
  ELSE {Done(ReleaseFd(h, fd), 0)}
       \cup {Failed(ReleaseFd(h, fd), "EIO") :
              e \in {"close"} \cap Driver[h.alt_fd_list[fd].dev].ops}

\* alt_open_fd: opens, moves the new descriptor to fd, and releases it.
OpenFd(h, fd, name, access) ==
  {IF o.ret < 0 THEN o.hal
   ELSE ReleaseFd([o.hal EXCEPT !.alt_fd_list[fd] = o.hal.alt_fd_list[o.ret]], o.ret)
     : o \in Open(h, name, access, {})}

\* Faulty: standard input is opened as the others are.
IoRedirect_Output(h, stdout, stdin, stderr) ==
  UNION {UNION {OpenFd(h2, 2, stderr, "O_WRONLY")
                 : h2 \in OpenFd(h1, 0, stdin, "O_WRONLY")}
          : h1 \in OpenFd(h, 1, stdout, "O_WRONLY")}

\* alt_io_redirect.
IoRedirect(h, stdout, stdin, stderr) ==
  UNION {UNION {OpenFd(h2, 2, stderr, "O_WRONLY")
                 : h2 \in OpenFd(h1, 0, stdin, "O_RDONLY")}
          : h1 \in OpenFd(h, 1, stdout, "O_WRONLY")}

\* alt_dev_reg and alt_fs_reg: a new entry goes first; it must have a name.
DevReg(h, d) ==
  IF Driver[d].name = None THEN Failed(h, "EINVAL")
  ELSE Done([h EXCEPT !.alt_dev_list = <<d>> \o @], 0)
FsReg(h, d) ==
  IF Driver[d].name = None THEN Failed(h, "ENODEV")
  ELSE Done([h EXCEPT !.alt_fs_list = <<d>> \o @], 0)

-----------------------------------------------------------------------------
(* Calls on a descriptor. *)

\* What a driver's callback returns, passed on as it is: a failure does not set
\* ALT_ERRNO.  alt_dev_null_write never fails.
Passed(h, d) == {Done(h, 0)} \cup {Done(h, -Errno.EIO) : e \in {d} \ {Null}}

\* What read, write and lseek make of it.
Reported(o) == IF o.ret < 0 THEN Failed(o.hal, "EIO") ELSE o
Answers(h, d) == {Reported(o) : o \in Passed(h, d)}

Bad(fd) == fd < 0
Dev(h, fd) == h.alt_fd_list[fd].dev

Read(h, fd) ==
  IF Bad(fd) THEN {Failed(h, "EBADFD")}
  ELSE IF h.alt_fd_list[fd].access # "O_WRONLY" /\ Has(Dev(h, fd), "read")
  THEN Answers(h, Dev(h, fd))
  ELSE {Failed(h, "EACCES")}

Writable(h, fd) ==
  h.alt_fd_list[fd].access # "O_RDONLY" /\ Has(Dev(h, fd), "write")

Write(h, fd) ==
  IF Bad(fd) THEN {Failed(h, "EBADFD")}
  ELSE IF Writable(h, fd) THEN Answers(h, Dev(h, fd))
  ELSE {Failed(h, "EACCES")}

Lseek(h, fd) ==
  IF Bad(fd) THEN {Failed(h, "EBADFD")}
  ELSE IF Has(Dev(h, fd), "lseek") THEN Answers(h, Dev(h, fd))
  ELSE {Failed(h, "ENOTSUP")}

\* A device without fstat is a character device.
Fstat(h, fd) ==
  IF Bad(fd) THEN {Failed(h, "EBADFD")}
  ELSE IF Has(Dev(h, fd), "fstat") THEN Passed(h, Dev(h, fd))
  ELSE {Done(h, 0)}

\* A driver whose fstat fails leaves the mode uninitialised: either answer.
Isatty(h, fd) ==
  IF Bad(fd) THEN {[Done(h, 0) EXCEPT !.err = "EBADFD"]}
  ELSE {Done(h, 1)} \cup {Done(h, 0) : e \in {"fstat"} \cap Driver[Dev(h, fd)].ops}

Requests == {"TIOCEXCL", "TIOCNXCL", "other"}

\* alt_fd_lock and alt_fd_unlock.
FdLock(h, fd) ==
  IF OthersOpen(h, fd) THEN Negated(h, "EACCES")
  ELSE Done([h EXCEPT !.alt_fd_list[fd].flags = @ \cup {"ALT_FD_EXCL"}], 0)
FdUnlock(h, fd) == Done([h EXCEPT !.alt_fd_list[fd].flags = @ \ {"ALT_FD_EXCL"}], 0)

\* The locks of a device are the HAL's affair, whatever its driver does.
Ioctl(h, fd, req) ==
  IF Bad(fd) THEN {Negated(h, "EBADFD")}
  ELSE LET device == "ALT_FD_DEV" \in h.alt_fd_list[fd].flags IN
  IF device /\ req = "TIOCEXCL" THEN {FdLock(h, fd)}
  ELSE IF device /\ req = "TIOCNXCL" THEN {FdUnlock(h, fd)}
  ELSE IF Has(Dev(h, fd), "ioctl")
  THEN {IF o.ret < 0 THEN Negated(h, "EIO") ELSE o : o \in Passed(h, Dev(h, fd))}
  ELSE {Negated(h, "ENOTTY")}

\* F_GETFL changes nothing; F_SETFL sets two flags and leaves the others.
Settable == {"O_APPEND", "O_NONBLOCK"}

Fcntl(h, fd, cmd, flags) ==
  IF Bad(fd) THEN {Failed(h, "EBADFD")}
  ELSE IF cmd = "F_GETFL" THEN {Done(h, 0)}
  ELSE IF cmd = "F_SETFL"
  THEN {Done([h EXCEPT !.alt_fd_list[fd].flags =
                (@ \ Settable) \cup (flags \cap Settable)], 0)}
  ELSE {Failed(h, "EINVAL")}

\* stat: where open fails, fstat and close are called with -1.
Stat(h, name) ==
  UNION {UNION {{[c EXCEPT !.ret = f.ret, !.err = IF @ = NoError THEN f.err ELSE @]
                  : c \in Close(f.hal, o.ret)}
                 : f \in Fstat(o.hal, o.ret)}
          : o \in Open(h, name, "O_RDONLY", {})}
=============================================================================
