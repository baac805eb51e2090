------------------------------ MODULE HalProofs ------------------------------
(***************************************************************************)
(* Proofs about the HAL: its descriptors, for any number of descriptors,   *)
(* any devices and file systems, and any calls of the program; and its     *)
(* heap, for any size of a word, of the heap and of the stack, and any     *)
(* increments, under the program alone, and under the program and a        *)
(* profiler that takes its memory from the same sbrk; and the profiler's   *)
(* counts, for any functions, callers and nesting of interrupt routines.   *)
(***************************************************************************)
EXTENDS HalBoot, HalProfile, NumberFacts, FiniteSetTheorems

-----------------------------------------------------------------------------
(* The descriptors. *)

PoolType ==
  [alt_dev_list : Seq(Devices), alt_fs_list : Seq(Devices),
   alt_fd_list : [Fds -> Entry], alt_max_fd : -1 .. MaxFd - 1]

\* What entry i of a pool may hold when alt_max_fd is m.
EntryOK(e, i, m) ==
  /\ e \in Entry
  /\ e.dev = None => e = Free /\ i > 2
  /\ e.dev # None /\ i > 2 => i <= m
  /\ "ALT_FD_EXCL" \in e.flags => "ALT_FD_DEV" \in e.flags
  /\ "ALT_FD_DEV" \in e.flags => e.dev \notin FileSystems

\* Devices are in one list, and file systems in the other.
ListsOK(h) ==
  /\ \A k \in DOMAIN h.alt_dev_list : h.alt_dev_list[k] \notin FileSystems
  /\ \A k \in DOMAIN h.alt_fs_list : h.alt_fs_list[k] \in FileSystems

SameLists(h, v) == v.alt_dev_list = h.alt_dev_list /\ v.alt_fs_list = h.alt_fs_list

PoolOK(h) ==
  /\ h \in PoolType /\ ListsOK(h)
  /\ \A i \in Fds : EntryOK(h.alt_fd_list[i], i, h.alt_max_fd)

\* Nothing is open in v that was not open, as it is, in h.
NothingNew(h, v) ==
  \A i \in Fds : v.alt_fd_list[i] \in {Free, h.alt_fd_list[i]}

\* What is open in v and was not in h is not locked in h.
LockedIn(h, d) ==
  \E i \in Fds : h.alt_fd_list[i].dev = d /\ "ALT_FD_EXCL" \in h.alt_fd_list[i].flags
NoneLocked(h, v) ==
  \A i \in Fds : h.alt_fd_list[i].dev = None /\ v.alt_fd_list[i].dev # None =>
    ~ LockedIn(h, v.alt_fd_list[i].dev)

\* The standard descriptors refer to what they did, in the same way.
StdSame(h, v) ==
  \A i \in {0, 1, 2} : /\ v.alt_fd_list[i].dev = h.alt_fd_list[i].dev
                       /\ v.alt_fd_list[i].access = h.alt_fd_list[i].access

\* What every outcome of every call on a pool h is.
Good(h, o) ==
  /\ PoolOK(o.hal) /\ NoneLocked(h, o.hal) /\ StdSame(h, o.hal)
  /\ o.err # NoError => NothingNew(h, o.hal)

-----------------------------------------------------------------------------
(* Helpers. *)

\* The lowest of some numbers is one of them.
LEMMA LowestFacts ==
  ASSUME NEW S \in SUBSET Nat, S # {} PROVE Lowest(S) \in S
BY LeastElement DEF Lowest

\* Fds is a set of numbers, and the standard descriptors are in it.
LEMMA FdsFacts == /\ Fds \in SUBSET Nat /\ 0 \in Fds /\ 1 \in Fds /\ 2 \in Fds
                  /\ MaxFd \in Nat
                  /\ \A i \in Fds : i \in -1 .. MaxFd - 1
BY FilesAssumption DEF Fds

\* The parts of a pool.
LEMMA PoolParts ==
  ASSUME NEW h \in PoolType
  PROVE  /\ h.alt_dev_list \in Seq(Devices) /\ h.alt_fs_list \in Seq(Devices)
         /\ h.alt_fd_list \in [Fds -> Entry] /\ h.alt_max_fd \in -1 .. MaxFd - 1
BY DEF PoolType

\* A free entry is a legal one, beyond the standard three.
LEMMA FreeFacts ==
  ASSUME NEW i \in Nat, i > 2, NEW m PROVE EntryOK(Free, i, m)
BY DEF EntryOK, Free, Entry, Access

\* One entry of a pool changes, and alt_max_fd may grow.
LEMMA UpdateOK ==
  ASSUME NEW h, PoolOK(h), NEW v \in PoolType, NEW i \in Fds, NEW e,
         v.alt_fd_list = [h.alt_fd_list EXCEPT ![i] = e],
         SameLists(h, v), v.alt_max_fd >= h.alt_max_fd, EntryOK(e, i, v.alt_max_fd)
  PROVE  PoolOK(v)
<1>1. h \in PoolType
  BY DEF PoolOK
<1>2. /\ h.alt_fd_list \in [Fds -> Entry]
      /\ h.alt_max_fd \in -1 .. MaxFd - 1 /\ v.alt_max_fd \in -1 .. MaxFd - 1
  BY <1>1, PoolParts
<1>3. ASSUME NEW j \in Fds PROVE EntryOK(v.alt_fd_list[j], j, v.alt_max_fd)
  <2>1. CASE j = i
    <3>1. v.alt_fd_list[j] = e
      BY <1>2, <2>1
    <3> QED
      BY <2>1, <3>1
  <2>2. CASE j # i
    <3>1. v.alt_fd_list[j] = h.alt_fd_list[j]
      BY <1>2, <2>2
    <3>2. EntryOK(h.alt_fd_list[j], j, h.alt_max_fd)
      BY DEF PoolOK
    <3>3. j \in Nat
      BY FdsFacts
    <3>4. j <= h.alt_max_fd => j <= v.alt_max_fd
      BY <1>2, <3>3
    <3> QED
      BY <3>1, <3>2, <3>4 DEF EntryOK
  <2> QED
    BY <2>1, <2>2
<1>4. ListsOK(v)
  BY DEF PoolOK, ListsOK, SameLists
<1> QED
  BY <1>3, <1>4 DEF PoolOK

\* An entry of a pool is replaced.
WithEntry(h, i, e) == [h EXCEPT !.alt_fd_list[i] = e]

\* What replacing one entry of the pool changes.
LEMMA WithEntryFacts ==
  ASSUME NEW h \in PoolType, NEW i \in Fds, NEW e \in Entry,
         NEW v, v = WithEntry(h, i, e)
  PROVE  /\ v \in PoolType /\ v.alt_fd_list = [h.alt_fd_list EXCEPT ![i] = e]
         /\ v.alt_max_fd = h.alt_max_fd /\ SameLists(h, v)
BY DEF PoolType, WithEntry, SameLists

\* Replacing an entry by a typed one keeps the pool in order.
LEMMA WithEntryOK ==
  ASSUME NEW h, PoolOK(h), NEW i \in Fds, NEW e, EntryOK(e, i, h.alt_max_fd),
         NEW v, v = WithEntry(h, i, e)
  PROVE  PoolOK(v) /\ v.alt_fd_list = [h.alt_fd_list EXCEPT ![i] = e]
<1>1. h \in PoolType /\ e \in Entry
  BY DEF PoolOK, EntryOK
<1>2. /\ v \in PoolType /\ v.alt_fd_list = [h.alt_fd_list EXCEPT ![i] = e]
      /\ v.alt_max_fd = h.alt_max_fd /\ SameLists(h, v)
  BY <1>1, WithEntryFacts
<1>3. v.alt_max_fd >= h.alt_max_fd
  BY <1>1, <1>2, PoolParts, FdsFacts
<1> QED
  BY <1>2, <1>3, UpdateOK

-----------------------------------------------------------------------------
(* Opening and closing. *)

\* Releasing a descriptor opens nothing.
LEMMA ReleaseOK ==
  ASSUME NEW h, PoolOK(h), NEW i \in Fds, NEW v, v = ReleaseFd(h, i)
  PROVE  /\ PoolOK(v) /\ NothingNew(h, v)
         /\ i > 2 => v.alt_fd_list = [h.alt_fd_list EXCEPT ![i] = Free]
<1>1. CASE i > 2
  <2>1. v = WithEntry(h, i, Free)
    BY <1>1 DEF ReleaseFd, WithEntry
  <2>2. EntryOK(Free, i, h.alt_max_fd)
    BY <1>1, FreeFacts, FdsFacts
  <2>3. PoolOK(v) /\ v.alt_fd_list = [h.alt_fd_list EXCEPT ![i] = Free]
    BY <2>1, <2>2, WithEntryOK
  <2>4. h.alt_fd_list \in [Fds -> Entry]
    BY PoolParts DEF PoolOK
  <2> QED
    BY <2>3, <2>4 DEF NothingNew
<1>2. CASE ~ (i > 2)
  BY <1>2 DEF ReleaseFd, NothingNew
<1> QED
  BY <1>1, <1>2

\* A device or file system that is found is one.
LEMMA FirstOfFacts ==
  ASSUME NEW list \in Seq(Devices), NEW hits \in SUBSET DOMAIN list,
         FirstOf(list, hits) # None
  PROVE  \E k \in DOMAIN list :
           k \in hits /\ FirstOf(list, hits) = list[k] /\ list[k] \in Devices
<1>1. hits # {}
  BY DEF FirstOf
<1>2. hits \in SUBSET Nat
  OBVIOUS
<1>3. Lowest(hits) \in hits
  BY <1>1, <1>2, LowestFacts
<1>4. FirstOf(list, hits) = list[Lowest(hits)]
  BY <1>1 DEF FirstOf, Lowest
<1> QED
  BY <1>3, <1>4

\* A device that is found is no file system, and a file system that is found is one.
LEMMA FoundFacts ==
  ASSUME NEW h, PoolOK(h), NEW name
  PROVE  /\ FindDev(h, name) # None =>
              FindDev(h, name) \in Devices /\ FindDev(h, name) \notin FileSystems
         /\ FindFile(h, name) # None =>
              FindFile(h, name) \in Devices /\ FindFile(h, name) \in FileSystems
<1>1. h.alt_dev_list \in Seq(Devices) /\ h.alt_fs_list \in Seq(Devices)
  BY PoolParts DEF PoolOK
<1>2. ASSUME FindDev(h, name) # None
      PROVE  FindDev(h, name) \in Devices /\ FindDev(h, name) \notin FileSystems
  <2>1. \E k \in DOMAIN h.alt_dev_list :
          FindDev(h, name) = h.alt_dev_list[k] /\ h.alt_dev_list[k] \in Devices
    BY <1>1, <1>2, FirstOfFacts DEF FindDev
  <2> QED
    BY <2>1 DEF PoolOK, ListsOK
<1>3. ASSUME FindFile(h, name) # None
      PROVE  FindFile(h, name) \in Devices /\ FindFile(h, name) \in FileSystems
  <2>1. \E k \in DOMAIN h.alt_fs_list :
          FindFile(h, name) = h.alt_fs_list[k] /\ h.alt_fs_list[k] \in Devices
    BY <1>1, <1>3, FirstOfFacts DEF FindFile
  <2> QED
    BY <2>1 DEF PoolOK, ListsOK
<1> QED
  BY <1>2, <1>3

\* The lowest free descriptor is free, and not a standard one.
LEMMA FreeFdFacts ==
  ASSUME NEW h, PoolOK(h), FreeFds(h) # {}, NEW i, i = Lowest(FreeFds(h))
  PROVE  /\ i \in Fds /\ i \in Nat /\ i > 2 /\ h.alt_fd_list[i] = Free
<1>1. FreeFds(h) \in SUBSET Nat
  BY FdsFacts DEF FreeFds
<1>2. i \in FreeFds(h)
  BY <1>1, LowestFacts
<1>3. i \in Fds /\ h.alt_fd_list[i].dev = None
  BY <1>2 DEF FreeFds
<1>4. EntryOK(h.alt_fd_list[i], i, h.alt_max_fd)
  BY <1>3 DEF PoolOK
<1> QED
  BY <1>3, <1>4, FdsFacts DEF EntryOK

\* The entry that alt_get_fd takes.
LEMMA GetFdFacts ==
  ASSUME NEW h \in PoolType, NEW d \in Devices, NEW i \in Fds, i = Lowest(FreeFds(h)),
         NEW m \in -1 .. MaxFd - 1, m = IF i > h.alt_max_fd THEN i ELSE h.alt_max_fd,
         NEW g, g = GetFd(h, d)
  PROVE  /\ g \in PoolType /\ g.alt_max_fd = m /\ SameLists(h, g)
         /\ g.alt_fd_list = [h.alt_fd_list EXCEPT ![i] = [h.alt_fd_list[i] EXCEPT !.dev = d]]
<1> DEFINE e == [h.alt_fd_list[i] EXCEPT !.dev = d]
           l == [h.alt_fd_list EXCEPT ![i] = e]
<1>1. h.alt_fd_list \in [Fds -> Entry]
  BY PoolParts
<1>2. g = [h EXCEPT !.alt_fd_list = l, !.alt_max_fd = m]
  BY DEF GetFd
<1>3. e \in Entry
  BY <1>1 DEF Entry
<1> HIDE DEF e
<1>4. l \in [Fds -> Entry]
  BY <1>1, <1>3
<1> HIDE DEF l
<1>5. g \in PoolType /\ g.alt_max_fd = m /\ g.alt_fd_list = l /\ SameLists(h, g)
  BY <1>2, <1>4 DEF PoolType, SameLists
<1> QED
  BY <1>5 DEF l, e

\* The same once alt_open has filled it in.
LEMMA FilledOK ==
  ASSUME NEW h, PoolOK(h), FreeFds(h) # {}, NEW i, i = Lowest(FreeFds(h)),
         NEW d \in Devices, NEW e \in Entry, e.dev # None, "ALT_FD_EXCL" \notin e.flags,
         "ALT_FD_DEV" \in e.flags => e.dev \notin FileSystems,
         NEW g, g = GetFd(h, d), NEW s, s = WithEntry(g, i, e)
  PROVE  /\ PoolOK(s) /\ s.alt_fd_list = [h.alt_fd_list EXCEPT ![i] = e]
         /\ s.alt_max_fd >= h.alt_max_fd /\ s.alt_max_fd >= i
<1>1. /\ i \in Fds /\ i \in Nat /\ i > 2 /\ h.alt_fd_list[i] = Free
  BY FreeFdFacts
<1>2. h \in PoolType /\ h.alt_fd_list \in [Fds -> Entry]
  BY PoolParts DEF PoolOK
<1>3. PICK m \in -1 .. MaxFd - 1 :
         /\ m = IF i > h.alt_max_fd THEN i ELSE h.alt_max_fd
         /\ m >= h.alt_max_fd /\ m >= i
  BY <1>1, <1>2, PoolParts, FdsFacts
<1>4. EntryOK(e, i, m)
  BY <1>1, <1>3, FdsFacts DEF EntryOK
<1>5. /\ g \in PoolType /\ g.alt_max_fd = m /\ SameLists(h, g)
      /\ g.alt_fd_list = [h.alt_fd_list EXCEPT ![i] = [h.alt_fd_list[i] EXCEPT !.dev = d]]
  BY <1>1, <1>2, <1>3, GetFdFacts
<1>6. /\ s \in PoolType /\ s.alt_max_fd = g.alt_max_fd /\ SameLists(g, s)
      /\ s.alt_fd_list = [g.alt_fd_list EXCEPT ![i] = e]
  BY <1>1, <1>5, WithEntryFacts
<1>7. s.alt_fd_list = [h.alt_fd_list EXCEPT ![i] = e]
  <2>1. \A x : [[h.alt_fd_list EXCEPT ![i] = x] EXCEPT ![i] = e]
               = [h.alt_fd_list EXCEPT ![i] = e]
    BY <1>1, <1>2
  <2> QED
    BY <1>5, <1>6, <2>1
<1>8. s.alt_max_fd >= h.alt_max_fd /\ s.alt_max_fd >= i /\ EntryOK(e, i, s.alt_max_fd)
  BY <1>3, <1>4, <1>5, <1>6
<1>9. SameLists(h, s)
  BY <1>5, <1>6 DEF SameLists
<1>10. PoolOK(s)
  BY <1>1, <1>6, <1>7, <1>8, <1>9, UpdateOK
<1> QED
  BY <1>7, <1>8, <1>10

\* What a call that opens a descriptor leaves and returns.
OpenResult(h, o) ==
  /\ Good(h, o)
  /\ \/ o.ret = -1 /\ o.err # NoError
     \/ /\ o.ret \in Fds /\ o.ret > 2 /\ o.hal.alt_fd_list[o.ret].dev # None
        /\ o.err = NoError
        /\ \A j \in Fds : j # o.ret => o.hal.alt_fd_list[j] = h.alt_fd_list[j]

\* What a call that succeeds, and one that fails, returns and sets.
LEMMA ResultFacts ==
  ASSUME NEW h, NEW v
  PROVE  /\ Done(h, v).hal = h /\ Done(h, v).ret = v /\ Done(h, v).err = NoError
         /\ Failed(h, v).hal = h /\ Failed(h, v).ret = -1 /\ Failed(h, v).err = v
         /\ Negated(h, v).hal = h
BY DEF Done, Failed, Negated

\* Nothing changes: nothing is new.
LEMMA SameNothingNew ==
  ASSUME NEW h PROVE NothingNew(h, h)
BY DEF NothingNew

\* What is not new does not take a locked device.
LEMMA NothingNewLocked ==
  ASSUME NEW h, NEW v, NothingNew(h, v) PROVE NoneLocked(h, v)
BY DEF NothingNew, NoneLocked, Free

\* Where nothing is new the standard descriptors are as they were: they are never
\* free.
LEMMA NothingNewStd ==
  ASSUME NEW h, NEW v, PoolOK(v), NothingNew(h, v) PROVE StdSame(h, v)
<1>1. ASSUME NEW i \in {0, 1, 2} PROVE v.alt_fd_list[i] = h.alt_fd_list[i]
  <2>1. i \in Fds /\ ~ (i > 2)
    BY FdsFacts
  <2>2. EntryOK(v.alt_fd_list[i], i, v.alt_max_fd)
    BY <2>1 DEF PoolOK
  <2>3. v.alt_fd_list[i] # Free
    BY <2>1, <2>2 DEF EntryOK, Free
  <2> QED
    BY <2>1, <2>3 DEF NothingNew
<1> QED
  BY <1>1 DEF StdSame

\* Only entry i may differ between h and s.
OthersSame(h, s, i) == \A j \in Fds : j # i => s.alt_fd_list[j] = h.alt_fd_list[j]

\* The scan of alt_file_locked, once the new entry is in place, reaches every
\* lock of its device.
LEMMA ScanOK ==
  ASSUME NEW h, PoolOK(h), NEW s, NEW i \in Fds, NEW d \in Devices, i > 2,
         s.alt_max_fd \in Int, s.alt_max_fd >= h.alt_max_fd, s.alt_max_fd >= i,
         h.alt_fd_list[i] = Free, s.alt_fd_list[i].dev = d,
         OthersSame(h, s, i), LockedIn(h, d)
  PROVE  FileLocked(s, i)
<1>1. PICK j \in Fds : h.alt_fd_list[j].dev = d /\ "ALT_FD_EXCL" \in h.alt_fd_list[j].flags
  BY DEF LockedIn
<1>2. d # None /\ j # i
  BY <1>1, FilesAssumption DEF Free
<1>3. j \in Nat /\ i \in Nat
  BY FdsFacts
<1>4. j > 2 => j <= h.alt_max_fd
  <2>1. EntryOK(h.alt_fd_list[j], j, h.alt_max_fd)
    BY DEF PoolOK
  <2> QED
    BY <1>1, <1>2, <2>1 DEF EntryOK
<1>5. h.alt_max_fd \in Int
  BY PoolParts, FilesAssumption DEF PoolOK
<1>6. j \in 0 .. s.alt_max_fd
  BY <1>3, <1>4, <1>5
<1>7. s.alt_fd_list[j] = h.alt_fd_list[j]
  BY <1>2 DEF OthersSame
<1> QED
  BY <1>1, <1>2, <1>6, <1>7 DEF FileLocked

\* alt_open once it has a device and a free descriptor.
LEMMA OpenOnOK ==
  ASSUME NEW h, PoolOK(h), FreeFds(h) # {}, NEW d \in Devices, NEW isafs \in BOOLEAN,
         isafs <=> d \in FileSystems,
         NEW access \in Access, NEW flags \in SUBSET Settable,
         NEW o \in OpenOn(h, d, isafs, access, flags)
  PROVE  /\ OpenResult(h, o)
         /\ o.err = NoError => /\ o.hal.alt_fd_list[o.ret].dev = d
                              /\ o.hal.alt_fd_list[o.ret].access = access
<1> DEFINE kind == IF isafs THEN {} ELSE {"ALT_FD_DEV"}
<1>1. PICK i : i = Lowest(FreeFds(h))
  OBVIOUS
<1>2. PICK e : e = [dev |-> d, access |-> access, flags |-> flags \cup kind]
  OBVIOUS
<1>3. PICK g : g = GetFd(h, d)
  OBVIOUS
<1>4. PICK s : s = WithEntry(g, i, e)
  OBVIOUS
<1>5. s = [GetFd(h, d) EXCEPT
            !.alt_fd_list[i] = [dev |-> d, access |-> access, flags |-> flags \cup kind]]
  BY <1>2, <1>3, <1>4 DEF WithEntry
<1>6. /\ e \in Entry /\ e.dev = d /\ e.access = access /\ d # None
      /\ "ALT_FD_EXCL" \notin e.flags
      /\ "ALT_FD_DEV" \in e.flags => d \notin FileSystems
  BY <1>2, FilesAssumption DEF Entry, Flags, Settable
<1>7. /\ i \in Fds /\ i \in Nat /\ i > 2 /\ h.alt_fd_list[i] = Free
  BY <1>1, FreeFdFacts
<1>8. /\ PoolOK(s) /\ s.alt_fd_list = [h.alt_fd_list EXCEPT ![i] = e]
      /\ s.alt_max_fd >= h.alt_max_fd /\ s.alt_max_fd >= i
  BY <1>1, <1>3, <1>4, <1>6, FilledOK
<1>9. PICK r : r = ReleaseFd(s, i)
  OBVIOUS
<1>10. h.alt_fd_list \in [Fds -> Entry]
  BY PoolParts DEF PoolOK
<1>11. PoolOK(r) /\ r.alt_fd_list = [s.alt_fd_list EXCEPT ![i] = Free]
  BY <1>7, <1>8, <1>9, ReleaseOK
<1>12. \A j \in Fds : /\ s.alt_fd_list[j] = IF j = i THEN e ELSE h.alt_fd_list[j]
                      /\ r.alt_fd_list[j] = IF j = i THEN Free ELSE h.alt_fd_list[j]
  BY <1>7, <1>8, <1>10, <1>11
<1>13. o \in {Done(s, i), Failed(r, "EACCES"), Failed(r, "EIO")}
  BY <1>1, <1>5, <1>9 DEF OpenOn
<1>14. CASE o = Done(s, i)
  <2>1. o.hal = s /\ o.ret = i /\ o.err = NoError
    BY <1>14, ResultFacts
  <2>2. s.alt_fd_list[i].dev # None
    BY <1>6, <1>7, <1>12
  <2>3. s.alt_fd_list[i].dev = d /\ \A j \in Fds : j # i => s.alt_fd_list[j] = h.alt_fd_list[j]
    BY <1>6, <1>7, <1>12
  <2>4. ~ LockedIn(h, d)
    <3>1. SUFFICES ASSUME LockedIn(h, d) PROVE FALSE
      OBVIOUS
    <3>2. CASE isafs
      <4>1. PICK j \in Fds : h.alt_fd_list[j].dev = d /\ "ALT_FD_EXCL" \in h.alt_fd_list[j].flags
        BY <3>1 DEF LockedIn
      <4>2. EntryOK(h.alt_fd_list[j], j, h.alt_max_fd)
        BY DEF PoolOK
      <4> QED
        BY <3>2, <4>1, <4>2 DEF EntryOK
    <3>3. CASE ~ isafs
      <4>1. s.alt_max_fd \in Int
        <5>1. s \in PoolType
          BY <1>8 DEF PoolOK
        <5>2. s.alt_max_fd \in -1 .. MaxFd - 1
          BY <5>1, PoolParts
        <5> QED
          BY <5>2
      <4>a. OthersSame(h, s, i) /\ s.alt_fd_list[i].dev = d
        BY <2>3 DEF OthersSame
      <4>2. FileLocked(s, i)
        BY <1>7, <1>8, <3>1, <4>1, <4>a, ScanOK
      <4>3. o = Failed(r, "EACCES")
        BY <1>1, <1>5, <1>9, <3>3, <4>2 DEF OpenOn
      <4> QED
        BY <2>1, <4>3, ResultFacts DEF NoError
    <3> QED
      BY <3>2, <3>3
  <2>5. NoneLocked(h, s)
    BY <2>3, <2>4 DEF NoneLocked
  <2>6. StdSame(h, s)
    BY <1>7, <2>3, FdsFacts DEF StdSame
  <2>7. s.alt_fd_list[i].access = access
    BY <1>6, <1>7, <1>12
  <2> QED
    BY <1>7, <1>8, <2>1, <2>2, <2>3, <2>5, <2>6, <2>7 DEF OpenResult, Good
<1>15. CASE o \in {Failed(r, "EACCES"), Failed(r, "EIO")}
  <2>1. NothingNew(h, r)
    BY <1>12 DEF NothingNew
  <2>2. o.hal = r /\ o.ret = -1 /\ o.err # NoError
    BY <1>15, ResultFacts DEF NoError
  <2> QED
    BY <1>11, <2>1, <2>2, NothingNewLocked, NothingNewStd DEF OpenResult, Good
<1> QED
  BY <1>13, <1>14, <1>15

\* open.
LEMMA OpenOK ==
  ASSUME NEW h, PoolOK(h), NEW name, NEW access \in Access, NEW flags \in SUBSET Settable,
         NEW o \in Open(h, name, access, flags)
  PROVE  /\ OpenResult(h, o)
         /\ o.err = NoError =>
              /\ o.hal.alt_fd_list[o.ret].dev \in {FindDev(h, name), FindFile(h, name)} \ {None}
              /\ o.hal.alt_fd_list[o.ret].access = access
<1> DEFINE dev == FindDev(h, name)
<1>1. PICK d : d = IF dev = None THEN FindFile(h, name) ELSE dev
  OBVIOUS
<1>2. CASE d = None \/ (d # None /\ FreeFds(h) = {})
  <2>1. o \in {Failed(h, "ENODEV"), Failed(h, "EMFILE")}
    BY <1>1, <1>2 DEF Open
  <2>2. o.hal = h /\ o.ret = -1 /\ o.err # NoError
    BY <2>1, ResultFacts DEF NoError
  <2> QED
    BY <2>2, SameNothingNew, NothingNewLocked, NothingNewStd DEF OpenResult, Good
<1>3. CASE d # None /\ FreeFds(h) # {}
  <2>1. PICK isafs \in BOOLEAN : isafs = (dev = None)
    OBVIOUS
  <2>2. d \in Devices /\ (isafs <=> d \in FileSystems)
    BY <1>1, <1>3, <2>1, FoundFacts
  <2>3. o \in OpenOn(h, d, isafs, access, flags)
    BY <1>1, <1>3, <2>1 DEF Open
  <2>4. /\ OpenResult(h, o)
        /\ o.err = NoError => /\ o.hal.alt_fd_list[o.ret].dev = d
                             /\ o.hal.alt_fd_list[o.ret].access = access
    BY <1>3, <2>2, <2>3, OpenOnOK
  <2>5. d \in {FindDev(h, name), FindFile(h, name)} \ {None}
    BY <1>1, <1>3
  <2> QED
    BY <2>4, <2>5
<1> QED
  BY <1>2, <1>3

\* close.
LEMMA CloseOK ==
  ASSUME NEW h, PoolOK(h), NEW fd \in Fds \cup {-1}, NEW o \in Close(h, fd)
  PROVE  /\ PoolOK(o.hal) /\ NothingNew(h, o.hal)
         /\ fd \in Fds /\ fd > 2 => o.hal.alt_fd_list = [h.alt_fd_list EXCEPT ![fd] = Free]
<1>1. CASE fd < 0
  <2>1. o.hal = h /\ fd \notin Fds
    BY <1>1, ResultFacts, FdsFacts DEF Close
  <2> QED
    BY <2>1, SameNothingNew
<1>2. CASE ~ (fd < 0)
  <2>1. fd \in Fds
    BY <1>2
  <2>2. PICK v : v = ReleaseFd(h, fd)
    OBVIOUS
  <2>3. o \in {Done(v, 0), Failed(v, "EIO")}
    BY <1>2, <2>2 DEF Close
  <2>4. o.hal = v
    BY <2>3, ResultFacts
  <2> QED
    BY <2>1, <2>2, <2>4, ReleaseOK
<1> QED
  BY <1>1, <1>2

\* alt_open_fd, for one of the standard descriptors.
LEMMA OpenFdOK ==
  ASSUME NEW h, PoolOK(h), NEW fd \in {0, 1, 2}, NEW name, NEW access \in Access,
         NEW v \in OpenFd(h, fd, name, access)
  PROVE  PoolOK(v)
<1>1. PICK o \in Open(h, name, access, {}) :
         v = IF o.ret < 0 THEN o.hal
             ELSE ReleaseFd([o.hal EXCEPT !.alt_fd_list[fd] = o.hal.alt_fd_list[o.ret]], o.ret)
  BY DEF OpenFd
<1>2. OpenResult(h, o)
  <2>1. {} \in SUBSET Settable
    OBVIOUS
  <2> QED
    BY <2>1, OpenOK
<1>3. CASE o.ret = -1
  BY <1>1, <1>2, <1>3 DEF OpenResult, Good
<1>4. CASE o.ret # -1
  <2>1. /\ PoolOK(o.hal) /\ o.ret \in Fds /\ o.ret > 2
        /\ o.hal.alt_fd_list[o.ret].dev # None
    BY <1>2, <1>4 DEF OpenResult, Good
  <2>2. PICK e : e = o.hal.alt_fd_list[o.ret]
    OBVIOUS
  <2>3. EntryOK(e, o.ret, o.hal.alt_max_fd)
    BY <2>1, <2>2 DEF PoolOK
  <2>4. fd \in Fds /\ ~ (fd > 2)
    BY FdsFacts
  <2>5. EntryOK(e, fd, o.hal.alt_max_fd)
    BY <2>1, <2>2, <2>3, <2>4 DEF EntryOK
  <2>6. PICK u : u = WithEntry(o.hal, fd, e)
    OBVIOUS
  <2>7. PoolOK(u)
    BY <2>1, <2>4, <2>5, <2>6, WithEntryOK
  <2>8. ~ (o.ret < 0)
    <3>1. o.ret \in Nat
      BY <2>1, FdsFacts
    <3> QED
      BY <3>1
  <2>9. v = ReleaseFd(u, o.ret)
    BY <1>1, <2>2, <2>6, <2>8 DEF WithEntry
  <2> QED
    BY <2>1, <2>7, <2>9, ReleaseOK
<1> QED
  BY <1>3, <1>4

\* alt_io_redirect.
LEMMA IoRedirectOK ==
  ASSUME NEW h, PoolOK(h), NEW stdout, NEW stdin, NEW stderr,
         NEW v \in IoRedirect(h, stdout, stdin, stderr)
  PROVE  PoolOK(v)
<1>1. PICK h1 \in OpenFd(h, 1, stdout, "O_WRONLY") :
         \E h2 \in OpenFd(h1, 0, stdin, "O_RDONLY") : v \in OpenFd(h2, 2, stderr, "O_WRONLY")
  BY DEF IoRedirect
<1>2. PICK h2 \in OpenFd(h1, 0, stdin, "O_RDONLY") : v \in OpenFd(h2, 2, stderr, "O_WRONLY")
  BY <1>1
<1>3. "O_WRONLY" \in Access /\ "O_RDONLY" \in Access
  BY DEF Access
<1>4. PoolOK(h1)
  BY <1>1, <1>3, OpenFdOK
<1>5. PoolOK(h2)
  BY <1>2, <1>3, <1>4, OpenFdOK
<1> QED
  BY <1>2, <1>3, <1>5, OpenFdOK

\* alt_dev_reg and alt_fs_reg.
WithDevs(h, l) == [h EXCEPT !.alt_dev_list = l]
WithFs(h, l) == [h EXCEPT !.alt_fs_list = l]

\* Registering in a list: what the list holds afterwards.
LEMMA ListFacts ==
  ASSUME NEW h \in PoolType, NEW l \in Seq(Devices),
         NEW v, v = WithDevs(h, l) \/ v = WithFs(h, l)
  PROVE  v \in PoolType /\ v.alt_fd_list = h.alt_fd_list /\ v.alt_max_fd = h.alt_max_fd
BY DEF PoolType, WithDevs, WithFs

\* Registering keeps the lists typed.
LEMMA ListOK ==
  ASSUME NEW h, PoolOK(h), NEW l \in Seq(Devices), NEW v,
         \/ v = WithDevs(h, l) /\ \A k \in DOMAIN l : l[k] \notin FileSystems
         \/ v = WithFs(h, l) /\ \A k \in DOMAIN l : l[k] \in FileSystems
  PROVE  PoolOK(v)
<1>1. h \in PoolType
  BY DEF PoolOK
<1>2. v \in PoolType /\ v.alt_fd_list = h.alt_fd_list /\ v.alt_max_fd = h.alt_max_fd
  BY <1>1, ListFacts
<1>3. ListsOK(v)
  <2>1. \/ v.alt_dev_list = l /\ v.alt_fs_list = h.alt_fs_list
           /\ \A k \in DOMAIN l : l[k] \notin FileSystems
        \/ v.alt_fs_list = l /\ v.alt_dev_list = h.alt_dev_list
           /\ \A k \in DOMAIN l : l[k] \in FileSystems
    BY <1>1 DEF PoolType, WithDevs, WithFs
  <2> QED
    BY <2>1 DEF PoolOK, ListsOK
<1> QED
  BY <1>2, <1>3 DEF PoolOK

\* A registration keeps the files in order.
LEMMA RegisterOK ==
  ASSUME NEW h, PoolOK(h), NEW d \in Devices, NEW o,
         o = IF d \in FileSystems THEN FsReg(h, d) ELSE DevReg(h, d)
  PROVE  PoolOK(o.hal)
<1>1. h.alt_dev_list \in Seq(Devices) /\ h.alt_fs_list \in Seq(Devices)
  BY PoolParts DEF PoolOK
<1>2. PICK l : l = <<d>> \o h.alt_dev_list
  OBVIOUS
<1>3. PICK k : k = <<d>> \o h.alt_fs_list
  OBVIOUS
<1>4. l \in Seq(Devices) /\ k \in Seq(Devices)
  BY <1>1, <1>2, <1>3
<1>5. CASE d \notin FileSystems
  <2>1. \A j \in DOMAIN l : l[j] \notin FileSystems
    BY <1>1, <1>2, <1>5 DEF PoolOK, ListsOK
  <2>2. o.hal \in {h, WithDevs(h, l)}
    BY <1>2, <1>5, ResultFacts DEF DevReg, WithDevs
  <2> QED
    BY <1>4, <2>1, <2>2, ListOK
<1>6. CASE d \in FileSystems
  <2>1. \A j \in DOMAIN k : k[j] \in FileSystems
    BY <1>1, <1>3, <1>6 DEF PoolOK, ListsOK
  <2>2. o.hal \in {h, WithFs(h, k)}
    BY <1>3, <1>6, ResultFacts DEF FsReg, WithFs
  <2> QED
    BY <1>4, <2>1, <2>2, ListOK
<1> QED
  BY <1>5, <1>6

-----------------------------------------------------------------------------
(* Calls on a descriptor. *)

\* A driver's callback leaves the pool alone.
LEMMA PassedSame ==
  ASSUME NEW h, NEW d, NEW o \in Passed(h, d) PROVE o.hal = h
<1>1. \E v : o = Done(h, v)
  BY DEF Passed
<1> QED
  BY <1>1, ResultFacts

\* So does reporting what it answers.
LEMMA AnswersSame ==
  ASSUME NEW h, NEW d, NEW o \in Answers(h, d) PROVE o.hal = h
<1>1. PICK p \in Passed(h, d) : o = p \/ o = Failed(p.hal, "EIO")
  BY DEF Answers, Reported
<1> QED
  BY <1>1, PassedSame, ResultFacts

\* A call that leaves the pool alone is good.
LEMMA SameOK ==
  ASSUME NEW h, PoolOK(h), NEW o, o.hal = h PROVE Good(h, o)
BY SameNothingNew, NothingNewLocked, NothingNewStd DEF Good

\* read keeps the files in order.
LEMMA ReadOK ==
  ASSUME NEW h, PoolOK(h), NEW fd, NEW o \in Read(h, fd) PROVE o.hal = h
BY AnswersSame, ResultFacts DEF Read

\* write keeps the files in order.
LEMMA WriteOK ==
  ASSUME NEW h, PoolOK(h), NEW fd, NEW o \in Write(h, fd) PROVE o.hal = h
BY AnswersSame, ResultFacts DEF Write

\* lseek keeps the files in order.
LEMMA LseekOK ==
  ASSUME NEW h, PoolOK(h), NEW fd, NEW o \in Lseek(h, fd) PROVE o.hal = h
BY AnswersSame, ResultFacts DEF Lseek

\* fstat keeps the files in order.
LEMMA FstatOK ==
  ASSUME NEW h, PoolOK(h), NEW fd, NEW o \in Fstat(h, fd) PROVE o.hal = h
BY PassedSame, ResultFacts DEF Fstat

\* isatty keeps the files in order.
LEMMA IsattyOK ==
  ASSUME NEW h, PoolOK(h), NEW fd, NEW o \in Isatty(h, fd) PROVE o.hal = h
<1>1. \/ o \in {Done(h, 0), Done(h, 1)}
      \/ o = [Done(h, 0) EXCEPT !.err = "EBADFD"]
  BY DEF Isatty
<1> QED
  BY <1>1 DEF Done

\* The flags of an entry change.
WithFlags(h, i, f) == [h EXCEPT !.alt_fd_list[i].flags = f]

\* Changing the flags of an entry keeps the pool in order.
LEMMA WithFlagsOK ==
  ASSUME NEW h, PoolOK(h), NEW fd \in Fds, NEW f \in SUBSET Flags,
         "ALT_FD_EXCL" \in f => "ALT_FD_DEV" \in f,
         "ALT_FD_DEV" \in f => "ALT_FD_DEV" \in h.alt_fd_list[fd].flags,
         h.alt_fd_list[fd].dev # None,
         NEW v, v = WithFlags(h, fd, f)
  PROVE  PoolOK(v) /\ NoneLocked(h, v) /\ StdSame(h, v)
<1>1. h.alt_fd_list \in [Fds -> Entry]
  BY PoolParts DEF PoolOK
<1>2. PICK x : x = h.alt_fd_list[fd]
  OBVIOUS
<1>3. PICK e : e = [x EXCEPT !.flags = f]
  OBVIOUS
<1>4. EntryOK(x, fd, h.alt_max_fd) /\ x.dev # None
  BY <1>2 DEF PoolOK
<1>5. x \in Entry
  BY <1>4 DEF EntryOK
<1>6. e \in Entry /\ e.dev = x.dev /\ e.access = x.access /\ e.flags = f
  BY <1>3, <1>5 DEF Entry
<1>7. EntryOK(e, fd, h.alt_max_fd)
  BY <1>2, <1>4, <1>6 DEF EntryOK
<1>8. v = WithEntry(h, fd, e)
  BY <1>2, <1>3 DEF WithEntry, WithFlags
<1>9. PoolOK(v) /\ v.alt_fd_list = [h.alt_fd_list EXCEPT ![fd] = e]
  BY <1>7, <1>8, WithEntryOK
<1>10. \A j \in Fds : /\ v.alt_fd_list[j].dev = h.alt_fd_list[j].dev
                      /\ v.alt_fd_list[j].access = h.alt_fd_list[j].access
  BY <1>1, <1>2, <1>6, <1>9
<1> QED
  BY <1>9, <1>10, FdsFacts DEF NoneLocked, StdSame

\* ioctl: a lock is taken on a descriptor of a device, and given up.
LEMMA IoctlOK ==
  ASSUME NEW h, PoolOK(h), NEW fd \in Fds \cup {-1}, fd \in Fds => h.alt_fd_list[fd].dev # None,
         NEW req, NEW o \in Ioctl(h, fd, req)
  PROVE  Good(h, o)
<1>1. CASE o.hal = h
  BY <1>1, SameOK
<1>2. CASE fd \in Fds /\ "ALT_FD_DEV" \in h.alt_fd_list[fd].flags
           /\ o \in {FdLock(h, fd), FdUnlock(h, fd)}
  <2>1. PICK f : f = h.alt_fd_list[fd].flags \cup {"ALT_FD_EXCL"}
    OBVIOUS
  <2>2. PICK k : k = h.alt_fd_list[fd].flags \ {"ALT_FD_EXCL"}
    OBVIOUS
  <2>3. PICK u : u = WithFlags(h, fd, f)
    OBVIOUS
  <2>4. PICK w : w = WithFlags(h, fd, k)
    OBVIOUS
  <2>5. o \in {Negated(h, "EACCES"), Done(u, 0), Done(w, 0)}
    BY <1>2, <2>1, <2>2, <2>3, <2>4 DEF FdLock, FdUnlock, WithFlags
  <2>6. h.alt_fd_list[fd].flags \in SUBSET Flags
    <3>1. h.alt_fd_list[fd] \in Entry
      BY <1>2, PoolParts DEF PoolOK
    <3> QED
      BY <3>1 DEF Entry
  <2>7. f \in SUBSET Flags /\ k \in SUBSET Flags
    BY <2>1, <2>2, <2>6 DEF Flags
  <2>8. "ALT_FD_DEV" \in f /\ "ALT_FD_EXCL" \notin k
    BY <1>2, <2>1, <2>2
  <2>9. PoolOK(u) /\ NoneLocked(h, u) /\ StdSame(h, u)
    BY <1>2, <2>3, <2>7, <2>8, WithFlagsOK
  <2>10. PoolOK(w) /\ NoneLocked(h, w) /\ StdSame(h, w)
    BY <1>2, <2>4, <2>7, <2>8, WithFlagsOK
  <2>11. CASE o = Negated(h, "EACCES")
    BY <2>11, ResultFacts, SameOK
  <2>12. CASE o = Done(u, 0)
    BY <2>9, <2>12, ResultFacts DEF Good
  <2>13. CASE o = Done(w, 0)
    BY <2>10, <2>13, ResultFacts DEF Good
  <2> QED
    BY <2>5, <2>11, <2>12, <2>13
<1>3. \/ o.hal = h
      \/ fd \in Fds /\ "ALT_FD_DEV" \in h.alt_fd_list[fd].flags
         /\ o \in {FdLock(h, fd), FdUnlock(h, fd)}
  <2>1. CASE fd = -1
    <3>1. o = Negated(h, "EBADFD")
      BY <2>1 DEF Ioctl, Bad
    <3> QED
      BY <3>1, ResultFacts
  <2>2. CASE fd \in Fds
    <3>1. ~ (fd < 0)
      BY <2>2, FdsFacts
    <3>2. \/ "ALT_FD_DEV" \in h.alt_fd_list[fd].flags /\ o \in {FdLock(h, fd), FdUnlock(h, fd)}
          \/ o \in Passed(h, Dev(h, fd)) \/ \E e : o = Negated(h, e)
      BY <3>1 DEF Ioctl, Bad
    <3> QED
      BY <2>2, <3>2, PassedSame, ResultFacts
  <2> QED
    BY <2>1, <2>2
<1> QED
  BY <1>1, <1>2, <1>3

\* fcntl: the two flags it sets are not the lock's.
LEMMA FcntlOK ==
  ASSUME NEW h, PoolOK(h), NEW fd \in Fds \cup {-1}, fd \in Fds => h.alt_fd_list[fd].dev # None,
         NEW cmd, NEW flags, NEW o \in Fcntl(h, fd, cmd, flags)
  PROVE  Good(h, o)
<1>1. CASE o.hal = h
  BY <1>1, SameOK
<1>2. CASE fd \in Fds /\ cmd = "F_SETFL"
  <2>1. PICK f : f = (h.alt_fd_list[fd].flags \ Settable) \cup (flags \cap Settable)
    OBVIOUS
  <2>2. PICK u : u = WithFlags(h, fd, f)
    OBVIOUS
  <2>3. ~ (fd < 0)
    BY <1>2, FdsFacts
  <2>4. o = Done(u, 0)
    BY <1>2, <2>1, <2>2, <2>3 DEF Fcntl, Bad, WithFlags
  <2>5. EntryOK(h.alt_fd_list[fd], fd, h.alt_max_fd)
    BY <1>2 DEF PoolOK
  <2>6. /\ h.alt_fd_list[fd].flags \in SUBSET Flags
        /\ "ALT_FD_EXCL" \in h.alt_fd_list[fd].flags => "ALT_FD_DEV" \in h.alt_fd_list[fd].flags
    BY <2>5 DEF EntryOK, Entry
  <2>7. /\ f \in SUBSET Flags /\ ("ALT_FD_EXCL" \in f => "ALT_FD_DEV" \in f)
        /\ "ALT_FD_DEV" \in f => "ALT_FD_DEV" \in h.alt_fd_list[fd].flags
    BY <2>1, <2>6 DEF Flags, Settable
  <2>8. PoolOK(u) /\ NoneLocked(h, u) /\ StdSame(h, u)
    BY <1>2, <2>2, <2>7, WithFlagsOK
  <2> QED
    BY <2>4, <2>8, ResultFacts DEF Good
<1>3. o.hal = h \/ (fd \in Fds /\ cmd = "F_SETFL")
  <2>1. CASE fd = -1
    <3>1. o = Failed(h, "EBADFD")
      BY <2>1 DEF Fcntl, Bad
    <3> QED
      BY <3>1, ResultFacts
  <2>2. CASE fd \in Fds /\ cmd # "F_SETFL"
    <3>1. o \in {Failed(h, "EBADFD"), Done(h, 0), Failed(h, "EINVAL")}
      BY <2>2 DEF Fcntl
    <3> QED
      BY <3>1, ResultFacts
  <2> QED
    BY <2>1, <2>2
<1> QED
  BY <1>1, <1>2, <1>3

\* stat: what it opens it closes.
LEMMA StatOK ==
  ASSUME NEW h, PoolOK(h), NEW name, NEW c \in Stat(h, name)
  PROVE  Good(h, c)
<1> DEFINE R(k, f) == [k EXCEPT !.ret = f.ret, !.err = IF @ = NoError THEN f.err ELSE @]
<1>a. PICK o \in Open(h, name, "O_RDONLY", {}) :
        c \in UNION {{R(k, f) : k \in Close(f.hal, o.ret)} : f \in Fstat(o.hal, o.ret)}
  BY DEF Stat
<1>b. PICK f \in Fstat(o.hal, o.ret) : c \in {R(k, f) : k \in Close(f.hal, o.ret)}
  BY <1>a
<1>c. PICK k \in Close(f.hal, o.ret) : c = R(k, f)
  BY <1>b
<1>1. c.hal = k.hal
  <2>1. k \in [hal : {k.hal}, ret : {k.ret}, err : {k.err}]
    BY DEF Close, Done, Failed
  <2> QED
    BY <1>c, <2>1
<1>2. OpenResult(h, o)
  <2>1. "O_RDONLY" \in Access /\ {} \in SUBSET Settable
    BY DEF Access
  <2> QED
    BY <2>1, OpenOK
<1>3. f.hal = o.hal /\ PoolOK(o.hal)
  BY <1>2, FstatOK DEF OpenResult, Good
<1>4. o.ret \in Fds \cup {-1}
  BY <1>2 DEF OpenResult
<1>5. /\ PoolOK(k.hal) /\ NothingNew(o.hal, k.hal)
      /\ o.ret \in Fds /\ o.ret > 2 =>
           k.hal.alt_fd_list = [o.hal.alt_fd_list EXCEPT ![o.ret] = Free]
  BY <1>3, <1>4, CloseOK
<1>6. NothingNew(h, k.hal)
  <2>1. CASE o.err # NoError
    <3>1. NothingNew(h, o.hal)
      BY <1>2, <2>1 DEF OpenResult, Good
    <3> QED
      BY <1>5, <3>1 DEF NothingNew
  <2>2. CASE o.err = NoError
    <3>1. /\ o.ret \in Fds /\ o.ret > 2
          /\ \A j \in Fds : j # o.ret => o.hal.alt_fd_list[j] = h.alt_fd_list[j]
      BY <1>2, <2>2 DEF OpenResult
    <3>2. o.hal.alt_fd_list \in [Fds -> Entry]
      BY <1>3, PoolParts DEF PoolOK
    <3> QED
      BY <1>5, <3>1, <3>2 DEF NothingNew
  <2> QED
    BY <2>1, <2>2
<1> QED
  BY <1>1, <1>5, <1>6, NothingNewLocked, NothingNewStd DEF Good

-----------------------------------------------------------------------------
(* The standard streams. *)

StdAccess(fd) == IF fd = 0 THEN "O_RDONLY" ELSE "O_WRONLY"

\* A standard descriptor is at /dev/null, or at its device in the right direction.
StdOK(h) ==
  \A i \in {0, 1, 2} :
    \/ h.alt_fd_list[i].dev = Null
    \/ h.alt_fd_list[i].dev = Std[i] /\ h.alt_fd_list[i].access = StdAccess(i)

\* The name of a standard stream finds its device, or nothing.
LEMMA StreamFound ==
  ASSUME NEW h, PoolOK(h), NEW fd \in {0, 1, 2}
  PROVE  /\ FindDev(h, Driver[Std[fd]].name) \in {None, Std[fd]}
         /\ FindFile(h, Driver[Std[fd]].name) = None
<1>1. h.alt_dev_list \in Seq(Devices) /\ h.alt_fs_list \in Seq(Devices)
  BY PoolParts DEF PoolOK
<1>2. PICK name : name = Driver[Std[fd]].name
  OBVIOUS
<1>3. /\ \A d \in Devices : Driver[d].name = name => d = Std[fd]
      /\ \A d \in FileSystems : ~ Under(d, name)
  BY <1>2, StreamsAssumption
<1>4. ASSUME FindDev(h, name) # None PROVE FindDev(h, name) = Std[fd]
  <2>1. PICK hits \in SUBSET DOMAIN h.alt_dev_list :
          hits = {i \in DOMAIN h.alt_dev_list : Driver[h.alt_dev_list[i]].name = name}
    OBVIOUS
  <2>2. FindDev(h, name) = FirstOf(h.alt_dev_list, hits)
    BY <2>1 DEF FindDev
  <2>3. PICK k \in DOMAIN h.alt_dev_list :
          k \in hits /\ FindDev(h, name) = h.alt_dev_list[k] /\ h.alt_dev_list[k] \in Devices
    BY <1>1, <1>4, <2>2, FirstOfFacts
  <2> QED
    BY <1>3, <2>1, <2>3
<1>5. ASSUME FindFile(h, name) # None PROVE FALSE
  <2>1. PICK hits \in SUBSET DOMAIN h.alt_fs_list :
          hits = {i \in DOMAIN h.alt_fs_list : Under(h.alt_fs_list[i], name)}
    OBVIOUS
  <2>2. FindFile(h, name) = FirstOf(h.alt_fs_list, hits)
    BY <2>1 DEF FindFile
  <2>3. PICK k \in DOMAIN h.alt_fs_list : k \in hits
    BY <1>1, <1>5, <2>2, FirstOfFacts
  <2>4. Under(h.alt_fs_list[k], name) /\ h.alt_fs_list[k] \in FileSystems
    BY <2>1, <2>3 DEF PoolOK, ListsOK
  <2> QED
    BY <1>3, <2>4
<1> QED
  BY <1>2, <1>4, <1>5

\* A call that leaves the standard descriptors as they are keeps the streams.
LEMMA SameStreams ==
  ASSUME NEW h, StdOK(h), NEW v, StdSame(h, v) PROVE StdOK(v)
BY DEF StdOK, StdSame

\* alt_open_fd puts a stream at its device, or leaves it where it is.
LEMMA OpenFdStream ==
  ASSUME NEW h, PoolOK(h), StdOK(h), NEW fd \in {0, 1, 2},
         NEW v \in OpenFd(h, fd, Driver[Std[fd]].name, StdAccess(fd))
  PROVE  PoolOK(v) /\ StdOK(v)
<1>1. PICK name : name = Driver[Std[fd]].name
  OBVIOUS
<1>2. PICK access \in Access : access = StdAccess(fd)
  BY DEF Access, StdAccess
<1>3. PICK o \in Open(h, name, access, {}) :
         v = IF o.ret < 0 THEN o.hal
             ELSE ReleaseFd([o.hal EXCEPT !.alt_fd_list[fd] = o.hal.alt_fd_list[o.ret]], o.ret)
  BY <1>1, <1>2 DEF OpenFd
<1>4. {} \in SUBSET Settable
  OBVIOUS
<1>5. /\ OpenResult(h, o)
      /\ o.err = NoError =>
           /\ o.hal.alt_fd_list[o.ret].dev \in {FindDev(h, name), FindFile(h, name)} \ {None}
           /\ o.hal.alt_fd_list[o.ret].access = access
  BY <1>4, OpenOK
<1>6. PoolOK(v)
  BY <1>1, <1>2, OpenFdOK
<1>7. StdOK(o.hal) /\ PoolOK(o.hal)
  BY <1>5, SameStreams DEF OpenResult, Good
<1>8. CASE o.ret = -1
  BY <1>3, <1>6, <1>7, <1>8
<1>9. CASE o.ret # -1
  <2>1. o.ret \in Fds /\ o.ret \in Nat /\ o.ret > 2 /\ o.err = NoError
    BY <1>5, <1>9, FdsFacts DEF OpenResult
  <2>2. PICK e \in Entry : e = o.hal.alt_fd_list[o.ret]
    BY <1>7, <2>1, PoolParts DEF PoolOK
  <2>3. e.dev = Std[fd] /\ e.access = StdAccess(fd)
    BY <1>1, <1>2, <1>5, <2>1, <2>2, StreamFound
  <2>4. PICK u : u = WithEntry(o.hal, fd, e)
    OBVIOUS
  <2>5. fd \in Fds /\ ~ (fd > 2) /\ ~ (o.ret < 0)
    BY <2>1, FdsFacts
  <2>6. EntryOK(e, fd, o.hal.alt_max_fd)
    <3>1. EntryOK(e, o.ret, o.hal.alt_max_fd) /\ e.dev # None
      BY <1>5, <1>7, <2>1, <2>2 DEF PoolOK
    <3> QED
      BY <2>5, <3>1 DEF EntryOK
  <2>7. PoolOK(u) /\ u.alt_fd_list = [o.hal.alt_fd_list EXCEPT ![fd] = e]
    BY <1>7, <2>4, <2>5, <2>6, WithEntryOK
  <2>8. v = ReleaseFd(u, o.ret)
    BY <1>3, <2>2, <2>4, <2>5 DEF WithEntry
  <2>9. NothingNew(u, v)
    BY <2>1, <2>7, <2>8, ReleaseOK
  <2>10. StdSame(u, v)
    BY <1>6, <2>9, NothingNewStd
  <2>11. StdOK(u)
    <3>1. o.hal.alt_fd_list \in [Fds -> Entry]
      BY <1>7, PoolParts DEF PoolOK
    <3>2. \A i \in {0, 1, 2} : u.alt_fd_list[i] = IF i = fd THEN e ELSE o.hal.alt_fd_list[i]
      BY <2>7, <3>1, FdsFacts
    <3> QED
      BY <1>7, <2>3, <3>2 DEF StdOK
  <2> QED
    BY <1>6, <2>10, <2>11, SameStreams
<1> QED
  BY <1>8, <1>9

\* alt_io_redirect does so with all three.
LEMMA RedirectStreams ==
  ASSUME NEW h, PoolOK(h), StdOK(h),
         NEW v \in IoRedirect(h, Driver[Std[1]].name, Driver[Std[0]].name, Driver[Std[2]].name)
  PROVE  StdOK(v)
<1>1. PICK h1 \in OpenFd(h, 1, Driver[Std[1]].name, StdAccess(1)) :
         \E h2 \in OpenFd(h1, 0, Driver[Std[0]].name, StdAccess(0)) :
           v \in OpenFd(h2, 2, Driver[Std[2]].name, StdAccess(2))
  BY DEF IoRedirect, StdAccess
<1>2. PICK h2 \in OpenFd(h1, 0, Driver[Std[0]].name, StdAccess(0)) :
         v \in OpenFd(h2, 2, Driver[Std[2]].name, StdAccess(2))
  BY <1>1
<1>3. PoolOK(h1) /\ StdOK(h1)
  BY <1>1, OpenFdStream
<1>4. PoolOK(h2) /\ StdOK(h2)
  BY <1>2, <1>3, OpenFdStream
<1> QED
  BY <1>2, <1>4, OpenFdStream

-----------------------------------------------------------------------------
(* The invariant: what is proved of every pool above, and what the loops   *)
(* of the startup code have left.                                          *)

StageOK ==
  /\ stage \in {"sys_init", "ctors", "main", "dtors", "spin"}
  /\ left \in Nat
  /\ stage = "sys_init" => left <= Len(SysInit)

BootInv == PoolOK(hal) /\ StageOK

\* The initial states satisfy the invariant.
LEMMA BootInitOK == BootInit => BootInv
<1> SUFFICES ASSUME BootInit PROVE BootInv
  OBVIOUS
<1>1. PICK n : n = [Free EXCEPT !.dev = Null]
  OBVIOUS
<1>2. /\ n \in Entry /\ Free \in Entry /\ n.dev # None
      /\ "ALT_FD_EXCL" \notin n.flags /\ "ALT_FD_DEV" \notin n.flags
  BY <1>1, FilesAssumption DEF Free, Entry, Access
<1>3. hal = [alt_dev_list |-> <<Null>>, alt_fs_list |-> <<>>,
             alt_fd_list |-> [i \in Fds |-> IF i <= 2 THEN n ELSE Free], alt_max_fd |-> -1]
  BY <1>1 DEF BootInit, PoolInit
<1>4. PICK l : l = [i \in Fds |-> IF i <= 2 THEN n ELSE Free]
  OBVIOUS
<1>5. l \in [Fds -> Entry]
  BY <1>2, <1>4
<1>6. /\ hal.alt_dev_list = <<Null>> /\ hal.alt_fs_list = <<>>
      /\ hal.alt_fd_list = l /\ hal.alt_max_fd = -1
      /\ hal \in [alt_dev_list : {<<Null>>}, alt_fs_list : {<<>>}, alt_fd_list : {l}, alt_max_fd : {-1}]
  BY <1>3, <1>4
<1>7. <<Null>> \in Seq(Devices) /\ <<>> \in Seq(Devices) /\ -1 \in -1 .. MaxFd - 1
  BY FilesAssumption
<1>8. hal \in PoolType
  BY <1>5, <1>6, <1>7 DEF PoolType
<1>9. ASSUME NEW i \in Fds PROVE EntryOK(hal.alt_fd_list[i], i, hal.alt_max_fd)
  <2>1. i \in Nat
    BY FdsFacts
  <2>2. CASE i <= 2
    <3>1. hal.alt_fd_list[i] = n
      BY <1>4, <1>6, <2>2
    <3> QED
      BY <1>2, <2>1, <2>2, <3>1 DEF EntryOK
  <2>3. CASE ~ (i <= 2)
    <3>1. hal.alt_fd_list[i] = Free /\ i > 2
      BY <1>4, <1>6, <2>1, <2>3
    <3> QED
      BY <2>1, <3>1, FreeFacts
  <2> QED
    BY <2>2, <2>3
<1>10. ListsOK(hal)
  BY <1>6, BootAssumption DEF ListsOK
<1>11. StageOK
  BY BootAssumption DEF BootInit, StageOK
<1> QED
  BY <1>8, <1>9, <1>10, <1>11 DEF BootInv, PoolOK

\* A call of the program leaves a pool that is good.
StepOK ==
  /\ PoolOK(hal') /\ NoneLocked(hal, hal') /\ StdSame(hal, hal')
  /\ err' # NoError => NothingNew(hal, hal')

\* Every call of the program keeps the files in order.
LEMMA CallsOK ==
  ASSUME NEW outcomes, \A o \in outcomes : Good(hal, o), Calls(outcomes)
  PROVE  StepOK
BY DEF Calls, Good, StepOK

\* Every stage of the program keeps the invariant.
LEMMA ProgramOK ==
  ASSUME BootInv, Program PROVE StepOK /\ StageOK'
<1> USE DEF BootInv
<1>1. ASSUME NEW outcomes, ProgramCalls(outcomes), \A o \in outcomes : Good(hal, o)
      PROVE  StepOK /\ StageOK'
  BY <1>1, CallsOK DEF ProgramCalls, StageOK
<1>2. ASSUME NEW fd \in Opened
      PROVE  fd \in Fds \cup {-1} /\ (fd \in Fds => hal.alt_fd_list[fd].dev # None)
  BY FdsFacts DEF Opened
<1>3. CASE CallOpen
  <2>1. PICK name \in Names, mode \in Modes :
          ProgramCalls(Open(hal, name, mode.access, mode.flags))
    BY <1>3 DEF CallOpen
  <2>2. mode.access \in Access /\ mode.flags \in SUBSET Settable
    BY BootAssumption
  <2>3. \A o \in Open(hal, name, mode.access, mode.flags) : Good(hal, o)
    BY <2>2, OpenOK DEF OpenResult
  <2> QED
    BY <1>1, <2>1, <2>3
<1>4. CASE CallClose
  <2>1. PICK fd \in Opened : ProgramCalls(Close(hal, fd))
    BY <1>4 DEF CallClose
  <2>2. \A o \in Close(hal, fd) : Good(hal, o)
    BY <1>2, CloseOK, NothingNewLocked, NothingNewStd DEF Good
  <2> QED
    BY <1>1, <2>1, <2>2
<1>5. CASE CallRead
  <2>1. PICK fd \in Opened : ProgramCalls(Read(hal, fd))
    BY <1>5 DEF CallRead
  <2>2. \A o \in Read(hal, fd) : Good(hal, o)
    BY ReadOK, SameOK
  <2> QED
    BY <1>1, <2>1, <2>2
<1>6. CASE CallWrite
  <2>1. PICK fd \in Opened : ProgramCalls(Write(hal, fd))
    BY <1>6 DEF CallWrite
  <2>2. \A o \in Write(hal, fd) : Good(hal, o)
    BY WriteOK, SameOK
  <2> QED
    BY <1>1, <2>1, <2>2
<1>7. CASE CallLseek
  <2>1. PICK fd \in Opened : ProgramCalls(Lseek(hal, fd))
    BY <1>7 DEF CallLseek
  <2>2. \A o \in Lseek(hal, fd) : Good(hal, o)
    BY LseekOK, SameOK
  <2> QED
    BY <1>1, <2>1, <2>2
<1>8. CASE CallFstat
  <2>1. PICK fd \in Opened : ProgramCalls(Fstat(hal, fd))
    BY <1>8 DEF CallFstat
  <2>2. \A o \in Fstat(hal, fd) : Good(hal, o)
    BY FstatOK, SameOK
  <2> QED
    BY <1>1, <2>1, <2>2
<1>9. CASE CallIsatty
  <2>1. PICK fd \in Opened : ProgramCalls(Isatty(hal, fd))
    BY <1>9 DEF CallIsatty
  <2>2. \A o \in Isatty(hal, fd) : Good(hal, o)
    BY IsattyOK, SameOK
  <2> QED
    BY <1>1, <2>1, <2>2
<1>10. CASE CallIoctl
  <2>1. PICK fd \in Opened, req \in Requests : ProgramCalls(Ioctl(hal, fd, req))
    BY <1>10 DEF CallIoctl
  <2>2. \A o \in Ioctl(hal, fd, req) : Good(hal, o)
    BY <1>2, IoctlOK
  <2> QED
    BY <1>1, <2>1, <2>2
<1>11. CASE CallFcntl
  <2>1. PICK fd \in Opened, cmd \in {"F_GETFL", "F_SETFL", "other"}, flags \in Settings :
          ProgramCalls(Fcntl(hal, fd, cmd, flags))
    BY <1>11 DEF CallFcntl
  <2>2. \A o \in Fcntl(hal, fd, cmd, flags) : Good(hal, o)
    BY <1>2, FcntlOK
  <2> QED
    BY <1>1, <2>1, <2>2
<1>12. CASE CallStat
  <2>1. PICK name \in Names : ProgramCalls(Stat(hal, name))
    BY <1>12 DEF CallStat
  <2>2. \A o \in Stat(hal, name) : Good(hal, o)
    BY StatOK
  <2> QED
    BY <1>1, <2>1, <2>2
<1> QED
  BY <1>3, <1>4, <1>5, <1>6, <1>7, <1>8, <1>9, <1>10, <1>11, <1>12 DEF Program

\* alt_main: a device that is registered has no descriptor yet, so a failure
\* opens nothing; the redirection is the one step that reports no error.
LEMMA StartupOK ==
  ASSUME BootInv, Startup
  PROVE  PoolOK(hal') /\ StageOK' /\ (Running => StepOK \/ UNCHANGED <<hal, err>>)
<1> USE DEF BootInv
<1>1. CASE Register
  <2>1. PICK d : d = SysInit[Len(SysInit) - left + 1]
    OBVIOUS
  <2>2. d \in Devices
    BY <1>1, <2>1, BootAssumption DEF Register, StageOK
  <2>3. PICK o \in {IF d \in FileSystems THEN FsReg(hal, d) ELSE DevReg(hal, d)} :
          hal' = o.hal /\ err' = o.err
    BY <1>1, <2>1 DEF Register, Calls
  <2>4. PoolOK(hal')
    BY <2>2, <2>3, RegisterOK
  <2>5. StageOK' /\ ~ Running
    <3>1. stage = "sys_init" /\ left > 0 /\ left' = left - 1 /\ stage' = stage
      BY <1>1 DEF Register
    <3>2. Len(SysInit) \in Nat
      BY BootAssumption
    <3> QED
      BY <3>1, <3>2 DEF StageOK, Running
  <2> QED
    BY <2>4, <2>5
<1>2. CASE Redirect
  <2>1. PoolOK(hal')
    BY <1>2, IoRedirectOK DEF Redirect
  <2>2. StageOK' /\ ~ Running
    BY <1>2, BootAssumption DEF Redirect, StageOK, Running
  <2> QED
    BY <2>1, <2>2
<1>3. CASE RunOne
  <2>1. left > 0 /\ left' = left - 1 /\ stage' = stage /\ stage # "sys_init"
    BY <1>3 DEF RunOne
  <2> QED
    BY <1>3, <2>1 DEF RunOne, StageOK
<1>4. CASE EnterMain
  BY <1>4 DEF EnterMain, StageOK
<1>5. CASE Return
  <2>1. \A o \in Close(hal, 1) : Good(hal, o)
    BY FdsFacts, CloseOK, NothingNewLocked, NothingNewStd DEF Good
  <2>2. StepOK
    BY <1>5, <2>1, CallsOK DEF Return
  <2>3. StageOK'
    BY <1>5, BootAssumption DEF Return, StageOK
  <2> QED
    BY <2>2, <2>3 DEF StepOK
<1>6. CASE Exit
  BY <1>6 DEF Exit, StageOK
<1> QED
  BY <1>1, <1>2, <1>3, <1>4, <1>5, <1>6 DEF Startup

\* Every step keeps the invariant.
LEMMA BootNextOK ==
  ASSUME BootInv, [BootNext]_bootVars PROVE BootInv'
<1>1. CASE Startup
  BY <1>1, StartupOK DEF BootInv
<1>2. CASE Program
  BY <1>2, ProgramOK DEF BootInv, StepOK
<1>3. CASE UNCHANGED bootVars
  BY <1>3 DEF bootVars, BootInv, PoolOK, ListsOK, StageOK
<1> QED
  BY <1>1, <1>2, <1>3 DEF BootNext

\* From the empty pool, and whatever the startup code and the program call,
\* the invariant holds: the pool is well formed in every state.
THEOREM BootInvariant == BootSpec => []BootInv
<1> QED
  BY BootInitOK, BootNextOK, PTL DEF BootSpec

\* The lists and the pool keep their types, and the standard descriptors
\* always refer to a device, for any number of descriptors and any drivers
\* (alt_fd_list, alt_max_fd and alt_release_fd).
THEOREM FilesAlwaysTyped == BootSpec => []FilesTypeOK
<1>1. BootInv => FilesTypeOK
  <2> SUFFICES ASSUME BootInv PROVE FilesTypeOK
    OBVIOUS
  <2>1. ASSUME NEW i \in 0 .. 2 PROVE hal.alt_fd_list[i].dev # None
    <3>1. i \in Fds /\ ~ (i > 2)
      BY FdsFacts
    <3> QED
      BY <3>1 DEF BootInv, PoolOK, EntryOK
  <2> QED
    BY <2>1 DEF BootInv, PoolOK, PoolType, StageOK, FilesTypeOK
<1> QED
  BY <1>1, BootInvariant, PTL

\* The pool is always fit for the next call: whatever is opened, locked,
\* closed or fails, the free descriptors are clean, the scans that stop at
\* alt_max_fd reach every one in use, and only devices are locked.
THEOREM PoolAlwaysInOrder == BootSpec => []PoolInOrder
<1>1. BootInv => PoolInOrder
  BY DEF BootInv, PoolOK, EntryOK, PoolInOrder, FreeAreClean, HighWater, LocksAreOnDevices
<1> QED
  BY <1>1, BootInvariant, PTL

\* No call that fails leaves anything open that was not: alt_open gives its
\* descriptor back on every error path, and stat closes what it opened.
THEOREM FailuresNeverOpen == BootSpec => FailuresOpenNothing
<1>1. ASSUME BootInv, [BootNext]_bootVars
      PROVE  [err' # NoError /\ Running =>
                \A i \in Fds : hal'.alt_fd_list[i] \in {Free, hal.alt_fd_list[i]}]_bootVars
  <2>1. CASE UNCHANGED bootVars
    BY <2>1
  <2>2. CASE BootNext
    <3>1. Running => StepOK \/ UNCHANGED <<hal, err>>
      BY <1>1, <2>2, StartupOK, ProgramOK DEF BootNext
    <3> QED
      BY <3>1 DEF StepOK, NothingNew
  <2> QED
    BY <1>1, <2>1, <2>2
<1> QED
  BY <1>1, BootInvariant, PTL DEF BootSpec, FailuresOpenNothing

\* While a descriptor holds the lock of a device no open, stat or other call
\* makes another refer to it: alt_file_locked sees every lock there is.
THEOREM LockedAlwaysStaysClosed == BootSpec => LockedStaysClosed
<1>1. ASSUME BootInv, [BootNext]_bootVars
      PROVE  [\A i \in Fds :
                hal.alt_fd_list[i].dev = None /\ hal'.alt_fd_list[i].dev # None /\ Running =>
                  ~ Locked(hal'.alt_fd_list[i].dev)]_bootVars
  <2>1. CASE UNCHANGED bootVars
    BY <2>1
  <2>2. CASE BootNext
    <3>1. Running => StepOK \/ UNCHANGED <<hal, err>>
      BY <1>1, <2>2, StartupOK, ProgramOK DEF BootNext
    <3> QED
      BY <3>1 DEF StepOK, NoneLocked, LockedIn, Locked
  <2> QED
    BY <1>1, <2>1, <2>2
<1> QED
  BY <1>1, BootInvariant, PTL DEF BootSpec, LockedStaysClosed

\* The streams are right at first, at /dev/null, and after every step.
LEMMA StreamsStep ==
  /\ BootInit => StdOK(hal)
  /\ BootInv /\ StdOK(hal) /\ [BootNext]_bootVars => StdOK(hal')
<1>1. ASSUME BootInit PROVE StdOK(hal)
  <2>1. \A i \in {0, 1, 2} : hal.alt_fd_list[i] = [Free EXCEPT !.dev = Null]
    BY <1>1, FdsFacts DEF BootInit, PoolInit
  <2>2. [Free EXCEPT !.dev = Null].dev = Null
    BY DEF Free
  <2> QED
    BY <2>1, <2>2 DEF StdOK
<1>2. ASSUME BootInv, StdOK(hal), [BootNext]_bootVars PROVE StdOK(hal')
  <2>1. CASE Program
    BY <1>2, <2>1, ProgramOK, SameStreams DEF StepOK
  <2>2. CASE Startup
    <3>1. CASE Running
      BY <1>2, <2>2, <3>1, StartupOK, SameStreams DEF StepOK
    <3>2. CASE Redirect
      BY <1>2, <3>2, RedirectStreams DEF Redirect, BootInv
    <3>3. CASE Register
      <4>1. hal'.alt_fd_list = hal.alt_fd_list
        <5>1. PICK d, o : /\ o = IF d \in FileSystems THEN FsReg(hal, d) ELSE DevReg(hal, d)
                          /\ hal' = o.hal
          BY <3>3 DEF Register, Calls
        <5>2. hal \in PoolType
          BY <1>2 DEF BootInv, PoolOK
        <5>3. hal' \in {hal, WithDevs(hal, <<d>> \o hal.alt_dev_list),
                        WithFs(hal, <<d>> \o hal.alt_fs_list)}
          BY <5>1, ResultFacts DEF FsReg, DevReg, WithDevs, WithFs
        <5> QED
          BY <5>2, <5>3 DEF PoolType, WithDevs, WithFs
      <4> QED
        BY <1>2, <4>1 DEF StdOK
    <3>4. Running \/ Redirect \/ Register
      BY <2>2 DEF Startup, Running, RunOne, EnterMain, Return, Exit
    <3> QED
      BY <3>1, <3>2, <3>3, <3>4
  <2>3. CASE UNCHANGED bootVars
    BY <1>2, <2>3 DEF bootVars, StdOK
  <2> QED
    BY <1>2, <2>1, <2>2, <2>3 DEF BootNext
<1> QED
  BY <1>1, <1>2

\* From the redirection on the standard streams read and write their devices, as a
\* build with direct drivers does but for how a driver's error is reported, or are
\* at /dev/null because their device could not be opened: nothing the program
\* opens, closes, locks or fails moves them.
THEOREM StreamsAlwaysStay == BootSpec => []StreamsStay
<1>1. BootInit => StdOK(hal)
  BY StreamsStep
<1>2. BootInv /\ StdOK(hal) /\ [BootNext]_bootVars => StdOK(hal)'
  BY StreamsStep
<1>3. ASSUME StdOK(hal) PROVE StreamsStay
  <2>1. ASSUME Dev(hal, 0) # Null
        PROVE  Reaches(0) /\ Read(hal, 0) = {Reported(o) : o \in DirectRead(hal, 0)}
    <3>1. /\ Dev(hal, 0) = Std[0] /\ hal.alt_fd_list[0].access = "O_RDONLY"
      BY <1>3, <2>1 DEF StdOK, StdAccess, Dev
    <3>2. Has(Dev(hal, 0), "read")
      BY <2>1, <3>1, StreamsAssumption
    <3>3. Read(hal, 0) = Answers(hal, Std[0])
      BY <3>1, <3>2 DEF Read, Bad
    <3>4. DirectRead(hal, 0) = Passed(hal, Std[0])
      BY DEF DirectRead
    <3> QED
      BY <3>1, <3>3, <3>4 DEF Answers, Reaches
  <2>2. ASSUME NEW fd \in {1, 2}, Dev(hal, fd) # Null
        PROVE  Reaches(fd) /\ Write(hal, fd) = {Reported(o) : o \in DirectWrite(hal, fd)}
    <3>1. /\ Dev(hal, fd) = Std[fd] /\ hal.alt_fd_list[fd].access = "O_WRONLY"
      BY <1>3, <2>2 DEF StdOK, StdAccess, Dev
    <3>2. Has(Dev(hal, fd), "write")
      BY <2>2, <3>1, StreamsAssumption
    <3>3. Write(hal, fd) = Answers(hal, Std[fd])
      BY <3>1, <3>2 DEF Write, Writable, Bad
    <3>4. DirectWrite(hal, fd) = Passed(hal, Std[fd])
      BY DEF DirectWrite
    <3> QED
      BY <3>1, <3>3, <3>4 DEF Answers, Reaches
  <2> QED
    BY <2>1, <2>2 DEF StreamsStay
<1> QED
  BY <1>1, <1>2, <1>3, BootInvariant, PTL DEF BootSpec

-----------------------------------------------------------------------------
(* The heap. *)

Block == [at : Int, size : Nat, owner : {"program", "slab", "samples"}]

HeapType ==
  /\ heap_end \in Int /\ heap_end >= __alt_heap_start
  /\ stack_limit \in Int /\ sp \in Int
  /\ overflow \in BOOLEAN /\ odd \in BOOLEAN
  /\ blocks \in Seq(Block)

\* As long as every increment was of whole words, the heap ends at a word and the
\* stack limit has followed it: the two are only compared there.
LimitFollows == ~ odd => heap_end % WORD = 0 /\ stack_limit = heap_end

\* The blocks lie in the heap below `end', in the order they were handed out.
Apart(bs, end) ==
  /\ \A i, j \in DOMAIN bs : i < j => bs[i].at + bs[i].size <= bs[j].at
  /\ \A i \in DOMAIN bs :
       /\ bs[i].at % WORD = 0 /\ bs[i].at >= __alt_heap_start
       /\ bs[i].at + bs[i].size <= end

HeapInv ==
  /\ HeapType /\ LimitFollows /\ StackClear
  /\ Apart(blocks, heap_end) /\ heap_end <= Aligned(__alt_heap_limit)

-----------------------------------------------------------------------------
(* Alignment. *)

\* The word size is positive.
LEMMA WordFacts ==
  /\ WORD \in Nat \ {0} /\ __alt_heap_start \in Nat /\ __alt_heap_limit \in Nat
  /\ StackTop \in Nat /\ __alt_heap_start <= __alt_heap_limit
  /\ __alt_heap_limit <= StackTop /\ __alt_heap_start % WORD = 0
BY HeapAssumption

\* Aligning goes up to the next multiple of a word, and no farther.
LEMMA AlignedFacts ==
  ASSUME NEW a \in Int
  PROVE  /\ Aligned(a) \in Int /\ Aligned(a) % WORD = 0
         /\ Aligned(a) >= a /\ Aligned(a) <= a + WORD - 1
<1>1. WORD \in Nat \ {0}
  BY WordFacts
<1>2. PICK n \in Int : n = a + WORD - 1
  BY <1>1
<1>3. PICK q \in Int : q = n \div WORD
  BY <1>1, DivMod
<1>4. PICK r \in 0 .. WORD - 1 : r = n % WORD
  BY <1>1, DivMod
<1>5. n = WORD * q + r
  BY <1>1, <1>3, <1>4, DivMod
<1>6. PICK w \in Int : w = WORD * q
  BY <1>1
<1>7. Aligned(a) = w
  BY <1>1, <1>2, <1>3, <1>6 DEF Aligned
<1>8. w % WORD = 0
  BY <1>1, <1>6, Multiple
<1> QED
  BY <1>1, <1>2, <1>5, <1>6, <1>7, <1>8

\* A number without a remainder is so many words.
LEMMA Words ==
  ASSUME NEW a \in Int, a % WORD = 0 PROVE \E p \in Int : a = WORD * p
<1>1. WORD \in Nat \ {0}
  BY WordFacts
<1>2. PICK p \in Int : p = a \div WORD
  BY <1>1, DivMod
<1>3. a = WORD * p + (a % WORD)
  BY <1>1, <1>2, DivMod
<1>4. WORD * p \in Int
  BY <1>1
<1> QED
  BY <1>3, <1>4

\* Two multiples of a word are a word apart, if they are not the same.
LEMMA WordsApart ==
  ASSUME NEW a \in Int, NEW b \in Int, a % WORD = 0, b % WORD = 0, a < b
  PROVE  a + WORD <= b
<1>1. WORD \in Nat \ {0}
  BY WordFacts
<1>4. PICK p \in Int : a = WORD * p
  BY Words
<1>5. PICK q \in Int : b = WORD * q
  BY Words
<1>6. p < q
  <2>1. SUFFICES ASSUME q <= p PROVE FALSE
    OBVIOUS
  <2>2. WORD * q <= WORD * p
    BY <1>1, <2>1
  <2> QED
    BY <1>4, <1>5, <2>2
<1>7. WORD * (p + 1) <= WORD * q
  BY <1>1, <1>6
<1>8. WORD * (p + 1) = WORD * p + WORD
  BY <1>1
<1> QED
  BY <1>4, <1>5, <1>7, <1>8

\* An address that is aligned stays where it is.
LEMMA AlignedWord ==
  ASSUME NEW a \in Int, a % WORD = 0 PROVE Aligned(a) = a
<1>1. /\ Aligned(a) \in Int /\ Aligned(a) % WORD = 0
      /\ Aligned(a) >= a /\ Aligned(a) <= a + WORD - 1
  BY AlignedFacts
<1>2. ~ (a < Aligned(a))
  <2>1. SUFFICES ASSUME a < Aligned(a) PROVE FALSE
    OBVIOUS
  <2>2. a + WORD <= Aligned(a)
    BY <1>1, <2>1, WordsApart
  <2> QED
    BY <1>1, <2>2, WordFacts
<1> QED
  BY <1>1, <1>2

\* What is not above a multiple of a word is not above it once aligned.
LEMMA AlignedBelow ==
  ASSUME NEW a \in Int, NEW b \in Int, b % WORD = 0, a <= b
  PROVE  Aligned(a) <= b
<1>1. /\ Aligned(a) \in Int /\ Aligned(a) % WORD = 0
      /\ Aligned(a) >= a /\ Aligned(a) <= a + WORD - 1
  BY AlignedFacts
<1>2. SUFFICES ASSUME b < Aligned(a) PROVE FALSE
  BY <1>1
<1>3. b + WORD <= Aligned(a)
  BY <1>1, <1>2, WordsApart
<1> QED
  BY <1>1, <1>3, WordFacts

\* Sums and differences of whole words are whole words.
LEMMA WordSum ==
  ASSUME NEW a \in Int, NEW b \in Int, a % WORD = 0, b % WORD = 0
  PROVE  (a + b) % WORD = 0
<1>1. WORD \in Nat \ {0}
  BY WordFacts
<1>4. PICK p \in Int : a = WORD * p
  BY Words
<1>5. PICK q \in Int : b = WORD * q
  BY Words
<1>6. WORD * (p + q) = WORD * p + WORD * q
  BY <1>1
<1>7. a + b = WORD * (p + q)
  BY <1>4, <1>5, <1>6
<1>8. (WORD * (p + q)) % WORD = 0
  BY <1>1, Multiple
<1> QED
  BY <1>7, <1>8

-----------------------------------------------------------------------------
(* The blocks. *)

\* The blocks that a call returns or shortens keep apart.
LEMMA Handed ==
  ASSUME HeapInv, NEW incr \in Int, incr > 0, NEW owner \in {"program", "slab", "samples"},
         NEW base, base = Aligned(heap_end), NEW bs, bs = BlocksAfter(base, incr, owner)
  PROVE  bs \in Seq(Block) /\ Apart(bs, base + incr)
<1>1. PICK b : b = [at |-> base, size |-> incr, owner |-> owner]
  OBVIOUS
<1>2. heap_end \in Int /\ heap_end >= __alt_heap_start /\ blocks \in Seq(Block)
  BY DEF HeapInv, HeapType
<1>3. base \in Int /\ base % WORD = 0 /\ base >= heap_end
  BY <1>2, AlignedFacts
<1>4. b \in Block /\ b.at = base /\ b.size = incr
  BY <1>1, <1>3 DEF Block
<1>5. bs = Append(blocks, b)
  BY <1>1 DEF BlocksAfter
<1>6. bs \in Seq(Block)
  BY <1>2, <1>4, <1>5
<1>7. Apart(blocks, heap_end)
  BY DEF HeapInv
<1>8. DOMAIN bs = 1 .. Len(blocks) + 1 /\ Len(blocks) \in Nat /\ DOMAIN blocks = 1 .. Len(blocks)
  BY <1>2, <1>4, <1>5
<1>9. ASSUME NEW i \in DOMAIN bs
      PROVE  \/ i \in DOMAIN blocks /\ bs[i] = blocks[i]
             \/ i = Len(blocks) + 1 /\ bs[i] = b
  BY <1>2, <1>4, <1>5, <1>8
<1>10. ASSUME NEW i \in DOMAIN blocks PROVE blocks[i].at \in Int /\ blocks[i].size \in Nat
  <2>1. blocks[i] \in Block
    BY <1>2
  <2> QED
    BY <2>1 DEF Block
<1>11. ASSUME NEW i \in DOMAIN bs, NEW j \in DOMAIN bs, i < j
       PROVE  bs[i].at + bs[i].size <= bs[j].at
  <2>1. i \in DOMAIN blocks /\ bs[i] = blocks[i]
    BY <1>8, <1>9, <1>11
  <2>2. CASE j \in DOMAIN blocks /\ bs[j] = blocks[j]
    BY <1>7, <1>11, <2>1, <2>2 DEF Apart
  <2>3. CASE bs[j] = b
    <3>1. bs[i].at + bs[i].size <= heap_end
      BY <1>7, <2>1 DEF Apart
    <3>2. bs[i].at \in Int /\ bs[i].size \in Nat
      BY <1>10, <2>1
    <3> QED
      BY <1>2, <1>3, <1>4, <2>3, <3>1, <3>2
  <2> QED
    BY <1>9, <2>2, <2>3
<1>12. ASSUME NEW i \in DOMAIN bs
       PROVE  /\ bs[i].at % WORD = 0 /\ bs[i].at >= __alt_heap_start
              /\ bs[i].at + bs[i].size <= base + incr
  <2>1. CASE i \in DOMAIN blocks /\ bs[i] = blocks[i]
    <3>1. /\ blocks[i].at % WORD = 0 /\ blocks[i].at >= __alt_heap_start
          /\ blocks[i].at + blocks[i].size <= heap_end
      BY <1>7, <2>1 DEF Apart
    <3>2. blocks[i].at \in Int /\ blocks[i].size \in Nat
      BY <1>10, <2>1
    <3>3. blocks[i].at + blocks[i].size <= base + incr
      BY <1>2, <1>3, <3>1, <3>2
    <3> QED
      BY <2>1, <3>1, <3>3
  <2>2. CASE bs[i] = b
    <3>1. base >= __alt_heap_start
      BY <1>2, <1>3, WordFacts
    <3>2. base + incr <= base + incr
      BY <1>3
    <3> QED
      BY <1>3, <1>4, <2>2, <3>1, <3>2
  <2> QED
    BY <1>9, <2>1, <2>2
<1> QED
  BY <1>6, <1>11, <1>12 DEF Apart

\* Giving memory back ends no lower than where the memory began.
LEMMA TakenBack ==
  ASSUME HeapInv, NEW incr \in Int, incr < 0, GivesBack(incr), NEW owner,
         NEW base, base = Aligned(heap_end), NEW bs, bs = BlocksAfter(base, incr, owner)
  PROVE  /\ bs \in Seq(Block) /\ Apart(bs, base + incr)
         /\ base + incr >= __alt_heap_start
<1>1. heap_end \in Int /\ blocks \in Seq(Block) /\ blocks # <<>>
  BY DEF HeapInv, HeapType, GivesBack
<1>2. base \in Int
  BY <1>1, AlignedFacts
<1>3. PICK n \in Nat : n = Len(blocks) /\ n > 0 /\ DOMAIN blocks = 1 .. n
  BY <1>1
<1>4. PICK b \in Block : b = Newest /\ b = blocks[n]
  BY <1>1, <1>3 DEF Newest
<1>5. b.at \in Int /\ b.size \in Nat /\ b.at + b.size = base /\ b.size >= -incr
  BY <1>4 DEF Block, GivesBack
<1>6. Apart(blocks, heap_end)
  BY DEF HeapInv
<1>7. PICK older \in Seq(Block) : /\ older = Older /\ DOMAIN older = 1 .. n - 1 /\ Len(older) = n - 1
                                 /\ \A i \in 1 .. n - 1 : older[i] = blocks[i]
  <2>1. PICK o : o = SubSeq(blocks, 1, n - 1)
    OBVIOUS
  <2>2. /\ o \in Seq(Block) /\ Len(o) = n - 1
        /\ \A i \in 1 .. n - 1 : o[i] = blocks[i]
    BY <1>1, <1>3, <2>1
  <2>3. DOMAIN o = 1 .. n - 1
    BY <2>2
  <2>4. o = Older
    BY <1>3, <2>1 DEF Older
  <2> QED
    BY <2>2, <2>3, <2>4
<1>8. bs = older \o Shortened(b, -incr)
  BY <1>4, <1>7 DEF BlocksAfter
<1>9. ASSUME NEW i \in 1 .. n - 1
      PROVE  /\ older[i].at \in Int /\ older[i].size \in Nat
             /\ older[i].at % WORD = 0 /\ older[i].at >= __alt_heap_start
             /\ older[i].at + older[i].size <= b.at
  <2>1. i \in DOMAIN blocks /\ n \in DOMAIN blocks /\ i < n
    BY <1>3
  <2>2. older[i] = blocks[i]
    BY <1>7
  <2>3. blocks[i] \in Block
    BY <1>1, <2>1
  <2>4. /\ blocks[i].at % WORD = 0 /\ blocks[i].at >= __alt_heap_start
        /\ blocks[i].at + blocks[i].size <= blocks[n].at
    BY <1>6, <2>1 DEF Apart
  <2> QED
    BY <1>4, <2>2, <2>3, <2>4 DEF Block
<1>10. b.at % WORD = 0 /\ b.at >= __alt_heap_start
  BY <1>3, <1>4, <1>6 DEF Apart
<1>11. \A i, j \in 1 .. n - 1 : i < j => older[i].at + older[i].size <= older[j].at
  <2>1. SUFFICES ASSUME NEW i \in 1 .. n - 1, NEW j \in 1 .. n - 1, i < j
                 PROVE  older[i].at + older[i].size <= older[j].at
    OBVIOUS
  <2>2. i \in DOMAIN blocks /\ j \in DOMAIN blocks
    BY <1>3
  <2>3. blocks[i].at + blocks[i].size <= blocks[j].at
    BY <1>6, <2>1, <2>2 DEF Apart
  <2> QED
    BY <1>7, <2>3
<1>12. CASE b.size = -incr
  <2>1. base + incr = b.at
    BY <1>2, <1>5, <1>12
  <2>2. bs = older
    BY <1>7, <1>8, <1>12 DEF Shortened
  <2>3. Apart(older, b.at)
    BY <1>7, <1>9, <1>11 DEF Apart
  <2> QED
    BY <1>10, <2>1, <2>2, <2>3
<1>13. CASE b.size # -incr
  <2>1. PICK c : c = [b EXCEPT !.size = b.size + incr]
    OBVIOUS
  <2>2. c \in Block /\ c.at = b.at /\ c.size = b.size + incr
    <3>1. b.size + incr \in Nat
      BY <1>5
    <3> QED
      BY <1>4, <2>1, <3>1 DEF Block
  <2>3. c = [b EXCEPT !.size = b.size - (-incr)]
    BY <1>5, <2>1
  <2>4. bs = older \o <<c>>
    BY <1>8, <1>13, <2>3 DEF Shortened
  <2>5. bs \in Seq(Block) /\ DOMAIN bs = 1 .. n
    BY <1>3, <1>7, <2>2, <2>4
  <2>6. ASSUME NEW i \in 1 .. n
        PROVE  \/ i \in 1 .. n - 1 /\ bs[i] = older[i]
               \/ i = n /\ bs[i] = c
    BY <1>3, <1>7, <2>2, <2>4
  <2>7. c.at + c.size = base + incr
    BY <1>2, <1>5, <2>2
  <2>8. base + incr >= b.at
    BY <1>2, <1>5
  <2>9. ASSUME NEW i \in 1 .. n, NEW j \in 1 .. n, i < j
        PROVE  bs[i].at + bs[i].size <= bs[j].at
    <3>1. i \in 1 .. n - 1 /\ bs[i] = older[i]
      BY <1>3, <2>6, <2>9
    <3>2. CASE j \in 1 .. n - 1 /\ bs[j] = older[j]
      BY <1>11, <2>9, <3>1, <3>2
    <3>3. CASE bs[j] = c
      BY <1>9, <2>2, <3>1, <3>3
    <3> QED
      BY <2>6, <3>2, <3>3
  <2>10. ASSUME NEW i \in 1 .. n
         PROVE  /\ bs[i].at % WORD = 0 /\ bs[i].at >= __alt_heap_start
                /\ bs[i].at + bs[i].size <= base + incr
    <3>1. CASE i \in 1 .. n - 1 /\ bs[i] = older[i]
      <4>1. older[i].at + older[i].size <= base + incr
        <5>1. /\ older[i].at \in Int /\ older[i].size \in Nat
              /\ older[i].at + older[i].size <= b.at
          BY <1>9, <3>1
        <5>2. PICK last \in Int : last = older[i].at + older[i].size
          BY <5>1
        <5>3. PICK top \in Int : top = b.at
          BY <1>5
        <5>4. PICK end \in Int : end = base + incr
          BY <1>2
        <5>5. last <= top /\ top <= end
          BY <2>8, <5>1, <5>2, <5>3, <5>4
        <5> QED
          BY <5>2, <5>4, <5>5
      <4> QED
        BY <1>9, <3>1, <4>1
    <3>2. CASE bs[i] = c
      <4>1. c.at + c.size <= base + incr
        BY <1>2, <2>7
      <4> QED
        BY <1>10, <2>2, <3>2, <4>1
    <3> QED
      BY <2>6, <3>1, <3>2
  <2>11. Apart(bs, base + incr)
    BY <2>5, <2>9, <2>10 DEF Apart
  <2>12. base + incr >= __alt_heap_start
    BY <1>2, <1>5, <1>10, <2>8, WordFacts
  <2> QED
    BY <2>5, <2>11, <2>12
<1> QED
  BY <1>12, <1>13

-----------------------------------------------------------------------------
(* The steps of the heap. *)

\* The initial states satisfy the invariant.
LEMMA HeapInitOK == HeapInit => HeapInv
<1> SUFFICES ASSUME HeapInit PROVE HeapInv
  OBVIOUS
<1>1. /\ heap_end = __alt_heap_start /\ stack_limit = __alt_heap_start
      /\ sp = StackTop /\ overflow = FALSE /\ odd = FALSE /\ blocks = <<>>
  BY DEF HeapInit
<1>2. HeapType
  <2>1. overflow \in BOOLEAN /\ odd \in BOOLEAN
    BY <1>1
  <2>2. blocks \in Seq(Block)
    BY <1>1
  <2>3. heap_end \in Int /\ heap_end >= __alt_heap_start /\ stack_limit \in Int /\ sp \in Int
    BY <1>1, WordFacts
  <2> QED
    BY <2>1, <2>2, <2>3 DEF HeapType
<1>3. LimitFollows
  BY <1>1, WordFacts DEF LimitFollows
<1>4. StackClear
  BY <1>1, WordFacts DEF StackClear
<1>5. Apart(blocks, heap_end)
  BY <1>1 DEF Apart
<1>6. heap_end <= Aligned(__alt_heap_limit)
  <2>1. __alt_heap_limit \in Int
    BY WordFacts
  <2>2. Aligned(__alt_heap_limit) \in Int /\ Aligned(__alt_heap_limit) >= __alt_heap_limit
    BY <2>1, AlignedFacts
  <2> QED
    BY <1>1, <2>2, WordFacts
<1> QED
  BY <1>2, <1>3, <1>4, <1>5, <1>6 DEF HeapInv

\* A call of sbrk for which there is room.
LEMMA ExtendOK ==
  ASSUME HeapInv, NEW incr \in Int, GivesBack(incr),
         NEW owner \in {"program", "slab", "samples"}, Extend(incr, owner)
  PROVE  HeapInv'
<1>1. PICK base : base = Aligned(heap_end)
  OBVIOUS
<1>2. PICK bs : bs = BlocksAfter(base, incr, owner)
  OBVIOUS
<1>3. /\ base + incr <= __alt_heap_limit
      /\ heap_end' = base + incr /\ sp' = sp /\ blocks' = bs
      /\ overflow' = (overflow \/ (stack_limit = base /\ sp <= base + incr))
      /\ stack_limit' = (IF stack_limit = base THEN base + incr ELSE stack_limit)
      /\ odd' = (odd \/ incr % WORD # 0)
  BY <1>1, <1>2 DEF Extend, Fits
<1>4. /\ heap_end \in Int /\ heap_end >= __alt_heap_start /\ stack_limit \in Int /\ sp \in Int
      /\ overflow \in BOOLEAN /\ odd \in BOOLEAN /\ blocks \in Seq(Block)
  BY DEF HeapInv, HeapType
<1>5. base \in Int /\ base % WORD = 0 /\ base >= heap_end
  BY <1>1, <1>4, AlignedFacts
<1>6. bs \in Seq(Block) /\ Apart(bs, base + incr) /\ base + incr >= __alt_heap_start
  <2>1. CASE incr > 0
    <3>1. base + incr >= __alt_heap_start
      BY <1>4, <1>5, <2>1, WordFacts
    <3> QED
      BY <1>1, <1>2, <2>1, <3>1, Handed
  <2>2. CASE incr < 0
    BY <1>1, <1>2, <2>2, TakenBack
  <2>3. CASE incr = 0
    <3>1. bs = blocks /\ base + incr = base
      BY <1>2, <1>5, <2>3 DEF BlocksAfter
    <3>2. Apart(blocks, heap_end)
      BY DEF HeapInv
    <3>3. ASSUME NEW i \in DOMAIN blocks PROVE blocks[i].at + blocks[i].size <= base
      <4>1. blocks[i] \in Block
        BY <1>4
      <4>2. blocks[i].at \in Int /\ blocks[i].size \in Nat
        BY <4>1 DEF Block
      <4>3. blocks[i].at + blocks[i].size <= heap_end
        BY <3>2 DEF Apart
      <4> QED
        BY <1>4, <1>5, <4>2, <4>3
    <3>4. Apart(blocks, base)
      BY <3>2, <3>3 DEF Apart
    <3>5. base >= __alt_heap_start
      BY <1>4, <1>5, WordFacts
    <3> QED
      BY <1>4, <3>1, <3>4, <3>5
  <2> QED
    BY <2>1, <2>2, <2>3
<1>7. HeapType'
  <2>1. odd' \in BOOLEAN /\ overflow' \in BOOLEAN
    BY <1>3
  <2>2. stack_limit' \in Int
    BY <1>3, <1>4, <1>5
  <2>3. heap_end' \in Int
    BY <1>3, <1>5
  <2> QED
    BY <1>3, <1>4, <1>6, <2>1, <2>2, <2>3 DEF HeapType
<1>8. ASSUME ~ odd'
      PROVE  /\ base = heap_end /\ stack_limit = base
             /\ (base + incr) % WORD = 0 /\ ~ odd
  <2>1. ~ odd /\ incr % WORD = 0
    BY <1>3, <1>8
  <2>2. heap_end % WORD = 0 /\ stack_limit = heap_end
    BY <2>1 DEF HeapInv, LimitFollows
  <2>3. base = heap_end
    BY <1>1, <1>4, <2>2, AlignedWord
  <2>4. (base + incr) % WORD = 0
    BY <1>5, <2>1, WordSum
  <2> QED
    BY <2>1, <2>2, <2>3, <2>4
<1>9. LimitFollows'
  BY <1>3, <1>8 DEF LimitFollows
<1>10. StackClear'
  <2>1. SUFFICES ASSUME ~ odd', ~ overflow' PROVE heap_end' <= sp'
    BY DEF StackClear
  <2>2. ~ (sp <= base + incr)
    BY <1>3, <1>8, <2>1
  <2> QED
    BY <1>3, <1>4, <1>5, <2>2
<1>11. heap_end' <= Aligned(__alt_heap_limit)
  <2>1. __alt_heap_limit \in Int
    BY WordFacts
  <2>2. Aligned(__alt_heap_limit) \in Int /\ Aligned(__alt_heap_limit) >= __alt_heap_limit
    BY <2>1, AlignedFacts
  <2> QED
    BY <1>3, <1>5, <2>1, <2>2
<1>12. Apart(blocks, heap_end)'
  BY <1>3, <1>6 DEF Apart
<1>13. (heap_end <= Aligned(__alt_heap_limit))'
  BY <1>11 DEF Aligned
<1> QED
  BY <1>7, <1>9, <1>10, <1>12, <1>13 DEF HeapInv

\* A call of sbrk for which there is none aligns the end of the heap.
LEMMA RefuseOK ==
  ASSUME HeapInv, NEW incr, Refuse(incr) PROVE HeapInv'
<1>1. /\ heap_end' = Aligned(heap_end) /\ stack_limit' = stack_limit /\ sp' = sp
      /\ overflow' = overflow /\ odd' = odd /\ blocks' = blocks
  BY DEF Refuse
<1>2. /\ heap_end \in Int /\ heap_end >= __alt_heap_start /\ blocks \in Seq(Block)
  BY DEF HeapInv, HeapType
<1>3. /\ Aligned(heap_end) \in Int /\ Aligned(heap_end) >= heap_end
      /\ Aligned(heap_end) % WORD = 0
  BY <1>2, AlignedFacts
<1>4. HeapType'
  <2>1. heap_end' >= __alt_heap_start
    BY <1>1, <1>2, <1>3, WordFacts
  <2> QED
    BY <1>1, <1>3, <2>1 DEF HeapInv, HeapType
<1>5. ~ odd => Aligned(heap_end) = heap_end
  BY <1>2, AlignedWord DEF HeapInv, LimitFollows
<1>6. LimitFollows' /\ StackClear'
  BY <1>1, <1>5 DEF HeapInv, LimitFollows, StackClear
<1>7. ASSUME NEW i \in DOMAIN blocks
      PROVE  blocks[i].at + blocks[i].size <= Aligned(heap_end)
  <2>1. blocks[i] \in Block
    BY <1>2
  <2>2. blocks[i].at \in Int /\ blocks[i].size \in Nat
    BY <2>1 DEF Block
  <2>3. blocks[i].at + blocks[i].size <= heap_end
    BY DEF HeapInv, Apart
  <2> QED
    BY <1>2, <1>3, <2>2, <2>3
<1>8. Apart(blocks, heap_end)'
  BY <1>1, <1>7 DEF HeapInv, Apart
<1>9. heap_end' <= Aligned(__alt_heap_limit)
  <2>1. __alt_heap_limit \in Int
    BY WordFacts
  <2>2. Aligned(__alt_heap_limit) \in Int /\ Aligned(__alt_heap_limit) % WORD = 0
    BY <2>1, AlignedFacts
  <2>3. heap_end <= Aligned(__alt_heap_limit)
    BY DEF HeapInv
  <2> QED
    BY <1>1, <1>2, <2>2, <2>3, AlignedBelow
<1>10. (heap_end <= Aligned(__alt_heap_limit))'
  BY <1>9 DEF Aligned
<1> QED
  BY <1>4, <1>6, <1>8, <1>10 DEF HeapInv

\* A function is entered or left.
LEMMA MoveStackOK ==
  ASSUME HeapInv, MoveStack PROVE HeapInv'
<1>1. /\ UNCHANGED <<heap_end, stack_limit, odd, blocks>>
      /\ sp' \in Int /\ overflow' = (sp' < stack_limit)
  <2>1. PICK n \in {-WORD, WORD} : sp + n \in 0 .. StackTop /\ sp' = sp + n
                                   /\ overflow' = (sp' < stack_limit)
    BY DEF MoveStack
  <2> QED
    BY <2>1 DEF MoveStack
<1>2. HeapType'
  BY <1>1 DEF HeapInv, HeapType
<1>3. StackClear'
  <2>1. SUFFICES ASSUME ~ odd', ~ overflow' PROVE heap_end' <= sp'
    BY DEF StackClear
  <2>2. ~ (sp' < stack_limit) /\ stack_limit = heap_end
    BY <1>1, <2>1 DEF HeapInv, LimitFollows
  <2>3. heap_end \in Int
    BY DEF HeapInv, HeapType
  <2> QED
    BY <1>1, <2>2, <2>3
<1> QED
  BY <1>1, <1>2, <1>3 DEF HeapInv, LimitFollows, Apart, Aligned

\* A step that leaves the heap alone keeps its invariant.
LEMMA HeapSameOK ==
  ASSUME HeapInv, UNCHANGED heapVars PROVE HeapInv'
BY DEF heapVars, HeapInv, HeapType, LimitFollows, StackClear, Apart, Aligned

\* alt_sbrk keeps the invariant.
LEMMA SbrkOK ==
  ASSUME HeapInv, ALT_SBRK PROVE HeapInv'
<1>1. PICK incr \in Increments :
        GivesBack(incr) /\ (Extend(incr, "program") \/ Refuse(incr))
  BY DEF ALT_SBRK
<1>2. incr \in Int
  BY HeapAssumption
<1> QED
  BY <1>1, <1>2, ExtendOK, RefuseOK

\* The profiler asks for memory, and never gives any back.
LEMMA ProfileOK ==
  ASSUME HeapInv, [ProfileNext]_profileVars PROVE HeapInv'
<1>1. ASSUME NEW n, mcount_allocate(n) PROVE HeapInv'
  <2>1. UNCHANGED heapVars \/ Extend(MCOUNT_SLAB_INCREMENT, "slab")
    BY <1>1 DEF mcount_allocate
  <2>2. MCOUNT_SLAB_INCREMENT \in Int /\ GivesBack(MCOUNT_SLAB_INCREMENT)
    BY ProfileAssumption DEF GivesBack
  <2> QED
    BY <2>1, <2>2, ExtendOK, HeapSameOK
<1>2. CASE Initialise
  <2>1. UNCHANGED heapVars \/ Extend(Histogram, "samples")
    BY <1>2 DEF Initialise
  <2>2. Histogram \in Int /\ GivesBack(Histogram)
    BY ProfileAssumption DEF GivesBack
  <2> QED
    BY <2>1, <2>2, ExtendOK, HeapSameOK
<1>3. CASE Record
  <2>1. \E n \in {1, 2} : mcount_allocate(n)
    BY <1>3 DEF Record, Insert
  <2> QED
    BY <1>1, <2>1
<1>4. CASE ProgramMemory
  BY <1>4, SbrkOK DEF ProgramMemory
<1>5. CASE Enter \/ Store \/ Look \/ Claim \/ ClockStarts \/ UNCHANGED profileVars
  <2>1. UNCHANGED heapVars
    BY <1>5 DEF Enter, Store, Look, Claim, ClockStarts, profileVars
  <2> QED
    BY <2>1, HeapSameOK
<1> QED
  BY <1>2, <1>3, <1>4, <1>5 DEF ProfileNext

\* The invariant implies that the heap is in order.
LEMMA HeapInvOrder == HeapInv => HeapInOrder
BY DEF HeapInv, Apart, HeapInOrder, BlocksApart

\* Whatever a program asks of sbrk, gives back and is refused, the blocks it holds
\* stay apart and in the heap, and the heap stays below a stack that has not been
\* reported, as long as increments are whole words (alt_sbrk.c).
THEOREM HeapAlwaysInOrder == HeapSpec => []HeapInOrder
<1>1. HeapInv /\ [HeapNext]_heapVars => HeapInv'
  BY SbrkOK, MoveStackOK, HeapSameOK DEF HeapNext
<1> QED
  BY <1>1, HeapInitOK, HeapInvOrder, PTL DEF HeapSpec

\* The same when the profiler takes its histogram and its slabs from sbrk between
\* the program's calls, from the program or from interrupt routines
\* (alt_gmon.c: mcount_allocate, nios2_pcsample_init).
THEOREM ProfiledHeapInOrder == ProfileSpec => []HeapInOrder
<1>1. ProfileInit => HeapInv
  BY HeapInitOK DEF ProfileInit
<1>2. HeapInv /\ [ProfileNext]_profileVars => HeapInv'
  BY ProfileOK
<1> QED
  BY <1>1, <1>2, HeapInvOrder, PTL DEF ProfileSpec

-----------------------------------------------------------------------------
(* Sums over finite sets. *)

Pick(T) == CHOOSE x \in T : TRUE

\* s is the function of the subsets of S that Sum is defined with.
IsSum(f, S, s) ==
  s = [T \in SUBSET S |-> IF T = {} THEN 0 ELSE f[Pick(T)] + s[T \ {Pick(T)}]]

\* It is so on the sets of at most n elements of S.
IsSumTo(f, S, n, s) ==
  s = [T \in {U \in SUBSET S : Cardinality(U) <= n} |->
         IF T = {} THEN 0 ELSE f[Pick(T)] + s[T \ {Pick(T)}]]

\* What Sum chooses is such a function, if there is one.
LEMMA SumChosen ==
  ASSUME NEW f, NEW S, NEW g, IsSum(f, S, g)
  PROVE  \E h : IsSum(f, S, h) /\ Sum(f, S) = h[S]
<1> DEFINE h == CHOOSE s : s = [T \in SUBSET S |-> IF T = {} THEN 0
                                ELSE LET x == CHOOSE x \in T : TRUE IN f[x] + s[T \ {x}]]
<1>1. IsSum(f, S, h)
  BY DEF IsSum, Pick
<1>2. Sum(f, S) = h[S]
  BY DEF Sum
<1> QED
  BY <1>1, <1>2

\* A set that is not empty has what CHOOSE picks; without it, it is smaller by one.
LEMMA PickSmaller ==
  ASSUME NEW S, IsFiniteSet(S), NEW T \in SUBSET S, T # {}
  PROVE  /\ Pick(T) \in T /\ T \ {Pick(T)} \in SUBSET S
         /\ IsFiniteSet(T) /\ Cardinality(T) \in Nat \ {0}
         /\ Cardinality(T \ {Pick(T)}) = Cardinality(T) - 1
<1>1. Pick(T) \in T
  BY DEF Pick
<1>2. IsFiniteSet(T)
  BY FS_Subset
<1>3. Cardinality(T) \in Nat /\ Cardinality(T) # 0
  BY <1>2, FS_CardinalityType, FS_EmptySet
<1>4. Cardinality(T \ {Pick(T)}) = Cardinality(T) - 1
  BY <1>1, <1>2, FS_RemoveElement
<1> QED
  BY <1>1, <1>2, <1>3, <1>4

\* From the sets of at most n elements to those of one more.
LEMMA SumFurther ==
  ASSUME NEW f, NEW S, IsFiniteSet(S), NEW n \in Nat, NEW g, IsSumTo(f, S, n, g)
  PROVE  \E h : IsSumTo(f, S, n + 1, h)
<1> DEFINE D(k) == {U \in SUBSET S : Cardinality(U) <= k}
           h == [T \in D(n + 1) |-> IF T = {} THEN 0 ELSE f[Pick(T)] + g[T \ {Pick(T)}]]
<1>1. ASSUME NEW T \in D(n + 1), T # {}
      PROVE  h[T \ {Pick(T)}] = g[T \ {Pick(T)}]
  <2>1. PICK U : U = T \ {Pick(T)}
    OBVIOUS
  <2>2. U \in SUBSET S /\ Cardinality(U) <= n /\ IsFiniteSet(U) /\ Cardinality(U) \in Nat
    BY <1>1, <2>1, PickSmaller, FS_Subset, FS_CardinalityType
  <2>3. U \in D(n) /\ U \in D(n + 1)
    BY <2>2
  <2>4. h[U] = IF U = {} THEN 0 ELSE f[Pick(U)] + g[U \ {Pick(U)}]
    BY <2>3
  <2>5. g[U] = IF U = {} THEN 0 ELSE f[Pick(U)] + g[U \ {Pick(U)}]
    BY <2>3 DEF IsSumTo
  <2> QED
    BY <2>1, <2>4, <2>5
<1>2. h = [T \in D(n + 1) |-> IF T = {} THEN 0 ELSE f[Pick(T)] + h[T \ {Pick(T)}]]
  <2> HIDE DEF D
  <2>1. \A T \in D(n + 1) : h[T] = IF T = {} THEN 0 ELSE f[Pick(T)] + h[T \ {Pick(T)}]
    BY <1>1
  <2>2. h = [T \in D(n + 1) |-> h[T]]
    OBVIOUS
  <2> HIDE DEF h
  <2> QED
    BY <2>1, <2>2
<1>3. IsSumTo(f, S, n + 1, h)
  BY <1>2, Zenon DEF IsSumTo
<1> QED
  BY <1>3

\* A finite set has such a function.
LEMMA SumExists ==
  ASSUME NEW f, NEW S, IsFiniteSet(S) PROVE \E h : IsSum(f, S, h)
<1> DEFINE N == {n \in Nat : \E h : IsSumTo(f, S, n, h)}
<1>1. 0 \in N
  <2> DEFINE Z == {U \in SUBSET S : Cardinality(U) <= 0}
             h == [T \in Z |-> 0]
  <2>1. \A U \in Z : U = {}
    <3>1. SUFFICES ASSUME NEW U \in Z PROVE U = {}
      OBVIOUS
    <3>2. IsFiniteSet(U) /\ Cardinality(U) \in Nat
      BY FS_Subset, FS_CardinalityType
    <3> QED
      BY <3>2, FS_EmptySet
  <2>2. h = [T \in Z |-> IF T = {} THEN 0 ELSE f[Pick(T)] + h[T \ {Pick(T)}]]
    <3> HIDE DEF Z
    <3> QED
      BY <2>1
  <2>3. IsSumTo(f, S, 0, h)
    BY <2>2, Zenon DEF IsSumTo
  <2> QED
    BY <2>3
<1>2. \A n \in N : n + 1 \in N
  BY SumFurther
<1>3. N = Nat
  <2> HIDE DEF N
  <2>1. N \in SUBSET Nat
    BY DEF N
  <2> QED
    BY <1>1, <1>2, <2>1, Induction
<1>4. Cardinality(S) \in N
  BY <1>3, FS_CardinalityType
<1>5. PICK h : IsSumTo(f, S, Cardinality(S), h)
  BY <1>4
<1>6. {U \in SUBSET S : Cardinality(U) <= Cardinality(S)} = SUBSET S
  BY FS_Subset
<1>7. IsSum(f, S, h)
  BY <1>5, <1>6, Zenon DEF IsSum, IsSumTo
<1> QED
  BY <1>7

\* Two of them agree on the sets on which their summands agree.
LEMMA SumAgrees ==
  ASSUME NEW f, NEW g, NEW A, NEW B, NEW h, NEW k, IsFiniteSet(A),
         IsSum(f, A, h), IsSum(g, B, k),
         NEW T \in SUBSET A, T \in SUBSET B, \A c \in T : f[c] = g[c]
  PROVE  h[T] = k[T]
<1>h. \A U \in SUBSET A : h[U] = IF U = {} THEN 0 ELSE f[Pick(U)] + h[U \ {Pick(U)}]
  BY DEF IsSum
<1>k. \A U \in SUBSET B : k[U] = IF U = {} THEN 0 ELSE g[Pick(U)] + k[U \ {Pick(U)}]
  BY DEF IsSum
<1> DEFINE Wrong == {U \in SUBSET T : h[U] # k[U]}
           Sizes == {n \in Nat : \E U \in Wrong : Cardinality(U) = n}
<1>1. SUFFICES ASSUME Sizes # {} PROVE FALSE
  <2>1. SUFFICES ASSUME h[T] # k[T] PROVE FALSE
    OBVIOUS
  <2>2. T \in Wrong
    BY <2>1
  <2>3. IsFiniteSet(T)
    BY FS_Subset
  <2>4. Cardinality(T) \in Sizes
    BY <2>2, <2>3, FS_CardinalityType
  <2> QED
    BY <1>1, <2>4
<1>2. PICK m \in Sizes : \A n \in Sizes : m <= n
  <2>1. Sizes \in SUBSET Nat
    OBVIOUS
  <2> HIDE DEF Sizes
  <2> QED
    BY <1>1, <2>1, LeastElement
<1>3. PICK U \in Wrong : Cardinality(U) = m
  BY <1>2
<1>4. U \in SUBSET A /\ U \in SUBSET B /\ h[U] # k[U]
  BY <1>3
<1>5. h[U] = IF U = {} THEN 0 ELSE f[Pick(U)] + h[U \ {Pick(U)}]
  BY <1>4, <1>h
<1>6. k[U] = IF U = {} THEN 0 ELSE g[Pick(U)] + k[U \ {Pick(U)}]
  BY <1>4, <1>k
<1>7. U # {}
  BY <1>4, <1>5, <1>6
<1>8. PICK V : V = U \ {Pick(U)}
  OBVIOUS
<1>9. Pick(U) \in U /\ V \in SUBSET T /\ Cardinality(V) = m - 1 /\ Cardinality(U) \in Nat \ {0}
  BY <1>3, <1>4, <1>7, <1>8, PickSmaller
<1>10. V \notin Wrong
  <2>1. m \in Nat /\ m - 1 \in Nat
    BY <1>3, <1>9
  <2> HIDE DEF Wrong
  <2>2. SUFFICES ASSUME V \in Wrong PROVE FALSE
    OBVIOUS
  <2>3. m - 1 \in Sizes
    BY <1>9, <2>1, <2>2
  <2> HIDE DEF Sizes
  <2> QED
    BY <1>2, <2>1, <2>3
<1>11. h[V] = k[V]
  BY <1>9, <1>10
<1>12. f[Pick(U)] = g[Pick(U)]
  BY <1>3, <1>9
<1> QED
  BY <1>4, <1>5, <1>6, <1>7, <1>8, <1>11, <1>12

\* Sums of numbers are numbers, and any summand can be taken out first.
LEMMA SumOut ==
  ASSUME NEW f, NEW S, NEW h, IsFiniteSet(S), IsSum(f, S, h), \A c \in S : f[c] \in Nat,
         NEW T \in SUBSET S
  PROVE  h[T] \in Nat /\ \A x \in T : h[T] = f[x] + h[T \ {x}]
<1>h. \A U \in SUBSET S : h[U] = IF U = {} THEN 0 ELSE f[Pick(U)] + h[U \ {Pick(U)}]
  BY DEF IsSum
<1> DEFINE Right(U) == h[U] \in Nat /\ \A x \in U : h[U] = f[x] + h[U \ {x}]
           Wrong == {U \in SUBSET T : ~ Right(U)}
           Sizes == {n \in Nat : \E U \in Wrong : Cardinality(U) = n}
<1>1. SUFFICES ASSUME Sizes # {} PROVE FALSE
  <2>1. SUFFICES ASSUME ~ Right(T) PROVE FALSE
    OBVIOUS
  <2> HIDE DEF Right
  <2>2. T \in Wrong
    BY <2>1
  <2>3. IsFiniteSet(T)
    BY FS_Subset
  <2>4. Cardinality(T) \in Sizes
    BY <2>2, <2>3, FS_CardinalityType
  <2> QED
    BY <1>1, <2>4
<1>2. PICK m \in Sizes : \A n \in Sizes : m <= n
  <2>1. Sizes \in SUBSET Nat
    OBVIOUS
  <2> HIDE DEF Sizes
  <2> QED
    BY <1>1, <2>1, LeastElement
<1>3. PICK U \in Wrong : Cardinality(U) = m
  BY <1>2
<1>4. U \in SUBSET T /\ U \in SUBSET S /\ ~ Right(U) /\ m \in Nat
  BY <1>2, <1>3
<1>5. ASSUME NEW V \in SUBSET U, V # U PROVE V \in SUBSET S /\ Right(V)
  <2>1. IsFiniteSet(U) /\ V \in SUBSET T /\ V \in SUBSET S
    BY <1>4, FS_Subset
  <2>2. IsFiniteSet(V) /\ Cardinality(V) # m /\ Cardinality(V) <= m /\ Cardinality(V) \in Nat
    BY <1>3, <1>5, <2>1, FS_Subset, FS_CardinalityType
  <2>3. SUFFICES ASSUME ~ Right(V) PROVE FALSE
    BY <2>1
  <2> HIDE DEF Right
  <2>4. V \in Wrong
    BY <2>1, <2>3
  <2> HIDE DEF Wrong
  <2>5. Cardinality(V) \in Sizes
    BY <2>2, <2>4
  <2> HIDE DEF Sizes
  <2> QED
    BY <1>2, <1>4, <2>2, <2>5
<1>6. h[U] = IF U = {} THEN 0 ELSE f[Pick(U)] + h[U \ {Pick(U)}]
  BY <1>4, <1>h
<1>7. CASE U = {}
  BY <1>4, <1>6, <1>7
<1>8. CASE U # {}
  <2>1. Pick(U) \in U
    BY <1>8 DEF Pick
  <2>2. PICK y \in U : y = Pick(U)
    BY <2>1
  <2>3. h[U] = f[y] + h[U \ {y}] /\ f[y] \in Nat
    BY <1>4, <1>6, <1>8, <2>2
  <2>4. \A x \in U : U \ {x} \in SUBSET U /\ U \ {x} # U
    OBVIOUS
  <2>5. ASSUME NEW x \in U PROVE h[U] = f[x] + h[U \ {x}]
    <3>1. CASE x = y
      BY <2>3, <3>1
    <3>2. CASE x # y
      <4>1. PICK V : V = (U \ {y}) \ {x}
        OBVIOUS
      <4>2. V = (U \ {x}) \ {y}
        BY <4>1
      <4>3. h[U \ {y}] = f[x] + h[V]
        BY <1>5, <2>4, <3>2, <4>1
      <4>4. h[U \ {x}] = f[y] + h[V]
        BY <1>5, <2>4, <3>2, <4>2
      <4>5. f[x] \in Nat /\ h[U \ {x}] \in Nat /\ h[U \ {y}] \in Nat
        BY <1>4, <1>5, <2>4
      <4>6. V \in SUBSET U /\ V # U /\ h[V] \in Nat
        <5>1. V \in SUBSET U /\ V # U
          BY <4>1
        <5> QED
          BY <1>5, <5>1
      <4> QED
        BY <2>3, <4>3, <4>4, <4>5, <4>6
    <3> QED
      BY <3>1, <3>2
  <2>6. h[U] \in Nat
    BY <1>5, <2>3, <2>4
  <2> QED
    BY <1>4, <2>5, <2>6
<1> QED
  BY <1>7, <1>8

\* The sum over no elements.
LEMMA SumEmpty == ASSUME NEW f PROVE Sum(f, {}) = 0
<1>1. PICK g : IsSum(f, {}, g)
  BY SumExists, FS_EmptySet
<1>2. PICK h : IsSum(f, {}, h) /\ Sum(f, {}) = h[{}]
  BY <1>1, SumChosen
<1> QED
  BY <1>2 DEF IsSum

\* The sum is of the summands alone.
LEMMA SumSame ==
  ASSUME NEW f, NEW g, NEW S, IsFiniteSet(S), \A c \in S : f[c] = g[c]
  PROVE  Sum(f, S) = Sum(g, S)
<1>1. \E i : IsSum(f, S, i)
  BY SumExists
<1>2. \E i : IsSum(g, S, i)
  BY SumExists
<1>3. PICK h : IsSum(f, S, h) /\ Sum(f, S) = h[S]
  BY <1>1, SumChosen
<1>4. PICK k : IsSum(g, S, k) /\ Sum(g, S) = k[S]
  BY <1>2, SumChosen
<1>5. h[S] = k[S]
  BY <1>3, <1>4, SumAgrees
<1> QED
  BY <1>3, <1>4, <1>5

\* An element is taken out of a sum.
LEMMA SumStep ==
  ASSUME NEW f, NEW S, IsFiniteSet(S), \A c \in S : f[c] \in Nat
  PROVE  Sum(f, S) \in Nat /\ \A x \in S : Sum(f, S) = f[x] + Sum(f, S \ {x})
<1>1. \E i : IsSum(f, S, i)
  BY SumExists
<1>2. PICK h : IsSum(f, S, h) /\ Sum(f, S) = h[S]
  BY <1>1, SumChosen
<1>3. h[S] \in Nat /\ \A x \in S : h[S] = f[x] + h[S \ {x}]
  <2>1. S \in SUBSET S
    OBVIOUS
  <2> QED
    BY <1>2, <2>1, SumOut
<1>4. ASSUME NEW x \in S PROVE h[S \ {x}] = Sum(f, S \ {x})
  <2>1. PICK R : R = S \ {x}
    OBVIOUS
  <2>2. IsFiniteSet(R) /\ R \in SUBSET S /\ R \in SUBSET R
    BY <2>1, FS_Subset
  <2>3. \E i : IsSum(f, R, i)
    BY <2>2, SumExists
  <2>4. PICK k : IsSum(f, R, k) /\ Sum(f, R) = k[R]
    BY <2>3, SumChosen
  <2>5. h[R] = k[R]
    BY <1>2, <2>2, <2>4, SumAgrees
  <2> QED
    BY <2>1, <2>4, <2>5
<1> QED
  BY <1>2, <1>3, <1>4

\* Two families of numbers that agree but at x.
AgreeBut(f, g, S, x) ==
  /\ IsFiniteSet(S) /\ x \in S
  /\ \A c \in S : f[c] \in Nat /\ g[c] \in Nat
  /\ \A c \in S \ {x} : f[c] = g[c]

\* One summand changes.
LEMMA SumPoint ==
  ASSUME NEW f, NEW g, NEW S, NEW x, AgreeBut(f, g, S, x)
  PROVE  /\ Sum(f, S) \in Nat /\ Sum(g, S) \in Nat
         /\ Sum(g, S) = Sum(f, S) - f[x] + g[x] /\ f[x] <= Sum(f, S)
<1>0. /\ IsFiniteSet(S) /\ x \in S
      /\ \A c \in S : f[c] \in Nat /\ g[c] \in Nat
      /\ \A c \in S \ {x} : f[c] = g[c]
  BY DEF AgreeBut
<1>1. Sum(f, S) \in Nat /\ Sum(f, S) = f[x] + Sum(f, S \ {x})
  BY <1>0, SumStep
<1>2. Sum(g, S) \in Nat /\ Sum(g, S) = g[x] + Sum(g, S \ {x})
  BY <1>0, SumStep
<1>3. PICK R : R = S \ {x}
  OBVIOUS
<1>4. IsFiniteSet(R)
  BY <1>0, <1>3, FS_Subset
<1>5. Sum(f, R) = Sum(g, R)
  <2>1. \A c \in R : f[c] = g[c]
    BY <1>0, <1>3
  <2> QED
    BY <1>4, <2>1, SumSame
<1>6. Sum(f, R) \in Nat
  <2>1. \A c \in R : f[c] \in Nat
    BY <1>0, <1>3
  <2> QED
    BY <1>4, <2>1, SumStep
<1>7. f[x] \in Nat /\ g[x] \in Nat
  BY <1>0
<1> QED
  BY <1>1, <1>2, <1>3, <1>5, <1>6, <1>7

\* A family g of numbers over S and x that is f over S.
OneMore(f, g, S, x) ==
  /\ IsFiniteSet(S) /\ x \notin S /\ g[x] \in Nat
  /\ \A c \in S : g[c] \in Nat /\ f[c] = g[c]

\* One summand more.
LEMMA SumMore ==
  ASSUME NEW f, NEW g, NEW S, NEW x, OneMore(f, g, S, x)
  PROVE  Sum(f, S) \in Nat /\ Sum(g, S \cup {x}) = Sum(f, S) + g[x]
<1>0. /\ IsFiniteSet(S) /\ x \notin S /\ g[x] \in Nat
      /\ \A c \in S : g[c] \in Nat /\ f[c] = g[c]
  BY DEF OneMore
<1>1. PICK T : T = S \cup {x}
  OBVIOUS
<1>2. IsFiniteSet(T) /\ (\A c \in T : g[c] \in Nat) /\ x \in T /\ T \ {x} = S
  BY <1>0, <1>1, FS_AddElement
<1>3. Sum(g, T) = g[x] + Sum(g, S)
  BY <1>2, SumStep
<1>4. Sum(f, S) = Sum(g, S)
  BY <1>0, SumSame
<1>5. Sum(g, S) \in Nat
  BY <1>0, SumStep
<1> QED
  BY <1>0, <1>1, <1>3, <1>4, <1>5

-----------------------------------------------------------------------------
(* The counts of the profiler. *)

ArcRec == [from_pc : Callers, count : Nat \ {0}]
FnRec == [self_pc : Functions, arcs : Seq(ArcRec)]

\* Entry e of the list is that of the arc's function, and cell a in it the arc's.
IsEntry(ents, e, arc) == e \in DOMAIN ents /\ ents[e].self_pc = arc[1]
IsCell(ents, e, a, arc) ==
  IsEntry(ents, e, arc) /\ a \in DOMAIN ents[e].arcs /\ ents[e].arcs[a].from_pc = arc[2]
CountAt(ents, e, a) == ents[e].arcs[a].count

\* Counted, of a list ents.
CellsOf(ents) == UNION {{e} \X DOMAIN ents[e].arcs : e \in DOMAIN ents}
CopiesOf(ents, arc) ==
  {c \in CellsOf(ents) :
     ents[c[1]].self_pc = arc[1] /\ ents[c[1]].arcs[c[2]].from_pc = arc[2]}
CountsOf(ents, arc) == [c \in CopiesOf(ents, arc) |-> ents[c[1]].arcs[c[2]].count]
CountOf(ents, arc) == Sum(CountsOf(ents, arc), CopiesOf(ents, arc))

\* Counted is CountOf of the list there is.
LEMMA CountedIs == ASSUME NEW arc PROVE Counted(arc) = CountOf(entries, arc)
BY Zenon DEF Counted, CountOf, CountsOf, CopiesOf, CellsOf, Copies, Cells

\* A cell is a pair of an entry and an arc in it.
LEMMA CellIs ==
  ASSUME NEW ents, NEW c
  PROVE  c \in CellsOf(ents) <=>
           \E e \in DOMAIN ents : \E a \in DOMAIN ents[e].arcs : c = <<e, a>>
BY DEF CellsOf

\* There are finitely many cells.
LEMMA CellsFinite ==
  ASSUME NEW ents \in Seq(FnRec) PROVE IsFiniteSet(CellsOf(ents))
<1>1. PICK n \in Nat : DOMAIN ents = 1 .. n
  <2>1. Len(ents) \in Nat /\ DOMAIN ents = 1 .. Len(ents)
    OBVIOUS
  <2> QED
    BY <2>1
<1> DEFINE Of == [e \in 1 .. n |-> {e} \X DOMAIN ents[e].arcs]
           Parts == {Of[e] : e \in 1 .. n}
<1>2. CellsOf(ents) = UNION Parts
  BY <1>1 DEF CellsOf
<1>3. IsFiniteSet(Parts)
  <2>1. Of \in Surjection(1 .. n, Parts)
    BY DEF Surjection
  <2>2. IsFiniteSet(1 .. n)
    BY FS_Interval
  <2> HIDE DEF Of, Parts
  <2> QED
    BY <2>1, <2>2, FS_Surjection
<1>4. ASSUME NEW e \in 1 .. n PROVE IsFiniteSet(Of[e])
  <2>1. ents[e] \in FnRec
    BY <1>1
  <2>2. ents[e].arcs \in Seq(ArcRec)
    BY <2>1 DEF FnRec
  <2>3. PICK m \in Nat : DOMAIN ents[e].arcs = 1 .. m
    <3>1. Len(ents[e].arcs) \in Nat /\ DOMAIN ents[e].arcs = 1 .. Len(ents[e].arcs)
      BY <2>2
    <3> QED
      BY <3>1
  <2>4. IsFiniteSet({e})
    BY Zenon, FS_Singleton
  <2>5. IsFiniteSet(1 .. m)
    BY FS_Interval
  <2>6. IsFiniteSet({e} \X (1 .. m))
    BY <2>4, <2>5, FS_Product
  <2> QED
    BY <2>3, <2>6
<1>5. \A T \in Parts : IsFiniteSet(T)
  BY <1>4
<1> QED
  BY <1>2, <1>3, <1>5, FS_UNION

\* The copies of an arc are the cells it is in, finitely many, each with its count.
LEMMA CopiesAre ==
  ASSUME NEW ents \in Seq(FnRec), NEW arc
  PROVE  /\ IsFiniteSet(CopiesOf(ents, arc))
         /\ \A c : c \in CopiesOf(ents, arc) <=>
              \E e \in Nat, a \in Nat : c = <<e, a>> /\ IsCell(ents, e, a, arc)
         /\ \A e \in Nat, a \in Nat : IsCell(ents, e, a, arc) =>
              /\ CountsOf(ents, arc)[<<e, a>>] = CountAt(ents, e, a)
              /\ CountAt(ents, e, a) \in Nat \ {0}
<1>1. IsFiniteSet(CopiesOf(ents, arc))
  <2>1. CopiesOf(ents, arc) \in SUBSET CellsOf(ents)
    BY DEF CopiesOf
  <2> QED
    BY <2>1, CellsFinite, FS_Subset
<1>2. ASSUME NEW e \in DOMAIN ents, NEW a \in DOMAIN ents[e].arcs
      PROVE  e \in Nat /\ a \in Nat /\ ents[e].arcs[a].count \in Nat \ {0}
  <2>1. ents[e] \in FnRec /\ e \in Nat
    OBVIOUS
  <2>2. ents[e].arcs \in Seq(ArcRec)
    BY <2>1 DEF FnRec
  <2>3. ents[e].arcs[a] \in ArcRec /\ a \in Nat
    BY <2>2
  <2> QED
    BY <2>1, <2>3 DEF ArcRec
<1>3. ASSUME NEW c
      PROVE  c \in CopiesOf(ents, arc) <=>
               \E e \in Nat, a \in Nat : c = <<e, a>> /\ IsCell(ents, e, a, arc)
  <2>1. ASSUME c \in CopiesOf(ents, arc)
        PROVE  \E e \in Nat, a \in Nat : c = <<e, a>> /\ IsCell(ents, e, a, arc)
    <3>1. PICK e \in DOMAIN ents : \E a \in DOMAIN ents[e].arcs : c = <<e, a>>
      BY <2>1, CellIs DEF CopiesOf
    <3>2. PICK a \in DOMAIN ents[e].arcs : c = <<e, a>>
      BY <3>1
    <3>3. c[1] = e /\ c[2] = a
      BY <3>2
    <3>4. IsCell(ents, e, a, arc)
      BY <2>1, <3>3 DEF CopiesOf, IsCell, IsEntry
    <3> QED
      BY <1>2, <3>2, <3>4
  <2>2. ASSUME NEW e \in Nat, NEW a \in Nat, c = <<e, a>>, IsCell(ents, e, a, arc)
        PROVE  c \in CopiesOf(ents, arc)
    <3>1. e \in DOMAIN ents /\ a \in DOMAIN ents[e].arcs
      BY <2>2 DEF IsCell, IsEntry
    <3>2. c \in CellsOf(ents)
      BY <2>2, <3>1, CellIs
    <3>3. c[1] = e /\ c[2] = a
      BY <2>2
    <3> QED
      BY <2>2, <3>2, <3>3 DEF CopiesOf, IsCell, IsEntry
  <2> QED
    BY <2>1, <2>2
<1>4. ASSUME NEW e \in Nat, NEW a \in Nat, IsCell(ents, e, a, arc)
      PROVE  /\ CountsOf(ents, arc)[<<e, a>>] = CountAt(ents, e, a)
             /\ CountAt(ents, e, a) \in Nat \ {0}
  <2>1. <<e, a>> \in CopiesOf(ents, arc)
    BY <1>3, <1>4
  <2>2. CountAt(ents, e, a) \in Nat \ {0}
    BY <1>2, <1>4 DEF IsCell, IsEntry, CountAt
  <2> QED
    BY <2>1, <2>2 DEF CountsOf, CountAt
<1> QED
  BY <1>1, <1>3, <1>4

\* One element of a sequence is replaced.
LEMMA Replaced ==
  ASSUME NEW T, NEW s \in Seq(T), NEW i \in DOMAIN s, NEW y \in T
  PROVE  /\ [s EXCEPT ![i] = y] \in Seq(T) /\ DOMAIN [s EXCEPT ![i] = y] = DOMAIN s
         /\ \A j \in DOMAIN s : [s EXCEPT ![i] = y][j] = IF j = i THEN y ELSE s[j]
OBVIOUS

\* The list with another count in one cell.
Stored(ents, e, a, n) == [ents EXCEPT ![e].arcs[a].count = n]

IsStored(ents, new, e, a, n) ==
  /\ DOMAIN new = DOMAIN ents
  /\ \A d \in DOMAIN ents : new[d].self_pc = ents[d].self_pc /\ DOMAIN new[d].arcs = DOMAIN ents[d].arcs
  /\ \A d \in DOMAIN ents : \A b \in DOMAIN ents[d].arcs :
       /\ new[d].arcs[b].from_pc = ents[d].arcs[b].from_pc
       /\ CountAt(new, d, b) = IF d = e /\ b = a THEN n ELSE CountAt(ents, d, b)

\* Storing a count keeps the list a list, and everything in it but that count.
LEMMA StoreShape ==
  ASSUME NEW ents \in Seq(FnRec), NEW e \in DOMAIN ents, NEW a \in DOMAIN ents[e].arcs,
         NEW n \in Nat \ {0}, NEW new, new = Stored(ents, e, a, n)
  PROVE  new \in Seq(FnRec) /\ IsStored(ents, new, e, a, n)
<1>1. \A d \in DOMAIN ents : ents[d] \in FnRec
  OBVIOUS
<1>2. PICK x \in FnRec : x = ents[e]
  BY <1>1
<1>3. PICK s \in Seq(ArcRec) : s = x.arcs
  BY <1>2 DEF FnRec
<1>4. a \in DOMAIN s
  BY <1>2, <1>3
<1>5. PICK r \in ArcRec : r = s[a]
  BY <1>3, <1>4
<1>6. PICK q : q = [r EXCEPT !.count = n]
  OBVIOUS
<1>7. q \in ArcRec /\ q.count = n /\ q.from_pc = r.from_pc
  BY <1>5, <1>6 DEF ArcRec
<1>8. PICK t : t = [s EXCEPT ![a] = q]
  OBVIOUS
<1>9. t \in Seq(ArcRec) /\ DOMAIN t = DOMAIN s /\ \A b \in DOMAIN s : t[b] = IF b = a THEN q ELSE s[b]
  BY <1>3, <1>4, <1>7, <1>8
<1>10. PICK y : y = [x EXCEPT !.arcs = t]
  OBVIOUS
<1>11. y \in FnRec /\ y.arcs = t /\ y.self_pc = x.self_pc
  BY <1>2, <1>9, <1>10 DEF FnRec
<1>12. new = [ents EXCEPT ![e] = y]
  BY <1>2, <1>3, <1>5, <1>6, <1>8, <1>10 DEF Stored
<1>13. /\ new \in Seq(FnRec) /\ DOMAIN new = DOMAIN ents
       /\ \A d \in DOMAIN ents : new[d] = IF d = e THEN y ELSE ents[d]
  <2>1. ents \in Seq(FnRec) /\ e \in DOMAIN ents /\ y \in FnRec
    BY <1>11
  <2> QED
    BY <2>1, <1>12, Replaced
<1>14. ASSUME NEW d \in DOMAIN ents
       PROVE  /\ new[d].self_pc = ents[d].self_pc /\ DOMAIN new[d].arcs = DOMAIN ents[d].arcs
              /\ \A b \in DOMAIN ents[d].arcs :
                   /\ new[d].arcs[b].from_pc = ents[d].arcs[b].from_pc
                   /\ CountAt(new, d, b) = IF d = e /\ b = a THEN n ELSE CountAt(ents, d, b)
  <2>1. CASE d = e
    <3>1. new[d] = y /\ ents[d] = x
      BY <1>2, <1>13, <2>1
    <3>2. new[d].self_pc = ents[d].self_pc /\ new[d].arcs = t /\ ents[d].arcs = s
      BY <1>3, <1>11, <3>1
    <3>3. ASSUME NEW b \in DOMAIN s
          PROVE  /\ t[b].from_pc = s[b].from_pc
                 /\ t[b].count = IF b = a THEN n ELSE s[b].count
      BY <1>5, <1>7, <1>9
    <3> QED
      BY <1>9, <2>1, <3>2, <3>3 DEF CountAt
  <2>2. CASE d # e
    BY <1>13, <2>2 DEF CountAt
  <2> QED
    BY <2>1, <2>2
<1> QED
  BY <1>13, <1>14 DEF IsStored

\* What storing n in the cell a of entry e does to the counts, arc0's among them.
StoredCounts(ents, new, arc0, e, a, n) ==
  /\ \A d, arc : IsEntry(ents, d, arc) => IsEntry(new, d, arc)
  /\ \A d, b, arc : IsCell(ents, d, b, arc) =>
       /\ IsCell(new, d, b, arc)
       /\ CountAt(new, d, b) = IF d = e /\ b = a THEN n ELSE CountAt(ents, d, b)
  /\ \A arc \in Arcs : arc # arc0 => CountOf(new, arc) = CountOf(ents, arc)
  /\ CountOf(ents, arc0) \in Nat /\ CountOf(new, arc0) \in Nat
  /\ CountAt(ents, e, a) \in Nat /\ CountAt(ents, e, a) <= CountOf(ents, arc0)
  /\ CountOf(new, arc0) = CountOf(ents, arc0) - CountAt(ents, e, a) + n

\* Storing a count leaves every cell where it is, and changes what its arc was
\* counted by as much as the count.
LEMMA CountStore ==
  ASSUME NEW ents \in Seq(FnRec), NEW arc0 \in Arcs, NEW e, NEW a, IsCell(ents, e, a, arc0),
         NEW n \in Nat \ {0}, NEW new \in Seq(FnRec), IsStored(ents, new, e, a, n)
  PROVE  StoredCounts(ents, new, arc0, e, a, n)
<1>1. e \in DOMAIN ents /\ a \in DOMAIN ents[e].arcs
  BY DEF IsCell, IsEntry
<1>2. /\ DOMAIN new = DOMAIN ents
      /\ \A d \in DOMAIN ents : new[d].self_pc = ents[d].self_pc /\ DOMAIN new[d].arcs = DOMAIN ents[d].arcs
      /\ \A d \in DOMAIN ents : \A b \in DOMAIN ents[d].arcs :
           /\ new[d].arcs[b].from_pc = ents[d].arcs[b].from_pc
           /\ CountAt(new, d, b) = IF d = e /\ b = a THEN n ELSE CountAt(ents, d, b)
  BY DEF IsStored
<1>3. \A d, arc : IsEntry(ents, d, arc) <=> IsEntry(new, d, arc)
  BY <1>2 DEF IsEntry
<1>4. ASSUME NEW d, NEW b, NEW arc
      PROVE  /\ IsCell(ents, d, b, arc) <=> IsCell(new, d, b, arc)
             /\ IsCell(ents, d, b, arc) =>
                  CountAt(new, d, b) = IF d = e /\ b = a THEN n ELSE CountAt(ents, d, b)
  BY <1>2, <1>3 DEF IsCell, IsEntry
<1>5. ASSUME NEW arc \in Arcs
      PROVE  /\ CopiesOf(new, arc) = CopiesOf(ents, arc)
             /\ IsFiniteSet(CopiesOf(ents, arc))
             /\ \A c \in CopiesOf(ents, arc) :
                  CountsOf(ents, arc)[c] \in Nat /\ CountsOf(new, arc)[c] \in Nat
             /\ \A c \in CopiesOf(ents, arc) :
                  c # <<e, a>> => CountsOf(new, arc)[c] = CountsOf(ents, arc)[c]
  <2>1. \A c : c \in CopiesOf(ents, arc) <=>
              \E d \in Nat, b \in Nat : c = <<d, b>> /\ IsCell(ents, d, b, arc)
    BY CopiesAre
  <2>2. \A c : c \in CopiesOf(new, arc) <=>
              \E d \in Nat, b \in Nat : c = <<d, b>> /\ IsCell(new, d, b, arc)
    BY CopiesAre
  <2>3. \A d \in Nat, b \in Nat : IsCell(ents, d, b, arc) =>
              /\ CountsOf(ents, arc)[<<d, b>>] = CountAt(ents, d, b)
              /\ CountAt(ents, d, b) \in Nat \ {0}
    BY CopiesAre
  <2>4. \A d \in Nat, b \in Nat : IsCell(new, d, b, arc) =>
              /\ CountsOf(new, arc)[<<d, b>>] = CountAt(new, d, b)
              /\ CountAt(new, d, b) \in Nat \ {0}
    BY CopiesAre
  <2>5. CopiesOf(new, arc) = CopiesOf(ents, arc)
    BY <1>4, <2>1, <2>2
  <2>6. ASSUME NEW c \in CopiesOf(ents, arc)
        PROVE  /\ CountsOf(ents, arc)[c] \in Nat /\ CountsOf(new, arc)[c] \in Nat
               /\ c # <<e, a>> => CountsOf(new, arc)[c] = CountsOf(ents, arc)[c]
    <3>1. PICK d \in Nat, b \in Nat : c = <<d, b>> /\ IsCell(ents, d, b, arc)
      BY <2>1
    <3>2. IsCell(new, d, b, arc)
      BY <1>4, <3>1
    <3>3. CountsOf(ents, arc)[c] = CountAt(ents, d, b) /\ CountAt(ents, d, b) \in Nat
      BY <2>3, <3>1
    <3>4. CountsOf(new, arc)[c] = CountAt(new, d, b) /\ CountAt(new, d, b) \in Nat
      BY <2>4, <3>1, <3>2
    <3>5. CountAt(new, d, b) = IF d = e /\ b = a THEN n ELSE CountAt(ents, d, b)
      BY <1>4, <3>1
    <3> QED
      BY <3>1, <3>3, <3>4, <3>5
  <2>7. IsFiniteSet(CopiesOf(ents, arc))
    BY CopiesAre
  <2> QED
    BY <2>5, <2>6, <2>7
<1>6. ASSUME NEW arc \in Arcs, arc # arc0 PROVE CountOf(new, arc) = CountOf(ents, arc)
  <2>1. <<e, a>> \notin CopiesOf(ents, arc)
    <3>1. SUFFICES ASSUME <<e, a>> \in CopiesOf(ents, arc) PROVE FALSE
      OBVIOUS
    <3>2. PICK d \in Nat, b \in Nat : <<e, a>> = <<d, b>> /\ IsCell(ents, d, b, arc)
      BY <3>1, CopiesAre
    <3>3. arc[1] = arc0[1] /\ arc[2] = arc0[2]
      BY <3>2 DEF IsCell, IsEntry
    <3> QED
      BY <1>6, <3>3 DEF Arcs
  <2>2. \A c \in CopiesOf(ents, arc) : CountsOf(ents, arc)[c] = CountsOf(new, arc)[c]
    BY <1>5, <2>1
  <2>3. PICK f : f = CountsOf(ents, arc)
    OBVIOUS
  <2>4. PICK g : g = CountsOf(new, arc)
    OBVIOUS
  <2>5. PICK S : S = CopiesOf(ents, arc)
    OBVIOUS
  <2>6. IsFiniteSet(S) /\ \A c \in S : f[c] = g[c]
    BY <1>5, <2>2, <2>3, <2>4, <2>5
  <2>7. Sum(f, S) = Sum(g, S)
    BY <2>6, SumSame
  <2> QED
    BY <1>5, <2>3, <2>4, <2>5, <2>7 DEF CountOf
<1>7. PICK S : S = CopiesOf(ents, arc0)
  OBVIOUS
<1>8. PICK f : f = CountsOf(ents, arc0)
  OBVIOUS
<1>9. PICK g : g = CountsOf(new, arc0)
  OBVIOUS
<1>10. e \in Nat /\ a \in Nat
  <2>1. ents[e] \in FnRec /\ e \in Nat
    BY <1>1
  <2>2. ents[e].arcs \in Seq(ArcRec)
    BY <2>1 DEF FnRec
  <2> QED
    BY <1>1, <2>1, <2>2
<1>11. <<e, a>> \in S /\ f[<<e, a>>] = CountAt(ents, e, a) /\ CountAt(ents, e, a) \in Nat
  BY <1>7, <1>8, <1>10, CopiesAre
<1>12. g[<<e, a>>] = n
  <2>1. IsCell(new, e, a, arc0) /\ CountAt(new, e, a) = n
    BY <1>4
  <2> QED
    BY <1>9, <1>10, <2>1, CopiesAre
<1>13. IsFiniteSet(S) /\ (\A c \in S : f[c] \in Nat /\ g[c] \in Nat)
       /\ \A c \in S \ {<<e, a>>} : f[c] = g[c]
  BY <1>5, <1>7, <1>8, <1>9
<1>14. /\ Sum(f, S) \in Nat /\ Sum(g, S) \in Nat
       /\ Sum(g, S) = Sum(f, S) - f[<<e, a>>] + g[<<e, a>>] /\ f[<<e, a>>] <= Sum(f, S)
  <2>1. AgreeBut(f, g, S, <<e, a>>)
    BY <1>11, <1>13 DEF AgreeBut
  <2> QED
    BY <2>1, SumPoint
<1>15. CountOf(ents, arc0) = Sum(f, S) /\ CountOf(new, arc0) = Sum(g, S)
  BY <1>5, <1>7, <1>8, <1>9 DEF CountOf
<1> QED
  BY <1>2, <1>3, <1>4, <1>6, <1>11, <1>12, <1>14, <1>15 DEF StoredCounts

\* The list with one more cell, at entry e and place a, where arc0 was counted once.
IsInserted(ents, new, arc0, e, a) ==
  /\ ~ (e \in DOMAIN ents /\ a \in DOMAIN ents[e].arcs)
  /\ IsCell(new, e, a, arc0) /\ CountAt(new, e, a) = 1
  /\ \A d \in DOMAIN ents :
       /\ d \in DOMAIN new /\ new[d].self_pc = ents[d].self_pc
       /\ \A b \in DOMAIN ents[d].arcs :
            b \in DOMAIN new[d].arcs /\ new[d].arcs[b] = ents[d].arcs[b]
  /\ \A d \in DOMAIN new : \A b \in DOMAIN new[d].arcs :
       (d \in DOMAIN ents /\ b \in DOMAIN ents[d].arcs) \/ (d = e /\ b = a)

\* One element more.
LEMMA Appended ==
  ASSUME NEW T, NEW s \in Seq(T), NEW y \in T
  PROVE  /\ Append(s, y) \in Seq(T) /\ Len(s) \in Nat /\ Len(s) + 1 \in Nat
         /\ Len(s) + 1 \notin DOMAIN s /\ Append(s, y)[Len(s) + 1] = y
         /\ DOMAIN Append(s, y) = DOMAIN s \cup {Len(s) + 1}
         /\ \A j \in DOMAIN s : Append(s, y)[j] = s[j]
OBVIOUS

NewArc(arc) == [from_pc |-> arc[2], count |-> 1]

\* A new arc has the type of one.
LEMMA NewArcIs == ASSUME NEW arc \in Arcs PROVE NewArc(arc) \in ArcRec
<1>1. arc[2] \in Callers /\ 1 \in Nat \ {0}
  BY DEF Arcs
<1> QED
  BY <1>1 DEF NewArc, ArcRec

\* A new entry with the arc alone.
LEMMA NewEntryShape ==
  ASSUME NEW ents \in Seq(FnRec), NEW arc \in Arcs, NEW new,
         new = Append(ents, [self_pc |-> arc[1], arcs |-> <<NewArc(arc)>>])
  PROVE  new \in Seq(FnRec) /\ \E e \in Nat, a \in Nat : IsInserted(ents, new, arc, e, a)
<1>1. PICK r \in ArcRec : r = NewArc(arc)
  BY NewArcIs
<1>2. r.from_pc = arc[2] /\ r.count = 1
  BY <1>1 DEF NewArc
<1>3. PICK s \in Seq(ArcRec) : s = <<r>>
  <2>1. << >> \in Seq(ArcRec) /\ Append(<< >>, r) \in Seq(ArcRec)
    BY Appended
  <2>2. Append(<< >>, r) = <<r>>
    OBVIOUS
  <2> QED
    BY <2>1, <2>2
<1>4. DOMAIN s = {1} /\ s[1] = r
  BY <1>3
<1>5. PICK y : y = [self_pc |-> arc[1], arcs |-> s]
  OBVIOUS
<1>6. y \in FnRec /\ y.self_pc = arc[1] /\ y.arcs = s
  BY <1>3, <1>5 DEF FnRec, Arcs
<1>7. new = Append(ents, y)
  BY <1>1, <1>3, <1>5
<1>8. PICK n \in Nat : n = Len(ents) + 1
  OBVIOUS
<1>9. /\ new \in Seq(FnRec) /\ DOMAIN new = DOMAIN ents \cup {n} /\ n \notin DOMAIN ents
      /\ new[n] = y /\ \A j \in DOMAIN ents : new[j] = ents[j]
  BY <1>6, <1>7, <1>8, Appended
<1>10. IsCell(new, n, 1, arc) /\ CountAt(new, n, 1) = 1
  BY <1>2, <1>4, <1>6, <1>9 DEF IsCell, IsEntry, CountAt
<1>11. IsInserted(ents, new, arc, n, 1)
  BY <1>4, <1>6, <1>9, <1>10 DEF IsInserted
<1> QED
  BY <1>9, <1>11

\* Or the arc behind those of its entry.
LEMMA NewArcShape ==
  ASSUME NEW ents \in Seq(FnRec), NEW arc \in Arcs, NEW e, IsEntry(ents, e, arc), NEW new,
         new = [ents EXCEPT ![e].arcs = Append(@, NewArc(arc))]
  PROVE  new \in Seq(FnRec) /\ \E d \in Nat, a \in Nat : IsInserted(ents, new, arc, d, a)
<1>0. e \in DOMAIN ents /\ e \in Nat /\ ents[e].self_pc = arc[1]
  BY DEF IsEntry
<1>1. PICK r \in ArcRec : r = NewArc(arc)
  BY NewArcIs
<1>2. r.from_pc = arc[2] /\ r.count = 1
  BY <1>1 DEF NewArc
<1>3. PICK x \in FnRec : x = ents[e]
  BY <1>0
<1>4. PICK s \in Seq(ArcRec) : s = x.arcs
  BY <1>3 DEF FnRec
<1>5. PICK t : t = Append(s, r)
  OBVIOUS
<1>6. PICK n \in Nat : n = Len(s) + 1
  BY <1>4
<1>7. /\ t \in Seq(ArcRec) /\ DOMAIN t = DOMAIN s \cup {n} /\ n \notin DOMAIN s
      /\ t[n] = r /\ \A j \in DOMAIN s : t[j] = s[j]
  BY <1>5, <1>6, Appended
<1>8. PICK y : y = [x EXCEPT !.arcs = t]
  OBVIOUS
<1>9. y \in FnRec /\ y.self_pc = x.self_pc /\ y.arcs = t
  BY <1>3, <1>7, <1>8 DEF FnRec
<1>10. new = [ents EXCEPT ![e] = y]
  BY <1>1, <1>3, <1>4, <1>5, <1>8
<1>11. /\ new \in Seq(FnRec) /\ DOMAIN new = DOMAIN ents
       /\ \A d \in DOMAIN ents : new[d] = IF d = e THEN y ELSE ents[d]
  <2>1. ents \in Seq(FnRec) /\ e \in DOMAIN ents /\ y \in FnRec
    BY <1>0, <1>9
  <2> QED
    BY ONLY <2>1, <1>10, Replaced
<1>12. new[e] = y /\ ents[e] = x /\ ents[e].arcs = s /\ new[e].arcs = t
  BY <1>0, <1>3, <1>4, <1>9, <1>11
<1>13. IsCell(new, e, n, arc) /\ CountAt(new, e, n) = 1
  BY <1>0, <1>2, <1>3, <1>7, <1>9, <1>11, <1>12 DEF IsCell, IsEntry, CountAt
<1>14. ASSUME NEW d \in DOMAIN ents
       PROVE  /\ d \in DOMAIN new /\ new[d].self_pc = ents[d].self_pc
              /\ \A b \in DOMAIN ents[d].arcs :
                   b \in DOMAIN new[d].arcs /\ new[d].arcs[b] = ents[d].arcs[b]
              /\ \A b \in DOMAIN new[d].arcs : b \in DOMAIN ents[d].arcs \/ (d = e /\ b = n)
  <2>1. CASE d = e
    BY <1>7, <1>9, <1>11, <1>12, <2>1
  <2>2. CASE d # e
    BY <1>11, <2>2
  <2> QED
    BY <2>1, <2>2
<1>15. IsInserted(ents, new, arc, e, n)
  BY <1>7, <1>11, <1>12, <1>13, <1>14 DEF IsInserted
<1> QED
  BY <1>0, <1>11, <1>15

\* What a new cell of arc0 does to the counts.
InsertedCounts(ents, new, arc0) ==
  /\ \A d, arc : IsEntry(ents, d, arc) => IsEntry(new, d, arc)
  /\ \A d, b, arc : IsCell(ents, d, b, arc) =>
       IsCell(new, d, b, arc) /\ CountAt(new, d, b) = CountAt(ents, d, b)
  /\ \A arc \in Arcs : arc # arc0 => CountOf(new, arc) = CountOf(ents, arc)
  /\ CountOf(ents, arc0) \in Nat /\ CountOf(new, arc0) = CountOf(ents, arc0) + 1

\* A new cell is one count more of its arc, and leaves the others as they are.
LEMMA CountInsert ==
  ASSUME NEW ents \in Seq(FnRec), NEW arc0 \in Arcs, NEW e \in Nat, NEW a \in Nat,
         NEW new \in Seq(FnRec), IsInserted(ents, new, arc0, e, a)
  PROVE  InsertedCounts(ents, new, arc0)
<1>1. \A d, arc : IsEntry(ents, d, arc) => IsEntry(new, d, arc)
  BY DEF IsInserted, IsEntry
<1>2. \A d, b, arc : IsCell(ents, d, b, arc) =>
        IsCell(new, d, b, arc) /\ CountAt(new, d, b) = CountAt(ents, d, b)
  BY DEF IsInserted, IsCell, IsEntry, CountAt
<1>3. \A d, b, arc : IsCell(new, d, b, arc) => IsCell(ents, d, b, arc) \/ (d = e /\ b = a)
  BY DEF IsInserted, IsCell, IsEntry, CountAt
<1>4. IsCell(new, e, a, arc0) /\ CountAt(new, e, a) = 1 /\ \A arc : ~ IsCell(ents, e, a, arc)
  BY DEF IsInserted, IsCell, IsEntry
<1>5. \A arc \in Arcs : IsCell(new, e, a, arc) => arc = arc0
  <2>1. SUFFICES ASSUME NEW arc \in Arcs, IsCell(new, e, a, arc) PROVE arc = arc0
    OBVIOUS
  <2>2. arc[1] = arc0[1] /\ arc[2] = arc0[2]
    BY <1>4, <2>1 DEF IsCell, IsEntry
  <2> QED
    BY <2>2 DEF Arcs
<1>6. ASSUME NEW arc \in Arcs
      PROVE  /\ IsFiniteSet(CopiesOf(ents, arc)) /\ <<e, a>> \notin CopiesOf(ents, arc)
             /\ CopiesOf(new, arc) =
                  IF arc = arc0 THEN CopiesOf(ents, arc) \cup {<<e, a>>} ELSE CopiesOf(ents, arc)
             /\ \A c \in CopiesOf(ents, arc) :
                  CountsOf(new, arc)[c] \in Nat /\ CountsOf(ents, arc)[c] = CountsOf(new, arc)[c]
  <2>1. \A c : c \in CopiesOf(ents, arc) <=>
              \E d \in Nat, b \in Nat : c = <<d, b>> /\ IsCell(ents, d, b, arc)
    BY CopiesAre
  <2>2. \A c : c \in CopiesOf(new, arc) <=>
              \E d \in Nat, b \in Nat : c = <<d, b>> /\ IsCell(new, d, b, arc)
    BY CopiesAre
  <2>3. \A d \in Nat, b \in Nat : IsCell(ents, d, b, arc) =>
              /\ CountsOf(ents, arc)[<<d, b>>] = CountAt(ents, d, b)
              /\ CountAt(ents, d, b) \in Nat \ {0}
    BY CopiesAre
  <2>4. \A d \in Nat, b \in Nat : IsCell(new, d, b, arc) =>
              /\ CountsOf(new, arc)[<<d, b>>] = CountAt(new, d, b)
              /\ CountAt(new, d, b) \in Nat \ {0}
    BY CopiesAre
  <2>5. IsFiniteSet(CopiesOf(ents, arc))
    BY CopiesAre
  <2>6. <<e, a>> \notin CopiesOf(ents, arc)
    BY <1>4, <2>1
  <2>7. ASSUME NEW c \in CopiesOf(ents, arc)
        PROVE  /\ c \in CopiesOf(new, arc) /\ CountsOf(new, arc)[c] \in Nat
               /\ CountsOf(ents, arc)[c] = CountsOf(new, arc)[c]
    <3>1. PICK d \in Nat, b \in Nat : c = <<d, b>> /\ IsCell(ents, d, b, arc)
      BY <2>1
    <3>2. IsCell(new, d, b, arc) /\ CountAt(new, d, b) = CountAt(ents, d, b)
      BY <1>2, <3>1
    <3> QED
      BY <2>2, <2>3, <2>4, <3>1, <3>2
  <2>8. ASSUME NEW c \in CopiesOf(new, arc)
        PROVE  c \in CopiesOf(ents, arc) \/ (arc = arc0 /\ c = <<e, a>>)
    <3>1. PICK d \in Nat, b \in Nat : c = <<d, b>> /\ IsCell(new, d, b, arc)
      BY <2>2
    <3>2. IsCell(ents, d, b, arc) \/ (d = e /\ b = a)
      BY <1>3, <3>1
    <3> QED
      BY <1>5, <2>1, <3>1, <3>2
  <2>9. <<e, a>> \in CopiesOf(new, arc0)
    BY <1>4, CopiesAre
  <2>10. CASE arc = arc0
    BY <2>5, <2>6, <2>7, <2>8, <2>9, <2>10
  <2>11. CASE arc # arc0
    BY <2>5, <2>6, <2>7, <2>8, <2>11
  <2> QED
    BY <2>10, <2>11
<1>7. ASSUME NEW arc \in Arcs, arc # arc0 PROVE CountOf(new, arc) = CountOf(ents, arc)
  <2>1. PICK f : f = CountsOf(ents, arc)
    OBVIOUS
  <2>2. PICK g : g = CountsOf(new, arc)
    OBVIOUS
  <2>3. PICK S : S = CopiesOf(ents, arc)
    OBVIOUS
  <2>4. IsFiniteSet(S) /\ \A c \in S : f[c] = g[c]
    BY <1>6, <2>1, <2>2, <2>3
  <2>5. Sum(f, S) = Sum(g, S)
    BY <2>4, SumSame
  <2> QED
    BY <1>6, <1>7, <2>1, <2>2, <2>3, <2>5 DEF CountOf
<1>8. CountOf(ents, arc0) \in Nat /\ CountOf(new, arc0) = CountOf(ents, arc0) + 1
  <2>1. PICK f : f = CountsOf(ents, arc0)
    OBVIOUS
  <2>2. PICK g : g = CountsOf(new, arc0)
    OBVIOUS
  <2>3. PICK S : S = CopiesOf(ents, arc0)
    OBVIOUS
  <2>0. PICK x : x = <<e, a>>
    OBVIOUS
  <2>4. g[x] = 1
    <3>1. CountsOf(new, arc0)[<<e, a>>] = CountAt(new, e, a)
      BY <1>4, CopiesAre
    <3> QED
      BY <1>4, <2>0, <2>2, <3>1
  <2>5. OneMore(f, g, S, x)
    <3>1. /\ IsFiniteSet(CopiesOf(ents, arc0)) /\ <<e, a>> \notin CopiesOf(ents, arc0)
          /\ \A c \in CopiesOf(ents, arc0) :
               CountsOf(new, arc0)[c] \in Nat /\ CountsOf(ents, arc0)[c] = CountsOf(new, arc0)[c]
      BY <1>6
    <3> QED
      BY <2>0, <2>1, <2>2, <2>3, <2>4, <3>1 DEF OneMore
  <2>6. Sum(f, S) \in Nat /\ Sum(g, S \cup {x}) = Sum(f, S) + 1
    <3>1. Sum(f, S) \in Nat /\ Sum(g, S \cup {x}) = Sum(f, S) + g[x]
      BY ONLY <2>5, SumMore
    <3> QED
      BY <2>4, <3>1
  <2> QED
    BY <2>0, <1>6, <2>1, <2>2, <2>3, <2>6 DEF CountOf
<1> QED
  BY <1>1, <1>2, <1>7, <1>8 DEF InsertedCounts

\* Counts are numbers.
LEMMA CountNat ==
  ASSUME NEW ents \in Seq(FnRec), NEW arc \in Arcs PROVE CountOf(ents, arc) \in Nat
<1>1. PICK f : f = CountsOf(ents, arc)
  OBVIOUS
<1>2. PICK S : S = CopiesOf(ents, arc)
  OBVIOUS
<1>3. IsFiniteSet(S)
  BY <1>2, CopiesAre
<1>4. ASSUME NEW c \in S PROVE f[c] \in Nat
  <2>1. PICK d \in Nat, b \in Nat : c = <<d, b>> /\ IsCell(ents, d, b, arc)
    BY <1>2, CopiesAre
  <2>2. CountsOf(ents, arc)[<<d, b>>] = CountAt(ents, d, b) /\ CountAt(ents, d, b) \in Nat
    BY <2>1, CopiesAre
  <2> QED
    BY <1>1, <2>1, <2>2
<1>5. Sum(f, S) \in Nat
  BY <1>3, <1>4, SumStep
<1> QED
  BY <1>1, <1>2, <1>5 DEF CountOf

\* The greatest of a set of numbers up to n, or 0.
LEMMA LatestIs ==
  ASSUME NEW n \in Nat, NEW S \in SUBSET (1 .. n)
  PROVE  Latest(S) \in Nat /\ (Latest(S) # 0 => Latest(S) \in S)
<1>1. CASE S = {}
  BY <1>1 DEF Latest
<1>2. CASE S # {}
  <2> DEFINE R == {k \in Nat : n - k \in S}
  <2>1. R # {} /\ R \in SUBSET Nat
    <3>1. PICK j \in S : TRUE
      BY <1>2
    <3>2. n - j \in Nat /\ n - (n - j) = j
      OBVIOUS
    <3> QED
      BY <3>2
  <2>2. PICK k \in R : \A m \in R : k <= m
    <3> HIDE DEF R
    <3> QED
      BY <2>1, LeastElement
  <2>3. n - k \in S
    OBVIOUS
  <2>4. \A j \in S : j <= n - k
    <3>1. SUFFICES ASSUME NEW j \in S PROVE j <= n - k
      OBVIOUS
    <3>2. n - j \in R /\ j \in Nat
      <4>1. n - j \in Nat /\ n - (n - j) = j /\ j \in Nat
        OBVIOUS
      <4> QED
        BY <4>1
    <3>3. k <= n - j /\ k \in Nat
      BY <2>2, <3>2
    <3> QED
      BY <3>2, <3>3
  <2>5. \E i \in S : \A j \in S : j <= i
    BY <2>3, <2>4
  <2>6. Latest(S) \in S
    <3>1. (CHOOSE i \in S : \A j \in S : j <= i) \in S
      BY <2>5, Zenon
    <3> QED
      BY <1>2, <3>1, Zenon DEF Latest
  <2>7. PICK x \in S : x = Latest(S)
    BY <2>6
  <2>8. x \in Nat
    OBVIOUS
  <2> QED
    BY <2>7, <2>8
<1> QED
  BY <1>1, <1>2

\* How many frames count an arc.
Waiting(fr, arc) == {n \in DOMAIN fr : fr[n].arc = arc}
Pending(fr, arc) == Cardinality(Waiting(fr, arc))

FrameRec == [at : {"store", "look", "claim", "init", "insert"}, arc : Arcs,
             e : Nat, a : Nat, count : Nat]

\* The frames of an arc are finitely many.
LEMMA PendingFinite ==
  ASSUME NEW fr \in Seq(FrameRec)
  PROVE  \A arc : IsFiniteSet(Waiting(fr, arc)) /\ Pending(fr, arc) \in Nat
<1>0. SUFFICES ASSUME NEW arc PROVE IsFiniteSet(Waiting(fr, arc)) /\ Pending(fr, arc) \in Nat
  OBVIOUS
<1>1. PICK m \in Nat : DOMAIN fr = 1 .. m
  <2>1. Len(fr) \in Nat /\ DOMAIN fr = 1 .. Len(fr)
    OBVIOUS
  <2> QED
    BY <2>1
<1>2. IsFiniteSet(1 .. m)
  <2>1. 1 \in Int /\ m \in Int
    OBVIOUS
  <2> QED
    BY ONLY <2>1, FS_Interval
<1>3. PICK S : S = {n \in DOMAIN fr : fr[n].arc = arc}
  OBVIOUS
<1>4. S \in SUBSET (1 .. m)
  BY <1>1, <1>3
<1>5. IsFiniteSet(S)
  BY <1>2, <1>4, FS_Subset
<1> QED
  BY <1>3, <1>5, FS_CardinalityType DEF Pending, Waiting

\* A frame is pushed.
LEMMA PendingMore ==
  ASSUME NEW fr \in Seq(FrameRec), NEW f \in FrameRec
  PROVE  \A arc : Pending(Append(fr, f), arc) = IF f.arc = arc THEN Pending(fr, arc) + 1 ELSE Pending(fr, arc)
<1>0. PICK new : new = Append(fr, f)
  OBVIOUS
<1>1. SUFFICES ASSUME NEW arc
               PROVE  Pending(new, arc) = IF f.arc = arc THEN Pending(fr, arc) + 1 ELSE Pending(fr, arc)
  BY <1>0
<1>2. PICK n \in Nat : n = Len(fr) + 1
  OBVIOUS
<1>3. DOMAIN new = DOMAIN fr \cup {n} /\ n \notin DOMAIN fr /\ new[n] = f
      /\ \A j \in DOMAIN fr : new[j] = fr[j]
  BY <1>0, <1>2, Appended
<1>4. PICK S : S = {m \in DOMAIN fr : fr[m].arc = arc}
  OBVIOUS
<1>5. PICK T : T = {m \in DOMAIN new : new[m].arc = arc}
  OBVIOUS
<1>6. IsFiniteSet(S) /\ n \notin S
  BY <1>3, <1>4, PendingFinite DEF Waiting
<1>7. CASE f.arc = arc
  <2>1. T = S \cup {n}
    BY <1>3, <1>4, <1>5, <1>7
  <2>2. Cardinality(S \cup {n}) = Cardinality(S) + 1
    BY <1>6, FS_AddElement
  <2> QED
    BY <1>4, <1>5, <1>7, <2>1, <2>2 DEF Pending, Waiting
<1>8. CASE f.arc # arc
  <2>1. T = S
    BY <1>3, <1>4, <1>5, <1>8
  <2> QED
    BY <1>4, <1>5, <1>8, <2>1 DEF Pending, Waiting
<1> QED
  BY <1>7, <1>8

\* The last frame is popped.
LEMMA Popped ==
  ASSUME NEW T, NEW s \in Seq(T), s # << >>, NEW new, new = SubSeq(s, 1, Len(s) - 1)
  PROVE  /\ new \in Seq(T) /\ Len(s) \in Nat \ {0} /\ Len(s) \in DOMAIN s
         /\ Len(new) = Len(s) - 1 /\ DOMAIN new = 1 .. Len(s) - 1 /\ DOMAIN s = 1 .. Len(s)
         /\ s[Len(s)] \in T /\ \A j \in DOMAIN new : new[j] = s[j]
<1>1. PICK n \in Nat : n = Len(s)
  OBVIOUS
<1>2. DOMAIN s = 1 .. n /\ \A j \in 1 .. n : s[j] \in T
  BY <1>1
<1>3. n # 0
  BY <1>1
<1>4. n - 1 \in Nat /\ 1 .. n - 1 \subseteq 1 .. n /\ n \in 1 .. n
  BY <1>3
<1>5. new = [j \in 1 .. n - 1 |-> s[j]]
  BY <1>1, <1>4
<1>6. new \in Seq(T) /\ Len(new) = n - 1 /\ DOMAIN new = 1 .. n - 1
  BY ONLY <1>2, <1>4, <1>5
<1>7. \A j \in 1 .. n - 1 : new[j] = s[j]
  BY <1>5
<1> QED
  BY <1>1, <1>2, <1>3, <1>4, <1>6, <1>7

\* The last frame counted an arc, or the others are as many as before.
LEMMA PendingLess ==
  ASSUME NEW fr \in Seq(FrameRec), fr # << >>
  PROVE  \A arc : Pending(fr, arc) =
                     IF fr[Len(fr)].arc = arc THEN Pending(SubSeq(fr, 1, Len(fr) - 1), arc) + 1
                     ELSE Pending(SubSeq(fr, 1, Len(fr) - 1), arc)
<1>0. PICK new : new = SubSeq(fr, 1, Len(fr) - 1)
  OBVIOUS
<1>1. PICK n \in Nat : n = Len(fr)
  OBVIOUS
<1>2. /\ new \in Seq(FrameRec) /\ n # 0 /\ DOMAIN new = 1 .. n - 1 /\ DOMAIN fr = 1 .. n
      /\ \A j \in DOMAIN new : new[j] = fr[j]
  BY <1>0, <1>1, Popped
<1>3. SUFFICES ASSUME NEW arc
               PROVE  Pending(fr, arc) = IF fr[n].arc = arc THEN Pending(new, arc) + 1 ELSE Pending(new, arc)
  BY <1>0, <1>1
<1>finite. \A b : IsFiniteSet(Waiting(new, b))
  <2>1. new \in Seq(FrameRec)
    BY <1>2
  <2> QED
    BY ONLY <2>1, PendingFinite
<1>4. PICK S : S = Waiting(new, arc)
  OBVIOUS
<1>5. PICK T : T = Waiting(fr, arc)
  OBVIOUS
<1>6. IsFiniteSet(S) /\ n \notin S
  <2>1. IsFiniteSet(S)
    BY <1>4, <1>finite
  <2>2. n \notin S
    BY <1>2, <1>4 DEF Waiting
  <2> QED
    BY <2>1, <2>2
<1>7. CASE fr[n].arc = arc
  <2>1. T = S \cup {n}
    BY <1>2, <1>4, <1>5, <1>7 DEF Waiting
  <2>2. Cardinality(S \cup {n}) = Cardinality(S) + 1
    BY <1>6, FS_AddElement
  <2> QED
    BY <1>4, <1>5, <1>7, <2>1, <2>2 DEF Pending
<1>8. CASE fr[n].arc # arc
  <2>1. T = S
    BY <1>2, <1>4, <1>5, <1>8 DEF Waiting
  <2> QED
    BY <1>4, <1>5, <1>8, <2>1 DEF Pending
<1> QED
  BY <1>7, <1>8

\* The running frame goes on.
GoesTo(fr, step) == [fr EXCEPT ![Len(fr)].at = step]

\* Nothing of a frame changes but its step.
LEMMA GoneOn ==
  ASSUME NEW fr \in Seq(FrameRec), fr # << >>,
         NEW step \in {"store", "look", "claim", "init", "insert"},
         NEW new, new = GoesTo(fr, step)
  PROVE  /\ new \in Seq(FrameRec) /\ DOMAIN new = DOMAIN fr /\ Len(new) = Len(fr)
         /\ Len(fr) \in DOMAIN fr /\ new[Len(fr)].at = step
         /\ \A j \in DOMAIN fr : /\ new[j].arc = fr[j].arc /\ new[j].e = fr[j].e
                                 /\ j # Len(fr) => new[j] = fr[j]
         /\ \A arc : Pending(new, arc) = Pending(fr, arc)
<1>1. PICK n \in Nat : n = Len(fr) /\ n \in DOMAIN fr
  OBVIOUS
<1>2. PICK x \in FrameRec : x = fr[n]
  BY <1>1
<1>3. PICK y : y = [x EXCEPT !.at = step]
  OBVIOUS
<1>4. y \in FrameRec /\ y.at = step /\ y.arc = x.arc /\ y.e = x.e
  BY <1>2, <1>3 DEF FrameRec
<1>5. new = [fr EXCEPT ![n] = y]
  BY <1>1, <1>2, <1>3 DEF GoesTo
<1>6. /\ new \in Seq(FrameRec) /\ DOMAIN new = DOMAIN fr
      /\ \A j \in DOMAIN fr : new[j] = IF j = n THEN y ELSE fr[j]
  <2>1. fr \in Seq(FrameRec) /\ n \in DOMAIN fr /\ y \in FrameRec
    BY <1>1, <1>4
  <2> QED
    BY ONLY <2>1, <1>5, Replaced
<1>7. Len(new) = Len(fr)
  BY <1>5, <1>6
<1>8. \A j \in DOMAIN fr : new[j].arc = fr[j].arc
  BY <1>2, <1>4, <1>6
<1>9. \A arc : Pending(new, arc) = Pending(fr, arc)
  <2>1. SUFFICES ASSUME NEW arc PROVE Pending(new, arc) = Pending(fr, arc)
    OBVIOUS
  <2>2. {m \in DOMAIN new : new[m].arc = arc} = {m \in DOMAIN fr : fr[m].arc = arc}
    BY <1>6, <1>8
  <2> QED
    BY <2>2 DEF Pending, Waiting
<1> QED
  BY <1>1, <1>2, <1>4, <1>6, <1>7, <1>8, <1>9

\* What was looked up is still there, and the count it was loaded from is no less.
FrameOK(ents, f) ==
  IF f.at = "store"
  THEN IsCell(ents, f.e, f.a, f.arc) /\ f.count > 0 /\ f.count <= CountAt(ents, f.e, f.a)
  ELSE f.e = 0 \/ IsEntry(ents, f.e, f.arc)

SameCell(f, g) == f.at = "store" /\ g.at = "store" /\ f.e = g.e /\ f.a = g.a

\* A routine loads no less than what it interrupts has loaded.
Rising(fr) ==
  \A m, n \in DOMAIN fr : m < n /\ SameCell(fr[m], fr[n]) => fr[m].count <= fr[n].count

\* Alone, the program stores what it has loaded, and starts the sampler once.
Alone(ents, fr, st, ni) ==
  /\ \A n \in DOMAIN fr :
       /\ fr[n].at = "store" => fr[n].count = CountAt(ents, fr[n].e, fr[n].a)
       /\ fr[n].at \in {"claim", "init"} => st = 0
  /\ st = 0 \/ (st = 1 /\ ~ ni)

\* The calls of each arc that are done, cl of them entered, and its counts.
Tally(ents, fr, cl, ns) ==
  \A arc \in Arcs :
    /\ CountOf(ents, arc) <= cl[arc] - Pending(fr, arc)
    /\ cl[arc] - Pending(fr, arc) > 0 => CountOf(ents, arc) > 0
    /\ ns = 1 => CountOf(ents, arc) = cl[arc] - Pending(fr, arc)

ProfileType ==
  /\ nesting \in Nat /\ starts \in Nat /\ calls \in [Arcs -> Nat]
  /\ entries \in Seq(FnRec) /\ frames \in Seq(FrameRec) /\ Len(frames) <= nesting

FramesOK(ents, fr) == \A n \in DOMAIN fr : FrameOK(ents, fr[n])

ProfileInv ==
  /\ ProfileType /\ Tally(entries, frames, calls, nesting)
  /\ FramesOK(entries, frames) /\ Rising(frames)
  /\ nesting = 1 => Alone(entries, frames, starts, need_init)

\* Without frames nothing is pending.
LEMMA EmptyPending == ASSUME NEW arc PROVE Pending(<< >>, arc) = 0
<1>1. Waiting(<< >>, arc) = {}
  BY DEF Waiting
<1> QED
  BY <1>1, FS_EmptySet DEF Pending

\* An empty list has counted nothing.
LEMMA EmptyCount == ASSUME NEW arc \in Arcs PROVE CountOf(<< >>, arc) = 0
<1>1. CopiesOf(<< >>, arc) = {}
  BY DEF CopiesOf, CellsOf
<1> QED
  BY <1>1, SumEmpty DEF CountOf

\* Before the first call nothing is counted.
LEMMA ProfileInitOK == ProfileInit => ProfileInv
<1>1. SUFFICES ASSUME ProfileInit PROVE ProfileInv
  OBVIOUS
<1>2. /\ nesting \in Nat /\ nesting >= 1 /\ starts = 0 /\ entries = << >> /\ frames = << >>
      /\ calls = [arc \in Arcs |-> 0]
  BY <1>1, ProfileAssumption DEF ProfileInit
<1>3. ProfileType
  BY <1>2 DEF ProfileType
<1>4. Tally(entries, frames, calls, nesting)
  <2>1. SUFFICES ASSUME NEW arc \in Arcs
                 PROVE  CountOf(entries, arc) = 0 /\ calls[arc] = 0 /\ Pending(frames, arc) = 0
    BY DEF Tally
  <2> QED
    BY <1>2, EmptyPending, EmptyCount
<1>5. DOMAIN frames = {}
  BY <1>2
<1> QED
  BY <1>2, <1>3, <1>4, <1>5 DEF ProfileInv, FramesOK, Rising, Alone

\* What mcount looks up is an entry of the function, and the arc's cell in it.
LEMMA LookedUp ==
  ASSUME entries \in Seq(FnRec), NEW arc \in Arcs, NEW e, e = EntryOf(arc),
         NEW a, a = ArcOf(arc, e)
  PROVE  /\ e \in Nat /\ a \in Nat /\ (e # 0 => IsEntry(entries, e, arc))
         /\ a # 0 => IsCell(entries, e, a, arc)
<1>1. PICK n \in Nat : DOMAIN entries = 1 .. n
  <2>1. Len(entries) \in Nat /\ DOMAIN entries = 1 .. Len(entries)
    OBVIOUS
  <2> QED
    BY <2>1
<1>2. PICK S : S = {i \in DOMAIN entries : entries[i].self_pc = arc[1]}
  OBVIOUS
<1>3. S \in SUBSET (1 .. n) /\ e = Latest(S)
  BY <1>1, <1>2 DEF EntryOf
<1>4. e \in Nat /\ (e # 0 => e \in S)
  BY <1>3, LatestIs
<1>5. e # 0 => IsEntry(entries, e, arc)
  BY <1>2, <1>4 DEF IsEntry
<1>6. CASE e = 0
  BY <1>4, <1>5, <1>6 DEF ArcOf
<1>7. CASE e # 0
  <2>1. e \in DOMAIN entries /\ entries[e] \in FnRec
    BY <1>5, <1>7 DEF IsEntry
  <2>2. entries[e].arcs \in Seq(ArcRec)
    BY <2>1 DEF FnRec
  <2>3. PICK m \in Nat : DOMAIN entries[e].arcs = 1 .. m
    <3>1. Len(entries[e].arcs) \in Nat /\ DOMAIN entries[e].arcs = 1 .. Len(entries[e].arcs)
      BY <2>2
    <3> QED
      BY <3>1
  <2>4. PICK R : R = {i \in DOMAIN entries[e].arcs : entries[e].arcs[i].from_pc = arc[2]}
    OBVIOUS
  <2>5. R \in SUBSET (1 .. m) /\ a = Latest(R)
    BY <1>7, <2>3, <2>4 DEF ArcOf
  <2>6. a \in Nat /\ (a # 0 => a \in R)
    BY <2>5, LatestIs
  <2> QED
    BY <1>4, <1>5, <1>7, <2>4, <2>6 DEF IsCell
<1> QED
  BY <1>6, <1>7

\* Entering a function: what it has loaded is the newest there is.
LEMMA EnterInv == ProfileInv /\ Enter /\ UNCHANGED nesting => ProfileInv'
<1>1. SUFFICES ASSUME ProfileInv, Enter, UNCHANGED nesting PROVE ProfileInv'
  OBVIOUS
<1>2. PICK arc \in Arcs :
        LET e == EntryOf(arc)
            a == ArcOf(arc, e)
        IN  /\ frames' = Append(frames, [at |-> IF a # 0 THEN "store" ELSE "look", arc |-> arc, e |-> e, a |-> a,
                             count |-> IF a # 0 THEN entries[e].arcs[a].count ELSE 0])
            /\ calls' = [calls EXCEPT ![arc] = @ + 1]
  BY <1>1 DEF Enter
<1>3. PICK e : e = EntryOf(arc)
  OBVIOUS
<1>4. PICK a : a = ArcOf(arc, e)
  OBVIOUS
<1>5. PICK c : c = IF a # 0 THEN CountAt(entries, e, a) ELSE 0
  OBVIOUS
<1>6. PICK f : f = [at |-> IF a # 0 THEN "store" ELSE "look", arc |-> arc, e |-> e, a |-> a, count |-> c]
  OBVIOUS
<1>7. frames' = Append(frames, f) /\ calls' = [calls EXCEPT ![arc] = @ + 1]
  BY <1>2, <1>3, <1>4, <1>5, <1>6 DEF CountAt
<1>8. /\ nesting' = nesting /\ starts' = starts /\ entries' = entries /\ need_init' = need_init
      /\ Len(frames) < nesting
  BY <1>1 DEF Enter
<1>9. ProfileType /\ entries \in Seq(FnRec) /\ frames \in Seq(FrameRec) /\ nesting \in Nat
      /\ calls \in [Arcs -> Nat]
  BY <1>1 DEF ProfileInv, ProfileType
<1>10. /\ e \in Nat /\ a \in Nat /\ (e # 0 => IsEntry(entries, e, arc))
       /\ a # 0 => IsCell(entries, e, a, arc)
  BY <1>3, <1>4, <1>9, LookedUp
<1>11. c \in Nat /\ (a # 0 => c > 0 /\ c = CountAt(entries, e, a))
  <2>1. CASE a = 0
    BY <1>5, <2>1
  <2>2. CASE a # 0
    <3>1. CountAt(entries, e, a) \in Nat \ {0}
      BY <1>9, <1>10, <2>2, CopiesAre
    <3> QED
      BY <1>5, <2>2, <3>1
  <2> QED
    BY <2>1, <2>2
<1>12. f \in FrameRec
  BY <1>6, <1>10, <1>11 DEF FrameRec
<1>13. /\ f.at = (IF a # 0 THEN "store" ELSE "look") /\ f.arc = arc /\ f.e = e /\ f.a = a /\ f.count = c
  BY <1>6
<1>14. FrameOK(entries, f)
  BY <1>10, <1>11, <1>13 DEF FrameOK
<1>15. PICK n \in Nat : n = Len(frames) + 1
  BY <1>9
<1>16. /\ frames' \in Seq(FrameRec) /\ DOMAIN frames' = DOMAIN frames \cup {n} /\ n \notin DOMAIN frames
       /\ frames'[n] = f /\ \A j \in DOMAIN frames : frames'[j] = frames[j]
  BY <1>7, <1>9, <1>12, <1>15, Appended
<1>17. Len(frames') = n /\ n <= nesting /\ DOMAIN frames = 1 .. n - 1
  BY <1>7, <1>8, <1>9, <1>15
<1>18. ProfileType'
  <2>1. calls' \in [Arcs -> Nat]
    BY <1>7, <1>9
  <2> QED
    BY <1>8, <1>9, <1>16, <1>17, <2>1 DEF ProfileType
<1>19. Tally(entries, frames, calls, nesting)'
  <2>1. \A b : Pending(frames', b) = IF f.arc = b THEN Pending(frames, b) + 1 ELSE Pending(frames, b)
    <3>1. frames \in Seq(FrameRec) /\ f \in FrameRec
      BY <1>9, <1>12
    <3>2. \A b : Pending(Append(frames, f), b) = IF f.arc = b THEN Pending(frames, b) + 1 ELSE Pending(frames, b)
      BY <3>1, PendingMore
    <3> QED
      BY <1>7, <3>2
  <2>2. ASSUME NEW b \in Arcs PROVE calls'[b] - Pending(frames', b) = calls[b] - Pending(frames, b)
    <3>1. Pending(frames, b) \in Nat /\ calls[b] \in Nat
      BY <1>9, PendingFinite
    <3>2. calls'[b] = IF b = arc THEN calls[b] + 1 ELSE calls[b]
      BY <1>7, <1>9
    <3> QED
      BY <1>13, <2>1, <3>1, <3>2
  <2>3. Tally(entries, frames, calls, nesting)
    BY <1>1 DEF ProfileInv
  <2> QED
    BY <1>8, <2>2, <2>3 DEF Tally
<1>20. FramesOK(entries, frames)'
  <2>1. FramesOK(entries, frames)
    BY <1>1 DEF ProfileInv
  <2> QED
    BY <1>8, <1>14, <1>16, <2>1 DEF FramesOK
<1>21. Rising(frames)'
  <2>1. SUFFICES ASSUME NEW i \in DOMAIN frames', NEW j \in DOMAIN frames', i < j,
                        SameCell(frames'[i], frames'[j])
                 PROVE  frames'[i].count <= frames'[j].count
    BY DEF Rising
  <2>2. CASE j \in DOMAIN frames /\ i \in DOMAIN frames
    <3>1. Rising(frames)
      BY <1>1 DEF ProfileInv
    <3> QED
      BY <1>16, <2>1, <2>2, <3>1 DEF Rising
  <2>3. CASE j = n
    <3>1. i \in DOMAIN frames /\ frames'[i] = frames[i] /\ frames'[j] = f
      BY <1>16, <2>1, <2>3
    <3>2. FrameOK(entries, frames[i])
      BY <1>1, <3>1 DEF ProfileInv, FramesOK
    <3> QED
      BY <1>10, <1>11, <1>13, <2>1, <3>1, <3>2 DEF FrameOK, SameCell
  <2>4. ~ (i = n /\ j \in DOMAIN frames)
    BY <1>17, <2>1
  <2> QED
    BY <1>16, <2>2, <2>3, <2>4, <2>1
<1>22. ASSUME nesting = 1 PROVE Alone(entries, frames, starts, need_init)'
  <2>1. Alone(entries, frames, starts, need_init)
    BY <1>1, <1>22 DEF ProfileInv
  <2>2. DOMAIN frames' = {n}
    BY <1>16, <1>17, <1>22
  <2>3. frames'[n].at = "store" => frames'[n].count = CountAt(entries, frames'[n].e, frames'[n].a)
    BY <1>11, <1>13, <1>16
  <2>4. frames'[n].at \notin {"claim", "init"}
    BY <1>13, <1>16
  <2> QED
    BY <1>8, <2>1, <2>2, <2>3, <2>4 DEF Alone
<1> QED
  BY <1>8, <1>18, <1>19, <1>20, <1>21, <1>22 DEF ProfileInv

\* The running frame n, the last, leaves.
Left(n) ==
  /\ n = Len(frames) /\ n \in DOMAIN frames /\ frames[n] \in FrameRec /\ Counting = frames[n]
  /\ frames' \in Seq(FrameRec) /\ Len(frames') <= nesting' /\ n \notin DOMAIN frames'
  /\ \A j \in DOMAIN frames' : j < n /\ j \in DOMAIN frames /\ frames'[j] = frames[j]
  /\ \A b \in Arcs : /\ Pending(frames, b) \in Nat /\ Pending(frames', b) \in Nat
                     /\ Pending(frames, b) =
                          IF frames[n].arc = b THEN Pending(frames', b) + 1
                          ELSE Pending(frames', b)
  /\ calls \in [Arcs -> Nat]
  /\ nesting = 1 => n = 1 /\ DOMAIN frames' = {}

\* What is left of the frames and the calls when the running frame leaves.
LEMMA LeavesShape ==
  ASSUME ProfileInv, frames # << >>, Leaves, UNCHANGED <<nesting, calls>>
  PROVE  \E n \in Nat : Left(n)
<1>1. /\ frames \in Seq(FrameRec) /\ nesting \in Nat /\ Len(frames) <= nesting
      /\ calls \in [Arcs -> Nat]
  BY DEF ProfileInv, ProfileType
<1>2. PICK n \in Nat : n = Len(frames)
  BY <1>1
<1>3. frames' = SubSeq(frames, 1, Len(frames) - 1) /\ nesting' = nesting
  BY DEF Leaves
<1>4. /\ frames' \in Seq(FrameRec) /\ n # 0 /\ n \in DOMAIN frames /\ Len(frames') = n - 1
      /\ DOMAIN frames' = 1 .. n - 1 /\ DOMAIN frames = 1 .. n
      /\ frames[n] \in FrameRec /\ \A j \in DOMAIN frames' : frames'[j] = frames[j]
  BY <1>1, <1>2, <1>3, Popped
<1>5. \A b : Pending(frames, b) =
               IF frames[n].arc = b THEN Pending(frames', b) + 1 ELSE Pending(frames', b)
  <2>1. \A b : Pending(frames, b) =
                 IF frames[Len(frames)].arc = b THEN Pending(SubSeq(frames, 1, Len(frames) - 1), b) + 1
                 ELSE Pending(SubSeq(frames, 1, Len(frames) - 1), b)
    BY <1>1, PendingLess
  <2> QED
    BY <1>2, <1>3, <2>1
<1>6. \A b : Pending(frames, b) \in Nat
  BY <1>1, PendingFinite
<1>7. \A b : Pending(frames', b) \in Nat
  BY ONLY <1>4, PendingFinite
<1>8. nesting = 1 => n = 1 /\ DOMAIN frames' = {}
  BY <1>1, <1>2, <1>4
<1>9. Counting = frames[n]
  BY <1>2 DEF Counting
<1>10. Len(frames') <= nesting' /\ n \notin DOMAIN frames'
       /\ \A j \in DOMAIN frames' : j < n /\ j \in DOMAIN frames
  BY <1>1, <1>2, <1>3, <1>4
<1>11. Left(n)
  BY <1>1, <1>2, <1>4, <1>5, <1>6, <1>7, <1>8, <1>9, <1>10 DEF Left
<1> QED
  BY <1>11

\* What remains of the invariant when the running frame leaves and the list keeps
\* what the others have looked up.
LEMMA RisingLeft ==
  ASSUME ProfileInv, NEW n \in Nat,
         \A j \in DOMAIN frames' : j < n /\ j \in DOMAIN frames /\ frames'[j] = frames[j]
  PROVE  Rising(frames)'
<1>1. Rising(frames)
  BY DEF ProfileInv
<1> QED
  BY <1>1 DEF Rising

\* Storing: the count is at most one more than it was, for what an interrupt routine
\* counted between is lost, and no less than what was loaded.
LEMMA StoreInv == ProfileInv /\ Store /\ UNCHANGED nesting => ProfileInv'
<1>1. SUFFICES ASSUME ProfileInv, Store, UNCHANGED nesting PROVE ProfileInv'
  OBVIOUS
<1>2. /\ frames # << >> /\ Counting.at = "store" /\ Leaves
      /\ entries' = Stored(entries, Counting.e, Counting.a, Counting.count + 1)
      /\ need_init' = need_init /\ starts' = starts /\ calls' = calls /\ nesting' = nesting
  BY <1>1 DEF Store, At, SetCount, Stored
<1>3. PICK n \in Nat : Left(n)
  BY <1>1, <1>2, LeavesShape
<1>left.
      /\ n = Len(frames) /\ n \in DOMAIN frames /\ frames[n] \in FrameRec /\ Counting = frames[n]
      /\ frames' \in Seq(FrameRec) /\ Len(frames') <= nesting' /\ n \notin DOMAIN frames'
      /\ \A j \in DOMAIN frames' : j < n /\ j \in DOMAIN frames /\ frames'[j] = frames[j]
      /\ \A b \in Arcs : /\ Pending(frames, b) \in Nat /\ Pending(frames', b) \in Nat
                         /\ Pending(frames, b) =
                              IF frames[n].arc = b THEN Pending(frames', b) + 1
                              ELSE Pending(frames', b)
      /\ calls \in [Arcs -> Nat]
      /\ nesting = 1 => n = 1 /\ DOMAIN frames' = {}
  BY <1>3 DEF Left
<1>4. PICK f \in FrameRec : f = frames[n]
  BY <1>left
<1>5. /\ f.at = "store" /\ f.arc \in Arcs /\ f.e \in Nat /\ f.a \in Nat /\ f.count \in Nat
      /\ entries' = Stored(entries, f.e, f.a, f.count + 1)
  BY <1>2, <1>left, <1>4 DEF FrameRec
<1>6. IsCell(entries, f.e, f.a, f.arc) /\ f.count > 0 /\ f.count <= CountAt(entries, f.e, f.a)
  <2>1. FrameOK(entries, f)
    BY <1>1, <1>left, <1>4 DEF ProfileInv, FramesOK
  <2> QED
    BY <1>5, <2>1 DEF FrameOK
<1>7. PICK e \in Nat : e = f.e
  BY <1>5
<1>8. PICK a \in Nat : a = f.a
  BY <1>5
<1>9. PICK c \in Nat \ {0} : c = f.count + 1
  BY <1>5
<1>10. PICK arc \in Arcs : arc = f.arc
  BY <1>5
<1>11. entries \in Seq(FnRec)
  BY <1>1 DEF ProfileInv, ProfileType
<1>12. e \in DOMAIN entries /\ a \in DOMAIN entries[e].arcs /\ IsCell(entries, e, a, arc)
  BY <1>6, <1>7, <1>8, <1>10 DEF IsCell, IsEntry
<1>13. PICK new : new = Stored(entries, e, a, c)
  OBVIOUS
<1>14. entries' = new
  BY <1>5, <1>7, <1>8, <1>9, <1>13
<1>15. new \in Seq(FnRec) /\ IsStored(entries, new, e, a, c)
  BY <1>11, <1>12, <1>13, StoreShape
<1>16. /\ \A d, b : IsEntry(entries, d, b) => IsEntry(new, d, b)
       /\ \A d, k, b : IsCell(entries, d, k, b) =>
            /\ IsCell(new, d, k, b)
            /\ CountAt(new, d, k) = IF d = e /\ k = a THEN c ELSE CountAt(entries, d, k)
       /\ \A b \in Arcs : b # arc => CountOf(new, b) = CountOf(entries, b)
       /\ CountOf(entries, arc) \in Nat /\ CountOf(new, arc) \in Nat
       /\ CountAt(entries, e, a) \in Nat /\ CountAt(entries, e, a) <= CountOf(entries, arc)
       /\ CountOf(new, arc) = CountOf(entries, arc) - CountAt(entries, e, a) + c
  <2>1. arc \in Arcs /\ c \in Nat \ {0}
    OBVIOUS
  <2>2. StoredCounts(entries, new, arc, e, a, c)
    BY ONLY <1>11, <1>12, <1>15, <2>1, CountStore
  <2> QED
    BY <2>2 DEF StoredCounts
<1>17. f.count <= CountAt(entries, e, a) /\ c = f.count + 1 /\ f.count > 0 /\ f.count \in Nat
  BY <1>5, <1>6, <1>7, <1>8, <1>9
<1>18. ASSUME nesting = 1 PROVE f.count = CountAt(entries, e, a)
  BY <1>1, <1>left, <1>4, <1>5, <1>7, <1>8, <1>18 DEF ProfileInv, Alone
<1>19. ProfileType'
  BY <1>1, <1>2, <1>left, <1>14, <1>15 DEF ProfileInv, ProfileType
<1>20. Tally(entries, frames, calls, nesting)'
  <2>1. Tally(entries, frames, calls, nesting)
    BY <1>1 DEF ProfileInv
  <2>2. SUFFICES ASSUME NEW b \in Arcs
                 PROVE  /\ CountOf(new, b) <= calls[b] - Pending(frames', b)
                        /\ calls[b] - Pending(frames', b) > 0 => CountOf(new, b) > 0
                        /\ nesting = 1 => CountOf(new, b) = calls[b] - Pending(frames', b)
    BY <1>2, <1>14 DEF Tally
  <2>3. /\ CountOf(entries, b) <= calls[b] - Pending(frames, b)
        /\ calls[b] - Pending(frames, b) > 0 => CountOf(entries, b) > 0
        /\ nesting = 1 => CountOf(entries, b) = calls[b] - Pending(frames, b)
    BY <2>1 DEF Tally
  <2>4. CASE b = arc
    <3>1. Pending(frames, b) = Pending(frames', b) + 1 /\ Pending(frames', b) \in Nat /\ calls[b] \in Nat
      BY <1>left, <1>4, <1>10, <2>4
    <3>2. CountOf(new, b) <= CountOf(entries, b) + 1 /\ CountOf(new, b) > 0
      BY <1>16, <1>17, <2>4
    <3>3. nesting = 1 => CountOf(new, b) = CountOf(entries, b) + 1
      BY <1>16, <1>17, <1>18, <2>4
    <3>4. CountOf(entries, b) \in Nat /\ CountOf(new, b) \in Nat
      BY <1>16, <2>4
    <3> QED
      BY <2>3, <3>1, <3>2, <3>3, <3>4
  <2>5. CASE b # arc
    <3>1. Pending(frames, b) = Pending(frames', b)
      BY <1>left, <1>4, <1>10, <2>5
    <3>2. CountOf(new, b) = CountOf(entries, b)
      BY <1>16, <2>5
    <3> QED
      BY <2>3, <3>1, <3>2
  <2> QED
    BY <2>4, <2>5
<1>21. FramesOK(entries, frames)'
  <2>1. SUFFICES ASSUME NEW j \in DOMAIN frames' PROVE FrameOK(new, frames[j])
    BY <1>left, <1>14 DEF FramesOK
  <2>2. j < n /\ j \in DOMAIN frames /\ FrameOK(entries, frames[j])
    BY <1>1, <1>left DEF ProfileInv, FramesOK
  <2>3. PICK g : g = frames[j]
    OBVIOUS
  <2>4. CASE g.at = "store"
    <3>1. IsCell(entries, g.e, g.a, g.arc) /\ g.count > 0 /\ g.count <= CountAt(entries, g.e, g.a)
      BY <2>2, <2>3, <2>4 DEF FrameOK
    <3>2. g.e = e /\ g.a = a => g.count <= f.count
      BY <1>1, <1>left, <1>4, <1>5, <1>7, <1>8, <2>2, <2>3, <2>4 DEF ProfileInv, Rising, SameCell
    <3>3. g.count \in Nat
      <4>1. frames \in Seq(FrameRec)
        BY <1>1 DEF ProfileInv, ProfileType
      <4>2. g \in FrameRec
        BY <2>2, <2>3, <4>1
      <4> QED
        BY <4>2 DEF FrameRec
    <3>4. IsCell(new, g.e, g.a, g.arc)
          /\ CountAt(new, g.e, g.a) = IF g.e = e /\ g.a = a THEN c ELSE CountAt(entries, g.e, g.a)
      BY <1>16, <3>1
    <3>5. g.count <= CountAt(new, g.e, g.a)
      BY <1>17, <3>1, <3>2, <3>3, <3>4
    <3> QED
      BY <2>3, <2>4, <3>1, <3>4, <3>5 DEF FrameOK
  <2>5. CASE g.at # "store"
    BY <1>16, <2>2, <2>3, <2>5 DEF FrameOK
  <2> QED
    BY <2>4, <2>5
<1>22. Rising(frames)'
  BY <1>1, <1>left, RisingLeft
<1>23. nesting = 1 => Alone(entries, frames, starts, need_init)'
  BY <1>1, <1>2, <1>left DEF ProfileInv, Alone
<1> QED
  BY <1>2, <1>19, <1>20, <1>21, <1>22, <1>23 DEF ProfileInv

\* The running frame goes on from one step to another that is not the store.
LEMMA GoesInv ==
  ASSUME ProfileInv, frames # << >>, NEW step \in {"claim", "init", "insert"}, GoesOn(step),
         Counting.at # "store", UNCHANGED <<nesting, entries, calls>>, starts' \in Nat,
         nesting = 1 => /\ step \in {"claim", "init"} => starts' = 0
                        /\ starts' = 0 \/ (starts' = 1 /\ ~ need_init')
  PROVE  ProfileInv'
<1>1. /\ frames \in Seq(FrameRec) /\ nesting \in Nat /\ Len(frames) <= nesting
      /\ calls \in [Arcs -> Nat] /\ entries \in Seq(FnRec)
  BY DEF ProfileInv, ProfileType
<1>2. PICK n \in Nat : n = Len(frames)
  BY <1>1
<1>3. PICK new : new = frames'
  OBVIOUS
<1>4. /\ new \in Seq(FrameRec) /\ DOMAIN new = DOMAIN frames /\ Len(new) = n
      /\ n \in DOMAIN frames /\ new[n].at = step
      /\ \A j \in DOMAIN frames : /\ new[j].arc = frames[j].arc /\ new[j].e = frames[j].e
                                  /\ j # n => new[j] = frames[j]
      /\ \A arc : Pending(new, arc) = Pending(frames, arc)
  <2>1. step \in {"store", "look", "claim", "init", "insert"}
    OBVIOUS
  <2>2. new = GoesTo(frames, step)
    BY <1>3 DEF GoesOn, GoesTo
  <2>3. /\ new \in Seq(FrameRec) /\ DOMAIN new = DOMAIN frames /\ Len(new) = Len(frames)
        /\ Len(frames) \in DOMAIN frames /\ new[Len(frames)].at = step
        /\ \A j \in DOMAIN frames : /\ new[j].arc = frames[j].arc /\ new[j].e = frames[j].e
                                    /\ j # Len(frames) => new[j] = frames[j]
        /\ \A arc : Pending(new, arc) = Pending(frames, arc)
    BY <1>1, <2>1, <2>2, GoneOn
  <2> QED
    BY <1>2, <2>3
<1>5. frames[n].at # "store" /\ step # "store"
  BY <1>2 DEF Counting
<1>6. ProfileType'
  BY <1>1, <1>2, <1>3, <1>4 DEF ProfileInv, ProfileType
<1>7. Tally(entries, frames, calls, nesting)'
  BY <1>3, <1>4 DEF ProfileInv, Tally
<1>8. FramesOK(entries, frames)'
  <2>1. SUFFICES ASSUME NEW j \in DOMAIN frames PROVE FrameOK(entries, new[j])
    BY <1>3, <1>4 DEF FramesOK
  <2>2. FrameOK(entries, frames[j])
    BY DEF ProfileInv, FramesOK
  <2>3. CASE j = n
    BY <1>4, <1>5, <2>2, <2>3 DEF FrameOK
  <2>4. CASE j # n
    BY <1>4, <2>2, <2>4
  <2> QED
    BY <2>3, <2>4
<1>9. Rising(frames)'
  <2>1. SUFFICES ASSUME NEW i \in DOMAIN frames, NEW j \in DOMAIN frames, i < j, SameCell(new[i], new[j])
                 PROVE  new[i].count <= new[j].count
    BY <1>3, <1>4 DEF Rising
  <2>2. i # n /\ j # n
    BY <1>4, <1>5, <2>1 DEF SameCell
  <2>3. new[i] = frames[i] /\ new[j] = frames[j]
    BY <1>4, <2>2
  <2> QED
    BY <2>1, <2>3 DEF ProfileInv, Rising
<1>10. ASSUME nesting = 1 PROVE Alone(entries, frames, starts, need_init)'
  <2>1. DOMAIN frames' = {n}
    <3>1. Len(frames) = 1 /\ DOMAIN frames = 1 .. 1
      BY <1>1, <1>2, <1>4, <1>10
    <3> QED
      BY <1>2, <1>3, <1>4, <3>1
  <2>2. frames'[n].at = step
    BY <1>3, <1>4
  <2> QED
    BY <1>5, <1>10, <2>1, <2>2 DEF Alone
<1> QED
  BY <1>6, <1>7, <1>8, <1>9, <1>10 DEF ProfileInv

\* The steps of a new arc before it is recorded: the sampler is claimed by one, and
\* started at most once when nothing interrupts.
LEMMA LookInv == ProfileInv /\ (Look \/ Claim \/ Initialise) /\ UNCHANGED nesting => ProfileInv'
<1>1. SUFFICES ASSUME ProfileInv, Look \/ Claim \/ Initialise, UNCHANGED nesting PROVE ProfileInv'
  OBVIOUS
<1>2. starts \in Nat /\ frames \in Seq(FrameRec) /\ Len(frames) <= nesting
  BY <1>1 DEF ProfileInv, ProfileType
<1>3. frames # << >> => Len(frames) \in DOMAIN frames
  BY <1>2
<1>4. nesting = 1 => starts = 0 \/ (starts = 1 /\ ~ need_init)
  BY <1>1 DEF ProfileInv, Alone
<1>5. nesting = 1 /\ frames # << >> /\ Counting.at \in {"claim", "init"} => starts = 0
  BY <1>1, <1>3 DEF ProfileInv, Alone, Counting
<1>6. CASE Look
  <2>1. PICK step \in {"claim", "init", "insert"} :
          GoesOn(step) /\ (step \in {"claim", "init"} => need_init)
    BY <1>6 DEF Look
  <2>2. /\ frames # << >> /\ Counting.at = "look" /\ starts' = starts /\ need_init' = need_init
        /\ UNCHANGED <<nesting, entries, calls>>
    BY <1>1, <1>6 DEF Look, At
  <2>3. nesting = 1 => /\ step \in {"claim", "init"} => starts' = 0
                       /\ starts' = 0 \/ (starts' = 1 /\ ~ need_init')
    BY <1>4, <2>1, <2>2
  <2>4. Counting.at # "store" /\ starts' \in Nat
    BY <1>2, <2>2
  <2> QED
    BY <1>1, <2>1, <2>2, <2>3, <2>4, GoesInv
<1>7. CASE Claim
  <2>1. PICK step \in {"claim", "init", "insert"} : step = "init"
    OBVIOUS
  <2>2. /\ frames # << >> /\ Counting.at = "claim" /\ starts' = starts /\ GoesOn(step)
        /\ UNCHANGED <<nesting, entries, calls>>
    BY <1>1, <1>7, <2>1 DEF Claim, At
  <2>3. nesting = 1 => /\ step \in {"claim", "init"} => starts' = 0
                       /\ starts' = 0 \/ (starts' = 1 /\ ~ need_init')
    BY <1>5, <2>2
  <2>4. Counting.at # "store" /\ starts' \in Nat
    BY <1>2, <2>2
  <2> QED
    BY <1>1, <2>1, <2>2, <2>3, <2>4, GoesInv
<1>8. CASE Initialise
  <2>1. PICK step \in {"claim", "init", "insert"} : step = "insert"
    OBVIOUS
  <2>2. /\ frames # << >> /\ Counting.at = "init" /\ GoesOn(step) /\ need_init' = ~ ticking
        /\ starts' = IF ticking THEN starts + 1 ELSE starts
        /\ UNCHANGED <<nesting, entries, calls>>
    BY <1>1, <1>8, <2>1 DEF Initialise, At
  <2>3. nesting = 1 => /\ step \in {"claim", "init"} => starts' = 0
                       /\ starts' = 0 \/ (starts' = 1 /\ ~ need_init')
    <3>1. CASE ticking
      <4>1. ~ need_init'
        BY <2>2, <3>1, Zenon
      <4>2. starts' = starts + 1
        BY <2>2, <3>1
      <4> QED
        BY <1>5, <2>1, <2>2, <4>1, <4>2
    <3>2. CASE ~ ticking
      BY <1>5, <2>1, <2>2, <3>2
    <3> QED
      BY <3>1, <3>2
  <2>4. Counting.at # "store" /\ starts' \in Nat
    BY <1>2, <2>2
  <2> QED
    BY <1>1, <2>1, <2>2, <2>3, <2>4, GoesInv
<1> QED
  BY <1>1, <1>6, <1>7, <1>8

\* Recording: the arc gets a cell of its own, counted once.
LEMMA RecordInv == ProfileInv /\ Record /\ UNCHANGED nesting => ProfileInv'
<1>1. SUFFICES ASSUME ProfileInv, Record, UNCHANGED nesting PROVE ProfileInv'
  OBVIOUS
<1>2. /\ frames # << >> /\ Counting.at = "insert" /\ Leaves /\ Insert(Counting.arc, Counting.e)
      /\ need_init' = need_init /\ starts' = starts /\ calls' = calls /\ nesting' = nesting
  BY <1>1 DEF Record, At
<1>3. PICK n \in Nat : Left(n)
  BY <1>1, <1>2, LeavesShape
<1>left.
      /\ n = Len(frames) /\ n \in DOMAIN frames /\ frames[n] \in FrameRec /\ Counting = frames[n]
      /\ frames' \in Seq(FrameRec) /\ Len(frames') <= nesting' /\ n \notin DOMAIN frames'
      /\ \A j \in DOMAIN frames' : j < n /\ j \in DOMAIN frames /\ frames'[j] = frames[j]
      /\ \A b \in Arcs : /\ Pending(frames, b) \in Nat /\ Pending(frames', b) \in Nat
                         /\ Pending(frames, b) =
                              IF frames[n].arc = b THEN Pending(frames', b) + 1
                              ELSE Pending(frames', b)
      /\ calls \in [Arcs -> Nat]
      /\ nesting = 1 => n = 1 /\ DOMAIN frames' = {}
  BY <1>3 DEF Left
<1>4. PICK f \in FrameRec : f = frames[n]
  BY <1>left
<1>5. PICK arc \in Arcs : arc = f.arc
  BY DEF FrameRec
<1>6. PICK e \in Nat : e = f.e
  BY DEF FrameRec
<1>7. entries \in Seq(FnRec) /\ (e = 0 \/ IsEntry(entries, e, arc)) /\ Insert(arc, e)
  <2>1. FrameOK(entries, f) /\ f.at = "insert" /\ Insert(f.arc, f.e)
    BY <1>1, <1>2, <1>left, <1>4 DEF ProfileInv, FramesOK
  <2>2. entries \in Seq(FnRec)
    BY <1>1 DEF ProfileInv, ProfileType
  <2> QED
    BY <1>5, <1>6, <2>1, <2>2 DEF FrameOK
<1>8. PICK new : new = entries'
  OBVIOUS
<1>9. new \in Seq(FnRec) /\ \E d \in Nat, a \in Nat : IsInserted(entries, new, arc, d, a)
  <2>1. CASE e = 0
    <3>1. new = Append(entries, [self_pc |-> arc[1], arcs |-> <<NewArc(arc)>>])
      BY <1>7, <1>8, <2>1 DEF Insert, NewArc
    <3> QED
      BY <1>7, <3>1, NewEntryShape
  <2>2. CASE e # 0
    <3>1. new = [entries EXCEPT ![e].arcs = Append(@, NewArc(arc))]
      BY <1>7, <1>8, <2>2 DEF Insert, NewArc
    <3>2. IsEntry(entries, e, arc)
      BY <1>7, <2>2
    <3> QED
      BY <1>7, <3>1, <3>2, NewArcShape
  <2> QED
    BY <2>1, <2>2
<1>10. PICK d \in Nat, a \in Nat : IsInserted(entries, new, arc, d, a)
  BY <1>9
<1>11. /\ \A k, b : IsEntry(entries, k, b) => IsEntry(new, k, b)
       /\ \A k, m, b : IsCell(entries, k, m, b) =>
            IsCell(new, k, m, b) /\ CountAt(new, k, m) = CountAt(entries, k, m)
       /\ \A b \in Arcs : b # arc => CountOf(new, b) = CountOf(entries, b)
       /\ CountOf(entries, arc) \in Nat /\ CountOf(new, arc) = CountOf(entries, arc) + 1
  <2>1. arc \in Arcs /\ d \in Nat /\ a \in Nat
    OBVIOUS
  <2>2. InsertedCounts(entries, new, arc)
    BY ONLY <1>7, <1>9, <1>10, <2>1, CountInsert
  <2> QED
    BY <2>2 DEF InsertedCounts
<1>12. ProfileType'
  BY <1>1, <1>2, <1>left, <1>8, <1>9 DEF ProfileInv, ProfileType
<1>13. Tally(entries, frames, calls, nesting)'
  <2>1. Tally(entries, frames, calls, nesting)
    BY <1>1 DEF ProfileInv
  <2>2. SUFFICES ASSUME NEW b \in Arcs
                 PROVE  /\ CountOf(new, b) <= calls[b] - Pending(frames', b)
                        /\ calls[b] - Pending(frames', b) > 0 => CountOf(new, b) > 0
                        /\ nesting = 1 => CountOf(new, b) = calls[b] - Pending(frames', b)
    BY <1>2, <1>8 DEF Tally
  <2>3. /\ CountOf(entries, b) <= calls[b] - Pending(frames, b)
        /\ calls[b] - Pending(frames, b) > 0 => CountOf(entries, b) > 0
        /\ nesting = 1 => CountOf(entries, b) = calls[b] - Pending(frames, b)
    BY <2>1 DEF Tally
  <2>4. CASE b = arc
    <3>1. Pending(frames, b) = Pending(frames', b) + 1 /\ Pending(frames', b) \in Nat /\ calls[b] \in Nat
      BY <1>left, <1>4, <1>5, <2>4
    <3>2. CountOf(entries, b) \in Nat /\ CountOf(new, b) = CountOf(entries, b) + 1
      BY <1>11, <2>4
    <3> QED
      BY <2>3, <3>1, <3>2
  <2>5. CASE b # arc
    <3>1. Pending(frames, b) = Pending(frames', b)
      BY <1>left, <1>4, <1>5, <2>5
    <3>2. CountOf(new, b) = CountOf(entries, b)
      BY <1>11, <2>5
    <3> QED
      BY <2>3, <3>1, <3>2
  <2> QED
    BY <2>4, <2>5
<1>14. FramesOK(entries, frames)'
  <2>1. SUFFICES ASSUME NEW j \in DOMAIN frames' PROVE FrameOK(new, frames[j])
    BY <1>left, <1>8 DEF FramesOK
  <2>2. FrameOK(entries, frames[j])
    BY <1>1, <1>left DEF ProfileInv, FramesOK
  <2> QED
    BY <1>11, <2>2 DEF FrameOK
<1>15. Rising(frames)'
  BY <1>1, <1>left, RisingLeft
<1>16. nesting = 1 => Alone(entries, frames, starts, need_init)'
  BY <1>1, <1>2, <1>left DEF ProfileInv, Alone
<1> QED
  BY <1>2, <1>12, <1>13, <1>14, <1>15, <1>16 DEF ProfileInv

\* Every step keeps the invariant.
LEMMA ProfileNextOK == ProfileInv /\ [ProfileNext]_profileVars => ProfileInv'
<1>1. SUFFICES ASSUME ProfileInv, [ProfileNext]_profileVars PROVE ProfileInv'
  OBVIOUS
<1>2. ASSUME UNCHANGED <<nesting, need_init, starts, entries, frames, calls>> PROVE ProfileInv'
  BY <1>1, <1>2 DEF ProfileInv, ProfileType, Tally, FramesOK, Rising, Alone
<1>3. CASE ProfileNext
  <2>1. UNCHANGED nesting
    BY <1>3 DEF ProfileNext
  <2>2. CASE Enter
    BY <1>1, <2>1, <2>2, EnterInv
  <2>3. CASE Store
    BY <1>1, <2>1, <2>3, StoreInv
  <2>4. CASE Look \/ Claim \/ Initialise
    BY <1>1, <2>1, <2>4, LookInv
  <2>5. CASE Record
    BY <1>1, <2>1, <2>5, RecordInv
  <2>6. CASE ClockStarts \/ ProgramMemory
    BY <1>2, <2>1, <2>6 DEF ClockStarts, ProgramMemory
  <2> QED
    BY <1>3, <2>2, <2>3, <2>4, <2>5, <2>6 DEF ProfileNext
<1>4. CASE UNCHANGED profileVars
  BY <1>2, <1>4 DEF profileVars
<1> QED
  BY <1>1, <1>3, <1>4

\* However many interrupt routines count between the steps of one another, an arc is
\* never counted more often than it was entered and never lost altogether, and a
\* program that is not interrupted counts every call and starts the sampler once
\* (mcount and __mcount_record of alt_gmon.c).
THEOREM ArcsAlwaysRecorded == ProfileSpec => []ArcsRecorded
<1>1. ProfileInv => ArcsRecorded
  <2>1. SUFFICES ASSUME ProfileInv PROVE ArcsRecorded
    OBVIOUS
  <2>2. \A arc \in Arcs : Counted(arc) = CountOf(entries, arc) /\ Finished(arc) = calls[arc] - Pending(frames, arc)
    <3>1. \A arc : Counted(arc) = CountOf(entries, arc)
      BY CountedIs
    <3>2. \A arc : Finished(arc) = calls[arc] - Pending(frames, arc)
      BY DEF Finished, Pending, Waiting
    <3> QED
      BY <3>1, <3>2
  <2>3. Tally(entries, frames, calls, nesting)
    BY <2>1 DEF ProfileInv
  <2>4. nesting = 1 => starts <= 1
    BY <2>1 DEF ProfileInv, Alone
  <2> QED
    BY <2>2, <2>3, <2>4 DEF ArcsRecorded, Tally
<1> QED
  BY <1>1, ProfileInitOK, ProfileNextOK, PTL DEF ProfileSpec
=============================================================================
