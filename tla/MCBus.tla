------------------------------- MODULE MCBus -------------------------------
(***************************************************************************)
(* des3_avalon.v on four-bit blocks, two-bit words and two rounds an        *)
(* instance, with one of two hosts: main.c, or any host that makes up to    *)
(* MaxWrites polite writes.                                                 *)
(***************************************************************************)
EXTENDS Firmware

CONSTANTS
    Hosts,       \* "main" for main.c, "any" for the other
    MaxWrites,   \* bound on the writes of any host
    MaxBusy      \* bound on the idle bus cycles between accesses of main, in all

VARIABLES
    host,        \* the host of this behaviour
    used         \* what it has used of its bound

MCBlock == Word(4)
MCHalf == Word(2)
MCKey == Word(4)

MCSplit(b) == LET p == Wire(<<2, 0, 3, 1>>, b)
              IN  <<Slice(p, 3, 2), Slice(p, 1, 0)>>
MCJoin(lr) == Wire(<<1, 3, 0, 2>>, Append2(lr[1], lr[2], 2))
MCF(r, k) == IF r \subseteq k THEN {1} ELSE Xor({0}, k \cap r)
MCKS(key, d, j) == IF d = (j = 0) THEN Slice(key, 3, 2)
                                  ELSE Xor(Slice(key, 1, 0), {0})
MCidata1 == {0, 2}
MCidata2 == {3}
MCkey1 == {0, 3}
MCkey2 == {1, 2}
MCkey3 == {2}

HostWrites ==
    {Write(0, {0}), Write(3, {1}), Write(5, {0}), Write(6, {0, 1}),
     Write(8, {0}), Write(8, {0, 1}), Write(8, {1}), Write(9, {0})}

\* Power-up with registers that have sampled an idle, cleared register file;
\* the valid bits that no reset clears are free.
MCInit ==
    /\ \E v1, v2, v3 \in BOOLEAN :
         LET Up(d, v) == E1!PoweredUp({}, {}, d, d, v, Split(ZeroBlock))
         IN  /\ encrypt1 = Up(FALSE, v1) /\ decrypt2 = Up(TRUE, v2)
             /\ encrypt3 = Up(FALSE, v3)
    /\ RegfileInit /\ pending = Leftovers
    /\ pc = 1 /\ result = {} /\ resets = 0
    /\ answered = FALSE /\ fresh = FALSE
    /\ host \in Hosts /\ used = 0

mcvars == <<fvars, host, used>>

\* The CPU makes an access a cycle, but for MaxBusy cycles at most.
MainNext ==
    /\ host = "main"
    /\ \/ (CpuStep \/ CpuReset \/ SystemReset) /\ UNCHANGED used
       \/ CpuBusy /\ used < MaxBusy /\ used' = used + 1

Idles == BusCycle(NoWrite) /\ UNCHANGED used
WritesOne ==
    /\ used < MaxWrites /\ used' = used + 1
    /\ \E b \in HostWrites : Polite(b) /\ BusCycle(b)
Resets == AvalonReset /\ UNCHANGED used

AnyNext ==
    /\ host = "any"
    /\ Idles \/ WritesOne \/ Resets
    /\ UNCHANGED <<cpu, resets, answered>>

MCNext == (MainNext \/ AnyNext) /\ UNCHANGED host

\* As FFairness, for the program.
MCSpec == MCInit /\ [][MCNext]_mcvars /\ WF_pc(host = "main" /\ pc' \in 1 .. Display)

(***************************************************************************)
(* The loop prints over and over (main.c, lines 16-40): the status becomes  *)
(* 1 and stays so, and no poll waits.                                       *)
(***************************************************************************)
MainPrints == host = "main" => PrintsForever
=============================================================================
