------------------------------- MODULE MCDes3 -------------------------------
(***************************************************************************)
(* The core on two-bit blocks, one-bit halves and two rounds an instance.   *)
(* A behaviour takes one of two parts.  In "pipe" it is des3.v with keys    *)
(* and data; in "reset" des3_fsm.v under resets: what moves there is the    *)
(* valid bits, so one block and one key are enough.                         *)
(***************************************************************************)
EXTENDS Des3Refinement, Des3Reset

CONSTANTS
    MaxInFlight,         \* bound on the blocks in the core at a time
    Quiet                \* the pipelines start empty, in the part "reset"

VARIABLE part

mcvars == <<rvars, part>>

MCBlock == Word(2)
MCHalf == Word(1)
MCKey == Word(2)

MCSplit(b) == <<Slice(b, 0, 0), Slice(b, 1, 1)>>
MCJoin(lr) == Append2(lr[2], lr[1], 1)
MCF(r, k) == r \cap k
MCKS(key, d, j) == LET n == IF d THEN 1 - j ELSE j IN Slice(key, n, n)

In(b, k, d, v) == [idata |-> b, key1 |-> k[1], key2 |-> k[2], key3 |-> k[3],
                   decrypt |-> d, valid_in |-> v]

Keys0 == <<{}, {}, {}>>
Keys1 == <<{0}, {0, 1}, {1}>>
Keys2 == <<{1}, {0, 1}, {0}>>

PipePorts == {In(b, Keys1, FALSE, TRUE) : b \in {{0}, {0, 1}}} \cup
             {In({0}, Keys2, TRUE, TRUE),
              In({}, Keys1, FALSE, FALSE), In({}, Keys2, TRUE, FALSE)}
ResetPorts == {In({}, Keys0, FALSE, v) : v \in BOOLEAN}
MCPorts == PipePorts \cup ResetPorts

\* The registers that the ports were sampled into hold what they held.
SamePorts(i) ==
    /\ stage1_key(i) = encrypt1.key_in1 /\ i.key2 = decrypt2.key_in1
    /\ stage3_key(i) = encrypt3.key_in1 /\ i.decrypt = encrypt1.decrypt1

\* The keys change only with a request, and MaxInFlight bounds those.
PipeStep(i) ==
    /\ Held(i)
    /\ IF i.valid_in THEN InFlight < MaxInFlight ELSE SamePorts(i)
    /\ FsmClock(i)

\* The power-up states whose registers hold what some ports would leave there;
\* the valid bits that no reset clears are free.
PowerUp(ports) ==
    \E i \in ports, v1, v2, v3 \in BOOLEAN :
         LET Up(k, d, v) == E1!PoweredUp(k, k, d, d, v, Split(ZeroBlock))
         IN  /\ encrypt1 = Up(stage1_key(i), i.decrypt, v1)
             /\ decrypt2 = Up(i.key2, ~i.decrypt, v2)
             /\ encrypt3 = Up(stage3_key(i), i.decrypt, v3)

MCInit ==
    \/ part = "pipe" /\ PowerUp(PipePorts) /\ RInit
    \/ part = "reset" /\ PowerUp(ResetPorts) /\ RInit /\ (Quiet => InFlight = 0)

\* Nothing is counted: a block in the core passes for a ghost.
PipeNext ==
    /\ part = "pipe"
    /\ (\E i \in PipePorts : PipeStep(i)) \/ FsmReset
    /\ ghosts' = InFlight'
    /\ UNCHANGED <<accepted, emitted, part>>

ResetClock ==
    part = "reset" /\ (\E i \in ResetPorts : RClock(i)) /\ UNCHANGED part
ResetReset == part = "reset" /\ RReset /\ UNCHANGED part

MCNext == PipeNext \/ ResetClock \/ ResetReset

MCSpec == MCInit /\ [][MCNext]_mcvars /\ WF_mcvars(ResetClock)
=============================================================================
