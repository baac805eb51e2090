----------------------------- MODULE CipherPipe -----------------------------
(***************************************************************************)
(* What a pipelined cipher promises: a delay line of Latency places.  A     *)
(* clock edge moves every block one place on and takes in at most one new   *)
(* one, already enciphered under the key and direction of its request; a    *)
(* block in the last place is on the output.  A flush empties every place   *)
(* but the ones in Survivors.                                               *)
(***************************************************************************)
EXTENDS Naturals

CONSTANTS
    Latency,        \* clock edges from a request to its result
    Survivors,      \* the places that a flush does not empty
    Request,        \* the requests: a block, its keys and its direction
    Result,         \* the blocks
    Cipher(_)       \* the block that a request asks for

VARIABLE line       \* the set of the blocks at each place: none or one

Place == 0 .. Latency - 1

Init == /\ line \in [Place -> {{}} \cup {{b} : b \in Result}]
        /\ \A p \in Place \ Survivors : line[p] = {}

\* A clock edge at which the requests in rs, none or one, come in.
Shift(rs) ==
    line' = [p \in Place |-> IF p = 0 THEN {Cipher(r) : r \in rs} ELSE line[p-1]]

Flush == line' = [p \in Place |-> IF p \in Survivors THEN line[p] ELSE {}]

Next == Shift({}) \/ (\E r \in Request : Shift({r})) \/ Flush

Spec == Init /\ [][Next]_line
=============================================================================
