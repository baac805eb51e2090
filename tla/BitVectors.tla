----------------------------- MODULE BitVectors -----------------------------
(***************************************************************************)
(* Verilog bit vectors.  A vector is the set of the indices of its bits    *)
(* that are 1, so the 64-bit vectors are SUBSET (0 .. 63).                  *)
(***************************************************************************)
EXTENDS Integers, Sequences, FiniteSetsExt

\* The vectors of w bits.
Word(w) == SUBSET (0 .. w - 1)

\* The operator ^ of Verilog.
Xor(a, b) == (a \ b) \cup (b \ a)

\* A list of "assign out[j] = in[T[j + 1]]", lowest output bit first.
Wire(T, in) == {j \in 0 .. Len(T) - 1 : T[j + 1] \in in}

\* A concatenation {in[T[1]], in[T[2]], ...}, highest output bit first.
Concat(T, in) == {Len(T) - i : i \in {n \in 1 .. Len(T) : T[n] \in in}}

\* The part select x[hi:lo], moved down to bit 0.
Slice(x, hi, lo) == {i - lo : i \in {n \in x : lo <= n /\ n <= hi}}

\* The concatenation {hi, lo} of two vectors, lo having w bits.
Append2(hi, lo, w) == {i + w : i \in hi} \cup lo

\* The unsigned number a vector stands for, and back.
Number(x) == SumSet({2 ^ i : i \in x})
Vector(n, w) == {i \in 0 .. w - 1 : (n \div 2 ^ i) % 2 = 1}

\* The operators << and >> on a vector of w bits.
ShiftLeft(x, s, w) == {i + s : i \in x} \cap (0 .. w - 1)
ShiftRight(x, s) == {i - s : i \in {n \in x : n >= s}}

\* The vector with all its w bits inverted.
Not(x, w) == (0 .. w - 1) \ x
=============================================================================
