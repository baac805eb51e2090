------------------------------- MODULE Walks -------------------------------
(***************************************************************************)
(* A walk over the inputs of an algorithm: `at' says what is walked (`of') *)
(* and where the walk has come to.                                         *)
(***************************************************************************)
VARIABLE at

On(subject) == at.of = subject
=============================================================================
