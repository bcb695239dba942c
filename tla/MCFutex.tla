------------------------------- MODULE MCFutex -------------------------------
(* Futex for TLC: processes are interchangeable. *)
EXTENDS Futex, TLC

Symmetry == Permutations(Proc)
=============================================================================
