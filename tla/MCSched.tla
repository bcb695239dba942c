------------------------------ MODULE MCSched ------------------------------
(***************************************************************************)
(* Sched for TLC: the processes are interchangeable.                       *)
(***************************************************************************)
EXTENDS Sched, TLC

ProcSymmetry == Permutations(Proc)
=============================================================================
