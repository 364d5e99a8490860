----------------------------- MODULE MCScheduler -----------------------------
(* Scheduler on a small heap: the PCB addresses are model values. *)
EXTENDS Scheduler, TLC

(* Addresses are only compared, so permuting them is sound for safety. *)
AddrSymmetry == Permutations(Addr)
=============================================================================
