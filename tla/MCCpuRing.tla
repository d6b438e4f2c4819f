----------------------------- MODULE MCCpuRing -----------------------------
(* Instances of CpuRing for TLC. *)
EXTENDS CpuRing, TLC

CONSTANTS r1, r2

AnyOrder == Permutations(Runs)
=============================================================================
