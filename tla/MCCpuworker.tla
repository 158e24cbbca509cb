----------------------------- MODULE MCCpuworker -----------------------------
(***************************************************************************)
(* Instances of Cpuworker for TLC.                                         *)
(***************************************************************************)
EXTENDS Cpuworker, TLC

Symmetry == Permutations(Circs) \cup Permutations(Workers)
=============================================================================
