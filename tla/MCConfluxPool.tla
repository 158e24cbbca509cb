---------------------------- MODULE MCConfluxPool ----------------------------
(* Small instances of ConfluxPool for TLC. *)
EXTENDS ConfluxPool, TLC

CircSymmetry == Permutations(Circs)

=============================================================================
