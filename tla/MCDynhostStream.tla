---------------------------- MODULE MCDynhostStream ----------------------------
(* Small instances of DynhostStream for TLC. *)
EXTENDS DynhostStream

=============================================================================
