--------------------------- MODULE MCHostPrepLinux ---------------------------
(* Small instances of HostPrepLinux. *)
EXTENDS HostPrepLinux, TLC

CONSTANTS d1, d2, d3

HostSymmetry == Permutations(Procs)
=============================================================================
