-------------------------- MODULE MCHostPrepDesktop --------------------------
(* Small instances of HostPrepDesktop. *)
EXTENDS HostPrepDesktop, TLC

CONSTANTS d1, d2

DesktopSymmetry == Permutations(Procs)
=============================================================================
