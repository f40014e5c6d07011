---------------------------- MODULE MCGuestSession ----------------------------
(* GuestSession for TLC: the workloads are interchangeable. *)
EXTENDS GuestSession

Symmetry == Permutations(Targets)

=============================================================================
