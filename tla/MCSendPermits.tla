--------------------------- MODULE MCSendPermits ---------------------------
(* SendPermits on small instances, for TLC. *)
EXTENDS SendPermits, TLC

Symmetry == Permutations(Workers) \cup Permutations(Tenants)

=============================================================================
