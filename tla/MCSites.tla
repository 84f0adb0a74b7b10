-------------------------------- MODULE MCSites -------------------------------
EXTENDS Sites, TLC

(* Requests are interchangeable.                                             *)
Symmetry == Permutations(Reqs)

=============================================================================
