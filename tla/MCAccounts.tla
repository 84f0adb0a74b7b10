------------------------------ MODULE MCAccounts ------------------------------
EXTENDS Accounts, TLC

(* Requests and session ids are interchangeable.                             *)
Symmetry == Permutations(Reqs) \cup Permutations(Sids)

=============================================================================
