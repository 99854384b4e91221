------------------------------ MODULE MCAccounts ------------------------------
(* Instances of Accounts for TLC. *)
EXTENDS Accounts, TLC

MCSymmetry ==
  Permutations(UserIds) \cup Permutations(SessionIds) \cup Permutations(Clients)
=============================================================================
