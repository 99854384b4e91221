----------------------------- MODULE MCEnrollment -----------------------------
(* Instances of Enrollment for TLC. *)
EXTENDS Enrollment, TLC

MCSymmetry ==
  Permutations(Keys) \cup Permutations(Bodies) \cup Permutations(Clients)
=============================================================================
