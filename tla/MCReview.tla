------------------------------- MODULE MCReview -------------------------------
(* Instances of Review for TLC. *)
EXTENDS Review, TLC

MCSymmetry ==
  Permutations(Clients) \cup Permutations(ReviewIds) \cup Permutations(Workers)
=============================================================================
