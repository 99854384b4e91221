--------------------------- MODULE MCSectionLedger ---------------------------
(* An instance of SectionLedger for TLC. *)
EXTENDS SectionLedger, TLC

\* Ranges that overlap in part, wholly and not at all, and an invalid one.
MCPages == {[first |-> 1, last |-> 1], [first |-> 1, last |-> 2],
            [first |-> 2, last |-> 2], [first |-> 2, last |-> 3]}

\* Windows that overlap, that only touch, and an empty one.
MCWindows == {[start |-> 1, end |-> 2], [start |-> 1, end |-> 3],
              [start |-> 2, end |-> 3], [start |-> 2, end |-> 2]}

MCSymmetry ==
  Permutations(AssignmentIds) \cup Permutations(SessionIds)
=============================================================================
