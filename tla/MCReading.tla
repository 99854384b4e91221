------------------------------ MODULE MCReading ------------------------------
(* Instances of Reading for TLC. *)
EXTENDS Reading, TLC

MCProgramWindow == [start |-> 1, end |-> 3]

\* Concurrency instance: two windows that overlap and two pages that do not,
\* so sections clash or coexist depending on the pages.
MCPages == {[first |-> 1, last |-> 1], [first |-> 2, last |-> 2]}
MCWindows == {[start |-> 1, end |-> 2], [start |-> 1, end |-> 3]}

\* Move instance: also windows that leave the program.
MCAnyWindows == [start : 1 .. 3, end : 2 .. 4]

\* Half-second instants: 2, 4 and 6 are whole seconds.  One window begins and
\* ends on whole seconds and the other between them.
MCHalfSecondProgram == [start |-> 2, end |-> 6]
MCHalfSecondWindows == {[start |-> 4, end |-> 6], [start |-> 3, end |-> 5]}

MCSymmetry ==
  Permutations(AssignmentIds) \cup Permutations(SessionIds)
    \cup Permutations(Clients)
=============================================================================
