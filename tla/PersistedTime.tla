---------------------------- MODULE PersistedTime ----------------------------
(***************************************************************************)
(* How the store orders instants.  formatTime in internal/storage/sqlite/  *)
(* store.go writes a time as RFC3339Nano text, and SQL compares the text.  *)
(***************************************************************************)
EXTENDS Integers

CONSTANT TicksPerSecond   \* resolution of the model's clock

\* A tick is 1, 1/2, 1/5 or 1/10 of a second: TextKey is exact for these, as
\* a fraction of a second then has one digit.
ASSUME ResolutionAssumption == TicksPerSecond \in {1, 2, 5, 10}

\* The rank of a time's text.  A whole second has no fraction: "...00Z" sorts
\* after "...00.5Z", as '.' < 'Z', and so after every fraction of itself.  With
\* whole-second times the order is chronological.
TextKey(t) ==
  IF t % TicksPerSecond = 0 THEN t + TicksPerSecond - 1 ELSE t - 1

=============================================================================
