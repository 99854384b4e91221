------------------------- MODULE PersistedTimeProofs -------------------------
(***************************************************************************)
(* How far the order of persisted times can be from the order of the       *)
(* times.                                                                  *)
(***************************************************************************)
EXTENDS PersistedTime, TLAPS

\* With whole seconds the text order is the chronological one.
LEMMA WholeSecondKeys ==
  ASSUME TicksPerSecond = 1, NEW t \in Nat
  PROVE  TextKey(t) = t
  BY DEF TextKey

\* Comparing the texts formatTime writes errs by less than a second: a text
\* that sorts before another is of a time less than a second after the other's
\* at most, and times a second apart compare as they should.  Different times
\* have different texts.
THEOREM TextOrder ==
  ASSUME NEW s \in Nat, NEW t \in Nat
  PROVE  /\ TextKey(s) \in Int /\ TextKey(t) \in Int
         /\ TextKey(s) <= TextKey(t) => s < t + TicksPerSecond
         /\ s + TicksPerSecond <= t => TextKey(s) < TextKey(t)
         /\ TextKey(s) = TextKey(t) => s = t
<1>1. CASE TicksPerSecond = 1
  BY <1>1 DEF TextKey
<1>2. CASE TicksPerSecond = 2
  BY <1>2 DEF TextKey
<1>3. CASE TicksPerSecond = 5
  BY <1>3 DEF TextKey
<1>4. CASE TicksPerSecond = 10
  BY <1>4 DEF TextKey
<1>5. QED
  BY <1>1, <1>2, <1>3, <1>4, ResolutionAssumption DEF ResolutionAssumption

=============================================================================
