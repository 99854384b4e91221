------------------------- MODULE SectionLedgerProofs -------------------------
(***************************************************************************)
(* Proofs about SectionLedger, for every set of rows and members, every    *)
(* input and every bound.                                                  *)
(***************************************************************************)
EXTENDS SectionLedger, TLAPS

-----------------------------------------------------------------------------
(* The row constructors *)

\* The empty rows are rows.
LEMMA EmptyRowTypes == NoAssignment \in Assignment /\ NoSession \in Session
  BY DEF NoAssignment, NoSession, Assignment, Session, AssignmentState,
         SessionState, Pages, Windows, NoPages, NoWindow, NoTime

\* A freshly reserved section is a row of version 1.
LEMMA NewAssignmentFacts ==
  ASSUME NEW m \in Members \cup {Nil}, NEW p \in Pages, NEW w \in Windows
  PROVE  /\ NewAssignment(m, p, w) \in Assignment
         /\ NewAssignment(m, p, w).state = "reserved"
         /\ NewAssignment(m, p, w).pages = p
         /\ NewAssignment(m, p, w).window = w
         /\ NewAssignment(m, p, w).member = m
         /\ NewAssignment(m, p, w).version = 1
  BY DEF NewAssignment, NoAssignment, Assignment, AssignmentState, NoTime

\* A move replaces pages and window and nothing else.
LEMMA MovedFacts ==
  ASSUME NEW row \in Assignment, NEW p \in Pages, NEW w \in Windows
  PROVE  /\ Moved(row, p, w) \in Assignment
         /\ Moved(row, p, w).state = row.state
         /\ Moved(row, p, w).pages = p
         /\ Moved(row, p, w).window = w
         /\ Moved(row, p, w).member = row.member
         /\ Moved(row, p, w).owner = row.owner
         /\ Moved(row, p, w).version = row.version + 1
<1>1. PICK v \in Nat : v = row.version + 1
  BY DEF Assignment
<1>2. [row EXCEPT !.pages = p, !.window = w, !.version = v] \in Assignment
  BY DEF Assignment, AssignmentState, NoTime
<1>3. Moved(row, p, w) = [row EXCEPT !.pages = p, !.window = w, !.version = v]
  BY <1>1 DEF Moved
<1>4. QED  BY <1>1, <1>2, <1>3 DEF Assignment, NoTime

\* Starting leases the section to session s.
LEMMA StartedFacts ==
  ASSUME NEW row \in Assignment, NEW s \in SessionIds \cup {Nil}, NEW t \in Nat
  PROVE  /\ StartedAssignment(row, s, t) \in Assignment
         /\ StartedAssignment(row, s, t).state = "in_reading"
         /\ StartedAssignment(row, s, t).owner = s
         /\ StartedAssignment(row, s, t).pages = row.pages
         /\ StartedAssignment(row, s, t).window = row.window
         /\ StartedAssignment(row, s, t).member = row.member
         /\ StartedAssignment(row, s, t).version = row.version + 1
<1>1. PICK v \in Nat : v = row.version + 1
  BY DEF Assignment
<1>a. PICK k \in Nat : k = row.token + 1
  BY DEF Assignment
<1>b. PICK u \in Nat : u = t + SessionLeaseTTL
  BY BoundsAssumption DEF BoundsAssumption
<1>2. [row EXCEPT !.state = "in_reading", !.owner = s, !.token = k,
              !.until = u, !.version = v] \in Assignment
  BY DEF Assignment, AssignmentState, NoTime
<1>3. StartedAssignment(row, s, t) = [row EXCEPT !.state = "in_reading", !.owner = s, !.token = k,
              !.until = u, !.version = v]
  BY <1>1, <1>a, <1>b DEF StartedAssignment
<1>4. QED  BY <1>1, <1>2, <1>3 DEF Assignment, NoTime

\* Submitting ends the lease.
LEMMA SubmittedFacts ==
  ASSUME NEW row \in Assignment
  PROVE  /\ SubmittedAssignment(row) \in Assignment
         /\ SubmittedAssignment(row).state = "submitted"
         /\ SubmittedAssignment(row).pages = row.pages
         /\ SubmittedAssignment(row).window = row.window
         /\ SubmittedAssignment(row).member = row.member
         /\ SubmittedAssignment(row).version = row.version + 1
<1>1. PICK v \in Nat : v = row.version + 1
  BY DEF Assignment
<1>2. [row EXCEPT !.state = "submitted", !.owner = Nil,
              !.until = NoTime, !.version = v] \in Assignment
  BY DEF Assignment, AssignmentState, NoTime
<1>3. SubmittedAssignment(row) = [row EXCEPT !.state = "submitted", !.owner = Nil,
              !.until = NoTime, !.version = v]
  BY <1>1 DEF SubmittedAssignment
<1>4. QED  BY <1>1, <1>2, <1>3 DEF Assignment, NoTime

\* Expiring ends the reservation.
LEMMA ExpiredFacts ==
  ASSUME NEW row \in Assignment
  PROVE  /\ ExpiredAssignment(row) \in Assignment
         /\ ExpiredAssignment(row).state = "expired"
         /\ ExpiredAssignment(row).pages = row.pages
         /\ ExpiredAssignment(row).window = row.window
         /\ ExpiredAssignment(row).member = row.member
         /\ ExpiredAssignment(row).version = row.version + 1
<1>1. PICK v \in Nat : v = row.version + 1
  BY DEF Assignment
<1>2. [row EXCEPT !.state = "expired", !.owner = Nil,
              !.until = NoTime, !.version = v] \in Assignment
  BY DEF Assignment, AssignmentState, NoTime
<1>3. ExpiredAssignment(row) = [row EXCEPT !.state = "expired", !.owner = Nil,
              !.until = NoTime, !.version = v]
  BY <1>1 DEF ExpiredAssignment
<1>4. QED  BY <1>1, <1>2, <1>3 DEF Assignment, NoTime

\* Release ends in a released or expired row; it moves the version unless it
\* changes nothing.
LEMMA ReleasedFacts ==
  ASSUME NEW row \in Assignment
  PROVE  /\ ReleasedAssignment(row) \in Assignment
         /\ ReleasedAssignment(row).state \in {"released", "expired"}
         /\ ReleasedAssignment(row).pages = row.pages
         /\ ReleasedAssignment(row).window = row.window
         /\ ReleasedAssignment(row).member = row.member
         /\ \/ ReleasedAssignment(row) = row
            \/ /\ row.state \notin {"released", "expired"}
               /\ ReleasedAssignment(row).version = row.version + 1
<1>1. PICK v \in Nat : v = row.version + 1
  BY DEF Assignment
<1>2. [row EXCEPT !.state = "released", !.owner = Nil,
                  !.until = NoTime, !.version = v] \in Assignment
  BY DEF Assignment, AssignmentState, NoTime
<1>3. CASE row.state \in {"released", "expired"}
  BY <1>3 DEF ReleasedAssignment
<1>4. CASE row.state \notin {"released", "expired"}
  <2>1. ReleasedAssignment(row)
          = [row EXCEPT !.state = "released", !.owner = Nil,
                        !.until = NoTime, !.version = v]
    BY <1>1, <1>4 DEF ReleasedAssignment
  <2>2. QED  BY <1>1, <1>2, <1>4, <2>1 DEF Assignment
<1>5. QED  BY <1>3, <1>4

\* A started session is active from version 2 on.
LEMMA StartedSessionFacts ==
  ASSUME NEW a \in AssignmentIds \cup {Nil},
         NEW m \in Members \cup {Nil}, NEW t \in Nat
  PROVE  /\ StartedSession(a, m, t) \in Session
         /\ StartedSession(a, m, t).state = "active"
         /\ StartedSession(a, m, t).assignment = a
         /\ StartedSession(a, m, t).member = m
         /\ StartedSession(a, m, t).startedAt = t
         /\ StartedSession(a, m, t).version = 2
  BY EmptyRowTypes DEF StartedSession, NoSession, Session, SessionState

\* Submitting and abandoning keep the session's assignment, reader and start.
LEMMA EndedSessionFacts ==
  ASSUME NEW row \in Session, NEW p \in Pages
  PROVE  /\ SubmittedSession(row, p) \in Session
         /\ SubmittedSession(row, p).state = "submitted"
         /\ SubmittedSession(row, p).evidence = p
         /\ SubmittedSession(row, p).assignment = row.assignment
         /\ SubmittedSession(row, p).member = row.member
         /\ SubmittedSession(row, p).startedAt = row.startedAt
         /\ SubmittedSession(row, p).version = row.version + 1
         /\ AbandonedSession(row) \in Session
         /\ AbandonedSession(row).state = "abandoned"
         /\ AbandonedSession(row).assignment = row.assignment
         /\ AbandonedSession(row).member = row.member
         /\ AbandonedSession(row).startedAt = row.startedAt
         /\ AbandonedSession(row).version = row.version + 1
<1>1. PICK v \in Nat : v = row.version + 1
  BY DEF Session
<1>2. /\ [row EXCEPT !.state = "submitted", !.evidence = p, !.version = v]
           \in Session
      /\ [row EXCEPT !.state = "abandoned", !.version = v] \in Session
  BY DEF Session, SessionState
<1>3. /\ SubmittedSession(row, p)
           = [row EXCEPT !.state = "submitted", !.evidence = p, !.version = v]
      /\ AbandonedSession(row)
           = [row EXCEPT !.state = "abandoned", !.version = v]
  BY <1>1 DEF SubmittedSession, AbandonedSession
<1>4. QED  BY <1>1, <1>2, <1>3 DEF Session

-----------------------------------------------------------------------------
(* Types *)

\* The tables hold well-formed rows and the clock stays within its bound.
THEOREM LedgerTypeCorrect == LedgerSpec => []LedgerTypeOK
<1>1. LedgerInit => LedgerTypeOK
  BY EmptyRowTypes, BoundsAssumption
  DEF LedgerInit, LedgerTypeOK, BoundsAssumption
<1>2. LedgerTypeOK /\ [LedgerNext]_ledgerVars => LedgerTypeOK'
  <2> SUFFICES ASSUME LedgerTypeOK, [LedgerNext]_ledgerVars
               PROVE  LedgerTypeOK'
    OBVIOUS
  <2> USE DEF LedgerTypeOK, WriteAssignment, WriteSession
  <2>1. CASE Advance
    BY <2>1, BoundsAssumption DEF Advance, BoundsAssumption
  <2>2. ASSUME NEW a \in AssignmentIds, NEW m \in Members,
               NEW p \in InputPages, NEW w \in InputWindows,
               Reserve(a, m, p, w)
        PROVE  LedgerTypeOK'
    <3>1. NewAssignment(m, p, w) \in Assignment
      BY NewAssignmentFacts, InputAssumption DEF InputAssumption
    <3>2. QED  BY <2>2, <3>1 DEF Reserve
  <2>3. ASSUME NEW a \in AssignmentIds,
               NEW p \in InputPages, NEW w \in InputWindows, Move(a, p, w)
        PROVE  LedgerTypeOK'
    <3>1. Moved(assignments[a], p, w) \in Assignment
      BY MovedFacts, InputAssumption DEF InputAssumption
    <3>2. QED  BY <2>3, <3>1 DEF Move
  <2>4. ASSUME NEW a \in AssignmentIds, Expire(a)
        PROVE  LedgerTypeOK'
    <3>1. ExpiredAssignment(assignments[a]) \in Assignment
      BY ExpiredFacts
    <3>2. QED  BY <2>4, <3>1 DEF Expire
  <2>5. ASSUME NEW a \in AssignmentIds, NEW s \in SessionIds,
               NEW t \in 1 .. Horizon, Start(a, s, t)
        PROVE  LedgerTypeOK'
    <3>1. /\ StartedAssignment(assignments[a], s, t) \in Assignment
          /\ assignments[a].member \in Members \cup {Nil}
      BY StartedFacts DEF Assignment
    <3>2. StartedSession(a, assignments[a].member, t) \in Session
      BY <3>1, StartedSessionFacts
    <3>3. QED  BY <2>5, <3>1, <3>2 DEF Start
  <2>6. ASSUME NEW a \in AssignmentIds, NEW s \in SessionIds,
               NEW p \in InputPages, Submit(a, s, p)
        PROVE  LedgerTypeOK'
    <3>1. /\ SubmittedAssignment(assignments[a]) \in Assignment
          /\ SubmittedSession(sessions[s], p) \in Session
      BY SubmittedFacts, EndedSessionFacts, InputAssumption
      DEF InputAssumption
    <3>2. QED  BY <2>6, <3>1 DEF Submit
  <2>7. ASSUME NEW a \in AssignmentIds, NEW s \in SessionIds, Abandon(a, s)
        PROVE  LedgerTypeOK'
    <3>1. NoPages \in Pages
      BY DEF NoPages, Pages
    <3>2. /\ ReleasedAssignment(assignments[a]) \in Assignment
          /\ AbandonedSession(sessions[s]) \in Session
      BY <3>1, ReleasedFacts, EndedSessionFacts
    <3>3. QED  BY <2>7, <3>2 DEF Abandon
  <2>8. CASE UNCHANGED ledgerVars
    BY <2>8 DEF ledgerVars
  <2>9. QED
    BY <2>1, <2>2, <2>3, <2>4, <2>5, <2>6, <2>7, <2>8 DEF LedgerNext
<1>3. QED  BY <1>1, <1>2, PTL DEF LedgerSpec

-----------------------------------------------------------------------------
(* The operations whatever the times *)

(* What is written does not depend on how times compare; only whether a      *)
(* section is free, and whether it is over, does.  These are the operations  *)
(* without those two guards: whatever they keep is kept however the store    *)
(* compares times.                                                           *)

ReserveUntimed(a, m, p, w) ==
  /\ assignments[a].state = "absent"
  /\ WriteAssignment(a, NewAssignment(m, p, w))
  /\ UNCHANGED <<clock, sessions>>

MoveUntimed(a, p, w) ==
  /\ assignments[a].state = "reserved"
  /\ WriteAssignment(a, Moved(assignments[a], p, w))
  /\ UNCHANGED <<clock, sessions>>

ExpireUntimed(a) ==
  /\ assignments[a].state \in {"reserved", "in_reading"}
  /\ WriteAssignment(a, ExpiredAssignment(assignments[a]))
  /\ UNCHANGED <<clock, sessions>>

BookingStep ==
  \E a \in AssignmentIds, p \in InputPages, w \in InputWindows :
    \/ \E m \in Members : ReserveUntimed(a, m, p, w)
    \/ MoveUntimed(a, p, w)

SessionStep ==
  \E a \in AssignmentIds, s \in SessionIds :
    \/ \E t \in 1 .. Horizon : Start(a, s, t)
    \/ \E p \in InputPages : Submit(a, s, p)
    \/ Abandon(a, s)

UntimedNext ==
  \/ Advance
  \/ BookingStep
  \/ SessionStep
  \/ \E a \in AssignmentIds : ExpireUntimed(a)

\* The ledger's operations are among them.
LEMMA LedgerIsUntimed ==
  ASSUME [LedgerNext]_ledgerVars
  PROVE  [UntimedNext]_ledgerVars
  BY DEF LedgerNext, UntimedNext, BookingStep, SessionStep, Reserve,
         ReserveUntimed, Move, MoveUntimed, Expire, ExpireUntimed

-----------------------------------------------------------------------------
(* No double booking *)

\* Two held sections share a page, and each begins d or more before the other
\* ends: with d = 1 the domain's conflict, with d a second the overlaps that
\* no comparison of texts overlooks.
ClashBy(a, b, d) ==
  /\ a.state \notin Inactive
  /\ b.state \notin Inactive
  /\ a.window.start + d <= b.window.end
  /\ b.window.start + d <= a.window.end
  /\ Overlaps(a.pages, b.pages)

ClearBy(id, row, d) ==
  \A b \in AssignmentIds \ {id} : ~ClashBy(row, assignments[b], d)

NoClashBy(d) ==
  \A a, b \in AssignmentIds : a # b => ~ClashBy(assignments[a], assignments[b], d)

\* A clash of one tick is a conflict.
LEMMA ClashIsConflict ==
  ASSUME NEW a \in Assignment, NEW b \in Assignment
  PROVE  ClashBy(a, b, 1) <=> Conflicts(a, b)
<1>1. /\ a.window.start \in Nat /\ a.window.end \in Nat
      /\ b.window.start \in Nat /\ b.window.end \in Nat
  BY DEF Assignment, Windows
<1>2. QED  BY <1>1 DEF ClashBy, Conflicts

\* Writing a row that clashes with no other keeps the table free of clashes.
LEMMA ClearWrite ==
  ASSUME LedgerTypeOK, NEW d, NoClashBy(d), NEW a \in AssignmentIds,
         NEW row \in Assignment, ClearBy(a, row, d), WriteAssignment(a, row)
  PROVE  NoClashBy(d)'
<1>1. \A b \in AssignmentIds :
        assignments'[b] = IF b = a THEN row ELSE assignments[b]
  BY DEF WriteAssignment, LedgerTypeOK
<1>2. ASSUME NEW b \in AssignmentIds, b # a
      PROVE  ~ClashBy(row, assignments[b], d) /\ ~ClashBy(assignments[b], row, d)
  BY <1>2 DEF ClearBy, ClashBy, Overlaps
<1>3. QED  BY <1>1, <1>2 DEF NoClashBy

\* A section that keeps its pages and window, and does not come back to life,
\* clashes with nothing it did not clash with before.
LEMMA KeptSlotClear ==
  ASSUME LedgerTypeOK, NEW d, NoClashBy(d), NEW a \in AssignmentIds,
         NEW row \in Assignment,
         row.pages = assignments[a].pages, row.window = assignments[a].window,
         row.state \in Inactive \/ assignments[a].state \notin Inactive
  PROVE  ClearBy(a, row, d)
  BY DEF ClearBy, NoClashBy, ClashBy

\* Only reservations and moves can make two sections clash.
LEMMA NoClashStep ==
  ASSUME LedgerTypeOK, NEW d, NoClashBy(d),
         \/ SessionStep
         \/ \E a \in AssignmentIds : ExpireUntimed(a)
         \/ UNCHANGED assignments
  PROVE  NoClashBy(d)'
<1>1. ASSUME NEW a \in AssignmentIds, NEW row \in Assignment,
             WriteAssignment(a, row),
             row.pages = assignments[a].pages,
             row.window = assignments[a].window,
             row.state \in Inactive \/ assignments[a].state \notin Inactive
      PROVE  NoClashBy(d)'
  BY <1>1, KeptSlotClear, ClearWrite
<1>2. ASSUME NEW a \in AssignmentIds
      PROVE  assignments[a] \in Assignment
  BY DEF LedgerTypeOK
<1>3. ASSUME NEW a \in AssignmentIds, ExpireUntimed(a)
      PROVE  NoClashBy(d)'
  BY <1>1, <1>2, <1>3, ExpiredFacts DEF ExpireUntimed, Inactive
<1>4. ASSUME NEW a \in AssignmentIds, NEW s \in SessionIds,
             NEW t \in 1 .. Horizon, Start(a, s, t)
      PROVE  NoClashBy(d)'
  BY <1>1, <1>2, <1>4, StartedFacts DEF Start, Inactive
<1>5. ASSUME NEW a \in AssignmentIds, NEW s \in SessionIds,
             NEW p \in InputPages, Submit(a, s, p)
      PROVE  NoClashBy(d)'
  BY <1>1, <1>2, <1>5, SubmittedFacts DEF Submit, Inactive
<1>6. ASSUME NEW a \in AssignmentIds, NEW s \in SessionIds, Abandon(a, s)
      PROVE  NoClashBy(d)'
  BY <1>1, <1>2, <1>6, ReleasedFacts DEF Abandon, Inactive
<1>7. CASE UNCHANGED assignments
  BY <1>7 DEF NoClashBy
<1>8. QED
  BY <1>3, <1>4, <1>5, <1>6, <1>7 DEF SessionStep

\* Two sections still held never share a page at the same moment.
THEOREM BookingsExclusive == LedgerSpec => []NoDoubleBooking
<1>1. LedgerInit => NoDoubleBooking
  BY DEF LedgerInit, NoDoubleBooking, Conflicts, NoAssignment, Inactive
<1>2. LedgerTypeOK /\ NoDoubleBooking /\ LedgerTypeOK'
      /\ [LedgerNext]_ledgerVars => NoDoubleBooking'
  <2> SUFFICES ASSUME LedgerTypeOK, NoDoubleBooking, LedgerTypeOK',
                      [LedgerNext]_ledgerVars
               PROVE  NoDoubleBooking'
    OBVIOUS
  <2>1. /\ \A a \in AssignmentIds : assignments[a] \in Assignment
        /\ \A a \in AssignmentIds : assignments'[a] \in Assignment
    BY DEF LedgerTypeOK
  <2>2. NoClashBy(1)
    BY <2>1, ClashIsConflict DEF NoClashBy, NoDoubleBooking
  <2>3. ASSUME NEW a \in AssignmentIds, NEW row \in Assignment, Bookable(a, row),
               WriteAssignment(a, row)
        PROVE  NoClashBy(1)'
    <3>1. ClearBy(a, row, 1)
      BY <2>1, <2>3, ClashIsConflict DEF ClearBy, Bookable
    <3>2. QED  BY <2>2, <2>3, <3>1, ClearWrite
  <2>4. ASSUME NEW a \in AssignmentIds, NEW m \in Members,
               NEW p \in InputPages, NEW w \in InputWindows,
               Reserve(a, m, p, w)
        PROVE  NoClashBy(1)'
    <3>1. NewAssignment(m, p, w) \in Assignment
      BY NewAssignmentFacts, InputAssumption DEF InputAssumption
    <3>2. QED  BY <2>3, <2>4, <3>1 DEF Reserve
  <2>5. ASSUME NEW a \in AssignmentIds,
               NEW p \in InputPages, NEW w \in InputWindows, Move(a, p, w)
        PROVE  NoClashBy(1)'
    <3>1. Moved(assignments[a], p, w) \in Assignment
      BY <2>1, MovedFacts, InputAssumption DEF InputAssumption
    <3>2. QED  BY <2>3, <2>5, <3>1 DEF Move
  <2>6. NoClashBy(1)'
    BY <2>2, <2>4, <2>5, NoClashStep
    DEF LedgerNext, SessionStep, Advance, Expire, ExpireUntimed, ledgerVars
  <2>7. QED
    BY <2>1, <2>6, ClashIsConflict DEF NoClashBy, NoDoubleBooking
<1>3. QED  BY <1>1, <1>2, LedgerTypeCorrect, PTL DEF LedgerSpec

-----------------------------------------------------------------------------
(* A section and its session agree *)

\* The invariants on the two tables, together.
Agreement ==
  /\ LeaseBelongsToReader
  /\ SessionMatchesAssignment
  /\ SubmittedHasSession
  /\ EvidenceInsideSection

\* A step that writes one section nobody reads, and no session.
LEMMA FreeSectionWrite ==
  ASSUME LedgerTypeOK, Agreement, NEW a \in AssignmentIds,
         NEW row \in Assignment,
         assignments[a].state \in {"absent", "reserved"},
         row.state \in {"reserved", "expired"},
         WriteAssignment(a, row), UNCHANGED sessions
  PROVE  Agreement'
<1>1. \A b \in AssignmentIds :
        assignments'[b] = IF b = a THEN row ELSE assignments[b]
  BY DEF WriteAssignment, LedgerTypeOK
<1>2. \A s \in SessionIds : sessions[s].state # "absent" =>
        /\ sessions[s].assignment \in AssignmentIds
        /\ sessions[s].assignment # a
  BY DEF Agreement, SessionMatchesAssignment, LedgerTypeOK, Session, SessionState
<1>3. LeaseBelongsToReader'
  BY <1>1 DEF Agreement, LeaseBelongsToReader
<1>4. SessionMatchesAssignment'
  BY <1>1, <1>2 DEF Agreement, SessionMatchesAssignment
<1>5. SubmittedHasSession'
  BY <1>1 DEF Agreement, SubmittedHasSession
<1>6. EvidenceInsideSection'
  BY <1>1, <1>2 DEF Agreement, EvidenceInsideSection, LedgerTypeOK, Session
<1>7. QED  BY <1>3, <1>4, <1>5, <1>6 DEF Agreement

\* Expiring a section leaves its reader, if any, with an active session.
LEMMA ExpireAgreement ==
  ASSUME LedgerTypeOK, Agreement, NEW a \in AssignmentIds, ExpireUntimed(a)
  PROVE  Agreement'
<1> DEFINE row == ExpiredAssignment(assignments[a])
<1>1. /\ row.state = "expired" /\ row.window = assignments[a].window
      /\ row.pages = assignments[a].pages
      /\ row.member = assignments[a].member
  BY ExpiredFacts DEF LedgerTypeOK
<1>2. \A b \in AssignmentIds :
        assignments'[b] = IF b = a THEN row ELSE assignments[b]
  BY DEF ExpireUntimed, WriteAssignment, LedgerTypeOK
<1>3. /\ sessions' = sessions
      /\ assignments[a].state \in {"reserved", "in_reading"}
  BY DEF ExpireUntimed
<1> HIDE DEF row
<1>4. LeaseBelongsToReader'
  BY <1>1, <1>2, <1>3 DEF Agreement, LeaseBelongsToReader
<1>5. SessionMatchesAssignment'
  BY <1>1, <1>2, <1>3 DEF Agreement, SessionMatchesAssignment
<1>6. SubmittedHasSession'
  BY <1>1, <1>2, <1>3 DEF Agreement, SubmittedHasSession
<1>7. EvidenceInsideSection'
  BY <1>1, <1>2, <1>3
  DEF Agreement, EvidenceInsideSection, SessionMatchesAssignment
<1>8. QED  BY <1>4, <1>5, <1>6, <1>7 DEF Agreement

\* Starting binds a fresh session to a section that had none.
LEMMA StartAgreement ==
  ASSUME LedgerTypeOK, Agreement, NEW a \in AssignmentIds,
         NEW s \in SessionIds, NEW t \in 1 .. Horizon, Start(a, s, t)
  PROVE  Agreement'
<1> DEFINE row == StartedAssignment(assignments[a], s, t)
           new == StartedSession(a, assignments[a].member, t)
<1>1. /\ row.state = "in_reading" /\ row.owner = s
      /\ row.window = assignments[a].window
      /\ row.pages = assignments[a].pages
      /\ row.member = assignments[a].member
  BY StartedFacts DEF LedgerTypeOK
<1>2. /\ new.state = "active" /\ new.assignment = a
      /\ new.member = assignments[a].member /\ new.startedAt = t
  <2>1. assignments[a].member \in Members \cup {Nil}
    BY DEF LedgerTypeOK, Assignment
  <2>2. QED  BY <2>1, StartedSessionFacts
<1>3. \A b \in AssignmentIds :
        assignments'[b] = IF b = a THEN row ELSE assignments[b]
  BY DEF Start, WriteAssignment, LedgerTypeOK
<1>4. \A x \in SessionIds :
        sessions'[x] = IF x = s THEN new ELSE sessions[x]
  BY DEF Start, WriteSession, LedgerTypeOK
<1>5. /\ assignments[a].state = "reserved" /\ sessions[s].state = "absent"
      /\ assignments[a].window.start <= t /\ t < assignments[a].window.end
  BY DEF Start
<1>6. \A x \in SessionIds : sessions[x].state # "absent" =>
        /\ sessions[x].assignment \in AssignmentIds
        /\ sessions[x].assignment # a
  BY <1>5
  DEF Agreement, SessionMatchesAssignment, LedgerTypeOK, Session, SessionState
<1> HIDE DEF row, new
<1>7. LeaseBelongsToReader'
  BY <1>1, <1>2, <1>3, <1>4, <1>5 DEF Agreement, LeaseBelongsToReader
<1>8. SessionMatchesAssignment'
  BY <1>1, <1>2, <1>3, <1>4, <1>5, <1>6
  DEF Agreement, SessionMatchesAssignment
<1>9. SubmittedHasSession'
  BY <1>1, <1>2, <1>3, <1>4, <1>5 DEF Agreement, SubmittedHasSession
<1>10. EvidenceInsideSection'
  BY <1>1, <1>2, <1>3, <1>4, <1>5, <1>6 DEF Agreement, EvidenceInsideSection
<1>11. QED  BY <1>7, <1>8, <1>9, <1>10 DEF Agreement

\* No other session belongs to a section that s is reading.
LEMMA OnlyReader ==
  ASSUME LedgerTypeOK, Agreement, NEW a \in AssignmentIds,
         NEW s \in SessionIds, assignments[a].state = "in_reading",
         assignments[a].owner = s,
         NEW x \in SessionIds, x # s, sessions[x].state # "absent"
  PROVE  sessions[x].assignment \in AssignmentIds \ {a}
  BY DEF Agreement, SessionMatchesAssignment, LedgerTypeOK, Session,
         SessionState

\* Submitting closes the section and its session together.
LEMMA SubmitAgreement ==
  ASSUME LedgerTypeOK, Agreement, NEW a \in AssignmentIds,
         NEW s \in SessionIds, NEW p \in InputPages, Submit(a, s, p)
  PROVE  Agreement'
<1> DEFINE row == SubmittedAssignment(assignments[a])
           new == SubmittedSession(sessions[s], p)
<1>1. /\ row.state = "submitted"
      /\ row.window = assignments[a].window
      /\ row.pages = assignments[a].pages
      /\ row.member = assignments[a].member
  BY SubmittedFacts DEF LedgerTypeOK
<1>2. /\ new.state = "submitted" /\ new.assignment = a /\ new.evidence = p
      /\ new.member = sessions[s].member
      /\ new.startedAt = sessions[s].startedAt
  BY EndedSessionFacts, InputAssumption DEF Submit, LedgerTypeOK, InputAssumption
<1>3. \A b \in AssignmentIds :
        assignments'[b] = IF b = a THEN row ELSE assignments[b]
  BY DEF Submit, WriteAssignment, LedgerTypeOK
<1>4. \A x \in SessionIds :
        sessions'[x] = IF x = s THEN new ELSE sessions[x]
  BY DEF Submit, WriteSession, LedgerTypeOK
<1>5. /\ assignments[a].state = "in_reading" /\ assignments[a].owner = s
      /\ sessions[s].state = "active" /\ sessions[s].assignment = a
      /\ Within(p, assignments[a].pages)
  BY DEF Submit
<1>6. \A x \in SessionIds \ {s} : sessions[x].state # "absent" =>
        sessions[x].assignment \in AssignmentIds \ {a}
  BY <1>5, OnlyReader
<1> HIDE DEF row, new
<1>7. LeaseBelongsToReader'
  BY <1>1, <1>2, <1>3, <1>4, <1>5 DEF Agreement, LeaseBelongsToReader
<1>8. SessionMatchesAssignment'
  BY <1>1, <1>2, <1>3, <1>4, <1>5, <1>6
  DEF Agreement, SessionMatchesAssignment
<1>9. SubmittedHasSession'
  BY <1>1, <1>2, <1>3, <1>4, <1>5 DEF Agreement, SubmittedHasSession
<1>10. EvidenceInsideSection'
  <2>1. SessionMatchesAssignment /\ EvidenceInsideSection
    BY DEF Agreement
  <2>2. \A x \in SessionIds : sessions[x].state # "absent" =>
          /\ sessions[x].assignment \in AssignmentIds
          /\ sessions'[x].assignment = sessions[x].assignment
          /\ sessions'[x].startedAt = sessions[x].startedAt
    BY <1>2, <1>4, <1>5, <2>1 DEF SessionMatchesAssignment
  <2>3. \A b \in AssignmentIds :
          /\ assignments'[b].window = assignments[b].window
          /\ assignments'[b].pages = assignments[b].pages
    BY <1>1, <1>3
  <2>4. /\ assignments[a].pages.first <= new.evidence.first
        /\ new.evidence.last <= assignments[a].pages.last
    BY <1>2, <1>5 DEF Within
  <2>5. \A x \in SessionIds : sessions'[x].state = "absent" <=>
                              sessions[x].state = "absent"
    BY <1>2, <1>4, <1>5
  <2>6. ASSUME NEW x \in SessionIds, sessions'[x].state = "submitted"
        PROVE  LET b == sessions[x].assignment IN
               /\ assignments[b].pages.first <= sessions'[x].evidence.first
               /\ sessions'[x].evidence.last <= assignments[b].pages.last
    <3>1. CASE x = s
      BY <1>4, <1>5, <2>4, <3>1
    <3>2. CASE x # s
      BY <1>4, <2>1, <2>6, <3>2 DEF EvidenceInsideSection
    <3>3. QED  BY <3>1, <3>2
  <2>7. QED
    BY <2>1, <2>2, <2>3, <2>5, <2>6 DEF EvidenceInsideSection
<1>11. QED  BY <1>7, <1>8, <1>9, <1>10 DEF Agreement

\* Abandoning releases the section that is being read; a section already
\* expired stays expired.
LEMMA AbandonAgreement ==
  ASSUME LedgerTypeOK, Agreement, NEW a \in AssignmentIds,
         NEW s \in SessionIds, Abandon(a, s)
  PROVE  Agreement'
<1> DEFINE row == ReleasedAssignment(assignments[a])
           new == AbandonedSession(sessions[s])
<1>1. /\ row.state \in {"released", "expired"}
      /\ row.window = assignments[a].window
      /\ row.pages = assignments[a].pages
      /\ row.member = assignments[a].member
  BY ReleasedFacts DEF LedgerTypeOK
<1>2. /\ new.state = "abandoned" /\ new.assignment = a
      /\ new.member = sessions[s].member
      /\ new.startedAt = sessions[s].startedAt
  <2>1. NoPages \in Pages
    BY DEF NoPages, Pages
  <2>2. QED  BY <2>1, EndedSessionFacts DEF Abandon, LedgerTypeOK
<1>3. \A b \in AssignmentIds :
        assignments'[b] = IF b = a THEN row ELSE assignments[b]
  BY DEF Abandon, WriteAssignment, LedgerTypeOK
<1>4. \A x \in SessionIds :
        sessions'[x] = IF x = s THEN new ELSE sessions[x]
  BY DEF Abandon, WriteSession, LedgerTypeOK
<1>5. /\ sessions[s].state = "active" /\ sessions[s].assignment = a
      /\ \/ assignments[a].state = "in_reading" /\ assignments[a].owner = s
         \/ assignments[a].state = "expired"
  BY DEF Abandon, Agreement, SessionMatchesAssignment
<1>6. assignments[a].state = "expired" => row = assignments[a]
  BY DEF ReleasedAssignment
<1>7. assignments[a].state = "in_reading" =>
        \A x \in SessionIds \ {s} : sessions[x].state # "absent" =>
          sessions[x].assignment \in AssignmentIds \ {a}
  BY <1>5, OnlyReader
<1> HIDE DEF row, new
<1>8. LeaseBelongsToReader'
  BY <1>1, <1>2, <1>3, <1>4, <1>5 DEF Agreement, LeaseBelongsToReader
<1>9. SessionMatchesAssignment'
  BY <1>1, <1>2, <1>3, <1>4, <1>5, <1>6, <1>7
  DEF Agreement, SessionMatchesAssignment
<1>10. SubmittedHasSession'
  BY <1>1, <1>2, <1>3, <1>4, <1>5 DEF Agreement, SubmittedHasSession
<1>11. EvidenceInsideSection'
  <2>1. \A x \in SessionIds : sessions[x].state # "absent" =>
          /\ sessions[x].assignment \in AssignmentIds
          /\ sessions'[x].assignment = sessions[x].assignment
    BY <1>2, <1>4, <1>5 DEF Agreement, SessionMatchesAssignment
  <2>2. \A b \in AssignmentIds :
          /\ assignments'[b].window = assignments[b].window
          /\ assignments'[b].pages = assignments[b].pages
    BY <1>1, <1>3
  <2>3. EvidenceInsideSection
    BY DEF Agreement
  <2>4. ASSUME NEW x \in SessionIds
        PROVE  /\ sessions'[x].state # "absent" => sessions[x].state # "absent"
               /\ sessions'[x].startedAt = sessions[x].startedAt
               /\ sessions'[x].state = "submitted" =>
                    sessions'[x] = sessions[x]
    BY <1>2, <1>4, <1>5
  <2>5. QED
    BY <2>1, <2>2, <2>3, <2>4 DEF EvidenceInsideSection
<1>12. QED  BY <1>8, <1>9, <1>10, <1>11 DEF Agreement

\* Every operation keeps sections and sessions in agreement, whatever the times.
LEMMA AgreementStep ==
  ASSUME LedgerTypeOK, Agreement, [UntimedNext]_ledgerVars
  PROVE  Agreement'
<1>1. ASSUME NEW a \in AssignmentIds, NEW m \in Members,
             NEW p \in InputPages, NEW w \in InputWindows,
             ReserveUntimed(a, m, p, w)
      PROVE  Agreement'
  BY <1>1, FreeSectionWrite, NewAssignmentFacts, InputAssumption
  DEF ReserveUntimed, InputAssumption
<1>2. ASSUME NEW a \in AssignmentIds,
             NEW p \in InputPages, NEW w \in InputWindows, MoveUntimed(a, p, w)
      PROVE  Agreement'
  BY <1>2, FreeSectionWrite, MovedFacts, InputAssumption
  DEF MoveUntimed, InputAssumption, LedgerTypeOK
<1>3. CASE Advance \/ UNCHANGED ledgerVars
  BY <1>3
  DEF Advance, ledgerVars, Agreement, LeaseBelongsToReader,
      SessionMatchesAssignment, SubmittedHasSession, EvidenceInsideSection
<1>4. QED
  BY <1>1, <1>2, <1>3, ExpireAgreement, StartAgreement, SubmitAgreement,
     AbandonAgreement DEF UntimedNext, BookingStep, SessionStep

\* The session was opened for the section.
Reads(s, a) == sessions[s].state # "absent" /\ sessions[s].assignment = a

\* A section that a session was opened for.
LEMMA ReadSection ==
  ASSUME LedgerTypeOK, Agreement,
         NEW s \in SessionIds, NEW a, Reads(s, a)
  PROVE  a \in AssignmentIds /\ assignments[a].state # "reserved"
<1>1. /\ a \in AssignmentIds
      /\ sessions[s].state \in {"active", "submitted", "abandoned"}
  BY DEF Reads, Agreement, SessionMatchesAssignment, LedgerTypeOK, Session,
         SessionState
<1>2. QED
  BY <1>1 DEF Reads, Agreement, SessionMatchesAssignment

\* A session stays with the section it was opened for, and only a section no
\* session was opened for gets a new one.  Start does not look for such a
\* session: it is enough that the section is reserved.
LEMMA ReadersStay ==
  ASSUME LedgerTypeOK, Agreement, [UntimedNext]_ledgerVars,
         NEW s \in SessionIds, NEW a \in AssignmentIds, Reads(s, a)
  PROVE  /\ Reads(s, a)'
         /\ \A x \in SessionIds : Reads(x, a)' => Reads(x, a)
<1>1. CASE UNCHANGED sessions
  BY <1>1 DEF Reads
<1>2. ASSUME NEW b \in AssignmentIds, NEW y \in SessionIds,
             NEW row, WriteSession(y, row),
             row.state # "absent", row.assignment = b,
             Reads(y, b) \/ (~Reads(y, a) /\ b # a)
      PROVE  /\ Reads(s, a)'
             /\ \A x \in SessionIds : Reads(x, a)' => Reads(x, a)
  <2>1. \A x \in SessionIds :
          sessions'[x] = IF x = y THEN row ELSE sessions[x]
    BY <1>2 DEF WriteSession, LedgerTypeOK
  <2>2. QED  BY <1>2, <2>1 DEF Reads
<1>3. ASSUME NEW b \in AssignmentIds, NEW y \in SessionIds,
             NEW t \in 1 .. Horizon, Start(b, y, t)
      PROVE  /\ Reads(s, a)'
             /\ \A x \in SessionIds : Reads(x, a)' => Reads(x, a)
  <2> DEFINE row == StartedSession(b, assignments[b].member, t)
  <2>1. /\ assignments[b].state = "reserved" /\ sessions[y].state = "absent"
        /\ WriteSession(y, row)
    BY <1>3 DEF Start
  <2>2. b # a
    BY <2>1, ReadSection
  <2>3. t \in Nat /\ assignments[b].member \in Members \cup {Nil}
    BY DEF LedgerTypeOK, Assignment
  <2>4. row.state = "active" /\ row.assignment = b
    BY <1>3, <2>3, StartedSessionFacts
  <2> HIDE DEF row
  <2>5. QED  BY <1>2, <2>1, <2>2, <2>4 DEF Reads
<1>4. ASSUME NEW b \in AssignmentIds, NEW y \in SessionIds,
             NEW p \in InputPages, Submit(b, y, p)
      PROVE  /\ Reads(s, a)'
             /\ \A x \in SessionIds : Reads(x, a)' => Reads(x, a)
  <2> DEFINE row == SubmittedSession(sessions[y], p)
  <2>1. Reads(y, b) /\ WriteSession(y, row)
    BY <1>4 DEF Submit, Reads
  <2>2. row.state = "submitted" /\ row.assignment = b
    <3>1. sessions[y] \in Session /\ p \in Pages
      BY <1>4, InputAssumption DEF LedgerTypeOK, InputAssumption
    <3>2. /\ row.state = "submitted"
          /\ row.assignment = sessions[y].assignment
      BY <3>1, EndedSessionFacts
    <3>3. QED  BY <2>1, <3>2 DEF Reads
  <2> HIDE DEF row
  <2>3. QED  BY <1>2, <1>4, <2>1, <2>2
<1>5. ASSUME NEW b \in AssignmentIds, NEW y \in SessionIds, Abandon(b, y)
      PROVE  /\ Reads(s, a)'
             /\ \A x \in SessionIds : Reads(x, a)' => Reads(x, a)
  <2> DEFINE row == AbandonedSession(sessions[y])
  <2>1. Reads(y, b) /\ WriteSession(y, row)
    BY <1>5 DEF Abandon, Reads
  <2>2. NoPages \in Pages
    BY DEF NoPages, Pages
  <2>3. row.state = "abandoned" /\ row.assignment = b
    BY <1>5, <2>1, <2>2, EndedSessionFacts DEF LedgerTypeOK, Reads
  <2> HIDE DEF row
  <2>4. QED  BY <1>2, <1>5, <2>1, <2>3
<1>6. ASSUME SessionStep
      PROVE  /\ Reads(s, a)'
             /\ \A x \in SessionIds : Reads(x, a)' => Reads(x, a)
  BY <1>3, <1>4, <1>5, <1>6 DEF SessionStep
<1>7. CASE BookingStep
  BY <1>1, <1>7 DEF BookingStep, ReserveUntimed, MoveUntimed
<1>8. QED
  BY <1>1, <1>6, <1>7 DEF UntimedNext, Advance, ExpireUntimed, ledgerVars

\* An operation writes one session at most.
LEMMA OneSessionWritten ==
  ASSUME [UntimedNext]_ledgerVars
  PROVE  UNCHANGED sessions \/ \E y \in SessionIds : \E row : WriteSession(y, row)
<1> DEFINE Goal == \/ UNCHANGED sessions
                   \/ \E y \in SessionIds : \E row : WriteSession(y, row)
<1>1. UNCHANGED sessions => Goal
  OBVIOUS
<1>2. ASSUME NEW y \in SessionIds, NEW row, WriteSession(y, row)
      PROVE  Goal
  BY <1>2
<1> HIDE DEF Goal
<1>3. ASSUME NEW b \in AssignmentIds, NEW y \in SessionIds,
             NEW t \in 1 .. Horizon, Start(b, y, t)
      PROVE  Goal
  BY <1>2, <1>3 DEF Start
<1>4. ASSUME NEW b \in AssignmentIds, NEW y \in SessionIds,
             \/ \E p \in InputPages : Submit(b, y, p)
             \/ Abandon(b, y)
      PROVE  Goal
  BY <1>2, <1>4 DEF Submit, Abandon
<1>5. ASSUME SessionStep  PROVE Goal
  BY <1>3, <1>4, <1>5 DEF SessionStep
<1>6. ASSUME BookingStep  PROVE Goal
  BY <1>1, <1>6 DEF BookingStep, ReserveUntimed, MoveUntimed
<1>7. Goal
  BY <1>1, <1>5, <1>6 DEF UntimedNext, Advance, ExpireUntimed, ledgerVars
<1>8. QED  BY <1>7 DEF Goal

\* No section is read by two sessions.
OneSessionEach ==
  \A x, y \in SessionIds, a \in AssignmentIds :
    Reads(x, a) /\ Reads(y, a) => x = y

\* A session is opened only for a section that has none.
LEMMA OneSessionStep ==
  ASSUME LedgerTypeOK, Agreement, OneSessionEach, [UntimedNext]_ledgerVars
  PROVE  OneSessionEach'
<1> SUFFICES ASSUME NEW x \in SessionIds, NEW y \in SessionIds,
                    NEW a \in AssignmentIds, Reads(x, a)', Reads(y, a)'
             PROVE  x = y
  BY DEF OneSessionEach
<1>1. CASE \E s \in SessionIds : Reads(s, a)
  BY <1>1, ReadersStay DEF OneSessionEach
<1>2. CASE \A s \in SessionIds : ~Reads(s, a)
  <2>1. PICK z \in SessionIds : \A s \in SessionIds \ {z} :
                                  sessions'[s] = sessions[s]
    BY OneSessionWritten DEF WriteSession, LedgerTypeOK
  <2>2. x = z /\ y = z
    BY <1>2, <2>1 DEF Reads
  <2>3. QED  BY <2>2
<1>3. QED  BY <1>1, <1>2

\* With no rows there is nothing to disagree about.
LEMMA AgreementInit == LedgerInit => Agreement
  BY DEF LedgerInit, Agreement, LeaseBelongsToReader, SessionMatchesAssignment,
         SubmittedHasSession, EvidenceInsideSection, NoAssignment, NoSession

\* A section and its session agree in every reachable state, and submitted
\* evidence lies inside the section that was read.
THEOREM SectionsAgree == LedgerSpec => []Agreement
<1>1. LedgerTypeOK /\ Agreement /\ [LedgerNext]_ledgerVars => Agreement'
  BY AgreementStep, LedgerIsUntimed
<1>2. QED  BY <1>1, AgreementInit, LedgerTypeCorrect, PTL DEF LedgerSpec

\* No operation writes a submitted, released or expired section.
LEMMA TerminalStep ==
  ASSUME LedgerTypeOK, UntimedNext, NEW x \in AssignmentIds
  PROVE  TerminalAssignment(x)
<1> USE DEF TerminalAssignment, Terminal, WriteAssignment, LedgerTypeOK
<1>1. ASSUME NEW a \in AssignmentIds, NEW s \in SessionIds, Abandon(a, s)
      PROVE  TerminalAssignment(x)
  <2>1. assignments[a].state \in Terminal =>
          ReleasedAssignment(assignments[a]) = assignments[a]
    BY <1>1 DEF Abandon, ReleasedAssignment
  <2>2. QED  BY <1>1, <2>1 DEF Abandon
<1>2. QED
  BY <1>1
  DEF UntimedNext, BookingStep, SessionStep, Advance, ReserveUntimed,
      MoveUntimed, ExpireUntimed, Start, Submit

\* A submitted, released or expired section is never written again.
THEOREM TerminalStaysFinal == LedgerSpec => TerminalIsFinal
<1>1. LedgerTypeOK /\ [LedgerNext]_ledgerVars
        => [\A a \in AssignmentIds : TerminalAssignment(a)]_ledgerVars
  BY TerminalStep, LedgerIsUntimed
<1>2. QED  BY <1>1, LedgerTypeCorrect, PTL DEF LedgerSpec, TerminalIsFinal

(* The four parts of Agreement, each as the run checks it. *)

\* A section that is being read is leased to one active session, its own.
THEOREM ReadersHoldLeases == LedgerSpec => []LeaseBelongsToReader
<1>1. Agreement => LeaseBelongsToReader  BY DEF Agreement
<1>2. QED  BY <1>1, SectionsAgree, PTL

\* The rows of a section and of its session tell the same story.
THEOREM SessionsMatchSections == LedgerSpec => []SessionMatchesAssignment
<1>1. Agreement => SessionMatchesAssignment  BY DEF Agreement
<1>2. QED  BY <1>1, SectionsAgree, PTL

\* A submitted section has the session that submitted it.
THEOREM SubmissionsHaveSessions == LedgerSpec => []SubmittedHasSession
<1>1. Agreement => SubmittedHasSession  BY DEF Agreement
<1>2. QED  BY <1>1, SectionsAgree, PTL

\* Submitted evidence lies inside the pages and the window of its section.
THEOREM EvidenceStaysInside == LedgerSpec => []EvidenceInsideSection
<1>1. Agreement => EvidenceInsideSection  BY DEF Agreement
<1>2. QED  BY <1>1, SectionsAgree, PTL

-----------------------------------------------------------------------------
(* Versions and leases of single rows *)

\* An unused identity carries version 0, so that an INSERT moves it too, and a
\* section nobody reads yet has no lease to run out.
AbsentUnversioned ==
  /\ \A a \in AssignmentIds :
       assignments[a].state = "absent" => assignments[a].version = 0
  /\ \A s \in SessionIds :
       sessions[s].state = "absent" => sessions[s].version = 0

ReservedUnleased ==
  \A a \in AssignmentIds :
    assignments[a].state = "reserved" => assignments[a].until = NoTime

\* What a write of one section row does to its version and its lease.
AssignmentAdvances(a) ==
  /\ assignments'[a].state = "absent" => assignments'[a].version = 0
  /\ assignments'[a].state = "reserved" => assignments'[a].until = NoTime
  /\ assignments'[a] # assignments[a] =>
       assignments'[a].version > assignments[a].version

SessionAdvances(s) ==
  /\ sessions'[s].state = "absent" => sessions'[s].version = 0
  /\ sessions'[s] # sessions[s] => sessions'[s].version > sessions[s].version

\* Every operation raises the version of each row it changes, whatever the
\* times.
LEMMA RowsAdvance ==
  ASSUME LedgerTypeOK, AbsentUnversioned, ReservedUnleased,
         [UntimedNext]_ledgerVars
  PROVE  /\ \A a \in AssignmentIds : AssignmentAdvances(a)
         /\ \A s \in SessionIds : SessionAdvances(s)
<1>1. /\ \A a \in AssignmentIds :
           assignments[a] \in Assignment /\ assignments[a].version \in Nat
      /\ \A s \in SessionIds :
           sessions[s] \in Session /\ sessions[s].version \in Nat
  BY DEF LedgerTypeOK, Assignment, Session
<1>2. ASSUME NEW a \in AssignmentIds, NEW row, WriteAssignment(a, row),
             row.state # "absent",
             row.state = "reserved" => row.until = NoTime,
             row = assignments[a] \/ row.version > assignments[a].version
      PROVE  \A x \in AssignmentIds : AssignmentAdvances(x)
  <2>1. \A x \in AssignmentIds :
          assignments'[x] = IF x = a THEN row ELSE assignments[x]
    BY <1>2 DEF WriteAssignment, LedgerTypeOK
  <2>2. QED
    BY <1>2, <2>1 DEF AssignmentAdvances, AbsentUnversioned, ReservedUnleased
<1>3. ASSUME NEW s \in SessionIds, NEW row, WriteSession(s, row),
             row.state # "absent", row.version > sessions[s].version
      PROVE  \A x \in SessionIds : SessionAdvances(x)
  <2>1. \A x \in SessionIds :
          sessions'[x] = IF x = s THEN row ELSE sessions[x]
    BY <1>3 DEF WriteSession, LedgerTypeOK
  <2>2. QED  BY <1>3, <2>1 DEF SessionAdvances, AbsentUnversioned
<1>4. /\ UNCHANGED assignments => \A a \in AssignmentIds : AssignmentAdvances(a)
      /\ UNCHANGED sessions => \A s \in SessionIds : SessionAdvances(s)
  BY DEF AssignmentAdvances, SessionAdvances, AbsentUnversioned,
         ReservedUnleased
<1>5. ASSUME NEW a \in AssignmentIds, NEW m \in Members,
             NEW p \in InputPages, NEW w \in InputWindows,
             ReserveUntimed(a, m, p, w)
      PROVE  /\ \A x \in AssignmentIds : AssignmentAdvances(x)
             /\ UNCHANGED sessions
  <2> DEFINE row == NewAssignment(m, p, w)
  <2>1. /\ p \in Pages /\ w \in Windows /\ m \in Members \cup {Nil}
        /\ assignments[a].version = 0
    BY <1>5, InputAssumption DEF ReserveUntimed, InputAssumption, AbsentUnversioned
  <2>2. row.state = "reserved" /\ row.version = 1
    BY <2>1, NewAssignmentFacts
  <2>3. row.until = NoTime
    BY DEF NewAssignment, NoAssignment
  <2>4. WriteAssignment(a, row) /\ UNCHANGED sessions
    BY <1>5 DEF ReserveUntimed
  <2> HIDE DEF row
  <2>5. QED  BY <1>2, <2>1, <2>2, <2>3, <2>4
<1>6. ASSUME NEW a \in AssignmentIds,
             NEW p \in InputPages, NEW w \in InputWindows, MoveUntimed(a, p, w)
      PROVE  /\ \A x \in AssignmentIds : AssignmentAdvances(x)
             /\ UNCHANGED sessions
  <2> DEFINE row == Moved(assignments[a], p, w)
  <2>1. p \in Pages /\ w \in Windows
    BY InputAssumption DEF InputAssumption
  <2>2. /\ row.state = assignments[a].state
        /\ row.version = assignments[a].version + 1
    BY <1>1, <2>1, MovedFacts
  <2>3. row.until = assignments[a].until
    BY <1>1 DEF Moved, Assignment
  <2>4. /\ WriteAssignment(a, row) /\ UNCHANGED sessions
        /\ assignments[a].state = "reserved"
    BY <1>6 DEF MoveUntimed
  <2> HIDE DEF row
  <2>5. QED  BY <1>1, <1>2, <2>2, <2>3, <2>4 DEF ReservedUnleased
<1>7. ASSUME NEW a \in AssignmentIds, ExpireUntimed(a)
      PROVE  /\ \A x \in AssignmentIds : AssignmentAdvances(x)
             /\ UNCHANGED sessions
  BY <1>1, <1>2, <1>7, ExpiredFacts DEF ExpireUntimed
<1>8. ASSUME NEW a \in AssignmentIds, NEW s \in SessionIds,
             NEW t \in 1 .. Horizon, Start(a, s, t)
      PROVE  /\ \A x \in AssignmentIds : AssignmentAdvances(x)
             /\ \A x \in SessionIds : SessionAdvances(x)
  <2>1. t \in Nat /\ sessions[s].version = 0
        /\ assignments[a].member \in Members \cup {Nil}
    BY <1>1, <1>8, BoundsAssumption
    DEF Start, AbsentUnversioned, BoundsAssumption, Assignment
  <2>2. \A x \in AssignmentIds : AssignmentAdvances(x)
    <3> DEFINE row == StartedAssignment(assignments[a], s, t)
    <3>1. WriteAssignment(a, row)
      BY <1>8 DEF Start
    <3>2. /\ row.state = "in_reading"
          /\ row.version = assignments[a].version + 1
      BY <1>1, <2>1, StartedFacts
    <3> HIDE DEF row
    <3>3. row.version > assignments[a].version
      BY <1>1, <3>2
    <3>4. QED  BY <1>2, <3>1, <3>2, <3>3
  <2>3. \A x \in SessionIds : SessionAdvances(x)
    <3> DEFINE row == StartedSession(a, assignments[a].member, t)
    <3>1. WriteSession(s, row)
      BY <1>8 DEF Start
    <3>2. row.state = "active" /\ row.version = 2
      BY <1>8, <2>1, StartedSessionFacts
    <3> HIDE DEF row
    <3>3. QED  BY <1>3, <2>1, <3>1, <3>2
  <2>4. QED  BY <2>2, <2>3
<1>9. ASSUME NEW a \in AssignmentIds, NEW s \in SessionIds,
             NEW p \in InputPages, Submit(a, s, p)
      PROVE  /\ \A x \in AssignmentIds : AssignmentAdvances(x)
             /\ \A x \in SessionIds : SessionAdvances(x)
  <2>1. p \in Pages
    BY InputAssumption DEF InputAssumption
  <2>2. \A x \in AssignmentIds : AssignmentAdvances(x)
    BY <1>1, <1>2, <1>9, SubmittedFacts DEF Submit
  <2>3. \A x \in SessionIds : SessionAdvances(x)
    BY <1>1, <1>3, <1>9, <2>1, EndedSessionFacts DEF Submit
  <2>4. QED  BY <2>2, <2>3
<1>10. ASSUME NEW a \in AssignmentIds, NEW s \in SessionIds, Abandon(a, s)
       PROVE  /\ \A x \in AssignmentIds : AssignmentAdvances(x)
              /\ \A x \in SessionIds : SessionAdvances(x)
  <2>1. \A x \in AssignmentIds : AssignmentAdvances(x)
    BY <1>1, <1>2, <1>10, ReleasedFacts DEF Abandon
  <2>2. \A x \in SessionIds : SessionAdvances(x)
    <3> DEFINE row == AbandonedSession(sessions[s])
    <3>1. NoPages \in Pages
      BY DEF NoPages, Pages
    <3>2. /\ row.state = "abandoned"
          /\ row.version = sessions[s].version + 1
      BY <1>1, <3>1, EndedSessionFacts
    <3>3. WriteSession(s, row)
      BY <1>10 DEF Abandon
    <3> HIDE DEF row
    <3>4. QED  BY <1>1, <1>3, <3>2, <3>3
  <2>3. QED  BY <2>1, <2>2
<1>11. CASE Advance \/ UNCHANGED ledgerVars
  BY <1>4, <1>11 DEF Advance, ledgerVars
<1>12. QED
  BY <1>4, <1>5, <1>6, <1>7, <1>8, <1>9, <1>10, <1>11
  DEF UntimedNext, BookingStep, SessionStep

\* Unused identities stay unversioned and reservations unleased.
LEMMA RowsSound == LedgerSpec => [](AbsentUnversioned /\ ReservedUnleased)
<1>1. LedgerInit => AbsentUnversioned /\ ReservedUnleased
  BY DEF LedgerInit, AbsentUnversioned, ReservedUnleased, NoAssignment,
         NoSession
<1>2. /\ LedgerTypeOK /\ AbsentUnversioned /\ ReservedUnleased
      /\ [LedgerNext]_ledgerVars
      => (AbsentUnversioned /\ ReservedUnleased)'
  BY RowsAdvance, LedgerIsUntimed
  DEF AssignmentAdvances, SessionAdvances, AbsentUnversioned, ReservedUnleased
<1>3. QED  BY <1>1, <1>2, LedgerTypeCorrect, PTL DEF LedgerSpec

\* Every change of a section or session row raises its version, which is what
\* a guard on the version needs in order to notice it.
THEOREM VersionsMove == LedgerSpec => VersionsAdvance
<1>1. /\ LedgerTypeOK /\ AbsentUnversioned /\ ReservedUnleased
      /\ [LedgerNext]_ledgerVars
      => [/\ \A a \in AssignmentIds :
               assignments'[a] # assignments[a] =>
                 assignments'[a].version > assignments[a].version
          /\ \A s \in SessionIds :
               sessions'[s] # sessions[s] =>
                 sessions'[s].version > sessions[s].version]_ledgerVars
  BY RowsAdvance, LedgerIsUntimed DEF AssignmentAdvances, SessionAdvances
<1>2. QED
  BY <1>1, RowsSound, LedgerTypeCorrect, PTL DEF LedgerSpec, VersionsAdvance

=============================================================================
