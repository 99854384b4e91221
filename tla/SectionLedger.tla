---------------------------- MODULE SectionLedger ----------------------------
(***************************************************************************)
(* What reservations and readings promise: the rows of internal/domain/    *)
(* reading (assignment.go, session.go), and the aggregate operations on    *)
(* them as atomic steps on the current rows.  Module Reading, where the    *)
(* rows are read, checked and written at different moments and times are   *)
(* compared as text, extends this module and implements it.                *)
(***************************************************************************)
EXTENDS Integers

CONSTANTS
  AssignmentIds,    \* identities of section_assignments rows
  SessionIds,       \* identities of reading_sessions rows
  Members,          \* active members of the program
  Nil,              \* the empty string in an owner column
  PageCount,        \* pages of the program's edition
  SessionLeaseTTL,  \* ReadingService.SessionLeaseTTL, in ticks
  InputPages,       \* page ranges a request may carry
  InputWindows,     \* time windows a request may carry
  Horizon,          \* bound: the clock stops here
  MaxVersion        \* bound: a row of this version is not moved again

NoTime == 0         \* the zero time.Time, before every instant

Pages == [first : Nat, last : Nat]
Windows == [start : Nat, end : Nat]
NoPages == [first |-> 0, last |-> 0]
NoWindow == [start |-> NoTime, end |-> NoTime]

ASSUME NilAssumption ==
  Nil \notin AssignmentIds \cup SessionIds \cup Members

ASSUME InputAssumption ==
  InputPages \subseteq Pages /\ InputWindows \subseteq Windows

ASSUME BoundsAssumption ==
  /\ PageCount \in Nat \ {0}
  /\ SessionLeaseTTL \in Nat \ {0}
  /\ Horizon \in Nat \ {0}
  /\ MaxVersion \in Nat \ {0}

VARIABLES
  clock,         \* the system clock, from 1
  assignments,   \* the section_assignments table; unused identities are absent
  sessions       \* the reading_sessions table

ledgerVars == <<clock, assignments, sessions>>

-----------------------------------------------------------------------------
(* Rows *)

AssignmentState ==
  {"absent", "reserved", "in_reading", "submitted", "released", "expired"}
SessionState == {"absent", "active", "submitted", "abandoned"}
Assignment ==
  [state : AssignmentState, member : Members \cup {Nil}, pages : Pages,
   window : Windows, owner : SessionIds \cup {Nil}, token : Nat,
   until : Nat, version : Nat]

Session ==
  [state : SessionState, assignment : AssignmentIds \cup {Nil},
   member : Members \cup {Nil}, startedAt : Nat,
   evidence : Pages,   \* the pages the submitted notes and claims span
   version : Nat]

NoAssignment ==
  [state |-> "absent", member |-> Nil, pages |-> NoPages,
   window |-> NoWindow, owner |-> Nil, token |-> 0, until |-> NoTime,
   version |-> 0]

NoSession ==
  [state |-> "absent", assignment |-> Nil, member |-> Nil,
   startedAt |-> NoTime, evidence |-> NoPages, version |-> 0]

Terminal == {"submitted", "released", "expired"}
Inactive == {"absent", "released", "expired"}

NewAssignment(m, pages, window) ==
  [NoAssignment EXCEPT !.state = "reserved", !.member = m, !.pages = pages,
                       !.window = window, !.version = 1]

\* Mutant of Moved: the version stays.
MovedUnversioned(row, pages, window) ==
  [row EXCEPT !.pages = pages, !.window = window]

Moved(row, pages, window) ==
  [row EXCEPT !.pages = pages, !.window = window, !.version = @ + 1]

\* Mutant of StartedAssignment: the lease has no owner.
StartedUnowned(row, sid, now) ==
  [row EXCEPT !.state = "in_reading", !.token = @ + 1,
              !.until = now + SessionLeaseTTL, !.version = @ + 1]

\* Mutant of StartedAssignment: the version stays.
StartedUnversioned(row, sid, now) ==
  [row EXCEPT !.state = "in_reading", !.owner = sid, !.token = @ + 1,
              !.until = now + SessionLeaseTTL]

StartedAssignment(row, sid, now) ==
  [row EXCEPT !.state = "in_reading", !.owner = sid, !.token = @ + 1,
              !.until = now + SessionLeaseTTL, !.version = @ + 1]

SubmittedAssignment(row) ==
  [row EXCEPT !.state = "submitted", !.owner = Nil, !.until = NoTime,
              !.version = @ + 1]

\* Mutant of ReleasedAssignment: an expired row is released again.
ReleasedAgain(row) ==
  [row EXCEPT !.state = "released", !.owner = Nil, !.until = NoTime,
              !.version = @ + 1]

\* Release is a no-op that succeeds on a row already released or expired.
ReleasedAssignment(row) ==
  IF row.state \in {"released", "expired"}
  THEN row
  ELSE [row EXCEPT !.state = "released", !.owner = Nil, !.until = NoTime,
                   !.version = @ + 1]

ExpiredAssignment(row) ==
  [row EXCEPT !.state = "expired", !.owner = Nil, !.until = NoTime,
              !.version = @ + 1]

\* NewSession (version 1, prepared) followed by Session.Start (version 2).
StartedSession(aid, m, now) ==
  [NoSession EXCEPT !.state = "active", !.assignment = aid, !.member = m,
                    !.startedAt = now, !.version = 2]

\* Mutant of SubmittedSession: the session stays active.
SubmittedStillActive(row, pages) ==
  [row EXCEPT !.evidence = pages, !.version = @ + 1]

SubmittedSession(row, pages) ==
  [row EXCEPT !.state = "submitted", !.evidence = pages, !.version = @ + 1]

\* Mutant of AbandonedSession: the state of the other aggregate.
ReleasedSession(row) ==
  [row EXCEPT !.state = "released", !.version = @ + 1]

AbandonedSession(row) ==
  [row EXCEPT !.state = "abandoned", !.version = @ + 1]

-----------------------------------------------------------------------------
(* Page ranges and windows *)

Overlaps(p, q) == p.first <= q.last /\ q.first <= p.last

ValidPageRange(p) == p.first >= 1 /\ p.first <= p.last /\ p.last <= PageCount

\* Mutant of Within: a partial overlap is enough.
Touches(p, q) == q.first <= p.last /\ p.first <= q.last

Within(p, q) == q.first <= p.first /\ p.last <= q.last

\* Assignment.Conflicts, the domain's definition of a double booking.
Conflicts(a, b) ==
  /\ a.state \notin Inactive
  /\ b.state \notin Inactive
  /\ a.window.start < b.window.end
  /\ b.window.start < a.window.end
  /\ Overlaps(a.pages, b.pages)

\* The section is over for its holder: its window or its reading lease ended.
Due(row, now) ==
  \/ row.window.end <= now
  \/ row.until # NoTime /\ row.until <= now

-----------------------------------------------------------------------------
(* The atomic operations *)

WriteAssignment(id, row) == assignments' = [assignments EXCEPT ![id] = row]
WriteSession(id, row) == sessions' = [sessions EXCEPT ![id] = row]

\* Mutant of Bookable: only sections nobody reads yet are looked at.
BookableBesideReaders(id, row) ==
  \A b \in AssignmentIds \ {id} :
    assignments[b].state = "reserved" => ~Conflicts(row, assignments[b])

\* No other section clashes with row when it is stored under id.
Bookable(id, row) ==
  \A b \in AssignmentIds \ {id} : ~Conflicts(row, assignments[b])

LedgerInit ==
  /\ clock = 1
  /\ assignments = [a \in AssignmentIds |-> NoAssignment]
  /\ sessions = [s \in SessionIds |-> NoSession]

Advance ==
  /\ clock < Horizon
  /\ clock' = clock + 1
  /\ UNCHANGED <<assignments, sessions>>

Reserve(a, m, pages, window) ==
  LET row == NewAssignment(m, pages, window) IN
  /\ assignments[a].state = "absent"
  /\ ValidPageRange(pages)
  /\ window.start < window.end
  /\ Bookable(a, row)
  /\ WriteAssignment(a, row)
  /\ UNCHANGED <<clock, sessions>>

Move(a, pages, window) ==
  LET row == Moved(assignments[a], pages, window) IN
  /\ assignments[a].state = "reserved"
  /\ assignments[a].version < MaxVersion
  /\ ValidPageRange(pages)
  /\ window.start < window.end
  /\ Bookable(a, row)
  /\ WriteAssignment(a, row)
  /\ UNCHANGED <<clock, sessions>>

\* The reading is dated t, which may lie a moment back.
Start(a, s, t) ==
  /\ assignments[a].state = "reserved"
  /\ t <= clock
  /\ assignments[a].window.start <= t
  /\ t < assignments[a].window.end
  /\ sessions[s].state = "absent"
  /\ WriteAssignment(a, StartedAssignment(assignments[a], s, t))
  /\ WriteSession(s, StartedSession(a, assignments[a].member, t))
  /\ UNCHANGED clock

Submit(a, s, pages) ==
  /\ assignments[a].state = "in_reading"
  /\ assignments[a].owner = s
  /\ sessions[s].state = "active"
  /\ sessions[s].assignment = a
  /\ ValidPageRange(pages)
  /\ Within(pages, assignments[a].pages)
  /\ WriteAssignment(a, SubmittedAssignment(assignments[a]))
  /\ WriteSession(s, SubmittedSession(sessions[s], pages))
  /\ UNCHANGED clock

Abandon(a, s) ==
  /\ assignments[a].state # "submitted"
  /\ sessions[s].state = "active"
  /\ sessions[s].assignment = a
  /\ WriteAssignment(a, ReleasedAssignment(assignments[a]))
  /\ WriteSession(s, AbandonedSession(sessions[s]))
  /\ UNCHANGED clock

Expire(a) ==
  /\ assignments[a].state \in {"reserved", "in_reading"}
  /\ Due(assignments[a], clock)
  /\ WriteAssignment(a, ExpiredAssignment(assignments[a]))
  /\ UNCHANGED <<clock, sessions>>

LedgerNext ==
  \/ Advance
  \/ \E a \in AssignmentIds :
       \/ \E p \in InputPages, w \in InputWindows :
            \/ \E m \in Members : Reserve(a, m, p, w)
            \/ Move(a, p, w)
       \/ Expire(a)
       \/ \E s \in SessionIds :
            \/ \E t \in 1 .. Horizon : Start(a, s, t)
            \/ \E p \in InputPages : Submit(a, s, p)
            \/ Abandon(a, s)

LedgerSpec == LedgerInit /\ [][LedgerNext]_ledgerVars

-----------------------------------------------------------------------------
(* Correctness *)

\* The three variables hold rows and an instant.
LedgerTypeOK ==
  /\ clock \in 1 .. Horizon
  /\ assignments \in [AssignmentIds -> Assignment]
  /\ sessions \in [SessionIds -> Session]

\* Two sections that are still held never share a page at the same moment,
\* whatever reservations, moves, starts and expiries interleave (README:
\* "Members reserve non-overlapping page sections").
NoDoubleBooking ==
  \A a, b \in AssignmentIds :
    a # b => ~Conflicts(assignments[a], assignments[b])

\* A section being read is leased to exactly one active session, and that
\* session is the one reading it.
LeaseBelongsToReader ==
  \A a \in AssignmentIds :
    assignments[a].state = "in_reading" =>
      LET s == assignments[a].owner IN
      /\ s \in SessionIds
      /\ sessions[s].state = "active"
      /\ sessions[s].assignment = a

\* The two rows of one reading agree after every transaction: a section is
\* submitted exactly when its session is, an abandoned session holds no
\* section, and an active one holds its section or has lost it to expiry.
SessionMatchesAssignment ==
  \A s \in SessionIds :
    sessions[s].state # "absent" =>
      LET a == sessions[s].assignment IN
      /\ a \in AssignmentIds
      /\ assignments[a].member = sessions[s].member
      /\ sessions[s].state = "active" =>
           \/ assignments[a].state = "in_reading" /\ assignments[a].owner = s
           \/ assignments[a].state = "expired"
      /\ sessions[s].state = "submitted" <=> assignments[a].state = "submitted"
      /\ sessions[s].state = "abandoned" =>
           assignments[a].state \in {"released", "expired"}

\* No evidence without provenance: a submitted section has its one session.
SubmittedHasSession ==
  \A a \in AssignmentIds :
    assignments[a].state = "submitted" =>
      \E s \in SessionIds :
        sessions[s].state = "submitted" /\ sessions[s].assignment = a

\* Submitted evidence lies in the section the session read, and the reading
\* began inside the section's window, although both were checked against rows
\* read before the transaction.
EvidenceInsideSection ==
  \A s \in SessionIds :
    LET a == sessions[s].assignment IN
    /\ sessions[s].state # "absent" =>
         /\ assignments[a].window.start <= sessions[s].startedAt
         /\ sessions[s].startedAt < assignments[a].window.end
    /\ sessions[s].state = "submitted" =>
         /\ assignments[a].pages.first <= sessions[s].evidence.first
         /\ sessions[s].evidence.last <= assignments[a].pages.last

\* A submitted, released or expired section is never written again: a late
\* submit, abandon, move or expiry cannot resurrect or relabel it.
TerminalAssignment(a) ==
  assignments[a].state \in Terminal => assignments'[a] = assignments[a]

TerminalIsFinal == [][\A a \in AssignmentIds : TerminalAssignment(a)]_ledgerVars

\* Optimistic locking needs versions that move with every change of a row.
VersionsAdvance ==
  [][/\ \A a \in AssignmentIds :
          assignments'[a] # assignments[a] =>
            assignments'[a].version > assignments[a].version
     /\ \A s \in SessionIds :
          sessions'[s] # sessions[s] =>
            sessions'[s].version > sessions[s].version]_ledgerVars

=============================================================================
