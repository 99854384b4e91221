---------------------------- MODULE ReadingProofs ----------------------------
(***************************************************************************)
(* Proofs about Reading, for every set of rows, members and clients, every *)
(* input and every bound.                                                  *)
(***************************************************************************)
EXTENDS Reading, SectionLedgerProofs, PersistedTimeProofs

-----------------------------------------------------------------------------
(* Types *)

\* The idle request is a request.
LEMMA IdleType == Idle \in Request
  BY EmptyRowTypes
  DEF Idle, Request, Op, Pages, Windows, NoPages, NoWindow, NoTime

\* Holding a well-formed request changes nothing else.
LEMMA HoldType ==
  ASSUME TypeOK, NEW c \in Clients, NEW r \in Request, Hold(c, r)
  PROVE  TypeOK'
  BY DEF TypeOK, LedgerTypeOK, ledgerVars, Hold

\* What a handler captures before its transaction is a request.
LEMMA BeginType ==
  ASSUME TypeOK, NEW c \in Clients, Begin(c)
  PROVE  TypeOK'
<1> USE IdleType DEF Request, Op
<1>1. ASSUME NEW m \in Members, NEW a \in AssignmentIds,
             NEW p \in InputPages, NEW w \in InputWindows,
             BeginReserve(c, m, a, p, w)
      PROVE  TypeOK'
  <2>1. [Idle EXCEPT !.op = "reserve", !.id = a, !.member = m,
                     !.pages = p, !.window = w] \in Request
    BY InputAssumption DEF InputAssumption
  <2>2. QED  BY <1>1, <2>1, HoldType DEF BeginReserve
<1>2. ASSUME NEW m \in Members, NEW a \in AssignmentIds,
             NEW p \in InputPages, NEW w \in InputWindows,
             BeginMove(c, m, a, p, w)
      PROVE  TypeOK'
  <2>1. assignments[a] \in Assignment
    BY DEF TypeOK, LedgerTypeOK
  <2>2. [Idle EXCEPT !.op = "move", !.id = a, !.member = m,
                     !.seen = assignments[a],
                     !.pages = p, !.window = w] \in Request
    BY <2>1, InputAssumption DEF InputAssumption
  <2>3. QED  BY <1>2, <2>2, HoldType DEF BeginMove
<1>3. ASSUME NEW m \in Members, NEW a \in AssignmentIds, NEW s \in SessionIds,
             BeginStart(c, m, a, s)
      PROVE  TypeOK'
  <2>1. assignments[a] \in Assignment /\ clock \in Nat
    BY DEF TypeOK, LedgerTypeOK
  <2>2. [Idle EXCEPT !.op = "start", !.id = a, !.member = m,
                     !.seen = assignments[a], !.sid = s, !.now = clock]
          \in Request
    BY <2>1
  <2>3. QED  BY <1>3, <2>2, HoldType DEF BeginStart
<1>4. ASSUME NEW m \in Members, NEW s \in SessionIds, NEW p \in InputPages,
             BeginSubmit(c, m, s, p)
      PROVE  TypeOK'
  <2> DEFINE a == sessions[s].assignment
  <2>1. sessions[s] \in Session
    BY DEF TypeOK, LedgerTypeOK
  <2>2. a \in AssignmentIds /\ assignments[a] \in Assignment
    BY <1>4 DEF BeginSubmit, TypeOK, LedgerTypeOK
  <2>3. [Idle EXCEPT !.op = "submit", !.id = a, !.member = m,
                     !.seen = assignments[a], !.sid = s,
                     !.seenSession = sessions[s], !.pages = p] \in Request
    BY <2>1, <2>2, InputAssumption DEF InputAssumption
  <2>4. QED  BY <1>4, <2>3, HoldType DEF BeginSubmit
<1>5. ASSUME NEW m \in Members, NEW s \in SessionIds, BeginAbandon(c, m, s)
      PROVE  TypeOK'
  <2> DEFINE a == sessions[s].assignment
  <2>1. sessions[s] \in Session
    BY DEF TypeOK, LedgerTypeOK
  <2>2. a \in AssignmentIds /\ assignments[a] \in Assignment
    BY <1>5 DEF BeginAbandon, TypeOK, LedgerTypeOK
  <2>3. [Idle EXCEPT !.op = "abandon", !.id = a, !.member = m,
                     !.seen = assignments[a], !.sid = s,
                     !.seenSession = sessions[s]] \in Request
    BY <2>1, <2>2
  <2>4. QED  BY <1>5, <2>3, HoldType DEF BeginAbandon
<1>6. QED  BY <1>1, <1>2, <1>3, <1>4, <1>5 DEF Begin

\* A transaction writes rows of the right shape.
LEMMA CommitType ==
  ASSUME TypeOK, NEW c \in Clients, Commit(c) \/ Fail(c)
  PROVE  TypeOK'
<1> DEFINE r == request[c]
<1>1. /\ r \in Request
      /\ r.seen \in Assignment /\ r.seenSession \in Session
      /\ r.pages \in Pages /\ r.window \in Windows /\ r.now \in Nat
      /\ r.member \in Members \cup {Nil} /\ r.sid \in SessionIds \cup {Nil}
      /\ r.id \in AssignmentIds \cup {Nil}
  BY DEF TypeOK, LedgerTypeOK, Request
<1>2. ASSUME Answer(c)
      PROVE  /\ clock' \in 1 .. Horizon
             /\ request' \in [Clients -> Request]
             /\ sweep' \in [now : Nat, rows : SUBSET SweptRow]
  BY <1>2, IdleType DEF Answer, TypeOK, LedgerTypeOK
<1>3. ASSUME NEW id, NEW row \in Assignment, WriteAssignment(id, row)
      PROVE  assignments' \in [AssignmentIds -> Assignment]
  BY <1>3 DEF WriteAssignment, TypeOK, LedgerTypeOK
<1>4. ASSUME NEW id, NEW row \in Session, WriteSession(id, row)
      PROVE  sessions' \in [SessionIds -> Session]
  BY <1>4 DEF WriteSession, TypeOK, LedgerTypeOK
<1>5. CASE CommitReserve(c)
  <2>1. NewAssignment(r.member, r.pages, r.window) \in Assignment
    BY <1>1, NewAssignmentFacts
  <2>2. QED  BY <1>2, <1>3, <1>5, <2>1 DEF CommitReserve, TypeOK, LedgerTypeOK
<1>6. CASE CommitMove(c)
  <2>1. Moved(r.seen, r.pages, r.window) \in Assignment
    BY <1>1, MovedFacts
  <2>2. QED  BY <1>2, <1>3, <1>6, <2>1 DEF CommitMove, TypeOK, LedgerTypeOK
<1>7. CASE CommitStart(c)
  <2>1. StartedAssignment(r.seen, r.sid, r.now) \in Assignment
    BY <1>1, StartedFacts
  <2>2. StartedSession(r.id, r.member, r.now) \in Session
    BY <1>1, StartedSessionFacts
  <2>3. QED
    BY <1>2, <1>3, <1>4, <1>7, <2>1, <2>2 DEF CommitStart, TypeOK, LedgerTypeOK
<1>8. CASE CommitSubmit(c)
  <2>1. /\ SubmittedAssignment(r.seen) \in Assignment
        /\ SubmittedSession(r.seenSession, r.pages) \in Session
    BY <1>1, SubmittedFacts, EndedSessionFacts
  <2>2. QED  BY <1>2, <1>3, <1>4, <1>8, <2>1 DEF CommitSubmit, TypeOK, LedgerTypeOK
<1>9. CASE CommitAbandon(c)
  <2>1. /\ ReleasedAssignment(r.seen) \in Assignment
        /\ AbandonedSession(r.seenSession) \in Session
    BY <1>1, ReleasedFacts, EndedSessionFacts
  <2>2. QED  BY <1>2, <1>3, <1>4, <1>9, <2>1 DEF CommitAbandon, TypeOK, LedgerTypeOK
<1>10. CASE Fail(c)
  BY <1>2, <1>10 DEF Fail, TypeOK, LedgerTypeOK
<1>11. QED  BY <1>5, <1>6, <1>7, <1>8, <1>9, <1>10 DEF Commit

\* The expiry worker lists rows and writes expired ones.
LEMMA WorkerType ==
  ASSUME TypeOK, Worker
  PROVE  TypeOK'
<1>1. ASSUME NEW batch \in SUBSET AssignmentIds, ListExpired(batch)
      PROVE  TypeOK'
  <2>1. \A a \in batch : [id |-> a, row |-> assignments[a]] \in SweptRow
    BY DEF TypeOK, LedgerTypeOK, SweptRow
  <2>2. QED  BY <1>1, <2>1 DEF ListExpired, TypeOK, LedgerTypeOK, ledgerVars
<1>2. CASE ExpireNext
  <2>1. PICK e \in sweep.rows :
          /\ \/ WriteAssignment(e.id, ExpiredAssignment(e.row))
             \/ UNCHANGED assignments
          /\ sweep' = Remaining(e)
          /\ UNCHANGED <<clock, sessions, request>>
    BY <1>2 DEF ExpireNext
  <2>2. e.row \in Assignment
    BY DEF TypeOK, LedgerTypeOK, SweptRow
  <2>3. ExpiredAssignment(e.row) \in Assignment
    BY <2>2, ExpiredFacts
  <2>4. assignments' \in [AssignmentIds -> Assignment]
    BY <2>1, <2>3 DEF WriteAssignment, TypeOK, LedgerTypeOK
  <2>5. sweep' \in [now : Nat, rows : SUBSET SweptRow]
    BY <2>1 DEF Remaining, NoSweep, NoTime, TypeOK, LedgerTypeOK
  <2>6. QED  BY <2>1, <2>4, <2>5 DEF TypeOK, LedgerTypeOK
<1>3. CASE StopSweep
  BY <1>3 DEF StopSweep, NoSweep, NoTime, TypeOK, LedgerTypeOK, ledgerVars
<1>4. QED  BY <1>1, <1>2, <1>3 DEF Worker

\* The first state is well formed.
LEMMA InitType == Init => TypeOK
  BY EmptyRowTypes, IdleType, BoundsAssumption
  DEF Init, LedgerInit, TypeOK, LedgerTypeOK, BoundsAssumption, NoSweep, NoTime

\* Every step keeps the types.
LEMMA StepType ==
  ASSUME TypeOK, [Next]_vars
  PROVE  TypeOK'
<1>1. CASE Tick
  BY <1>1, BoundsAssumption
  DEF Tick, Advance, TypeOK, LedgerTypeOK, BoundsAssumption
<1>2. ASSUME NEW c \in Clients, Begin(c) \/ Commit(c) \/ Fail(c)
      PROVE  TypeOK'
  BY <1>2, BeginType, CommitType
<1>3. CASE Worker
  BY <1>3, WorkerType
<1>4. CASE UNCHANGED vars
  BY <1>4 DEF vars, TypeOK, LedgerTypeOK, ledgerVars
<1>5. QED  BY <1>1, <1>2, <1>3, <1>4 DEF Next

\* Every reachable state holds well-formed rows, requests and batches.
THEOREM TypeCorrect == Spec => []TypeOK
<1>1. TypeOK /\ [Next]_vars => TypeOK'
  BY StepType
<1>2. QED  BY <1>1, InitType, PTL DEF Spec

-----------------------------------------------------------------------------
(* The inductive invariant *)

InsideProgram(window) ==
  ProgramWindow.start <= window.start /\ window.end <= ProgramWindow.end

\* What a handler validated before its transaction.
ValidRequest(r) ==
  /\ r.op = "reserve" =>
       /\ r.id \in AssignmentIds /\ r.member \in Members
       /\ r.pages \in InputPages /\ r.window \in InputWindows
       /\ InsideProgram(r.window)
       /\ ValidPageRange(r.pages) /\ r.window.start < r.window.end
  /\ r.op = "move" =>
       /\ r.seen.state = "reserved" /\ r.seen.version < MaxVersion
       /\ r.pages \in InputPages /\ r.window \in InputWindows
       /\ ValidPageRange(r.pages) /\ r.window.start < r.window.end
  /\ r.op = "start" =>
       /\ r.seen.state = "reserved" /\ r.seen.member = r.member
       /\ r.sid \in SessionIds
       /\ r.now \in 1 .. clock
       /\ r.seen.window.start <= r.now /\ r.now < r.seen.window.end
  /\ r.op = "submit" =>
       /\ r.seen.state = "in_reading" /\ r.seen.owner = r.sid
       /\ r.seenSession.state = "active" /\ r.seenSession.assignment = r.id
       /\ r.pages \in InputPages
       /\ ValidPageRange(r.pages) /\ Within(r.pages, r.seen.pages)
  /\ r.op = "abandon" =>
       /\ r.seen.state # "submitted"
       /\ r.seenSession.state = "active" /\ r.seenSession.assignment = r.id

RequestsValid == \A c \in Clients : ValidRequest(request[c])

\* The rows of a batch were open when they were listed, and over as far as
\* their texts tell.
OverdueText(row, now) ==
  \/ TextKey(row.window.end) <= TextKey(now)
  \/ row.until # NoTime /\ TextKey(row.until) <= TextKey(now)

SweepValid ==
  /\ sweep.now <= clock
  /\ \A e \in sweep.rows :
       /\ e.row.state \in {"reserved", "in_reading"}
       /\ OverdueText(e.row, sweep.now)

Inductive ==
  /\ TypeOK
  /\ AbsentUnversioned
  /\ RequestsFresh
  /\ RequestsValid
  /\ SweepFresh
  /\ SweepValid

\* Every row either stays or gets a higher version.
AssignmentsAdvance ==
  \A a \in AssignmentIds :
    /\ assignments'[a].state = "absent" => assignments'[a].version = 0
    /\ \/ assignments'[a] = assignments[a]
       \/ assignments[a].version < assignments'[a].version

SessionsAdvance ==
  \A s \in SessionIds :
    /\ sessions'[s].state = "absent" => sessions'[s].version = 0
    /\ \/ sessions'[s] = sessions[s]
       \/ sessions[s].version < sessions'[s].version

\* Until its transaction a handler only reads.
LEMMA BeginOnlyReads ==
  ASSUME NEW c \in Clients, Begin(c)
  PROVE  UNCHANGED <<ledgerVars, sweep>>
<1>1. ASSUME NEW r, Hold(c, r)
      PROVE  UNCHANGED <<ledgerVars, sweep>>
  BY <1>1 DEF Hold
<1>2. ASSUME NEW m, NEW a, NEW p, NEW w, BeginReserve(c, m, a, p, w)
      PROVE  UNCHANGED <<ledgerVars, sweep>>
  BY <1>1, <1>2 DEF BeginReserve
<1>3. ASSUME NEW m, NEW a, NEW p, NEW w, BeginMove(c, m, a, p, w)
      PROVE  UNCHANGED <<ledgerVars, sweep>>
  BY <1>1, <1>3 DEF BeginMove
<1>4. ASSUME NEW m, NEW a, NEW s, BeginStart(c, m, a, s)
      PROVE  UNCHANGED <<ledgerVars, sweep>>
  BY <1>1, <1>4 DEF BeginStart
<1>5. ASSUME NEW m, NEW s, NEW p, BeginSubmit(c, m, s, p)
      PROVE  UNCHANGED <<ledgerVars, sweep>>
  BY <1>1, <1>5 DEF BeginSubmit
<1>6. ASSUME NEW m, NEW s, BeginAbandon(c, m, s)
      PROVE  UNCHANGED <<ledgerVars, sweep>>
  BY <1>1, <1>6 DEF BeginAbandon
<1>7. QED  BY <1>2, <1>3, <1>4, <1>5, <1>6 DEF Begin

\* The end of a request leaves the clock and the worker alone.
LEMMA AnswerKeepsRest ==
  ASSUME NEW c \in Clients, Commit(c) \/ Fail(c)
  PROVE  UNCHANGED <<clock, sweep>>
<1>1. Answer(c)
  BY DEF Commit, CommitReserve, CommitMove, CommitStart, CommitSubmit,
         CommitAbandon, Fail
<1>2. QED  BY <1>1 DEF Answer

\* One write of a section row advances the table.
LEMMA WriteAdvances ==
  ASSUME Inductive, NEW a, NEW row \in Assignment, WriteAssignment(a, row),
         a \in AssignmentIds =>
           row = assignments[a] \/ assignments[a].version < row.version,
         row.state # "absent"
  PROVE  AssignmentsAdvance
<1>1. \A b \in AssignmentIds :
        assignments'[b] = IF b = a THEN row ELSE assignments[b]
  BY DEF WriteAssignment, Inductive, TypeOK, LedgerTypeOK
<1>2. QED
  BY <1>1 DEF AssignmentsAdvance, Inductive, AbsentUnversioned

\* One write of a session row advances the table.
LEMMA SessionWriteAdvances ==
  ASSUME Inductive, NEW s, NEW row \in Session, WriteSession(s, row),
         s \in SessionIds => sessions[s].version < row.version,
         row.state # "absent"
  PROVE  SessionsAdvance
<1>1. \A x \in SessionIds :
        sessions'[x] = IF x = s THEN row ELSE sessions[x]
  BY DEF WriteSession, Inductive, TypeOK, LedgerTypeOK
<1>2. QED
  BY <1>1 DEF SessionsAdvance, Inductive, AbsentUnversioned

\* A table that is not written advances.
LEMMA UnchangedAdvances ==
  ASSUME Inductive
  PROVE  /\ UNCHANGED assignments => AssignmentsAdvance
         /\ UNCHANGED sessions => SessionsAdvance
  BY DEF Inductive, AbsentUnversioned, AssignmentsAdvance, SessionsAdvance

\* The rows a transaction writes are newer than the ones it replaces.
LEMMA CommitAdvances ==
  ASSUME Inductive, NEW c \in Clients, Commit(c)
  PROVE  AssignmentsAdvance /\ SessionsAdvance
<1> DEFINE r == request[c]
<1>1. /\ r.seen \in Assignment /\ r.seenSession \in Session
      /\ r.pages \in Pages /\ r.window \in Windows /\ r.now \in Nat
      /\ r.member \in Members \cup {Nil} /\ r.sid \in SessionIds \cup {Nil}
      /\ r.id \in AssignmentIds \cup {Nil}
  BY DEF Inductive, TypeOK, Request
<1>2. FreshRequest(r) /\ ValidRequest(r)
  BY DEF Inductive, RequestsFresh, RequestsValid
<1>3. \A a \in AssignmentIds : assignments[a].version \in Nat
  BY DEF Inductive, TypeOK, LedgerTypeOK, Assignment
<1>4. \A s \in SessionIds : sessions[s].version \in Nat
  BY DEF Inductive, TypeOK, LedgerTypeOK, Session
<1> HIDE DEF r
<1>5. CASE CommitReserve(c)
  <2>1. r.id \in AssignmentIds => assignments[r.id].version < 1
    BY <1>5 DEF CommitReserve, Inductive, AbsentUnversioned, r
  <2>2. AssignmentsAdvance
    BY <1>1, <1>5, <2>1, NewAssignmentFacts, WriteAdvances
    DEF CommitReserve, r
  <2>3. QED  BY <1>5, <2>2, UnchangedAdvances DEF CommitReserve
<1>6. CASE CommitMove(c)
  <2>1. /\ r.seen.state = "reserved"
        /\ assignments[r.id].version = r.seen.version
        /\ r.id \in AssignmentIds
    BY <1>2, <1>6
    DEF CommitMove, AssignmentUnchanged, ValidRequest, FreshRequest, r
  <2>2. AssignmentsAdvance
    BY <1>1, <1>3, <1>6, <2>1, MovedFacts, WriteAdvances DEF CommitMove, r
  <2>3. QED  BY <1>6, <2>2, UnchangedAdvances DEF CommitMove
<1>7. CASE CommitStart(c)
  <2>1. /\ assignments[r.id].version = r.seen.version
        /\ r.id \in AssignmentIds
        /\ r.sid \in SessionIds => sessions[r.sid].version < 2
    BY <1>2, <1>7
    DEF CommitStart, AssignmentUnchanged, FreshRequest, Inductive,
        AbsentUnversioned, r
  <2>2. AssignmentsAdvance
    <3> DEFINE started == StartedAssignment(r.seen, r.sid, r.now)
    <3>1. WriteAssignment(r.id, started)
      BY <1>7 DEF CommitStart, r
    <3>2. /\ started \in Assignment
          /\ started.state = "in_reading"
          /\ started.version = r.seen.version + 1
      BY <1>1, <1>3, StartedFacts
    <3> HIDE DEF started
    <3>3. assignments[r.id].version < started.version
      BY <1>3, <2>1, <3>2
    <3>4. QED  BY <3>1, <3>2, <3>3, WriteAdvances
  <2> DEFINE row == StartedSession(r.id, r.member, r.now)
  <2>3. /\ row \in Session /\ row.version = 2 /\ row.state = "active"
        /\ WriteSession(r.sid, row)
    BY <1>1, <1>7, StartedSessionFacts DEF CommitStart, r
  <2> HIDE DEF row
  <2>4. SessionsAdvance
    BY <2>1, <2>3, SessionWriteAdvances
  <2>5. QED  BY <2>2, <2>4
<1>8. CASE CommitSubmit(c)
  <2>1. /\ assignments[r.id].version = r.seen.version
        /\ sessions[r.sid].version = r.seenSession.version
        /\ r.id \in AssignmentIds /\ r.sid \in SessionIds
    BY <1>2, <1>8
    DEF CommitSubmit, AssignmentUnchanged, SessionUnchanged, FreshRequest, r
  <2>2. AssignmentsAdvance
    BY <1>1, <1>3, <1>8, <2>1, SubmittedFacts, WriteAdvances
    DEF CommitSubmit, r
  <2>3. SessionsAdvance
    BY <1>1, <1>4, <1>8, <2>1, EndedSessionFacts, SessionWriteAdvances
    DEF CommitSubmit, r
  <2>4. QED  BY <2>2, <2>3
<1>9. CASE CommitAbandon(c)
  <2>1. /\ assignments[r.id] = r.seen
        /\ sessions[r.sid].version = r.seenSession.version
        /\ r.id \in AssignmentIds /\ r.sid \in SessionIds
    BY <1>2, <1>9
    DEF CommitAbandon, AssignmentUnchanged, SessionUnchanged, FreshRequest, r
  <2>2. AssignmentsAdvance
    BY <1>1, <1>3, <1>9, <2>1, ReleasedFacts, WriteAdvances
    DEF CommitAbandon, r
  <2>3. SessionsAdvance
    BY <1>1, <1>4, <1>9, <2>1, EndedSessionFacts, SessionWriteAdvances
    DEF CommitAbandon, r
  <2>4. QED  BY <2>2, <2>3
<1>10. QED  BY <1>5, <1>6, <1>7, <1>8, <1>9 DEF Commit

\* Every step advances both tables.
LEMMA StepAdvances ==
  ASSUME Inductive, [Next]_vars
  PROVE  AssignmentsAdvance /\ SessionsAdvance
<1>1. CASE UNCHANGED <<assignments, sessions>>
  BY <1>1, UnchangedAdvances
<1>2. CASE ExpireNext
  <2>1. PICK e \in sweep.rows :
          /\ \/ /\ assignments[e.id].version = e.row.version
                /\ WriteAssignment(e.id, ExpiredAssignment(e.row))
             \/ UNCHANGED assignments
          /\ UNCHANGED sessions
    BY <1>2 DEF ExpireNext
  <2>2. e.id \in AssignmentIds /\ e.row \in Assignment
    BY DEF Inductive, TypeOK, SweptRow
  <2>3. assignments[e.id].version \in Nat
    BY <2>2 DEF Inductive, TypeOK, LedgerTypeOK, Assignment
  <2>4. AssignmentsAdvance
    BY <2>1, <2>2, <2>3, ExpiredFacts, WriteAdvances, UnchangedAdvances
  <2>5. QED  BY <2>1, <2>4, UnchangedAdvances
<1>3. ASSUME NEW c \in Clients, Begin(c)
      PROVE  UNCHANGED <<assignments, sessions>>
  BY <1>3, BeginOnlyReads DEF ledgerVars
<1>4. QED
  BY <1>1, <1>2, <1>3, CommitAdvances
  DEF Next, Tick, Advance, Fail, Worker, ListExpired, StopSweep, vars,
      ledgerVars

-----------------------------------------------------------------------------
(* The inductive invariant is inductive *)

\* A request stays fresh, and what it validated stays true of what it read,
\* while the tables advance and the clock does not go back.
LEMMA RequestKept ==
  ASSUME Inductive, AssignmentsAdvance, SessionsAdvance, TypeOK',
         NEW r \in Request, FreshRequest(r), ValidRequest(r),
         clock <= clock'
  PROVE  FreshRequest(r)' /\ ValidRequest(r)'
<1>1. /\ r.seen.version \in Nat /\ r.seenSession.version \in Nat
      /\ r.now \in Nat
  BY DEF Request, Assignment, Session
<1>2. /\ \A a \in AssignmentIds :
           assignments[a].version \in Nat /\ assignments'[a].version \in Nat
      /\ \A s \in SessionIds :
           sessions[s].version \in Nat /\ sessions'[s].version \in Nat
      /\ clock \in Nat /\ clock' \in Nat
  BY DEF Inductive, TypeOK, LedgerTypeOK, Assignment, Session
<1>3. FreshRequest(r)'
  BY <1>1, <1>2
  DEF FreshRequest, AssignmentUnchanged, SessionUnchanged,
      AssignmentsAdvance, SessionsAdvance
<1>4. ValidRequest(r)'
  BY <1>1, <1>2 DEF ValidRequest
<1>5. QED  BY <1>3, <1>4

\* The idle request promises nothing.
LEMMA IdleFresh == FreshRequest(Idle) /\ ValidRequest(Idle)
<1>1. Idle.op = "idle"
  BY DEF Idle
<1>2. FreshRequest(Idle)
  BY <1>1 DEF FreshRequest
<1>3. ValidRequest(Idle)
  BY <1>1 DEF ValidRequest
<1>4. QED  BY <1>2, <1>3

\* A handler captures rows that are current and passed its checks.
LEMMA BeginFresh ==
  ASSUME Inductive, NEW c \in Clients, Begin(c)
  PROVE  \E r \in Request :
           Hold(c, r) /\ FreshRequest(r) /\ ValidRequest(r)
<1>1. ASSUME NEW m \in Members, NEW a \in AssignmentIds,
             NEW p \in InputPages, NEW w \in InputWindows,
             BeginReserve(c, m, a, p, w)
      PROVE  \E r \in Request :
               Hold(c, r) /\ FreshRequest(r) /\ ValidRequest(r)
  <2> DEFINE r == [Idle EXCEPT !.op = "reserve", !.id = a, !.member = m,
                               !.pages = p, !.window = w]
  <2>1. r \in Request
    BY InputAssumption, IdleType DEF InputAssumption, Request, Op
  <2>2. /\ w.start \in Nat /\ w.end \in Nat
        /\ ProgramWindow.start \in Nat /\ ProgramWindow.end \in Nat
    BY InputAssumption, EnvironmentAssumption
    DEF InputAssumption, EnvironmentAssumption, Windows
  <2>3. FreshRequest(r) /\ ValidRequest(r)
    BY <1>1, <2>2
    DEF BeginReserve, Idle, InsideProgram, FreshRequest, ValidRequest,
        AssignmentUnchanged, SessionUnchanged
  <2>4. Hold(c, r)
    BY <1>1 DEF BeginReserve
  <2> HIDE DEF r
  <2>5. QED  BY <2>1, <2>3, <2>4
<1>2. ASSUME NEW m \in Members, NEW a \in AssignmentIds,
             NEW p \in InputPages, NEW w \in InputWindows,
             BeginMove(c, m, a, p, w)
      PROVE  \E r \in Request :
               Hold(c, r) /\ FreshRequest(r) /\ ValidRequest(r)
  <2> DEFINE r == [Idle EXCEPT !.op = "move", !.id = a, !.member = m,
                               !.seen = assignments[a],
                               !.pages = p, !.window = w]
  <2>1. assignments[a] \in Assignment /\ assignments[a].version \in Nat
    BY DEF Inductive, TypeOK, LedgerTypeOK, Assignment
  <2>2. r \in Request
    BY <2>1, InputAssumption, IdleType DEF InputAssumption, Request, Op
  <2>3. w.start \in Nat /\ w.end \in Nat
    BY InputAssumption DEF InputAssumption, Windows
  <2>4. FreshRequest(r) /\ ValidRequest(r)
    BY <1>2, <2>1, <2>3
    DEF BeginMove, Idle, FreshRequest, ValidRequest,
        AssignmentUnchanged, SessionUnchanged
  <2>5. Hold(c, r)
    BY <1>2 DEF BeginMove
  <2> HIDE DEF r
  <2>6. QED  BY <2>2, <2>4, <2>5
<1>3. ASSUME NEW m \in Members, NEW a \in AssignmentIds, NEW s \in SessionIds,
             BeginStart(c, m, a, s)
      PROVE  \E r \in Request :
               Hold(c, r) /\ FreshRequest(r) /\ ValidRequest(r)
  <2> DEFINE r == [Idle EXCEPT !.op = "start", !.id = a, !.member = m,
                               !.seen = assignments[a], !.sid = s,
                               !.now = clock]
  <2>1. /\ assignments[a] \in Assignment /\ assignments[a].version \in Nat
        /\ clock \in Nat /\ clock \in 1 .. clock
    BY DEF Inductive, TypeOK, LedgerTypeOK, Assignment
  <2>2. r \in Request
    BY <2>1, IdleType DEF Request, Op
  <2>3. FreshRequest(r) /\ ValidRequest(r)
    BY <1>3, <2>1
    DEF BeginStart, Idle, FreshRequest, ValidRequest,
        AssignmentUnchanged, SessionUnchanged
  <2>4. Hold(c, r)
    BY <1>3 DEF BeginStart
  <2> HIDE DEF r
  <2>5. QED  BY <2>2, <2>3, <2>4
<1>4. ASSUME NEW m \in Members, NEW s \in SessionIds, NEW p \in InputPages,
             BeginSubmit(c, m, s, p)
      PROVE  \E r \in Request :
               Hold(c, r) /\ FreshRequest(r) /\ ValidRequest(r)
  <2> DEFINE a == sessions[s].assignment
  <2> DEFINE r == [Idle EXCEPT !.op = "submit", !.id = a, !.member = m,
                               !.seen = assignments[a], !.sid = s,
                               !.seenSession = sessions[s], !.pages = p]
  <2>1. sessions[s] \in Session /\ sessions[s].version \in Nat
    BY DEF Inductive, TypeOK, LedgerTypeOK, Session
  <2>2. /\ a \in AssignmentIds
        /\ assignments[a] \in Assignment /\ assignments[a].version \in Nat
    BY <1>4 DEF BeginSubmit, Inductive, TypeOK, LedgerTypeOK, Assignment
  <2>3. r \in Request
    BY <2>1, <2>2, InputAssumption, IdleType DEF InputAssumption, Request, Op
  <2>4. FreshRequest(r) /\ ValidRequest(r)
    BY <1>4, <2>1, <2>2
    DEF BeginSubmit, Idle, FreshRequest, ValidRequest,
        AssignmentUnchanged, SessionUnchanged
  <2>5. Hold(c, r)
    BY <1>4 DEF BeginSubmit
  <2> HIDE DEF r
  <2>6. QED  BY <2>3, <2>4, <2>5
<1>5. ASSUME NEW m \in Members, NEW s \in SessionIds, BeginAbandon(c, m, s)
      PROVE  \E r \in Request :
               Hold(c, r) /\ FreshRequest(r) /\ ValidRequest(r)
  <2> DEFINE a == sessions[s].assignment
  <2> DEFINE r == [Idle EXCEPT !.op = "abandon", !.id = a, !.member = m,
                               !.seen = assignments[a], !.sid = s,
                               !.seenSession = sessions[s]]
  <2>1. sessions[s] \in Session /\ sessions[s].version \in Nat
    BY DEF Inductive, TypeOK, LedgerTypeOK, Session
  <2>2. /\ a \in AssignmentIds
        /\ assignments[a] \in Assignment /\ assignments[a].version \in Nat
    BY <1>5 DEF BeginAbandon, Inductive, TypeOK, LedgerTypeOK, Assignment
  <2>3. r \in Request
    BY <2>1, <2>2, IdleType DEF Request, Op
  <2>4. FreshRequest(r) /\ ValidRequest(r)
    BY <1>5, <2>1, <2>2
    DEF BeginAbandon, Idle, FreshRequest, ValidRequest,
        AssignmentUnchanged, SessionUnchanged
  <2>5. Hold(c, r)
    BY <1>5 DEF BeginAbandon
  <2> HIDE DEF r
  <2>6. QED  BY <2>3, <2>4, <2>5
<1>6. QED  BY <1>1, <1>2, <1>3, <1>4, <1>5 DEF Begin

\* Time does not go back.
LEMMA ClockAdvances ==
  ASSUME Inductive, [Next]_vars
  PROVE  clock <= clock'
<1>1. clock \in Nat
  BY DEF Inductive, TypeOK, LedgerTypeOK
<1>2. CASE UNCHANGED clock
  BY <1>1, <1>2
<1>3. CASE Tick
  BY <1>1, <1>3 DEF Tick, Advance
<1>4. ASSUME NEW c \in Clients, Begin(c) \/ Commit(c) \/ Fail(c)
      PROVE  UNCHANGED clock
  BY <1>4, BeginOnlyReads, AnswerKeepsRest DEF ledgerVars
<1>5. ASSUME Worker \/ UNCHANGED vars
      PROVE  UNCHANGED clock
  BY <1>5 DEF Worker, ListExpired, ExpireNext, StopSweep, vars, ledgerVars
<1>6. QED  BY <1>2, <1>3, <1>4, <1>5 DEF Next

\* Every step leaves each client a fresh and validated request.
LEMMA RequestsStep ==
  ASSUME Inductive, TypeOK', [Next]_vars
  PROVE  RequestsFresh' /\ RequestsValid'
<1>1. AssignmentsAdvance /\ SessionsAdvance
  BY StepAdvances
<1>2. clock <= clock'
  BY ClockAdvances
<1>3. \A c \in Clients :
        /\ request[c] \in Request
        /\ FreshRequest(request[c]) /\ ValidRequest(request[c])
  BY DEF Inductive, TypeOK, RequestsFresh, RequestsValid
<1>4. SUFFICES ASSUME NEW c \in Clients
               PROVE  FreshRequest(request[c])' /\ ValidRequest(request[c])'
  BY DEF RequestsFresh, RequestsValid
<1>5. \E r \in Request :
        request'[c] = r /\ FreshRequest(r) /\ ValidRequest(r)
  <2>1. CASE request'[c] = request[c]
    BY <1>3, <2>1
  <2>2. ASSUME NEW d \in Clients, Begin(d)
        PROVE  \E r \in Request :
                 request'[c] = r /\ FreshRequest(r) /\ ValidRequest(r)
    <3>1. PICK r \in Request : Hold(d, r) /\ FreshRequest(r) /\ ValidRequest(r)
      BY <2>2, BeginFresh
    <3>2. request'[c] = IF c = d THEN r ELSE request[c]
      BY <3>1 DEF Hold, Inductive, TypeOK
    <3>3. QED  BY <1>3, <3>1, <3>2
  <2>3. ASSUME NEW d \in Clients, Answer(d)
        PROVE  \E r \in Request :
                 request'[c] = r /\ FreshRequest(r) /\ ValidRequest(r)
    <3>1. request'[c] = IF c = d THEN Idle ELSE request[c]
      BY <2>3 DEF Answer, Inductive, TypeOK
    <3>2. QED  BY <1>3, <3>1, IdleType, IdleFresh
  <2>4. \/ request' = request
        \/ \E d \in Clients : Begin(d) \/ Answer(d)
    BY DEF Next, Tick, Commit, Fail, Worker, CommitReserve, CommitMove,
           CommitStart, CommitSubmit, CommitAbandon, ListExpired, ExpireNext,
           StopSweep, vars
  <2>5. QED  BY <2>1, <2>2, <2>3, <2>4
<1>6. PICK r \in Request :
        request'[c] = r /\ FreshRequest(r) /\ ValidRequest(r)
  BY <1>5
<1>7. FreshRequest(r)' /\ ValidRequest(r)'
  BY <1>1, <1>2, <1>6, RequestKept
<1>8. QED
  BY <1>6, <1>7
  DEF FreshRequest, ValidRequest, AssignmentUnchanged, SessionUnchanged

\* Every step leaves the worker a batch of rows that were open and over.
LEMMA SweepStep ==
  ASSUME Inductive, TypeOK', [Next]_vars
  PROVE  SweepFresh' /\ SweepValid'
<1>1. AssignmentsAdvance /\ clock <= clock' /\ clock \in Nat /\ clock' \in Nat
  BY StepAdvances, ClockAdvances DEF Inductive, TypeOK, LedgerTypeOK
<1>2. /\ \A a \in AssignmentIds :
           assignments[a].version \in Nat /\ assignments'[a].version \in Nat
      /\ \A e \in sweep.rows :
           /\ e.id \in AssignmentIds /\ e.row \in Assignment
           /\ e.row.version \in Nat
      /\ sweep.now \in Nat
  BY DEF Inductive, TypeOK, LedgerTypeOK, Assignment, SweptRow
<1>3. ASSUME sweep'.rows \subseteq sweep.rows,
             sweep'.rows = {} \/ sweep'.now = sweep.now, sweep'.now <= clock
      PROVE  SweepFresh' /\ SweepValid'
  <2>1. SweepFresh'
    BY <1>1, <1>2, <1>3 DEF Inductive, SweepFresh, AssignmentsAdvance
  <2>2. sweep'.now <= clock' /\ sweep'.now \in Nat
    BY <1>1, <1>3 DEF TypeOK
  <2>3. ASSUME NEW e \in sweep'.rows
        PROVE  /\ e.row.state \in {"reserved", "in_reading"}
               /\ OverdueText(e.row, sweep'.now)
    <3>1. e \in sweep.rows /\ sweep'.now = sweep.now
      BY <1>3, <2>3
    <3>2. QED  BY <3>1 DEF Inductive, SweepValid
  <2>4. QED  BY <2>1, <2>2, <2>3 DEF SweepValid, OverdueText
<1>4. ASSUME NEW batch \in SUBSET AssignmentIds, ListExpired(batch)
      PROVE  SweepFresh' /\ SweepValid'
  <2>1. ASSUME NEW a \in batch
        PROVE  /\ assignments[a].state \in {"reserved", "in_reading"}
               /\ OverdueText(assignments[a], clock)
    BY <1>4, <2>1 DEF ListExpired, OverdueAssignments, OverdueText
  <2>2. /\ sweep'.now = clock
        /\ sweep'.rows = {[id |-> a, row |-> assignments[a]] : a \in batch}
        /\ UNCHANGED <<assignments, clock>>
    BY <1>4 DEF ListExpired, ledgerVars
  <2>3. \A e \in sweep'.rows :
          /\ e.row = assignments[e.id] /\ e.id \in AssignmentIds
          /\ e.row.state \in {"reserved", "in_reading"}
          /\ OverdueText(e.row, clock)
    BY <2>1, <2>2
  <2>4. QED  BY <1>1, <1>2, <2>2, <2>3 DEF SweepFresh, SweepValid, OverdueText
<1>5. CASE ExpireNext
  <2>1. PICK e \in sweep.rows : sweep' = Remaining(e)
    BY <1>5 DEF ExpireNext
  <2>2. QED
    BY <1>2, <1>3, <2>1 DEF Remaining, NoSweep, NoTime, Inductive, TypeOK,
       LedgerTypeOK, SweepValid
<1>6. CASE StopSweep
  BY <1>1, <1>3, <1>6 DEF StopSweep, NoSweep, NoTime
<1>7. ASSUME NEW c \in Clients, Begin(c) \/ Commit(c) \/ Fail(c)
      PROVE  UNCHANGED sweep
  BY <1>7, BeginOnlyReads, AnswerKeepsRest DEF ledgerVars
<1>8. CASE UNCHANGED sweep
  BY <1>3, <1>8 DEF Inductive, SweepValid
<1>9. QED
  BY <1>4, <1>5, <1>6, <1>7, <1>8 DEF Next, Tick, Worker, vars

\* The inductive invariant.
LEMMA Invariance == Spec => []Inductive
<1>1. Init => Inductive
  <2> SUFFICES ASSUME Init
               PROVE  Inductive
    OBVIOUS
  <2>1. TypeOK
    BY InitType
  <2>2. AbsentUnversioned
    BY DEF Init, LedgerInit, AbsentUnversioned, NoAssignment, NoSession
  <2>3. RequestsFresh /\ RequestsValid
    BY IdleFresh DEF Init, RequestsFresh, RequestsValid
  <2>4. SweepFresh /\ SweepValid
    BY DEF Init, LedgerInit, SweepFresh, SweepValid, NoSweep, NoTime
  <2>5. QED  BY <2>1, <2>2, <2>3, <2>4 DEF Inductive
<1>2. Inductive /\ [Next]_vars => Inductive'
  <2> SUFFICES ASSUME Inductive, [Next]_vars
               PROVE  Inductive'
    OBVIOUS
  <2>1. TypeOK'
    BY StepType DEF Inductive
  <2>2. AbsentUnversioned'
    BY StepAdvances DEF AssignmentsAdvance, SessionsAdvance, AbsentUnversioned
  <2>3. QED
    BY <2>1, <2>2, RequestsStep, SweepStep DEF Inductive
<1>3. QED  BY <1>1, <1>2, PTL DEF Spec

\* A handler's version-guarded UPDATE overwrites exactly the row it read: no
\* interleaving of handlers and worker passes loses a committed change.
THEOREM SnapshotsFresh == Spec => [](RequestsFresh /\ SweepFresh)
  BY Invariance, PTL DEF Inductive

-----------------------------------------------------------------------------
(* Transactions are operations on the current rows *)

\* A reservation is stored when the query has found nothing in its way.
LEMMA ReservationCommits ==
  ASSUME Inductive, NEW c \in Clients, CommitReserve(c)
  PROVE  \E a \in AssignmentIds, m \in Members,
            p \in InputPages, w \in InputWindows :
           /\ ReserveUntimed(a, m, p, w)
           /\ ValidPageRange(p) /\ w.start < w.end
           /\ InsideProgram(w)
           /\ FindAssignmentConflicts(p, w, Nil) = {}
<1> DEFINE r == request[c]
<1>1. ValidRequest(r)
  BY DEF Inductive, RequestsValid
<1>2. r.op = "reserve" /\ ReserveUntimed(r.id, r.member, r.pages, r.window)
  BY DEF CommitReserve, ReserveUntimed, Answer
<1>3. FindAssignmentConflicts(r.pages, r.window, Nil) = {}
  BY DEF CommitReserve
<1> HIDE DEF r
<1>4. QED  BY <1>1, <1>2, <1>3 DEF ValidRequest

\* A move replaces the row that was read, which is the stored one.
LEMMA MoveCommits ==
  ASSUME Inductive, NEW c \in Clients, CommitMove(c)
  PROVE  \E a \in AssignmentIds, p \in InputPages, w \in InputWindows :
           /\ MoveUntimed(a, p, w)
           /\ assignments[a].version < MaxVersion
           /\ ValidPageRange(p) /\ w.start < w.end
           /\ FindAssignmentConflicts(p, w, a) = {}
<1> DEFINE r == request[c]
<1>1. ValidRequest(r) /\ FreshRequest(r)
  BY DEF Inductive, RequestsValid, RequestsFresh
<1>2. /\ r.op = "move" /\ AssignmentUnchanged(r)
      /\ FindAssignmentConflicts(r.pages, r.window, r.id) = {}
      /\ WriteAssignment(r.id, Moved(r.seen, r.pages, r.window))
      /\ UNCHANGED <<clock, sessions>>
  BY DEF CommitMove, Answer
<1> HIDE DEF r
<1>3. r.id \in AssignmentIds /\ assignments[r.id] = r.seen
  BY <1>1, <1>2 DEF FreshRequest
<1>4. MoveUntimed(r.id, r.pages, r.window)
  BY <1>1, <1>2, <1>3 DEF MoveUntimed, ValidRequest
<1>5. QED  BY <1>1, <1>2, <1>3, <1>4 DEF ValidRequest

\* Starting, submitting and abandoning are the atomic operations of the ledger.
LEMMA SessionCommits ==
  ASSUME Inductive, NEW c \in Clients,
         CommitStart(c) \/ CommitSubmit(c) \/ CommitAbandon(c)
  PROVE  SessionStep
<1> DEFINE r == request[c]
<1>1. r.now \in Nat /\ r.id \in AssignmentIds \cup {Nil}
  BY DEF Inductive, TypeOK, Request
<1>2. FreshRequest(r) /\ ValidRequest(r)
  BY DEF Inductive, RequestsFresh, RequestsValid
<1>3. clock \in 1 .. Horizon /\ Horizon \in Nat
  BY BoundsAssumption DEF Inductive, TypeOK, LedgerTypeOK, BoundsAssumption
<1> HIDE DEF r
<1>4. CASE CommitStart(c)
  <2>1. /\ r.op = "start" /\ AssignmentUnchanged(r)
        /\ sessions[r.sid].state = "absent"
        /\ WriteAssignment(r.id, StartedAssignment(r.seen, r.sid, r.now))
        /\ WriteSession(r.sid, StartedSession(r.id, r.member, r.now))
        /\ UNCHANGED clock
    BY <1>4 DEF CommitStart, Answer, r
  <2>2. r.id \in AssignmentIds /\ assignments[r.id] = r.seen
    BY <1>2, <2>1 DEF FreshRequest
  <2>3. r.now <= clock /\ r.now \in 1 .. Horizon /\ r.sid \in SessionIds
    BY <1>1, <1>2, <1>3, <2>1 DEF ValidRequest
  <2>4. Start(r.id, r.sid, r.now)
    BY <1>2, <2>1, <2>2, <2>3 DEF Start, ValidRequest
  <2>5. QED  BY <2>2, <2>3, <2>4 DEF SessionStep
<1>5. CASE CommitSubmit(c)
  <2>1. /\ r.op = "submit" /\ AssignmentUnchanged(r) /\ SessionUnchanged(r)
        /\ WriteSession(r.sid, SubmittedSession(r.seenSession, r.pages))
        /\ WriteAssignment(r.id, SubmittedAssignment(r.seen))
        /\ UNCHANGED clock
    BY <1>5 DEF CommitSubmit, Answer, r
  <2>2. /\ r.id \in AssignmentIds /\ assignments[r.id] = r.seen
        /\ r.sid \in SessionIds /\ sessions[r.sid] = r.seenSession
    BY <1>2, <2>1 DEF FreshRequest
  <2>3. Submit(r.id, r.sid, r.pages) /\ r.pages \in InputPages
    BY <1>2, <2>1, <2>2 DEF Submit, ValidRequest
  <2>4. QED  BY <2>2, <2>3 DEF SessionStep
<1>6. CASE CommitAbandon(c)
  <2>1. /\ r.op = "abandon" /\ AssignmentUnchanged(r) /\ SessionUnchanged(r)
        /\ WriteSession(r.sid, AbandonedSession(r.seenSession))
        /\ WriteAssignment(r.id, ReleasedAssignment(r.seen))
        /\ UNCHANGED clock
    BY <1>6 DEF CommitAbandon, Answer, r
  <2>2. /\ r.id \in AssignmentIds /\ assignments[r.id] = r.seen
        /\ r.sid \in SessionIds /\ sessions[r.sid] = r.seenSession
    BY <1>2, <2>1 DEF FreshRequest
  <2>3. Abandon(r.id, r.sid)
    BY <1>2, <2>1, <2>2 DEF Abandon, ValidRequest
  <2>4. QED  BY <2>2, <2>3 DEF SessionStep
<1>7. QED  BY <1>4, <1>5, <1>6

\* The worker expires a row as it is stored, which was over when it listed it.
LEMMA WorkerExpires ==
  ASSUME Inductive, ExpireNext
  PROVE  \/ UNCHANGED ledgerVars
         \/ \E a \in AssignmentIds :
              /\ ExpireUntimed(a)
              /\ Expirable(assignments[a], sweep.now)
              /\ OverdueText(assignments[a], sweep.now)
<1>1. PICK e \in sweep.rows :
        /\ \/ /\ assignments[e.id].version = e.row.version
              /\ WriteAssignment(e.id, ExpiredAssignment(e.row))
              /\ Expirable(e.row, sweep.now)
           \/ UNCHANGED assignments
        /\ UNCHANGED <<clock, sessions>>
  BY DEF ExpireNext
<1>2. CASE UNCHANGED assignments
  BY <1>1, <1>2 DEF ledgerVars
<1>3. CASE /\ assignments[e.id].version = e.row.version
           /\ WriteAssignment(e.id, ExpiredAssignment(e.row))
           /\ Expirable(e.row, sweep.now)
  <2>1. e.id \in AssignmentIds
    BY DEF Inductive, TypeOK, SweptRow
  <2>2. /\ assignments[e.id] = e.row
        /\ e.row.state \in {"reserved", "in_reading"}
        /\ OverdueText(e.row, sweep.now)
    BY <1>3 DEF Inductive, SweepFresh, SweepValid
  <2>3. ExpireUntimed(e.id)
    BY <1>1, <1>3, <2>2 DEF ExpireUntimed
  <2>4. QED  BY <1>3, <2>1, <2>2, <2>3
<1>4. QED  BY <1>1, <1>2, <1>3

\* The parts a step can be: a booking, an operation on a session, an expiry,
\* time, or nothing the tables show.
LEMMA StepParts ==
  ASSUME Inductive, [Next]_vars
  PROVE  \/ \E c \in Clients : CommitReserve(c) \/ CommitMove(c)
         \/ SessionStep
         \/ ExpireNext
         \/ Advance
         \/ UNCHANGED ledgerVars
<1>1. CASE Tick
  BY <1>1 DEF Tick
<1>2. ASSUME NEW c \in Clients, Commit(c)
      PROVE  CommitReserve(c) \/ CommitMove(c) \/ SessionStep
  BY <1>2, SessionCommits DEF Commit
<1>3. ASSUME NEW c \in Clients, Begin(c) \/ Fail(c)
      PROVE  UNCHANGED ledgerVars
  BY <1>3, BeginOnlyReads DEF Fail, Answer, ledgerVars
<1>4. ASSUME UNCHANGED vars \/ StopSweep
             \/ \E batch \in SUBSET AssignmentIds : ListExpired(batch)
      PROVE  UNCHANGED ledgerVars
  BY <1>4 DEF vars, StopSweep, ListExpired
<1>5. QED  BY <1>1, <1>2, <1>3, <1>4 DEF Next, Worker

-----------------------------------------------------------------------------
(* Whatever the times *)

\* However persisted times compare, every step is an operation on the current
\* rows or does not touch the tables.
LEMMA StepUntimed ==
  ASSUME Inductive, [Next]_vars
  PROVE  [UntimedNext]_ledgerVars
<1>1. ASSUME NEW c \in Clients, CommitReserve(c) \/ CommitMove(c)
      PROVE  BookingStep
  BY <1>1, ReservationCommits, MoveCommits DEF BookingStep
<1>2. QED  BY <1>1, StepParts, WorkerExpires DEF UntimedNext

\* A section and its session agree, and evidence lies inside its section,
\* through every interleaving of the service and at every resolution of time.
THEOREM ServiceAgrees ==
  Spec => [](/\ LeaseBelongsToReader
             /\ SessionMatchesAssignment
             /\ SubmittedHasSession
             /\ EvidenceInsideSection)
<1>1. Init => Agreement
  BY AgreementInit DEF Init
<1>2. Inductive /\ Agreement /\ [Next]_vars => Agreement'
  BY AgreementStep, StepUntimed DEF Inductive, TypeOK
<1>3. Agreement <=> /\ LeaseBelongsToReader
                    /\ SessionMatchesAssignment
                    /\ SubmittedHasSession
                    /\ EvidenceInsideSection
  BY DEF Agreement
<1>4. QED  BY <1>1, <1>2, <1>3, Invariance, PTL DEF Spec

\* A section is read once: from the moment a session is opened for it no other
\* session ever is, whatever starts, retries and expiries were under way, and
\* it is never free to be started again.  This rests on the versions and the
\* states alone, so UNIQUE (assignment_id) of the sessions' table never turns
\* away a start that found its section reserved.
THEOREM SectionsReadOnce ==
  ASSUME NEW s \in SessionIds, NEW a \in AssignmentIds
  PROVE  Spec => [](Reads(s, a)
                      => [](/\ Reads(s, a)
                            /\ assignments[a].state # "reserved"
                            /\ \A x \in SessionIds \ {s} : ~Reads(x, a)))
<1> DEFINE Alone == \A x \in SessionIds \ {s} : ~Reads(x, a)
<1>1. Init => Agreement /\ OneSessionEach
  BY AgreementInit DEF Init, LedgerInit, OneSessionEach, Reads, NoSession
<1>2. Inductive /\ Agreement /\ OneSessionEach /\ [Next]_vars
        => (Agreement /\ OneSessionEach)'
  BY AgreementStep, OneSessionStep, StepUntimed DEF Inductive, TypeOK
<1>3. Inductive /\ Agreement /\ [Next]_vars /\ Reads(s, a) /\ Alone
        => (Reads(s, a) /\ Alone)'
  BY ReadersStay, StepUntimed DEF Inductive, TypeOK
<1>4. OneSessionEach /\ Reads(s, a) => Alone
  BY DEF OneSessionEach
<1>5. Inductive /\ Agreement /\ Reads(s, a) => assignments[a].state # "reserved"
  BY ReadSection DEF Inductive, TypeOK
<1> HIDE DEF Alone
<1>6. Spec => [](Reads(s, a)
                   => [](/\ Reads(s, a)
                         /\ assignments[a].state # "reserved"
                         /\ Alone))
  BY <1>1, <1>2, <1>3, <1>4, <1>5, Invariance, PTL DEF Spec
<1>7. QED  BY <1>6 DEF Alone

\* No late commit of a handler and no late expiry of the worker writes a
\* section that is submitted, released or expired.
THEOREM ServiceKeepsTerminal == Spec => TerminalIsFinal
<1>1. Inductive /\ [Next]_vars
        => [\A a \in AssignmentIds : TerminalAssignment(a)]_ledgerVars
  BY TerminalStep, StepUntimed DEF Inductive, TypeOK
<1>2. QED  BY <1>1, Invariance, PTL DEF Spec, TerminalIsFinal

\* Nobody reads a reservation, so it has no lease that could run out.
LEMMA ReservationsUnleased == Spec => []ReservedUnleased
<1>1. Init => ReservedUnleased
  BY DEF Init, LedgerInit, ReservedUnleased, NoAssignment
<1>2. Inductive /\ ReservedUnleased /\ [Next]_vars => ReservedUnleased'
  BY RowsAdvance, StepUntimed
  DEF Inductive, TypeOK, AssignmentAdvances, ReservedUnleased
<1>3. QED  BY <1>1, <1>2, Invariance, PTL DEF Spec

\* The guard of every UPDATE is sound: a row that changes gets a higher version.
THEOREM ServiceMovesVersions == Spec => VersionsAdvance
<1>1. Inductive /\ ReservedUnleased /\ [Next]_vars
      => [/\ \A a \in AssignmentIds :
               assignments'[a] # assignments[a] =>
                 assignments'[a].version > assignments[a].version
          /\ \A s \in SessionIds :
               sessions'[s] # sessions[s] =>
                 sessions'[s].version > sessions[s].version]_ledgerVars
  BY RowsAdvance, StepUntimed
  DEF Inductive, TypeOK, AssignmentAdvances, SessionAdvances
<1>2. QED
  BY <1>1, ReservationsUnleased, Invariance, PTL DEF Spec, VersionsAdvance

-----------------------------------------------------------------------------
(* The program's window *)

\* A section that exists and lies outside the window of its program.
Strayed(row) == row.state # "absent" /\ ~InsideProgram(row.window)

\* Starting, submitting, abandoning and expiring keep the window of every
\* section and bring no section into being.
LEMMA WindowsStay ==
  ASSUME LedgerTypeOK, Agreement,
         SessionStep \/ \E a \in AssignmentIds : ExpireUntimed(a),
         NEW x \in AssignmentIds
  PROVE  /\ assignments'[x].window = assignments[x].window
         /\ assignments[x].state = "absent" => assignments'[x].state = "absent"
<1>1. /\ \A a \in AssignmentIds : assignments[a] \in Assignment
      /\ \A s \in SessionIds : sessions[s] \in Session
  BY DEF LedgerTypeOK
<1>2. ASSUME NEW a \in AssignmentIds, NEW row, WriteAssignment(a, row),
             row.window = assignments[a].window,
             assignments[a].state = "absent" => row.state = "absent"
      PROVE  /\ assignments'[x].window = assignments[x].window
             /\ assignments[x].state = "absent"
                  => assignments'[x].state = "absent"
  BY <1>2 DEF WriteAssignment, LedgerTypeOK
<1>3. ASSUME NEW a \in AssignmentIds, ExpireUntimed(a)
      PROVE  /\ assignments'[x].window = assignments[x].window
             /\ assignments[x].state = "absent"
                  => assignments'[x].state = "absent"
  BY <1>1, <1>2, <1>3, ExpiredFacts DEF ExpireUntimed
<1>4. ASSUME NEW a \in AssignmentIds, NEW s \in SessionIds,
             NEW t \in 1 .. Horizon, Start(a, s, t)
      PROVE  /\ assignments'[x].window = assignments[x].window
             /\ assignments[x].state = "absent"
                  => assignments'[x].state = "absent"
  <2>1. StartedAssignment(assignments[a], s, t).window = assignments[a].window
    BY <1>1, StartedFacts
  <2>2. QED  BY <1>2, <1>4, <2>1 DEF Start
<1>5. ASSUME NEW a \in AssignmentIds, NEW s \in SessionIds, NEW p,
             Submit(a, s, p)
      PROVE  /\ assignments'[x].window = assignments[x].window
             /\ assignments[x].state = "absent"
                  => assignments'[x].state = "absent"
  BY <1>1, <1>2, <1>5, SubmittedFacts DEF Submit
<1>6. ASSUME NEW a \in AssignmentIds, NEW s \in SessionIds, Abandon(a, s)
      PROVE  /\ assignments'[x].window = assignments[x].window
             /\ assignments[x].state = "absent"
                  => assignments'[x].state = "absent"
  <2>1. assignments[a].state # "absent"
    BY <1>6 DEF Abandon, Agreement, SessionMatchesAssignment
  <2>2. QED  BY <1>1, <1>2, <1>6, <2>1, ReleasedFacts DEF Abandon
<1>7. QED  BY <1>3, <1>4, <1>5, <1>6 DEF SessionStep

\* A new reservation is inside the program's window.
LEMMA ReservationsInside ==
  ASSUME Inductive, NEW c \in Clients, CommitReserve(c),
         NEW x \in AssignmentIds, Strayed(assignments'[x])
  PROVE  Strayed(assignments[x])
<1>1. PICK a \in AssignmentIds, m \in Members,
           p \in InputPages, w \in InputWindows :
        ReserveUntimed(a, m, p, w) /\ InsideProgram(w)
  BY ReservationCommits
<1>2. NewAssignment(m, p, w).window = w
  BY NewAssignmentFacts, InputAssumption DEF InputAssumption
<1>3. CASE x = a
  BY <1>1, <1>2, <1>3
  DEF ReserveUntimed, WriteAssignment, Strayed, Inductive, TypeOK, LedgerTypeOK
<1>4. CASE x # a
  BY <1>1, <1>4
  DEF ReserveUntimed, WriteAssignment, Inductive, TypeOK, LedgerTypeOK
<1>5. QED  BY <1>3, <1>4

\* A section comes to lie outside its program's window only by a move, made by
\* a handler that holds one: nothing else the service does, in any order, puts
\* a section there.
THEOREM OnlyMovesStray ==
  Spec => [][\A x \in AssignmentIds :
               Strayed(assignments'[x]) =>
                 \/ Strayed(assignments[x])
                 \/ /\ assignments[x].state = "reserved"
                    /\ \E c \in Clients :
                         CommitMove(c) /\ request[c].id = x]_vars
<1>1. Inductive /\ Agreement /\ [Next]_vars
      => [\A x \in AssignmentIds :
            Strayed(assignments'[x]) =>
              \/ Strayed(assignments[x])
              \/ /\ assignments[x].state = "reserved"
                 /\ \E c \in Clients :
                      CommitMove(c) /\ request[c].id = x]_vars
  <2> SUFFICES ASSUME Inductive, Agreement, [Next]_vars,
                      NEW x \in AssignmentIds,
                      Strayed(assignments'[x]), ~Strayed(assignments[x])
               PROVE  /\ assignments[x].state = "reserved"
                      /\ \E c \in Clients : CommitMove(c) /\ request[c].id = x
    OBVIOUS
  <2>1. ~(\E c \in Clients : CommitReserve(c))
    BY ReservationsInside
  <2>2. ~(Advance \/ UNCHANGED ledgerVars)
    BY DEF Advance, ledgerVars
  <2>3. ~SessionStep /\ ~\E a \in AssignmentIds : ExpireUntimed(a)
    BY WindowsStay DEF Inductive, TypeOK, Strayed
  <2>4. PICK c \in Clients : CommitMove(c)
    BY <2>1, <2>2, <2>3, StepParts, WorkerExpires
  <2>5. assignments'[x] # assignments[x]
    OBVIOUS
  <2>6. request[c].id = x
    BY <2>4, <2>5
    DEF CommitMove, WriteAssignment, Inductive, TypeOK, LedgerTypeOK
  <2>7. assignments[x].state = "reserved"
    BY <2>4, <2>6
    DEF CommitMove, AssignmentUnchanged, Inductive, RequestsFresh,
        FreshRequest, RequestsValid, ValidRequest
  <2>8. QED  BY <2>4, <2>6, <2>7
<1>2. Agreement <=> /\ LeaseBelongsToReader
                    /\ SessionMatchesAssignment
                    /\ SubmittedHasSession
                    /\ EvidenceInsideSection
  BY DEF Agreement
<1>3. QED  BY <1>1, <1>2, ServiceAgrees, Invariance, PTL DEF Spec

-----------------------------------------------------------------------------
(* Bookings *)

\* A query that returns nothing has overlooked no clash of a second or more.
LEMMA QueryFindsClashes ==
  ASSUME TypeOK, NEW row \in Assignment, NEW id,
         NEW exclude, exclude = id \/ exclude = Nil,
         FindAssignmentConflicts(row.pages, row.window, exclude) = {}
  PROVE  ClearBy(id, row, TicksPerSecond)
<1> SUFFICES ASSUME NEW b \in AssignmentIds \ {id},
                    ClashBy(row, assignments[b], TicksPerSecond)
             PROVE  FALSE
  BY DEF ClearBy
<1>1. /\ assignments[b].window.start \in Nat /\ assignments[b].window.end \in Nat
      /\ row.window.start \in Nat /\ row.window.end \in Nat
      /\ assignments[b].pages.first \in Nat /\ assignments[b].pages.last \in Nat
      /\ row.pages.first \in Nat /\ row.pages.last \in Nat
  BY DEF TypeOK, LedgerTypeOK, Assignment, Windows, Pages
<1>2. b # exclude
  BY NilAssumption DEF NilAssumption
<1>3. /\ TextKey(assignments[b].window.start) < TextKey(row.window.end)
      /\ TextKey(assignments[b].window.end) > TextKey(row.window.start)
  BY <1>1, TextOrder DEF ClashBy
<1>4. b \in FindAssignmentConflicts(row.pages, row.window, exclude)
  BY <1>1, <1>2, <1>3 DEF FindAssignmentConflicts, ClashBy, Overlaps
<1>5. QED  BY <1>4

\* What a booking stores clashes with nothing by a second or more.
LEMMA BookingsClear ==
  ASSUME Inductive, NEW c \in Clients, CommitReserve(c) \/ CommitMove(c)
  PROVE  \E a \in AssignmentIds, row \in Assignment :
           WriteAssignment(a, row) /\ ClearBy(a, row, TicksPerSecond)
<1>1. TypeOK /\ \A a \in AssignmentIds : assignments[a] \in Assignment
  BY DEF Inductive, TypeOK, LedgerTypeOK
<1>2. CASE CommitReserve(c)
  <2>1. PICK a \in AssignmentIds, m \in Members,
             p \in InputPages, w \in InputWindows :
          /\ ReserveUntimed(a, m, p, w)
          /\ FindAssignmentConflicts(p, w, Nil) = {}
    BY <1>2, ReservationCommits
  <2> DEFINE row == NewAssignment(m, p, w)
  <2>2. row \in Assignment /\ row.pages = p /\ row.window = w
    BY NewAssignmentFacts, InputAssumption DEF InputAssumption
  <2>3. WriteAssignment(a, row)
    BY <2>1 DEF ReserveUntimed
  <2> HIDE DEF row
  <2>4. ClearBy(a, row, TicksPerSecond)
    BY <1>1, <2>1, <2>2, QueryFindsClashes
  <2>5. QED  BY <2>2, <2>3, <2>4
<1>3. CASE CommitMove(c)
  <2>1. PICK a \in AssignmentIds, p \in InputPages, w \in InputWindows :
          MoveUntimed(a, p, w) /\ FindAssignmentConflicts(p, w, a) = {}
    BY <1>3, MoveCommits
  <2> DEFINE row == Moved(assignments[a], p, w)
  <2>2. row \in Assignment /\ row.pages = p /\ row.window = w
    BY <1>1, MovedFacts, InputAssumption DEF InputAssumption
  <2>3. WriteAssignment(a, row)
    BY <2>1 DEF MoveUntimed
  <2> HIDE DEF row
  <2>4. ClearBy(a, row, TicksPerSecond)
    BY <1>1, <2>1, <2>2, QueryFindsClashes
  <2>5. QED  BY <2>2, <2>3, <2>4
<1>4. QED  BY <1>2, <1>3

\* At every resolution of time, two sections that are held share no page when
\* each begins a second or more before the other ends.
THEOREM NoSecondSharedEver == Spec => []NoSecondBookedTwice
<1>1. NoSecondBookedTwice <=> NoClashBy(TicksPerSecond)
  BY DEF NoSecondBookedTwice, NoClashBy, ClashBySecond, ClashBy
<1>2. Init => NoClashBy(TicksPerSecond)
  BY DEF Init, LedgerInit, NoClashBy, ClashBy, NoAssignment, Inactive
<1>3. Inductive /\ NoClashBy(TicksPerSecond) /\ [Next]_vars
        => NoClashBy(TicksPerSecond)'
  BY StepParts, BookingsClear, ClearWrite, WorkerExpires, NoClashStep
  DEF Inductive, TypeOK, Advance, ledgerVars
<1>4. QED  BY <1>1, <1>2, <1>3, Invariance, PTL DEF Spec

\* Hence no page of the edition is ever booked twice for the same moment, as
\* long as every persisted time is a whole second.
THEOREM ReadingNeverDoubleBooks ==
  ASSUME TicksPerSecond = 1
  PROVE  Spec => []NoDoubleBooking
<1>1. TypeOK /\ NoSecondBookedTwice => NoDoubleBooking
  BY ClashIsConflict
  DEF TypeOK, LedgerTypeOK, NoSecondBookedTwice, ClashBySecond, ClashBy,
      NoDoubleBooking
<1>2. QED  BY <1>1, NoSecondSharedEver, TypeCorrect, PTL

-----------------------------------------------------------------------------
(* Reading implements SectionLedger *)

\* With whole seconds a transaction that books is an operation of the ledger.
LEMMA BookingImplements ==
  ASSUME TicksPerSecond = 1, Inductive, NEW c \in Clients,
         CommitReserve(c) \/ CommitMove(c)
  PROVE  LedgerNext
<1>1. TypeOK /\ \A a \in AssignmentIds : assignments[a] \in Assignment
  BY DEF Inductive, TypeOK, LedgerTypeOK
<1>2. ASSUME NEW id, NEW row \in Assignment, ClearBy(id, row, TicksPerSecond)
      PROVE  Bookable(id, row)
  BY <1>1, <1>2, ClashIsConflict DEF ClearBy, Bookable
<1>3. CASE CommitReserve(c)
  <2>1. PICK a \in AssignmentIds, m \in Members,
             p \in InputPages, w \in InputWindows :
          /\ ReserveUntimed(a, m, p, w)
          /\ ValidPageRange(p) /\ w.start < w.end
          /\ FindAssignmentConflicts(p, w, Nil) = {}
    BY <1>3, ReservationCommits
  <2> DEFINE row == NewAssignment(m, p, w)
  <2>2. row \in Assignment /\ row.pages = p /\ row.window = w
    BY NewAssignmentFacts, InputAssumption DEF InputAssumption
  <2> HIDE DEF row
  <2>3. Bookable(a, row)
    BY <1>1, <1>2, <2>1, <2>2, QueryFindsClashes
  <2>4. Reserve(a, m, p, w)
    BY <2>1, <2>3 DEF Reserve, ReserveUntimed, row
  <2>5. QED  BY <2>4 DEF LedgerNext
<1>4. CASE CommitMove(c)
  <2>1. PICK a \in AssignmentIds, p \in InputPages, w \in InputWindows :
          /\ MoveUntimed(a, p, w)
          /\ assignments[a].version < MaxVersion
          /\ ValidPageRange(p) /\ w.start < w.end
          /\ FindAssignmentConflicts(p, w, a) = {}
    BY <1>4, MoveCommits
  <2> DEFINE row == Moved(assignments[a], p, w)
  <2>2. row \in Assignment /\ row.pages = p /\ row.window = w
    BY <1>1, MovedFacts, InputAssumption DEF InputAssumption
  <2> HIDE DEF row
  <2>3. Bookable(a, row)
    BY <1>1, <1>2, <2>1, <2>2, QueryFindsClashes
  <2>4. Move(a, p, w)
    BY <2>1, <2>3 DEF Move, MoveUntimed, row
  <2>5. QED  BY <2>4 DEF LedgerNext
<1>5. QED  BY <1>3, <1>4

\* With whole seconds the worker expires a row that is over.
LEMMA ExpiryImplements ==
  ASSUME TicksPerSecond = 1, Inductive, ExpireNext
  PROVE  LedgerNext \/ UNCHANGED ledgerVars
<1>1. SUFFICES ASSUME NEW a \in AssignmentIds, ExpireUntimed(a),
                      OverdueText(assignments[a], sweep.now)
               PROVE  LedgerNext
  BY WorkerExpires
<1>2. /\ assignments[a].window.end \in Nat /\ assignments[a].until \in Nat
      /\ sweep.now \in Nat /\ clock \in Nat /\ sweep.now <= clock
  BY DEF Inductive, TypeOK, LedgerTypeOK, SweepValid, Assignment, Windows
<1>3. Due(assignments[a], clock)
  BY <1>1, <1>2, WholeSecondKeys DEF OverdueText, Due
<1>4. Expire(a)
  BY <1>1, <1>3 DEF Expire, ExpireUntimed
<1>5. QED  BY <1>4 DEF LedgerNext

\* Refinement: read outside the transaction, version-guarded inside it, the
\* service does what the atomic ledger does, as long as every persisted time
\* is a whole second.
THEOREM ReadingImplementsLedger ==
  ASSUME TicksPerSecond = 1
  PROVE  Spec => LedgerSpec
<1>1. Init => LedgerInit
  BY DEF Init
<1>2. Inductive /\ [Next]_vars => [LedgerNext]_ledgerVars
  BY StepParts, BookingImplements, ExpiryImplements
  DEF LedgerNext, SessionStep
<1>3. QED  BY <1>1, <1>2, Invariance, PTL DEF Spec, LedgerSpec

-----------------------------------------------------------------------------
(* Expiry *)

\* The rows the expiry worker listed are still the stored ones wherever their
\* version did not move, so a pass never overwrites a handler's change.
THEOREM SweptRowsFresh == Spec => []SweepFresh
  BY SnapshotsFresh, PTL

\* No handler makes a section expired.
LEMMA HandlersDoNotExpire ==
  ASSUME LedgerTypeOK, BookingStep \/ SessionStep, NEW x \in AssignmentIds,
         assignments[x].state # "expired"
  PROVE  assignments'[x].state # "expired"
<1>1. \A a \in AssignmentIds : assignments[a] \in Assignment
  BY DEF LedgerTypeOK
<1>2. ASSUME NEW a \in AssignmentIds, NEW row, WriteAssignment(a, row),
             row.state = "expired" => assignments[a].state = "expired"
      PROVE  assignments'[x].state # "expired"
  BY <1>2 DEF WriteAssignment, LedgerTypeOK
<1>3. ASSUME NEW a \in AssignmentIds, NEW m \in Members,
             NEW p \in InputPages, NEW w \in InputWindows,
             ReserveUntimed(a, m, p, w)
      PROVE  assignments'[x].state # "expired"
  <2>1. NewAssignment(m, p, w).state = "reserved"
    BY DEF NewAssignment, NoAssignment
  <2>2. QED  BY <1>2, <1>3, <2>1 DEF ReserveUntimed
<1>4. ASSUME NEW a \in AssignmentIds,
             NEW p \in InputPages, NEW w \in InputWindows, MoveUntimed(a, p, w)
      PROVE  assignments'[x].state # "expired"
  <2>1. Moved(assignments[a], p, w).state = assignments[a].state
    BY <1>1 DEF Moved, Assignment
  <2>2. QED  BY <1>2, <1>4, <2>1 DEF MoveUntimed
<1>5. ASSUME NEW a \in AssignmentIds, NEW s \in SessionIds, NEW t,
             Start(a, s, t)
      PROVE  assignments'[x].state # "expired"
  <2>1. StartedAssignment(assignments[a], s, t).state = "in_reading"
    BY <1>1 DEF StartedAssignment, Assignment
  <2>2. QED  BY <1>2, <1>5, <2>1 DEF Start
<1>6. ASSUME NEW a \in AssignmentIds, NEW s \in SessionIds, NEW p,
             Submit(a, s, p)
      PROVE  assignments'[x].state # "expired"
  <2>1. SubmittedAssignment(assignments[a]).state = "submitted"
    BY <1>1, SubmittedFacts
  <2>2. QED  BY <1>2, <1>6, <2>1 DEF Submit
<1>7. ASSUME NEW a \in AssignmentIds, NEW s \in SessionIds, Abandon(a, s)
      PROVE  assignments'[x].state # "expired"
  <2>1. assignments[a].state # "expired"
          => ReleasedAssignment(assignments[a]).state = "released"
    BY <1>1 DEF ReleasedAssignment, Assignment
  <2>2. QED  BY <1>2, <1>7, <2>1 DEF Abandon
<1>8. QED
  BY <1>3, <1>4, <1>5, <1>6, <1>7 DEF BookingStep, SessionStep

\* What the worker expires is over by the clock of its pass or, for a mere
\* reservation, over within the second in which texts compare wrongly.
LEMMA ExpiredWasDue ==
  ASSUME Inductive, ReservedUnleased, NEW a \in AssignmentIds,
         Expirable(assignments[a], sweep.now),
         OverdueText(assignments[a], sweep.now)
  PROVE  \/ assignments[a].window.end <= clock
         \/ /\ assignments[a].state = "in_reading"
            /\ assignments[a].until <= clock
         \/ /\ assignments[a].state = "reserved"
            /\ assignments[a].window.end < clock + TicksPerSecond
<1>1. /\ assignments[a].window.end \in Nat /\ assignments[a].until \in Nat
      /\ sweep.now \in Nat /\ clock \in Nat /\ sweep.now <= clock
      /\ TicksPerSecond \in Nat
  BY ResolutionAssumption
  DEF Inductive, TypeOK, LedgerTypeOK, SweepValid, Assignment, Windows,
      ResolutionAssumption
<1>2. CASE assignments[a].state = "reserved"
  <2>1. TextKey(assignments[a].window.end) <= TextKey(sweep.now)
    BY <1>2 DEF ReservedUnleased, OverdueText
  <2>2. assignments[a].window.end < sweep.now + TicksPerSecond
    BY <1>1, <2>1, TextOrder
  <2>3. QED  BY <1>1, <1>2, <2>2
<1>3. CASE assignments[a].state = "in_reading"
  BY <1>1, <1>3 DEF Expirable
<1>4. QED  BY <1>2, <1>3 DEF Expirable

\* A section is expired only when it is over at that very step, however long
\* ago the worker listed it; a reservation may go less than a second early.
THEOREM ExpiriesDue == Spec => ExpiryIsDue
<1>1. Inductive /\ ReservedUnleased /\ [Next]_vars
        => [\A a \in AssignmentIds :
              /\ assignments[a].state # "expired"
              /\ assignments'[a].state = "expired"
              => \/ assignments[a].window.end <= clock
                 \/ /\ assignments[a].state = "in_reading"
                    /\ assignments[a].until <= clock
                 \/ /\ assignments[a].state = "reserved"
                    /\ assignments[a].window.end < clock + TicksPerSecond]_vars
  <2> SUFFICES ASSUME Inductive, ReservedUnleased, [Next]_vars,
                      NEW a \in AssignmentIds,
                      assignments[a].state # "expired",
                      assignments'[a].state = "expired"
               PROVE  \/ assignments[a].window.end <= clock
                      \/ /\ assignments[a].state = "in_reading"
                         /\ assignments[a].until <= clock
                      \/ /\ assignments[a].state = "reserved"
                         /\ assignments[a].window.end < clock + TicksPerSecond
    OBVIOUS
  <2>1. ~BookingStep /\ ~SessionStep
    BY HandlersDoNotExpire DEF Inductive, TypeOK
  <2>2. ~(\E c \in Clients : CommitReserve(c) \/ CommitMove(c))
    BY <2>1, ReservationCommits, MoveCommits DEF BookingStep
  <2>3. PICK x \in AssignmentIds :
          /\ ExpireUntimed(x)
          /\ Expirable(assignments[x], sweep.now)
          /\ OverdueText(assignments[x], sweep.now)
    BY <2>1, <2>2, StepParts, WorkerExpires DEF Advance, ledgerVars
  <2>4. x = a
    BY <2>3 DEF ExpireUntimed, WriteAssignment, Inductive, TypeOK, LedgerTypeOK
  <2>5. QED  BY <2>3, <2>4, ExpiredWasDue
<1>2. QED
  BY <1>1, ReservationsUnleased, Invariance, PTL DEF Spec, ExpiryIsDue

=============================================================================
