------------------------------- MODULE Reading -------------------------------
(***************************************************************************)
(* Page-section reservations and reading sessions of one study program:    *)
(* internal/service/reading.go over internal/domain/reading and the SQLite *)
(* store.                                                                  *)
(*                                                                         *)
(* A handler reads the rows it needs outside a transaction, validates      *)
(* them, computes the new rows from what it READ, and then opens a         *)
(* transaction whose updates are guarded by the versions it read.  So each *)
(* operation is two actions: Begin* captures the rows seen (request[c]),   *)
(* Commit* is the transaction.  A transaction that fails for whatever      *)
(* reason (lost version, conflict, busy database, cancelled context,       *)
(* crash) leaves no trace: that is Fail.  The expiry worker reads a batch  *)
(* of overdue rows and then updates them one by one.                       *)
(***************************************************************************)
EXTENDS SectionLedger, PersistedTime, FiniteSets

CONSTANTS
  Clients,          \* requests that can be in flight at the same time
  ProgramWindow,    \* [start, end] of the program
  BatchLimit        \* AssignmentExpiry.Limit

ASSUME EnvironmentAssumption ==
  ProgramWindow \in Windows /\ BatchLimit \in Nat \ {0}

VARIABLES
  request,       \* what each client's handler holds between its reads and its tx
  sweep          \* the batch the expiry worker is going through

vars == <<ledgerVars, request, sweep>>

-----------------------------------------------------------------------------
(* Queries *)

\* Mutant of FindAssignmentConflicts: sections in reading are forgotten.
FindReservedConflicts(pages, window, exclude) ==
  {b \in AssignmentIds \ {exclude} :
     LET row == assignments[b] IN
     /\ row.state = "reserved"
     /\ TextKey(row.window.start) < TextKey(window.end)
     /\ TextKey(row.window.end) > TextKey(window.start)
     /\ row.pages.first <= pages.last
     /\ row.pages.last >= pages.first}

\* Store.FindAssignmentConflicts, the query the transactions run instead.
FindAssignmentConflicts(pages, window, exclude) ==
  {b \in AssignmentIds \ {exclude} :
     LET row == assignments[b] IN
     /\ row.state \notin Inactive
     /\ TextKey(row.window.start) < TextKey(window.end)
     /\ TextKey(row.window.end) > TextKey(window.start)
     /\ row.pages.first <= pages.last
     /\ row.pages.last >= pages.first}

\* Mutant of OverdueAssignments: sections in reading are forgotten.
OverdueReservations(now) ==
  {a \in AssignmentIds :
     /\ assignments[a].state = "reserved"
     /\ TextKey(assignments[a].window.end) <= TextKey(now)}

\* Store.ListExpiredAssignments without its LIMIT.
OverdueAssignments(now) ==
  {a \in AssignmentIds :
     LET row == assignments[a] IN
     /\ row.state \in {"reserved", "in_reading"}
     /\ \/ TextKey(row.window.end) <= TextKey(now)
        \/ row.until # NoTime /\ TextKey(row.until) <= TextKey(now)}

-----------------------------------------------------------------------------
(* Requests in flight *)

Op == {"idle", "reserve", "move", "start", "submit", "abandon"}

\* seen and seenSession are the rows as they were read; now is Clock.Now().
Request ==
  [op : Op, id : AssignmentIds \cup {Nil}, seen : Assignment,
   sid : SessionIds \cup {Nil}, seenSession : Session,
   member : Members \cup {Nil}, pages : Pages, window : Windows, now : Nat]

Idle ==
  [op |-> "idle", id |-> Nil, seen |-> NoAssignment, sid |-> Nil,
   seenSession |-> NoSession, member |-> Nil, pages |-> NoPages,
   window |-> NoWindow, now |-> NoTime]

SweptRow == [id : AssignmentIds, row : Assignment]
NoSweep == [now |-> NoTime, rows |-> {}]

Init ==
  /\ LedgerInit
  /\ request = [c \in Clients |-> Idle]
  /\ sweep = NoSweep

Tick == Advance /\ UNCHANGED <<request, sweep>>

\* Client c's handler finished its reads and checks and holds r.
Hold(c, r) ==
  /\ request[c].op = "idle"
  /\ request' = [request EXCEPT ![c] = r]
  /\ UNCHANGED <<ledgerVars, sweep>>

\* IDs.New never returns an identity twice.
FreshAssignmentId(a) ==
  /\ assignments[a].state = "absent"
  /\ \A c \in Clients : request[c].op = "reserve" => request[c].id # a

FreshSessionId(s) ==
  /\ sessions[s].state = "absent"
  /\ \A c \in Clients : request[c].op = "start" => request[c].sid # s

-----------------------------------------------------------------------------
(* Reading and validating *)

\* The program, the membership and the edition are active: each is only read,
\* and an inactive one makes the handler return.
BeginReserve(c, m, a, pages, window) ==
  /\ FreshAssignmentId(a)
  /\ ValidPageRange(pages)
  /\ window.start >= ProgramWindow.start
  /\ window.end <= ProgramWindow.end
  /\ window.end > window.start
  /\ Hold(c, [Idle EXCEPT !.op = "reserve", !.id = a, !.member = m,
                          !.pages = pages, !.window = window])

\* A move is validated against the edition and the order of its window only.
BeginMove(c, m, a, pages, window) ==
  /\ assignments[a].state = "reserved"
  /\ assignments[a].member = m
  /\ assignments[a].version < MaxVersion
  /\ ValidPageRange(pages)
  /\ window.end > window.start
  /\ Hold(c, [Idle EXCEPT !.op = "move", !.id = a, !.member = m,
                          !.seen = assignments[a],
                          !.pages = pages, !.window = window])

BeginStart(c, m, a, s) ==
  /\ assignments[a].state = "reserved"
  /\ assignments[a].member = m
  /\ assignments[a].window.start <= clock
  /\ clock < assignments[a].window.end
  /\ FreshSessionId(s)
  /\ Hold(c, [Idle EXCEPT !.op = "start", !.id = a, !.member = m,
                          !.seen = assignments[a], !.sid = s, !.now = clock])

\* Every note and claim must lie inside the section; pages is what they span.
BeginSubmit(c, m, s, pages) ==
  LET a == sessions[s].assignment IN
  /\ sessions[s].state = "active"
  /\ a \in AssignmentIds                     \* GetAssignment finds the row
  /\ sessions[s].member = m
  /\ assignments[a].owner = s
  /\ assignments[a].state = "in_reading"
  /\ ValidPageRange(pages)
  /\ Within(pages, assignments[a].pages)
  /\ Hold(c, [Idle EXCEPT !.op = "submit", !.id = a, !.member = m,
                          !.seen = assignments[a], !.sid = s,
                          !.seenSession = sessions[s], !.pages = pages])

\* Release refuses a submitted section and accepts an already expired one.
BeginAbandon(c, m, s) ==
  LET a == sessions[s].assignment IN
  /\ sessions[s].state = "active"
  /\ a \in AssignmentIds                     \* GetAssignment finds the row
  /\ sessions[s].member = m
  /\ assignments[a].state # "submitted"
  /\ Hold(c, [Idle EXCEPT !.op = "abandon", !.id = a, !.member = m,
                          !.seen = assignments[a], !.sid = s,
                          !.seenSession = sessions[s]])

-----------------------------------------------------------------------------
(* Transactions *)

\* Mutant of AssignmentUnchanged: UPDATE without the version.
AssignmentExists(r) == assignments[r.id].state # "absent"

\* UPDATE ... WHERE version = the version that was read.
AssignmentUnchanged(r) == assignments[r.id].version = r.seen.version
SessionUnchanged(r) == sessions[r.sid].version = r.seenSession.version

\* The handler returns: the request is answered.
Answer(c) ==
  /\ request' = [request EXCEPT ![c] = Idle]
  /\ UNCHANGED <<clock, sweep>>

CommitReserve(c) ==
  LET r == request[c] IN
  /\ r.op = "reserve"
  /\ FindAssignmentConflicts(r.pages, r.window, Nil) = {}
  /\ assignments[r.id].state = "absent"    \* PRIMARY KEY
  /\ WriteAssignment(r.id, NewAssignment(r.member, r.pages, r.window))
  /\ UNCHANGED sessions
  /\ Answer(c)

CommitMove(c) ==
  LET r == request[c] IN
  /\ r.op = "move"
  /\ FindAssignmentConflicts(r.pages, r.window, r.id) = {}
  /\ AssignmentUnchanged(r)
  /\ WriteAssignment(r.id, Moved(r.seen, r.pages, r.window))
  /\ UNCHANGED sessions
  /\ Answer(c)

CommitStart(c) ==
  LET r == request[c] IN
  /\ r.op = "start"
  /\ AssignmentUnchanged(r)
  /\ assignments[r.id].state = "reserved"
  /\ sessions[r.sid].state = "absent"      \* PRIMARY KEY
  /\ \A s \in SessionIds : sessions[s].assignment # r.id   \* UNIQUE
  /\ WriteAssignment(r.id, StartedAssignment(r.seen, r.sid, r.now))
  /\ WriteSession(r.sid, StartedSession(r.id, r.member, r.now))
  /\ Answer(c)

CommitSubmit(c) ==
  LET r == request[c] IN
  /\ r.op = "submit"
  /\ SessionUnchanged(r)
  /\ AssignmentUnchanged(r)
  /\ WriteSession(r.sid, SubmittedSession(r.seenSession, r.pages))
  /\ WriteAssignment(r.id, SubmittedAssignment(r.seen))
  /\ Answer(c)

CommitAbandon(c) ==
  LET r == request[c] IN
  /\ r.op = "abandon"
  /\ SessionUnchanged(r)
  /\ AssignmentUnchanged(r)
  /\ WriteSession(r.sid, AbandonedSession(r.seenSession))
  /\ WriteAssignment(r.id, ReleasedAssignment(r.seen))
  /\ Answer(c)

\* The transaction is rolled back, or the client or the process went away.
Fail(c) ==
  /\ request[c].op # "idle"
  /\ UNCHANGED <<assignments, sessions>>
  /\ Answer(c)

-----------------------------------------------------------------------------
(* The expiry worker *)

\* ORDER BY window_end LIMIT BatchLimit, rows and clock read together.
ListExpired(batch) ==
  LET overdue == OverdueAssignments(clock)
      EndKey(a) == TextKey(assignments[a].window.end)
  IN
  /\ sweep.rows = {}
  /\ batch # {}
  /\ batch \subseteq overdue
  /\ Cardinality(batch) <= BatchLimit
  /\ batch = overdue \/ Cardinality(batch) = BatchLimit
  /\ \A a \in batch, b \in overdue \ batch : EndKey(a) <= EndKey(b)
  /\ sweep' = [now |-> clock,
               rows |-> {[id |-> a, row |-> assignments[a]] : a \in batch}]
  /\ UNCHANGED <<ledgerVars, request>>

\* Assignment.Expire on the row as listed: a reserved row has no lease time,
\* which counts as past.
Expirable(row, now) ==
  /\ row.state \in {"reserved", "in_reading"}
  /\ ~(now < row.window.end /\ now < row.until)

Remaining(e) ==
  IF sweep.rows = {e} THEN NoSweep ELSE [sweep EXCEPT !.rows = @ \ {e}]

\* Mutant of ExpireNext: UPDATE without the version.
ExpireListed ==
  \E e \in sweep.rows :
    /\ IF Expirable(e.row, sweep.now)
       THEN WriteAssignment(e.id, ExpiredAssignment(e.row))
       ELSE UNCHANGED assignments
    /\ sweep' = Remaining(e)
    /\ UNCHANGED <<clock, sessions, request>>

\* A row that is not expirable or whose version moved on is skipped.
ExpireNext ==
  \E e \in sweep.rows :
    /\ \A f \in sweep.rows :
         TextKey(e.row.window.end) <= TextKey(f.row.window.end)
    /\ IF /\ Expirable(e.row, sweep.now)
          /\ assignments[e.id].version = e.row.version
       THEN WriteAssignment(e.id, ExpiredAssignment(e.row))
       ELSE UNCHANGED assignments
    /\ sweep' = Remaining(e)
    /\ UNCHANGED <<clock, sessions, request>>

\* Cancelled context, database error or crash: the rest of the batch is dropped.
StopSweep ==
  /\ sweep.rows # {}
  /\ sweep' = NoSweep
  /\ UNCHANGED <<ledgerVars, request>>

-----------------------------------------------------------------------------
Begin(c) ==
  \/ \E m \in Members, a \in AssignmentIds,
        p \in InputPages, w \in InputWindows :
       BeginReserve(c, m, a, p, w) \/ BeginMove(c, m, a, p, w)
  \/ \E m \in Members, a \in AssignmentIds, s \in SessionIds :
       BeginStart(c, m, a, s)
  \/ \E m \in Members, s \in SessionIds :
       \/ \E p \in InputPages : BeginSubmit(c, m, s, p)
       \/ BeginAbandon(c, m, s)

Commit(c) ==
  \/ CommitReserve(c)
  \/ CommitMove(c)
  \/ CommitStart(c)
  \/ CommitSubmit(c)
  \/ CommitAbandon(c)

Worker ==
  \/ \E batch \in SUBSET AssignmentIds : ListExpired(batch)
  \/ ExpireNext
  \/ StopSweep

Next ==
  \/ Tick
  \/ \E c \in Clients : Begin(c) \/ Commit(c) \/ Fail(c)
  \/ Worker

Spec == Init /\ [][Next]_vars

\* Time passes, the runtime keeps calling the expiry task, and a pass is not
\* stopped before its first row over and over again.
Fairness ==
  /\ WF_vars(Tick)
  /\ WF_vars(\E batch \in SUBSET AssignmentIds : ListExpired(batch))
  /\ SF_vars(ExpireNext)

FairSpec == Spec /\ Fairness

-----------------------------------------------------------------------------
(* Correctness *)

\* Every variable holds rows, requests and batches of the shapes above.
TypeOK ==
  /\ LedgerTypeOK
  /\ request \in [Clients -> Request]
  /\ sweep \in [now : Nat, rows : SUBSET SweptRow]

\* What a handler read is what its version-guarded UPDATE overwrites: a row
\* whose version did not move since it was read is still the row that was
\* read, so no committed change is ever lost (optimistic locking by version).
FreshRequest(r) ==
  /\ r.op \in {"move", "start", "submit", "abandon"} =>
       /\ r.id \in AssignmentIds
       /\ r.seen.version <= assignments[r.id].version
       /\ AssignmentUnchanged(r) => assignments[r.id] = r.seen
  /\ r.op \in {"submit", "abandon"} =>
       /\ r.sid \in SessionIds
       /\ r.seenSession.version <= sessions[r.sid].version
       /\ SessionUnchanged(r) => sessions[r.sid] = r.seenSession

RequestsFresh == \A c \in Clients : FreshRequest(request[c])

\* The same for the rows the expiry worker listed and has not reached yet.
SweepFresh ==
  \A e \in sweep.rows :
    /\ e.row.version <= assignments[e.id].version
    /\ assignments[e.id].version = e.row.version => assignments[e.id] = e.row

\* README: "Members reserve non-overlapping page sections within the program
\* window".  MoveReservation does not look at the program.
SectionsInsideProgram ==
  \A a \in AssignmentIds :
    assignments[a].state # "absent" =>
      /\ ProgramWindow.start <= assignments[a].window.start
      /\ assignments[a].window.end <= ProgramWindow.end

\* Whatever fractions of a second windows have, no page is held by two
\* sections each of which begins a second or more before the other ends: the
\* query compares persisted text, whose order is wrong only within a second.
ClashBySecond(a, b) ==
  /\ a.state \notin Inactive
  /\ b.state \notin Inactive
  /\ a.window.start + TicksPerSecond <= b.window.end
  /\ b.window.start + TicksPerSecond <= a.window.end
  /\ Overlaps(a.pages, b.pages)

NoSecondBookedTwice ==
  \A a, b \in AssignmentIds :
    a # b => ~ClashBySecond(assignments[a], assignments[b])

\* A section is expired only when its window or its lease is over at that very
\* step, not merely when the worker listed it: a reservation moved to a later
\* window in between keeps its section.  A reservation alone may be expired
\* early, by less than the second within which its text compares wrongly.
ExpiryIsDue ==
  [][\A a \in AssignmentIds :
       /\ assignments[a].state # "expired"
       /\ assignments'[a].state = "expired"
       => \/ assignments[a].window.end <= clock
          \/ /\ assignments[a].state = "in_reading"
             /\ assignments[a].until <= clock
          \/ /\ assignments[a].state = "reserved"
             /\ assignments[a].window.end < clock + TicksPerSecond]_vars

\* A section taken for reading is given back: a reader who vanishes loses it
\* to the expiry worker.
ReadingEnds ==
  \A a \in AssignmentIds :
    assignments[a].state = "in_reading" ~> assignments[a].state \in Terminal

=============================================================================
