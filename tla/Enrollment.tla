------------------------------ MODULE Enrollment ------------------------------
(***************************************************************************)
(* Study programs and who takes part in them: internal/service/program.go  *)
(* over internal/domain/program, the idempotency records of internal/      *)
(* repository and the SQLite store.                                        *)
(*                                                                         *)
(* A change of a program's state is read, checked and then committed by    *)
(* version, as everywhere.  Joins and batches read only the clock before   *)
(* their transaction and everything else inside it; a join that meets a    *)
(* conflict looks the member up once more afterwards.                      *)
(***************************************************************************)
EXTENDS Integers, FiniteSets

CONSTANTS
  ProgramIds,     \* identities of study_programs rows
  Users,          \* accounts
  Coordinators,   \* accounts for which User.CanCoordinate holds
  Researchers,    \* accounts for which User.CanResearch holds
  Keys,           \* idempotency keys clients make up
  Bodies,         \* request hashes
  Clients,        \* requests that can be in flight at the same time
  Nil,            \* the empty string
  Capacities,     \* capacities a coordinator may ask for
  StartsAt,       \* start of the programs' window
  EndsAt,         \* end of the programs' window
  Horizon         \* bound: the clock stops here

ASSUME PeopleAssumption ==
  Coordinators \cup Researchers \subseteq Users /\ IsFiniteSet(Users)

ASSUME NilAssumption == Nil \notin ProgramIds \cup Users \cup Keys \cup Bodies

ASSUME BoundsAssumption ==
  /\ Capacities \subseteq Nat
  /\ StartsAt \in Nat /\ EndsAt \in Nat /\ StartsAt < EndsAt
  /\ Horizon \in Nat \ {0}

VARIABLES
  clock,      \* the system clock, from 1
  programs,   \* study_programs; unused identities are absent
  members,    \* program_members: the state of each user's row in each program
  keys,       \* idempotency_keys
  told,       \* history: the memberships that joins were answered with
  request     \* what each client's handler holds

vars == <<clock, programs, members, keys, told, request>>

NoTime == 0

-----------------------------------------------------------------------------
(* Rows *)

\* No code cancels a program.
ProgramState == {"absent", "draft", "enrolling", "active", "review_pending"}

Program ==
  [state : ProgramState, coordinator : Users \cup {Nil}, capacity : Nat,
   version : Nat]

NoProgram ==
  [state |-> "absent", coordinator |-> Nil, capacity |-> 0, version |-> 0]

MemberState == {"absent", "active", "completed", "withdrawn"}

\* The path of a join names the program.
Record ==
  [program : ProgramIds \cup {Nil}, actor : Users \cup {Nil},
   body : Bodies \cup {Nil}]

NoRecord == [program |-> Nil, actor |-> Nil, body |-> Nil]

NewProgram(u, capacity) ==
  [state |-> "draft", coordinator |-> u, capacity |-> capacity, version |-> 1]

\* Mutant of Opened: a state the table does not know.
OpenedTwice(row) == [row EXCEPT !.state = "open", !.version = @ + 1]

Opened(row) == [row EXCEPT !.state = "enrolling", !.version = @ + 1]
Started(row) == [row EXCEPT !.state = "active", !.version = @ + 1]
InReview(row) == [row EXCEPT !.state = "review_pending", !.version = @ + 1]

\* Mutant of CanAcceptMembers: only the clock counts.
BeforeStart(row, now) == row.state # "absent" /\ now < StartsAt

CanAcceptMembers(row, now) == row.state = "enrolling" /\ now < StartsAt

CountActiveMembers(p) == Cardinality({u \in Users : members[p][u] = "active"})

-----------------------------------------------------------------------------
(* Requests in flight *)

Op == {"idle", "open", "start", "join", "fallback", "batch", "review"}

\* seen is the program as it was read; now is Clock.Now(); open says whether
\* sections or sessions of the program are still open.
Request ==
  [op : Op, program : ProgramIds \cup {Nil}, user : Users \cup {Nil},
   key : Keys \cup {Nil}, body : Bodies \cup {Nil}, batch : SUBSET Users,
   open : BOOLEAN, now : Nat, seen : Program]

Idle ==
  [op |-> "idle", program |-> Nil, user |-> Nil, key |-> Nil, body |-> Nil,
   batch |-> {}, open |-> FALSE, now |-> NoTime, seen |-> NoProgram]

Init ==
  /\ clock = 1
  /\ programs = [p \in ProgramIds |-> NoProgram]
  /\ members = [p \in ProgramIds |-> [u \in Users |-> "absent"]]
  /\ keys = [k \in Keys |-> NoRecord]
  /\ told = {}
  /\ request = [c \in Clients |-> Idle]

Tick ==
  /\ clock < Horizon
  /\ clock' = clock + 1
  /\ UNCHANGED <<programs, members, keys, told, request>>

Hold(c, r) ==
  /\ request[c].op = "idle"
  /\ request' = [request EXCEPT ![c] = r]
  /\ UNCHANGED <<clock, programs, members, keys, told>>

Answer(c) ==
  /\ request' = [request EXCEPT ![c] = Idle]
  /\ UNCHANGED clock

Enter(p, users) ==
  members' = [members EXCEPT ![p] =
                [u \in Users |-> IF u \in users THEN "active" ELSE @[u]]]

-----------------------------------------------------------------------------
(* Programs *)

\* One transaction stores the program and its coordinator's membership.
Create(u, p, capacity) ==
  /\ u \in Coordinators
  /\ capacity >= 2
  /\ programs[p].state = "absent"
  /\ programs' = [programs EXCEPT ![p] = NewProgram(u, capacity)]
  /\ Enter(p, {u})
  /\ UNCHANGED <<clock, keys, told, request>>

BeginOpen(c, u, p) ==
  /\ u \in Coordinators
  /\ programs[p].coordinator = u
  /\ clock < StartsAt
  /\ programs[p].state = "draft"
  /\ Hold(c, [Idle EXCEPT !.op = "open", !.program = p, !.user = u,
                          !.seen = programs[p]])

\* Mutant of BeginStart: the coordinator alone is enough.
BeginStartAlone(c, u, p) ==
  /\ u \in Coordinators
  /\ programs[p].coordinator = u
  /\ CountActiveMembers(p) >= 1
  /\ StartsAt <= clock /\ clock < EndsAt
  /\ programs[p].state = "enrolling"
  /\ Hold(c, [Idle EXCEPT !.op = "start", !.program = p, !.user = u,
                          !.seen = programs[p]])

\* The members are counted outside the transaction.
BeginStart(c, u, p) ==
  /\ u \in Coordinators
  /\ programs[p].coordinator = u
  /\ CountActiveMembers(p) >= 2
  /\ StartsAt <= clock /\ clock < EndsAt
  /\ programs[p].state = "enrolling"
  /\ Hold(c, [Idle EXCEPT !.op = "start", !.program = p, !.user = u,
                          !.seen = programs[p]])

CommitTransition(c) ==
  LET r == request[c] IN
  /\ r.op \in {"open", "start"}
  /\ programs[r.program].version = r.seen.version
  /\ programs' = [programs EXCEPT ![r.program] =
                    IF r.op = "open" THEN Opened(r.seen) ELSE Started(r.seen)]
  /\ UNCHANGED <<members, keys, told>>
  /\ Answer(c)

-----------------------------------------------------------------------------
(* Members *)

\* Mutant of BeginJoin: the key is stored in a transaction of its own, first.
BeginJoinRecorded(c, u, p, k, body) ==
  /\ request[c].op = "idle"
  /\ u \in Researchers
  /\ keys' = [keys EXCEPT ![k] = IF @ = NoRecord
                THEN [program |-> p, actor |-> u, body |-> body] ELSE @]
  /\ request' = [request EXCEPT ![c] =
                   [Idle EXCEPT !.op = "join", !.program = p, !.user = u,
                                !.key = k, !.body = body, !.now = clock]]
  /\ UNCHANGED <<clock, programs, members, told>>

BeginJoin(c, u, p, k, body) ==
  /\ u \in Researchers
  /\ Hold(c, [Idle EXCEPT !.op = "join", !.program = p, !.user = u,
                          !.key = k, !.body = body, !.now = clock])

\* GetIdempotency finds the record of this key for this path and actor.
Recorded(r) == keys[r.key].program = r.program /\ keys[r.key].actor = r.user

IsMember(r) == members[r.program][r.user] # "absent"

Full(p) == CountActiveMembers(p) >= programs[p].capacity

\* The last two checks are UNIQUE (program, user) and PRIMARY KEY (key).
CommitJoin(c) ==
  LET r == request[c] IN
  /\ r.op = "join"
  /\ ~Recorded(r)
  /\ CanAcceptMembers(programs[r.program], r.now)
  /\ ~Full(r.program)
  /\ ~IsMember(r)
  /\ keys[r.key] = NoRecord
  /\ Enter(r.program, {r.user})
  /\ keys' = [keys EXCEPT ![r.key] =
                [program |-> r.program, actor |-> r.user, body |-> r.body]]
  /\ told' = told \cup {<<r.program, r.user>>}
  /\ UNCHANGED programs
  /\ Answer(c)

\* The same request again: the stored member is the answer.
ReplayJoin(c) ==
  LET r == request[c] IN
  /\ r.op = "join"
  /\ Recorded(r)
  /\ keys[r.key].body = r.body
  /\ IsMember(r)
  /\ told' = told \cup {<<r.program, r.user>>}
  /\ UNCHANGED <<programs, members, keys>>
  /\ Answer(c)

\* The transaction ends in a conflict and is rolled back: the key carries
\* another body, the program is full, the user is a member, or the key is
\* taken, be it for another program or by another user.
ConflictJoin(c) ==
  LET r == request[c] IN
  /\ r.op = "join"
  /\ IF Recorded(r)
     THEN keys[r.key].body # r.body
     ELSE /\ CanAcceptMembers(programs[r.program], r.now)
          /\ Full(r.program) \/ IsMember(r) \/ keys[r.key] # NoRecord
  /\ request' = [request EXCEPT ![c].op = "fallback"]
  /\ UNCHANGED <<clock, programs, members, keys, told>>

\* Mutant of FallbackJoin: every conflict counts as a join done before.
FallbackAlways(c) ==
  LET r == request[c] IN
  /\ r.op = "fallback"
  /\ told' = told \cup {<<r.program, r.user>>}
  /\ UNCHANGED <<programs, members, keys>>
  /\ Answer(c)

\* After a conflict an existing member is the answer, the conflict otherwise.
FallbackJoin(c) ==
  LET r == request[c] IN
  /\ r.op = "fallback"
  /\ told' = IF IsMember(r) THEN told \cup {<<r.program, r.user>>} ELSE told
  /\ UNCHANGED <<programs, members, keys>>
  /\ Answer(c)

BeginBatch(c, u, p, batch) ==
  /\ batch # {}
  /\ Hold(c, [Idle EXCEPT !.op = "batch", !.program = p, !.user = u,
                          !.batch = batch, !.now = clock])

\* Mutant of Fits: the batch is not counted.
FitsOne(p, users) == CountActiveMembers(p) < programs[p].capacity

Fits(p, users) ==
  CountActiveMembers(p) + Cardinality(users) <= programs[p].capacity

\* All of the batch or nothing.
CommitBatch(c) ==
  LET r == request[c] IN
  /\ r.op = "batch"
  /\ programs[r.program].coordinator = r.user
  /\ CanAcceptMembers(programs[r.program], r.now)
  /\ Fits(r.program, r.batch)
  /\ r.batch \subseteq Researchers
  /\ \A u \in r.batch : members[r.program][u] = "absent"   \* UNIQUE
  /\ Enter(r.program, r.batch)
  /\ UNCHANGED <<programs, keys, told>>
  /\ Answer(c)

-----------------------------------------------------------------------------
(* Review *)

\* No code stores completed or withdrawn: Member.Complete and Member.Withdraw
\* have no callers.
CountIncompleteMembers(p) ==
  Cardinality({u \in Users :
    members[p][u] \notin {"absent", "completed", "withdrawn"}})

ReadyForReview(p, open) ==
  CountActiveMembers(p) > 0 /\ CountIncompleteMembers(p) = 0 /\ ~open

BeginRequestReview(c, u, p, open) ==
  /\ programs[p].coordinator = u
  /\ programs[p].state = "active"
  /\ Hold(c, [Idle EXCEPT !.op = "review", !.program = p, !.user = u,
                          !.open = open, !.seen = programs[p]])

\* The readiness is read before the transaction and again inside it.
FinishRequestReview(c) ==
  LET r == request[c] IN
  /\ r.op = "review"
  /\ IF /\ ReadyForReview(r.program, r.open)
        /\ programs[r.program].version = r.seen.version
     THEN programs' = [programs EXCEPT ![r.program] = InReview(r.seen)]
     ELSE UNCHANGED programs            \* program_reading_incomplete
  /\ UNCHANGED <<members, keys, told>>
  /\ Answer(c)

\* Refused inside the transaction, rolled back, or the client went away.
Fail(c) ==
  /\ request[c].op # "idle"
  /\ UNCHANGED <<programs, members, keys, told>>
  /\ Answer(c)

-----------------------------------------------------------------------------
Begin(c, u, p) ==
  \/ BeginOpen(c, u, p)
  \/ BeginStart(c, u, p)
  \/ \E k \in Keys, body \in Bodies : BeginJoin(c, u, p, k, body)
  \/ \E batch \in SUBSET Users : BeginBatch(c, u, p, batch)
  \/ \E open \in BOOLEAN : BeginRequestReview(c, u, p, open)

Finish(c) ==
  \/ CommitTransition(c)
  \/ CommitJoin(c)
  \/ ReplayJoin(c)
  \/ ConflictJoin(c)
  \/ FallbackJoin(c)
  \/ CommitBatch(c)
  \/ FinishRequestReview(c)
  \/ Fail(c)

Next ==
  \/ Tick
  \/ \E u \in Users, p \in ProgramIds :
       \/ \E capacity \in Capacities : Create(u, p, capacity)
       \/ \E c \in Clients : Begin(c, u, p)
  \/ \E c \in Clients : Finish(c)

Spec == Init /\ [][Next]_vars

-----------------------------------------------------------------------------
(* Correctness *)

\* Every variable holds rows and requests of the shapes above.
TypeOK ==
  /\ clock \in 1 .. Horizon
  /\ programs \in [ProgramIds -> Program]
  /\ members \in [ProgramIds -> [Users -> MemberState]]
  /\ keys \in [Keys -> Record]
  /\ told \subseteq ProgramIds \X Users
  /\ request \in [Clients -> Request]

\* No interleaving of joins, retries and batches overfills a program.
CapacityHeld ==
  \A p \in ProgramIds : CountActiveMembers(p) <= programs[p].capacity

\* A program that runs has at least two members, its coordinator among them,
\* although the members were counted before the transaction that started it.
RunningHasMembers ==
  \A p \in ProgramIds :
    programs[p].state \in {"active", "review_pending"} =>
      /\ CountActiveMembers(p) >= 2
      /\ members[p][programs[p].coordinator] = "active"

\* An idempotency record is never without the membership it stands for: a
\* join that fails halfway leaves neither.
KeysNameMembers ==
  \A k \in Keys :
    keys[k] # NoRecord => members[keys[k].program][keys[k].actor] = "active"

\* Whoever was answered with a membership has it, whichever of the insert,
\* the replay and the fallback after a conflict gave the answer.
ToldMembersExist == \A t \in told : members[t[1]][t[2]] = "active"

\* Nobody but its coordinator enters a program that does not enroll: a join
\* sent in time and committed after the program started is refused.
EnrolledInTime ==
  [][\A p \in ProgramIds, u \in Users :
       members'[p][u] # members[p][u] =>
         \/ programs[p].state = "enrolling"
         \/ programs[p].state = "absent" /\ programs'[p].coordinator = u]_vars

\* A program whose reading is over can go to review (program.go: "all reading
\* activity must finish before review").
ReviewIsGranted ==
  [][\A c \in Clients :
       LET r == request[c] IN
       /\ FinishRequestReview(c)
       /\ ~r.open
       /\ programs[r.program] = r.seen
       => programs'[r.program].state = "review_pending"]_vars

=============================================================================
