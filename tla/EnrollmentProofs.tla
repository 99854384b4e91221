--------------------------- MODULE EnrollmentProofs ---------------------------
(***************************************************************************)
(* Proofs about Enrollment, for every set of programs, accounts, keys and  *)
(* clients, and every capacity and window.                                 *)
(***************************************************************************)
EXTENDS Enrollment, FiniteSetTheorems, TLAPS

-----------------------------------------------------------------------------
(* The invariant *)

\* A program's row and the rows of its members agree.
ProgramSound(p) ==
  LET row == programs[p] IN
  /\ row.state = "absent" =>
       row.version = 0 /\ row.capacity = 0
       /\ \A u \in Users : members[p][u] = "absent"
  /\ row.state # "absent" =>
       /\ row.version >= 1 /\ row.coordinator \in Users
       /\ members[p][row.coordinator] = "active"
  /\ CountActiveMembers(p) <= row.capacity
  /\ row.state \in {"active", "review_pending"} => CountActiveMembers(p) >= 2

\* A member row is only ever active: nothing completes or withdraws one.
MembersPlain ==
  \A p \in ProgramIds, u \in Users : members[p][u] \in {"absent", "active"}

\* A request names rows that may exist; a row it has read is the current one
\* as long as the version stands; the members it counted have not become fewer.
RequestSound(c) ==
  LET r == request[c] IN
  /\ r.op # "idle" => r.program \in ProgramIds /\ r.user \in Users
  /\ r.op \in {"join", "fallback"} => r.key \in Keys /\ r.body \in Bodies
  /\ r.op \in {"open", "start", "review"} =>
       /\ r.seen.version <= programs[r.program].version
       /\ r.seen.version = programs[r.program].version
            => r.seen = programs[r.program]
       /\ r.seen.state = IF r.op = "open" THEN "draft"
                         ELSE IF r.op = "start" THEN "enrolling" ELSE "active"
  /\ r.op = "start" => CountActiveMembers(r.program) >= 2

\* A record of a key is there with the membership it stands for.
KeySound(k) ==
  keys[k] # NoRecord =>
    /\ keys[k].program \in ProgramIds /\ keys[k].actor \in Users
    /\ members[keys[k].program][keys[k].actor] = "active"

IInv ==
  /\ TypeOK
  /\ MembersPlain
  /\ \A p \in ProgramIds : ProgramSound(p)
  /\ \A c \in Clients : RequestSound(c)
  /\ \A k \in Keys : KeySound(k)
  /\ ToldMembersExist

-----------------------------------------------------------------------------
(* Counting members *)

Active(p) == {u \in Users : members[p][u] = "active"}

\* The members of a program are finitely many accounts.
LEMMA CountType ==
  ASSUME NEW p
  PROVE  /\ IsFiniteSet(Active(p)) /\ CountActiveMembers(p) \in Nat
         /\ CountActiveMembers(p) = Cardinality(Active(p))
<1>1. IsFiniteSet(Active(p))
  BY PeopleAssumption, FS_Subset DEF PeopleAssumption, Active
<1>2. CountActiveMembers(p) = Cardinality(Active(p))
  BY DEF CountActiveMembers, Active
<1>3. QED  BY <1>1, <1>2, FS_CardinalityType

\* Whoever is not a member becomes one; nobody else is touched.
LEMMA EnterFacts ==
  ASSUME TypeOK, MembersPlain, NEW p \in ProgramIds,
         NEW users \in SUBSET Users, Enter(p, users)
  PROVE  /\ members' \in [ProgramIds -> [Users -> MemberState]]
         /\ \A q \in ProgramIds, u \in Users :
              members'[q][u] = IF q = p /\ u \in users THEN "active"
                               ELSE members[q][u]
         /\ MembersPlain'
<1>1. members \in [ProgramIds -> [Users -> MemberState]]
  BY DEF TypeOK
<1>2. members' = [members EXCEPT ![p] =
                    [u \in Users |-> IF u \in users THEN "active"
                                     ELSE members[p][u]]]
  BY DEF Enter
<1>3. [u \in Users |-> IF u \in users THEN "active" ELSE members[p][u]]
        \in [Users -> MemberState]
  BY <1>1 DEF MemberState
<1>4. members' \in [ProgramIds -> [Users -> MemberState]]
  BY <1>1, <1>2, <1>3
<1>5. ASSUME NEW q \in ProgramIds, NEW u \in Users
      PROVE  members'[q][u] = IF q = p /\ u \in users THEN "active"
                              ELSE members[q][u]
  BY <1>1, <1>2
<1>6. MembersPlain'
  BY <1>5 DEF MembersPlain
<1>7. QED  BY <1>4, <1>5, <1>6

\* Memberships last, so a count only grows, and it grows by those who enter.
LEMMA CountGrows ==
  ASSUME NEW p \in ProgramIds, NEW users \in SUBSET Users,
         \A u \in Users :
           members'[p][u] = IF u \in users THEN "active" ELSE members[p][u]
  PROVE  /\ CountActiveMembers(p)' \in Nat
         /\ CountActiveMembers(p)' >= CountActiveMembers(p)
         /\ CountActiveMembers(p)' <= CountActiveMembers(p) + Cardinality(users)
         /\ Cardinality(users) \in Nat
<1>1. Active(p)' = Active(p) \cup users
  BY DEF Active
<1>2. IsFiniteSet(users)
  BY PeopleAssumption, FS_Subset DEF PeopleAssumption
<1>3. IsFiniteSet(Active(p)) /\ CountActiveMembers(p) = Cardinality(Active(p))
  BY CountType
<1>4. CountActiveMembers(p)' = Cardinality(Active(p)')
  BY DEF CountActiveMembers, Active
<1> DEFINE new == Active(p) \cup users
<1>5. /\ IsFiniteSet(new)
      /\ Cardinality(new) = Cardinality(Active(p)) + Cardinality(users)
                              - Cardinality(Active(p) \cap users)
  BY <1>2, <1>3, FS_Union
<1>6. IsFiniteSet(Active(p) \cap users)
  BY <1>3, FS_Intersection
<1>7. Active(p) \in SUBSET new
  OBVIOUS
<1>8. Cardinality(Active(p)) <= Cardinality(new)
  BY <1>5, <1>7, FS_Subset
<1>9. /\ Cardinality(new) \in Nat /\ Cardinality(users) \in Nat
      /\ Cardinality(Active(p)) \in Nat
      /\ Cardinality(Active(p) \cap users) \in Nat
  BY <1>2, <1>3, <1>5, <1>6, FS_CardinalityType
<1> HIDE DEF new
<1>10. CountActiveMembers(p)' = Cardinality(new)
  BY <1>1, <1>4 DEF new
<1>11. QED  BY <1>3, <1>5, <1>8, <1>9, <1>10

-----------------------------------------------------------------------------
(* Preliminaries *)

\* What every step does to memberships and rows: both only move forward.
Grows ==
  \A p \in ProgramIds :
    /\ \A u \in Users : members[p][u] = "active" => members'[p][u] = "active"
    /\ programs'[p] = programs[p] \/ programs'[p].version > programs[p].version
    /\ CountActiveMembers(p)' \in Nat
    /\ CountActiveMembers(p)' >= CountActiveMembers(p)

\* A step that leaves programs and members alone takes nothing away.
LEMMA StaysPut ==
  ASSUME UNCHANGED <<programs, members>>
  PROVE  Grows
<1>1. \A p \in ProgramIds : CountActiveMembers(p)' = CountActiveMembers(p)
  BY DEF CountActiveMembers
<1>2. \A p \in ProgramIds : CountActiveMembers(p) \in Nat
  BY CountType
<1>3. QED  BY <1>1, <1>2 DEF Grows

\* What a request knows stays true while rows and memberships move forward.
LEMMA RequestKept ==
  ASSUME IInv, TypeOK', Grows, NEW d \in Clients, request'[d] = request[d]
  PROVE  RequestSound(d)'
<1> DEFINE r == request[d]
<1>0. PICK q : q = r.program
  OBVIOUS
<1>1. RequestSound(d) /\ r \in Request
  BY DEF IInv, TypeOK
<1>2. r.op # "idle" => q \in ProgramIds
  BY <1>0, <1>1 DEF RequestSound
<1>3. ASSUME q \in ProgramIds
      PROVE  /\ programs[q].version \in Nat /\ programs'[q].version \in Nat
             /\ r.seen.version \in Nat
             /\ programs'[q] = programs[q]
                \/ programs'[q].version > programs[q].version
             /\ CountActiveMembers(q)' >= CountActiveMembers(q)
             /\ CountActiveMembers(q) \in Nat /\ CountActiveMembers(q)' \in Nat
  BY <1>1, <1>3, CountType DEF IInv, TypeOK, Program, Request, Grows
<1>4. r.op \in {"open", "start", "review"} =>
        /\ r.seen.version <= programs'[q].version
        /\ r.seen.version = programs'[q].version => r.seen = programs'[q]
  BY <1>0, <1>1, <1>2, <1>3 DEF RequestSound
<1>5. r.op = "start" => CountActiveMembers(q)' >= 2
  BY <1>0, <1>1, <1>2, <1>3 DEF RequestSound
<1>6. (CountActiveMembers(request[d].program) >= 2)' <=>
        CountActiveMembers(q)' >= 2
  BY <1>0 DEF CountActiveMembers
<1>7. QED  BY <1>0, <1>1, <1>4, <1>5, <1>6 DEF RequestSound

\* A step that leaves programs and members alone keeps what they say.
LEMMA TableKept ==
  ASSUME IInv, UNCHANGED <<programs, members>>
  PROVE  /\ MembersPlain'
         /\ \A p \in ProgramIds : ProgramSound(p)'
<1>1. ASSUME NEW p \in ProgramIds
      PROVE  ProgramSound(p)'
  <2>1. CountActiveMembers(p)' = CountActiveMembers(p)
    BY DEF CountActiveMembers
  <2>2. QED  BY <2>1 DEF IInv, ProgramSound
<1>2. QED  BY <1>1 DEF IInv, MembersPlain

\* A record keeps its member, because members stay.
LEMMA KeysKept ==
  ASSUME IInv, Grows, UNCHANGED keys
  PROVE  \A k \in Keys : KeySound(k)'
  BY DEF IInv, Grows, KeySound

\* An answer stays true, because members stay.
LEMMA ToldKept ==
  ASSUME IInv, Grows, UNCHANGED told
  PROVE  ToldMembersExist'
  BY DEF IInv, TypeOK, Grows, ToldMembersExist

\* An idle request holds nothing.
LEMMA IdleRequest == Idle \in Request /\ Idle.op = "idle"
  BY DEF Idle, Request, Op, Program, ProgramState, NoProgram, NoTime

\* Answering one request leaves what the others know.
LEMMA AnswerKeeps ==
  ASSUME IInv, TypeOK', Grows, NEW c \in Clients,
         request' = [request EXCEPT ![c] = Idle]
  PROVE  \A d \in Clients : RequestSound(d)'
<1>1. ASSUME NEW d \in Clients  PROVE RequestSound(d)'
  <2>1. CASE d = c
    <3>1. request'[d].op = "idle"
      BY <2>1, IdleRequest DEF IInv, TypeOK
    <3>2. QED  BY <3>1 DEF RequestSound
  <2>2. CASE d # c
    <3>1. request'[d] = request[d]
      BY <2>2 DEF IInv, TypeOK
    <3>2. QED  BY <3>1, RequestKept
  <2>3. QED  BY <2>1, <2>2
<1>2. QED  BY <1>1

\* A handler that has read what it needs and holds it.
LEMMA HoldStep ==
  ASSUME IInv, NEW c \in Clients, NEW r \in Request, Hold(c, r),
         RequestSound(c)'
  PROVE  IInv'
<1>1. TypeOK'
  BY DEF Hold, IInv, TypeOK
<1>2. Grows
  BY StaysPut DEF Hold
<1>3. ASSUME NEW d \in Clients  PROVE RequestSound(d)'
  <2>1. CASE d = c
    BY <2>1
  <2>2. CASE d # c
    <3>1. request'[d] = request[d]
      BY <2>2 DEF Hold, IInv, TypeOK
    <3>2. QED  BY <1>1, <1>2, <3>1, RequestKept
  <2>3. QED  BY <2>1, <2>2
<1>4. QED
  BY <1>1, <1>2, <1>3, TableKept, KeysKept, ToldKept DEF IInv, Hold

-----------------------------------------------------------------------------
(* Reading *)

\* A transition, a review request, a join or a batch begins.
LEMMA BeginStep ==
  ASSUME IInv, NEW c \in Clients, NEW u \in Users, NEW p \in ProgramIds,
         Begin(c, u, p)
  PROVE  IInv'
<1>0. /\ clock \in Nat /\ programs[p] \in Program /\ programs[p].version \in Nat
      /\ u \in Users \cup {Nil} /\ p \in ProgramIds \cup {Nil}
  BY DEF IInv, TypeOK, Program
<1>1. CASE BeginOpen(c, u, p)
  <2> DEFINE r == [Idle EXCEPT !.op = "open", !.program = p, !.user = u,
                               !.seen = programs[p]]
  <2>1. r \in Request /\ r.op = "open" /\ r.program = p /\ r.user = u
        /\ r.seen = programs[p]
    BY <1>0, IdleRequest DEF Request, Op
  <2> HIDE DEF r
  <2>2. Hold(c, r) /\ programs[p].state = "draft"
    BY <1>1 DEF BeginOpen, r
  <2>3. request'[c] = r /\ programs' = programs
    BY <2>2 DEF Hold, IInv, TypeOK
  <2>4. RequestSound(c)'
    BY <1>0, <2>1, <2>2, <2>3 DEF RequestSound
  <2>5. QED  BY <2>1, <2>2, <2>4, HoldStep
<1>2. CASE BeginStart(c, u, p)
  <2> DEFINE r == [Idle EXCEPT !.op = "start", !.program = p, !.user = u,
                               !.seen = programs[p]]
  <2>1. r \in Request /\ r.op = "start" /\ r.program = p /\ r.user = u
        /\ r.seen = programs[p]
    BY <1>0, IdleRequest DEF Request, Op
  <2> HIDE DEF r
  <2>2. Hold(c, r) /\ programs[p].state = "enrolling"
        /\ CountActiveMembers(p) >= 2
    BY <1>2 DEF BeginStart, r
  <2>3. request'[c] = r /\ programs' = programs /\ members' = members
    BY <2>2 DEF Hold, IInv, TypeOK
  <2>4. (CountActiveMembers(request[c].program) >= 2)'
    BY <2>1, <2>2, <2>3 DEF CountActiveMembers
  <2>5. RequestSound(c)'
    BY <1>0, <2>1, <2>2, <2>3, <2>4 DEF RequestSound
  <2>6. QED  BY <2>1, <2>2, <2>5, HoldStep
<1>3. ASSUME NEW k \in Keys, NEW body \in Bodies, BeginJoin(c, u, p, k, body)
      PROVE  IInv'
  <2> DEFINE r == [Idle EXCEPT !.op = "join", !.program = p, !.user = u,
                               !.key = k, !.body = body, !.now = clock]
  <2>1. r \in Request /\ r.op = "join" /\ r.program = p /\ r.user = u
        /\ r.key = k /\ r.body = body
    BY <1>0, IdleRequest DEF Request, Op
  <2> HIDE DEF r
  <2>2. Hold(c, r)
    BY <1>3 DEF BeginJoin, r
  <2>3. request'[c] = r
    BY <2>2 DEF Hold, IInv, TypeOK
  <2>4. RequestSound(c)'
    BY <2>1, <2>3 DEF RequestSound
  <2>5. QED  BY <2>1, <2>2, <2>4, HoldStep
<1>4. ASSUME NEW batch \in SUBSET Users, BeginBatch(c, u, p, batch)
      PROVE  IInv'
  <2> DEFINE r == [Idle EXCEPT !.op = "batch", !.program = p, !.user = u,
                               !.batch = batch, !.now = clock]
  <2>1. r \in Request /\ r.op = "batch" /\ r.program = p /\ r.user = u
    BY <1>0, IdleRequest DEF Request, Op
  <2> HIDE DEF r
  <2>2. Hold(c, r)
    BY <1>4 DEF BeginBatch, r
  <2>3. request'[c] = r
    BY <2>2 DEF Hold, IInv, TypeOK
  <2>4. RequestSound(c)'
    BY <2>1, <2>3 DEF RequestSound
  <2>5. QED  BY <2>1, <2>2, <2>4, HoldStep
<1>5. ASSUME NEW open \in BOOLEAN, BeginRequestReview(c, u, p, open)
      PROVE  IInv'
  <2> DEFINE r == [Idle EXCEPT !.op = "review", !.program = p, !.user = u,
                               !.open = open, !.seen = programs[p]]
  <2>1. r \in Request /\ r.op = "review" /\ r.program = p /\ r.user = u
        /\ r.seen = programs[p]
    BY <1>0, IdleRequest DEF Request, Op
  <2> HIDE DEF r
  <2>2. Hold(c, r) /\ programs[p].state = "active"
    BY <1>5 DEF BeginRequestReview, r
  <2>3. request'[c] = r /\ programs' = programs
    BY <2>2 DEF Hold, IInv, TypeOK
  <2>4. RequestSound(c)'
    BY <1>0, <2>1, <2>2, <2>3 DEF RequestSound
  <2>5. QED  BY <2>1, <2>2, <2>4, HoldStep
<1>6. QED  BY <1>1, <1>2, <1>3, <1>4, <1>5 DEF Begin

-----------------------------------------------------------------------------
(* Transactions *)

\* Members enter an existing program that has room for them.
LEMMA EnterStep ==
  ASSUME IInv, NEW p \in ProgramIds, NEW users \in SUBSET Users,
         Enter(p, users), UNCHANGED programs, programs[p].state # "absent",
         CountActiveMembers(p) + Cardinality(users) <= programs[p].capacity
  PROVE  /\ members' \in [ProgramIds -> [Users -> MemberState]]
         /\ Grows /\ MembersPlain' /\ \A q \in ProgramIds : ProgramSound(q)'
         /\ \A u \in users : members'[p][u] = "active"
<1>1. /\ members' \in [ProgramIds -> [Users -> MemberState]]
      /\ \A q \in ProgramIds, u \in Users :
           members'[q][u] = IF q = p /\ u \in users THEN "active"
                            ELSE members[q][u]
      /\ MembersPlain'
  BY EnterFacts DEF IInv
<1>2. /\ CountActiveMembers(p)' \in Nat
      /\ CountActiveMembers(p)' >= CountActiveMembers(p)
      /\ CountActiveMembers(p)' <= CountActiveMembers(p) + Cardinality(users)
      /\ Cardinality(users) \in Nat
  BY <1>1, CountGrows
<1>3. ASSUME NEW q \in ProgramIds, q # p
      PROVE  CountActiveMembers(q)' = CountActiveMembers(q)
  <2>1. \A u \in Users : members'[q][u] = members[q][u]
    BY <1>1, <1>3
  <2>2. QED  BY <2>1 DEF CountActiveMembers
<1>4. \A q \in ProgramIds : CountActiveMembers(q) \in Nat
  BY CountType
<1>5. Grows
  <2>1. ASSUME NEW q \in ProgramIds
        PROVE  /\ CountActiveMembers(q)' \in Nat
               /\ CountActiveMembers(q)' >= CountActiveMembers(q)
    <3>1. CASE q = p
      BY <1>2, <3>1
    <3>2. CASE q # p
      BY <1>3, <1>4, <3>2
    <3>3. QED  BY <3>1, <3>2
  <2>2. QED  BY <1>1, <2>1 DEF Grows
<1>6. ASSUME NEW q \in ProgramIds  PROVE ProgramSound(q)'
  <2>1. CASE q = p
    <3>1. programs[p] \in Program /\ ProgramSound(p)
      BY DEF IInv, TypeOK
    <3>2. programs[p].capacity \in Nat
      BY <3>1 DEF Program
    <3>3. CountActiveMembers(p)' <= programs[p].capacity
      BY <1>2, <1>4, <3>2
    <3>4. programs[p].state \in {"active", "review_pending"}
            => CountActiveMembers(p)' >= 2
      BY <1>2, <1>4, <3>1 DEF ProgramSound
    <3>5. /\ programs[p].version >= 1
          /\ programs[p].coordinator \in Users
          /\ members'[p][programs[p].coordinator] = "active"
      BY <1>1, <3>1 DEF ProgramSound
    <3>6. QED  BY <2>1, <3>3, <3>4, <3>5 DEF ProgramSound
  <2>2. CASE q # p
    BY <1>1, <1>3, <2>2 DEF IInv, ProgramSound
  <2>3. QED  BY <2>1, <2>2
<1>7. QED  BY <1>1, <1>5, <1>6

\* The row of one program is replaced by a later one; its members stay.
LEMMA RowStep ==
  ASSUME IInv, NEW p \in ProgramIds, NEW row \in Program,
         programs' = [programs EXCEPT ![p] = row], UNCHANGED members,
         row.version > programs[p].version, row.state # "absent",
         programs[p].state # "absent",
         row.coordinator = programs[p].coordinator,
         row.capacity = programs[p].capacity,
         row.state \in {"active", "review_pending"} => CountActiveMembers(p) >= 2
  PROVE  /\ programs' \in [ProgramIds -> Program]
         /\ Grows /\ MembersPlain' /\ \A q \in ProgramIds : ProgramSound(q)'
<1>1. \A q \in ProgramIds :
        /\ programs'[q] = IF q = p THEN row ELSE programs[q]
        /\ CountActiveMembers(q)' = CountActiveMembers(q)
        /\ CountActiveMembers(q) \in Nat
  <2>1. \A q \in ProgramIds : CountActiveMembers(q)' = CountActiveMembers(q)
    BY DEF CountActiveMembers
  <2>2. QED  BY <2>1, CountType DEF IInv, TypeOK
<1>2. Grows
  BY <1>1 DEF Grows
<1>3. ASSUME NEW q \in ProgramIds  PROVE ProgramSound(q)'
  <2>1. CASE q = p
    <3>1. programs[p].version \in Nat /\ row.version \in Nat
      BY DEF IInv, TypeOK, Program
    <3>2. QED  BY <1>1, <2>1, <3>1 DEF IInv, ProgramSound
  <2>2. CASE q # p
    BY <1>1, <2>2 DEF IInv, ProgramSound
  <2>3. QED  BY <2>1, <2>2
<1>4. QED  BY <1>2, <1>3 DEF IInv, TypeOK, MembersPlain

\* A program is created, with its coordinator as the first member.
LEMMA CreateStep ==
  ASSUME IInv, NEW u \in Users, NEW p \in ProgramIds,
         NEW capacity \in Capacities, Create(u, p, capacity)
  PROVE  IInv'
<1>1. /\ capacity \in Nat /\ capacity >= 2
      /\ programs[p].state = "absent" /\ programs[p].version = 0
      /\ \A x \in Users : members[p][x] = "absent"
  BY BoundsAssumption DEF Create, BoundsAssumption, IInv, ProgramSound
<1> DEFINE row == NewProgram(u, capacity)
<1>2. /\ row \in Program /\ row.state = "draft" /\ row.coordinator = u
      /\ row.capacity = capacity /\ row.version = 1
  BY <1>1 DEF NewProgram, Program, ProgramState
<1>3. /\ programs' = [programs EXCEPT ![p] = row]
      /\ Enter(p, {u}) /\ UNCHANGED <<clock, keys, told, request>>
  BY DEF Create
<1> HIDE DEF row
<1>4. /\ members' \in [ProgramIds -> [Users -> MemberState]]
      /\ \A q \in ProgramIds, x \in Users :
           members'[q][x] = IF q = p /\ x \in {u} THEN "active"
                            ELSE members[q][x]
      /\ MembersPlain'
  BY <1>3, EnterFacts DEF IInv
<1>5. \A q \in ProgramIds :
        programs'[q] = IF q = p THEN row ELSE programs[q]
  BY <1>3 DEF IInv, TypeOK
<1>6. CountActiveMembers(p) = 0 /\ CountActiveMembers(p)' = 1
  <2>1. Active(p) = {} /\ Active(p)' = {u}
    BY <1>1, <1>4 DEF Active
  <2>2. Cardinality({}) = 0 /\ Cardinality({u}) = 1
    BY FS_EmptySet, FS_Singleton
  <2>3. CountActiveMembers(p) = Cardinality(Active(p))
    BY DEF CountActiveMembers, Active
  <2>4. CountActiveMembers(p)' = Cardinality(Active(p)')
    BY DEF CountActiveMembers, Active
  <2>5. QED  BY <2>1, <2>2, <2>3, <2>4
<1>7. ASSUME NEW q \in ProgramIds, q # p
      PROVE  CountActiveMembers(q)' = CountActiveMembers(q)
  BY <1>4, <1>7 DEF CountActiveMembers
<1>8. \A q \in ProgramIds : CountActiveMembers(q) \in Nat
  BY CountType
<1>9. Grows
  <2>1. ASSUME NEW q \in ProgramIds
        PROVE  /\ CountActiveMembers(q)' \in Nat
               /\ CountActiveMembers(q)' >= CountActiveMembers(q)
    BY <1>6, <1>7, <1>8
  <2>2. QED  BY <1>1, <1>2, <1>4, <1>5, <2>1 DEF Grows
<1>10. TypeOK'
  BY <1>2, <1>3, <1>4 DEF IInv, TypeOK
<1>11. ASSUME NEW q \in ProgramIds  PROVE ProgramSound(q)'
  <2>1. CASE q = p
    <3>1. members'[p][u] = "active" /\ programs'[p] = row
      BY <1>4, <1>5
    <3>2. QED  BY <1>1, <1>2, <1>6, <2>1, <3>1 DEF ProgramSound
  <2>2. CASE q # p
    BY <1>4, <1>5, <1>7, <2>2 DEF IInv, ProgramSound
  <2>3. QED  BY <2>1, <2>2
<1>12. \A d \in Clients : RequestSound(d)'
  BY <1>3, <1>9, <1>10, RequestKept
<1>13. QED
  BY <1>3, <1>4, <1>9, <1>10, <1>11, <1>12, KeysKept, ToldKept DEF IInv

\* A program moves on, when its row is still the one that was read.
LEMMA TransitionStep ==
  ASSUME IInv, NEW c \in Clients,
         CommitTransition(c) \/ FinishRequestReview(c), ~UNCHANGED programs
  PROVE  IInv'
<1> DEFINE r == request[c]
<1>1. PICK p : p = r.program
  OBVIOUS
<1>2. /\ r.op \in {"open", "start", "review"}
      /\ programs[p].version = r.seen.version
      /\ UNCHANGED <<clock, members, keys, told>>
      /\ request' = [request EXCEPT ![c] = Idle]
      /\ programs' = [programs EXCEPT ![p] =
           IF r.op = "open" THEN Opened(r.seen)
           ELSE IF r.op = "start" THEN Started(r.seen) ELSE InReview(r.seen)]
  BY <1>1 DEF CommitTransition, FinishRequestReview, Answer
<1>3. /\ p \in ProgramIds /\ r.seen = programs[p]
      /\ r.seen.state = IF r.op = "open" THEN "draft"
                        ELSE IF r.op = "start" THEN "enrolling" ELSE "active"
      /\ r.op = "start" => CountActiveMembers(p) >= 2
      /\ r.op = "review" => CountActiveMembers(p) >= 2
  <2>1. RequestSound(c)
    BY DEF IInv
  <2>2. /\ p \in ProgramIds /\ r.seen = programs[p]
        /\ r.seen.state = IF r.op = "open" THEN "draft"
                          ELSE IF r.op = "start" THEN "enrolling" ELSE "active"
        /\ r.op = "start" => CountActiveMembers(p) >= 2
    BY <1>1, <1>2, <2>1 DEF RequestSound
  <2>3. r.op = "review" => CountActiveMembers(p) >= 2
    BY <2>2 DEF IInv, ProgramSound
  <2>4. QED  BY <2>2, <2>3
<1>4. PICK old \in Program : old = programs[p]
  BY <1>3 DEF IInv, TypeOK
<1>5. PICK v \in Nat : v = old.version + 1
  BY DEF Program
<1> DEFINE row(state) == [old EXCEPT !.state = state, !.version = v]
<1>6. ASSUME NEW state \in ProgramState \ {"absent"},
             programs' = [programs EXCEPT ![p] = row(state)],
             state \in {"active", "review_pending"} => CountActiveMembers(p) >= 2
      PROVE  IInv'
  <2>1. /\ row(state) \in Program /\ row(state).state = state
        /\ row(state).version = v
        /\ row(state).coordinator = old.coordinator
        /\ row(state).capacity = old.capacity
    BY DEF Program
  <2>2. programs[p].state # "absent" /\ old.version \in Nat
    BY <1>3, <1>4 DEF Program
  <2> HIDE DEF row
  <2>3. /\ programs' \in [ProgramIds -> Program]
        /\ Grows /\ MembersPlain' /\ \A q \in ProgramIds : ProgramSound(q)'
    <3>1. PICK new \in Program : new = row(state)
      BY <2>1
    <3>2. /\ new.version > programs[p].version /\ new.state # "absent"
          /\ new.coordinator = programs[p].coordinator
          /\ new.capacity = programs[p].capacity
          /\ new.state \in {"active", "review_pending"}
               => CountActiveMembers(p) >= 2
      BY <1>4, <1>5, <1>6, <2>1, <2>2, <3>1
    <3>3. programs' = [programs EXCEPT ![p] = new] /\ UNCHANGED members
      BY <1>2, <1>6, <3>1
    <3>4. QED  BY <1>3, <2>2, <3>2, <3>3, RowStep
  <2>4. TypeOK'
    BY <1>2, <2>3, IdleRequest DEF IInv, TypeOK
  <2>5. QED
    BY <1>2, <2>3, <2>4, AnswerKeeps, KeysKept, ToldKept DEF IInv
<1>7. CASE r.op = "open"
  <2>1. programs' = [programs EXCEPT ![p] = row("enrolling")]
    BY <1>2, <1>3, <1>4, <1>5, <1>7 DEF Opened
  <2>2. QED  BY <1>6, <2>1 DEF ProgramState
<1>8. CASE r.op = "start"
  <2>1. programs' = [programs EXCEPT ![p] = row("active")]
    BY <1>2, <1>3, <1>4, <1>5, <1>8 DEF Started
  <2>2. QED  BY <1>3, <1>6, <1>8, <2>1 DEF ProgramState
<1>9. CASE r.op = "review"
  <2>1. programs' = [programs EXCEPT ![p] = row("review_pending")]
    BY <1>2, <1>3, <1>4, <1>5, <1>9 DEF InReview
  <2>2. QED  BY <1>3, <1>6, <1>9, <2>1 DEF ProgramState
<1>10. QED  BY <1>2, <1>7, <1>8, <1>9

\* A join or a batch whose transaction commits.
LEMMA JoinStep ==
  ASSUME IInv, NEW c \in Clients, CommitJoin(c)
  PROVE  IInv'
<1> DEFINE r == request[c]
<1>1. PICK p \in ProgramIds, u \in Users, k \in Keys :
        p = r.program /\ u = r.user /\ k = r.key
  BY DEF CommitJoin, IInv, RequestSound
<1>2. PICK body \in Bodies : body = r.body
  BY DEF CommitJoin, IInv, RequestSound
<1> DEFINE record == [program |-> p, actor |-> u, body |-> body]
<1>3. /\ programs[p].state = "enrolling"
      /\ ~(CountActiveMembers(p) >= programs[p].capacity)
      /\ Enter(p, {u})
      /\ keys' = [keys EXCEPT ![k] = record]
      /\ told' = told \cup {<<p, u>>}
      /\ UNCHANGED <<clock, programs>>
      /\ request' = [request EXCEPT ![c] = Idle]
  BY <1>1, <1>2 DEF CommitJoin, CanAcceptMembers, Full, Answer
<1>4. CountActiveMembers(p) + Cardinality({u}) <= programs[p].capacity
  <2>1. Cardinality({u}) = 1
    BY FS_Singleton
  <2>2. CountActiveMembers(p) \in Nat /\ programs[p].capacity \in Nat
    BY CountType DEF IInv, TypeOK, Program
  <2>3. QED  BY <1>3, <2>1, <2>2
<1>5. /\ members' \in [ProgramIds -> [Users -> MemberState]]
      /\ Grows /\ MembersPlain' /\ \A q \in ProgramIds : ProgramSound(q)'
      /\ members'[p][u] = "active"
  BY <1>3, <1>4, EnterStep
<1>6. record \in Record /\ record.program = p /\ record.actor = u
  BY DEF Record
<1> HIDE DEF record
<1>7. TypeOK'
  BY <1>3, <1>5, <1>6, IdleRequest DEF IInv, TypeOK
<1>8. ASSUME NEW j \in Keys  PROVE KeySound(j)'
  <2>1. CASE j = k
    <3>1. keys'[j] = record
      BY <1>3, <2>1 DEF IInv, TypeOK
    <3>2. QED  BY <1>5, <1>6, <3>1 DEF KeySound
  <2>2. CASE j # k
    <3>1. keys'[j] = keys[j]
      BY <1>3, <2>2 DEF IInv, TypeOK
    <3>2. QED  BY <1>5, <3>1 DEF IInv, KeySound, Grows
  <2>3. QED  BY <2>1, <2>2
<1>9. ToldMembersExist'
  BY <1>3, <1>5 DEF IInv, TypeOK, Grows, ToldMembersExist
<1>10. QED
  BY <1>3, <1>5, <1>7, <1>8, <1>9, AnswerKeeps DEF IInv

\* A batch enters all its users or none.
LEMMA BatchStep ==
  ASSUME IInv, NEW c \in Clients, CommitBatch(c)
  PROVE  IInv'
<1> DEFINE r == request[c]
<1>1. PICK p \in ProgramIds, users \in SUBSET Users :
        p = r.program /\ users = r.batch
  BY DEF CommitBatch, IInv, TypeOK, RequestSound, Request
<1>2. /\ programs[p].state = "enrolling"
      /\ CountActiveMembers(p) + Cardinality(users) <= programs[p].capacity
      /\ Enter(p, users)
      /\ UNCHANGED <<clock, programs, keys, told>>
      /\ request' = [request EXCEPT ![c] = Idle]
  BY <1>1 DEF CommitBatch, CanAcceptMembers, Fits, Answer
<1>3. /\ members' \in [ProgramIds -> [Users -> MemberState]]
      /\ Grows /\ MembersPlain' /\ \A q \in ProgramIds : ProgramSound(q)'
  BY <1>2, EnterStep
<1>4. TypeOK'
  BY <1>2, <1>3, IdleRequest DEF IInv, TypeOK
<1>5. QED
  BY <1>2, <1>3, <1>4, AnswerKeeps, KeysKept, ToldKept DEF IInv

\* A join that is answered without entering anybody: the same request again,
\* or the member found after a conflict.
LEMMA AnsweredStep ==
  ASSUME IInv, NEW c \in Clients,
         UNCHANGED <<clock, programs, members, keys>>,
         request' = [request EXCEPT ![c] = Idle],
         \/ told' = told
         \/ /\ request[c].op \in {"join", "fallback"}
            /\ IsMember(request[c])
            /\ told' = told \cup {<<request[c].program, request[c].user>>}
  PROVE  IInv'
<1>1. Grows
  BY StaysPut
<1>2. TypeOK' /\ ToldMembersExist'
  <2>1. CASE told' = told
    BY <1>1, <2>1, ToldKept, IdleRequest DEF IInv, TypeOK
  <2>2. CASE told' # told
    <3>1. PICK p \in ProgramIds, u \in Users :
            p = request[c].program /\ u = request[c].user
      BY <2>2 DEF IInv, RequestSound
    <3>2. members[p][u] = "active" /\ told' = told \cup {<<p, u>>}
      BY <2>2, <3>1 DEF IInv, MembersPlain, IsMember
    <3>3. TypeOK'
      BY <3>2, IdleRequest DEF IInv, TypeOK
    <3>4. ToldMembersExist'
      BY <3>2 DEF IInv, TypeOK, ToldMembersExist
    <3>5. QED  BY <3>3, <3>4
  <2>3. QED  BY <2>1, <2>2
<1>3. QED
  BY <1>1, <1>2, TableKept, KeysKept, AnswerKeeps DEF IInv

\* A conflict: the member is looked up once more.
LEMMA ConflictStep ==
  ASSUME IInv, NEW c \in Clients, ConflictJoin(c)
  PROVE  IInv'
<1> DEFINE r == [request[c] EXCEPT !.op = "fallback"]
<1>1. /\ request[c] \in Request /\ request[c].op = "join"
      /\ request[c].op # "idle"
      /\ request' = [request EXCEPT ![c] = r]
      /\ UNCHANGED <<clock, programs, members, keys, told>>
  BY DEF ConflictJoin, IInv, TypeOK
<1>2. /\ r \in Request /\ r.op = "fallback" /\ r.program = request[c].program
      /\ r.user = request[c].user /\ r.key = request[c].key
      /\ r.body = request[c].body
  BY <1>1 DEF Request, Op
<1> HIDE DEF r
<1>3. request'[c] = r
  BY <1>1 DEF IInv, TypeOK
<1>4. RequestSound(c)
  BY DEF IInv
<1>5. RequestSound(c)'
  BY <1>1, <1>2, <1>3, <1>4 DEF RequestSound
<1>6. Grows /\ TypeOK'
  BY <1>1, <1>2, StaysPut DEF IInv, TypeOK
<1>7. ASSUME NEW d \in Clients, d # c  PROVE RequestSound(d)'
  BY <1>1, <1>6, <1>7, RequestKept DEF IInv, TypeOK
<1>8. QED
  BY <1>1, <1>5, <1>6, <1>7, TableKept, KeysKept, ToldKept DEF IInv

-----------------------------------------------------------------------------
(* The theorems *)

\* Empty tables are consistent.
LEMMA InitEstablishes == Init => IInv
<1> SUFFICES ASSUME Init  PROVE IInv
  OBVIOUS
<1>1. TypeOK
  <2>1. NoProgram \in Program
    BY DEF NoProgram, Program, ProgramState
  <2>2. [u \in Users |-> "absent"] \in [Users -> MemberState]
    BY DEF MemberState
  <2>3. NoRecord \in Record
    BY DEF NoRecord, Record
  <2>4. QED
    BY <2>1, <2>2, <2>3, IdleRequest, BoundsAssumption
    DEF Init, TypeOK, BoundsAssumption
<1>2. ASSUME NEW p \in ProgramIds  PROVE ProgramSound(p)
  <2>1. \A u \in Users : members[p][u] = "absent"
    BY DEF Init
  <2>2. CountActiveMembers(p) = 0
    <3>1. {u \in Users : members[p][u] = "active"} = {}
      BY <2>1
    <3>2. QED  BY <3>1, FS_EmptySet DEF CountActiveMembers
  <2>3. QED  BY <2>1, <2>2 DEF Init, ProgramSound, NoProgram
<1>3. ASSUME NEW c \in Clients  PROVE RequestSound(c)
  BY IdleRequest DEF Init, RequestSound
<1>4. QED
  BY <1>1, <1>2, <1>3
  DEF Init, IInv, MembersPlain, KeySound, ToldMembersExist

\* Every step keeps the invariant.
LEMMA NextKeeps ==
  ASSUME IInv, [Next]_vars
  PROVE  IInv'
<1>1. CASE UNCHANGED vars \/ Tick
  <2>1. TypeOK'
    BY <1>1, BoundsAssumption DEF IInv, TypeOK, vars, Tick, BoundsAssumption
  <2>2. UNCHANGED <<programs, members, keys, told, request>>
    BY <1>1 DEF vars, Tick
  <2>3. Grows
    BY <2>2, StaysPut
  <2>4. QED
    BY <2>1, <2>2, <2>3, TableKept, KeysKept, ToldKept, RequestKept DEF IInv
<1>2. ASSUME NEW c \in Clients, CommitTransition(c) \/ FinishRequestReview(c)
      PROVE  IInv'
  <2>1. CASE UNCHANGED programs
    BY <1>2, <2>1, AnsweredStep
    DEF CommitTransition, FinishRequestReview, Answer
  <2>2. CASE ~UNCHANGED programs
    BY <1>2, <2>2, TransitionStep
  <2>3. QED  BY <2>1, <2>2
<1>3. ASSUME NEW c \in Clients, ReplayJoin(c) \/ FallbackJoin(c) \/ Fail(c)
      PROVE  IInv'
  BY <1>3, AnsweredStep DEF ReplayJoin, FallbackJoin, Fail, Answer
<1>4. QED
  BY <1>1, <1>2, <1>3, CreateStep, BeginStep, JoinStep, BatchStep,
     ConflictStep
  DEF Next, Finish

\* The inductive invariant holds in every reachable state.
LEMMA Invariance == Spec => []IInv
  BY InitEstablishes, NextKeeps, PTL DEF Spec

\* Rows and requests keep their shapes.
THEOREM TypeCorrect == Spec => []TypeOK
<1>1. IInv => TypeOK
  BY DEF IInv
<1>2. QED  BY <1>1, Invariance, PTL

\* No interleaving of joins, retries and batches overfills a program.
THEOREM CapacityNeverExceeded == Spec => []CapacityHeld
<1>1. IInv => CapacityHeld
  BY DEF IInv, ProgramSound, CapacityHeld
<1>2. QED  BY <1>1, Invariance, PTL

\* A program that runs has two members, its coordinator among them: members
\* only come, so a count taken before the transaction is a lower bound.
THEOREM RunningProgramsHaveMembers == Spec => []RunningHasMembers
<1>1. IInv => RunningHasMembers
  BY DEF IInv, ProgramSound, RunningHasMembers
<1>2. QED  BY <1>1, Invariance, PTL

\* A recorded key has its membership.
THEOREM RecordedKeysNameMembers == Spec => []KeysNameMembers
<1>1. IInv => KeysNameMembers
  BY DEF IInv, KeySound, KeysNameMembers
<1>2. QED  BY <1>1, Invariance, PTL

\* Whoever was answered with a membership has it.
THEOREM AnsweredMembersExist == Spec => []ToldMembersExist
<1>1. IInv => ToldMembersExist
  BY DEF IInv
<1>2. QED  BY <1>1, Invariance, PTL

\* Reading and checking changes no table.
LEMMA BeginOnlyReads ==
  ASSUME NEW c \in Clients, NEW u \in Users, NEW p \in ProgramIds,
         Begin(c, u, p)
  PROVE  UNCHANGED <<clock, programs, members, keys, told>>
<1>1. ASSUME NEW r, Hold(c, r)
      PROVE  UNCHANGED <<clock, programs, members, keys, told>>
  BY <1>1 DEF Hold
<1>2. CASE BeginOpen(c, u, p)
  BY <1>1, <1>2 DEF BeginOpen
<1>3. CASE BeginStart(c, u, p)
  BY <1>1, <1>3 DEF BeginStart
<1>4. ASSUME NEW k \in Keys, NEW body \in Bodies, BeginJoin(c, u, p, k, body)
      PROVE  UNCHANGED <<clock, programs, members, keys, told>>
  BY <1>1, <1>4 DEF BeginJoin
<1>5. ASSUME NEW batch \in SUBSET Users, BeginBatch(c, u, p, batch)
      PROVE  UNCHANGED <<clock, programs, members, keys, told>>
  BY <1>1, <1>5 DEF BeginBatch
<1>6. ASSUME NEW open \in BOOLEAN, BeginRequestReview(c, u, p, open)
      PROVE  UNCHANGED <<clock, programs, members, keys, told>>
  BY <1>1, <1>6 DEF BeginRequestReview
<1>7. QED  BY <1>2, <1>3, <1>4, <1>5, <1>6 DEF Begin

\* Which step writes memberships: a join or a batch while the program enrolls,
\* or the creation of the program.
LEMMA WhoEnters ==
  ASSUME IInv, [Next]_vars
  PROVE  \/ UNCHANGED members
         \/ \E p \in ProgramIds, users \in SUBSET Users :
              /\ Enter(p, users)
              /\ \/ programs[p].state = "enrolling"
                 \/ /\ programs[p].state = "absent"
                    /\ \A u \in users : programs'[p].coordinator = u
<1> DEFINE Entry(p, users) ==
             /\ Enter(p, users)
             /\ \/ programs[p].state = "enrolling"
                \/ /\ programs[p].state = "absent"
                   /\ \A u \in users : programs'[p].coordinator = u
           Goal == \/ UNCHANGED members
                   \/ \E p \in ProgramIds, users \in SUBSET Users :
                        Entry(p, users)
<1>1. ASSUME NEW c \in Clients, CommitJoin(c)
      PROVE  Goal
  <2>1. request[c].program \in ProgramIds /\ request[c].user \in Users
    BY <1>1 DEF CommitJoin, IInv, RequestSound
  <2>2. Entry(request[c].program, {request[c].user})
    BY <1>1 DEF CommitJoin, CanAcceptMembers
  <2>3. {request[c].user} \in SUBSET Users
    BY <2>1
  <2> HIDE DEF Entry
  <2>4. QED  BY <2>1, <2>2, <2>3
<1>2. ASSUME NEW c \in Clients, CommitBatch(c)
      PROVE  Goal
  <2>1. /\ request[c].program \in ProgramIds
        /\ request[c].batch \in SUBSET Users
    BY <1>2 DEF CommitBatch, IInv, TypeOK, RequestSound, Request
  <2>2. Entry(request[c].program, request[c].batch)
    BY <1>2 DEF CommitBatch, CanAcceptMembers
  <2> HIDE DEF Entry
  <2>3. QED  BY <2>1, <2>2
<1>3. ASSUME NEW u \in Users, NEW p \in ProgramIds,
             NEW capacity \in Capacities, Create(u, p, capacity)
      PROVE  Goal
  <2>1. Entry(p, {u}) /\ {u} \in SUBSET Users
    BY <1>3 DEF Create, IInv, TypeOK, NewProgram
  <2> HIDE DEF Entry
  <2>2. QED  BY <2>1
<1>4. ASSUME NEW c \in Clients, NEW u \in Users, NEW p \in ProgramIds,
             Begin(c, u, p)
      PROVE  Goal
  BY <1>4, BeginOnlyReads
<1>5. ASSUME NEW c \in Clients,
             \/ CommitTransition(c) \/ ReplayJoin(c) \/ ConflictJoin(c)
             \/ FallbackJoin(c) \/ FinishRequestReview(c) \/ Fail(c)
      PROVE  Goal
  BY <1>5
  DEF CommitTransition, ReplayJoin, ConflictJoin, FallbackJoin,
      FinishRequestReview, Fail
<1>6. Tick \/ UNCHANGED vars => Goal
  BY DEF Tick, vars
<1> HIDE DEF Goal
<1>7. Goal
  BY <1>1, <1>2, <1>3, <1>4, <1>5, <1>6 DEF Next, Finish
<1>8. QED  BY <1>7 DEF Goal

\* Nobody but its coordinator enters a program that does not enroll.
THEOREM EntriesInTime == Spec => EnrolledInTime
<1> DEFINE A == \A p \in ProgramIds, u \in Users :
       members'[p][u] # members[p][u] =>
         \/ programs[p].state = "enrolling"
         \/ programs[p].state = "absent" /\ programs'[p].coordinator = u
<1>1. IInv /\ [Next]_vars => A
  <2>1. ASSUME IInv, NEW p \in ProgramIds, NEW users \in SUBSET Users,
               Enter(p, users),
               \/ programs[p].state = "enrolling"
               \/ /\ programs[p].state = "absent"
                  /\ \A u \in users : programs'[p].coordinator = u
        PROVE  A
    BY <2>1, EnterFacts DEF IInv
  <2>2. QED  BY <2>1, WhoEnters
<1> HIDE DEF A
<1>2. Spec => [][A]_vars
  BY <1>1, Invariance, PTL DEF Spec
<1>3. QED  BY <1>2 DEF A, EnrolledInTime

\* A membership is for ever: no join, batch or retry that fails halfway, and
\* no later step of the program, takes a member away.  A client that was told
\* of its membership may rely on it.
THEOREM MembershipsLast ==
  ASSUME NEW p \in ProgramIds, NEW u \in Users
  PROVE  Spec => [](<<p, u>> \in told \/ members[p][u] = "active"
                      => [](members[p][u] = "active"))
<1>1. IInv /\ [Next]_vars /\ members[p][u] = "active"
        => (members[p][u] = "active")'
  <2>1. ASSUME IInv, NEW q \in ProgramIds, NEW users \in SUBSET Users,
               Enter(q, users), members[p][u] = "active"
        PROVE  members'[p][u] = "active"
    BY <2>1, EnterFacts DEF IInv
  <2>2. QED  BY <2>1, WhoEnters
<1>2. IInv /\ <<p, u>> \in told => members[p][u] = "active"
  BY DEF IInv, ToldMembersExist
<1>3. QED  BY <1>1, <1>2, Invariance, PTL DEF Spec

\* Only a join that commits stores a record, and only under a fresh key.
LEMMA KeyStep ==
  ASSUME IInv, [Next]_vars, NEW k \in Keys, keys[k] # NoRecord
  PROVE  keys'[k] = keys[k]
<1>1. ASSUME NEW c \in Clients, CommitJoin(c)
      PROVE  keys'[k] = keys[k]
  <2>1. request[c].key # k
    BY <1>1 DEF CommitJoin
  <2>2. QED  BY <1>1, <2>1 DEF CommitJoin, IInv, TypeOK
<1>2. ASSUME NEW c \in Clients,
             \/ ReplayJoin(c) \/ ConflictJoin(c) \/ FallbackJoin(c) \/ Fail(c)
      PROVE  UNCHANGED keys
  BY <1>2 DEF ReplayJoin, ConflictJoin, FallbackJoin, Fail
<1>3. ASSUME NEW c \in Clients,
             CommitTransition(c) \/ CommitBatch(c) \/ FinishRequestReview(c)
      PROVE  UNCHANGED keys
  BY <1>3 DEF CommitTransition, CommitBatch, FinishRequestReview
<1>4. ASSUME NEW c \in Clients, NEW u \in Users, NEW p \in ProgramIds,
             Begin(c, u, p)
      PROVE  UNCHANGED keys
  BY <1>4, BeginOnlyReads
<1>5. ASSUME NEW u \in Users, NEW p \in ProgramIds,
             NEW capacity \in Capacities, Create(u, p, capacity)
      PROVE  UNCHANGED keys
  BY <1>5 DEF Create
<1>6. CASE Tick \/ UNCHANGED vars
  BY <1>6 DEF Tick, vars
<1>7. QED
  BY <1>1, <1>2, <1>3, <1>4, <1>5, <1>6 DEF Next, Finish

\* A key stands for one join for ever: no retry under it, with whatever body or
\* for whatever program, is recorded in its place, and the membership that a
\* repetition of the request is answered with stays.
THEOREM KeysStandForOneJoin ==
  ASSUME NEW k \in Keys, NEW record \in Record, record # NoRecord
  PROVE  Spec => [](keys[k] = record
                      => [](/\ keys[k] = record
                            /\ members[record.program][record.actor] = "active"))
<1>1. IInv /\ [Next]_vars /\ keys[k] = record => (keys[k] = record)'
  BY KeyStep
<1>2. IInv /\ keys[k] = record
        => members[record.program][record.actor] = "active"
  BY DEF IInv, KeySound
<1>3. QED  BY <1>1, <1>2, Invariance, PTL DEF Spec

-----------------------------------------------------------------------------
(* How programs move *)

\* Member.Complete and Member.Withdraw have no callers, so every member of a
\* program is active, and an active member is an incomplete one.
LEMMA NeverReady ==
  ASSUME IInv, NEW p \in ProgramIds, NEW open \in BOOLEAN
  PROVE  ~ReadyForReview(p, open)
<1>1. CountIncompleteMembers(p) = CountActiveMembers(p)
  <2>1. {u \in Users : members[p][u] \notin {"absent", "completed", "withdrawn"}}
          = {u \in Users : members[p][u] = "active"}
    BY DEF IInv, MembersPlain
  <2>2. QED  BY <2>1, Zenon DEF CountIncompleteMembers, CountActiveMembers
<1>2. CountActiveMembers(p) \in Nat
  BY CountType
<1>3. QED  BY <1>1, <1>2 DEF ReadyForReview

\* A program is created as a draft, opened, started, and nothing else; its
\* coordinator and its capacity stay, and every step is one version.
ProgramMove(old, new) ==
  \/ new = old
  \/ old.state = "absent" /\ new.state = "draft" /\ new.version = 1
  \/ /\ \/ old.state = "draft" /\ new.state = "enrolling"
        \/ old.state = "enrolling" /\ new.state = "active"
     /\ new.coordinator = old.coordinator
     /\ new.capacity = old.capacity
     /\ new.version = old.version + 1

\* A step of the service is such a move of every program, also when the row a
\* transition writes was read long before.
LEMMA MoveStep ==
  ASSUME IInv, [Next]_vars, NEW p \in ProgramIds
  PROVE  ProgramMove(programs[p], programs'[p])
<1>1. ASSUME UNCHANGED programs
      PROVE  ProgramMove(programs[p], programs'[p])
  BY <1>1 DEF ProgramMove
<1>2. ASSUME NEW u \in Users, NEW q \in ProgramIds,
             NEW capacity \in Capacities, Create(u, q, capacity)
      PROVE  ProgramMove(programs[p], programs'[p])
  BY <1>2 DEF Create, NewProgram, ProgramMove, IInv, TypeOK
<1>3. ASSUME NEW c \in Clients, CommitTransition(c)
      PROVE  ProgramMove(programs[p], programs'[p])
  <2>1. PICK q \in ProgramIds : q = request[c].program
    BY <1>3 DEF CommitTransition, IInv, RequestSound
  <2>2. PICK old \in Program : old = programs[q]
    BY DEF IInv, TypeOK
  <2>3. /\ request[c].op \in {"open", "start"} /\ request[c].seen = old
        /\ old.state = IF request[c].op = "open" THEN "draft" ELSE "enrolling"
        /\ programs' = [programs EXCEPT ![q] = IF request[c].op = "open"
                                               THEN Opened(old)
                                               ELSE Started(old)]
    BY <1>3, <2>1, <2>2 DEF CommitTransition, IInv, RequestSound
  <2>4. PICK v \in Nat : v = old.version + 1
    BY DEF Program
  <2>5. /\ LET new == [old EXCEPT !.state = "enrolling", !.version = v] IN
             /\ new.state = "enrolling" /\ new.version = v
             /\ new.coordinator = old.coordinator
             /\ new.capacity = old.capacity
        /\ LET new == [old EXCEPT !.state = "active", !.version = v] IN
             /\ new.state = "active" /\ new.version = v
             /\ new.coordinator = old.coordinator
             /\ new.capacity = old.capacity
    BY DEF Program
  <2>6. /\ Opened(old).state = "enrolling" /\ Opened(old).version = v
        /\ Opened(old).coordinator = old.coordinator
        /\ Opened(old).capacity = old.capacity
        /\ Started(old).state = "active" /\ Started(old).version = v
        /\ Started(old).coordinator = old.coordinator
        /\ Started(old).capacity = old.capacity
    BY <2>4, <2>5 DEF Opened, Started
  <2>7. CASE p = q
    <3>1. programs'[p] = IF request[c].op = "open" THEN Opened(old)
                         ELSE Started(old)
      BY <2>3, <2>7 DEF IInv, TypeOK
    <3>2. QED  BY <2>2, <2>3, <2>4, <2>6, <2>7, <3>1 DEF ProgramMove
  <2>8. CASE p # q
    BY <2>3, <2>8 DEF IInv, TypeOK, ProgramMove
  <2>9. QED  BY <2>7, <2>8
<1>4. ASSUME NEW c \in Clients, FinishRequestReview(c)
      PROVE  UNCHANGED programs
  <2>1. request[c].program \in ProgramIds /\ request[c].open \in BOOLEAN
    BY <1>4 DEF FinishRequestReview, IInv, RequestSound, TypeOK, Request
  <2>2. QED  BY <1>4, <2>1, NeverReady DEF FinishRequestReview
<1>5. ASSUME NEW c \in Clients, NEW u \in Users, NEW q \in ProgramIds,
             Begin(c, u, q)
      PROVE  UNCHANGED programs
  BY <1>5, BeginOnlyReads
<1>6. ASSUME NEW c \in Clients,
             \/ CommitJoin(c) \/ ReplayJoin(c) \/ ConflictJoin(c)
             \/ FallbackJoin(c) \/ CommitBatch(c) \/ Fail(c)
      PROVE  UNCHANGED programs
  BY <1>6
  DEF CommitJoin, ReplayJoin, ConflictJoin, FallbackJoin, CommitBatch, Fail
<1>7. Tick \/ UNCHANGED vars => UNCHANGED programs
  BY DEF Tick, vars
<1>8. QED
  BY <1>1, <1>2, <1>3, <1>4, <1>5, <1>6, <1>7 DEF Next, Finish

\* Two transitions of one program that overlap do not overtake each other: a
\* program goes from draft to enrolling to active, one version at a time.
THEOREM ProgramsMoveForward ==
  Spec => [][\A p \in ProgramIds : ProgramMove(programs[p], programs'[p])]_vars
<1> DEFINE A == \A p \in ProgramIds : ProgramMove(programs[p], programs'[p])
<1>1. IInv /\ [Next]_vars => A
  BY MoveStep
<1> HIDE DEF A
<1>2. Spec => [][A]_vars
  BY <1>1, Invariance, PTL DEF Spec
<1>3. QED  BY <1>2 DEF A

\* program.go: "all reading activity must finish before review".  Whatever
\* finishes, no program of any size ever goes to review: an active program is
\* active for ever.
THEOREM ReviewIsNeverReached ==
  ASSUME NEW p \in ProgramIds
  PROVE  Spec => /\ [](programs[p].state # "review_pending")
                 /\ [](programs[p].state = "active"
                         => [](programs[p].state = "active"))
<1>1. Init => programs[p].state # "review_pending"
  BY DEF Init, NoProgram
<1>2. IInv /\ [Next]_vars /\ programs[p].state # "review_pending"
        => (programs[p].state # "review_pending")'
  BY MoveStep DEF ProgramMove
<1>3. IInv /\ [Next]_vars /\ programs[p].state = "active"
        => (programs[p].state = "active")'
  BY MoveStep DEF ProgramMove
<1>4. QED  BY <1>1, <1>2, <1>3, Invariance, PTL DEF Spec

=============================================================================
