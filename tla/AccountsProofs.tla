---------------------------- MODULE AccountsProofs ----------------------------
(***************************************************************************)
(* Proofs about Accounts, for every set of accounts, sessions and clients, *)
(* every session lifetime and every interval.                              *)
(***************************************************************************)
EXTENDS Accounts, TLAPS

\* What a request knows of the rows it holds, by the step it is at.
Shaped(r) ==
  /\ r.op \in {"authenticate", "touch", "admitted", "logout"} =>
       /\ r.session \in SessionIds
       /\ r.seen \in Session
       /\ users[r.seen.user] # NoUser
  /\ r.op = "touch" => r.seen.state = "active"
  /\ r.op \in {"login", "deactivate"} =>
       /\ r.user \in UserIds
       /\ users[r.user] # NoUser
  /\ r.op = "deactivate" => r.target \in User

\* Stored sessions have accounts, and requests are shaped.
Linked ==
  /\ \A s \in SessionIds :
       sessions[s] # NoSession => users[sessions[s].user] # NoUser
  /\ \A c \in Clients : Shaped(request[c])

\* A request whose session was dead when it began can still tell.
Telling(r) ==
  /\ r.op = "authenticate" /\ r.barred =>
       \/ r.seen.state = "revoked"
       \/ r.seen.expires <= r.now
       \/ ~users[r.seen.user].active
  /\ r.op \in {"touch", "admitted"} => ~r.barred

BarredTells == \A c \in Clients : Telling(request[c])

-----------------------------------------------------------------------------
(* Rows *)

\* The empty rows are no rows, and an idle request is a request.
LEMMA EmptyRows ==
  /\ NoUser \notin User
  /\ NoSession \notin Session
  /\ Idle \in Request
  /\ Idle.op = "idle"
  BY DEF NoUser, User, NoSession, Session, Idle, Request, Op, NoTime

\* A deactivated account is one, and is not active.
LEMMA DeactivatedFacts ==
  ASSUME NEW row \in User
  PROVE  Deactivated(row) \in User /\ ~Deactivated(row).active
<1>1. PICK v \in Nat \ {0} : v = row.version + 1
  BY DEF User
<1>2. [row EXCEPT !.active = FALSE, !.version = v] \in User
  BY DEF User
<1>3. QED  BY <1>1, <1>2 DEF Deactivated, User

\* What the transitions of a session keep and what they raise.
LEMMA SessionFacts ==
  ASSUME NEW row \in Session, NEW t \in Nat
  PROVE  /\ Expired(row) \in Session
         /\ Expired(row).user = row.user
         /\ Expired(row).version = row.version
         /\ Touched(row, t) \in Session
         /\ Touched(row, t).user = row.user
         /\ Touched(row, t).version = row.version + 1
         /\ Revoked(row) \in Session
         /\ Revoked(row).user = row.user
         /\ Revoked(row).version = row.version + 1
         /\ Revoked(row).lastSeen = row.lastSeen
         /\ Expired(row).lastSeen = row.lastSeen
         /\ Expired(row).expires = row.expires
         /\ Touched(row, t).expires = row.expires
         /\ Revoked(row).expires = row.expires
         /\ Touched(row, t).lastSeen = t
<1>1. PICK v \in Nat \ {0} : v = row.version + 1
  BY DEF Session
<1>2. /\ [row EXCEPT !.lastSeen = t, !.version = v] \in Session
      /\ [row EXCEPT !.state = "revoked", !.version = v] \in Session
      /\ [row EXCEPT !.state = "expired"] \in Session
  BY DEF Session
<1>3. QED  BY <1>1, <1>2 DEF Expired, Touched, Revoked, Session

\* A session a login stores is one.
LEMMA NewSessionFacts ==
  ASSUME NEW u \in UserIds, NEW now \in Nat
  PROVE  NewSession(u, now) \in Session /\ NewSession(u, now).user = u
<1>1. now + SessionTTL \in Nat
  BY BoundsAssumption DEF BoundsAssumption
<1>2. QED  BY <1>1 DEF NewSession, Session

\* An account that is inserted is one.
LEMMA NewUserFacts ==
  ASSUME NEW email \in Emails, NEW coordinator \in BOOLEAN
  PROVE  NewUser(email, coordinator) \in User
  BY DEF NewUser, User

-----------------------------------------------------------------------------
(* Accounts only come, and once inactive stay so *)

\* What the actions on accounts leave as it was.
LEMMA AccountKeeps ==
  ASSUME NEW c \in Clients, Account(c)
  PROVE  /\ UNCHANGED clock
         /\ CommitDeactivate(c) \/ UNCHANGED sessions
<1>1. CASE BeginBootstrap(c)
  BY <1>1 DEF BeginBootstrap
<1>2. CASE CommitDeactivate(c)
  BY <1>2 DEF CommitDeactivate
<1>3. ASSUME NEW u \in UserIds, FinishBootstrap(c, u)
      PROVE  UNCHANGED <<clock, sessions>>
  BY <1>3 DEF FinishBootstrap
<1>4. ASSUME NEW u \in UserIds, ReadCoordinator(c, u) \/ ReadTarget(c, u)
      PROVE  UNCHANGED <<clock, sessions>>
  BY <1>4 DEF ReadCoordinator, ReadTarget
<1>5. ASSUME NEW u \in UserIds, NEW email \in Emails,
             NEW coordinator \in BOOLEAN, CommitRegister(c, u, email, coordinator)
      PROVE  UNCHANGED <<clock, sessions>>
  BY <1>5 DEF CommitRegister
<1>6. QED  BY <1>1, <1>2, <1>3, <1>4, <1>5 DEF Account

\* What the actions on sessions leave as it was.
LEMMA AuthenticationKeeps ==
  ASSUME NEW c \in Clients, Authentication(c) \/ End(c)
  PROVE  UNCHANGED <<clock, users>>
<1>1. CASE End(c)
  BY <1>1 DEF End
<1>2. ASSUME NEW u \in UserIds, BeginLogin(c, u)
      PROVE  UNCHANGED <<clock, users>>
  BY <1>2 DEF BeginLogin
<1>3. ASSUME NEW s \in SessionIds, CommitLogin(c, s) \/ BeginAuthenticate(c, s)
      PROVE  UNCHANGED <<clock, users>>
  BY <1>3 DEF CommitLogin, BeginAuthenticate
<1>4. CASE ExpireSession(c)
  BY <1>4 DEF ExpireSession
<1>5. CASE ReadUser(c) \/ FinishAuthenticate(c)
  BY <1>5 DEF ReadUser, FinishAuthenticate
<1>6. CASE BeginLogout(c) \/ CommitLogout(c)
  BY <1>6 DEF BeginLogout, CommitLogout
<1>7. QED
  BY <1>1, <1>2, <1>3, <1>4, <1>5, <1>6 DEF Authentication

UsersGrow ==
  \A u \in UserIds :
    users[u] # NoUser =>
      /\ users'[u] # NoUser
      /\ users'[u].active => users[u].active

\* Every step keeps the accounts' shapes and lets them only grow.
LEMMA UsersStep ==
  ASSUME TypeOK, Linked, [Next]_vars
  PROVE  users' \in [UserIds -> User \cup {NoUser}] /\ UsersGrow
<1> USE EmptyRows
<1>1. ASSUME NEW u \in UserIds, NEW email \in Emails,
             NEW coordinator \in BOOLEAN, Available(u, email),
             InsertUser(u, email, coordinator)
      PROVE  users' \in [UserIds -> User \cup {NoUser}] /\ UsersGrow
  BY <1>1, NewUserFacts DEF TypeOK, Available, InsertUser, UsersGrow
<1>2. ASSUME NEW c \in Clients, CommitDeactivate(c)
      PROVE  users' \in [UserIds -> User \cup {NoUser}] /\ UsersGrow
  <2>1. request[c].target \in User /\ request[c].user \in UserIds
    BY <1>2 DEF CommitDeactivate, Linked, Shaped
  <2>2. QED
    BY <1>2, <2>1, DeactivatedFacts DEF TypeOK, CommitDeactivate, UsersGrow
<1>3. CASE UNCHANGED users
  BY <1>3 DEF TypeOK, UsersGrow
<1>4. ASSUME NEW c \in Clients, NEW u \in UserIds, FinishBootstrap(c, u)
      PROVE  users' \in [UserIds -> User \cup {NoUser}] /\ UsersGrow
  BY <1>1, <1>3, <1>4, EmailAssumption DEF FinishBootstrap, EmailAssumption
<1>5. ASSUME NEW c \in Clients, Account(c)
      PROVE  users' \in [UserIds -> User \cup {NoUser}] /\ UsersGrow
  BY <1>1, <1>2, <1>3, <1>4, <1>5
  DEF Account, BeginBootstrap, ReadCoordinator, ReadTarget, CommitRegister
<1>6. ASSUME NEW c \in Clients, Authentication(c) \/ End(c)
      PROVE  UNCHANGED users
  BY <1>6, AuthenticationKeeps
<1>7. QED  BY <1>3, <1>5, <1>6 DEF Next, Tick, vars

-----------------------------------------------------------------------------
(* Sessions *)

\* What one step may do to the row of a session.
RowStep(s) ==
  \/ sessions'[s] = sessions[s]
  \/ /\ sessions[s] = NoSession
     /\ sessions'[s] \in Session
     /\ users[sessions'[s].user] # NoUser
  \/ /\ sessions[s] \in Session /\ sessions[s].state = "active"
     /\ sessions'[s] = Expired(sessions[s])
  \/ /\ sessions[s] \in Session /\ sessions[s].state # "revoked"
     /\ sessions'[s] \in Session
     /\ sessions'[s].user = sessions[s].user
     /\ sessions'[s].expires = sessions[s].expires
     /\ sessions'[s].version = sessions[s].version + 1
     /\ \/ sessions'[s].lastSeen = sessions[s].lastSeen
        \/ sessions'[s].lastSeen - sessions[s].lastSeen >= TouchInterval

SessionsStep ==
  /\ sessions' \in [SessionIds -> Session \cup {NoSession}]
  /\ \A s \in SessionIds : RowStep(s)

\* With its version, a request writes over the row it has seen, or over that
\* row marked as expired.
LEMMA GuardedRow ==
  ASSUME TypeOK, Linked, SeenFresh, NEW c \in Clients,
         request[c].op \in {"authenticate", "touch", "logout"},
         sessions[request[c].session].version = request[c].seen.version
  PROVE  LET r == request[c]
             row == sessions[r.session]
         IN  /\ r.session \in SessionIds
             /\ r.seen \in Session
             /\ row \in Session
             /\ \/ row = r.seen
                \/ r.seen.state = "active" /\ row = Expired(r.seen)
<1>1. request[c].session \in SessionIds /\ request[c].seen \in Session
  BY DEF Linked, Shaped
<1>2. request[c].session # Nil
  BY <1>1, NilAssumption DEF NilAssumption
<1>3. QED  BY <1>1, <1>2, SessionFacts DEF SeenFresh

\* An update that did not match leaves every row alone.
LEMMA Unchanged ==
  ASSUME TypeOK, UNCHANGED sessions
  PROVE  SessionsStep
  BY DEF TypeOK, SessionsStep, RowStep

\* A write of one row is a step when it is one for that row.
LEMMA OneRow ==
  ASSUME TypeOK, NEW s \in SessionIds, NEW row \in Session,
         sessions' = [sessions EXCEPT ![s] = row], RowStep(s)
  PROVE  SessionsStep
  BY DEF TypeOK, SessionsStep, RowStep

\* Storing a login.
LEMMA LoginStep ==
  ASSUME TypeOK, Linked, NEW c \in Clients, NEW s \in SessionIds,
         CommitLogin(c, s)
  PROVE  SessionsStep
<1>1. request[c].user \in UserIds /\ users[request[c].user] # NoUser
      /\ request[c].now \in Nat
  BY DEF CommitLogin, Linked, Shaped, TypeOK, Request
<1>2. PICK now \in request[c].now .. clock :
        sessions' = [sessions EXCEPT ![s] = NewSession(request[c].user, now)]
  BY DEF CommitLogin
<1>3. now \in Nat
  BY <1>1, <1>2 DEF TypeOK
<1>4. NewSession(request[c].user, now) \in Session
      /\ NewSession(request[c].user, now).user = request[c].user
  BY <1>1, <1>3, NewSessionFacts
<1>5. RowStep(s)
  BY <1>1, <1>2, <1>4 DEF RowStep, CommitLogin, TypeOK
<1>6. QED  BY <1>2, <1>4, <1>5, OneRow

\* Marking a session as expired.
LEMMA ExpireStep ==
  ASSUME TypeOK, Linked, SeenFresh, NEW c \in Clients, ExpireSession(c)
  PROVE  SessionsStep
<1> DEFINE r == request[c]
<1>1. CASE sessions[r.session].version # r.seen.version
  BY <1>1, Unchanged DEF ExpireSession, UpdateSession
<1>2. CASE sessions[r.session].version = r.seen.version
  <2>1. /\ r.session \in SessionIds /\ r.seen \in Session
        /\ sessions[r.session] \in Session
        /\ \/ sessions[r.session] = r.seen
           \/ /\ r.seen.state = "active"
              /\ sessions[r.session] = Expired(r.seen)
    BY <1>2, GuardedRow DEF ExpireSession
  <2>2. /\ sessions' = [sessions EXCEPT ![r.session] = Expired(r.seen)]
        /\ r.seen.state \in {"expired", "active"}
    BY <1>2 DEF ExpireSession, UpdateSession
  <2>3. Expired(r.seen) \in Session /\ sessions'[r.session] = Expired(r.seen)
    BY <2>1, <2>2, SessionFacts DEF TypeOK
  <2>4. r.seen.state = "expired" => Expired(r.seen) = r.seen
    BY <2>1 DEF Expired, Session
  <2>5. RowStep(r.session)
    BY <2>1, <2>2, <2>3, <2>4 DEF RowStep, Expired, Session
  <2>6. QED  BY <2>1, <2>2, <2>3, <2>5, OneRow
<1>3. QED  BY <1>1, <1>2

\* Touching a session.
LEMMA TouchStep ==
  ASSUME TypeOK, Linked, SeenFresh, NEW c \in Clients, FinishAuthenticate(c)
  PROVE  SessionsStep
<1> DEFINE r == request[c]
<1>1. CASE UNCHANGED sessions
  BY <1>1, Unchanged
<1>2. CASE /\ sessions[r.session].version = r.seen.version
           /\ r.now - r.seen.lastSeen >= TouchInterval
           /\ sessions' = [sessions EXCEPT ![r.session] = Touched(r.seen, r.now)]
  <2>1. /\ r.session \in SessionIds /\ r.seen \in Session /\ r.now \in Nat
        /\ sessions[r.session] \in Session
        /\ \/ sessions[r.session] = r.seen
           \/ sessions[r.session] = Expired(r.seen)
    BY <1>2, GuardedRow DEF FinishAuthenticate, TypeOK, Request
  <2>2. r.seen.state = "active"
    BY DEF FinishAuthenticate, Linked, Shaped
  <2>3. /\ sessions[r.session].state # "revoked"
        /\ sessions[r.session].user = r.seen.user
        /\ sessions[r.session].expires = r.seen.expires
        /\ sessions[r.session].lastSeen = r.seen.lastSeen
    BY <2>1, <2>2, SessionFacts DEF Expired, Session
  <2>4. /\ sessions'[r.session] = Touched(r.seen, r.now)
        /\ Touched(r.seen, r.now) \in Session
        /\ Touched(r.seen, r.now).user = r.seen.user
        /\ Touched(r.seen, r.now).expires = r.seen.expires
        /\ Touched(r.seen, r.now).version = r.seen.version + 1
        /\ Touched(r.seen, r.now).lastSeen = r.now
    BY <1>2, <2>1, SessionFacts DEF TypeOK
  <2>5. RowStep(r.session)
    BY <1>2, <2>1, <2>3, <2>4 DEF RowStep
  <2>6. QED  BY <1>2, <2>1, <2>4, <2>5, OneRow
<1>3. QED  BY <1>1, <1>2 DEF FinishAuthenticate, UpdateSession

\* Revoking one session.
LEMMA LogoutStep ==
  ASSUME TypeOK, Linked, SeenFresh, NEW c \in Clients, CommitLogout(c)
  PROVE  SessionsStep
<1> DEFINE r == request[c]
           new == IF r.seen.state = "revoked" THEN r.seen ELSE Revoked(r.seen)
<1>1. /\ sessions[r.session].version = r.seen.version
      /\ sessions' = [sessions EXCEPT ![r.session] = new]
  BY DEF CommitLogout
<1>2. /\ r.session \in SessionIds /\ r.seen \in Session
      /\ sessions[r.session] \in Session
      /\ \/ sessions[r.session] = r.seen
         \/ r.seen.state = "active" /\ sessions[r.session] = Expired(r.seen)
  BY <1>1, GuardedRow DEF CommitLogout
<1>3. sessions'[r.session] = new
  BY <1>1, <1>2 DEF TypeOK
<1> HIDE DEF new
<1>4. CASE r.seen.state = "revoked"
  <2>1. sessions[r.session] = r.seen /\ new = r.seen
    BY <1>2, <1>4 DEF new
  <2>2. QED  BY <1>1, <1>2, <1>3, <2>1, OneRow DEF RowStep
<1>5. CASE r.seen.state # "revoked"
  <2>1. new = Revoked(r.seen)
    BY <1>5 DEF new
  <2>2. /\ new \in Session
        /\ new.user = r.seen.user
        /\ new.expires = r.seen.expires
        /\ new.version = r.seen.version + 1
        /\ new.lastSeen = r.seen.lastSeen
    BY <1>2, <2>1, SessionFacts, 0 \in Nat
  <2>3. /\ sessions[r.session].state # "revoked"
        /\ sessions[r.session].user = r.seen.user
        /\ sessions[r.session].expires = r.seen.expires
        /\ sessions[r.session].lastSeen = r.seen.lastSeen
    BY <1>2, <1>5, SessionFacts, 0 \in Nat DEF Expired, Session
  <2>4. RowStep(r.session)
    BY <1>1, <1>2, <1>3, <2>2, <2>3 DEF RowStep
  <2>5. QED  BY <1>1, <1>2, <2>2, <2>4, OneRow
<1>6. QED  BY <1>4, <1>5

\* Revoking all sessions of an account.
LEMMA RevokeStep ==
  ASSUME TypeOK, NEW u \in UserIds, RevokeSessionsForUser(u)
  PROVE  SessionsStep
<1>1. ASSUME NEW s \in SessionIds
      PROVE  sessions'[s] \in Session \cup {NoSession} /\ RowStep(s)
  <2>1. CASE sessions[s].user = u /\ sessions[s].state = "active"
    <3>1. sessions[s] \in Session
      BY <2>1 DEF TypeOK, NoSession
    <3>2. sessions'[s] = Revoked(sessions[s])
      BY <2>1 DEF RevokeSessionsForUser
    <3>3. QED
      BY <2>1, <3>1, <3>2, SessionFacts, 0 \in Nat DEF RowStep
  <2>2. CASE ~(sessions[s].user = u /\ sessions[s].state = "active")
    BY <2>2 DEF RevokeSessionsForUser, TypeOK, RowStep
  <2>3. QED  BY <2>1, <2>2
<1>2. QED  BY <1>1 DEF SessionsStep, RevokeSessionsForUser

\* Every step is one of the above for every session.
LEMMA SessionsMove ==
  ASSUME TypeOK, Linked, SeenFresh, [Next]_vars
  PROVE  SessionsStep
<1>1. ASSUME NEW c \in Clients, CommitDeactivate(c)
      PROVE  SessionsStep
  <2>1. request[c].user \in UserIds
    BY <1>1 DEF CommitDeactivate, Linked, Shaped
  <2>2. QED  BY <1>1, <2>1, RevokeStep DEF CommitDeactivate
<1>2. ASSUME NEW c \in Clients, Account(c)
      PROVE  SessionsStep
  <2>1. CASE UNCHANGED sessions
    BY <2>1, Unchanged
  <2>2. QED  BY <1>1, <1>2, <2>1, AccountKeeps
<1>3. ASSUME NEW c \in Clients, Authentication(c)
      PROVE  SessionsStep
  <2>1. ASSUME NEW u \in UserIds, BeginLogin(c, u)
        PROVE  UNCHANGED sessions
    BY <2>1 DEF BeginLogin
  <2>2. ASSUME NEW s \in SessionIds, BeginAuthenticate(c, s)
        PROVE  UNCHANGED sessions
    BY <2>2 DEF BeginAuthenticate
  <2>3. ASSUME ReadUser(c) \/ BeginLogout(c)
        PROVE  UNCHANGED sessions
    BY <2>3 DEF ReadUser, BeginLogout
  <2>4. QED
    BY <1>3, <2>1, <2>2, <2>3, Unchanged, LoginStep, ExpireStep, TouchStep,
       LogoutStep
    DEF Authentication
<1>4. ASSUME UNCHANGED vars \/ Tick \/ \E c \in Clients : End(c)
      PROVE  SessionsStep
  BY <1>4, Unchanged DEF vars, Tick, End
<1>5. QED  BY <1>2, <1>3, <1>4 DEF Next

-----------------------------------------------------------------------------
(* Requests *)

\* What one step may do to a request: leave it, end it, or hold a new one
\* that is shaped, fresh and telling.
RequestStep(c) ==
  LET r == request'[c] IN
  /\ r \in Request
  /\ \/ r = request[c]
     \/ /\ Shaped(r)
        /\ r.session # Nil =>
             \/ r.session = request[c].session /\ r.seen = request[c].seen
             \/ r.seen = sessions[r.session]
        /\ Telling(r)

RequestsStep ==
  /\ request' \in [Clients -> Request]
  /\ \A d \in Clients : RequestStep(d)

\* A step of one client leaves the requests of the others.
LEMMA OneRequest ==
  ASSUME TypeOK, NEW c \in Clients, NEW r \in Request, Hold(c, r),
         r = request'[c] => RequestStep(c)
  PROVE  RequestsStep
  BY DEF TypeOK, Hold, RequestStep, RequestsStep

\* Ending a request.
LEMMA AnswerStep ==
  ASSUME TypeOK, NEW c \in Clients, Answer(c)
  PROVE  RequestsStep
<1>1. Idle \in Request /\ Shaped(Idle) /\ Telling(Idle) /\ Idle.session = Nil
  BY EmptyRows DEF Idle, Shaped, Telling
<1>2. QED  BY <1>1, OneRequest DEF Answer, RequestStep

\* The reads of Register and DeactivateUser, and of a login.
LEMMA AccountReads ==
  ASSUME TypeOK, NEW c \in Clients, NEW u \in UserIds,
         \/ ReadCoordinator(c, u)
         \/ ReadTarget(c, u)
         \/ BeginLogin(c, u)
  PROVE  RequestsStep
<1> USE EmptyRows
<1>1. CASE ReadCoordinator(c, u)
  <2> DEFINE r == [Idle EXCEPT !.op = "admin"]
  <2>1. r \in Request /\ Shaped(r) /\ Telling(r) /\ r.session = Nil
    BY DEF Idle, Request, Op, Shaped, Telling
  <2>2. Hold(c, r)
    BY <1>1 DEF ReadCoordinator
  <2> HIDE DEF r
  <2>3. QED  BY <2>1, <2>2, OneRequest DEF RequestStep
<1>2. CASE ReadTarget(c, u)
  <2> DEFINE r == [Idle EXCEPT !.op = "deactivate", !.user = u,
                               !.target = users[u]]
  <2>1. users[u] \in User
    BY <1>2 DEF ReadTarget, TypeOK
  <2>2. r \in Request /\ Shaped(r) /\ Telling(r) /\ r.session = Nil
    BY <1>2, <2>1 DEF ReadTarget, Idle, Request, Op, Shaped, Telling
  <2>3. Hold(c, r)
    BY <1>2 DEF ReadTarget
  <2> HIDE DEF r
  <2>4. QED  BY <2>2, <2>3, OneRequest DEF RequestStep
<1>3. CASE BeginLogin(c, u)
  <2> DEFINE r == [Idle EXCEPT !.op = "login", !.user = u, !.now = clock]
  <2>1. clock \in Nat /\ users[u] # NoUser
    BY <1>3 DEF BeginLogin, TypeOK, NoUser
  <2>2. r \in Request /\ Shaped(r) /\ Telling(r) /\ r.session = Nil
    BY <2>1 DEF Idle, Request, Op, Shaped, Telling
  <2>3. Hold(c, r)
    BY <1>3 DEF BeginLogin
  <2> HIDE DEF r
  <2>4. QED  BY <2>2, <2>3, OneRequest DEF RequestStep
<1>4. QED  BY <1>1, <1>2, <1>3

\* Reading a session to authenticate or to log out.
LEMMA SessionReads ==
  ASSUME TypeOK, Linked, NEW c \in Clients, NEW s \in SessionIds,
         BeginAuthenticate(c, s) \/ BeginLogout(c)
  PROVE  RequestsStep
<1> USE EmptyRows
<1>1. CASE BeginAuthenticate(c, s)
  <2> DEFINE r == [Idle EXCEPT !.op = "authenticate", !.session = s,
                               !.now = clock, !.seen = sessions[s],
                               !.barred = Dead(s)]
  <2>1. /\ clock \in Nat /\ sessions[s] \in Session
        /\ users[sessions[s].user] # NoUser /\ Dead(s) \in BOOLEAN
    BY <1>1 DEF BeginAuthenticate, TypeOK, Linked, Dead
  <2>2. r \in Request /\ Shaped(r)
    BY <2>1 DEF Idle, Request, Op, Shaped
  <2>3. Telling(r) /\ r.seen = sessions[r.session]
    BY DEF Telling, Dead, Idle
  <2>4. Hold(c, r)
    BY <1>1 DEF BeginAuthenticate
  <2> HIDE DEF r
  <2>5. QED  BY <2>2, <2>3, <2>4, OneRequest DEF RequestStep
<1>2. CASE BeginLogout(c)
  <2> DEFINE t == request[c].session
             r == [Idle EXCEPT !.op = "logout", !.session = t,
                               !.seen = sessions[t]]
  <2>1. /\ t \in SessionIds
        /\ request[c].seen \in Session
        /\ users[request[c].seen.user] # NoUser
        /\ sessions[t].user = request[c].seen.user
    BY <1>2 DEF BeginLogout, Linked, Shaped
  <2>2. sessions[t] \in Session
    BY <2>1, NilAssumption DEF TypeOK, NoSession, Session, NilAssumption
  <2>3. r \in Request /\ Shaped(r)
    BY <2>1, <2>2 DEF Idle, Request, Op, Shaped
  <2>4. Telling(r) /\ r.seen = sessions[r.session]
    BY DEF Telling, Idle
  <2>5. Hold(c, r)
    BY <1>2 DEF BeginLogout
  <2> HIDE DEF r
  <2>6. QED  BY <2>3, <2>4, <2>5, OneRequest DEF RequestStep
<1>3. QED  BY <1>1, <1>2

\* Reading the account and admitting the request.
LEMMA Admission ==
  ASSUME TypeOK, Linked, BarredTells, NEW c \in Clients,
         ReadUser(c) \/ FinishAuthenticate(c)
  PROVE  RequestsStep
<1>1. /\ request[c] \in Request /\ Shaped(request[c]) /\ Telling(request[c])
  BY DEF TypeOK, Linked, BarredTells
<1>2. CASE ReadUser(c)
  <2>1. PICK now \in request[c].now .. clock :
          /\ now < request[c].seen.expires
          /\ Hold(c, [request[c] EXCEPT !.op = "touch", !.now = now])
    BY <1>2 DEF ReadUser
  <2> DEFINE r == [request[c] EXCEPT !.op = "touch", !.now = now]
  <2>2. /\ request[c].op = "authenticate" /\ request[c].seen.state = "active"
        /\ users[request[c].seen.user].active
    BY <1>2 DEF ReadUser
  <2>3. request[c].now \in Nat /\ clock \in Nat /\ request[c].seen \in Session
    BY <1>1, <2>2 DEF TypeOK, Request, Shaped
  <2>4. now \in Nat /\ request[c].now <= now
    BY <2>3
  <2>5. ~(request[c].seen.expires <= request[c].now)
    BY <2>1, <2>3, <2>4 DEF Session
  <2>6. ~request[c].barred
    BY <1>1, <2>2, <2>5 DEF Telling, Request
  <2>7. /\ r \in Request /\ r.op = "touch" /\ r.session = request[c].session
        /\ r.seen = request[c].seen /\ r.barred = request[c].barred
    BY <1>1, <2>4 DEF Request, Op
  <2>8. Shaped(r) /\ Telling(r)
    BY <1>1, <2>2, <2>6, <2>7 DEF Shaped, Telling
  <2> HIDE DEF r
  <2>9. QED  BY <2>1, <2>7, <2>8, OneRequest DEF RequestStep, r
<1>3. CASE FinishAuthenticate(c)
  <2> DEFINE r == [request[c] EXCEPT !.op = "admitted"]
  <2>1. request[c].op = "touch" /\ Hold(c, r)
    BY <1>3 DEF FinishAuthenticate
  <2>2. /\ r \in Request /\ r.op = "admitted" /\ r.session = request[c].session
        /\ r.seen = request[c].seen /\ r.barred = request[c].barred
    BY <1>1 DEF Request, Op
  <2>3. Shaped(r) /\ Telling(r)
    BY <1>1, <2>1, <2>2 DEF Shaped, Telling
  <2> HIDE DEF r
  <2>4. QED  BY <2>1, <2>2, <2>3, OneRequest DEF RequestStep
<1>4. QED  BY <1>2, <1>3

\* Every step is one of the above for every request.
LEMMA RequestsMove ==
  ASSUME TypeOK, Linked, BarredTells, [Next]_vars
  PROVE  RequestsStep
<1>1. CASE UNCHANGED request
  BY <1>1 DEF TypeOK, RequestStep, RequestsStep
<1>2. ASSUME NEW c \in Clients, Account(c)
      PROVE  RequestsStep
  <2>1. CASE CommitDeactivate(c)
    BY <2>1, AnswerStep DEF CommitDeactivate
  <2>2. CASE \E u \in UserIds : FinishBootstrap(c, u)
    BY <2>2, AnswerStep DEF FinishBootstrap
  <2>3. CASE \E u \in UserIds, email \in Emails, coordinator \in BOOLEAN :
               CommitRegister(c, u, email, coordinator)
    BY <2>3, AnswerStep DEF CommitRegister
  <2>4. CASE \E u \in UserIds : ReadCoordinator(c, u) \/ ReadTarget(c, u)
    BY <2>4, AccountReads
  <2>5. CASE BeginBootstrap(c)
    <3> DEFINE r == [Idle EXCEPT !.op = "bootstrap"]
    <3>1. r \in Request /\ Shaped(r) /\ Telling(r) /\ r.session = Nil
      BY EmptyRows DEF Idle, Request, Op, Shaped, Telling
    <3>2. Hold(c, r)
      BY <2>5 DEF BeginBootstrap
    <3> HIDE DEF r
    <3>3. QED  BY <3>1, <3>2, OneRequest DEF RequestStep
  <2>6. QED  BY <1>2, <2>1, <2>2, <2>3, <2>4, <2>5 DEF Account
<1>3. ASSUME NEW c \in Clients, Authentication(c)
      PROVE  RequestsStep
  <2>1. CASE \/ \E s \in SessionIds : CommitLogin(c, s)
             \/ ExpireSession(c) \/ CommitLogout(c)
    BY <2>1, AnswerStep DEF CommitLogin, ExpireSession, CommitLogout
  <2>2. CASE \E u \in UserIds : BeginLogin(c, u)
    BY <2>2, AccountReads
  <2>3. CASE \E s \in SessionIds : BeginAuthenticate(c, s)
    BY <2>3, SessionReads
  <2>4. CASE BeginLogout(c)
    <3>1. request[c].session \in SessionIds
      BY <2>4 DEF BeginLogout, Linked, Shaped
    <3>2. QED  BY <2>4, <3>1, SessionReads
  <2>5. CASE ReadUser(c) \/ FinishAuthenticate(c)
    BY <2>5, Admission
  <2>6. QED
    BY <1>3, <2>1, <2>2, <2>3, <2>4, <2>5 DEF Authentication
<1>4. ASSUME NEW c \in Clients, End(c)
      PROVE  RequestsStep
  BY <1>4, AnswerStep DEF End
<1>5. QED  BY <1>1, <1>2, <1>3, <1>4 DEF Next, Tick, vars

-----------------------------------------------------------------------------
(* The invariant and what follows from it *)

\* The type invariant is not inductive by itself: what a commit writes has
\* the right type because the request is shaped, a guarded write is one for
\* the stored row because what was seen is fresh.
IInv == TypeOK /\ Linked /\ SeenFresh /\ BarredTells

\* The initial state has no accounts, no sessions and no requests.
LEMMA InitEstablishes == Init => IInv
<1> SUFFICES ASSUME Init  PROVE IInv
  OBVIOUS
<1>1. TypeOK
  BY EmptyRows, BoundsAssumption DEF Init, TypeOK, BoundsAssumption
<1>2. Linked
  BY EmptyRows DEF Init, Linked, Shaped
<1>3. SeenFresh
  BY DEF Init, SeenFresh, Idle
<1>4. BarredTells
  BY EmptyRows DEF Init, BarredTells, Telling
<1>5. QED  BY <1>1, <1>2, <1>3, <1>4 DEF IInv

\* What a request knows of the accounts stays true while they only grow.
LEMMA RequestsKeep ==
  ASSUME TypeOK, UsersGrow, NEW r \in Request
  PROVE  /\ Shaped(r) => Shaped(r)'
         /\ (Shaped(r) /\ Telling(r)) => Telling(r)'
  BY DEF Shaped, Telling, UsersGrow, Session

\* The clock stands still or moves on by one.
LEMMA ClockMoves ==
  ASSUME TypeOK, [Next]_vars
  PROVE  clock' \in 1 .. Horizon /\ clock <= clock'
<1>1. CASE Tick
  BY <1>1, BoundsAssumption DEF Tick, TypeOK, BoundsAssumption
<1>2. CASE UNCHANGED clock
  BY <1>2, BoundsAssumption DEF TypeOK, BoundsAssumption
<1>3. ASSUME NEW c \in Clients, Account(c)
      PROVE  UNCHANGED clock
  BY <1>3, AccountKeeps
<1>4. ASSUME NEW c \in Clients, Authentication(c) \/ End(c)
      PROVE  UNCHANGED clock
  BY <1>4, AuthenticationKeeps
<1>5. QED  BY <1>1, <1>2, <1>3, <1>4 DEF Next, vars

\* The types, and the accounts behind sessions and requests.
LEMMA LinkedStep ==
  ASSUME IInv, [Next]_vars
  PROVE  TypeOK' /\ Linked' /\ BarredTells'
<1> USE DEF IInv
<1>1. /\ users' \in [UserIds -> User \cup {NoUser}] /\ UsersGrow
      /\ SessionsStep
      /\ RequestsStep
  BY UsersStep, SessionsMove, RequestsMove
<1>2. clock' \in 1 .. Horizon
  BY ClockMoves
<1>3. /\ request' \in [Clients -> Request]
      /\ \A c \in Clients : RequestStep(c)
  BY <1>1 DEF RequestsStep
<1>4. TypeOK'
  BY <1>1, <1>2, <1>3 DEF TypeOK, SessionsStep
<1>5. ASSUME NEW s \in SessionIds, sessions'[s] # NoSession
      PROVE  users'[sessions'[s].user] # NoUser
  <2>1. sessions'[s] \in Session
    BY <1>1, <1>5 DEF SessionsStep
  <2>2. users[sessions'[s].user] # NoUser
    BY <1>1, <1>5, SessionFacts, EmptyRows, 0 \in Nat
    DEF SessionsStep, RowStep, Linked
  <2>3. QED  BY <1>1, <2>1, <2>2 DEF UsersGrow, Session
<1>6. ASSUME NEW c \in Clients
      PROVE  Shaped(request[c])' /\ Telling(request[c])'
  <2>1. /\ request'[c] \in Request
        /\ Shaped(request'[c]) /\ Telling(request'[c])
    BY <1>3 DEF RequestStep, Linked, BarredTells
  <2>2. PICK r \in Request : r = request'[c]
    BY <2>1
  <2>3. Shaped(r)' /\ Telling(r)'
    BY <1>1, <2>1, <2>2, RequestsKeep
  <2>4. QED  BY <2>2, <2>3 DEF Shaped, Telling
<1>7. QED  BY <1>4, <1>5, <1>6 DEF Linked, BarredTells

\* A stored row moves away from what a request has seen only by a higher
\* version or by the mark of expiry.
LEMMA FreshStep ==
  ASSUME IInv, [Next]_vars
  PROVE  SeenFresh'
<1> USE DEF IInv
<1>1. SessionsStep /\ \A c \in Clients : RequestStep(c)
  BY SessionsMove, RequestsMove DEF RequestsStep
<1>2. SUFFICES ASSUME NEW c \in Clients, request'[c].session # Nil
               PROVE  LET r == request'[c]
                          row == sessions'[r.session]
                      IN  /\ r.seen.version <= row.version
                          /\ r.seen.version = row.version =>
                               \/ row = r.seen
                               \/ /\ r.seen.state = "active"
                                  /\ row = Expired(r.seen)
  BY DEF SeenFresh, Expired
<1> DEFINE s == request'[c].session
           seen == request'[c].seen
<1>3. s \in SessionIds /\ seen \in Session \cup {NoSession}
  BY <1>1, <1>2 DEF RequestStep, Request
<1>4. /\ seen.version <= sessions[s].version
      /\ seen.version = sessions[s].version =>
           \/ sessions[s] = seen
           \/ seen.state = "active" /\ sessions[s] = Expired(seen)
  <2>1. CASE seen = sessions[s]
    <3>1. seen.version \in Nat
      BY <1>3 DEF Session, NoSession
    <3>2. QED  BY <2>1, <3>1
  <2>2. CASE request[c].session = s /\ request[c].seen = seen
    BY <1>2, <2>2 DEF SeenFresh
  <2>3. QED  BY <1>1, <1>2, <2>1, <2>2 DEF RequestStep
<1>5. /\ sessions[s] \in Session \cup {NoSession}
      /\ sessions'[s] \in Session \cup {NoSession}
      /\ RowStep(s)
  BY <1>1, <1>3 DEF TypeOK, SessionsStep
<1>6. seen.version \in Nat /\ sessions[s].version \in Nat
      /\ sessions'[s].version \in Nat
  BY <1>3, <1>5 DEF Session, NoSession
<1> HIDE DEF s, seen
<1>7. CASE sessions'[s] = sessions[s]
  BY <1>4, <1>7 DEF s, seen
<1>8. CASE sessions'[s].version > sessions[s].version
  BY <1>4, <1>6, <1>8 DEF s, seen
<1>9. CASE /\ sessions[s] \in Session /\ sessions[s].state = "active"
           /\ sessions'[s] = Expired(sessions[s])
  <2>1. sessions'[s].version = sessions[s].version
    BY <1>9, SessionFacts, 0 \in Nat
  <2>2. seen.version = sessions[s].version => sessions[s] = seen
    BY <1>3, <1>4, <1>9 DEF Expired, Session, NoSession, s, seen
  <2>3. QED  BY <1>4, <1>9, <2>1, <2>2 DEF s, seen
<1>10. CASE sessions[s] = NoSession /\ sessions'[s] \in Session
  BY <1>8, <1>10 DEF NoSession, Session
<1>11. QED
  BY <1>5, <1>6, <1>7, <1>8, <1>9, <1>10 DEF RowStep

\* The invariant holds in every reachable state.
LEMMA Invariance == Spec => []IInv
<1>1. IInv /\ [Next]_vars => IInv'
  BY LinkedStep, FreshStep DEF IInv
<1>2. QED  BY InitEstablishes, <1>1, PTL DEF Spec

\* Type correctness: whatever is stored is a row, and sessions name accounts.
THEOREM TypeCorrect == Spec => []TypeOK
<1>1. IInv => TypeOK
  BY DEF IInv
<1>2. QED  BY <1>1, Invariance, PTL

\* What Authenticate and Logout hold is fresh enough for their guards.
THEOREM SeenRowsFresh == Spec => []SeenFresh
<1>1. IInv => SeenFresh
  BY DEF IInv
<1>2. QED  BY <1>1, Invariance, PTL

\* No request that began with a dead session is admitted.
THEOREM DeadSessionsRefused == Spec => []DeadNotAdmitted
<1>1. IInv => DeadNotAdmitted
  BY DEF IInv, BarredTells, Telling, DeadNotAdmitted
<1>2. QED  BY <1>1, Invariance, PTL

\* A revoked session is never written again.
THEOREM RevocationPersists == Spec => RevokedIsFinal
<1>1. IInv /\ [Next]_vars =>
        \A s \in SessionIds :
          sessions[s].state = "revoked" => sessions'[s] = sessions[s]
  <2>1. SUFFICES ASSUME IInv, [Next]_vars, NEW s \in SessionIds,
                        sessions[s].state = "revoked"
                 PROVE  sessions'[s] = sessions[s]
    OBVIOUS
  <2>2. RowStep(s)
    BY <2>1, SessionsMove DEF IInv, SessionsStep
  <2>3. QED  BY <2>1, <2>2 DEF RowStep, NoSession
<1>2. QED  BY <1>1, Invariance, PTL DEF Spec, RevokedIsFinal

\* The last-seen time moves by the interval or not at all.
THEOREM TouchesThrottled == Spec => LastSeenThrottled
<1>1. IInv /\ [Next]_vars =>
        \A s \in SessionIds :
          sessions[s] # NoSession =>
            \/ sessions'[s].lastSeen = sessions[s].lastSeen
            \/ sessions'[s].lastSeen >= sessions[s].lastSeen + TouchInterval
  <2>1. SUFFICES ASSUME IInv, [Next]_vars, NEW s \in SessionIds,
                        sessions[s] # NoSession
                 PROVE  \/ sessions'[s].lastSeen = sessions[s].lastSeen
                        \/ sessions'[s].lastSeen >=
                             sessions[s].lastSeen + TouchInterval
    OBVIOUS
  <2>2. RowStep(s) /\ sessions[s] \in Session
        /\ sessions'[s] \in Session \cup {NoSession}
    BY <2>1, SessionsMove DEF IInv, SessionsStep, TypeOK
  <2>3. sessions[s].lastSeen \in Nat /\ sessions'[s].lastSeen \in Nat
        /\ TouchInterval \in Nat
    BY <2>2, BoundsAssumption
    DEF Session, NoSession, NoTime, BoundsAssumption
  <2>4. Expired(sessions[s]).lastSeen = sessions[s].lastSeen
    BY <2>2, SessionFacts, 0 \in Nat
  <2>5. QED  BY <2>1, <2>2, <2>3, <2>4 DEF RowStep
<1>2. QED  BY <1>1, Invariance, PTL DEF Spec, LastSeenThrottled

-----------------------------------------------------------------------------
(* What is over stays over *)

\* README: "account deactivation and revocation are persistent".  An account
\* that is not active is so for ever: no change prepared on the active row
\* brings it back.
THEOREM DeactivationPersists ==
  ASSUME NEW u \in UserIds
  PROVE  Spec => [](users[u] # NoUser /\ ~users[u].active
                      => [](users[u] # NoUser /\ ~users[u].active))
<1>1. IInv /\ [Next]_vars /\ users[u] # NoUser /\ ~users[u].active
        => (users[u] # NoUser /\ ~users[u].active)'
  BY UsersStep DEF IInv, UsersGrow
<1>2. QED  BY <1>1, Invariance, PTL DEF Spec

\* No step lengthens a session, gives it to another account or brings it back:
\* one that is revoked, past its end or of an inactive account stays so.
LEMMA DeadStep ==
  ASSUME IInv, [Next]_vars, NEW s \in SessionIds,
         sessions[s] # NoSession, Dead(s)
  PROVE  sessions'[s] # NoSession /\ Dead(s)'
<1>1. /\ sessions[s] \in Session
      /\ sessions'[s] \in Session \cup {NoSession}
      /\ RowStep(s)
  BY SessionsMove DEF IInv, SessionsStep, TypeOK
<1>2. /\ sessions'[s] \in Session
      /\ sessions'[s].user = sessions[s].user
      /\ sessions'[s].expires = sessions[s].expires
      /\ sessions[s].state = "revoked" => sessions'[s] = sessions[s]
  BY <1>1, SessionFacts, 0 \in Nat DEF RowStep
<1>3. sessions'[s] # NoSession
  BY <1>2, EmptyRows
<1>4. CASE sessions[s].state = "revoked"
  BY <1>2, <1>3, <1>4 DEF Dead
<1>5. CASE sessions[s].expires <= clock
  <2>1. sessions[s].expires \in Nat
    BY <1>1 DEF Session
  <2>2. clock \in Nat /\ clock' \in Nat /\ clock <= clock'
    BY ClockMoves, BoundsAssumption DEF IInv, TypeOK, BoundsAssumption
  <2>3. sessions'[s].expires <= clock'
    BY <1>2, <1>5, <2>1, <2>2
  <2>4. QED  BY <1>3, <2>3 DEF Dead
<1>6. CASE ~users[sessions[s].user].active
  <2>1. PICK u \in UserIds : u = sessions[s].user
    BY <1>1 DEF Session
  <2>2. users[u] # NoUser
    BY <2>1 DEF IInv, Linked
  <2>3. ~users'[u].active
    BY <1>6, <2>1, <2>2, UsersStep DEF IInv, UsersGrow
  <2>4. QED  BY <1>2, <1>3, <2>1, <2>3 DEF Dead
<1>7. QED  BY <1>4, <1>5, <1>6 DEF Dead

\* A client does not use the session, or is about to be refused.
Refused(c, s) ==
  request[c].session = s => request[c].op = "authenticate" /\ request[c].barred

\* While a session is dead, no request under it comes further than the check.
LEMMA RefusedStep ==
  ASSUME IInv, [Next]_vars, NEW c \in Clients, NEW s \in SessionIds,
         sessions[s] # NoSession, Dead(s), Refused(c, s)
  PROVE  Refused(c, s)'
<1>0. request \in [Clients -> Request] /\ Nil # s /\ Idle.session = Nil
  BY NilAssumption DEF IInv, TypeOK, NilAssumption, Idle
<1>1. CASE request'[c] = request[c]
  BY <1>1 DEF Refused
<1>2. CASE request'[c].session = Nil
  BY <1>0, <1>2 DEF Refused
<1>3. ASSUME NEW d \in Clients, Answer(d)
      PROVE  request'[c] = request[c] \/ request'[c].session = Nil
  BY <1>0, <1>3 DEF Answer, Hold
<1>4. ASSUME NEW d \in Clients, Account(d)
      PROVE  Refused(c, s)'
  <2>1. ASSUME NEW r, r.session = Nil, Hold(d, r)
        PROVE  Refused(c, s)'
    BY <1>0, <1>1, <1>2, <2>1 DEF Hold
  <2>2. ASSUME BeginBootstrap(d)
        PROVE  Refused(c, s)'
    <3>1. [Idle EXCEPT !.op = "bootstrap"].session = Nil
      BY DEF Idle
    <3>2. QED  BY <2>1, <2>2, <3>1 DEF BeginBootstrap
  <2>3. ASSUME NEW u \in UserIds, ReadCoordinator(d, u)
        PROVE  Refused(c, s)'
    <3>1. [Idle EXCEPT !.op = "admin"].session = Nil
      BY DEF Idle
    <3>2. QED  BY <2>1, <2>3, <3>1 DEF ReadCoordinator
  <2>4. ASSUME NEW u \in UserIds, ReadTarget(d, u)
        PROVE  Refused(c, s)'
    <3>1. [Idle EXCEPT !.op = "deactivate", !.user = u,
                       !.target = users[u]].session = Nil
      BY DEF Idle
    <3>2. QED  BY <2>1, <2>4, <3>1 DEF ReadTarget
  <2>5. QED
    BY <1>1, <1>2, <1>3, <1>4, <2>2, <2>3, <2>4
    DEF Account, FinishBootstrap, CommitRegister, CommitDeactivate
<1>5. ASSUME NEW d \in Clients,
             \/ ExpireSession(d) \/ CommitLogout(d) \/ End(d)
             \/ \E t \in SessionIds : CommitLogin(d, t)
      PROVE  Refused(c, s)'
  BY <1>1, <1>2, <1>3, <1>5 DEF ExpireSession, CommitLogout, End, CommitLogin
<1>6. ASSUME NEW d \in Clients, NEW u \in UserIds, BeginLogin(d, u)
      PROVE  Refused(c, s)'
  BY <1>0, <1>1, <1>2, <1>6 DEF BeginLogin, Hold, Idle
<1>7. ASSUME NEW d \in Clients, NEW t \in SessionIds, BeginAuthenticate(d, t)
      PROVE  Refused(c, s)'
  <2>1. CASE d # c
    <3>1. request'[c] = request[c]
      BY <1>0, <1>7, <2>1 DEF BeginAuthenticate, Hold
    <3>2. QED  BY <1>1, <3>1
  <2>2. CASE d = c
    <3>1. /\ request'[c].session = t /\ request'[c].op = "authenticate"
          /\ request'[c].barred = Dead(t)
      BY <1>0, <1>7, <2>2 DEF BeginAuthenticate, Hold, Idle
    <3>2. QED  BY <3>1 DEF Refused
  <2>3. QED  BY <2>1, <2>2
<1>8. ASSUME NEW d \in Clients, ReadUser(d)
      PROVE  Refused(c, s)'
  <2>1. CASE d # c
    <3>1. request'[c] = request[c]
      BY <1>0, <1>8, <2>1 DEF ReadUser, Hold
    <3>2. QED  BY <1>1, <3>1
  <2>2. CASE d = c
    <3>1. /\ request'[c].session = request[c].session
          /\ request'[c].op = "touch"
          /\ request'[c].barred = request[c].barred
      <4>1. PICK old \in Request : old = request[c]
        BY <1>0
      <4>2. PICK now :
              Hold(c, [request[c] EXCEPT !.op = "touch", !.now = now])
        BY <1>8, <2>2 DEF ReadUser
      <4>3. request'[c] = [old EXCEPT !.op = "touch", !.now = now]
        BY <1>0, <4>1, <4>2 DEF Hold
      <4>4. QED  BY <4>1, <4>3 DEF Request
    <3>2. ~request'[c].barred
      BY <3>1, LinkedStep DEF BarredTells, Telling
    <3>3. QED  BY <3>1, <3>2 DEF Refused
  <2>3. QED  BY <2>1, <2>2
<1>9. ASSUME NEW d \in Clients, FinishAuthenticate(d) \/ BeginLogout(d)
      PROVE  Refused(c, s)'
  <2>1. CASE d # c
    <3>1. request'[c] = request[c]
      BY <1>0, <1>9, <2>1 DEF FinishAuthenticate, BeginLogout, Hold
    <3>2. QED  BY <1>1, <3>1
  <2>2. CASE d = c
    <3>1. request[c].op \in {"touch", "admitted"}
      BY <1>9, <2>2 DEF FinishAuthenticate, BeginLogout
    <3>2. request[c].session # s
      BY <3>1 DEF Refused
    <3>3. PICK old \in Request : old = request[c]
      BY <1>0
    <3>4. request'[c].session = old.session
      <4>1. CASE FinishAuthenticate(c)
        <5>1. request'[c] = [old EXCEPT !.op = "admitted"]
          BY <1>0, <3>3, <4>1 DEF FinishAuthenticate, Hold
        <5>2. QED  BY <5>1 DEF Request
      <4>2. CASE BeginLogout(c)
        <5>1. request'[c] = [Idle EXCEPT !.op = "logout",
                               !.session = old.session,
                               !.seen = sessions[old.session]]
          BY <1>0, <3>3, <4>2 DEF BeginLogout, Hold
        <5>2. QED  BY <5>1 DEF Idle
      <4>3. QED  BY <1>9, <2>2, <4>1, <4>2
    <3>5. QED  BY <3>2, <3>3, <3>4 DEF Refused
  <2>3. QED  BY <2>1, <2>2
<1>10. CASE UNCHANGED vars \/ Tick
  BY <1>1, <1>10 DEF vars, Tick
<1>11. QED
  BY <1>4, <1>5, <1>6, <1>7, <1>8, <1>9, <1>10 DEF Next, Authentication

\* From the moment a session is revoked, past its end or of an inactive
\* account it is so for ever, and no client that is not in the middle of a
\* request under it comes further with it than the check: not by a login, a
\* touch or a mark of expiry that was under way.
THEOREM DeadSessionsAdmitNobody ==
  ASSUME NEW s \in SessionIds, NEW c \in Clients
  PROVE  Spec => [](/\ sessions[s] # NoSession /\ Dead(s)
                    /\ request[c].session # s
                    => [](/\ Dead(s)
                          /\ request[c].session = s
                               => request[c].op = "authenticate"))
<1>1. IInv /\ [Next]_vars /\ (sessions[s] # NoSession /\ Dead(s))
        => (sessions[s] # NoSession /\ Dead(s))'
  BY DeadStep
<1>2. IInv /\ [Next]_vars /\ (sessions[s] # NoSession /\ Dead(s))
           /\ Refused(c, s)
        => Refused(c, s)'
  BY RefusedStep
<1>3. request[c].session # s => Refused(c, s)
  BY DEF Refused
<1>4. Refused(c, s) /\ request[c].session = s => request[c].op = "authenticate"
  BY DEF Refused
<1>5. QED  BY <1>1, <1>2, <1>3, <1>4, Invariance, PTL DEF Spec

=============================================================================
