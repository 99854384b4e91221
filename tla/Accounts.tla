-------------------------------- MODULE Accounts --------------------------------
(***************************************************************************)
(* Accounts and the sessions that authenticate their requests:             *)
(* internal/service/auth.go over internal/domain/identity and the SQLite   *)
(* store.                                                                  *)
(*                                                                         *)
(* Authenticate is no transaction: it reads the session, later the user,   *)
(* and may then store the session once more by its version.  Logins,       *)
(* logouts and deactivations run in between any two of these steps.        *)
(***************************************************************************)
EXTENDS Integers

CONSTANTS
  UserIds,        \* identities of users rows
  SessionIds,     \* identities of auth_sessions rows
  Emails,         \* addresses of accounts
  AdminEmail,     \* the address every process bootstraps when it starts
  Clients,        \* requests that can be in flight at the same time
  Nil,            \* the empty string
  SessionTTL,     \* AuthService.SessionTTL, in ticks
  TouchInterval,  \* AuthService.TouchInterval, in ticks
  Horizon         \* bound: the clock stops here

ASSUME EmailAssumption == AdminEmail \in Emails

ASSUME NilAssumption == Nil \notin UserIds \cup SessionIds \cup Emails

ASSUME BoundsAssumption ==
  SessionTTL \in Nat \ {0} /\ TouchInterval \in Nat /\ Horizon \in Nat \ {0}

VARIABLES
  clock,      \* the system clock, from 1
  users,      \* users
  sessions,   \* auth_sessions
  request     \* what each client's handler holds

vars == <<clock, users, sessions, request>>

NoTime == 0

-----------------------------------------------------------------------------
(* Rows *)

NoUser == [email |-> Nil, coordinator |-> FALSE, active |-> FALSE, version |-> 0]

User ==
  [email : Emails, coordinator : BOOLEAN, active : BOOLEAN, version : Nat \ {0}]

NoSession ==
  [state |-> "absent", user |-> Nil, expires |-> NoTime, lastSeen |-> NoTime,
   version |-> 0]

Session ==
  [state : {"active", "revoked", "expired"}, user : UserIds, expires : Nat,
   lastSeen : Nat, version : Nat \ {0}]

NewUser(email, coordinator) ==
  [email |-> email, coordinator |-> coordinator, active |-> TRUE, version |-> 1]

CanCoordinate(row) == row.active /\ row.coordinator

Deactivated(row) ==
  IF row.active THEN [row EXCEPT !.active = FALSE, !.version = @ + 1] ELSE row

\* Mutant of NewSession: the owner is not stored.
NewSessionUnowned(u, now) ==
  [NoSession EXCEPT !.state = "active", !.expires = now + SessionTTL,
                    !.lastSeen = now, !.version = 1]

NewSession(u, now) ==
  [state |-> "active", user |-> u, expires |-> now + SessionTTL,
   lastSeen |-> now, version |-> 1]

\* Session.Validate: the version stays.
Expired(row) == [row EXCEPT !.state = "expired"]

\* Mutant of Touched: the version stays.
TouchedUnversioned(row, now) == [row EXCEPT !.lastSeen = now]

Touched(row, now) == [row EXCEPT !.lastSeen = now, !.version = @ + 1]

\* Mutant of Revoked: the version stays.
RevokedUnversioned(row) == [row EXCEPT !.state = "revoked"]

Revoked(row) == [row EXCEPT !.state = "revoked", !.version = @ + 1]

-----------------------------------------------------------------------------
(* Requests in flight *)

Op == {"idle", "bootstrap", "admin", "deactivate", "login", "authenticate",
       "touch", "admitted", "logout"}

\* now is no later than what Clock.Now() returns, and from "touch" on what it
\* returned; seen and target are rows as they were read; barred is a history
\* variable: the session was dead when the authentication began.
Request ==
  [op : Op, session : SessionIds \cup {Nil}, user : UserIds \cup {Nil},
   now : Nat, seen : Session \cup {NoSession}, target : User \cup {NoUser},
   barred : BOOLEAN]

Idle ==
  [op |-> "idle", session |-> Nil, user |-> Nil, now |-> NoTime,
   seen |-> NoSession, target |-> NoUser, barred |-> FALSE]

Init ==
  /\ clock = 1
  /\ users = [u \in UserIds |-> NoUser]
  /\ sessions = [s \in SessionIds |-> NoSession]
  /\ request = [c \in Clients |-> Idle]

Tick ==
  /\ clock < Horizon
  /\ clock' = clock + 1
  /\ UNCHANGED <<users, sessions, request>>

Hold(c, r) == request' = [request EXCEPT ![c] = r]
Answer(c) == Hold(c, Idle)

-----------------------------------------------------------------------------
(* Accounts *)

\* PRIMARY KEY (id), UNIQUE (tenant_id, email)
Available(u, email) ==
  /\ users[u] = NoUser
  /\ \A v \in UserIds : users[v].email # email

InsertUser(u, email, coordinator) ==
  users' = [users EXCEPT ![u] = NewUser(email, coordinator)]

\* Each process looks for the coordinator's account when it starts.
BeginBootstrap(c) ==
  /\ request[c].op = "idle"
  /\ \A u \in UserIds : users[u].email # AdminEmail
  /\ Hold(c, [Idle EXCEPT !.op = "bootstrap"])
  /\ UNCHANGED <<clock, users, sessions>>

\* On a conflict the account another process has inserted is the answer.
FinishBootstrap(c, u) ==
  /\ request[c].op = "bootstrap"
  /\ IF Available(u, AdminEmail)
     THEN InsertUser(u, AdminEmail, TRUE)
     ELSE UNCHANGED users
  /\ Answer(c)
  /\ UNCHANGED <<clock, sessions>>

\* Register and DeactivateUser first read the acting coordinator.
ReadCoordinator(c, actor) ==
  /\ request[c].op = "idle"
  /\ CanCoordinate(users[actor])
  /\ Hold(c, [Idle EXCEPT !.op = "admin"])
  /\ UNCHANGED <<clock, users, sessions>>

CommitRegister(c, u, email, coordinator) ==
  /\ request[c].op = "admin"
  /\ Available(u, email)
  /\ InsertUser(u, email, coordinator)
  /\ Answer(c)
  /\ UNCHANGED <<clock, sessions>>

ReadTarget(c, u) ==
  /\ request[c].op = "admin"
  /\ users[u] # NoUser
  /\ Hold(c, [Idle EXCEPT !.op = "deactivate", !.user = u,
                          !.target = users[u]])
  /\ UNCHANGED <<clock, users, sessions>>

RevokeSessionsForUser(u) ==
  sessions' = [s \in SessionIds |->
                 IF sessions[s].user = u /\ sessions[s].state = "active"
                 THEN Revoked(sessions[s]) ELSE sessions[s]]

CommitDeactivate(c) ==
  LET r == request[c] IN
  /\ r.op = "deactivate"
  /\ users[r.user].version = r.target.version
  /\ users' = [users EXCEPT ![r.user] = Deactivated(r.target)]
  /\ RevokeSessionsForUser(r.user)
  /\ Answer(c)
  /\ UNCHANGED clock

-----------------------------------------------------------------------------
(* Sessions *)

\* The right password was sent; the account is looked at before the time it
\* takes to compare the password.
BeginLogin(c, u) ==
  /\ request[c].op = "idle"
  /\ users[u].active
  /\ Hold(c, [Idle EXCEPT !.op = "login", !.user = u, !.now = clock])
  /\ UNCHANGED <<clock, users, sessions>>

\* Nobody looks at the account again; tokens and identities are fresh.
CommitLogin(c, s) ==
  LET r == request[c] IN
  /\ r.op = "login"
  /\ sessions[s] = NoSession
  /\ \E now \in r.now .. clock :
       sessions' = [sessions EXCEPT ![s] = NewSession(r.user, now)]
  /\ Answer(c)
  /\ UNCHANGED <<clock, users>>

\* Revoked, past its end, or of an account that is not active.
Dead(s) ==
  \/ sessions[s].state = "revoked"
  \/ sessions[s].expires <= clock
  \/ ~users[sessions[s].user].active

BeginAuthenticate(c, s) ==
  /\ request[c].op = "idle"
  /\ sessions[s] # NoSession
  /\ Hold(c, [Idle EXCEPT !.op = "authenticate", !.session = s, !.now = clock,
                          !.seen = sessions[s], !.barred = Dead(s)])
  /\ UNCHANGED <<clock, users, sessions>>

\* Mutant of UpdateSession: UPDATE without the version.
UpdateAlways(s, row, expected) == sessions' = [sessions EXCEPT ![s] = row]

\* A lost update is no error to Authenticate.
UpdateSession(s, row, expected) ==
  IF sessions[s].version = expected
  THEN sessions' = [sessions EXCEPT ![s] = row]
  ELSE UNCHANGED sessions

\* Refused, and marked as expired.
ExpireSession(c) ==
  LET r == request[c] IN
  /\ r.op = "authenticate"
  /\ \/ r.seen.state = "expired"
     \/ r.seen.state = "active" /\ r.seen.expires <= clock
  /\ UpdateSession(r.session, Expired(r.seen), r.seen.version)
  /\ Answer(c)
  /\ UNCHANGED <<clock, users>>

\* Mutant of ReadUser: the account is not looked at.
ReadUserInactive(c) ==
  LET r == request[c] IN
  /\ r.op = "authenticate"
  /\ r.seen.state = "active"
  /\ \E now \in r.now .. clock :
       /\ now < r.seen.expires
       /\ Hold(c, [r EXCEPT !.op = "touch", !.now = now])
  /\ UNCHANGED <<clock, users, sessions>>

ReadUser(c) ==
  LET r == request[c] IN
  /\ r.op = "authenticate"
  /\ r.seen.state = "active"
  /\ users[r.seen.user].active
  /\ \E now \in r.now .. clock :
       /\ now < r.seen.expires
       /\ Hold(c, [r EXCEPT !.op = "touch", !.now = now])
  /\ UNCHANGED <<clock, users, sessions>>

\* The handler behind the middleware runs next.
FinishAuthenticate(c) ==
  LET r == request[c] IN
  /\ r.op = "touch"
  /\ IF r.now - r.seen.lastSeen >= TouchInterval
     THEN UpdateSession(r.session, Touched(r.seen, r.now), r.seen.version)
     ELSE UNCHANGED sessions
  /\ Hold(c, [r EXCEPT !.op = "admitted"])
  /\ UNCHANGED <<clock, users>>

\* An expired session is not revoked.
BeginLogout(c) ==
  LET s == request[c].session IN
  /\ request[c].op = "admitted"
  /\ sessions[s].user = request[c].seen.user
  /\ sessions[s].state # "expired"
  /\ Hold(c, [Idle EXCEPT !.op = "logout", !.session = s,
                          !.seen = sessions[s]])
  /\ UNCHANGED <<clock, users, sessions>>

CommitLogout(c) ==
  LET r == request[c] IN
  /\ r.op = "logout"
  /\ sessions[r.session].version = r.seen.version
  /\ sessions' = [sessions EXCEPT ![r.session] =
                    IF r.seen.state = "revoked" THEN r.seen
                    ELSE Revoked(r.seen)]
  /\ Answer(c)
  /\ UNCHANGED <<clock, users>>

\* The handler is done, refused, rolled back, or its process went away.
End(c) ==
  /\ request[c].op # "idle"
  /\ Answer(c)
  /\ UNCHANGED <<clock, users, sessions>>

-----------------------------------------------------------------------------
Account(c) ==
  \/ BeginBootstrap(c)
  \/ CommitDeactivate(c)
  \/ \E u \in UserIds :
       \/ FinishBootstrap(c, u)
       \/ ReadCoordinator(c, u)
       \/ ReadTarget(c, u)
       \/ \E email \in Emails, coordinator \in BOOLEAN :
            CommitRegister(c, u, email, coordinator)

Authentication(c) ==
  \/ \E u \in UserIds : BeginLogin(c, u)
  \/ \E s \in SessionIds : CommitLogin(c, s) \/ BeginAuthenticate(c, s)
  \/ ExpireSession(c)
  \/ ReadUser(c)
  \/ FinishAuthenticate(c)
  \/ BeginLogout(c)
  \/ CommitLogout(c)

Next ==
  \/ Tick
  \/ \E c \in Clients : Account(c) \/ Authentication(c) \/ End(c)

Spec == Init /\ [][Next]_vars

-----------------------------------------------------------------------------
(* Correctness *)

\* Every variable holds rows and requests of the shapes above; a stored
\* session names its account.
TypeOK ==
  /\ clock \in 1 .. Horizon
  /\ users \in [UserIds -> User \cup {NoUser}]
  /\ sessions \in [SessionIds -> Session \cup {NoSession}]
  /\ request \in [Clients -> Request]

\* The row a request holds is at most as new as the stored one, and with the
\* same version it is the stored one, but for the mark of expiry, which is
\* stored without a new version.
SeenFresh ==
  \A c \in Clients :
    LET r == request[c]
        row == sessions[r.session]
    IN
    r.session # Nil =>
      /\ r.seen.version <= row.version
      /\ r.seen.version = row.version =>
           \/ row = r.seen
           \/ r.seen.state = "active" /\ row = Expired(r.seen)

\* README: "account deactivation and revocation are persistent".  A touch or
\* an expiry prepared before a logout or a deactivation does not bring the
\* session back.
RevokedIsFinal ==
  [][\A s \in SessionIds :
       sessions[s].state = "revoked" => sessions'[s] = sessions[s]]_vars

\* No request is admitted that began when its session was dead: not by the
\* session a login stored after the account was deactivated, nor by an
\* expired one that a late touch has marked active again.
DeadNotAdmitted ==
  \A c \in Clients : request[c].op = "admitted" => ~request[c].barred

\* README: "last-seen throttling".  The last-seen time of a session moves
\* ahead by at least the interval or not at all, also when two requests of
\* one session touch it at once.
LastSeenThrottled ==
  [][\A s \in SessionIds :
       sessions[s] # NoSession =>
         \/ sessions'[s].lastSeen = sessions[s].lastSeen
         \/ sessions'[s].lastSeen >= sessions[s].lastSeen + TouchInterval]_vars

=============================================================================
