-------------------------------- MODULE Outbox --------------------------------
(***************************************************************************)
(* The transactional outbox and its worker: internal/worker/outbox.go over *)
(* ClaimOutbox, CompleteOutbox and FailOutbox in internal/storage/sqlite/  *)
(* audit_outbox.go.                                                        *)
(*                                                                         *)
(* Business transactions insert events.  A worker claims one due event,    *)
(* dispatches it to its handler and settles it; each step reads the clock  *)
(* first, runs one statement or transaction later, and may be the last one *)
(* its process ever takes.                                                 *)
(***************************************************************************)
EXTENDS PersistedTime

CONSTANTS
  EventIds,      \* identities of outbox_events rows
  Workers,       \* outbox tasks: one per running process
  Nil,           \* the empty string
  LeaseTTL,      \* Outbox.LeaseTTL, in ticks
  MaxAttempts,   \* Outbox.MaxAttempts
  Horizon        \* bound: the clock stops here

ASSUME NilAssumption == Nil \notin EventIds \cup Workers

ASSUME BoundsAssumption ==
  LeaseTTL \in Nat \ {0} /\ MaxAttempts \in Nat \ {0} /\ Horizon \in Nat \ {0}

VARIABLES
  clock,      \* the system clock, from 1
  events,     \* outbox_events; unused identities are absent
  handled,    \* history: how often an event's handler succeeded
  failure,    \* history: the attempt of an event that last failed, and when
  worker      \* where each task is in Run

vars == <<clock, events, handled, failure, worker>>

NoTime == 0

Event ==
  [state : {"absent", "pending", "leased", "retry_wait", "delivered",
            "permanent_failed"},
   attempt : Nat, nextTry : Nat, owner : Workers \cup {Nil}, token : Nat,
   until : Nat, created : Nat]

NoEvent ==
  [state |-> "absent", attempt |-> 0, nextTry |-> NoTime, owner |-> Nil,
   token |-> 0, until |-> NoTime, created |-> NoTime]

\* now is the time read before the next statement; next the computed retry.
WorkerState ==
  [phase : {"idle", "claiming", "dispatching", "completing", "failing"},
   now : Nat, event : EventIds \cup {Nil}, token : Nat, attempt : Nat,
   next : Nat]

Resting ==
  [phase |-> "idle", now |-> NoTime, event |-> Nil, token |-> 0,
   attempt |-> 0, next |-> NoTime]

Init ==
  /\ clock = 1
  /\ events = [e \in EventIds |-> NoEvent]
  /\ handled = [e \in EventIds |-> 0]
  /\ failure = [e \in EventIds |-> [attempt |-> 0, at |-> NoTime]]
  /\ worker = [w \in Workers |-> Resting]

Tick ==
  /\ clock < Horizon
  /\ clock' = clock + 1
  /\ UNCHANGED <<events, handled, failure, worker>>

WriteEvent(e, row) == events' = [events EXCEPT ![e] = row]
Become(w, state) == worker' = [worker EXCEPT ![w] = state]

\* A business transaction that announces something commits.
InsertOutbox(e) ==
  /\ events[e].state = "absent"
  /\ WriteEvent(e, [NoEvent EXCEPT !.state = "pending", !.nextTry = clock,
                                   !.created = clock])
  /\ UNCHANGED <<clock, handled, failure, worker>>

-----------------------------------------------------------------------------
(* Outbox.Run *)

BeginRun(w) ==
  /\ worker[w].phase = "idle"
  /\ Become(w, [Resting EXCEPT !.phase = "claiming", !.now = clock])
  /\ UNCHANGED <<clock, events, handled, failure>>

\* Mutant of Claimable: an expired lease is taken over without more ado.
ClaimableOrExpired(now) ==
  {e \in EventIds :
     /\ events[e].state \in {"pending", "retry_wait", "leased"}
     /\ TextKey(events[e].nextTry) <= TextKey(now)
     /\ events[e].until = NoTime \/ TextKey(events[e].until) <= TextKey(now)}

\* Mutant of Claimable: retries are forgotten.
ClaimablePending(now) ==
  {e \in EventIds :
     /\ events[e].state = "pending"
     /\ TextKey(events[e].nextTry) <= TextKey(now)}

Claimable(now) ==
  {e \in EventIds :
     /\ events[e].state \in {"pending", "retry_wait"}
     /\ TextKey(events[e].nextTry) <= TextKey(now)
     /\ events[e].until = NoTime \/ TextKey(events[e].until) <= TextKey(now)}

\* ORDER BY created_at, id LIMIT 1: the oldest, in no particular order among
\* events of the same moment.
Oldest(ids) ==
  {e \in ids : \A f \in ids :
     TextKey(events[e].created) <= TextKey(events[f].created)}

\* Mutant of ClaimOutbox: the fencing token stays.
ClaimUnfenced(w, e) ==
  LET row == events[e]
      now == worker[w].now
  IN
  /\ worker[w].phase = "claiming"
  /\ e \in Oldest(Claimable(now))
  /\ WriteEvent(e, [row EXCEPT !.state = "leased", !.owner = w,
                               !.until = now + LeaseTTL, !.attempt = @ + 1])
  /\ Become(w, [worker[w] EXCEPT !.phase = "dispatching", !.event = e,
                                 !.token = row.token,
                                 !.attempt = row.attempt + 1])
  /\ UNCHANGED <<clock, handled, failure>>

ClaimOutbox(w, e) ==
  LET row == events[e]
      now == worker[w].now
  IN
  /\ worker[w].phase = "claiming"
  /\ e \in Oldest(Claimable(now))
  /\ WriteEvent(e, [row EXCEPT !.state = "leased", !.owner = w,
                               !.token = @ + 1, !.until = now + LeaseTTL,
                               !.attempt = @ + 1])
  /\ Become(w, [worker[w] EXCEPT !.phase = "dispatching", !.event = e,
                                 !.token = row.token + 1,
                                 !.attempt = row.attempt + 1])
  /\ UNCHANGED <<clock, handled, failure>>

NothingDue(w) ==
  /\ worker[w].phase = "claiming"
  /\ Claimable(worker[w].now) = {}
  /\ Become(w, Resting)
  /\ UNCHANGED <<clock, events, handled, failure>>

\* backoff(attempt), in ticks.
Backoff(attempt) ==
  LET n == IF attempt < 1 THEN 1 ELSE IF attempt > 8 THEN 8 ELSE attempt
  IN TicksPerSecond * 2 ^ (n - 1)

DispatchSucceeds(w) ==
  LET e == worker[w].event IN
  /\ worker[w].phase = "dispatching"
  /\ handled' = [handled EXCEPT ![e] = @ + 1]
  /\ Become(w, [worker[w] EXCEPT !.phase = "completing", !.now = clock])
  /\ UNCHANGED <<clock, events, failure>>

\* The handler of the event in w's hands fails now.
NoteFailure(w) ==
  failure' = [failure EXCEPT ![worker[w].event] =
                [attempt |-> worker[w].attempt, at |-> clock]]

\* Mutant of DispatchFails: the back-off goes the wrong way.
DispatchFailsBack(w) ==
  /\ worker[w].phase = "dispatching"
  /\ Become(w, [worker[w] EXCEPT
                  !.phase = "failing", !.now = clock,
                  !.next = clock - Backoff(worker[w].attempt) - 1])
  /\ NoteFailure(w)
  /\ UNCHANGED <<clock, events, handled>>

\* Mutant of DispatchFails: the back-off counts from the clock read before the
\* claim, not from the failure.
DispatchFailsStale(w) ==
  /\ worker[w].phase = "dispatching"
  /\ Become(w, [worker[w] EXCEPT
                  !.phase = "failing", !.now = clock,
                  !.next = worker[w].now + Backoff(worker[w].attempt)])
  /\ NoteFailure(w)
  /\ UNCHANGED <<clock, events, handled>>

DispatchFails(w) ==
  /\ worker[w].phase = "dispatching"
  /\ Become(w, [worker[w] EXCEPT
                  !.phase = "failing", !.now = clock,
                  !.next = clock + Backoff(worker[w].attempt)])
  /\ NoteFailure(w)
  /\ UNCHANGED <<clock, events, handled>>

\* UPDATE ... WHERE state='leased' AND lease_owner=? AND lease_token=?
Owns(w) ==
  LET row == events[worker[w].event] IN
  /\ row.state = "leased"
  /\ row.owner = w
  /\ row.token = worker[w].token

\* Mutant of CompleteOutbox: the end of the lease is not looked at.
CompleteLate(w) ==
  LET e == worker[w].event IN
  /\ worker[w].phase = "completing"
  /\ IF Owns(w)
     THEN WriteEvent(e, [events[e] EXCEPT !.state = "delivered",
                                          !.owner = Nil, !.until = NoTime])
     ELSE UNCHANGED events
  /\ Become(w, Resting)
  /\ UNCHANGED <<clock, handled, failure>>

CompleteOutbox(w) ==
  LET e == worker[w].event IN
  /\ worker[w].phase = "completing"
  /\ IF Owns(w) /\ TextKey(events[e].until) > TextKey(worker[w].now)
     THEN WriteEvent(e, [events[e] EXCEPT !.state = "delivered",
                                          !.owner = Nil, !.until = NoTime])
     ELSE UNCHANGED events                   \* version_conflict
  /\ Become(w, Resting)
  /\ UNCHANGED <<clock, handled, failure>>

\* Mutant of FailOutbox: one attempt too many.
FailOutboxLater(w) ==
  LET e == worker[w].event
      state == IF events[e].attempt > MaxAttempts
               THEN "permanent_failed" ELSE "retry_wait"
  IN
  /\ worker[w].phase = "failing"
  /\ IF Owns(w)
     THEN WriteEvent(e, [events[e] EXCEPT !.state = state, !.owner = Nil,
                                          !.until = NoTime,
                                          !.nextTry = worker[w].next])
     ELSE UNCHANGED events
  /\ Become(w, Resting)
  /\ UNCHANGED <<clock, handled, failure>>

FailOutbox(w) ==
  LET e == worker[w].event
      state == IF events[e].attempt >= MaxAttempts
               THEN "permanent_failed" ELSE "retry_wait"
  IN
  /\ worker[w].phase = "failing"
  /\ IF Owns(w)
     THEN WriteEvent(e, [events[e] EXCEPT !.state = state, !.owner = Nil,
                                          !.until = NoTime,
                                          !.nextTry = worker[w].next])
     ELSE UNCHANGED events                   \* record_not_found
  /\ Become(w, Resting)
  /\ UNCHANGED <<clock, handled, failure>>

\* The process stops, its context is cancelled, or its statement fails.  A
\* restarted process is a worker that holds nothing.
Stop(w) ==
  /\ worker[w].phase # "idle"
  /\ Become(w, Resting)
  /\ UNCHANGED <<clock, events, handled, failure>>

-----------------------------------------------------------------------------
Run(w) ==
  \/ BeginRun(w)
  \/ \E e \in EventIds : ClaimOutbox(w, e)
  \/ NothingDue(w)
  \/ DispatchSucceeds(w)
  \/ DispatchFails(w)
  \/ CompleteOutbox(w)
  \/ FailOutbox(w)

Next ==
  \/ Tick
  \/ \E e \in EventIds : InsertOutbox(e)
  \/ \E w \in Workers : Run(w) \/ Stop(w)

Spec == Init /\ [][Next]_vars

\* The runtime calls the task again and again, handlers return, statements
\* that may run do run, and a run is not always stopped before it claims.
Fairness ==
  /\ WF_vars(Tick)
  /\ \A w \in Workers :
       WF_vars(Run(w)) /\ SF_vars(\E e \in EventIds : ClaimOutbox(w, e))

FairSpec == Spec /\ Fairness

-----------------------------------------------------------------------------
(* Correctness *)

\* Every variable holds rows, counts and worker states of the shapes above.
TypeOK ==
  /\ clock \in 1 .. Horizon
  /\ events \in [EventIds -> Event]
  /\ handled \in [EventIds -> Nat]
  /\ failure \in [EventIds -> [attempt : Nat, at : Nat]]
  /\ worker \in [Workers -> WorkerState]

Busy(w) == worker[w].phase \in {"dispatching", "completing", "failing"}

\* No event is in the hands of two workers, not even of one whose lease is
\* over and one that claimed it later.
OneDispatcher ==
  \A w, x \in Workers :
    w # x /\ Busy(w) /\ Busy(x) => worker[w].event # worker[x].event

\* An event's handler succeeds at most once; it has succeeded exactly when the
\* event is delivered or still leased after the success, so that no retry and
\* no permanent failure follows a success.
HandledOnce ==
  \A e \in EventIds :
    /\ handled[e] <= 1
    /\ events[e].state = "delivered" => handled[e] = 1
    /\ events[e].state \in {"absent", "pending", "retry_wait",
                            "permanent_failed"} => handled[e] = 0

\* README: "a bounded retry schedule".  An event is given up only after
\* MaxAttempts attempts, and is never attempted more often.
RetriesBounded ==
  \A e \in EventIds :
    /\ events[e].attempt <= MaxAttempts
    /\ events[e].state = "permanent_failed" => events[e].attempt = MaxAttempts

\* README: "Completion is accepted only from the current unexpired owner", by
\* the time the owner read before it sent the completion.
CompletionUnexpired ==
  [][\A e \in EventIds :
       events[e].state = "leased" /\ events'[e].state = "delivered" =>
         \E w \in Workers :
           /\ events[e].owner = w
           /\ worker[w].event = e
           /\ worker[w].token = events[e].token
           /\ worker[w].now < events[e].until]_vars

\* README: "Failures persist the error and a bounded retry schedule".  An event
\* is attempted again only when its handler failed at the last attempt, and not
\* before the back-off of that attempt has passed since the failure.
RetryWaits ==
  [][\A e \in EventIds :
       events[e].attempt > 0 /\ events'[e].attempt # events[e].attempt =>
         /\ failure[e].attempt = events[e].attempt
         /\ failure[e].at + Backoff(events[e].attempt) <= clock]_vars

LeaseOf(e) ==
  [holder |-> events[e].owner, token |-> events[e].token,
   until |-> events[e].until,
   settled |-> events[e].state \in {"delivered", "permanent_failed"}]

Ownership ==
  INSTANCE FencedLease WITH
    Resources <- EventIds, Owners <- Workers, Nobody <- Nil,
    Deadlines <- 1 .. Horizon + LeaseTTL,
    lease <- [e \in EventIds |-> LeaseOf(e)]

\* Events implement the fenced lease (README: "a lease owner, monotonically
\* increasing fencing token, and expiry").
EventIsLeased == Ownership!LeaseSpec

\* An event that is due is attempted: older events that keep failing do not
\* starve it, nor do workers that stop.
DueIsClaimed ==
  \A e \in EventIds :
    /\ events[e].state \in {"pending", "retry_wait"}
    /\ events[e].nextTry <= clock
    ~> events[e].state = "leased"

\* README: "Process restart recovers queued, retryable, or expired work from
\* SQLite": an event whose lease is over does not stay so.
Expired(e) == events[e].state = "leased" /\ events[e].until <= clock

ExpiredIsRecovered == \A e \in EventIds : Expired(e) ~> ~Expired(e)

=============================================================================
