----------------------------- MODULE OutboxProofs -----------------------------
(***************************************************************************)
(* Proofs about Outbox, for every set of events and workers, every lease   *)
(* and every limit of attempts.                                            *)
(***************************************************************************)
EXTENDS Outbox, PersistedTimeProofs, TLAPS

-----------------------------------------------------------------------------
(* The invariant *)

\* The time of a retry is the back-off of the last attempt, counted from the
\* failure of that attempt.
DueAfterFailure(e, next) ==
  /\ failure[e].attempt = events[e].attempt
  /\ next = failure[e].at + Backoff(events[e].attempt)

\* A worker that has claimed an event is its owner until it settles it: no
\* other worker claims a leased event, and only the owner ends a lease.
HoldsEvent(w) ==
  LET e == worker[w].event IN
  Busy(w) =>
    /\ e \in EventIds
    /\ events[e].state = "leased"
    /\ events[e].owner = w
    /\ events[e].token = worker[w].token
    /\ events[e].attempt = worker[w].attempt
    /\ handled[e] = IF worker[w].phase = "completing" THEN 1 ELSE 0
    /\ worker[w].phase = "failing" => DueAfterFailure(e, worker[w].next)

\* What a worker has read of the clock is not in the future.
Timely(w) == worker[w].phase # "idle" => worker[w].now \in 1 .. clock

\* The columns of an event agree with its state and with the successes and
\* failures of its handler.
Consistent(e) ==
  LET row == events[e] IN
  /\ row.state = "leased" =>
       /\ row.owner \in Workers
       /\ row.until \in 1 .. Horizon + LeaseTTL
       /\ row.attempt \in 1 .. MaxAttempts
  /\ row.state # "leased" => row.owner = Nil /\ row.until = NoTime
  /\ row.state = "absent" => row.token = 0
  /\ row.state \in {"absent", "pending"} => row.attempt = 0
  /\ row.state = "retry_wait" =>
       /\ row.attempt \in 1 .. MaxAttempts - 1
       /\ DueAfterFailure(e, row.nextTry)
  /\ row.state = "permanent_failed" => row.attempt = MaxAttempts
  /\ row.state = "delivered" => row.attempt \in 1 .. MaxAttempts
  /\ handled[e] <= 1
  /\ row.state = "delivered" => handled[e] = 1
  /\ row.state \in {"absent", "pending", "retry_wait", "permanent_failed"} =>
       handled[e] = 0

IInv ==
  /\ TypeOK
  /\ \A w \in Workers : HoldsEvent(w) /\ Timely(w)
  /\ \A e \in EventIds : Consistent(e)

-----------------------------------------------------------------------------
(* Preliminaries *)

\* Back-off is a number of ticks.
LEMMA BackoffType ==
  ASSUME NEW attempt \in Nat
  PROVE  Backoff(attempt) \in Nat
<1> DEFINE n == IF attempt < 1 THEN 1 ELSE IF attempt > 8 THEN 8 ELSE attempt
           k == n - 1
<1>1. k \in 0 .. 7
  OBVIOUS
<1>2. 2 ^ k \in Nat
  <2>1. CASE k = 0
    <3>1. 2 ^ 0 \in Nat  OBVIOUS
    <3>2. QED  BY <2>1, <3>1, Zenon
  <2>2. CASE k = 1
    <3>1. 2 ^ 1 \in Nat  OBVIOUS
    <3>2. QED  BY <2>2, <3>1, Zenon
  <2>3. CASE k = 2
    <3>1. 2 ^ 2 \in Nat  OBVIOUS
    <3>2. QED  BY <2>3, <3>1, Zenon
  <2>4. CASE k = 3
    <3>1. 2 ^ 3 \in Nat  OBVIOUS
    <3>2. QED  BY <2>4, <3>1, Zenon
  <2>5. CASE k = 4
    <3>1. 2 ^ 4 \in Nat  OBVIOUS
    <3>2. QED  BY <2>5, <3>1, Zenon
  <2>6. CASE k = 5
    <3>1. 2 ^ 5 \in Nat  OBVIOUS
    <3>2. QED  BY <2>6, <3>1, Zenon
  <2>7. CASE k = 6
    <3>1. 2 ^ 6 \in Nat  OBVIOUS
    <3>2. QED  BY <2>7, <3>1, Zenon
  <2>8. CASE k = 7
    <3>1. 2 ^ 7 \in Nat  OBVIOUS
    <3>2. QED  BY <2>8, <3>1, Zenon
  <2> HIDE DEF k
  <2>9. k \in {0, 1, 2, 3, 4, 5, 6, 7}
    BY <1>1
  <2>10. QED
    BY <2>1, <2>2, <2>3, <2>4, <2>5, <2>6, <2>7, <2>8, <2>9
<1>3. TicksPerSecond \in Nat
  BY ResolutionAssumption DEF ResolutionAssumption
<1>4. Backoff(attempt) = TicksPerSecond * 2 ^ k
  BY DEF Backoff
<1> HIDE DEF k
<1>5. PICK p \in Nat : p = 2 ^ k
  BY <1>2
<1>6. QED  BY <1>3, <1>4, <1>5

\* A step that touches one worker and one event keeps the invariant when both
\* agree afterwards and no other worker holds that event.
LEMMA OneWorkerOneEvent ==
  ASSUME IInv, NEW w \in Workers, NEW e \in EventIds,
         TypeOK', UNCHANGED clock,
         \A f \in EventIds \ {e} : /\ events'[f] = events[f]
                                   /\ handled'[f] = handled[f]
                                   /\ failure'[f] = failure[f],
         \A x \in Workers \ {w} :
           worker'[x] = worker[x] /\ (Busy(x) => worker[x].event # e),
         HoldsEvent(w)', Timely(w)', Consistent(e)'
  PROVE  IInv'
<1>1. ASSUME NEW x \in Workers \ {w}
      PROVE  HoldsEvent(x)' /\ Timely(x)'
  BY <1>1 DEF IInv, HoldsEvent, Timely, Busy, DueAfterFailure
<1>2. ASSUME NEW f \in EventIds \ {e}
      PROVE  Consistent(f)'
  BY <1>2 DEF IInv, Consistent, DueAfterFailure
<1>3. QED  BY <1>1, <1>2 DEF IInv

\* A worker that moves while the table stays as it is.
LEMMA WorkerAlone ==
  ASSUME IInv, NEW w \in Workers, NEW state \in WorkerState,
         Become(w, state), UNCHANGED <<clock, events, handled, failure>>,
         HoldsEvent(w)', Timely(w)'
  PROVE  IInv'
<1>1. TypeOK'
  BY DEF IInv, TypeOK, Become
<1>2. ASSUME NEW x \in Workers \ {w}
      PROVE  HoldsEvent(x)' /\ Timely(x)'
  <2>1. worker'[x] = worker[x]
    BY DEF IInv, TypeOK, Become
  <2>2. QED  BY <2>1 DEF IInv, HoldsEvent, Timely, Busy, DueAfterFailure
<1>3. ASSUME NEW f \in EventIds
      PROVE  Consistent(f)'
  BY DEF IInv, Consistent, DueAfterFailure
<1>4. QED  BY <1>1, <1>2, <1>3 DEF IInv

\* A resting worker holds nothing.
LEMMA RestingWorker == Resting \in WorkerState /\ Resting.phase = "idle"
  BY DEF Resting, WorkerState, NoTime

\* A worker may rest at any time.
LEMMA RestingStep ==
  ASSUME IInv, NEW w \in Workers, Become(w, Resting),
         UNCHANGED <<clock, events, handled, failure>>
  PROVE  IInv'
<1>1. worker'[w].phase = "idle"
  BY RestingWorker DEF IInv, TypeOK, Become
<1>2. HoldsEvent(w)' /\ Timely(w)'
  BY <1>1 DEF HoldsEvent, Timely, Busy
<1>3. QED  BY <1>2, RestingWorker, WorkerAlone

-----------------------------------------------------------------------------
(* Each action *)

\* Nothing is stored at the start.
LEMMA InitEstablishes == Init => IInv
<1> SUFFICES ASSUME Init  PROVE IInv
  OBVIOUS
<1>1. TypeOK
  BY BoundsAssumption
  DEF Init, TypeOK, BoundsAssumption, NoEvent, Event, Resting, WorkerState,
      NoTime
<1>2. ASSUME NEW w \in Workers  PROVE HoldsEvent(w) /\ Timely(w)
  BY RestingWorker DEF Init, HoldsEvent, Timely, Busy
<1>3. ASSUME NEW e \in EventIds  PROVE Consistent(e)
  BY DEF Init, Consistent, NoEvent, NoTime
<1>4. QED  BY <1>1, <1>2, <1>3 DEF IInv

\* Time passes.
LEMMA TickStep ==
  ASSUME IInv, Tick
  PROVE  IInv'
<1>1. clock \in Nat /\ clock' \in Nat /\ clock <= clock' /\ TypeOK'
  BY BoundsAssumption DEF IInv, TypeOK, Tick, BoundsAssumption
<1>2. ASSUME NEW w \in Workers  PROVE HoldsEvent(w)' /\ Timely(w)'
  BY <1>1 DEF IInv, HoldsEvent, Timely, Busy, DueAfterFailure, Tick
<1>3. ASSUME NEW e \in EventIds  PROVE Consistent(e)'
  BY DEF IInv, Consistent, DueAfterFailure, Tick
<1>4. QED  BY <1>1, <1>2, <1>3 DEF IInv

\* A new event.
LEMMA InsertStep ==
  ASSUME IInv, NEW e \in EventIds, InsertOutbox(e)
  PROVE  IInv'
<1> DEFINE row == [NoEvent EXCEPT !.state = "pending", !.nextTry = clock,
                                  !.created = clock]
<1>1. clock \in Nat
  BY DEF IInv, TypeOK
<1>2. /\ row \in Event /\ row.state = "pending" /\ row.owner = Nil
      /\ row.until = NoTime /\ row.attempt = 0
  BY <1>1 DEF NoEvent, Event, NoTime
<1>3. events' = [events EXCEPT ![e] = row]
  BY DEF InsertOutbox, WriteEvent
<1> HIDE DEF row
<1>4. /\ events[e].state = "absent" /\ UNCHANGED <<clock, handled, failure, worker>>
  BY DEF InsertOutbox
<1>5. TypeOK'
  BY <1>2, <1>3, <1>4 DEF IInv, TypeOK
<1>6. ASSUME NEW w \in Workers  PROVE HoldsEvent(w)' /\ Timely(w)'
  BY <1>3, <1>4 DEF IInv, TypeOK, HoldsEvent, Timely, Busy, DueAfterFailure
<1>7. ASSUME NEW f \in EventIds  PROVE Consistent(f)'
  <2>1. CASE f = e
    BY <1>1, <1>2, <1>3, <1>4, <2>1 DEF IInv, TypeOK, Consistent
  <2>2. CASE f # e
    BY <1>3, <1>4, <2>2 DEF IInv, TypeOK, Consistent, DueAfterFailure
  <2>3. QED  BY <2>1, <2>2
<1>8. QED  BY <1>5, <1>6, <1>7 DEF IInv

\* Reading the clock at the start of a run.
LEMMA BeginStep ==
  ASSUME IInv, NEW w \in Workers, BeginRun(w)
  PROVE  IInv'
<1> DEFINE state == [Resting EXCEPT !.phase = "claiming", !.now = clock]
<1>1. clock \in Nat /\ clock \in 1 .. clock
  BY DEF IInv, TypeOK
<1>2. state \in WorkerState /\ state.phase = "claiming" /\ state.now = clock
  BY <1>1 DEF Resting, WorkerState, NoTime
<1>3. Become(w, state) /\ UNCHANGED <<clock, events, handled, failure>>
  BY DEF BeginRun
<1> HIDE DEF state
<1>4. worker'[w] = state
  BY <1>3 DEF IInv, TypeOK, Become
<1>5. HoldsEvent(w)' /\ Timely(w)'
  BY <1>1, <1>2, <1>3, <1>4 DEF HoldsEvent, Timely, Busy
<1>6. QED  BY <1>2, <1>3, <1>5, WorkerAlone

\* An event a worker may claim is not leased and has attempts left.
LEMMA ClaimableFacts ==
  ASSUME IInv, NEW now, NEW e \in Oldest(Claimable(now))
  PROVE  /\ e \in EventIds
         /\ events[e].state \in {"pending", "retry_wait"}
         /\ events[e].attempt \in 0 .. MaxAttempts - 1
         /\ handled[e] = 0
<1>1. e \in EventIds /\ events[e].state \in {"pending", "retry_wait"}
  BY DEF Oldest, Claimable
<1>2. QED  BY <1>1, BoundsAssumption DEF IInv, Consistent, BoundsAssumption

\* Claiming an event.
LEMMA ClaimStep ==
  ASSUME IInv, NEW w \in Workers, NEW e \in EventIds, ClaimOutbox(w, e)
  PROVE  IInv'
<1> DEFINE now == worker[w].now
<1>1. /\ events[e].state \in {"pending", "retry_wait"}
      /\ events[e].attempt \in 0 .. MaxAttempts - 1
      /\ handled[e] = 0
      /\ events[e] \in Event /\ worker[w] \in WorkerState
  BY ClaimableFacts DEF ClaimOutbox, IInv, TypeOK
<1>2. now \in 1 .. clock /\ clock \in 1 .. Horizon
  BY DEF ClaimOutbox, IInv, Timely, TypeOK
<1>3. PICK t \in Nat : t = events[e].token + 1
  BY <1>1 DEF Event
<1>4. PICK a \in 1 .. MaxAttempts : a = events[e].attempt + 1
  BY <1>1, BoundsAssumption DEF BoundsAssumption
<1>5. PICK u \in 1 .. Horizon + LeaseTTL : u = now + LeaseTTL
  BY <1>2, BoundsAssumption DEF BoundsAssumption
<1>a. a \in Nat /\ u \in Nat
  BY <1>4, <1>5
<1> DEFINE row == [events[e] EXCEPT !.state = "leased", !.owner = w,
                                    !.token = t, !.until = u, !.attempt = a]
           state == [worker[w] EXCEPT !.phase = "dispatching", !.event = e,
                                      !.token = t, !.attempt = a]
<1>6. /\ events' = [events EXCEPT ![e] = row]
      /\ worker' = [worker EXCEPT ![w] = state]
      /\ UNCHANGED <<clock, handled, failure>>
  BY <1>3, <1>4, <1>5 DEF ClaimOutbox, WriteEvent, Become
<1>7. /\ row \in Event /\ row.state = "leased" /\ row.owner = w
      /\ row.token = t /\ row.until = u /\ row.attempt = a
  BY <1>1, <1>a DEF Event
<1>8. /\ state \in WorkerState /\ state.phase = "dispatching"
      /\ state.event = e /\ state.token = t /\ state.attempt = a
      /\ state.now = now
  BY <1>1, <1>a DEF WorkerState
<1> HIDE DEF row, state
<1>9. /\ events'[e] = row /\ worker'[w] = state /\ handled'[e] = 0
      /\ clock' = clock
  BY <1>1, <1>6 DEF IInv, TypeOK
<1>10. TypeOK'
  BY <1>6, <1>7, <1>8 DEF IInv, TypeOK
<1>11. HoldsEvent(w)' /\ Timely(w)'
  BY <1>2, <1>7, <1>8, <1>9 DEF HoldsEvent, Timely, Busy
<1>12. Consistent(e)'
  BY <1>7, <1>9 DEF Consistent
<1>13. ASSUME NEW x \in Workers \ {w}
       PROVE  worker'[x] = worker[x] /\ (Busy(x) => worker[x].event # e)
  BY <1>1, <1>6 DEF IInv, TypeOK, HoldsEvent
<1>14. QED
  BY <1>6, <1>10, <1>11, <1>12, <1>13, OneWorkerOneEvent DEF IInv, TypeOK

\* The handler returns.
LEMMA DispatchStep ==
  ASSUME IInv, NEW w \in Workers, DispatchSucceeds(w) \/ DispatchFails(w)
  PROVE  IInv'
<1>1. /\ worker[w].phase = "dispatching" /\ worker[w] \in WorkerState
      /\ clock \in Nat /\ clock \in 1 .. clock
  BY DEF DispatchSucceeds, DispatchFails, IInv, TypeOK
<1>e. PICK e \in EventIds : e = worker[w].event
  BY <1>1 DEF IInv, HoldsEvent, Busy
<1>2. /\ e \in EventIds /\ events[e].state = "leased" /\ events[e].owner = w
      /\ events[e].token = worker[w].token
      /\ events[e].attempt = worker[w].attempt
      /\ handled[e] = 0
      /\ events[e] \in Event
  BY <1>1, <1>e DEF IInv, HoldsEvent, Busy, TypeOK
<1>3. ASSUME NEW x \in Workers \ {w}
      PROVE  Busy(x) => worker[x].event # e
  BY <1>2, <1>e DEF IInv, HoldsEvent
<1>4. CASE DispatchSucceeds(w)
  <2> DEFINE state == [worker[w] EXCEPT !.phase = "completing", !.now = clock]
  <2>1. /\ handled' = [handled EXCEPT ![e] = 1]
        /\ worker' = [worker EXCEPT ![w] = state]
        /\ UNCHANGED <<clock, events, failure>>
    <3>1. /\ handled' = [handled EXCEPT ![e] = handled[e] + 1]
          /\ UNCHANGED <<clock, events, failure>>
      BY <1>4, <1>e DEF DispatchSucceeds
    <3>2. worker' = [worker EXCEPT ![w] = state]
      BY <1>4 DEF DispatchSucceeds, Become
    <3>3. handled[e] + 1 = 1
      BY <1>2
    <3>4. QED  BY <3>1, <3>2, <3>3
  <2>2. /\ state \in WorkerState /\ state.phase = "completing"
        /\ state.event = e /\ state.token = worker[w].token
        /\ state.attempt = worker[w].attempt /\ state.now = clock
    BY <1>1, <1>e DEF WorkerState
  <2> HIDE DEF state
  <2>3. worker'[w] = state /\ handled'[e] = 1
    BY <1>2, <2>1 DEF IInv, TypeOK
  <2>4. TypeOK'
    BY <2>1, <2>2 DEF IInv, TypeOK
  <2>5. HoldsEvent(w)' /\ Timely(w)'
    BY <1>1, <1>2, <2>1, <2>2, <2>3 DEF HoldsEvent, Timely, Busy
  <2>6. Consistent(e)'
    <3>1. /\ Consistent(e) /\ events'[e] = events[e] /\ clock' = clock
      BY <2>1 DEF IInv
    <3>2. QED  BY <1>2, <2>3, <3>1 DEF Consistent
  <2>f. ASSUME NEW f \in EventIds \ {e}
        PROVE  /\ events'[f] = events[f] /\ handled'[f] = handled[f]
               /\ failure'[f] = failure[f]
    BY <2>1 DEF IInv, TypeOK
  <2>x. ASSUME NEW x \in Workers \ {w}
        PROVE  worker'[x] = worker[x] /\ (Busy(x) => worker[x].event # e)
    BY <1>3, <2>1 DEF IInv, TypeOK
  <2>7. QED
    BY <2>1, <2>f, <2>x, <2>4, <2>5, <2>6, OneWorkerOneEvent
<1>5. CASE DispatchFails(w)
  <2>1. Backoff(worker[w].attempt) \in Nat
    BY <1>1, BackoffType DEF WorkerState
  <2>2. PICK n \in Nat : n = clock + Backoff(worker[w].attempt)
    BY <1>1, <2>1
  <2> DEFINE state == [worker[w] EXCEPT !.phase = "failing", !.now = clock,
                                        !.next = n]
  <2> DEFINE note == [attempt |-> worker[w].attempt, at |-> clock]
  <2>3. /\ worker' = [worker EXCEPT ![w] = state]
        /\ failure' = [failure EXCEPT ![e] = note]
        /\ UNCHANGED <<clock, events, handled>>
    BY <1>5, <1>e, <2>2 DEF DispatchFails, Become, NoteFailure
  <2>4. /\ state \in WorkerState /\ state.phase = "failing"
        /\ state.event = e /\ state.token = worker[w].token
        /\ state.attempt = worker[w].attempt /\ state.now = clock
        /\ state.next = n
    BY <1>1, <1>e DEF WorkerState
  <2>5. /\ note \in [attempt : Nat, at : Nat]
        /\ note.attempt = worker[w].attempt /\ note.at = clock
    BY <1>1 DEF WorkerState
  <2> HIDE DEF state, note
  <2>6. worker'[w] = state /\ failure'[e] = note
    BY <2>3 DEF IInv, TypeOK
  <2>7. TypeOK'
    BY <2>3, <2>4, <2>5 DEF IInv, TypeOK
  <2>8. DueAfterFailure(e, n)'
    BY <1>2, <2>2, <2>3, <2>5, <2>6 DEF DueAfterFailure
  <2>9. HoldsEvent(w)' /\ Timely(w)'
    BY <1>1, <1>2, <2>3, <2>4, <2>6, <2>8 DEF HoldsEvent, Timely, Busy
  <2>10. Consistent(e)'
    <3>1. Consistent(e) /\ events'[e] = events[e] /\ handled'[e] = handled[e]
      BY <2>3 DEF IInv
    <3>2. QED  BY <1>2, <3>1 DEF Consistent
  <2>f. ASSUME NEW f \in EventIds \ {e}
        PROVE  /\ events'[f] = events[f] /\ handled'[f] = handled[f]
               /\ failure'[f] = failure[f]
    BY <2>3 DEF IInv, TypeOK
  <2>x. ASSUME NEW x \in Workers \ {w}
        PROVE  worker'[x] = worker[x] /\ (Busy(x) => worker[x].event # e)
    BY <1>3, <2>3 DEF IInv, TypeOK
  <2>11. QED
    BY <2>3, <2>f, <2>x, <2>7, <2>9, <2>10, OneWorkerOneEvent
<1>6. QED  BY <1>4, <1>5

\* The owner settles its event and rests.
LEMMA SettleStep ==
  ASSUME IInv, NEW w \in Workers, CompleteOutbox(w) \/ FailOutbox(w)
  PROVE  IInv'
<1>1. /\ worker[w].phase \in {"completing", "failing"}
      /\ worker[w] \in WorkerState
      /\ worker[w].next \in Nat
      /\ Become(w, Resting) /\ UNCHANGED <<clock, handled, failure>>
  BY DEF CompleteOutbox, FailOutbox, IInv, TypeOK, WorkerState
<1>e. PICK e \in EventIds : e = worker[w].event
  BY <1>1 DEF IInv, HoldsEvent, Busy
<1>2. /\ e \in EventIds /\ events[e] \in Event /\ events[e].state = "leased"
      /\ events[e].owner = w /\ events[e].attempt \in 1 .. MaxAttempts
      /\ handled[e] = IF worker[w].phase = "completing" THEN 1 ELSE 0
      /\ worker[w].phase = "failing" => DueAfterFailure(e, worker[w].next)
  BY <1>1, <1>e DEF IInv, HoldsEvent, Busy, TypeOK, Consistent
<1>3. CASE UNCHANGED events
  BY <1>1, <1>3, RestingStep
<1>4. ASSUME NEW row \in Event, events' = [events EXCEPT ![e] = row],
             Consistent(e)'
      PROVE  IInv'
  <2>1. worker'[w].phase = "idle"
    BY <1>1, RestingWorker DEF IInv, TypeOK, Become
  <2>2. TypeOK'
    BY <1>1, <1>4, RestingWorker DEF IInv, TypeOK, Become
  <2>3. HoldsEvent(w)' /\ Timely(w)'
    BY <2>1 DEF HoldsEvent, Timely, Busy
  <2>4. ASSUME NEW x \in Workers \ {w}
        PROVE  worker'[x] = worker[x] /\ (Busy(x) => worker[x].event # e)
    BY <1>1, <1>2, <1>e DEF IInv, TypeOK, Become, HoldsEvent
  <2>f. ASSUME NEW f \in EventIds \ {e}
        PROVE  /\ events'[f] = events[f] /\ handled'[f] = handled[f]
               /\ failure'[f] = failure[f]
    BY <1>1, <1>4 DEF IInv, TypeOK
  <2>5. QED
    BY <1>1, <1>4, <2>2, <2>3, <2>4, <2>f, OneWorkerOneEvent
<1>5. CASE CompleteOutbox(w) /\ ~UNCHANGED events
  <2> DEFINE row == [events[e] EXCEPT !.state = "delivered", !.owner = Nil,
                                      !.until = NoTime]
  <2>1. events' = [events EXCEPT ![e] = row] /\ worker[w].phase = "completing"
    BY <1>5, <1>e DEF CompleteOutbox, WriteEvent
  <2>2. /\ row \in Event /\ row.state = "delivered" /\ row.owner = Nil
        /\ row.until = NoTime /\ row.attempt = events[e].attempt
    BY <1>2 DEF Event, NoTime
  <2> HIDE DEF row
  <2>3. events'[e] = row
    BY <1>2, <2>1 DEF IInv, TypeOK
  <2>4. Consistent(e)'
    BY <1>1, <1>2, <2>1, <2>2, <2>3 DEF Consistent
  <2>5. QED  BY <1>4, <2>1, <2>2, <2>4
<1>6. CASE FailOutbox(w) /\ ~UNCHANGED events
  <2> DEFINE state == IF events[e].attempt >= MaxAttempts
                      THEN "permanent_failed" ELSE "retry_wait"
             row == [events[e] EXCEPT !.state = state, !.owner = Nil,
                                      !.until = NoTime,
                                      !.nextTry = worker[w].next]
  <2>1. events' = [events EXCEPT ![e] = row] /\ worker[w].phase = "failing"
    BY <1>6, <1>e DEF FailOutbox, WriteEvent
  <2>2. /\ row \in Event /\ row.state = state /\ row.owner = Nil
        /\ row.until = NoTime /\ row.attempt = events[e].attempt
        /\ row.nextTry = worker[w].next
    BY <1>1, <1>2 DEF Event, NoTime
  <2> HIDE DEF row
  <2>3. events'[e] = row
    BY <1>2, <2>1 DEF IInv, TypeOK
  <2>4. MaxAttempts \in Nat \ {0}
    BY BoundsAssumption DEF BoundsAssumption
  <2>5. handled'[e] = 0
    BY <1>1, <1>2, <2>1
  <2>6. CASE events[e].attempt >= MaxAttempts
    <3>1. state = "permanent_failed" /\ events[e].attempt = MaxAttempts
      BY <1>2, <2>4, <2>6
    <3> HIDE DEF state
    <3>2. Consistent(e)'
      BY <2>2, <2>3, <2>5, <3>1 DEF Consistent
    <3>3. QED  BY <1>4, <2>1, <2>2, <3>2
  <2>7. CASE ~(events[e].attempt >= MaxAttempts)
    <3>1. state = "retry_wait" /\ events[e].attempt \in 1 .. MaxAttempts - 1
      BY <1>2, <2>4, <2>7
    <3>2. DueAfterFailure(e, events[e].nextTry)'
      BY <1>1, <1>2, <2>1, <2>2, <2>3 DEF DueAfterFailure
    <3> HIDE DEF state
    <3>3. Consistent(e)'
      BY <2>2, <2>3, <2>5, <3>1, <3>2 DEF Consistent
    <3>4. QED  BY <1>4, <2>1, <2>2, <3>3
  <2>8. QED  BY <2>6, <2>7
<1>7. QED  BY <1>3, <1>5, <1>6

\* Every step keeps the invariant.
LEMMA NextKeeps ==
  ASSUME IInv, [Next]_vars
  PROVE  IInv'
<1>1. CASE UNCHANGED vars
  <2>1. TypeOK'
    BY <1>1 DEF IInv, TypeOK, vars
  <2>2. ASSUME NEW w \in Workers  PROVE HoldsEvent(w)' /\ Timely(w)'
    BY <1>1 DEF IInv, HoldsEvent, Timely, Busy, DueAfterFailure, vars
  <2>3. ASSUME NEW e \in EventIds  PROVE Consistent(e)'
    BY <1>1 DEF IInv, Consistent, DueAfterFailure, vars
  <2>4. QED  BY <2>1, <2>2, <2>3 DEF IInv
<1>2. ASSUME NEW w \in Workers, NothingDue(w) \/ Stop(w)
      PROVE  IInv'
  BY <1>2, RestingStep DEF NothingDue, Stop
<1>3. QED
  BY <1>1, <1>2, TickStep, InsertStep, BeginStep, ClaimStep, DispatchStep,
     SettleStep
  DEF Next, Run

\* The inductive invariant holds in every reachable state.
LEMMA Invariance == Spec => []IInv
  BY InitEstablishes, NextKeeps, PTL DEF Spec

-----------------------------------------------------------------------------
(* The theorems *)

\* Rows, counts and worker states keep their shapes.
THEOREM TypeCorrect == Spec => []TypeOK
<1>1. IInv => TypeOK
  BY DEF IInv
<1>2. QED  BY <1>1, Invariance, PTL

\* No two workers are ever busy with the same event, even when the lease of
\* one of them is over: an expired lease is not claimed, it waits.
THEOREM OneDispatcherAlways == Spec => []OneDispatcher
<1>1. IInv => OneDispatcher
  BY DEF IInv, HoldsEvent, OneDispatcher
<1>2. QED  BY <1>1, Invariance, PTL

\* A handler succeeds at most once for an event, whatever stops or expires.
THEOREM HandledAtMostOnce == Spec => []HandledOnce
<1>1. IInv => HandledOnce
  BY DEF IInv, Consistent, HandledOnce
<1>2. QED  BY <1>1, Invariance, PTL

\* The attempts of an event are bounded by MaxAttempts, and giving up uses
\* them all.
THEOREM RetriesAreBounded == Spec => []RetriesBounded
<1>1. ASSUME IInv, NEW e \in EventIds
      PROVE  /\ events[e].attempt <= MaxAttempts
             /\ events[e].state = "permanent_failed" =>
                  events[e].attempt = MaxAttempts
  <2>1. Consistent(e) /\ events[e] \in Event
    BY <1>1 DEF IInv, TypeOK
  <2>2. events[e].state \in {"absent", "pending", "leased", "retry_wait",
                             "delivered", "permanent_failed"}
    BY <2>1 DEF Event
  <2>3. MaxAttempts \in Nat \ {0}
    BY BoundsAssumption DEF BoundsAssumption
  <2>4. QED  BY <2>1, <2>2, <2>3 DEF Consistent
<1>2. IInv => RetriesBounded
  BY <1>1 DEF RetriesBounded
<1>3. QED  BY <1>2, Invariance, PTL

\* Which step moves an event: only a claim makes another attempt of it, only its
\* completion delivers it.
LEMMA WhoMovesAnEvent ==
  ASSUME IInv, [Next]_vars, NEW e \in EventIds
  PROVE  /\ events[e].attempt > 0 /\ events'[e].attempt # events[e].attempt =>
              \E w \in Workers : ClaimOutbox(w, e)
         /\ events[e].state = "leased" /\ events'[e].state = "delivered" =>
              \E w \in Workers : /\ CompleteOutbox(w) /\ worker[w].event = e
                                 /\ events' # events
<1>1. events \in [EventIds -> Event]
  BY DEF IInv, TypeOK
<1>2. CASE UNCHANGED events
  BY <1>2
<1>3. ASSUME NEW f \in EventIds, InsertOutbox(f)
      PROVE  \/ events'[e] = events[e]
             \/ ~(events[e].attempt > 0) /\ events'[e].state = "pending"
  <2>1. /\ events' = [events EXCEPT ![f] = [NoEvent EXCEPT !.state = "pending",
                           !.nextTry = clock, !.created = clock]]
        /\ events[f].attempt = 0
    BY <1>3 DEF InsertOutbox, WriteEvent, IInv, Consistent
  <2>2. QED  BY <1>1, <2>1 DEF NoEvent
<1>4. ASSUME NEW w \in Workers, NEW f \in EventIds, ClaimOutbox(w, f)
      PROVE  f = e \/ events'[e] = events[e]
  BY <1>1, <1>4 DEF ClaimOutbox, WriteEvent
<1>5. ASSUME NEW w \in Workers, NEW f \in EventIds, ClaimOutbox(w, f), f = e
      PROVE  events'[e].state = "leased" /\ events[e].state # "leased"
  <2>1. events'[e].state = "leased"
    BY <1>1, <1>5 DEF ClaimOutbox, WriteEvent, Event
  <2>2. QED  BY <1>5, <2>1, ClaimableFacts DEF ClaimOutbox
<1>6. ASSUME NEW w \in Workers, CompleteOutbox(w), worker[w].event # e
      PROVE  events'[e] = events[e]
  BY <1>1, <1>6 DEF CompleteOutbox, WriteEvent
<1>7. ASSUME NEW w \in Workers, FailOutbox(w)
      PROVE  \/ events'[e] = events[e]
             \/ /\ events'[e].state \in {"permanent_failed", "retry_wait"}
                /\ events'[e].attempt = events[e].attempt
  <2>1. CASE UNCHANGED events
    BY <2>1
  <2>2. CASE ~UNCHANGED events
    <3> DEFINE f == worker[w].event
               state == IF events[f].attempt >= MaxAttempts
                        THEN "permanent_failed" ELSE "retry_wait"
    <3>1. events' = [events EXCEPT ![f] =
                       [events[f] EXCEPT !.state = state, !.owner = Nil,
                          !.until = NoTime, !.nextTry = worker[w].next]]
      BY <1>7, <2>2 DEF FailOutbox, WriteEvent
    <3>2. state \in {"permanent_failed", "retry_wait"}
      OBVIOUS
    <3> HIDE DEF state
    <3>3. QED  BY <1>1, <3>1, <3>2 DEF Event
  <2>3. QED  BY <2>1, <2>2
<1>8. ASSUME NEW w \in Workers, CompleteOutbox(w), worker[w].event = e,
             ~UNCHANGED events
      PROVE  /\ events'[e].state = "delivered"
             /\ events'[e].attempt = events[e].attempt
  <2>1. PICK old \in Event : old = events[e]
    BY <1>1
  <2>2. events'[e] = [old EXCEPT !.state = "delivered", !.owner = Nil,
                                !.until = NoTime]
    BY <1>1, <1>8, <2>1 DEF CompleteOutbox, WriteEvent
  <2>3. QED  BY <2>1, <2>2 DEF Event
<1>9. Tick \/ (\E w \in Workers : BeginRun(w) \/ NothingDue(w) \/ Stop(w)
                 \/ DispatchSucceeds(w) \/ DispatchFails(w))
      => UNCHANGED events
  BY DEF Tick, BeginRun, NothingDue, Stop, DispatchSucceeds, DispatchFails
<1>10. QED
  BY <1>2, <1>3, <1>4, <1>5, <1>6, <1>7, <1>8, <1>9 DEF Next, Run, vars

\* What holds at a delivery: it is the completion of the worker that owns the
\* event, under the token of its claim, and the text of the clock it read sorts
\* before the text of the end of the lease.
LEMMA DeliveryFacts ==
  ASSUME IInv, [Next]_vars, NEW e \in EventIds,
         events[e].state = "leased", events'[e].state = "delivered"
  PROVE  \E w \in Workers :
           /\ events[e].owner = w
           /\ worker[w].event = e
           /\ worker[w].token = events[e].token
           /\ events[e].until \in Nat /\ worker[w].now \in Nat
           /\ TextKey(events[e].until) > TextKey(worker[w].now)
<1>1. PICK w \in Workers : /\ CompleteOutbox(w) /\ worker[w].event = e
                           /\ events' # events
  BY WhoMovesAnEvent
<1>2. Owns(w) /\ TextKey(events[e].until) > TextKey(worker[w].now)
  BY <1>1 DEF CompleteOutbox
<1>3. events[e].until \in Nat /\ worker[w].now \in Nat
  BY DEF IInv, TypeOK, Event, WorkerState
<1>4. QED  BY <1>1, <1>2, <1>3 DEF Owns

\* What holds at a further attempt: the last attempt failed, the event is due
\* when the whole back-off has passed since then, and the text of that time does
\* not sort after that of a clock the worker has read.
LEMMA ClaimFacts ==
  ASSUME IInv, [Next]_vars, NEW e \in EventIds,
         events[e].attempt > 0, events'[e].attempt # events[e].attempt
  PROVE  /\ failure[e].attempt = events[e].attempt
         /\ \E now \in 1 .. clock, due \in Nat :
              /\ clock \in Nat /\ now \in Nat
              /\ due = failure[e].at + Backoff(events[e].attempt)
              /\ TextKey(due) <= TextKey(now)
<1>1. PICK w \in Workers : ClaimOutbox(w, e)
  BY WhoMovesAnEvent
<1>2. /\ events[e].state \in {"pending", "retry_wait"}
      /\ TextKey(events[e].nextTry) <= TextKey(worker[w].now)
      /\ worker[w].now \in 1 .. clock
  BY <1>1 DEF ClaimOutbox, Oldest, Claimable, IInv, Timely
<1>3. /\ clock \in Nat /\ events[e].nextTry \in Nat
      /\ worker[w].now \in Nat
  BY DEF IInv, TypeOK, Event, WorkerState
<1>4. DueAfterFailure(e, events[e].nextTry)
  BY <1>2 DEF IInv, Consistent
<1>5. QED  BY <1>2, <1>3, <1>4 DEF DueAfterFailure

\* While instants are whole seconds, a delivery is recorded only by the owner
\* of a lease that was running when the owner looked at the clock.
THEOREM OwnersComplete ==
  ASSUME TicksPerSecond = 1
  PROVE  Spec => CompletionUnexpired
<1> DEFINE A == \A e \in EventIds :
       events[e].state = "leased" /\ events'[e].state = "delivered" =>
         \E w \in Workers :
           /\ events[e].owner = w
           /\ worker[w].event = e
           /\ worker[w].token = events[e].token
           /\ worker[w].now < events[e].until
<1>1. IInv /\ [Next]_vars => A
  BY DeliveryFacts, WholeSecondKeys
<1> HIDE DEF A
<1>2. Spec => [][A]_vars
  BY <1>1, Invariance, PTL DEF Spec
<1>3. QED  BY <1>2 DEF A, CompletionUnexpired

\* Whatever the fractions of its instants, a delivery is the owner's, under the
\* token of its claim, and comes less than a second late.
CompletionLessThanASecondLate ==
  [][\A e \in EventIds :
       events[e].state = "leased" /\ events'[e].state = "delivered" =>
         \E w \in Workers :
           /\ events[e].owner = w
           /\ worker[w].event = e
           /\ worker[w].token = events[e].token
           /\ worker[w].now < events[e].until + TicksPerSecond]_vars

\* The text comparison in CompleteOutbox lets nobody but the current owner
\* deliver an event, and that owner not a second after its lease.
THEOREM OwnersCompleteAlmost == Spec => CompletionLessThanASecondLate
<1> DEFINE A == \A e \in EventIds :
       events[e].state = "leased" /\ events'[e].state = "delivered" =>
         \E w \in Workers :
           /\ events[e].owner = w
           /\ worker[w].event = e
           /\ worker[w].token = events[e].token
           /\ worker[w].now < events[e].until + TicksPerSecond
<1>1. ASSUME NEW s \in Nat, NEW t \in Nat, TextKey(s) > TextKey(t)
      PROVE  t < s + TicksPerSecond
  <2>1. /\ TextKey(s) \in Int /\ TextKey(t) \in Int
        /\ TextKey(t) <= TextKey(s) => t < s + TicksPerSecond
    BY TextOrder
  <2>2. QED  BY <1>1, <2>1
<1>2. IInv /\ [Next]_vars => A
  BY <1>1, DeliveryFacts
<1> HIDE DEF A
<1>3. Spec => [][A]_vars
  BY <1>2, Invariance, PTL DEF Spec
<1>4. QED  BY <1>3 DEF A, CompletionLessThanASecondLate

\* While instants are whole seconds, an event is attempted again only after its
\* last attempt failed and the whole back-off has passed since that failure.
THEOREM RetriesWait ==
  ASSUME TicksPerSecond = 1
  PROVE  Spec => RetryWaits
<1> DEFINE A == \A e \in EventIds :
       events[e].attempt > 0 /\ events'[e].attempt # events[e].attempt =>
         /\ failure[e].attempt = events[e].attempt
         /\ failure[e].at + Backoff(events[e].attempt) <= clock
<1>1. ASSUME IInv, [Next]_vars, NEW e \in EventIds,
             events[e].attempt > 0, events'[e].attempt # events[e].attempt
      PROVE  /\ failure[e].attempt = events[e].attempt
             /\ failure[e].at + Backoff(events[e].attempt) <= clock
  BY <1>1, ClaimFacts, WholeSecondKeys
<1>2. IInv /\ [Next]_vars => A
  BY <1>1
<1> HIDE DEF A
<1>3. Spec => [][A]_vars
  BY <1>2, Invariance, PTL DEF Spec
<1>4. QED  BY <1>3 DEF A, RetryWaits

\* Whatever the fractions of its instants, an event is attempted again only
\* after its last attempt failed, and when all but less than a second of the
\* back-off has passed since that failure.
RetryLessThanASecondEarly ==
  [][\A e \in EventIds :
       events[e].attempt > 0 /\ events'[e].attempt # events[e].attempt =>
         /\ failure[e].attempt = events[e].attempt
         /\ failure[e].at + Backoff(events[e].attempt)
              < clock + TicksPerSecond]_vars

\* The text comparison in ClaimOutbox shortens a back-off by less than a
\* second.
THEOREM RetriesAlmostWait == Spec => RetryLessThanASecondEarly
<1> DEFINE A == \A e \in EventIds :
       events[e].attempt > 0 /\ events'[e].attempt # events[e].attempt =>
         /\ failure[e].attempt = events[e].attempt
         /\ failure[e].at + Backoff(events[e].attempt)
              < clock + TicksPerSecond
<1>1. ASSUME IInv, [Next]_vars, NEW e \in EventIds,
             events[e].attempt > 0, events'[e].attempt # events[e].attempt
      PROVE  /\ failure[e].attempt = events[e].attempt
             /\ failure[e].at + Backoff(events[e].attempt)
                  < clock + TicksPerSecond
  <2>1. failure[e].attempt = events[e].attempt
    BY <1>1, ClaimFacts
  <2>2. PICK now \in 1 .. clock, due \in Nat :
           /\ clock \in Nat /\ now \in Nat
           /\ due = failure[e].at + Backoff(events[e].attempt)
           /\ TextKey(due) <= TextKey(now)
    BY <1>1, ClaimFacts
  <2>3. due < now + TicksPerSecond
    BY <2>2, TextOrder
  <2>4. TicksPerSecond \in Nat
    BY ResolutionAssumption DEF ResolutionAssumption
  <2>5. QED  BY <2>1, <2>2, <2>3, <2>4
<1>2. IInv /\ [Next]_vars => A
  BY <1>1
<1> HIDE DEF A
<1>3. Spec => [][A]_vars
  BY <1>2, Invariance, PTL DEF Spec
<1>4. QED  BY <1>3 DEF A, RetryLessThanASecondEarly

-----------------------------------------------------------------------------
(* What is never recovered *)

\* A leased event whose worker stopped, or stopped and went on to another one.
Orphaned(e) ==
  /\ events[e].state = "leased"
  /\ \A w \in Workers : ~(Busy(w) /\ worker[w].event = e)

\* No step touches an orphaned event, and no worker takes it up again.
LEMMA OrphanStep ==
  ASSUME IInv, [Next]_vars, NEW e \in EventIds, Orphaned(e)
  PROVE  Orphaned(e)' /\ events'[e] = events[e]
<1>0. /\ events \in [EventIds -> Event]
      /\ worker \in [Workers -> WorkerState]
      /\ events[e].state = "leased"
      /\ \A x \in Workers : ~(Busy(x) /\ worker[x].event = e)
  BY DEF IInv, TypeOK, Orphaned
<1>1. ASSUME events'[e] = events[e],
             \A x \in Workers :
               \/ worker'[x] = worker[x]
               \/ worker'[x].phase = "idle" \/ worker'[x].phase = "claiming"
               \/ worker'[x].event # e
               \/ Busy(x) /\ worker'[x].event = worker[x].event
      PROVE  Orphaned(e)' /\ events'[e] = events[e]
  BY <1>0, <1>1 DEF Orphaned, Busy
<1>2. CASE UNCHANGED vars \/ Tick
  BY <1>1, <1>2 DEF vars, Tick
<1>3. ASSUME NEW f \in EventIds, InsertOutbox(f)  PROVE events'[e] = events[e]
  BY <1>0, <1>3 DEF InsertOutbox, WriteEvent
<1>4. ASSUME NEW w \in Workers, Become(w, Resting), UNCHANGED events
      PROVE  Orphaned(e)' /\ events'[e] = events[e]
  BY <1>0, <1>1, <1>4, RestingWorker DEF Become
<1>5. ASSUME NEW w \in Workers, BeginRun(w)
      PROVE  Orphaned(e)' /\ events'[e] = events[e]
  <2>1. worker'[w].phase = "claiming"
    BY <1>0, <1>5 DEF BeginRun, Become, Resting
  <2>2. QED  BY <1>0, <1>1, <1>5, <2>1 DEF BeginRun, Become
<1>6. ASSUME NEW w \in Workers, NEW f \in EventIds, ClaimOutbox(w, f)
      PROVE  Orphaned(e)' /\ events'[e] = events[e]
  <2>1. f # e
    BY <1>0, <1>6, ClaimableFacts DEF ClaimOutbox
  <2>2. worker'[w].event = f
    BY <1>0, <1>6 DEF ClaimOutbox, Become, WorkerState
  <2>3. events'[e] = events[e] /\ \A x \in Workers \ {w} : worker'[x] = worker[x]
    BY <1>0, <1>6, <2>1 DEF ClaimOutbox, WriteEvent, Become
  <2>4. QED  BY <1>1, <2>1, <2>2, <2>3
<1>7. ASSUME NEW w \in Workers, DispatchSucceeds(w) \/ DispatchFails(w)
      PROVE  Orphaned(e)' /\ events'[e] = events[e]
  <2>1. worker'[w].event = worker[w].event /\ Busy(w)
    <3>1. Busy(w)
      BY <1>7 DEF DispatchSucceeds, DispatchFails, Busy
    <3>2. PICK old \in WorkerState : old = worker[w]
      BY <1>0
    <3>3. worker'[w].event = old.event
      <4>1. CASE DispatchSucceeds(w)
        <5>1. worker'[w] = [old EXCEPT !.phase = "completing", !.now = clock]
          BY <1>0, <3>2, <4>1 DEF DispatchSucceeds, Become
        <5>2. QED  BY <5>1 DEF WorkerState
      <4>2. CASE DispatchFails(w)
        <5>1. PICK next :
                worker'[w] = [old EXCEPT !.phase = "failing", !.now = clock,
                                         !.next = next]
          BY <1>0, <3>2, <4>2 DEF DispatchFails, Become
        <5>2. QED  BY <5>1 DEF WorkerState
      <4>3. QED  BY <1>7, <4>1, <4>2
    <3>4. QED  BY <3>1, <3>2, <3>3
  <2>2. QED
    BY <1>0, <1>1, <1>7, <2>1 DEF DispatchSucceeds, DispatchFails, Become
<1>8. ASSUME NEW w \in Workers, CompleteOutbox(w) \/ FailOutbox(w)
      PROVE  Orphaned(e)' /\ events'[e] = events[e]
  <2>1. worker[w].event # e
    BY <1>0, <1>8 DEF CompleteOutbox, FailOutbox, Busy
  <2>2. events'[e] = events[e]
    BY <1>0, <1>8, <2>1 DEF CompleteOutbox, FailOutbox, WriteEvent
  <2>3. worker'[w].phase = "idle"
    BY <1>0, <1>8, RestingWorker DEF CompleteOutbox, FailOutbox, Become
  <2>4. \A x \in Workers \ {w} : worker'[x] = worker[x]
    BY <1>0, <1>8 DEF CompleteOutbox, FailOutbox, Become
  <2>5. QED  BY <1>1, <2>2, <2>3, <2>4
<1>9. ASSUME NEW f \in EventIds, InsertOutbox(f)
      PROVE  Orphaned(e)' /\ events'[e] = events[e]
  BY <1>1, <1>3, <1>9 DEF InsertOutbox
<1>10. QED
  BY <1>2, <1>4, <1>5, <1>6, <1>7, <1>8, <1>9
  DEF Next, Run, NothingDue, Stop, vars

\* README: "Process restart recovers queued, retryable, or expired work from
\* SQLite".  It never does for work whose worker died: from the moment no
\* worker holds a leased event, the event stays leased for ever, in every
\* behaviour and whatever restarts.
THEOREM OrphansAreNeverRecovered ==
  ASSUME NEW e \in EventIds
  PROVE  Spec => [](Orphaned(e) => [](events[e].state = "leased"))
<1>1. IInv /\ [Next]_vars /\ Orphaned(e) => Orphaned(e)'
  BY OrphanStep
<1>2. Orphaned(e) => events[e].state = "leased"
  BY DEF Orphaned
<1>3. QED  BY <1>1, <1>2, Invariance, PTL DEF Spec

-----------------------------------------------------------------------------
(* The outbox implements the fenced lease *)

Leases == [e \in EventIds |-> LeaseOf(e)]

\* The lease of an event, with its mark as a value.
LEMMA LeaseIs ==
  ASSUME NEW e \in EventIds, NEW done \in BOOLEAN,
         done <=> events[e].state \in {"delivered", "permanent_failed"}
  PROVE  LeaseOf(e) =
           [holder |-> events[e].owner, token |-> events[e].token,
            until |-> events[e].until, settled |-> done]
<1>1. (events[e].state \in {"delivered", "permanent_failed"}) = done
  BY Zenon
<1>2. QED  BY <1>1, Zenon DEF LeaseOf

\* A step that rewrites one event rewrites one lease.
LEMMA OneLease ==
  ASSUME IInv, NEW e \in EventIds, NEW row \in Event,
         events' = [events EXCEPT ![e] = row],
         NEW done \in BOOLEAN,
         done <=> row.state \in {"delivered", "permanent_failed"}
  PROVE  Leases' =
           [Leases EXCEPT ![e] =
              [holder |-> row.owner, token |-> row.token, until |-> row.until,
               settled |-> done]]
<1> DEFINE new == [holder |-> row.owner, token |-> row.token,
                   until |-> row.until, settled |-> done]
<1>1. ASSUME NEW f \in EventIds
      PROVE  LeaseOf(f)' = IF f = e THEN new ELSE LeaseOf(f)
  <2>1. CASE f = e
    <3>1. events'[f] = row
      BY <2>1 DEF IInv, TypeOK
    <3>2. (row.state \in {"delivered", "permanent_failed"}) = done
      BY Zenon
    <3>3. LeaseOf(f)' = new
      BY <3>1, <3>2, Zenon DEF LeaseOf
    <3>4. QED  BY <2>1, <3>3, Zenon
  <2>2. CASE f # e
    <3>1. events'[f] = events[f]
      BY <2>2 DEF IInv, TypeOK
    <3>2. LeaseOf(f)' = LeaseOf(f)
      BY <3>1, Zenon DEF LeaseOf
    <3>3. QED  BY <2>2, <3>2, Zenon
  <2>3. QED  BY <2>1, <2>2
<1> HIDE DEF new
<1>2. Leases' = [f \in EventIds |-> IF f = e THEN new ELSE LeaseOf(f)]
  BY <1>1, Zenon DEF Leases
<1>3. Leases' = [Leases EXCEPT ![e] = new]
  BY <1>2 DEF Leases
<1>4. QED  BY <1>3 DEF new

\* Every step of the outbox is a step of the lease, or leaves it alone.
LEMMA LeaseStep ==
  ASSUME IInv, [Next]_vars
  PROVE  [Ownership!LeaseNext]_(Ownership!leaseVars)
<1>0. events \in [EventIds -> Event]
  BY DEF IInv, TypeOK
<1>1. CASE UNCHANGED <<clock, events>>
  <2>1. Leases' = Leases
    BY <1>1 DEF Leases, LeaseOf
  <2>2. QED  BY <1>1, <2>1 DEF Ownership!leaseVars, Leases
<1>2. CASE Tick
  <2>1. Leases' = Leases
    BY <1>2 DEF Tick, Leases, LeaseOf
  <2>2. Ownership!LeaseTick
    BY <1>2, <2>1 DEF Tick, Ownership!LeaseTick, Leases
  <2>3. QED  BY <2>2 DEF Ownership!LeaseNext
<1>3. ASSUME NEW e \in EventIds, InsertOutbox(e)
      PROVE  UNCHANGED Ownership!leaseVars
  <2> DEFINE row == [NoEvent EXCEPT !.state = "pending", !.nextTry = clock,
                                    !.created = clock]
  <2>0. clock \in Nat
    BY DEF IInv, TypeOK
  <2>1. row \in Event /\ row.owner = Nil /\ row.token = 0 /\ row.until = NoTime
        /\ row.state = "pending"
    BY <2>0 DEF NoEvent, Event, NoTime
  <2>2. events' = [events EXCEPT ![e] = row] /\ clock' = clock
    BY <1>3 DEF InsertOutbox, WriteEvent
  <2> HIDE DEF row
  <2>3. /\ events[e].state = "absent" /\ events[e].owner = Nil
        /\ events[e].until = NoTime /\ events[e].token = 0
    BY <1>3 DEF InsertOutbox, IInv, Consistent
  <2>4. ASSUME NEW f \in EventIds
        PROVE  LeaseOf(f)' = LeaseOf(f)
    <3>1. CASE f = e
      <4>1. events'[f] = row
        BY <1>0, <2>2, <3>1
      <4>2. QED  BY <2>1, <2>3, <3>1, <4>1 DEF LeaseOf
    <3>2. CASE f # e
      <4>1. events'[f] = events[f]
        BY <1>0, <2>2, <3>2
      <4>2. QED  BY <4>1 DEF LeaseOf
    <3>3. QED  BY <3>1, <3>2
  <2>5. Leases' = Leases
    BY <2>4 DEF Leases
  <2>6. QED  BY <2>2, <2>5 DEF Ownership!leaseVars, Leases
<1>4. ASSUME NEW w \in Workers, NEW e \in EventIds, ClaimOutbox(w, e)
      PROVE  Ownership!LeaseNext
  <2>1. /\ worker[w].now \in 1 .. Horizon /\ clock \in 1 .. Horizon
        /\ events[e] \in Event
        /\ events[e].state \in {"pending", "retry_wait"}
        /\ events[e].owner = Nil
    <3>1. worker[w].now \in 1 .. clock /\ clock \in 1 .. Horizon
      BY <1>4 DEF ClaimOutbox, IInv, Timely, TypeOK
    <3>2. /\ events[e].state \in {"pending", "retry_wait"}
          /\ events[e] \in Event /\ Consistent(e)
      BY <1>4, ClaimableFacts DEF ClaimOutbox, IInv, TypeOK
    <3>3. QED  BY <3>1, <3>2, BoundsAssumption DEF Consistent, BoundsAssumption
  <2>2. PICK t \in Nat : t = events[e].token + 1
    BY <2>1 DEF Event
  <2>3. PICK a \in Nat : a = events[e].attempt + 1
    BY <2>1 DEF Event
  <2>4. PICK u \in 1 .. Horizon + LeaseTTL : u = worker[w].now + LeaseTTL
    BY <2>1, BoundsAssumption DEF BoundsAssumption
  <2>5. u \in Nat
    BY <2>4
  <2> DEFINE row == [events[e] EXCEPT !.state = "leased", !.owner = w,
                                      !.token = t, !.until = u, !.attempt = a]
             new == [holder |-> w, token |-> t, until |-> u, settled |-> FALSE]
  <2>6. events' = [events EXCEPT ![e] = row] /\ clock' = clock
    BY <1>4, <2>2, <2>3, <2>4 DEF ClaimOutbox, WriteEvent
  <2>7. /\ row \in Event /\ row.state = "leased" /\ row.owner = w
        /\ row.token = t /\ row.until = u
    BY <2>1, <2>5 DEF Event
  <2> HIDE DEF row
  <2>8. Leases' = [Leases EXCEPT ![e] = new]
    <3>1. FALSE <=> row.state \in {"delivered", "permanent_failed"}
      BY <2>7
    <3>2. Leases' =
            [Leases EXCEPT ![e] =
               [holder |-> row.owner, token |-> row.token,
                until |-> row.until, settled |-> FALSE]]
      BY <2>6, <2>7, <3>1, OneLease
    <3>3. QED  BY <2>7, <3>2
  <2>9. Leases[e] = [holder |-> Nil, token |-> events[e].token,
                     until |-> events[e].until, settled |-> FALSE]
    <3>1. FALSE <=> events[e].state \in {"delivered", "permanent_failed"}
      BY <2>1
    <3>2. LeaseOf(e) =
            [holder |-> events[e].owner, token |-> events[e].token,
             until |-> events[e].until, settled |-> FALSE]
      BY <3>1, LeaseIs
    <3>3. QED  BY <2>1, <3>2 DEF Leases
  <2>10. new = [Leases[e] EXCEPT !.holder = w, !.until = u,
                                 !.token = Leases[e].token + 1]
    <3>1. PICK old \in Ownership!Lease :
            old = Leases[e] /\ old.token + 1 = t /\ old.settled = FALSE
      <4>1. Leases[e] \in Ownership!Lease
        BY <2>1, <2>9 DEF Ownership!Lease, Event
      <4>2. Leases[e].token + 1 = t /\ Leases[e].settled = FALSE
        BY <2>2, <2>9
      <4>3. QED  BY <4>1, <4>2
    <3> DEFINE grant == [old EXCEPT !.holder = w, !.until = u, !.token = t]
    <3>2. /\ new \in Ownership!Lease
          /\ new.holder = w /\ new.token = t /\ new.until = u
          /\ new.settled = FALSE
      BY <2>5 DEF Ownership!Lease
    <3> HIDE DEF new
    <3>3. /\ grant \in Ownership!Lease
          /\ grant.holder = w /\ grant.token = t
          /\ grant.until = u /\ grant.settled = old.settled
      BY <2>5 DEF Ownership!Lease
    <3> HIDE DEF grant
    <3>4. grant = new
      BY <3>1, <3>2, <3>3 DEF Ownership!Lease
    <3>5. new = [old EXCEPT !.holder = w, !.until = u, !.token = old.token + 1]
      BY <3>1, <3>4, Zenon DEF grant
    <3>6. QED  BY <3>1, <3>5, Zenon
  <2>11. /\ ~Leases[e].settled /\ Leases[e].holder = Nil
    BY <2>9
  <2> HIDE DEF new
  <2>12. Ownership!WriteLease(e, new)
    BY <2>6, <2>8 DEF Ownership!WriteLease, Leases
  <2>13. Ownership!Grant(e, w)
    BY <2>4, <2>10, <2>11, <2>12 DEF Ownership!Grant, Ownership!Held, Leases
  <2>14. QED  BY <2>13 DEF Ownership!LeaseNext
<1>5. ASSUME NEW w \in Workers, CompleteOutbox(w) \/ FailOutbox(w),
             ~UNCHANGED events
      PROVE  Ownership!LeaseNext
  <2>1. PICK e \in EventIds : e = worker[w].event
    BY <1>5 DEF CompleteOutbox, FailOutbox, IInv, HoldsEvent, Busy
  <2>2. PICK row \in Event : /\ events' = [events EXCEPT ![e] = row]
                             /\ row.owner = Nil /\ row.until = NoTime
                             /\ row.token = events[e].token
    <3>1. events[e] \in Event /\ worker[w].next \in Nat
      BY DEF IInv, TypeOK, WorkerState
    <3>2. CASE CompleteOutbox(w)
      <4> DEFINE row == [events[e] EXCEPT !.state = "delivered",
                                          !.owner = Nil, !.until = NoTime]
      <4>1. events' = [events EXCEPT ![e] = row]
        BY <1>5, <2>1, <3>2 DEF CompleteOutbox, WriteEvent
      <4>2. /\ row \in Event /\ row.owner = Nil /\ row.until = NoTime
            /\ row.token = events[e].token
        BY <3>1 DEF Event, NoTime
      <4> HIDE DEF row
      <4>3. QED  BY <4>1, <4>2
    <3>3. CASE FailOutbox(w)
      <4> DEFINE state == IF events[e].attempt >= MaxAttempts
                          THEN "permanent_failed" ELSE "retry_wait"
                 row == [events[e] EXCEPT !.state = state, !.owner = Nil,
                                          !.until = NoTime,
                                          !.nextTry = worker[w].next]
      <4>1. events' = [events EXCEPT ![e] = row]
        BY <1>5, <2>1, <3>3 DEF FailOutbox, WriteEvent
      <4>2. /\ row \in Event /\ row.owner = Nil /\ row.until = NoTime
            /\ row.token = events[e].token
        BY <3>1 DEF Event, NoTime
      <4> HIDE DEF row
      <4>3. QED  BY <4>1, <4>2
    <3>4. QED  BY <1>5, <3>2, <3>3
  <2>3. events[e].owner = w /\ clock' = clock
    BY <1>5, <2>1 DEF CompleteOutbox, FailOutbox, Owns
  <2>4. PICK done \in BOOLEAN :
          done <=> row.state \in {"delivered", "permanent_failed"}
    <3>1. CASE row.state \in {"delivered", "permanent_failed"}
      BY <3>1
    <3>2. CASE row.state \notin {"delivered", "permanent_failed"}
      BY <3>2
    <3>3. QED  BY <3>1, <3>2
  <2>5. events[e].state = "leased"
    BY <1>5, <2>1 DEF CompleteOutbox, FailOutbox, Owns
  <2> DEFINE new == [holder |-> Nil, token |-> events[e].token, until |-> 0,
                     settled |-> done]
  <2>6. Leases' = [Leases EXCEPT ![e] = new]
    <3>1. Leases' =
            [Leases EXCEPT ![e] =
               [holder |-> row.owner, token |-> row.token,
                until |-> row.until, settled |-> done]]
      BY <2>2, <2>4, OneLease
    <3>2. QED  BY <2>2, <3>1 DEF NoTime
  <2>7. Leases[e] = [holder |-> w, token |-> events[e].token,
                     until |-> events[e].until, settled |-> FALSE]
    <3>1. FALSE <=> events[e].state \in {"delivered", "permanent_failed"}
      BY <2>5
    <3>2. LeaseOf(e) =
            [holder |-> events[e].owner, token |-> events[e].token,
             until |-> events[e].until, settled |-> FALSE]
      BY <3>1, LeaseIs
    <3>3. QED  BY <2>3, <3>2 DEF Leases
  <2>8. new = [Leases[e] EXCEPT !.holder = Nil, !.until = 0, !.settled = done]
    <3>1. PICK old \in Ownership!Lease :
            old = Leases[e] /\ old.token = events[e].token
      BY <2>7 DEF Ownership!Lease, Event, IInv, TypeOK
    <3> DEFINE back == [old EXCEPT !.holder = Nil, !.until = 0,
                                   !.settled = done]
    <3>2. /\ new \in Ownership!Lease
          /\ new.holder = Nil /\ new.token = events[e].token
          /\ new.until = 0 /\ new.settled = done
      BY DEF Ownership!Lease, Event, IInv, TypeOK
    <3> HIDE DEF new
    <3>3. /\ back \in Ownership!Lease
          /\ back.holder = Nil /\ back.token = old.token
          /\ back.until = 0 /\ back.settled = done
      BY DEF Ownership!Lease
    <3> HIDE DEF back
    <3>4. back = new
      BY <3>1, <3>2, <3>3 DEF Ownership!Lease
    <3>5. QED  BY <3>1, <3>4, Zenon DEF back
  <2> HIDE DEF new
  <2>9. Leases[e].holder # Nil
    BY <2>7, NilAssumption DEF NilAssumption
  <2>10. Ownership!WriteLease(e, new)
    BY <2>3, <2>6 DEF Ownership!WriteLease, Leases
  <2>11. Ownership!Release(e)
    BY <2>8, <2>9, <2>10 DEF Ownership!Release, Ownership!Held, Leases
  <2>12. QED  BY <2>11 DEF Ownership!LeaseNext
<1>6. (\E w \in Workers : BeginRun(w) \/ NothingDue(w) \/ Stop(w)
         \/ DispatchSucceeds(w) \/ DispatchFails(w))
      => UNCHANGED <<clock, events>>
  BY DEF BeginRun, NothingDue, Stop, DispatchSucceeds, DispatchFails
<1>7. (\E w \in Workers : CompleteOutbox(w) \/ FailOutbox(w))
      => UNCHANGED clock
  BY DEF CompleteOutbox, FailOutbox
<1>8. QED
  BY <1>1, <1>2, <1>3, <1>4, <1>5, <1>6, <1>7 DEF Next, Run, vars

\* An event is owned as a fenced lease is: by one worker at a time, with a new
\* token at every claim, and by nobody once it is settled.
THEOREM EventsAreFenced == Spec => EventIsLeased
<1>1. Init => Ownership!LeaseInit
  <2> SUFFICES ASSUME Init  PROVE Ownership!LeaseInit
    OBVIOUS
  <2>1. ASSUME NEW e \in EventIds  PROVE LeaseOf(e) = Ownership!Free
    <3>1. /\ events[e].owner = Nil /\ events[e].token = 0
          /\ events[e].until = 0
          /\ FALSE <=> events[e].state \in {"delivered", "permanent_failed"}
      BY DEF Init, NoEvent, NoTime
    <3>2. LeaseOf(e) =
            [holder |-> events[e].owner, token |-> events[e].token,
             until |-> events[e].until, settled |-> FALSE]
      BY <3>1, LeaseIs
    <3>3. QED  BY <3>1, <3>2 DEF Ownership!Free
  <2>2. QED  BY <2>1 DEF Init, Ownership!LeaseInit
<1>2. Spec => [][Ownership!LeaseNext]_(Ownership!leaseVars)
  BY LeaseStep, Invariance, PTL DEF Spec
<1>3. QED  BY <1>1, <1>2 DEF Spec, EventIsLeased, Ownership!LeaseSpec

-----------------------------------------------------------------------------
(* What a fenced lease guarantees, for events *)

Fencing ==
  INSTANCE FencedLeaseProofs WITH
    Resources <- EventIds, Owners <- Workers, Nobody <- Nil,
    Deadlines <- 1 .. Horizon + LeaseTTL, lease <- Leases

\* Every step of the program does to the lease of an event what a step may do
\* to a fenced lease.
LEMMA EventLeaseSteps ==
  ASSUME IInv, Fencing!LeaseSound, [Next]_vars
  PROVE  /\ Fencing!LeaseSound'
         /\ \A e \in EventIds :
              \/ Leases'[e] = Leases[e]
              \/ Fencing!Granted(Leases[e], Leases'[e])
              \/ Fencing!Renewed(Leases[e], Leases'[e])
              \/ Fencing!Released(Leases[e], Leases'[e])
<1>1. 1 .. Horizon + LeaseTTL \subseteq Nat /\ Nil \notin Workers
  BY NilAssumption DEF NilAssumption
<1>2. [Fencing!LeaseNext]_(Fencing!leaseVars)
  BY LeaseStep, Zenon
  DEF Leases, Ownership!LeaseNext, Fencing!LeaseNext, Ownership!LeaseTick,
      Fencing!LeaseTick, Ownership!Grant, Fencing!Grant, Ownership!Renew,
      Fencing!Renew, Ownership!Release, Fencing!Release, Ownership!Held,
      Fencing!Held, Ownership!WriteLease, Fencing!WriteLease,
      Ownership!leaseVars, Fencing!leaseVars
<1>3. QED  BY <1>1, <1>2, Fencing!LeaseSteps

\* Events start unleased and stay sound.
LEMMA EventLeasesSound == Spec => []Fencing!LeaseSound
<1>1. Init => Fencing!LeaseInit
  <2> SUFFICES ASSUME Init  PROVE Fencing!LeaseInit
    OBVIOUS
  <2>1. ASSUME NEW e \in EventIds  PROVE LeaseOf(e) = Fencing!Free
    <3>1. /\ events[e].owner = Nil /\ events[e].token = 0
          /\ events[e].until = 0
          /\ FALSE <=> events[e].state \in {"delivered", "permanent_failed"}
      BY DEF Init, NoEvent, NoTime
    <3>2. LeaseOf(e) =
            [holder |-> events[e].owner, token |-> events[e].token,
             until |-> events[e].until, settled |-> FALSE]
      BY <3>1, LeaseIs
    <3>3. QED  BY <3>1, <3>2 DEF Fencing!Free
  <2>2. QED  BY <2>1 DEF Init, Fencing!LeaseInit, Leases
<1>2. Fencing!LeaseInit => Fencing!LeaseSound
  BY Fencing!LeaseStart
<1>3. IInv /\ Fencing!LeaseSound /\ [Next]_vars => Fencing!LeaseSound'
  BY EventLeaseSteps
<1>4. QED  BY <1>1, <1>2, <1>3, Invariance, PTL DEF Spec

\* A token names its dispatcher: from the moment a worker is given an event
\* under a token nobody else ever owns the event under it, so that the owner
\* and token by which CompleteOutbox and FailOutbox find the row tell a late
\* answer from every other.
THEOREM TokenNamesDispatcher ==
  ASSUME NEW e \in EventIds, NEW t \in Nat, NEW w \in Workers
  PROVE  Spec => [](events[e].owner = w /\ events[e].token = t
                      => [](\/ events[e].token > t
                            \/ /\ events[e].token = t
                               /\ events[e].owner \in {w, Nil}))
<1> DEFINE Mine == \/ events[e].token > t
                   \/ /\ events[e].token = t
                      /\ events[e].owner \in {w, Nil}
<1>1. IInv /\ Fencing!LeaseSound /\ [Next]_vars /\ Mine => Mine'
  <2> SUFFICES ASSUME IInv, Fencing!LeaseSound, [Next]_vars, Mine
               PROVE  Mine'
    OBVIOUS
  <2>1. /\ Leases[e].holder = events[e].owner
        /\ Leases[e].token = events[e].token
        /\ Leases'[e].holder = events'[e].owner
        /\ Leases'[e].token = events'[e].token
    BY DEF Leases, LeaseOf
  <2>2. events[e].token \in Nat
    BY DEF IInv, TypeOK, Event
  <2>3. QED
    BY <2>1, <2>2, EventLeaseSteps
    DEF Fencing!Granted, Fencing!Renewed, Fencing!Released
<1>2. events[e].owner = w /\ events[e].token = t => Mine
  OBVIOUS
<1> HIDE DEF Mine
<1>3. Spec => [](events[e].owner = w /\ events[e].token = t => []Mine)
  BY <1>1, <1>2, EventLeasesSound, Invariance, PTL DEF Spec
<1>4. QED  BY <1>3 DEF Mine

=============================================================================
