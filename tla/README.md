# A TLA+ model of the reading-task service

The program is a Go service for research groups that read physical books
together: a coordinator opens a study program over an edition, members reserve
page sections, read them offline under a lease, submit notes and quotation
claims, and other researchers review the claims. State lives in one SQLite
database. HTTP handlers and background workers run concurrently against it.

## 1. Inventory

Paths are under `src/internal` unless they start elsewhere.

| Component | State it keeps | Operations | Correct when |
| --- | --- | --- | --- |
| Section reading: `service/reading.go`, `domain/reading` | `section_assignments` (reserved, in_reading, submitted, released, expired; lease owner, token, deadline), `reading_sessions` | Reserve, MoveReservation, Start, Submit, Abandon; worker ExpireAssignments | no page is booked twice for one moment; a section and its session agree; evidence lies inside its section; finished sections stay finished; a reader who vanishes loses the section |
| Claim review and disputes: `service/review.go`, `domain/review`, `domain/evidence` | `quotation_claims`, `review_assignments` (lease), `review_decisions`, `claim_disputes` | Assign, Claim, Renew, Decide, OpenDispute, ResolveDispute | one live review per claim; a verdict is backed by its decision; reviewers are independent; verdicts are final; a dispute ends |
| Outbox worker: `worker/outbox.go`, `storage/sqlite/audit_outbox.go` | `outbox_events` (state, attempt, next try, lease) | InsertOutbox, ClaimOutbox, dispatch, CompleteOutbox, FailOutbox | an event has one dispatcher at a time, is retried a bounded number of times after its back-off, is not lost, and due events are attempted |
| Programs and membership: `service/program.go`, `domain/program`, `repository/idempotency.go` | `study_programs`, `program_members`, `idempotency_keys` | Create, OpenEnrollment, Start, Join, AddMembersAtomically, RequestReview | capacity holds; a running program has members; a join answered is a join stored; a program whose reading is over goes to review |
| Accounts and sessions: `service/auth.go`, `domain/identity` | `users`, `auth_sessions` | Bootstrap, Register, Login, Authenticate, Logout, DeactivateUser | a session that is revoked or expired, or whose account is inactive, admits no later request; a revocation is never undone by a write prepared before it |
| Seminar agenda: `service/seminar.go` | `seminar_agendas`, `agenda_items` | Generate, Start, ResolveItem, Close | one agenda, closed only when every item has a disposition |
| Archive: `service/archive.go` | `archive_jobs` | Request, Process | a program is archived once, when everything in it is terminal |
| Catalogue: `service/catalog.go` | `works`, `editions` | RegisterWork, RegisterEdition, RetireEdition | sections lie inside their edition |
| Storage: `storage/sqlite` | the database | WithinTx, version-guarded UPDATEs, unique keys | a transaction happens whole or not at all; no update is lost |
| Worker runtime: `worker/runtime.go`, `worker/maintenance.go` | one goroutine per process | Start, Stop, the periodic tasks | tasks keep running until stopped |
| HTTP API, audit, configuration, clock, identities | none that decides anything | | |

**How they interact.** Handlers and workers meet only in the database. Almost
every service method has the same form: read rows and the clock, check them,
change copies in memory (raising `version`), and open a transaction
(`WithinTx`) that runs `UPDATE ... WHERE version = <the version read>` and a
few inserts, among them an outbox event that a worker later dispatches.
Everything between the reads and the transaction may be interleaved with other
requests. A transaction is one writer's: SQLite serialises writers, and one
that read and then finds the database changed fails with `SQLITE_BUSY` and is
rolled back.

**What is hard.** State read outside the transaction and used inside it;
the expiry worker holding a batch of old rows; leases and late answers; a
process that dies holding a lease; retries with idempotency keys; persisted
times compared as text; guards that count rows. `PROJECT.json` lists each such
place under `hazards`, with the property that watches it.

## 2. Modules

| Module | Models | Form |
| --- | --- | --- |
| `SectionLedger` | sections and sessions | abstract specification: every operation atomic |
| `PersistedTime` | `formatTime` and the text order of times | operator `TextKey` |
| `Reading` | `ReadingService` and its expiry worker | implements `SectionLedger` |
| `FencedLease` | what a lease with owner, token and deadline promises | abstract specification |
| `Review` | `ReviewService` | its leases implement `FencedLease` |
| `Outbox` | the outbox table and its workers | its leases implement `FencedLease` |
| `Enrollment` | `ProgramService` | state machine |
| `Accounts` | `AuthService` and the authentication of every request | state machine |
| `PersistedTimeProofs`, `SectionLedgerProofs`, `ReadingProofs`, `FencedLeaseProofs`, `ReviewProofs`, `OutboxProofs`, `EnrollmentProofs`, `AccountsProofs` | | theorems |
| `MCSectionLedger`, `MCReading`, `MCReview`, `MCOutbox`, `MCEnrollment`, `MCAccounts` | | instances for TLC |

### Conventions

* A table is a function from identities to rows; an unused identity holds a row
  whose state is `absent`. Row constructors (`StartedAssignment`,
  `DecidedClaim`, ...) are the domain methods, versions and tokens included.
* A request in flight is a record in `request[c]`: what the handler read
  (`seen...`), the clock it read (`now`) and its inputs. `Begin...` is
  everything up to the transaction, `Commit...` the transaction. A handler
  whose checks fail leaves no request: refusing changes nothing. Where a handler
  reads several rows by statements of their own (session and section in Submit
  and Abandon, program and member count in Start), `Begin...` reads them at
  once. Nothing is lost by it: the transaction guards the version of every row it
  writes, so rows read apart that changed meanwhile are refused as rows read
  together are; the member count has no version, but it never falls.
* `Fail` ends a request without an effect. It stands for a guard that fails
  inside the transaction, `SQLITE_BUSY`, a cancelled context and a crash of
  the process: nothing but the database survives any of them, so a crash is
  a `Fail` of every request and a stop of every worker.
* Time is a natural number. `Tick` stops at `Horizon`. Versions grow
  with the number of operations; `MaxVersion` bounds them where rows could go
  round for ever: moves in `SectionLedger` and `Reading`, leases in `Review`.
* Where a mutated form of a definition (`... Mutant of X`) stands before it, it
  is a plausible bug that some property must notice; it is used by nothing else.

### SectionLedger and Reading

`assignments` and `sessions` are the two tables. `Reserve`, `Move`, `Start`,
`Submit`, `Abandon` and `Expire` are the service's operations as a caller
imagines them. `Reading` splits each at its transaction and adds `sweep`, the
batch the expiry worker listed and works through row by row. `CommitReserve`
repeats the conflict query (`FindAssignmentConflicts`) inside the transaction,
as the code does; the query compares persisted text, so it is written with
`TextKey` while `Conflicts` compares times.

What a submission stores besides (observations, claims, outbox events, the
audit row) is one fact here: the pages of its evidence. `Reserve` needs
membership and an active edition; members are constants and the edition's page
count is `PageCount`, because no handler withdraws a member and nothing
reachable retires an edition.

### Review

`claims`, `reviews`, `decisions` and `disputes` are the tables; a claim has at
most one dispute (`UNIQUE`). One author writes all claims. `BeginResolve`
keeps the review named in the request even when the claim is not assigned to
it, because the code does. `HeldDispute` is the dispute as `ResolveDispute`
holds it in memory at the moment it takes the version for its guard.

### Outbox

`worker[w]` is where one process stands in `Outbox.Run`; it reads the clock
before each statement. Two history variables record what no row tells:
`handled` counts the successes of an event's handler, and `failure` is the
attempt at which it last failed and the time of that failure. `DispatchFails`
writes the latter, no guard reads either. A handler succeeds or fails at will.
`Stop` may happen at any step and leaves the event as it is. `InsertOutbox`
stamps the event at its commit; the code takes the time a little earlier, before
the transaction that announces it, which only makes the event due sooner.

The SELECT and the UPDATE of `ClaimOutbox` are one transaction and one step:
that two processes do not claim between each other's statements is SQLite's
isolation, which is taken as given. `RetryWaits` is about two steps of the
program, the failure of an attempt and the claim that begins the next one,
whatever the row said in between: the back-off counts from the failure, not from
the claim or the creation, and no attempt follows one that has not failed.

### Enrollment

`programs`, `members` and `keys` are the tables; `told` is the history of
memberships that joins were answered with. A join goes through `CommitJoin`,
`ReplayJoin` (its key is recorded) or `ConflictJoin`, after which
`FallbackJoin` looks the member up outside the transaction. The primary key of
`idempotency_keys` is (tenant, key) although the lookup also names path and
actor; a key reused by another user therefore is a conflict of the insert, and
`ConflictJoin` has that case. The record's 24 hours are never looked at. The
review request takes "are sections or sessions still open" as an input.

### Accounts

`users` and `sessions` are the tables. A request goes through as many actions
as the code has statements that others can come between: `BeginAuthenticate`
reads the session, `ExpireSession` refuses it and stores the mark of expiry, or
`ReadUser` finds it valid and looks at the account (both have the guards of
`Session.Validate`), and `FinishAuthenticate` stores the touch and admits the
request. An update
that loses its version is no error to `Authenticate`. A request stays
`admitted` until it `End`s, which is also how a request that is refused or
rolled back, or whose process dies, leaves. A handler reads the clock and a row
one after the other: the clock it holds is any instant up to the current one
and not before the one it read last, `\E now \in r.now .. clock`.

`barred` is a history variable: it records that the session was revoked or
expired, or its account inactive, when the request began. `DeadNotAdmitted` is
stated with it. Two stronger statements do not hold and are not claimed: a
login that races a deactivation stores an active session of an inactive
account, and a touch prepared before the expiry was stored (`Validate` does not
raise the version) marks an expired row active again. Neither session is ever
admitted: the first is stopped by the check of the account, the second by its
deadline.

`Register` and `DeactivateUser` have no HTTP route; they are modelled because
the service offers them. Two processes that bootstrap the same address at once
are kept apart by the `UNIQUE` address, the guard `Available`.

## 3. Runs

| Run | Result | Question |
| --- | --- | --- |
| `section_ledger` | holds | do the atomic operations keep sections, sessions and evidence consistent? |
| `reading` | holds | does the real interleaving implement the ledger (`LedgerSpec`), and is every snapshot sound? |
| `reading_live` | holds | with half seconds: does reading end when the reader vanishes, is no page booked twice by a second or more, is a section expired only when it is over? |
| `reading_move` | violated | do sections stay inside the program's window? |
| `reading_subsecond` | violated | is no page booked twice with times that are not whole seconds? |
| `review` | holds | one live review, verdicts with decisions, independence, finality, leases |
| `review_dispute` | violated | is the resolution of an untouched dispute stored? |
| `outbox` | holds | one dispatcher, at most one success, bounded retries, back-off, no starvation |
| `outbox_recovery` | violated | is work recovered whose worker died? |
| `accounts` | holds | does a dead session ever admit a request, is a revocation ever undone, are touches throttled? |
| `enrollment` | holds | capacity, members, idempotency records and answers |
| `enrollment_review` | violated | can a program go to review once its reading is over? |

The five violated runs are disagreements between the repository's own words
and its code (`findings` in `PROJECT.json`):

1. `MoveReservation` never compares the new window with the program's.
2. `formatTime` writes RFC3339 with a variable number of fraction digits, and
   `05Z` sorts after `05.5Z`; the conflict query misses an overlap.
3. `ResolveDispute` guards its UPDATE with a version raised in memory by
   `Assign`, so an open dispute cannot be resolved. A claim in dispute can
   still be reassigned and judged again; its dispute stays open behind it.
   `OneLiveReview` partly depends on this: if the resolution committed, it
   could tie a claim to a review other than the undecided one.
4. `ClaimOutbox` does not look at `leased` rows, so an event whose worker died
   stays leased. `HandledOnce` depends on this: with the obvious repair an
   event can be handled twice (that repair is the mutant
   `ClaimableOrExpired`), and handlers would have to be idempotent.
5. `ReadyForReview` wants at least one active member and no member who is not
   completed or withdrawn. An active member is neither, so no program ever goes
   to review, and the seminar and the archive are out of reach.

### Bounds and why they are enough

* `section_ledger`: three sections, two sessions, two pages, four ranges (one
  invalid), four windows that overlap, touch or are empty. Conflicts are between
  pairs, and a session belongs to one section. One member: conflicts do not look
  at the member, and the theorems cover any number of them.
* `reading`: two clients and the worker on two sections of one member, with
  batches of one row. Two requests race for one row, with a third party in the
  worker; a third request would only repeat one of these races. The
  theorems cover the rest. The type invariant of the ledger is checked here and
  in `reading_live` (`TypeOK` contains it), so `section_ledger` does not repeat it.
* `reading_live`: one client at two ticks a second. Times with and without a
  fraction occur, so a conflict query and an expiry listing may be wrong by half
  a second; what is left of the promises is checked.
* `reading_move`, `reading_subsecond`: one client; two ticks are a second in
  the latter, so that one of two instants has a fraction.
* `review`: two clients, one claim, two reviews and two workers: enough for a
  claim to be rejected, disputed and reviewed anew, and for a lease of two ticks
  to be renewed, to run out and to be taken over. Claims do not interact.
* `outbox`: two workers, two events, two attempts and time enough for one
  back-off and for a lease to run out. At two ticks a second
  `CompletionUnexpired` fails too, for the reason of finding 2; the run uses
  whole seconds.
* `enrollment`: one program, a coordinator and two members, capacities two and
  three, two keys and two bodies, two requests at once. Programs do not interact
  except through keys, whose clash between two users of one program is covered.
* `accounts`: two accounts, two sessions, two requests in flight, a session that
  lives two ticks, a touch interval of one and a horizon of four: enough for a
  session to expire, for its expiry and its touch to race, for a logout or a
  deactivation between any two steps of an authentication, and for a login
  after it. No fairness: nothing here has to happen.

Symmetry is used only in runs that check no liveness. `CHECK_DEADLOCK` is off
in all configurations: the clock stops at its bound and finished rows accept no
operation, so the bounded system really stops.

### Fairness

* Time passes: `WF` of `Tick`.
* `Runtime.loop` calls each task at once and at every tick of its interval
  until the process stops: `WF` of the worker's listing in `Reading`, and of
  `Run(w)` in `Outbox`.
* `SF` of `ExpireNext` and of `ClaimOutbox` say that a pass is not stopped just
  before its one statement every time. A stop is an exceptional event (a
  cancelled context, a failed statement, a crash), and after each the next pass
  starts afresh.
* Clients get no fairness. `ReadingEnds` holds though no reader ever comes back.

## 4. Proofs

All proofs are for arbitrary sets of identities, members and clients, arbitrary
inputs and arbitrary bounds. They rest on the named assumptions of the modules:
`Nil` is not an identity, the bounds are natural numbers, inputs are page
ranges and windows, a second has 1, 2, 5 or 10 ticks (the resolutions whose
fractions are one decimal digit, which `TextKey` models), the set of users is
finite. Every invariant and every action property of a run that holds is also a
theorem, and so are the three refinements. Where a statement is true only of
times that are whole seconds the theorem says so (`ASSUME TicksPerSecond = 1`),
and a second theorem says what is left of it at every resolution.

`PersistedTimeProofs`

* `TextOrder`: a time whose persisted text is not after another's is less than a
  second after it. This is the exact damage of finding 2, and the lemma that
  everything below about fractions of a second rests on. With whole seconds
  (`WholeSecondKeys`) text order is time order.

`SectionLedgerProofs`

* `LedgerTypeCorrect`: `LedgerTypeOK` is inductive.
* What an operation writes does not depend on how times compare; only whether a
  section is free, or over, does. `UntimedNext` is the ledger without these two
  guards, and whatever it keeps is kept by the ledger and by the service, at
  every resolution of time. The following are proved of it:
  * `SectionsAgree`: lease owner, session state, section state and evidence.
    None of the four invariants is inductive alone: that `Submit` keeps sessions
    consistent needs that the section belongs to that session and to no other
    (`LeaseBelongsToReader`), which in turn needs that its session is active
    (`SessionMatchesAssignment`). Their conjunction `Agreement` is inductive.
    `ReadersHoldLeases`, `SessionsMatchSections`, `SubmissionsHaveSessions` and
    `EvidenceStaysInside` state its parts one by one.
  * `TerminalStaysFinal`: an action property.
  * `VersionsMove`: `VersionsAdvance`. It needs `AbsentUnversioned`, that an
    unused identity has version 0, so that an insert is a change of version too,
    and `ReservedUnleased`, that a reservation has no lease time.
* `BookingsExclusive`: `NoDoubleBooking`. `ClashBy(a, b, d)` is two sections
  that share a page and each begin `d` or more before the other ends; for `d` = 1
  it is the domain's conflict. A booking writes a row that clashes with no other
  (`ClearWrite`); every other operation keeps pages and window and makes no
  inactive row active (`KeptSlotClear`). The same lemmas, with `d` a second,
  serve the service.

`ReadingProofs`

* `TypeCorrect`.
* `SnapshotsFresh`: a row whose version is the one a handler read is still the
  row it read. The inductive invariant `Inductive` adds that versions seen are
  not ahead of the table (in `FreshRequest`), that unused identities
  have version 0 (`AbsentUnversioned`), that what `Begin...` checked still
  holds of the snapshot (`RequestsValid`) and the same for the worker's batch
  (`SweepValid`). The step rests on `StepAdvances`: every write of a row raises
  its version.
* With the snapshots fresh every commit is an operation on the current rows:
  `StepUntimed`, every step of the service is a step of `UntimedNext` or a
  stutter. Hence, at every resolution of time, `ServiceAgrees` (the four
  invariants of the ledger), `ServiceKeepsTerminal` and `ServiceMovesVersions`.
* `SectionsReadOnce`: no section is ever read by two sessions. A session stays
  with its section and a new one is opened only for a section that has none
  (`ReadersStay`). The proof is of `UntimedNext`, whose `Start` has no guard for
  `UNIQUE (assignment_id)`, so that constraint never turns away a start whose
  section is still reserved; in `CommitStart` it is a second line of defence.
* `NoSecondSharedEver`: `NoSecondBookedTwice`. The conflict query overlooks no
  clash of a second or more (`QueryFindsClashes`, from `TextOrder`).
* `ExpiriesDue`: `ExpiryIsDue`, at every resolution. Handlers expire nothing;
  the worker expires a row that is still the one it listed, and reads its clock
  before the listing.
* `ReadingImplementsLedger`: every commit is the atomic operation of the ledger
  and everything else stutters. It assumes `TicksPerSecond = 1`, where text order
  is time order; `reading_subsecond` shows the assumption cannot be dropped.
  `ReadingNeverDoubleBooks` is `NoDoubleBooking` under the same assumption, a
  corollary of `NoSecondSharedEver`.
* `OnlyMovesStray` is the extent of finding 1: a section comes to lie outside
  the program's window by the commit of a move and by nothing else, whatever is
  in flight. It needs that a reservation in flight was checked against the
  program (in `ValidRequest`) and that sessions and expiries keep windows.

`FencedLeaseProofs`

* What every fenced lease guarantees, from nothing but `LeaseSpec`, naturals for
  deadlines and a `Nobody` who is no owner. `LeaseSteps`: a step leaves a resource
  alone, grants it under the next token, prolongs its lease or gives it back.
* `TokenNamesHolder`: a token names one holder for ever. `SpentTokensStaySpent`: a
  lease that is over comes back only under a higher token. `NoTakeoverInTime`: a
  holder loses the resource to another only when its lease is over.
  `SettledForEver`: what is settled is never held again.
* `ReviewProofs` and `OutboxProofs` inherit this through their refinements: their
  steps are steps of the lease, so `LeaseSteps` applies to them.
* It does not promise that only the owner gives a resource back, nor that the
  owner does so in time: `FailOutbox` stores a failure after the lease as well.
  That a decision or a completion is the unexpired owner's is said where it
  holds: `OwnersDecide` in `ReviewProofs`, `CompletionUnexpired` with
  `OwnersComplete` in `OutboxProofs`.

`ReviewProofs`

* The inductive invariant `IInv` is `TypeOK`, a statement about each claim and
  each review (`ClaimSound`, `ReviewSound`), `IndependentReview`, and what a
  request in flight knows (`RequestSound`): a row whose version is the one it
  read is the row it read, and what the handler checked holds of that row.
* `OneReviewLives` is the reason for the shape of `ClaimSound`: a claim points
  to its one live review, so two handlers that assign the same claim meet at
  the version of the claim, and two that decide the same review at the version
  of the review.
* `VerdictsHaveDecisions`, `ReviewsIndependent`, `ReadRowsFresh`,
  `VerdictsAreFinal`.
* `OwnersDecide`: a decision is recorded by the owner stored at that very step,
  under the stored token and before the stored deadline, for the claim that
  waits for it (README: "Completion is accepted only from the current unexpired
  owner"). The handler checked all this against the row it read; the version
  guard carries it to the commit.
* `ResolveChangesNothing` and `DisputesNeverEnd` are finding 3 for every
  instance: a dispute is absent, or open with version 1, in every reachable
  state, so the guard of the resolution never matches; one that is opened stays
  open for ever and no claim is ever resolved.
* `ReviewsAreFenced`: the leases implement `FencedLease`. A claim grants, a
  renewal renews, a decision releases, everything else stutters. Hence
  `TokenNamesReviewer`: the token a request carries names whose lease it was.

`OutboxProofs`

* `IInv` says of each worker that one at work owns the event it works on, under
  the token it was given (`HoldsEvent`), with a clock that is not ahead
  (`Timely`), and of each event that its state, owner, attempts and successes
  agree (`Consistent`). `OneDispatcherAlways`, `HandledAtMostOnce` and
  `RetriesAreBounded` follow. A leased event is left only by its owner; that is
  why `HandledOnce` holds, and why finding 4 is its price. `DueAfterFailure` ties
  the retry time, first in the worker's hands and then in the row, to the failure
  of the last attempt; an event that waits for a retry has no other retry time.
* `OwnersComplete` and `RetriesWait` (whole seconds: both compare persisted
  text); `OwnersCompleteAlmost` and `RetriesAlmostWait` at every resolution: a
  completion less than a second after the deadline and never by another than the
  owner; a retry never without a failure of the attempt before it, and less than
  a second before the back-off counted from that failure is over.
* `OrphansAreNeverRecovered` is finding 4 for every instance: a leased event
  that no worker holds (`Orphaned`) stays leased for ever, however many workers
  restart. `OrphanStep` shows that no step touches it.
* `EventsAreFenced`: the leases implement `FencedLease`. Hence
  `TokenNamesDispatcher`: the token of a claim names one worker for ever, so that
  the owner and token in the `WHERE` of an UPDATE tell a late answer from others.

`EnrollmentProofs`

* Members only come: no operation withdraws one, so counts never fall (`Grows`)
  and whatever a request has counted stays a lower bound. That carries
  `RunningProgramsHaveMembers`, though the members are counted before the
  transaction, `RecordedKeysNameMembers` and `AnsweredMembersExist`.
  `CapacityNeverExceeded` is about cardinalities (`EnterFacts`, `CountGrows`, from
  the theorems on finite sets) and holds because joins and batches count inside
  their transactions. `EntriesInTime` is the action property; `WhoEnters` names
  the ways into a program: a join or a batch while it enrolls, and its creation.
* `MembershipsLast`: a membership that is stored, or that a caller was told of,
  is one for ever.
* `KeysStandForOneJoin`: the record of an idempotency key is never replaced
  (`KeyStep`), by a retry with another body or by a join elsewhere, and
  the membership it stands for stays. Nothing in the code deletes records.
* `ProgramsMoveForward`: transitions that overlap do not overtake each other; a
  program goes from draft over enrolling to active, one version at a time, and
  keeps its coordinator and its capacity.
* `ReviewIsNeverReached` is finding 5 for every instance: no program is ever in
  review, and an active program is active for ever. `NeverReady` is the reason:
  no member completes or withdraws, so the active members it asks for are the
  incomplete ones it refuses.

`AccountsProofs`

* `SeenRowsFresh`: what a request has seen of a session differs from the stored
  row of the same version at most in the mark of expiry. A guard on the version
  alone does not give that the row is unchanged, because expiry is stored
  without a new version; `GuardedRow` says what it does give.
* `DeadSessionsRefused`: a request that began under a dead session carries the
  evidence for it (a revoked or expired row, a deadline that is past, or an
  inactive account) until it is refused. Accounts are never made active again
  (`DeactivationPersists`).
* `DeadSessionsAdmitNobody` says the same without the history variable: once a
  session is dead it is dead for ever (no step moves its deadline or its
  account), and no client that is not in the middle of a request under it comes
  further with it than the check.
* `RevocationPersists`, `TouchesThrottled`.

**Only model-checked:** liveness under fairness (`ReadingEnds`, `DueIsClaimed`),
which is beyond TLAPS here, as is anything about `ENABLED`. The five violated
runs are counterexamples. A counterexample shows that something can happen in
one instance; that no instance escapes findings 3, 4 and 5 (`DisputesNeverEnd`,
`OrphansAreNeverRecovered`, `ReviewIsNeverReached`), and how far findings 1 and 2
reach (`OnlyMovesStray`, `TextOrder`), are theorems.

## 5. Not modelled

* Seminar and archive: their entry condition is never met (finding 5). Modelling
  them would mean modelling a program that the code does not run.
* The open dispute behind a second verdict (claim.go:58): it matters only to
  the readiness of the program, which is never granted anyway (finding 5).
* Passwords, tokens and their hashes: whoever logs in is taken to know the
  password, whoever authenticates to hold the token of some stored session.
* The works and editions of the catalogue: single inserts guarded by unique
  keys; `RetireEdition` has no caller outside its package.
* The HTTP layer, audit rows, configuration, identity generation: no decisions.
* SQLite: its isolation is taken as given. The pragmas are set on one
  connection of the pool only (`storage/sqlite/store.go`, `configure`); what
  the other connections do without `busy_timeout` and `foreign_keys` is left
  out. A missing time-out only makes `Fail` more frequent.

## 6. Plan

Done, in this order: `SectionLedger`, `PersistedTime`, `Reading`, their proofs,
`FencedLease`, `Review`, `Outbox`, `Enrollment`, `Accounts`, the proofs of the
last four, then what holds at every resolution of time and the five findings as
theorems.

Left to prove: nothing that a run checks and the provers can reach. What could
still be said for every instance are statements no run asks, for example the
order in which the outbox claims events that are due.

Worth doing when the code changes:

1. If `ReadyForReview` is repaired: a module `Study` composing readiness over
   reading, review and enrollment in place of the input `open` of the review
   request, and then the seminar agenda and the archive, which wait behind it.
   An archive job counts its own lease as an active worker lease in that
   readiness (`archive.go:101`); this is the first property to state there.
2. If `ClaimOutbox` takes expired leases: `HandledOnce` becomes false; state
   instead that a handler is run again only after its lease is over.
3. If `ResolveDispute` is repaired: `OneLiveReview` must be proved again with
   a resolution that commits; its claim has to point to the review it assigns.
