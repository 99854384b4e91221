-------------------------------- MODULE Review --------------------------------
(***************************************************************************)
(* Independent review of quotation claims: internal/service/review.go over *)
(* internal/domain/evidence (claims, disputes), internal/domain/review     *)
(* (review assignments, decisions) and the SQLite store.                   *)
(*                                                                         *)
(* As in module Reading, a handler reads its rows and the clock outside    *)
(* the transaction (Begin*, held in request[c]) and commits updates        *)
(* guarded by the versions it read, or fails without a trace.              *)
(***************************************************************************)
EXTENDS Integers

CONSTANTS
  ClaimIds,      \* quotation_claims rows, submitted and pending at the start
  ReviewIds,     \* identities of review_assignments rows
  Users,         \* accounts
  Author,        \* the researcher who wrote the claims
  Reviewers,     \* accounts for which User.CanReview holds
  Workers,       \* worker names a reviewer's client may send
  Clients,       \* requests that can be in flight at the same time
  Nil,           \* the empty string
  LeaseTTL,      \* ReviewService.LeaseTTL, in ticks
  Horizon,       \* bound: the clock stops here
  MaxVersion     \* bound: a review row of this version is not leased again

ASSUME PeopleAssumption == Author \in Users /\ Reviewers \subseteq Users

ASSUME NilAssumption == Nil \notin ClaimIds \cup ReviewIds \cup Users \cup Workers

ASSUME BoundsAssumption ==
  LeaseTTL \in Nat \ {0} /\ Horizon \in Nat \ {0} /\ MaxVersion \in Nat \ {0}

VARIABLES
  clock,       \* the system clock, from 1
  claims,      \* quotation_claims
  reviews,     \* review_assignments; unused identities are absent
  decisions,   \* review_decisions: the outcome recorded for a review, if any
  disputes,    \* claim_disputes; at most one for a claim
  request      \* what each client's handler holds between its reads and its tx

vars == <<clock, claims, reviews, decisions, disputes, request>>

NoTime == 0

-----------------------------------------------------------------------------
(* Rows *)

Claim ==
  [state : {"pending", "assigned", "verified", "rejected", "disputed",
            "resolved"},
   review : ReviewIds \cup {Nil}, version : Nat]

\* No code stores the states expired and cancelled.
Review ==
  [state : {"absent", "queued", "leased", "decided"},
   claim : ClaimIds \cup {Nil}, reviewer : Users \cup {Nil},
   owner : Workers \cup {Nil}, token : Nat, until : Nat, version : Nat]

Outcome == {"verified", "rejected"}

Dispute ==
  [state : {"absent", "open", "assigned", "upheld", "denied"},
   resolver : Users \cup {Nil}, version : Nat]

PendingClaim == [state |-> "pending", review |-> Nil, version |-> 1]
NoReview ==
  [state |-> "absent", claim |-> Nil, reviewer |-> Nil, owner |-> Nil,
   token |-> 0, until |-> NoTime, version |-> 0]
NoDispute == [state |-> "absent", resolver |-> Nil, version |-> 0]

NewReview(claim, user) ==
  [NoReview EXCEPT !.state = "queued", !.claim = claim, !.reviewer = user,
                   !.version = 1]

AssignedClaim(row, review) ==
  [row EXCEPT !.state = "assigned", !.review = review, !.version = @ + 1]

DecidedClaim(row, outcome) ==
  [row EXCEPT !.state = outcome, !.version = @ + 1]

DisputedClaim(row) ==
  [row EXCEPT !.state = "disputed", !.review = Nil, !.version = @ + 1]

ResolvedClaim(row) ==
  [row EXCEPT !.state = "resolved", !.version = @ + 1]

LeasedReview(row, worker, now) ==
  [row EXCEPT !.state = "leased", !.owner = worker, !.token = @ + 1,
              !.until = now + LeaseTTL, !.version = @ + 1]

\* Mutant of RenewedReview: the version stays.
RenewedUnversioned(row, now) == [row EXCEPT !.until = now + LeaseTTL]

RenewedReview(row, now) ==
  [row EXCEPT !.until = now + LeaseTTL, !.version = @ + 1]

DecidedReview(row) ==
  [row EXCEPT !.state = "decided", !.owner = Nil, !.until = NoTime,
              !.version = @ + 1]

\* Mutant of NewDispute: the state of another aggregate.
QueuedDispute == [NoDispute EXCEPT !.state = "queued", !.version = 1]

NewDispute == [NoDispute EXCEPT !.state = "open", !.version = 1]

AssignedDispute(row, user) ==
  [row EXCEPT !.state = "assigned", !.resolver = user, !.version = @ + 1]

ResolvedDispute(row, uphold) ==
  [row EXCEPT !.state = IF uphold THEN "upheld" ELSE "denied",
              !.version = @ + 1]

-----------------------------------------------------------------------------
(* Requests in flight *)

Op == {"idle", "assign", "claim", "renew", "decide", "dispute", "resolve"}

\* seen* are the rows as they were read; now is Clock.Now().
Request ==
  [op : Op, claim : ClaimIds \cup {Nil}, review : ReviewIds \cup {Nil},
   user : Users \cup {Nil}, worker : Workers \cup {Nil},
   accept : BOOLEAN, now : Nat,
   seenClaim : Claim, seenReview : Review, seenDispute : Dispute]

Idle ==
  [op |-> "idle", claim |-> Nil, review |-> Nil, user |-> Nil, worker |-> Nil,
   accept |-> FALSE, now |-> NoTime, seenClaim |-> PendingClaim,
   seenReview |-> NoReview, seenDispute |-> NoDispute]

Init ==
  /\ clock = 1
  /\ claims = [q \in ClaimIds |-> PendingClaim]
  /\ reviews = [v \in ReviewIds |-> NoReview]
  /\ decisions = [v \in ReviewIds |-> "none"]
  /\ disputes = [q \in ClaimIds |-> NoDispute]
  /\ request = [c \in Clients |-> Idle]

Tick ==
  /\ clock < Horizon
  /\ clock' = clock + 1
  /\ UNCHANGED <<claims, reviews, decisions, disputes, request>>

Hold(c, r) ==
  /\ request[c].op = "idle"
  /\ request' = [request EXCEPT ![c] = r]
  /\ UNCHANGED <<clock, claims, reviews, decisions, disputes>>

\* IDs.New never returns an identity twice.
FreshReviewId(v) ==
  /\ reviews[v].state = "absent"
  /\ \A c \in Clients : request[c].op = "assign" => request[c].review # v

-----------------------------------------------------------------------------
(* Reading and validating *)

BeginAssign(c, q, u, v) ==
  /\ FreshReviewId(v)
  /\ u \in Reviewers
  /\ u # Author
  /\ claims[q].state \in {"pending", "disputed"}
  /\ Hold(c, [Idle EXCEPT !.op = "assign", !.claim = q, !.user = u,
                          !.review = v, !.seenClaim = claims[q]])

\* Mutant of BeginClaim: a lease that still runs is not respected.
BeginTakeover(c, v, worker) ==
  LET row == reviews[v] IN
  /\ row.state \in {"queued", "leased"}
  /\ row.version < MaxVersion
  /\ Hold(c, [Idle EXCEPT !.op = "claim", !.review = v, !.worker = worker,
                          !.now = clock, !.seenReview = row])

\* A lease is taken when the review is queued or the last lease is over.
BeginClaim(c, v, worker) ==
  LET row == reviews[v] IN
  /\ row.reviewer \in Reviewers
  /\ row.state \in {"queued", "leased"}
  /\ ~(row.state = "leased" /\ clock < row.until)
  /\ row.version < MaxVersion
  /\ Hold(c, [Idle EXCEPT !.op = "claim", !.review = v, !.worker = worker,
                          !.now = clock, !.seenReview = row])

BeginRenew(c, v, worker, token) ==
  LET row == reviews[v] IN
  /\ row.state = "leased"
  /\ row.owner = worker
  /\ row.token = token
  /\ clock < row.until
  /\ row.version < MaxVersion
  /\ Hold(c, [Idle EXCEPT !.op = "renew", !.review = v, !.worker = worker,
                          !.now = clock, !.seenReview = row])

BeginDecide(c, v, worker, token, accept) ==
  LET row == reviews[v]
      q == row.claim
  IN
  /\ row.state = "leased"
  /\ row.owner = worker
  /\ row.token = token
  /\ clock < row.until
  /\ claims[q].state = "assigned"
  /\ claims[q].review = v
  /\ Hold(c, [Idle EXCEPT !.op = "decide", !.review = v, !.worker = worker,
                          !.claim = q, !.accept = accept, !.now = clock,
                          !.seenReview = row, !.seenClaim = claims[q]])

BeginDispute(c, q) ==
  /\ claims[q].state = "rejected"
  /\ Hold(c, [Idle EXCEPT !.op = "dispute", !.claim = q, !.user = Author,
                          !.seenClaim = claims[q]])

\* v is the review the resolver names in the request; it is only compared
\* with the review of a claim that is not in dispute any more.
BeginResolve(c, q, u, v, uphold) ==
  /\ u \in Reviewers
  /\ u # Author
  /\ \/ disputes[q].state = "open"
     \/ disputes[q].state = "assigned" /\ disputes[q].resolver = u
  /\ \/ claims[q].state = "disputed"
     \/ claims[q].state = "assigned" /\ claims[q].review = v
  /\ Hold(c, [Idle EXCEPT !.op = "resolve", !.claim = q, !.user = u,
                          !.review = v, !.accept = uphold, !.now = clock,
                          !.seenClaim = claims[q],
                          !.seenDispute = disputes[q]])

-----------------------------------------------------------------------------
(* Transactions *)

\* Mutants: UPDATE without the version.
ClaimExists(r) == r.claim \in ClaimIds
ReviewExists(r) == reviews[r.review].state # "absent"

ClaimUnchanged(r) == claims[r.claim].version = r.seenClaim.version
ReviewUnchanged(r) == reviews[r.review].version = r.seenReview.version

WriteClaim(q, row) == claims' = [claims EXCEPT ![q] = row]
WriteReview(v, row) == reviews' = [reviews EXCEPT ![v] = row]

Answer(c) ==
  /\ request' = [request EXCEPT ![c] = Idle]
  /\ UNCHANGED clock

\* Mutant of NeverReviewed: only reviews that are not decided count.
NotReviewing(q, u) ==
  \A v \in ReviewIds :
    reviews[v].state \in {"queued", "leased"} =>
      ~(reviews[v].claim = q /\ reviews[v].reviewer = u)

\* UNIQUE (tenant_id, claim_id, reviewer_id)
NeverReviewed(q, u) ==
  \A v \in ReviewIds :
    reviews[v].state # "absent" =>
      ~(reviews[v].claim = q /\ reviews[v].reviewer = u)

CommitAssign(c) ==
  LET r == request[c] IN
  /\ r.op = "assign"
  /\ ClaimUnchanged(r)
  /\ reviews[r.review].state = "absent"      \* PRIMARY KEY
  /\ NeverReviewed(r.claim, r.user)
  /\ WriteReview(r.review, NewReview(r.claim, r.user))
  /\ WriteClaim(r.claim, AssignedClaim(r.seenClaim, r.review))
  /\ UNCHANGED <<decisions, disputes>>
  /\ Answer(c)

\* Claim and Renew are single statements outside a transaction.
CommitClaim(c) ==
  LET r == request[c] IN
  /\ r.op = "claim"
  /\ ReviewUnchanged(r)
  /\ WriteReview(r.review, LeasedReview(r.seenReview, r.worker, r.now))
  /\ UNCHANGED <<claims, decisions, disputes>>
  /\ Answer(c)

CommitRenew(c) ==
  LET r == request[c] IN
  /\ r.op = "renew"
  /\ ReviewUnchanged(r)
  /\ WriteReview(r.review, RenewedReview(r.seenReview, r.now))
  /\ UNCHANGED <<claims, decisions, disputes>>
  /\ Answer(c)

CommitDecide(c) ==
  LET r == request[c]
      outcome == IF r.accept THEN "verified" ELSE "rejected"
  IN
  /\ r.op = "decide"
  /\ ReviewUnchanged(r)
  /\ reviews[r.review].owner = r.worker
  /\ reviews[r.review].token = r.seenReview.token
  /\ ClaimUnchanged(r)
  /\ decisions[r.review] = "none"            \* UNIQUE
  /\ WriteReview(r.review, DecidedReview(r.seenReview))
  /\ WriteClaim(r.claim, DecidedClaim(r.seenClaim, outcome))
  /\ decisions' = [decisions EXCEPT ![r.review] = outcome]
  /\ UNCHANGED disputes
  /\ Answer(c)

CommitDispute(c) ==
  LET r == request[c] IN
  /\ r.op = "dispute"
  /\ ClaimUnchanged(r)
  /\ disputes[r.claim].state = "absent"      \* UNIQUE
  /\ WriteClaim(r.claim, DisputedClaim(r.seenClaim))
  /\ disputes' = [disputes EXCEPT ![r.claim] = NewDispute]
  /\ UNCHANGED <<reviews, decisions>>
  /\ Answer(c)

\* The dispute as ResolveDispute holds it when it takes disputeVersion: an
\* open one has already been assigned to the resolver, in memory.
HeldDispute(r) ==
  IF r.seenDispute.state = "open"
  THEN AssignedDispute(r.seenDispute, r.user)
  ELSE r.seenDispute

\* A claim still in dispute is assigned to the named review and resolved.
HeldClaim(r) ==
  IF r.seenClaim.state = "disputed"
  THEN AssignedClaim(r.seenClaim, r.review)
  ELSE r.seenClaim

FinishResolve(c) ==
  LET r == request[c] IN
  /\ r.op = "resolve"
  /\ IF /\ disputes[r.claim].version = HeldDispute(r).version
        /\ ClaimUnchanged(r)
     THEN /\ disputes' = [disputes EXCEPT ![r.claim] =
                            ResolvedDispute(HeldDispute(r), r.accept)]
          /\ WriteClaim(r.claim, ResolvedClaim(HeldClaim(r)))
     ELSE UNCHANGED <<claims, disputes>>     \* version_conflict
  /\ UNCHANGED <<reviews, decisions>>
  /\ Answer(c)

\* The transaction is rolled back, or the client or the process went away.
Fail(c) ==
  /\ request[c].op # "idle"
  /\ UNCHANGED <<claims, reviews, decisions, disputes>>
  /\ Answer(c)

-----------------------------------------------------------------------------
Begin(c) ==
  \/ \E q \in ClaimIds, v \in ReviewIds, u \in Users :
       \/ BeginAssign(c, q, u, v)
       \/ \E uphold \in BOOLEAN : BeginResolve(c, q, u, v, uphold)
  \/ \E v \in ReviewIds, worker \in Workers :
       \/ BeginClaim(c, v, worker)
       \/ \E token \in 1 .. MaxVersion :
            \/ BeginRenew(c, v, worker, token)
            \/ \E accept \in BOOLEAN : BeginDecide(c, v, worker, token, accept)
  \/ \E q \in ClaimIds : BeginDispute(c, q)

Commit(c) ==
  \/ CommitAssign(c)
  \/ CommitClaim(c)
  \/ CommitRenew(c)
  \/ CommitDecide(c)
  \/ CommitDispute(c)
  \/ FinishResolve(c)

Next ==
  \/ Tick
  \/ \E c \in Clients : Begin(c) \/ Commit(c) \/ Fail(c)

Spec == Init /\ [][Next]_vars

-----------------------------------------------------------------------------
(* Correctness *)

\* Every variable holds rows and requests of the shapes above.
TypeOK ==
  /\ clock \in 1 .. Horizon
  /\ claims \in [ClaimIds -> Claim]
  /\ reviews \in [ReviewIds -> Review]
  /\ decisions \in [ReviewIds -> Outcome \cup {"none"}]
  /\ disputes \in [ClaimIds -> Dispute]
  /\ request \in [Clients -> Request]

Live(v) == reviews[v].state \in {"queued", "leased"}

\* A claim under review has exactly one undecided review, the one it points
\* to, and a claim that is not under review has none: no reviewer is left
\* with a lease whose decision the claim would refuse.
OneLiveReview ==
  \A q \in ClaimIds, v \in ReviewIds :
    (Live(v) /\ reviews[v].claim = q)
      <=> (claims[q].state = "assigned" /\ claims[q].review = v)

\* The claim, the review and the recorded decision tell the same story:
\* exactly the decided reviews have a decision, a verdict on a claim is the
\* decision of its current review, and a dispute is about a rejection.
VerdictHasDecision ==
  /\ \A v \in ReviewIds : reviews[v].state = "decided" <=> decisions[v] # "none"
  /\ \A q \in ClaimIds :
       /\ claims[q].state \in Outcome =>
            LET v == claims[q].review IN
            /\ v \in ReviewIds
            /\ reviews[v].claim = q
            /\ decisions[v] = claims[q].state
       /\ disputes[q].state # "absent" =>
            \E v \in ReviewIds :
              reviews[v].claim = q /\ decisions[v] = "rejected"

\* Independence: no author reviews the own claim, and a claim that comes back
\* from a dispute is not given to a reviewer who has already judged it.
IndependentReview ==
  \A v \in ReviewIds :
    reviews[v].state # "absent" =>
      /\ reviews[v].reviewer # Author
      /\ \A w \in ReviewIds \ {v} :
           reviews[w].claim = reviews[v].claim
             => reviews[w].reviewer # reviews[v].reviewer

\* Optimistic locking: a row whose version did not move since a handler read
\* it is still the row the handler read.
RequestsFresh ==
  \A c \in Clients :
    LET r == request[c] IN
    /\ r.op \in {"claim", "renew", "decide"} /\ ReviewUnchanged(r)
         => reviews[r.review] = r.seenReview
    /\ r.op \in {"assign", "decide", "dispute", "resolve"} /\ ClaimUnchanged(r)
         => claims[r.claim] = r.seenClaim

\* A verified claim and a recorded decision are never changed again, whatever
\* disputes, late decisions and reassignments arrive.
VerdictIsFinal ==
  [][/\ \A q \in ClaimIds :
          claims[q].state = "verified" => claims'[q] = claims[q]
     /\ \A v \in ReviewIds :
          decisions[v] # "none" => decisions'[v] = decisions[v]]_vars

\* A review is leased to one worker at a time and is settled once decided.
LeaseOf(v) ==
  [holder |-> reviews[v].owner, token |-> reviews[v].token,
   until |-> reviews[v].until, settled |-> reviews[v].state = "decided"]

Ownership ==
  INSTANCE FencedLease WITH
    Resources <- ReviewIds, Owners <- Workers, Nobody <- Nil,
    Deadlines <- 1 .. Horizon + LeaseTTL,
    lease <- [v \in ReviewIds |-> LeaseOf(v)]

\* Review assignments implement the fenced lease: nobody takes over a review
\* whose lease runs, although the check was made on a row read earlier.
ReviewIsLeased == Ownership!LeaseSpec

\* A resolution of a dispute that nobody else touched since it was read is
\* stored: "lost optimistic ownership" is for rows somebody else changed.
ResolutionIsStored ==
  [][\A c \in Clients :
       LET r == request[c] IN
       /\ FinishResolve(c)
       /\ disputes[r.claim] = r.seenDispute
       /\ claims[r.claim] = r.seenClaim
       => claims'[r.claim].state = "resolved"]_vars

=============================================================================
