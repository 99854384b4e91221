----------------------------- MODULE ReviewProofs -----------------------------
(***************************************************************************)
(* Proofs about Review, for every set of claims, reviews, accounts,        *)
(* workers and clients, every lease and every horizon.                     *)
(***************************************************************************)
EXTENDS Review, TLAPS

-----------------------------------------------------------------------------
(* The invariant *)

\* A claim points to its review, and its dispute follows a rejection.  No
\* dispute is ever stored as assigned or resolved.
ClaimSound(q) ==
  LET row == claims[q] IN
  /\ row.state # "resolved"
  /\ row.state = "assigned" =>
       /\ row.review \in ReviewIds
       /\ Live(row.review)
       /\ reviews[row.review].claim = q
  /\ row.state \in Outcome =>
       /\ row.review \in ReviewIds
       /\ reviews[row.review].claim = q
       /\ decisions[row.review] = row.state
  /\ disputes[q] \in {NoDispute, NewDispute}
  /\ disputes[q].state # "absent" =>
       \E v \in ReviewIds : reviews[v].claim = q /\ decisions[v] = "rejected"

\* A review that is not decided is the one its claim points to; owner and end
\* of the lease are there while it is leased.
ReviewSound(v) ==
  LET row == reviews[v] IN
  /\ row.state = "absent" => row = NoReview /\ decisions[v] = "none"
  /\ row.state # "absent" =>
       row.claim \in ClaimIds /\ row.reviewer \in Users \ {Author}
  /\ Live(v) =>
       /\ claims[row.claim].state = "assigned"
       /\ claims[row.claim].review = v
       /\ decisions[v] = "none"
  /\ row.state = "decided" => decisions[v] # "none"
  /\ row.state = "leased" =>
       row.owner \in Workers /\ row.until \in 1 .. clock + LeaseTTL
  /\ row.state # "leased" => row.owner = Nil /\ row.until = NoTime

\* What a handler holds, by its operation.
RequestSound(c) ==
  LET r == request[c] IN
  /\ r.op \in {"claim", "renew", "decide"} =>
       /\ r.review \in ReviewIds /\ r.worker \in Workers
       /\ r.now \in 1 .. clock
       /\ r.seenReview.version <= reviews[r.review].version
       /\ ReviewUnchanged(r) => reviews[r.review] = r.seenReview
       /\ r.seenReview.state \in {"queued", "leased"}
  /\ r.op = "claim" => r.seenReview.until <= r.now
  /\ r.op \in {"renew", "decide"} =>
       /\ r.seenReview.state = "leased" /\ r.seenReview.owner = r.worker
       /\ r.now < r.seenReview.until
       /\ r.seenReview.until <= r.now + LeaseTTL
  /\ r.op \in {"assign", "decide", "dispute", "resolve"} =>
       /\ r.claim \in ClaimIds
       /\ r.seenClaim.version <= claims[r.claim].version
       /\ ClaimUnchanged(r) => claims[r.claim] = r.seenClaim
  /\ r.op = "assign" =>
       /\ r.seenClaim.state \in {"pending", "disputed"}
       /\ r.review \in ReviewIds /\ r.user \in Users \ {Author}
  /\ r.op = "decide" =>
       /\ r.seenClaim.state = "assigned" /\ r.seenClaim.review = r.review
       /\ r.seenReview.claim = r.claim
  /\ r.op = "dispute" => r.seenClaim.state = "rejected"
  /\ r.op = "resolve" => r.seenDispute = NewDispute

Tables ==
  /\ \A q \in ClaimIds : ClaimSound(q)
  /\ \A v \in ReviewIds : ReviewSound(v)
  /\ IndependentReview

IInv == TypeOK /\ Tables /\ \A c \in Clients : RequestSound(c)

-----------------------------------------------------------------------------
(* Rows *)

\* The transitions of a claim, field by field.
LEMMA ClaimRows ==
  ASSUME NEW row \in Claim, NEW v \in ReviewIds, NEW outcome \in Outcome
  PROVE  /\ AssignedClaim(row, v) \in Claim
         /\ AssignedClaim(row, v).state = "assigned"
         /\ AssignedClaim(row, v).review = v
         /\ AssignedClaim(row, v).version > row.version
         /\ DecidedClaim(row, outcome) \in Claim
         /\ DecidedClaim(row, outcome).state = outcome
         /\ DecidedClaim(row, outcome).review = row.review
         /\ DecidedClaim(row, outcome).version > row.version
         /\ DisputedClaim(row) \in Claim
         /\ DisputedClaim(row).state = "disputed"
         /\ DisputedClaim(row).version > row.version
<1>1. PICK n \in Nat : n = row.version + 1 /\ n > row.version
  BY DEF Claim
<1>2. LET x == [row EXCEPT !.state = "assigned", !.review = v, !.version = n]
      IN  /\ x \in Claim /\ x.state = "assigned" /\ x.review = v
          /\ x.version = n
  BY DEF Claim
<1>3. LET x == [row EXCEPT !.state = outcome, !.version = n]
      IN  /\ x \in Claim /\ x.state = outcome /\ x.review = row.review
          /\ x.version = n
  BY DEF Claim, Outcome
<1>4. LET x == [row EXCEPT !.state = "disputed", !.review = Nil, !.version = n]
      IN  x \in Claim /\ x.state = "disputed" /\ x.version = n
  BY DEF Claim
<1>5. QED
  BY <1>1, <1>2, <1>3, <1>4 DEF AssignedClaim, DecidedClaim, DisputedClaim

\* Leasing gives a review to one worker under the next token.
LEMMA LeasedFacts ==
  ASSUME NEW row \in Review, NEW worker \in Workers, NEW now \in Nat
  PROVE  /\ LeasedReview(row, worker, now) \in Review
         /\ LeasedReview(row, worker, now).state = "leased"
         /\ LeasedReview(row, worker, now).claim = row.claim
         /\ LeasedReview(row, worker, now).reviewer = row.reviewer
         /\ LeasedReview(row, worker, now).owner = worker
         /\ LeasedReview(row, worker, now).until = now + LeaseTTL
         /\ LeasedReview(row, worker, now).version > row.version
<1>1. PICK n \in Nat : n = row.version + 1 /\ n > row.version
  BY DEF Review
<1>2. PICK t \in Nat : t = row.token + 1
  BY DEF Review
<1>3. PICK u \in Nat : u = now + LeaseTTL
  BY BoundsAssumption DEF BoundsAssumption
<1>4. LET x == [row EXCEPT !.state = "leased", !.owner = worker, !.token = t,
                           !.until = u, !.version = n]
      IN  /\ x \in Review /\ x.state = "leased" /\ x.owner = worker
          /\ x.token = t /\ x.until = u /\ x.version = n
          /\ x.claim = row.claim /\ x.reviewer = row.reviewer
  BY DEF Review
<1>5. QED  BY <1>1, <1>2, <1>3, <1>4 DEF LeasedReview

\* Renewing moves the deadline and nothing else.
LEMMA RenewedFacts ==
  ASSUME NEW row \in Review, NEW now \in Nat
  PROVE  /\ RenewedReview(row, now) \in Review
         /\ RenewedReview(row, now).state = row.state
         /\ RenewedReview(row, now).claim = row.claim
         /\ RenewedReview(row, now).reviewer = row.reviewer
         /\ RenewedReview(row, now).owner = row.owner
         /\ RenewedReview(row, now).token = row.token
         /\ RenewedReview(row, now).until = now + LeaseTTL
         /\ RenewedReview(row, now).version > row.version
<1>1. PICK n \in Nat : n = row.version + 1 /\ n > row.version
  BY DEF Review
<1>2. PICK u \in Nat : u = now + LeaseTTL
  BY BoundsAssumption DEF BoundsAssumption
<1>3. LET x == [row EXCEPT !.until = u, !.version = n]
      IN  /\ x \in Review /\ x.state = row.state /\ x.owner = row.owner
          /\ x.token = row.token /\ x.until = u /\ x.version = n
          /\ x.claim = row.claim /\ x.reviewer = row.reviewer
  BY DEF Review
<1>4. QED  BY <1>1, <1>2, <1>3 DEF RenewedReview

\* Deciding ends the lease.
LEMMA DecidedFacts ==
  ASSUME NEW row \in Review
  PROVE  /\ DecidedReview(row) \in Review
         /\ DecidedReview(row).state = "decided"
         /\ DecidedReview(row).claim = row.claim
         /\ DecidedReview(row).reviewer = row.reviewer
         /\ DecidedReview(row).owner = Nil
         /\ DecidedReview(row).token = row.token
         /\ DecidedReview(row).until = NoTime
         /\ DecidedReview(row).version > row.version
<1>1. PICK n \in Nat : n = row.version + 1 /\ n > row.version
  BY DEF Review
<1>2. LET x == [row EXCEPT !.state = "decided", !.owner = Nil,
                           !.until = NoTime, !.version = n]
      IN  /\ x \in Review /\ x.state = "decided" /\ x.owner = Nil
          /\ x.token = row.token /\ x.until = NoTime /\ x.version = n
          /\ x.claim = row.claim /\ x.reviewer = row.reviewer
  BY DEF Review, NoTime
<1>3. QED  BY <1>1, <1>2 DEF DecidedReview

\* New rows, and empty ones.
LEMMA NewRows ==
  /\ NoReview \in Review /\ NoReview.state = "absent" /\ NoReview.claim = Nil
  /\ NoReview.owner = Nil /\ NoReview.until = NoTime /\ NoReview.version = 0
  /\ NoReview.token = 0
  /\ PendingClaim \in Claim /\ PendingClaim.state = "pending"
  /\ NoDispute \in Dispute /\ NoDispute.state = "absent"
  /\ NewDispute \in Dispute /\ NewDispute.state = "open"
  /\ NewDispute.version = 1
  /\ Idle \in Request /\ Idle.op = "idle"
<1>1. /\ NoReview \in Review /\ NoReview.state = "absent"
      /\ NoReview.claim = Nil /\ NoReview.owner = Nil
      /\ NoReview.until = NoTime /\ NoReview.version = 0
      /\ NoReview.token = 0
  BY DEF NoReview, Review, NoTime
<1>2. PendingClaim \in Claim /\ PendingClaim.state = "pending"
  BY DEF PendingClaim, Claim
<1>3. NoDispute \in Dispute /\ NoDispute.state = "absent"
  BY DEF NoDispute, Dispute
<1>4. /\ NewDispute \in Dispute /\ NewDispute.state = "open"
      /\ NewDispute.version = 1
  BY <1>3 DEF NewDispute, Dispute
<1>5. Idle \in Request /\ Idle.op = "idle"
  BY <1>1, <1>2, <1>3 DEF Idle, Request, Op, NoTime
<1>6. QED  BY <1>1, <1>2, <1>3, <1>4, <1>5

\* A queued review belongs to nobody yet.
LEMMA NewReviewRow ==
  ASSUME NEW q \in ClaimIds, NEW u \in Users
  PROVE  /\ NewReview(q, u) \in Review
         /\ NewReview(q, u).state = "queued" /\ NewReview(q, u).claim = q
         /\ NewReview(q, u).reviewer = u /\ NewReview(q, u).owner = Nil
         /\ NewReview(q, u).until = NoTime /\ NewReview(q, u).version = 1
         /\ NewReview(q, u).token = 0
  BY NewRows DEF NewReview, Review

-----------------------------------------------------------------------------
(* Preliminaries *)

\* What every step does to the rows a handler may have read: none changes
\* without a new version, and time does not go back.
Later ==
  /\ \A q \in ClaimIds :
       claims'[q] = claims[q] \/ claims'[q].version > claims[q].version
  /\ \A v \in ReviewIds :
       reviews'[v] = reviews[v] \/ reviews'[v].version > reviews[v].version
  /\ clock \in Nat /\ clock' \in Nat /\ clock <= clock'

\* What a handler knows stays true meanwhile.
LEMMA RequestKept ==
  ASSUME IInv, TypeOK', Later, NEW d \in Clients, request'[d] = request[d]
  PROVE  RequestSound(d)'
<1> DEFINE r == request[d]
<1>0. PICK v, q : v = r.review /\ q = r.claim
  OBVIOUS
<1>1. RequestSound(d) /\ r \in Request
  BY DEF IInv, TypeOK
<1>2. ASSUME v \in ReviewIds
      PROVE  /\ reviews[v].version \in Nat /\ reviews'[v].version \in Nat
             /\ r.seenReview.version \in Nat
             /\ reviews'[v] = reviews[v]
                \/ reviews'[v].version > reviews[v].version
  BY <1>1, <1>2 DEF IInv, TypeOK, Review, Request, Later
<1>3. ASSUME q \in ClaimIds
      PROVE  /\ claims[q].version \in Nat /\ claims'[q].version \in Nat
             /\ r.seenClaim.version \in Nat
             /\ claims'[q] = claims[q]
                \/ claims'[q].version > claims[q].version
  BY <1>1, <1>3 DEF IInv, TypeOK, Claim, Request, Later
<1>4. r.op \in {"claim", "renew", "decide"} =>
        /\ r.now \in 1 .. clock'
        /\ r.seenReview.version <= reviews'[v].version
        /\ reviews'[v].version = r.seenReview.version
             => reviews'[v] = r.seenReview
  BY <1>0, <1>1, <1>2 DEF RequestSound, ReviewUnchanged, Later
<1>5. r.op \in {"assign", "decide", "dispute", "resolve"} =>
        /\ r.seenClaim.version <= claims'[q].version
        /\ claims'[q].version = r.seenClaim.version
             => claims'[q] = r.seenClaim
  BY <1>0, <1>1, <1>3 DEF RequestSound, ClaimUnchanged
<1>6. QED
  BY <1>0, <1>1, <1>4, <1>5 DEF RequestSound, ReviewUnchanged, ClaimUnchanged

\* The tables stay as they are while time may pass.
LEMMA TablesKept ==
  ASSUME IInv, UNCHANGED <<claims, reviews, decisions, disputes>>,
         clock \in Nat, clock' \in Nat, clock <= clock'
  PROVE  Tables' /\ Later
<1>1. ASSUME NEW q \in ClaimIds  PROVE ClaimSound(q)'
  BY DEF IInv, Tables, ClaimSound, Live
<1>2. ASSUME NEW v \in ReviewIds  PROVE ReviewSound(v)'
  <2>1. reviews[v].state = "leased" => reviews[v].until \in 1 .. clock' + LeaseTTL
    BY BoundsAssumption DEF IInv, Tables, ReviewSound, BoundsAssumption
  <2>2. QED  BY <2>1 DEF IInv, Tables, ReviewSound, Live
<1>3. QED  BY <1>1, <1>2 DEF IInv, Tables, IndependentReview, Later

\* A handler that is done holds nothing.
LEMMA AnswerStep ==
  ASSUME IInv, Later, NEW c \in Clients, Answer(c), Tables',
         claims' \in [ClaimIds -> Claim], reviews' \in [ReviewIds -> Review],
         decisions' \in [ReviewIds -> Outcome \cup {"none"}],
         disputes' \in [ClaimIds -> Dispute]
  PROVE  IInv'
<1>1. TypeOK'
  BY NewRows DEF IInv, TypeOK, Answer
<1>2. ASSUME NEW d \in Clients  PROVE RequestSound(d)'
  <2>1. CASE d = c
    <3>1. request'[d].op = "idle"
      BY <2>1, NewRows DEF IInv, TypeOK, Answer
    <3>2. QED  BY <3>1 DEF RequestSound
  <2>2. CASE d # c
    <3>1. request'[d] = request[d]
      BY <2>2 DEF IInv, TypeOK, Answer
    <3>2. QED  BY <1>1, <3>1, RequestKept
  <2>3. QED  BY <2>1, <2>2
<1>3. QED  BY <1>1, <1>2 DEF IInv

\* A handler that has read what it needs.
LEMMA HoldStep ==
  ASSUME IInv, NEW c \in Clients, NEW r \in Request, Hold(c, r),
         RequestSound(c)'
  PROVE  IInv'
<1>1. TypeOK' /\ clock \in Nat
  BY DEF Hold, IInv, TypeOK
<1>2. Tables' /\ Later
  BY <1>1, TablesKept DEF Hold
<1>3. ASSUME NEW d \in Clients, d # c  PROVE RequestSound(d)'
  <2>1. request'[d] = request[d]
    BY <1>3 DEF Hold, IInv, TypeOK
  <2>2. QED  BY <1>1, <1>2, <2>1, RequestKept
<1>4. QED  BY <1>1, <1>2, <1>3 DEF IInv

-----------------------------------------------------------------------------
(* Reading *)

\* Until its transaction a handler only reads.
LEMMA BeginOnlyReads ==
  ASSUME NEW c \in Clients, Begin(c)
  PROVE  UNCHANGED <<clock, claims, reviews, decisions, disputes>>
<1>1. ASSUME NEW r, Hold(c, r)
      PROVE  UNCHANGED <<clock, claims, reviews, decisions, disputes>>
  BY <1>1 DEF Hold
<1>2. ASSUME NEW q, NEW u, NEW v, BeginAssign(c, q, u, v)
      PROVE  UNCHANGED <<clock, claims, reviews, decisions, disputes>>
  BY <1>1, <1>2 DEF BeginAssign
<1>3. ASSUME NEW q, NEW u, NEW v, NEW uphold, BeginResolve(c, q, u, v, uphold)
      PROVE  UNCHANGED <<clock, claims, reviews, decisions, disputes>>
  BY <1>1, <1>3 DEF BeginResolve
<1>4. ASSUME NEW v, NEW worker, BeginClaim(c, v, worker)
      PROVE  UNCHANGED <<clock, claims, reviews, decisions, disputes>>
  BY <1>1, <1>4 DEF BeginClaim
<1>5. ASSUME NEW v, NEW worker, NEW token, BeginRenew(c, v, worker, token)
      PROVE  UNCHANGED <<clock, claims, reviews, decisions, disputes>>
  BY <1>1, <1>5 DEF BeginRenew
<1>6. ASSUME NEW v, NEW worker, NEW token, NEW accept,
             BeginDecide(c, v, worker, token, accept)
      PROVE  UNCHANGED <<clock, claims, reviews, decisions, disputes>>
  BY <1>1, <1>6 DEF BeginDecide
<1>7. ASSUME NEW q, BeginDispute(c, q)
      PROVE  UNCHANGED <<clock, claims, reviews, decisions, disputes>>
  BY <1>1, <1>7 DEF BeginDispute
<1>8. QED  BY <1>2, <1>3, <1>4, <1>5, <1>6, <1>7 DEF Begin

\* What a handler reads and checks before its transaction.
LEMMA BeginStep ==
  ASSUME IInv, NEW c \in Clients, Begin(c)
  PROVE  IInv'
<1>0. /\ clock \in Nat /\ clock \in 1 .. clock
      /\ \A q \in ClaimIds : /\ claims[q] \in Claim /\ claims[q].version \in Nat
                             /\ disputes[q] \in Dispute
      /\ \A v \in ReviewIds : /\ reviews[v] \in Review
                              /\ reviews[v].version \in Nat
                              /\ reviews[v].until \in Nat
                              /\ reviews[v].owner \in Workers \cup {Nil}
  BY DEF IInv, TypeOK, Claim, Review
<1>1. ASSUME NEW q \in ClaimIds, NEW v \in ReviewIds, NEW u \in Users,
             BeginAssign(c, q, u, v)
      PROVE  IInv'
  <2> DEFINE r == [Idle EXCEPT !.op = "assign", !.claim = q, !.user = u,
                               !.review = v, !.seenClaim = claims[q]]
  <2>1. /\ r \in Request /\ r.op = "assign" /\ r.claim = q /\ r.user = u
        /\ r.review = v /\ r.seenClaim = claims[q]
    BY <1>0, NewRows, ZenonT(40) DEF Request, Op
  <2> HIDE DEF r
  <2>2. /\ Hold(c, r) /\ claims[q].state \in {"pending", "disputed"}
        /\ u # Author
    BY <1>1 DEF BeginAssign, r
  <2>3. request'[c] = r /\ claims' = claims
    BY <2>2 DEF Hold, IInv, TypeOK
  <2>4. RequestSound(c)'
    BY <1>0, <2>1, <2>2, <2>3 DEF RequestSound, ClaimUnchanged
  <2>5. QED  BY <2>1, <2>2, <2>4, HoldStep
<1>2. ASSUME NEW q \in ClaimIds, NEW v \in ReviewIds, NEW u \in Users,
             NEW uphold \in BOOLEAN, BeginResolve(c, q, u, v, uphold)
      PROVE  IInv'
  <2> DEFINE r == [Idle EXCEPT !.op = "resolve", !.claim = q, !.user = u,
                          !.review = v, !.accept = uphold, !.now = clock,
                          !.seenClaim = claims[q],
                          !.seenDispute = disputes[q]]
  <2>1. /\ r \in Request /\ r.op = "resolve" /\ r.claim = q
        /\ r.seenClaim = claims[q] /\ r.seenDispute = disputes[q]
    BY <1>0, NewRows, ZenonT(40) DEF Request, Op
  <2> HIDE DEF r
  <2>2. Hold(c, r) /\ disputes[q].state \in {"open", "assigned"}
    BY <1>2 DEF BeginResolve, r
  <2>3. disputes[q] = NewDispute
    BY <2>2, NewRows DEF IInv, Tables, ClaimSound
  <2>4. request'[c] = r /\ claims' = claims
    BY <2>2 DEF Hold, IInv, TypeOK
  <2>5. RequestSound(c)'
    BY <1>0, <2>1, <2>2, <2>3, <2>4 DEF RequestSound, ClaimUnchanged
  <2>6. QED  BY <2>1, <2>2, <2>5, HoldStep
<1>3. ASSUME NEW v \in ReviewIds, NEW worker \in Workers,
             BeginClaim(c, v, worker)
      PROVE  IInv'
  <2> DEFINE r == [Idle EXCEPT !.op = "claim", !.review = v, !.worker = worker,
                               !.now = clock, !.seenReview = reviews[v]]
  <2>1. /\ r \in Request /\ r.op = "claim" /\ r.review = v
        /\ r.worker = worker /\ r.now = clock /\ r.seenReview = reviews[v]
    BY <1>0, NewRows, ZenonT(40) DEF Request, Op
  <2> HIDE DEF r
  <2>2. /\ Hold(c, r) /\ reviews[v].state \in {"queued", "leased"}
        /\ ~(reviews[v].state = "leased" /\ clock < reviews[v].until)
    BY <1>3 DEF BeginClaim, r
  <2>3. reviews[v].until <= clock
    BY <1>0, <2>2 DEF IInv, Tables, ReviewSound, NoTime
  <2>4. request'[c] = r /\ reviews' = reviews /\ clock' = clock
    BY <2>2 DEF Hold, IInv, TypeOK
  <2>5. RequestSound(c)'
    BY <1>0, <2>1, <2>2, <2>3, <2>4 DEF RequestSound, ReviewUnchanged
  <2>6. QED  BY <2>1, <2>2, <2>5, HoldStep
<1>4. ASSUME NEW v \in ReviewIds, NEW worker \in Workers, NEW token,
             BeginRenew(c, v, worker, token)
      PROVE  IInv'
  <2> DEFINE r == [Idle EXCEPT !.op = "renew", !.review = v, !.worker = worker,
                               !.now = clock, !.seenReview = reviews[v]]
  <2>1. /\ r \in Request /\ r.op = "renew" /\ r.review = v
        /\ r.worker = worker /\ r.now = clock /\ r.seenReview = reviews[v]
    BY <1>0, NewRows, ZenonT(40) DEF Request, Op
  <2> HIDE DEF r
  <2>2. /\ Hold(c, r) /\ reviews[v].state = "leased"
        /\ reviews[v].owner = worker /\ clock < reviews[v].until
    BY <1>4 DEF BeginRenew, r
  <2>3. reviews[v].until <= clock + LeaseTTL
    BY <2>2 DEF IInv, Tables, ReviewSound
  <2>4. request'[c] = r /\ reviews' = reviews /\ clock' = clock
    BY <2>2 DEF Hold, IInv, TypeOK
  <2>5. RequestSound(c)'
    BY <1>0, <2>1, <2>2, <2>3, <2>4 DEF RequestSound, ReviewUnchanged
  <2>6. QED  BY <2>1, <2>2, <2>5, HoldStep
<1>5. ASSUME NEW v \in ReviewIds, NEW worker \in Workers, NEW token,
             NEW accept \in BOOLEAN, BeginDecide(c, v, worker, token, accept)
      PROVE  IInv'
  <2>1. PICK q \in ClaimIds : q = reviews[v].claim
    BY <1>5 DEF BeginDecide, IInv, Tables, ReviewSound
  <2> DEFINE r == [Idle EXCEPT !.op = "decide", !.review = v,
                          !.worker = worker, !.claim = q, !.accept = accept,
                          !.now = clock, !.seenReview = reviews[v],
                          !.seenClaim = claims[q]]
  <2>2. /\ r \in Request /\ r.op = "decide" /\ r.review = v /\ r.claim = q
        /\ r.worker = worker /\ r.now = clock /\ r.seenReview = reviews[v]
        /\ r.seenClaim = claims[q]
    BY <1>0, NewRows, ZenonT(40) DEF Request, Op
  <2> HIDE DEF r
  <2>3. /\ Hold(c, r) /\ reviews[v].state = "leased"
        /\ reviews[v].owner = worker /\ clock < reviews[v].until
        /\ claims[q].state = "assigned" /\ claims[q].review = v
    BY <1>5, <2>1 DEF BeginDecide, r
  <2>4. reviews[v].until <= clock + LeaseTTL
    BY <2>3 DEF IInv, Tables, ReviewSound
  <2>5. /\ request'[c] = r /\ reviews' = reviews /\ claims' = claims
        /\ clock' = clock
    BY <2>3 DEF Hold, IInv, TypeOK
  <2>6. RequestSound(c)'
    BY <1>0, <2>1, <2>2, <2>3, <2>4, <2>5
    DEF RequestSound, ReviewUnchanged, ClaimUnchanged
  <2>7. QED  BY <2>2, <2>3, <2>6, HoldStep
<1>6. ASSUME NEW q \in ClaimIds, BeginDispute(c, q)
      PROVE  IInv'
  <2> DEFINE r == [Idle EXCEPT !.op = "dispute", !.claim = q,
                               !.user = Author, !.seenClaim = claims[q]]
  <2>1. /\ r \in Request /\ r.op = "dispute" /\ r.claim = q
        /\ r.seenClaim = claims[q]
    BY <1>0, NewRows, PeopleAssumption DEF Request, Op, PeopleAssumption
  <2> HIDE DEF r
  <2>2. Hold(c, r) /\ claims[q].state = "rejected"
    BY <1>6 DEF BeginDispute, r
  <2>3. request'[c] = r /\ claims' = claims
    BY <2>2 DEF Hold, IInv, TypeOK
  <2>4. RequestSound(c)'
    BY <1>0, <2>1, <2>2, <2>3 DEF RequestSound, ClaimUnchanged
  <2>5. QED  BY <2>1, <2>2, <2>4, HoldStep
<1>7. QED  BY <1>1, <1>2, <1>3, <1>4, <1>5, <1>6 DEF Begin

-----------------------------------------------------------------------------
(* Transactions *)

\* A claim is given to a new reviewer.
LEMMA AssignStep ==
  ASSUME IInv, NEW c \in Clients, CommitAssign(c)
  PROVE  IInv'
<1> DEFINE r == request[c]
<1>1. PICK q \in ClaimIds, v \in ReviewIds, u \in Users \ {Author} :
        q = r.claim /\ v = r.review /\ u = r.user
  BY DEF CommitAssign, IInv, RequestSound
<1>2. /\ claims[q] = r.seenClaim /\ claims[q] \in Claim
      /\ claims[q].state \in {"pending", "disputed"}
      /\ reviews[v].state = "absent" /\ decisions[v] = "none"
      /\ reviews[v].version = 0 /\ NeverReviewed(q, u)
  BY <1>1, NewRows
  DEF CommitAssign, IInv, RequestSound, TypeOK, Tables, ReviewSound
<1>3. PICK claim \in Claim : claim = AssignedClaim(claims[q], v)
  BY <1>2, ClaimRows DEF Outcome
<1>4. /\ claim.state = "assigned" /\ claim.review = v
      /\ claim.version > claims[q].version
  <2>1. PICK old \in Claim : old = claims[q]
    BY <1>2
  <2>2. /\ AssignedClaim(old, v).state = "assigned"
        /\ AssignedClaim(old, v).review = v
        /\ AssignedClaim(old, v).version > old.version
    BY ClaimRows DEF Outcome
  <2>3. QED  BY <1>3, <2>1, <2>2
<1>5. PICK row \in Review : row = NewReview(q, u)
  BY NewReviewRow
<1>6. /\ row.state = "queued" /\ row.claim = q /\ row.reviewer = u
      /\ row.owner = Nil /\ row.until = NoTime /\ row.version = 1
  BY <1>5, NewReviewRow
<1>7. /\ reviews' = [reviews EXCEPT ![v] = row]
      /\ claims' = [claims EXCEPT ![q] = claim]
      /\ UNCHANGED <<clock, decisions, disputes>>
      /\ Answer(c)
  BY <1>1, <1>2, <1>3, <1>5
  DEF CommitAssign, WriteReview, WriteClaim, Answer
<1>8. /\ \A z \in ReviewIds :
           reviews'[z] = IF z = v THEN row ELSE reviews[z]
      /\ \A x \in ClaimIds : claims'[x] = IF x = q THEN claim ELSE claims[x]
  BY <1>7 DEF IInv, TypeOK
<1>9. Later
  <2>1. clock \in Nat
    BY DEF IInv, TypeOK
  <2>2. QED  BY <1>2, <1>4, <1>6, <1>7, <1>8, <2>1 DEF Later
<1>10. ASSUME NEW x \in ClaimIds  PROVE ClaimSound(x)'
  <2>1. ClaimSound(x)
    BY DEF IInv, Tables
  <2>2. disputes[x].state # "absent" =>
          \E z \in ReviewIds :
            reviews'[z].claim = x /\ decisions[z] = "rejected"
    <3> SUFFICES ASSUME disputes[x].state # "absent"
                 PROVE  \E z \in ReviewIds :
                          reviews'[z].claim = x /\ decisions[z] = "rejected"
      OBVIOUS
    <3>1. PICK z \in ReviewIds :
            reviews[z].claim = x /\ decisions[z] = "rejected"
      BY <2>1 DEF ClaimSound
    <3>2. QED  BY <1>2, <1>8, <3>1
  <2>3. CASE x = q
    BY <1>4, <1>6, <1>7, <1>8, <2>1, <2>2, <2>3
    DEF ClaimSound, Live, Outcome
  <2>4. CASE x # q
    BY <1>2, <1>7, <1>8, <2>1, <2>2, <2>4 DEF ClaimSound, Live, Outcome
  <2>5. QED  BY <2>3, <2>4
<1>11. ASSUME NEW z \in ReviewIds  PROVE ReviewSound(z)'
  <2>1. CASE z = v
    BY <1>2, <1>4, <1>6, <1>7, <1>8, <2>1 DEF ReviewSound, Live
  <2>2. CASE z # v
    <3>1. ReviewSound(z) /\ reviews'[z] = reviews[z]
      BY <1>8, <2>2 DEF IInv, Tables
    <3>2. Live(z) => reviews[z].claim # q
      BY <1>2, <3>1 DEF ReviewSound
    <3>3. Live(z) => reviews[z].claim \in ClaimIds
      BY <3>1 DEF ReviewSound, Live
    <3>4. QED  BY <1>7, <1>8, <3>1, <3>2, <3>3 DEF ReviewSound, Live
  <2>3. QED  BY <2>1, <2>2
<1>12. IndependentReview'
  <2>1. ASSUME NEW z \in ReviewIds \ {v}
        PROVE  reviews'[z] = reviews[z] /\ reviews'[v] = row
               /\ (reviews[z].claim = q => reviews[z].reviewer # u)
    <3>1. reviews[z].state = "absent" => reviews[z].claim # q
      BY NewRows, NilAssumption
      DEF IInv, Tables, ReviewSound, NilAssumption
    <3>2. QED  BY <1>2, <1>8, <3>1 DEF NeverReviewed
  <2>2. QED  BY <1>6, <1>8, <2>1 DEF IInv, Tables, IndependentReview
<1>13. Tables'
  BY <1>10, <1>11, <1>12 DEF Tables
<1>14. QED  BY <1>7, <1>9, <1>13, AnswerStep DEF IInv, TypeOK

\* The lease of an undecided review is granted or prolonged.
LEMMA LeaseStep ==
  ASSUME IInv, NEW c \in Clients, CommitClaim(c) \/ CommitRenew(c)
  PROVE  IInv'
<1> DEFINE r == request[c]
<1>1. PICK v \in ReviewIds, worker \in Workers, now \in 1 .. clock :
        v = r.review /\ worker = r.worker /\ now = r.now
  BY DEF CommitClaim, CommitRenew, IInv, RequestSound
<1>2. /\ reviews[v] = r.seenReview /\ reviews[v] \in Review /\ Live(v)
      /\ r.op = "renew" => reviews[v].state = "leased"
      /\ clock \in Nat /\ now \in Nat
  BY <1>1
  DEF CommitClaim, CommitRenew, IInv, RequestSound, TypeOK, Live
<1>3. PICK row \in Review :
        /\ row = IF r.op = "claim" THEN LeasedReview(reviews[v], worker, now)
                 ELSE RenewedReview(reviews[v], now)
  BY <1>2, LeasedFacts, RenewedFacts
<1>4. /\ row.state = "leased" /\ row.claim = reviews[v].claim
      /\ row.reviewer = reviews[v].reviewer /\ row.owner \in Workers
      /\ row.until = now + LeaseTTL /\ row.version > reviews[v].version
  <2>1. PICK old \in Review : old = reviews[v]
    BY <1>2
  <2>2. /\ LeasedReview(old, worker, now).state = "leased"
        /\ LeasedReview(old, worker, now).claim = old.claim
        /\ LeasedReview(old, worker, now).reviewer = old.reviewer
        /\ LeasedReview(old, worker, now).owner = worker
        /\ LeasedReview(old, worker, now).until = now + LeaseTTL
        /\ LeasedReview(old, worker, now).version > old.version
        /\ RenewedReview(old, now).state = old.state
        /\ RenewedReview(old, now).claim = old.claim
        /\ RenewedReview(old, now).reviewer = old.reviewer
        /\ RenewedReview(old, now).owner = old.owner
        /\ RenewedReview(old, now).until = now + LeaseTTL
        /\ RenewedReview(old, now).version > old.version
    BY <1>2, LeasedFacts, RenewedFacts
  <2>3. CASE r.op = "claim"
    <3>1. row = LeasedReview(old, worker, now)
      BY <1>3, <2>1, <2>3
    <3>2. QED  BY <2>1, <2>2, <3>1
  <2>4. CASE r.op = "renew"
    <3>1. old.owner \in Workers /\ old.state = "leased"
      BY <1>2, <2>1, <2>4 DEF IInv, Tables, ReviewSound
    <3>2. row = RenewedReview(old, now)
      BY <1>3, <2>1, <2>4
    <3>3. QED  BY <2>1, <2>2, <3>1, <3>2
  <2>5. QED  BY <2>3, <2>4 DEF CommitClaim, CommitRenew
<1>5. row.until \in 1 .. clock + LeaseTTL
  BY <1>2, <1>4, BoundsAssumption DEF BoundsAssumption
<1>6. /\ reviews' = [reviews EXCEPT ![v] = row]
      /\ UNCHANGED <<clock, claims, decisions, disputes>>
      /\ Answer(c)
  BY <1>1, <1>2, <1>3 DEF CommitClaim, CommitRenew, WriteReview, Answer
<1>7. \A z \in ReviewIds : reviews'[z] = IF z = v THEN row ELSE reviews[z]
  BY <1>6 DEF IInv, TypeOK
<1>8. Later
  BY <1>2, <1>4, <1>6, <1>7 DEF Later
<1>9. \A z \in ReviewIds : /\ reviews'[z].claim = reviews[z].claim
                           /\ reviews'[z].reviewer = reviews[z].reviewer
                           /\ Live(z)' <=> Live(z)
  BY <1>2, <1>4, <1>7 DEF Live
<1>10. ASSUME NEW x \in ClaimIds  PROVE ClaimSound(x)'
  <2>1. ClaimSound(x)
    BY DEF IInv, Tables
  <2>2. disputes[x].state # "absent" =>
          \E z \in ReviewIds :
            reviews'[z].claim = x /\ decisions[z] = "rejected"
    BY <1>9, <2>1 DEF ClaimSound
  <2>3. claims[x].state = "assigned" => Live(claims[x].review)'
    BY <1>6, <1>9, <2>1 DEF ClaimSound
  <2>4. QED
    BY <1>6, <1>9, <2>1, <2>2, <2>3 DEF ClaimSound, Live
<1>11. ASSUME NEW z \in ReviewIds  PROVE ReviewSound(z)'
  <2>1. ReviewSound(z)
    BY DEF IInv, Tables
  <2>2. CASE z = v
    BY <1>2, <1>4, <1>5, <1>6, <1>7, <2>1, <2>2 DEF ReviewSound, Live
  <2>3. CASE z # v
    BY <1>6, <1>7, <2>1, <2>3 DEF ReviewSound, Live
  <2>4. QED  BY <2>2, <2>3
<1>12. IndependentReview'
  <2>1. \A z \in ReviewIds : reviews'[z].state # "absent"
                               => reviews[z].state # "absent"
    BY <1>2, <1>7 DEF Live
  <2>2. QED  BY <1>9, <2>1 DEF IInv, Tables, IndependentReview
<1>13. Tables'
  BY <1>10, <1>11, <1>12 DEF Tables
<1>14. QED  BY <1>6, <1>8, <1>13, AnswerStep DEF IInv, TypeOK

\* A review is decided, and its claim with it.
LEMMA DecideStep ==
  ASSUME IInv, NEW c \in Clients, CommitDecide(c)
  PROVE  IInv'
<1> DEFINE r == request[c]
<1>1. PICK v \in ReviewIds, q \in ClaimIds :
        v = r.review /\ q = r.claim
  BY DEF CommitDecide, IInv, RequestSound
<1>2. PICK outcome \in Outcome :
        outcome = IF r.accept THEN "verified" ELSE "rejected"
  BY DEF Outcome
<1>3. /\ reviews[v] = r.seenReview /\ reviews[v] \in Review
      /\ claims[q] = r.seenClaim /\ claims[q] \in Claim
      /\ reviews[v].state = "leased" /\ reviews[v].claim = q
      /\ claims[q].state = "assigned" /\ claims[q].review = v
      /\ decisions[v] = "none"
  BY <1>1 DEF CommitDecide, IInv, RequestSound, TypeOK
<1>4. PICK claim \in Claim : claim = DecidedClaim(claims[q], outcome)
  BY <1>1, <1>3, ClaimRows
<1>5. /\ claim.state = outcome /\ claim.review = v
      /\ claim.version > claims[q].version
  BY <1>1, <1>3, <1>4, ClaimRows
<1>6. PICK worker \in Workers, now \in 1 .. clock :
        worker = r.worker /\ now = r.now
  BY DEF CommitDecide, IInv, RequestSound
<1>7. clock \in Nat /\ now \in Nat
  BY <1>6 DEF IInv, TypeOK
<1>8. PICK row \in Review : row = DecidedReview(reviews[v])
  BY <1>3, <1>6, <1>7, DecidedFacts
<1>9. /\ row.state = "decided" /\ row.claim = q
      /\ row.reviewer = reviews[v].reviewer /\ row.owner = Nil
      /\ row.until = NoTime /\ row.version > reviews[v].version
  BY <1>3, <1>6, <1>7, <1>8, DecidedFacts
<1>10. /\ reviews' = [reviews EXCEPT ![v] = row]
       /\ claims' = [claims EXCEPT ![q] = claim]
       /\ decisions' = [decisions EXCEPT ![v] = outcome]
       /\ UNCHANGED <<clock, disputes>>
       /\ Answer(c)
  BY <1>1, <1>2, <1>3, <1>4, <1>8
  DEF CommitDecide, WriteReview, WriteClaim, Answer
<1>11. /\ \A z \in ReviewIds :
            /\ reviews'[z] = IF z = v THEN row ELSE reviews[z]
            /\ decisions'[z] = IF z = v THEN outcome ELSE decisions[z]
       /\ \A x \in ClaimIds : claims'[x] = IF x = q THEN claim ELSE claims[x]
  BY <1>10 DEF IInv, TypeOK
<1>12. Later
  BY <1>5, <1>7, <1>9, <1>10, <1>11 DEF Later
<1>13. ASSUME NEW x \in ClaimIds  PROVE ClaimSound(x)'
  <2>1. ClaimSound(x)
    BY DEF IInv, Tables
  <2>2. disputes[x].state # "absent" =>
          \E z \in ReviewIds :
            reviews'[z].claim = x /\ decisions'[z] = "rejected"
    <3> SUFFICES ASSUME disputes[x].state # "absent"
                 PROVE  \E z \in ReviewIds :
                          reviews'[z].claim = x /\ decisions'[z] = "rejected"
      OBVIOUS
    <3>1. PICK z \in ReviewIds :
            reviews[z].claim = x /\ decisions[z] = "rejected"
      BY <2>1 DEF ClaimSound
    <3>2. QED  BY <1>3, <1>11, <3>1
  <2>3. CASE x = q
    BY <1>5, <1>9, <1>10, <1>11, <2>1, <2>2, <2>3
    DEF ClaimSound, Outcome
  <2>4. CASE x # q
    <3>1. claims'[x] = claims[x]
      BY <1>11, <2>4
    <3>2. claims[x].state = "assigned" => claims[x].review # v
      BY <1>3, <2>1, <2>4 DEF ClaimSound
    <3>3. claims[x].state \in Outcome => claims[x].review # v
      BY <1>3, <2>1, <2>4 DEF ClaimSound
    <3>4. QED
      BY <1>10, <1>11, <2>1, <2>2, <3>1, <3>2, <3>3 DEF ClaimSound, Live
  <2>5. QED  BY <2>3, <2>4
<1>14. ASSUME NEW z \in ReviewIds  PROVE ReviewSound(z)'
  <2>0. ReviewSound(z)
    BY DEF IInv, Tables
  <2>1. CASE z = v
    <3>1. /\ reviews[v].state # "absent" /\ row.reviewer \in Users \ {Author}
          /\ outcome # "none"
      BY <1>3, <1>9, <2>0, <2>1 DEF ReviewSound, Outcome
    <3>2. QED
      BY <1>9, <1>10, <1>11, <2>1, <3>1 DEF ReviewSound, Live
  <2>2. CASE z # v
    <3>1. reviews'[z] = reviews[z] /\ decisions'[z] = decisions[z]
      BY <1>11, <2>2
    <3>2. Live(z) => reviews[z].claim # q /\ reviews[z].claim \in ClaimIds
      BY <1>3, <2>0, <2>2 DEF ReviewSound, Live
    <3>3. QED  BY <1>10, <1>11, <2>0, <3>1, <3>2 DEF ReviewSound, Live
  <2>3. QED  BY <2>1, <2>2
<1>15. IndependentReview'
  <2>1. \A z \in ReviewIds : /\ reviews'[z].claim = reviews[z].claim
                             /\ reviews'[z].reviewer = reviews[z].reviewer
                             /\ reviews'[z].state # "absent"
                                  => reviews[z].state # "absent"
    BY <1>3, <1>9, <1>11
  <2>2. QED  BY <2>1 DEF IInv, Tables, IndependentReview
<1>16. Tables'
  BY <1>13, <1>14, <1>15 DEF Tables
<1>17. QED  BY <1>10, <1>12, <1>16, AnswerStep DEF IInv, TypeOK

\* A rejected claim is disputed.
LEMMA DisputeStep ==
  ASSUME IInv, NEW c \in Clients, CommitDispute(c)
  PROVE  IInv'
<1> DEFINE r == request[c]
<1>1. PICK q \in ClaimIds : q = r.claim
  BY DEF CommitDispute, IInv, RequestSound
<1>2. /\ claims[q] = r.seenClaim /\ claims[q] \in Claim
      /\ claims[q].state = "rejected"
  BY <1>1 DEF CommitDispute, IInv, RequestSound, TypeOK
<1>3. PICK v \in ReviewIds :
        reviews[v].claim = q /\ decisions[v] = "rejected"
  BY <1>2 DEF IInv, Tables, ClaimSound, Outcome
<1>4. PICK claim \in Claim : claim = DisputedClaim(claims[q])
  BY <1>2, <1>3, ClaimRows DEF Outcome
<1>5. claim.state = "disputed" /\ claim.version > claims[q].version
  BY <1>2, <1>3, <1>4, ClaimRows DEF Outcome
<1>6. /\ claims' = [claims EXCEPT ![q] = claim]
      /\ disputes' = [disputes EXCEPT ![q] = NewDispute]
      /\ UNCHANGED <<clock, reviews, decisions>>
      /\ Answer(c)
  BY <1>1, <1>2, <1>4 DEF CommitDispute, WriteClaim, Answer
<1>7. \A x \in ClaimIds :
        /\ claims'[x] = IF x = q THEN claim ELSE claims[x]
        /\ disputes'[x] = IF x = q THEN NewDispute ELSE disputes[x]
  BY <1>6 DEF IInv, TypeOK
<1>8. Later
  <2>1. clock \in Nat
    BY DEF IInv, TypeOK
  <2>2. QED  BY <1>5, <1>6, <1>7, <2>1 DEF Later
<1>9. ASSUME NEW x \in ClaimIds  PROVE ClaimSound(x)'
  <2>1. CASE x = q
    BY <1>3, <1>5, <1>6, <1>7, <2>1 DEF ClaimSound, Outcome
  <2>2. CASE x # q
    BY <1>6, <1>7, <2>2 DEF IInv, Tables, ClaimSound, Live
  <2>3. QED  BY <2>1, <2>2
<1>10. ASSUME NEW z \in ReviewIds  PROVE ReviewSound(z)'
  <2>1. ReviewSound(z)
    BY DEF IInv, Tables
  <2>2. Live(z) => reviews[z].claim # q /\ reviews[z].claim \in ClaimIds
    BY <1>2, <2>1 DEF ReviewSound, Live
  <2>3. QED  BY <1>6, <1>7, <2>1, <2>2 DEF ReviewSound, Live
<1>11. Tables'
  BY <1>6, <1>9, <1>10 DEF IInv, Tables, IndependentReview
<1>12. QED
  BY <1>6, <1>8, <1>11, NewRows, AnswerStep DEF IInv, TypeOK

\* The resolution of a dispute never finds the version it expects: it has
\* counted an assignment that is only in memory.
LEMMA ResolveChangesNothing ==
  ASSUME IInv, NEW c \in Clients, FinishResolve(c)
  PROVE  UNCHANGED <<claims, disputes>>
<1> DEFINE r == request[c]
<1>1. r.claim \in ClaimIds /\ r.seenDispute = NewDispute
  BY DEF FinishResolve, IInv, RequestSound
<1>2. HeldDispute(r).version = 2
  <2>1. HeldDispute(r) = AssignedDispute(NewDispute, r.user)
    BY <1>1, NewRows DEF HeldDispute
  <2>2. NewDispute \in Dispute /\ NewDispute.version + 1 = 2
    BY NewRows
  <2>3. AssignedDispute(NewDispute, r.user).version = NewDispute.version + 1
    BY <2>2 DEF AssignedDispute, Dispute
  <2>4. QED  BY <2>1, <2>2, <2>3
<1>3. disputes[r.claim].version \in {0, 1}
  BY <1>1, NewRows DEF IInv, Tables, ClaimSound, NoDispute
<1>4. QED  BY <1>2, <1>3 DEF FinishResolve

-----------------------------------------------------------------------------
(* Invariance *)

\* Empty tables are consistent.
LEMMA InitEstablishes == Init => IInv
<1> SUFFICES ASSUME Init  PROVE IInv
  OBVIOUS
<1>1. TypeOK
  BY NewRows, BoundsAssumption DEF Init, TypeOK, BoundsAssumption
<1>2. ASSUME NEW q \in ClaimIds  PROVE ClaimSound(q)
  BY NewRows DEF Init, ClaimSound, Outcome
<1>3. ASSUME NEW v \in ReviewIds  PROVE ReviewSound(v)
  BY NewRows DEF Init, ReviewSound, Live
<1>4. IndependentReview
  BY NewRows DEF Init, IndependentReview
<1>5. ASSUME NEW c \in Clients  PROVE RequestSound(c)
  BY NewRows DEF Init, RequestSound
<1>6. QED  BY <1>1, <1>2, <1>3, <1>4, <1>5 DEF IInv, Tables

\* Every step keeps the invariant.
LEMMA NextKeeps ==
  ASSUME IInv, [Next]_vars
  PROVE  IInv'
<1>1. CASE UNCHANGED vars \/ Tick
  <2>1. TypeOK' /\ clock \in Nat /\ clock' \in Nat /\ clock <= clock'
    BY <1>1, BoundsAssumption DEF IInv, TypeOK, vars, Tick, BoundsAssumption
  <2>2. UNCHANGED <<claims, reviews, decisions, disputes, request>>
    BY <1>1 DEF vars, Tick
  <2>3. Tables' /\ Later
    BY <2>1, <2>2, TablesKept
  <2>4. QED  BY <2>1, <2>2, <2>3, RequestKept DEF IInv
<1>2. ASSUME NEW c \in Clients, FinishResolve(c) \/ Fail(c)
      PROVE  IInv'
  <2>1. /\ UNCHANGED <<claims, reviews, decisions, disputes>>
        /\ Answer(c) /\ clock' = clock /\ clock \in Nat
    BY <1>2, ResolveChangesNothing
    DEF FinishResolve, Fail, Answer, IInv, TypeOK
  <2>2. Tables' /\ Later
    BY <2>1, TablesKept
  <2>3. QED  BY <2>1, <2>2, AnswerStep DEF IInv, TypeOK
<1>3. QED
  BY <1>1, <1>2, BeginStep, AssignStep, LeaseStep, DecideStep, DisputeStep
  DEF Next, Commit

\* The inductive invariant holds in every reachable state.
LEMMA Invariance == Spec => []IInv
  BY InitEstablishes, NextKeeps, PTL DEF Spec

-----------------------------------------------------------------------------
(* The theorems *)

\* Rows and requests keep their shapes.
THEOREM TypeCorrect == Spec => []TypeOK
<1>1. IInv => TypeOK
  BY DEF IInv
<1>2. QED  BY <1>1, Invariance, PTL

\* A row whose version did not move is the row the handler read.
THEOREM ReadRowsFresh == Spec => []RequestsFresh
<1>1. IInv => RequestsFresh
  BY DEF IInv, RequestSound, RequestsFresh
<1>2. QED  BY <1>1, Invariance, PTL

\* A claim under review has one undecided review, any other claim none.
THEOREM OneReviewLives == Spec => []OneLiveReview
<1>1. ASSUME IInv, NEW q \in ClaimIds, NEW v \in ReviewIds
      PROVE  (Live(v) /\ reviews[v].claim = q)
               <=> (claims[q].state = "assigned" /\ claims[q].review = v)
  <2>1. ClaimSound(q) /\ ReviewSound(v)
    BY <1>1 DEF IInv, Tables
  <2>2. QED  BY <2>1 DEF ClaimSound, ReviewSound
<1>2. IInv => OneLiveReview
  BY <1>1 DEF OneLiveReview
<1>3. QED  BY <1>2, Invariance, PTL

\* Claims, reviews, decisions and disputes tell the same story.
THEOREM VerdictsHaveDecisions == Spec => []VerdictHasDecision
<1>1. ASSUME IInv, NEW v \in ReviewIds
      PROVE  reviews[v].state = "decided" <=> decisions[v] # "none"
  <2>1. ReviewSound(v) /\ reviews[v] \in Review
    BY <1>1 DEF IInv, Tables, TypeOK
  <2>2. reviews[v].state \in {"absent", "queued", "leased", "decided"}
    BY <2>1 DEF Review
  <2>3. QED  BY <2>1, <2>2 DEF ReviewSound, Live
<1>2. IInv => VerdictHasDecision
  BY <1>1 DEF IInv, Tables, ClaimSound, VerdictHasDecision
<1>3. QED  BY <1>2, Invariance, PTL

\* No author judges the own claim, and no reviewer judges a claim twice.
THEOREM ReviewsIndependent == Spec => []IndependentReview
<1>1. IInv => IndependentReview
  BY DEF IInv, Tables
<1>2. QED  BY <1>1, Invariance, PTL

\* Verified claims and recorded decisions are final.
THEOREM VerdictsAreFinal == Spec => VerdictIsFinal
<1> DEFINE A ==
       /\ \A q \in ClaimIds :
            claims[q].state = "verified" => claims'[q] = claims[q]
       /\ \A v \in ReviewIds :
            decisions[v] # "none" => decisions'[v] = decisions[v]
<1>1. ASSUME IInv, Next  PROVE A
  <2>1. CASE UNCHANGED <<claims, decisions>>
    BY <2>1
  <2>2. ASSUME NEW c \in Clients,
               CommitAssign(c) \/ CommitDecide(c) \/ CommitDispute(c)
        PROVE  A
    <3>1. PICK q \in ClaimIds : q = request[c].claim
      BY <1>1, <2>2
      DEF CommitAssign, CommitDecide, CommitDispute, IInv, RequestSound
    <3>2. claims[q].state # "verified"
      BY <1>1, <2>2, <3>1
      DEF CommitAssign, CommitDecide, CommitDispute, IInv, RequestSound
    <3>3. \A x \in ClaimIds : x # q => claims'[x] = claims[x]
      BY <1>1, <2>2, <3>1
      DEF CommitAssign, CommitDecide, CommitDispute, WriteClaim, IInv, TypeOK
    <3>4. \A v \in ReviewIds : decisions[v] # "none"
                                 => decisions'[v] = decisions[v]
      BY <1>1, <2>2
      DEF CommitAssign, CommitDecide, CommitDispute, IInv, TypeOK
    <3>5. QED  BY <3>2, <3>3, <3>4
  <2>3. ASSUME NEW c \in Clients,
               CommitClaim(c) \/ CommitRenew(c) \/ FinishResolve(c) \/ Fail(c)
        PROVE  UNCHANGED <<claims, decisions>>
    BY <1>1, <2>3, ResolveChangesNothing
    DEF CommitClaim, CommitRenew, FinishResolve, Fail
  <2>4. ASSUME NEW c \in Clients, Begin(c)
        PROVE  UNCHANGED <<claims, decisions>>
    BY <2>4, BeginOnlyReads
  <2>5. Tick => UNCHANGED <<claims, decisions>>
    BY DEF Tick
  <2> HIDE DEF A
  <2>6. QED
    BY <1>1, <2>1, <2>2, <2>3, <2>4, <2>5 DEF Next, Commit
<1>2. IInv /\ [Next]_vars => [A]_vars
  BY <1>1
<1> HIDE DEF A
<1>3. Spec => [][A]_vars
  BY <1>2, Invariance, PTL DEF Spec
<1>4. QED  BY <1>3 DEF A, VerdictIsFinal

\* Which step records a decision: the commit of a decision, on the row that the
\* reviewer's handler read.
LEMMA WhoDecides ==
  ASSUME IInv, [Next]_vars, NEW v \in ReviewIds, decisions'[v] # decisions[v]
  PROVE  \E c \in Clients : CommitDecide(c) /\ request[c].review = v
<1>1. ASSUME NEW c \in Clients, CommitDecide(c)
      PROVE  request[c].review = v
  BY <1>1 DEF CommitDecide, IInv, TypeOK
<1>2. ASSUME NEW c \in Clients, Begin(c)
      PROVE  FALSE
  BY <1>2, BeginOnlyReads
<1>3. ASSUME NEW c \in Clients,
             \/ CommitAssign(c) \/ CommitClaim(c) \/ CommitRenew(c)
             \/ CommitDispute(c) \/ FinishResolve(c) \/ Fail(c)
      PROVE  FALSE
  BY <1>3
  DEF CommitAssign, CommitClaim, CommitRenew, CommitDispute, FinishResolve,
      Fail
<1>4. ~Tick /\ ~UNCHANGED vars
  BY DEF Tick, vars
<1>5. QED  BY <1>1, <1>2, <1>3, <1>4 DEF Next, Commit

\* A decision is recorded for the claim under review, at the version and under
\* the token of a lease that ran when its owner asked, with the verdict of the
\* claim in the same step.
DecisionByOwner ==
  [][\A v \in ReviewIds :
       decisions'[v] # decisions[v] =>
         \E c \in Clients :
           LET r == request[c] IN
           /\ r.op = "decide" /\ r.review = v
           /\ reviews[v].state = "leased" /\ reviews[v].owner = r.worker
           /\ reviews[v].token = r.seenReview.token
           /\ r.now <= clock /\ r.now < reviews[v].until
           /\ claims[r.claim].state = "assigned" /\ claims[r.claim].review = v
           /\ claims'[r.claim].state = decisions'[v]]_vars

\* README: "Completion is accepted only from the current unexpired owner".  The
\* owner, the token and the deadline are those stored when the decision is
\* committed, not only those that were read before: no takeover, renewal or
\* reassignment lies between.
THEOREM OwnersDecide == Spec => DecisionByOwner
<1> DEFINE By(c, v) ==
       LET r == request[c] IN
       /\ r.op = "decide" /\ r.review = v
       /\ reviews[v].state = "leased" /\ reviews[v].owner = r.worker
       /\ reviews[v].token = r.seenReview.token
       /\ r.now <= clock /\ r.now < reviews[v].until
       /\ claims[r.claim].state = "assigned" /\ claims[r.claim].review = v
       /\ claims'[r.claim].state = decisions'[v]
           A == \A v \in ReviewIds :
                  decisions'[v] # decisions[v] => \E c \in Clients : By(c, v)
<1>1. ASSUME IInv, [Next]_vars, NEW v \in ReviewIds,
             decisions'[v] # decisions[v]
      PROVE  \E c \in Clients : By(c, v)
  <2>1. PICK c \in Clients : CommitDecide(c) /\ request[c].review = v
    BY <1>1, WhoDecides
  <2>2. RequestSound(c) /\ clock \in Nat
    BY <1>1 DEF IInv, TypeOK
  <2>3. /\ request[c].op = "decide" /\ ReviewUnchanged(request[c])
        /\ ClaimUnchanged(request[c])
    BY <2>1 DEF CommitDecide
  <2>4. /\ reviews[v] = request[c].seenReview
        /\ request[c].seenReview.state = "leased"
        /\ request[c].seenReview.owner = request[c].worker
        /\ request[c].now \in 1 .. clock
        /\ request[c].now < request[c].seenReview.until
        /\ request[c].claim \in ClaimIds
        /\ claims[request[c].claim] = request[c].seenClaim
        /\ request[c].seenClaim.state = "assigned"
        /\ request[c].seenClaim.review = v
    BY <2>1, <2>2, <2>3 DEF RequestSound
  <2>5. PICK outcome \in Outcome :
          outcome = IF request[c].accept THEN "verified" ELSE "rejected"
    BY DEF Outcome
  <2>6. claims[request[c].claim] \in Claim
    BY <1>1, <2>4 DEF IInv, TypeOK
  <2>7. DecidedClaim(request[c].seenClaim, outcome).state = outcome
    BY <1>1, <2>4, <2>6, ClaimRows
  <2>8. /\ claims'[request[c].claim]
             = DecidedClaim(request[c].seenClaim, outcome)
        /\ decisions'[v] = outcome
    BY <1>1, <2>1, <2>4, <2>5 DEF CommitDecide, WriteClaim, IInv, TypeOK
  <2>9. QED  BY <2>1, <2>2, <2>3, <2>4, <2>7, <2>8
<1>2. IInv /\ [Next]_vars => A
  BY <1>1
<1>3. A => \A v \in ReviewIds :
       decisions'[v] # decisions[v] =>
         \E c \in Clients :
           LET r == request[c] IN
           /\ r.op = "decide" /\ r.review = v
           /\ reviews[v].state = "leased" /\ reviews[v].owner = r.worker
           /\ reviews[v].token = r.seenReview.token
           /\ r.now <= clock /\ r.now < reviews[v].until
           /\ claims[r.claim].state = "assigned" /\ claims[r.claim].review = v
           /\ claims'[r.claim].state = decisions'[v]
  OBVIOUS
<1> HIDE DEF A
<1>4. Spec => [][A]_vars
  BY <1>2, Invariance, PTL DEF Spec
<1>5. QED  BY <1>4 DEF A, DecisionByOwner

-----------------------------------------------------------------------------
(* Disputes *)

\* Only the opening of a dispute writes one.
LEMMA DisputesStand ==
  ASSUME IInv, [Next]_vars, NEW q \in ClaimIds, disputes[q].state # "absent"
  PROVE  disputes'[q] = disputes[q]
<1>1. ASSUME NEW c \in Clients, CommitDispute(c)
      PROVE  disputes'[q] = disputes[q]
  BY <1>1 DEF CommitDispute, IInv, TypeOK
<1>2. ASSUME NEW c \in Clients, FinishResolve(c)
      PROVE  UNCHANGED disputes
  BY <1>2, ResolveChangesNothing
<1>3. ASSUME NEW c \in Clients, Begin(c)
      PROVE  UNCHANGED disputes
  BY <1>3, BeginOnlyReads
<1>4. ASSUME NEW c \in Clients,
             \/ CommitAssign(c) \/ CommitClaim(c) \/ CommitRenew(c)
             \/ CommitDecide(c) \/ Fail(c)
      PROVE  UNCHANGED disputes
  BY <1>4 DEF CommitAssign, CommitClaim, CommitRenew, CommitDecide, Fail
<1>5. Tick \/ UNCHANGED vars => UNCHANGED disputes
  BY DEF Tick, vars
<1>6. QED  BY <1>1, <1>2, <1>3, <1>4, <1>5 DEF Next, Commit

\* A dispute that is opened stays open for ever, and no claim is ever resolved:
\* ResolveDispute commits in no behaviour, whoever resolves and how often, even
\* when the claim has another verdict meanwhile.
THEOREM DisputesNeverEnd ==
  ASSUME NEW q \in ClaimIds
  PROVE  Spec => /\ [](claims[q].state # "resolved")
                 /\ [](disputes[q].state # "absent"
                         => [](disputes[q] = NewDispute))
<1>1. IInv => claims[q].state # "resolved"
  BY DEF IInv, Tables, ClaimSound
<1>2. IInv /\ disputes[q].state # "absent" => disputes[q] = NewDispute
  BY NewRows DEF IInv, Tables, ClaimSound
<1>3. IInv /\ [Next]_vars /\ disputes[q] = NewDispute
        => (disputes[q] = NewDispute)'
  BY DisputesStand, NewRows
<1>4. QED  BY <1>1, <1>2, <1>3, Invariance, PTL DEF Spec

-----------------------------------------------------------------------------
(* Review assignments implement the fenced lease *)

Leases == [v \in ReviewIds |-> LeaseOf(v)]

\* The lease of a review, with its mark as a value.
LEMMA LeaseIs ==
  ASSUME NEW v \in ReviewIds, NEW done \in BOOLEAN,
         done <=> reviews[v].state = "decided"
  PROVE  LeaseOf(v) =
           [holder |-> reviews[v].owner, token |-> reviews[v].token,
            until |-> reviews[v].until, settled |-> done]
<1>1. (reviews[v].state = "decided") = done
  BY Zenon
<1>2. QED  BY <1>1, Zenon DEF LeaseOf

\* A step that rewrites one review rewrites one lease.
LEMMA OneLease ==
  ASSUME IInv, NEW v \in ReviewIds, NEW row \in Review,
         reviews' = [reviews EXCEPT ![v] = row],
         NEW done \in BOOLEAN, done <=> row.state = "decided"
  PROVE  Leases' =
           [Leases EXCEPT ![v] =
              [holder |-> row.owner, token |-> row.token, until |-> row.until,
               settled |-> done]]
<1> DEFINE new == [holder |-> row.owner, token |-> row.token,
                   until |-> row.until, settled |-> done]
<1>1. ASSUME NEW z \in ReviewIds
      PROVE  LeaseOf(z)' = IF z = v THEN new ELSE LeaseOf(z)
  <2>1. CASE z = v
    <3>1. reviews'[z] = row
      BY <2>1 DEF IInv, TypeOK
    <3>2. (row.state = "decided") = done
      BY Zenon
    <3>3. LeaseOf(z)' = new
      BY <3>1, <3>2, Zenon DEF LeaseOf
    <3>4. QED  BY <2>1, <3>3, Zenon
  <2>2. CASE z # v
    <3>1. reviews'[z] = reviews[z]
      BY <2>2 DEF IInv, TypeOK
    <3>2. LeaseOf(z)' = LeaseOf(z)
      BY <3>1, Zenon DEF LeaseOf
    <3>3. QED  BY <2>2, <3>2, Zenon
  <2>3. QED  BY <2>1, <2>2
<1> HIDE DEF new
<1>2. Leases' = [z \in ReviewIds |-> IF z = v THEN new ELSE LeaseOf(z)]
  BY <1>1, Zenon DEF Leases
<1>3. Leases' = [Leases EXCEPT ![v] = new]
  BY <1>2 DEF Leases
<1>4. QED  BY <1>3 DEF new

\* The row of a new review is as free as the missing one was.
LEMMA AssignStutters ==
  ASSUME IInv, NEW c \in Clients, CommitAssign(c)
  PROVE  UNCHANGED <<clock, Leases>>
<1>1. PICK v \in ReviewIds, q \in ClaimIds, u \in Users :
        v = request[c].review /\ q = request[c].claim /\ u = request[c].user
  BY DEF CommitAssign, IInv, RequestSound
<1>2. PICK row \in Review : row = NewReview(q, u)
  BY NewReviewRow
<1>3. /\ reviews' = [reviews EXCEPT ![v] = row] /\ clock' = clock
      /\ reviews[v] = NoReview
  BY <1>1, <1>2
  DEF CommitAssign, WriteReview, Answer, IInv, Tables, ReviewSound
<1>4. FALSE <=> row.state = "decided"
  BY <1>2, NewReviewRow
<1>5. /\ row.owner = Nil /\ row.token = 0 /\ row.until = NoTime
      /\ reviews[v].owner = Nil /\ reviews[v].token = 0
      /\ reviews[v].until = NoTime
      /\ FALSE <=> reviews[v].state = "decided"
  BY <1>2, <1>3, NewReviewRow, NewRows
<1>6. LeaseOf(v) = [holder |-> Nil, token |-> 0, until |-> NoTime,
                    settled |-> FALSE]
  BY <1>5, LeaseIs
<1>7. Leases' =
        [Leases EXCEPT ![v] =
           [holder |-> row.owner, token |-> row.token, until |-> row.until,
            settled |-> FALSE]]
  BY <1>3, <1>4, OneLease
<1>8. Leases' = [Leases EXCEPT ![v] = LeaseOf(v)]
  BY <1>5, <1>6, <1>7
<1>9. Leases' = Leases
  BY <1>8 DEF Leases
<1>10. QED  BY <1>3, <1>9

\* A claim of a review is granted: it is queued, or its lease was over when
\* the row was read, and the row is still that row.
LEMMA ClaimGrants ==
  ASSUME IInv, NEW c \in Clients, CommitClaim(c)
  PROVE  Ownership!LeaseNext
<1> DEFINE r == request[c]
<1>1. PICK v \in ReviewIds, worker \in Workers, now \in 1 .. clock :
        v = r.review /\ worker = r.worker /\ now = r.now
  BY DEF CommitClaim, IInv, RequestSound
<1>2. /\ reviews[v] = r.seenReview /\ reviews[v] \in Review
      /\ reviews[v].state \in {"queued", "leased"}
      /\ reviews[v].until <= now /\ reviews[v].until \in Nat
      /\ clock \in 1 .. Horizon /\ clock \in Nat /\ now \in Nat
      /\ reviews[v].owner \in Workers \cup {Nil} /\ reviews[v].token \in Nat
  BY <1>1 DEF CommitClaim, IInv, RequestSound, TypeOK, Review
<1>3. PICK row \in Review : row = LeasedReview(reviews[v], worker, now)
  BY <1>2, LeasedFacts
<1>4. PICK u \in 1 .. Horizon + LeaseTTL : u = now + LeaseTTL
  BY <1>2, BoundsAssumption DEF BoundsAssumption
<1>5. PICK t \in Nat : t = reviews[v].token + 1
  BY <1>2
<1>6. /\ row.state = "leased" /\ row.owner = worker /\ row.token = t
      /\ row.until = u
  <2>1. PICK old \in Review : old = reviews[v]
    BY <1>2
  <2>2. /\ LeasedReview(old, worker, now).state = "leased"
        /\ LeasedReview(old, worker, now).owner = worker
        /\ LeasedReview(old, worker, now).until = now + LeaseTTL
    BY <1>2, LeasedFacts, BoundsAssumption DEF BoundsAssumption
  <2>3. LeasedReview(old, worker, now).token = t
    BY <1>5, <2>1 DEF LeasedReview, Review
  <2>4. QED  BY <1>3, <1>4, <2>1, <2>2, <2>3
<1>7. reviews' = [reviews EXCEPT ![v] = row] /\ clock' = clock
  BY <1>1, <1>2, <1>3 DEF CommitClaim, WriteReview, Answer
<1> DEFINE new == [holder |-> worker, token |-> t, until |-> u,
                   settled |-> FALSE]
<1>8. Leases' = [Leases EXCEPT ![v] = new]
  <2>1. FALSE <=> row.state = "decided"
    BY <1>6
  <2>2. Leases' =
          [Leases EXCEPT ![v] =
             [holder |-> row.owner, token |-> row.token, until |-> row.until,
              settled |-> FALSE]]
    BY <1>7, <2>1, OneLease
  <2>3. QED  BY <1>6, <2>2
<1>9. Leases[v] = [holder |-> reviews[v].owner, token |-> reviews[v].token,
                   until |-> reviews[v].until, settled |-> FALSE]
  <2>1. FALSE <=> reviews[v].state = "decided"
    BY <1>2
  <2>2. QED  BY <2>1, LeaseIs DEF Leases
<1>10. PICK old \in Ownership!Lease :
         /\ old = Leases[v] /\ old.token + 1 = t /\ old.settled = FALSE
         /\ old.until <= clock
  <2>1. Leases[v] \in Ownership!Lease
    BY <1>2, <1>9 DEF Ownership!Lease
  <2>2. /\ Leases[v].token + 1 = t /\ Leases[v].settled = FALSE
        /\ Leases[v].until <= clock
    BY <1>2, <1>5, <1>9
  <2>3. QED  BY <2>1, <2>2
<1>11. new = [old EXCEPT !.holder = worker, !.until = u,
                         !.token = old.token + 1]
  <2> DEFINE grant == [old EXCEPT !.holder = worker, !.until = u, !.token = t]
  <2>1. u \in Nat
    BY <1>4
  <2>2. /\ new \in Ownership!Lease
        /\ new.holder = worker /\ new.token = t /\ new.until = u
        /\ new.settled = FALSE
    BY <2>1 DEF Ownership!Lease
  <2> HIDE DEF new
  <2>3. /\ grant \in Ownership!Lease
        /\ grant.holder = worker /\ grant.token = t
        /\ grant.until = u /\ grant.settled = old.settled
    BY <2>1 DEF Ownership!Lease
  <2> HIDE DEF grant
  <2>4. grant = new
    BY <1>10, <2>2, <2>3 DEF Ownership!Lease
  <2>5. QED  BY <1>10, <2>4, Zenon DEF grant
<1> HIDE DEF new
<1>12. Ownership!WriteLease(v, new)
  BY <1>7, <1>8 DEF Ownership!WriteLease, Leases
<1>13. Ownership!Grant(v, worker)
  BY <1>4, <1>10, <1>11, <1>12 DEF Ownership!Grant, Ownership!Held, Leases
<1>14. QED  BY <1>13 DEF Ownership!LeaseNext

\* A renewal never shortens the lease.
LEMMA RenewalRenews ==
  ASSUME IInv, NEW c \in Clients, CommitRenew(c)
  PROVE  Ownership!LeaseNext
<1> DEFINE r == request[c]
<1>1. PICK v \in ReviewIds, worker \in Workers, now \in 1 .. clock :
        v = r.review /\ worker = r.worker /\ now = r.now
  BY DEF CommitRenew, IInv, RequestSound
<1>2. /\ reviews[v] = r.seenReview /\ reviews[v] \in Review
      /\ reviews[v].state = "leased"
      /\ reviews[v].until <= now + LeaseTTL /\ reviews[v].until \in Nat
      /\ clock \in 1 .. Horizon /\ clock \in Nat /\ now \in Nat
      /\ reviews[v].owner \in Workers \cup {Nil}
      /\ reviews[v].token \in Nat
  BY <1>1 DEF CommitRenew, IInv, RequestSound, TypeOK, Review
<1>3. reviews[v].owner \in Workers
  BY <1>2 DEF IInv, Tables, ReviewSound
<1>4. PICK row \in Review : row = RenewedReview(reviews[v], now)
  BY <1>2, RenewedFacts
<1>5. PICK u \in 1 .. Horizon + LeaseTTL : u = now + LeaseTTL
  BY <1>2, BoundsAssumption DEF BoundsAssumption
<1>6. /\ row.state = "leased" /\ row.owner = reviews[v].owner
      /\ row.token = reviews[v].token /\ row.until = u
  <2>1. PICK old \in Review : old = reviews[v]
    BY <1>2
  <2>2. /\ RenewedReview(old, now).state = old.state
        /\ RenewedReview(old, now).owner = old.owner
        /\ RenewedReview(old, now).token = old.token
        /\ RenewedReview(old, now).until = now + LeaseTTL
    BY <1>2, RenewedFacts, BoundsAssumption DEF BoundsAssumption
  <2>3. QED  BY <1>1, <1>2, <1>4, <1>5, <2>1, <2>2
<1>7. reviews' = [reviews EXCEPT ![v] = row] /\ clock' = clock
  BY <1>1, <1>2, <1>4 DEF CommitRenew, WriteReview, Answer
<1> DEFINE new == [holder |-> reviews[v].owner, token |-> reviews[v].token,
                   until |-> u, settled |-> FALSE]
<1>8. Leases' = [Leases EXCEPT ![v] = new]
  <2>1. FALSE <=> row.state = "decided"
    BY <1>6
  <2>2. Leases' =
          [Leases EXCEPT ![v] =
             [holder |-> row.owner, token |-> row.token, until |-> row.until,
              settled |-> FALSE]]
    BY <1>7, <2>1, OneLease
  <2>3. QED  BY <1>6, <2>2
<1>9. Leases[v] = [holder |-> reviews[v].owner, token |-> reviews[v].token,
                   until |-> reviews[v].until, settled |-> FALSE]
  <2>1. FALSE <=> reviews[v].state = "decided"
    BY <1>2
  <2>2. QED  BY <2>1, LeaseIs DEF Leases
<1>10. PICK old \in Ownership!Lease :
         /\ old = Leases[v] /\ old.holder = reviews[v].owner
         /\ old.token = reviews[v].token /\ old.settled = FALSE
         /\ old.until <= u /\ old.holder # Nil
  <2>1. Leases[v] \in Ownership!Lease
    BY <1>2, <1>9 DEF Ownership!Lease
  <2>2. /\ Leases[v].holder = reviews[v].owner
        /\ Leases[v].token = reviews[v].token /\ Leases[v].settled = FALSE
        /\ Leases[v].until <= u /\ Leases[v].holder # Nil
    BY <1>2, <1>3, <1>5, <1>9, NilAssumption DEF NilAssumption
  <2>3. QED  BY <2>1, <2>2
<1>11. new = [old EXCEPT !.until = u]
  <2> DEFINE renewed == [old EXCEPT !.until = u]
  <2>1. u \in Nat
    BY <1>5
  <2>2. /\ new \in Ownership!Lease
        /\ new.holder = reviews[v].owner /\ new.token = reviews[v].token
        /\ new.until = u /\ new.settled = FALSE
    BY <1>2, <2>1 DEF Ownership!Lease
  <2> HIDE DEF new
  <2>3. /\ renewed \in Ownership!Lease
        /\ renewed.holder = old.holder /\ renewed.token = old.token
        /\ renewed.until = u /\ renewed.settled = old.settled
    BY <2>1 DEF Ownership!Lease
  <2> HIDE DEF renewed
  <2>4. renewed = new
    BY <1>10, <2>2, <2>3 DEF Ownership!Lease
  <2>5. QED  BY <2>4, Zenon DEF renewed
<1> HIDE DEF new
<1>12. Ownership!WriteLease(v, new)
  BY <1>7, <1>8 DEF Ownership!WriteLease, Leases
<1>13. Ownership!Renew(v)
  BY <1>5, <1>10, <1>11, <1>12 DEF Ownership!Renew, Ownership!Held, Leases
<1>14. QED  BY <1>13 DEF Ownership!LeaseNext

\* A decision gives the lease back for good.
LEMMA DecisionReleases ==
  ASSUME IInv, NEW c \in Clients, CommitDecide(c)
  PROVE  Ownership!LeaseNext
<1> DEFINE r == request[c]
<1>1. PICK v \in ReviewIds, worker \in Workers, now \in 1 .. clock :
        v = r.review /\ worker = r.worker /\ now = r.now
  BY DEF CommitDecide, IInv, RequestSound
<1>2. /\ reviews[v] = r.seenReview /\ reviews[v] \in Review
      /\ reviews[v].state = "leased" /\ reviews[v].until \in Nat
      /\ clock \in Nat /\ now \in Nat
      /\ reviews[v].owner \in Workers \cup {Nil}
      /\ reviews[v].token \in Nat
  BY <1>1 DEF CommitDecide, IInv, RequestSound, TypeOK, Review
<1>3. reviews[v].owner \in Workers
  BY <1>2 DEF IInv, Tables, ReviewSound
<1>4. PICK row \in Review : row = DecidedReview(reviews[v])
  BY <1>2, DecidedFacts
<1>5. /\ row.state = "decided" /\ row.owner = Nil
      /\ row.token = reviews[v].token /\ row.until = 0
  BY <1>1, <1>2, <1>4, DecidedFacts DEF NoTime
<1>6. reviews' = [reviews EXCEPT ![v] = row] /\ clock' = clock
  BY <1>1, <1>2, <1>4 DEF CommitDecide, WriteReview, Answer
<1> DEFINE new == [holder |-> Nil, token |-> reviews[v].token, until |-> 0,
                   settled |-> TRUE]
<1>7. Leases' = [Leases EXCEPT ![v] = new]
  <2>1. TRUE <=> row.state = "decided"
    BY <1>5
  <2>2. Leases' =
          [Leases EXCEPT ![v] =
             [holder |-> row.owner, token |-> row.token, until |-> row.until,
              settled |-> TRUE]]
    BY <1>6, <2>1, OneLease
  <2>3. QED  BY <1>5, <2>2
<1>8. Leases[v] = [holder |-> reviews[v].owner, token |-> reviews[v].token,
                   until |-> reviews[v].until, settled |-> FALSE]
  <2>1. FALSE <=> reviews[v].state = "decided"
    BY <1>2
  <2>2. QED  BY <2>1, LeaseIs DEF Leases
<1>9. PICK old \in Ownership!Lease :
        /\ old = Leases[v] /\ old.token = reviews[v].token
        /\ old.holder # Nil
  <2>1. Leases[v] \in Ownership!Lease
    BY <1>2, <1>8 DEF Ownership!Lease
  <2>2. Leases[v].token = reviews[v].token /\ Leases[v].holder # Nil
    BY <1>2, <1>3, <1>8, NilAssumption DEF NilAssumption
  <2>3. QED  BY <2>1, <2>2
<1>10. new = [old EXCEPT !.holder = Nil, !.until = 0, !.settled = TRUE]
  <2> DEFINE back == [old EXCEPT !.holder = Nil, !.until = 0, !.settled = TRUE]
  <2>1. /\ new \in Ownership!Lease
        /\ new.holder = Nil /\ new.token = reviews[v].token
        /\ new.until = 0 /\ new.settled = TRUE
    BY <1>2 DEF Ownership!Lease
  <2> HIDE DEF new
  <2>2. /\ back \in Ownership!Lease
        /\ back.holder = Nil /\ back.token = old.token
        /\ back.until = 0 /\ back.settled = TRUE
    BY DEF Ownership!Lease
  <2> HIDE DEF back
  <2>3. back = new
    BY <1>9, <2>1, <2>2 DEF Ownership!Lease
  <2>4. QED  BY <2>3, Zenon DEF back
<1> HIDE DEF new
<1>11. Ownership!WriteLease(v, new)
  BY <1>6, <1>7 DEF Ownership!WriteLease, Leases
<1>12. Ownership!Release(v)
  BY <1>9, <1>10, <1>11, TRUE \in BOOLEAN
  DEF Ownership!Release, Ownership!Held, Leases
<1>13. QED  BY <1>12 DEF Ownership!LeaseNext

\* Every step of the reviews is a step of the lease, or leaves it alone.
LEMMA LeaseStepOf ==
  ASSUME IInv, [Next]_vars
  PROVE  [Ownership!LeaseNext]_(Ownership!leaseVars)
<1>1. CASE UNCHANGED <<clock, reviews>>
  <2>1. Leases' = Leases
    BY <1>1 DEF Leases, LeaseOf
  <2>2. QED  BY <1>1, <2>1 DEF Ownership!leaseVars, Leases
<1>2. CASE Tick
  <2>1. Leases' = Leases
    BY <1>2 DEF Tick, Leases, LeaseOf
  <2>2. Ownership!LeaseTick
    BY <1>2, <2>1 DEF Tick, Ownership!LeaseTick, Leases
  <2>3. QED  BY <2>2 DEF Ownership!LeaseNext
<1>3. ASSUME NEW c \in Clients, CommitAssign(c)
      PROVE  UNCHANGED Ownership!leaseVars
  BY <1>3, AssignStutters DEF Ownership!leaseVars, Leases
<1>4. ASSUME NEW c \in Clients, Begin(c)
      PROVE  UNCHANGED <<clock, reviews>>
  BY <1>4, BeginOnlyReads
<1>5. ASSUME NEW c \in Clients, CommitDispute(c) \/ FinishResolve(c) \/ Fail(c)
      PROVE  UNCHANGED <<clock, reviews>>
  BY <1>5 DEF CommitDispute, FinishResolve, Fail, Answer
<1>6. CASE UNCHANGED vars
  BY <1>1, <1>6 DEF vars
<1>7. QED
  BY <1>1, <1>2, <1>3, <1>4, <1>5, <1>6, ClaimGrants, RenewalRenews,
     DecisionReleases
  DEF Next, Commit

\* A review is owned as a fenced lease is: by one worker at a time, with a new
\* token at every claim, and by nobody once it is decided.
THEOREM ReviewsAreFenced == Spec => ReviewIsLeased
<1>1. Init => Ownership!LeaseInit
  <2> SUFFICES ASSUME Init  PROVE Ownership!LeaseInit
    OBVIOUS
  <2>1. ASSUME NEW v \in ReviewIds  PROVE LeaseOf(v) = Ownership!Free
    <3>1. /\ reviews[v].owner = Nil /\ reviews[v].token = 0
          /\ reviews[v].until = 0
          /\ FALSE <=> reviews[v].state = "decided"
      BY NewRows DEF Init, NoTime
    <3>2. LeaseOf(v) =
            [holder |-> reviews[v].owner, token |-> reviews[v].token,
             until |-> reviews[v].until, settled |-> FALSE]
      BY <3>1, LeaseIs
    <3>3. QED  BY <3>1, <3>2 DEF Ownership!Free
  <2>2. QED  BY <2>1 DEF Init, Ownership!LeaseInit
<1>2. Spec => [][Ownership!LeaseNext]_(Ownership!leaseVars)
  BY LeaseStepOf, Invariance, PTL DEF Spec
<1>3. QED  BY <1>1, <1>2 DEF Spec, ReviewIsLeased, Ownership!LeaseSpec

-----------------------------------------------------------------------------
(* What a fenced lease guarantees, for reviews *)

Fencing ==
  INSTANCE FencedLeaseProofs WITH
    Resources <- ReviewIds, Owners <- Workers, Nobody <- Nil,
    Deadlines <- 1 .. Horizon + LeaseTTL, lease <- Leases

\* Every step of the program does to the lease of a review what a step may do
\* to a fenced lease.
LEMMA ReviewLeaseSteps ==
  ASSUME IInv, Fencing!LeaseSound, [Next]_vars
  PROVE  /\ Fencing!LeaseSound'
         /\ \A v \in ReviewIds :
              \/ Leases'[v] = Leases[v]
              \/ Fencing!Granted(Leases[v], Leases'[v])
              \/ Fencing!Renewed(Leases[v], Leases'[v])
              \/ Fencing!Released(Leases[v], Leases'[v])
<1>1. 1 .. Horizon + LeaseTTL \subseteq Nat /\ Nil \notin Workers
  BY NilAssumption DEF NilAssumption
<1>2. [Fencing!LeaseNext]_(Fencing!leaseVars)
  BY LeaseStepOf, Zenon
  DEF Leases, Ownership!LeaseNext, Fencing!LeaseNext, Ownership!LeaseTick,
      Fencing!LeaseTick, Ownership!Grant, Fencing!Grant, Ownership!Renew,
      Fencing!Renew, Ownership!Release, Fencing!Release, Ownership!Held,
      Fencing!Held, Ownership!WriteLease, Fencing!WriteLease,
      Ownership!leaseVars, Fencing!leaseVars
<1>3. QED  BY <1>1, <1>2, Fencing!LeaseSteps

\* Reviews start unleased and stay sound.
LEMMA ReviewLeasesSound == Spec => []Fencing!LeaseSound
<1>1. Init => Fencing!LeaseInit
  <2> SUFFICES ASSUME Init  PROVE Fencing!LeaseInit
    OBVIOUS
  <2>1. ASSUME NEW v \in ReviewIds  PROVE LeaseOf(v) = Fencing!Free
    <3>1. /\ reviews[v].owner = Nil /\ reviews[v].token = 0
          /\ reviews[v].until = 0
          /\ FALSE <=> reviews[v].state = "decided"
      BY NewRows DEF Init, NoTime
    <3>2. LeaseOf(v) =
            [holder |-> reviews[v].owner, token |-> reviews[v].token,
             until |-> reviews[v].until, settled |-> FALSE]
      BY <3>1, LeaseIs
    <3>3. QED  BY <3>1, <3>2 DEF Fencing!Free
  <2>2. QED  BY <2>1 DEF Init, Fencing!LeaseInit, Leases
<1>2. Fencing!LeaseInit => Fencing!LeaseSound
  BY Fencing!LeaseStart
<1>3. IInv /\ Fencing!LeaseSound /\ [Next]_vars => Fencing!LeaseSound'
  BY ReviewLeaseSteps
<1>4. QED  BY <1>1, <1>2, <1>3, Invariance, PTL DEF Spec

\* A token names its reviewer: from the moment a worker owns a review under a
\* token nobody else ever owns the review under it, whoever renews, takes over
\* or decides it later, so the token by which Renew and Decide know a late
\* request tells whose lease it was.
THEOREM TokenNamesReviewer ==
  ASSUME NEW v \in ReviewIds, NEW t \in Nat, NEW w \in Workers
  PROVE  Spec => [](reviews[v].owner = w /\ reviews[v].token = t
                      => [](\/ reviews[v].token > t
                            \/ /\ reviews[v].token = t
                               /\ reviews[v].owner \in {w, Nil}))
<1> DEFINE Mine == \/ reviews[v].token > t
                   \/ /\ reviews[v].token = t
                      /\ reviews[v].owner \in {w, Nil}
<1>1. IInv /\ Fencing!LeaseSound /\ [Next]_vars /\ Mine => Mine'
  <2> SUFFICES ASSUME IInv, Fencing!LeaseSound, [Next]_vars, Mine
               PROVE  Mine'
    OBVIOUS
  <2>1. /\ Leases[v].holder = reviews[v].owner
        /\ Leases[v].token = reviews[v].token
        /\ Leases'[v].holder = reviews'[v].owner
        /\ Leases'[v].token = reviews'[v].token
    BY DEF Leases, LeaseOf
  <2>2. reviews[v].token \in Nat
    BY DEF IInv, TypeOK, Review
  <2>3. QED
    BY <2>1, <2>2, ReviewLeaseSteps
    DEF Fencing!Granted, Fencing!Renewed, Fencing!Released
<1>2. reviews[v].owner = w /\ reviews[v].token = t => Mine
  OBVIOUS
<1> HIDE DEF Mine
<1>3. Spec => [](reviews[v].owner = w /\ reviews[v].token = t => []Mine)
  BY <1>1, <1>2, ReviewLeasesSound, Invariance, PTL DEF Spec
<1>4. QED  BY <1>3 DEF Mine

=============================================================================
