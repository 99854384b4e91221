----------------------------- MODULE FencedLease -----------------------------
(***************************************************************************)
(* What a fenced lease promises, wherever the system uses one: "Workers    *)
(* ... use leases and fencing tokens for ownership" (README).  A resource  *)
(* is held by one owner until an instant; whoever takes it over gets a     *)
(* higher token; once settled it is never held again.  Module Review       *)
(* implements it for review assignments and module Outbox for events.      *)
(***************************************************************************)
EXTENDS Integers

CONSTANTS
  Resources,   \* what is leased
  Owners,      \* who may hold it
  Nobody,      \* the holder of a resource that is not leased; not an owner
  Deadlines,   \* instants at which a lease may end, naturals
  Horizon      \* bound: the clock stops here

VARIABLES
  clock,       \* the system clock
  lease        \* lease[x] : holder, fencing token, end of the lease, settled

leaseVars == <<clock, lease>>

Lease == [holder : Owners \cup {Nobody}, token : Nat, until : Nat,
          settled : BOOLEAN]

Free == [holder |-> Nobody, token |-> 0, until |-> 0, settled |-> FALSE]

LeaseInit ==
  /\ clock = 1
  /\ lease = [x \in Resources |-> Free]

LeaseTick ==
  /\ clock < Horizon
  /\ clock' = clock + 1
  /\ UNCHANGED lease

Held(x) == lease[x].holder # Nobody

WriteLease(x, row) == lease' = [lease EXCEPT ![x] = row] /\ UNCHANGED clock

\* Only a resource nobody holds, or one whose lease is over, is granted.
Grant(x, o) ==
  /\ ~lease[x].settled
  /\ Held(x) => lease[x].until <= clock
  /\ \E until \in Deadlines :
       WriteLease(x, [lease[x] EXCEPT !.holder = o, !.until = until,
                                      !.token = @ + 1])

\* The holder prolongs its lease.
Renew(x) ==
  /\ Held(x)
  /\ \E until \in Deadlines :
       /\ until >= lease[x].until
       /\ WriteLease(x, [lease[x] EXCEPT !.until = until])

\* The resource is given back, settled or for another attempt.  Who may do so
\* and until when differs: a failed event is stored after its lease as well.
\* Modules Review and Outbox state it for decisions and completions.
Release(x) ==
  /\ Held(x)
  /\ \E done \in BOOLEAN :
       WriteLease(x, [lease[x] EXCEPT !.holder = Nobody, !.until = 0,
                                      !.settled = done])

LeaseNext ==
  \/ LeaseTick
  \/ \E x \in Resources :
       (\E o \in Owners : Grant(x, o)) \/ Renew(x) \/ Release(x)

LeaseSpec == LeaseInit /\ [][LeaseNext]_leaseVars

=============================================================================
