--------------------------- MODULE FencedLeaseProofs ---------------------------
(***************************************************************************)
(* What every fenced lease guarantees, whatever is leased and to whom.     *)
(* Modules ReviewProofs and OutboxProofs show that reviews and events are  *)
(* leased like this, and inherit it.                                       *)
(***************************************************************************)
EXTENDS FencedLease, TLAPS

\* Leases are well formed, and a settled resource has no holder.
LeaseSound ==
  /\ lease \in [Resources -> Lease]
  /\ \A x \in Resources : lease[x].settled => ~Held(x)

\* What one step does to one resource: nothing, a grant under the next token,
\* a longer deadline, or a release that keeps the token.
Granted(old, new) ==
  /\ ~old.settled /\ (old.holder # Nobody => old.until <= clock)
  /\ new.holder \in Owners /\ new.token = old.token + 1 /\ ~new.settled

Renewed(old, new) ==
  /\ old.holder # Nobody /\ new.holder = old.holder
  /\ new.token = old.token /\ new.settled = old.settled
  /\ old.until <= new.until

Released(old, new) ==
  old.holder # Nobody /\ new.holder = Nobody /\ new.token = old.token

\* Every step is one of these for every resource.
LEMMA LeaseSteps ==
  ASSUME Deadlines \subseteq Nat, Nobody \notin Owners,
         LeaseSound, [LeaseNext]_leaseVars
  PROVE  /\ LeaseSound'
         /\ \A x \in Resources :
              \/ lease'[x] = lease[x]
              \/ Granted(lease[x], lease'[x])
              \/ Renewed(lease[x], lease'[x])
              \/ Released(lease[x], lease'[x])
<1> DEFINE Steps(x) == \/ lease'[x] = lease[x]
                       \/ Granted(lease[x], lease'[x])
                       \/ Renewed(lease[x], lease'[x])
                       \/ Released(lease[x], lease'[x])
<1>1. \A x \in Resources : lease[x] \in Lease
  BY DEF LeaseSound
<1>2. ASSUME NEW x \in Resources, NEW row \in Lease, WriteLease(x, row),
             row.settled => row.holder = Nobody,
             \/ Granted(lease[x], row)
             \/ Renewed(lease[x], row)
             \/ Released(lease[x], row)
      PROVE  LeaseSound' /\ \A y \in Resources : Steps(y)
  <2>1. \A y \in Resources : lease'[y] = IF y = x THEN row ELSE lease[y]
    BY <1>2 DEF WriteLease, LeaseSound
  <2>2. LeaseSound'
    BY <1>2, <2>1 DEF WriteLease, LeaseSound, Held
  <2>3. QED  BY <1>2, <2>1, <2>2
<1>3. CASE LeaseTick \/ UNCHANGED leaseVars
  BY <1>3 DEF LeaseTick, leaseVars, LeaseSound, Held
<1>4. ASSUME NEW x \in Resources, NEW o \in Owners, Grant(x, o)
      PROVE  LeaseSound' /\ \A y \in Resources : Steps(y)
  <2>a. PICK token \in Nat : token = lease[x].token + 1
    BY <1>1 DEF Lease
  <2>1. PICK until \in Deadlines :
          WriteLease(x, [lease[x] EXCEPT !.holder = o, !.until = until,
                                         !.token = token])
    BY <1>4, <2>a DEF Grant
  <2> DEFINE row == [lease[x] EXCEPT !.holder = o, !.until = until,
                                     !.token = token]
  <2>2. row \in Lease /\ row.holder = o /\ row.token = lease[x].token + 1
        /\ row.settled = lease[x].settled
    BY <1>1, <2>a DEF Lease
  <2>3. ~lease[x].settled /\ (lease[x].holder # Nobody => lease[x].until <= clock)
    BY <1>4 DEF Grant, Held
  <2>4. WriteLease(x, row)
    BY <2>1
  <2> HIDE DEF row
  <2>5. ~row.settled
    BY <2>2, <2>3, Zenon
  <2>6. Granted(lease[x], row)
    BY <2>2, <2>3, <2>5 DEF Granted
  <2>7. QED  BY <1>2, <2>2, <2>4, <2>5, <2>6
<1>5. ASSUME NEW x \in Resources, Renew(x)
      PROVE  LeaseSound' /\ \A y \in Resources : Steps(y)
  <2>1. PICK until \in Deadlines :
          /\ until >= lease[x].until
          /\ WriteLease(x, [lease[x] EXCEPT !.until = until])
    BY <1>5 DEF Renew
  <2> DEFINE row == [lease[x] EXCEPT !.until = until]
  <2>2. row \in Lease /\ row.holder = lease[x].holder
        /\ row.token = lease[x].token /\ row.settled = lease[x].settled
        /\ row.until = until
    BY <1>1, <2>1 DEF Lease
  <2>3. WriteLease(x, row)
    BY <2>1
  <2> HIDE DEF row
  <2>4. lease[x].holder # Nobody
    BY <1>5 DEF Renew, Held
  <2>5. ~lease[x].settled
    BY <2>4, Zenon DEF LeaseSound, Held
  <2>6. ~row.settled
    BY <2>2, <2>5, Zenon
  <2>7. lease[x].until <= row.until
    BY <1>1, <2>1, <2>2 DEF Lease
  <2>8. Renewed(lease[x], row)
    BY <2>2, <2>4, <2>7 DEF Renewed
  <2>9. QED  BY <1>2, <2>2, <2>3, <2>6, <2>8
<1>6. ASSUME NEW x \in Resources, Release(x)
      PROVE  LeaseSound' /\ \A y \in Resources : Steps(y)
  <2>1. PICK done \in BOOLEAN :
          WriteLease(x, [lease[x] EXCEPT !.holder = Nobody, !.until = 0,
                                         !.settled = done])
    BY <1>6 DEF Release
  <2> DEFINE row == [lease[x] EXCEPT !.holder = Nobody, !.until = 0,
                                     !.settled = done]
  <2>2. row \in Lease /\ row.holder = Nobody /\ row.token = lease[x].token
    BY <1>1, <2>1 DEF Lease
  <2>3. WriteLease(x, row)
    BY <2>1
  <2> HIDE DEF row
  <2>4. Released(lease[x], row)
    BY <1>6, <2>2 DEF Release, Held, Released
  <2>5. QED  BY <1>2, <2>2, <2>3, <2>4
<1>7. QED  BY <1>3, <1>4, <1>5, <1>6 DEF LeaseNext

\* At first nothing is leased.
LEMMA LeaseStart == LeaseInit => LeaseSound
  BY DEF LeaseInit, LeaseSound, Free, Lease, Held

\* Leases stay well formed, and what is settled has no holder.
LEMMA LeasesSound ==
  ASSUME Deadlines \subseteq Nat, Nobody \notin Owners
  PROVE  LeaseSpec => []LeaseSound
<1>1. LeaseSound /\ [LeaseNext]_leaseVars => LeaseSound'
  BY LeaseSteps
<1>2. QED  BY <1>1, LeaseStart, PTL DEF LeaseSpec

\* The resource is not leased under token t, or a lower one, to anyone but o.
BelongsAtMostTo(x, t, o) ==
  \/ lease[x].token > t
  \/ lease[x].token = t /\ lease[x].holder \in {o, Nobody}

\* A token names its holder: whoever is given the resource under a token is the
\* only one who ever holds it under that token, so a late answer that carries
\* the token of an earlier lease is told from every answer of the holder.
THEOREM TokenNamesHolder ==
  ASSUME Deadlines \subseteq Nat, Nobody \notin Owners,
         NEW x \in Resources, NEW t \in Nat, NEW o \in Owners
  PROVE  LeaseSpec => [](lease[x].holder = o /\ lease[x].token = t
                           => []BelongsAtMostTo(x, t, o))
<1>1. LeaseSound /\ [LeaseNext]_leaseVars /\ BelongsAtMostTo(x, t, o)
        => BelongsAtMostTo(x, t, o)'
  <2> SUFFICES ASSUME LeaseSound, [LeaseNext]_leaseVars,
                      BelongsAtMostTo(x, t, o)
               PROVE  BelongsAtMostTo(x, t, o)'
    OBVIOUS
  <2>1. lease[x].token \in Nat
    BY DEF LeaseSound, Lease
  <2>2. QED
    BY <2>1, LeaseSteps DEF Granted, Renewed, Released, BelongsAtMostTo
<1>2. LeaseSound /\ lease[x].holder = o /\ lease[x].token = t
        => BelongsAtMostTo(x, t, o)
  BY DEF BelongsAtMostTo
<1>3. QED  BY <1>1, <1>2, LeasesSound, PTL DEF LeaseSpec

\* A lease that is over for its holder is over for good: the resource may be
\* held again, but only under a higher token.
Spent(x, t) ==
  lease[x].token > t \/ (lease[x].token = t /\ ~Held(x))

THEOREM SpentTokensStaySpent ==
  ASSUME Deadlines \subseteq Nat, Nobody \notin Owners,
         NEW x \in Resources, NEW t \in Nat
  PROVE  LeaseSpec => [](Spent(x, t) => []Spent(x, t))
<1>1. LeaseSound /\ [LeaseNext]_leaseVars /\ Spent(x, t) => Spent(x, t)'
  <2> SUFFICES ASSUME LeaseSound, [LeaseNext]_leaseVars, Spent(x, t)
               PROVE  Spent(x, t)'
    OBVIOUS
  <2>1. lease[x].token \in Nat
    BY DEF LeaseSound, Lease
  <2>2. QED
    BY <2>1, LeaseSteps DEF Granted, Renewed, Released, Spent, Held
<1>2. QED  BY <1>1, LeasesSound, PTL DEF LeaseSpec

\* A holder loses the resource to another only when its lease is over.
THEOREM NoTakeoverInTime ==
  ASSUME Deadlines \subseteq Nat, Nobody \notin Owners
  PROVE  LeaseSpec =>
           [][\A x \in Resources :
                /\ Held(x)
                /\ lease'[x].holder \notin {lease[x].holder, Nobody}
                => /\ lease[x].until <= clock
                   /\ lease'[x].token > lease[x].token]_leaseVars
<1>1. LeaseSound /\ [LeaseNext]_leaseVars
        => [\A x \in Resources :
              /\ Held(x)
              /\ lease'[x].holder \notin {lease[x].holder, Nobody}
              => /\ lease[x].until <= clock
                 /\ lease'[x].token > lease[x].token]_leaseVars
  <2> SUFFICES ASSUME LeaseSound, [LeaseNext]_leaseVars, NEW x \in Resources,
                      Held(x),
                      lease'[x].holder \notin {lease[x].holder, Nobody}
               PROVE  /\ lease[x].until <= clock
                      /\ lease'[x].token > lease[x].token
    OBVIOUS
  <2>1. lease[x].token \in Nat
    BY DEF LeaseSound, Lease
  <2>2. QED
    BY <2>1, LeaseSteps DEF Granted, Renewed, Released, Held
<1>2. QED  BY <1>1, LeasesSound, PTL DEF LeaseSpec

\* What is settled is settled for ever and never held again.
THEOREM SettledForEver ==
  ASSUME Deadlines \subseteq Nat, Nobody \notin Owners, NEW x \in Resources
  PROVE  LeaseSpec => [](lease[x].settled
                           => [](lease[x].settled /\ ~Held(x)))
<1>1. LeaseSound /\ [LeaseNext]_leaseVars /\ lease[x].settled
        => (lease[x].settled)'
  <2> SUFFICES ASSUME LeaseSound, [LeaseNext]_leaseVars, lease[x].settled
               PROVE  lease'[x].settled
    OBVIOUS
  <2>1. lease[x].holder = Nobody
    BY Zenon DEF LeaseSound, Held
  <2>2. lease'[x] = lease[x]
    BY <2>1, LeaseSteps, Zenon DEF Granted, Renewed, Released
  <2>3. QED  BY <2>2, Zenon
<1>2. LeaseSound /\ lease[x].settled => ~Held(x)
  BY Zenon DEF LeaseSound
<1>3. QED  BY <1>1, <1>2, LeasesSound, PTL DEF LeaseSpec

=============================================================================
