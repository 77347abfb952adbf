------------------------- MODULE RelayLeaseProofs -------------------------
(***************************************************************************)
(* Proofs about RelayLease, for any number of relays and buckets, any TTL  *)
(* and any bounds on the clock and the renewals.                           *)
(***************************************************************************)
EXTENDS RelayLease, TLAPS

LEMMA Update ==
  ASSUME NEW S, NEW T, NEW f \in [S -> T], NEW s \in S, NEW t \in T
  PROVE  [f EXCEPT ![s] = t] \in [S -> T]
OBVIOUS

LEMMA LockedTypes ==
  ASSUME TypeOK, NEW r \in Relay
  PROVE  /\ Claimable(r) \in SUBSET Bucket
         /\ Locked(r) \in [Bucket -> [by : Relay \cup {None}, until : Nat]]
<1>1. now + TTL \in Nat
  BY LeaseAssumption DEF TypeOK
<1> QED
  BY <1>1 DEF TypeOK, Claimable, Locked

LEMMA CancelTypes ==
  ASSUME TypeOK, NEW r \in Relay, CancelLease(r)
  PROVE  /\ live' \in [Relay -> BOOLEAN]
         /\ leaseUntil' \in [Relay -> Nat]
         /\ timer' \in [Relay -> 0..MaxEpoch]
         /\ publishing' \in [Relay -> SUBSET Bucket]
<1>1. 0 \in Nat /\ 0 \in 0..MaxEpoch
  BY LeaseAssumption
<1> QED
  BY <1>1 DEF CancelLease, TypeOK

\* An answered claim was started below the bound on renewals, and none of its
\* relay was applied since.
CallInv == \A r \in Relay : call[r].state # "idle" => epoch[r] < MaxEpoch

LEMMA TypeStep ==
  ASSUME TypeOK, CallInv, [Next]_vars
  PROVE  TypeOK'
<1> USE LeaseAssumption DEF localVars
<1>1. CASE UNCHANGED vars
  BY <1>1 DEF TypeOK, vars
<1>2. CASE Tick
  BY <1>2 DEF Tick, TypeOK
<1>3. ASSUME NEW r \in Relay, StartClaim(r) PROVE TypeOK'
  BY <1>3 DEF StartClaim, TypeOK
<1>4. ASSUME NEW r \in Relay, ClaimBuckets(r) PROVE TypeOK'
  <2>1. call' \in [Relay -> [state : {"idle", "sent", "answered"}, started : Nat,
                             buckets : SUBSET Bucket]]
    <3> DEFINE c == [call[r] EXCEPT !.state = "answered", !.buckets = Claimable(r)]
    <3>1. call' = [call EXCEPT ![r] = c]
      BY <1>4 DEF ClaimBuckets, TypeOK
    <3>2. call[r] \in [state : {"idle", "sent", "answered"}, started : Nat, buckets : SUBSET Bucket]
      BY DEF TypeOK
    <3>3. c \in [state : {"idle", "sent", "answered"}, started : Nat, buckets : SUBSET Bucket]
      BY <3>2, LockedTypes
    <3> HIDE DEF c
    <3> QED
      BY <3>1, <3>3 DEF TypeOK
  <2> QED
    BY <1>4, <2>1, LockedTypes DEF ClaimBuckets, TypeOK
<1>5. ASSUME NEW r \in Relay, ClaimFails(r) PROVE TypeOK'
  BY <1>5, LockedTypes DEF ClaimFails, TypeOK, Idle
<1>6. ASSUME NEW r \in Relay, ApplyClaim(r) PROVE TypeOK'
  <2>1. call[r].started + TTL \in Nat /\ call[r].buckets \in SUBSET Bucket
    BY DEF TypeOK
  <2>2. epoch[r] + 1 \in 0..MaxEpoch
    BY <1>6 DEF ApplyClaim, CallInv, TypeOK
  <2>3. owned' \in [Relay -> SUBSET Bucket]
    BY <1>6, <2>1 DEF ApplyClaim, TypeOK
  <2>4. call' \in [Relay -> [state : {"idle", "sent", "answered"}, started : Nat,
                             buckets : SUBSET Bucket]]
    BY <1>6 DEF ApplyClaim, Idle, TypeOK
  <2>5. CASE call[r].buckets = {}
    BY <1>6, <2>3, <2>4, <2>5, CancelTypes DEF ApplyClaim, TypeOK
  <2>6. CASE call[r].buckets # {}
    <3>0. RenewLease(r)
      BY <1>6, <2>6 DEF ApplyClaim
    <3>1. /\ live' \in [Relay -> BOOLEAN] /\ leaseUntil' \in [Relay -> Nat]
          /\ timer' \in [Relay -> 0..MaxEpoch]
      BY <3>0, <2>1, <2>2 DEF RenewLease, Deadline, TypeOK
    <3>3. epoch' \in [Relay -> 0..MaxEpoch]
      BY <3>0, <2>2 DEF RenewLease, TypeOK
    <3>2. publishing' \in [Relay -> SUBSET Bucket]
      BY <1>6, <2>6 DEF ApplyClaim, TypeOK
    <3> QED
      BY <1>6, <2>3, <2>4, <3>1, <3>2, <3>3 DEF ApplyClaim, TypeOK
  <2> QED
    BY <2>5, <2>6
<1>7. ASSUME NEW r \in Relay, TimerFires(r) PROVE TypeOK'
  <2>1. timer[r] \in 1..MaxEpoch /\ fired[r] \cup {timer[r]} \in SUBSET (1..MaxEpoch)
    BY <1>7 DEF TimerFires, TypeOK
  <2>2. fired' \in [Relay -> SUBSET (1..MaxEpoch)]
    BY <1>7, <2>1 DEF TimerFires, TypeOK
  <2> QED
    BY <1>7, <2>2 DEF TimerFires, TypeOK
<1>8. ASSUME NEW r \in Relay, Callback(r) PROVE TypeOK'
  <2>1. owned' \in [Relay -> SUBSET Bucket] /\ fired' \in [Relay -> SUBSET (1..MaxEpoch)]
    BY <1>8 DEF Callback, TypeOK
  <2> QED
    BY <1>8, <2>1, CancelTypes DEF Callback, TypeOK
<1>9. ASSUME NEW r \in Relay, StopLease(r) PROVE TypeOK'
  BY <1>9, CancelTypes DEF StopLease, TypeOK
<1>10. ASSUME NEW r \in Relay, NEW b \in Bucket, DrainBucket(r, b) \/ DrainReturns(r, b)
       PROVE  TypeOK'
  <2>1. CASE DrainBucket(r, b)
    BY <2>1, SMTT(20) DEF DrainBucket, TypeOK
  <2>2. CASE DrainReturns(r, b)
    BY <2>2, SMTT(20) DEF DrainReturns, TypeOK
  <2>. QED  BY <1>10, <2>1, <2>2
<1> QED
  BY <1>1, <1>2, <1>3, <1>4, <1>5, <1>6, <1>7, <1>8, <1>9, <1>10 DEF Next

LEMMA CallStep ==
  ASSUME TypeOK, CallInv, [Next]_vars
  PROVE  CallInv'
<1> SUFFICES ASSUME NEW q \in Relay, call'[q].state # "idle" PROVE epoch'[q] < MaxEpoch
  BY DEF CallInv
<1>1. CASE call' = call /\ epoch' = epoch
  BY <1>1 DEF CallInv
<1>2. ASSUME NEW r \in Relay, StartClaim(r) PROVE epoch'[q] < MaxEpoch
  BY <1>2 DEF StartClaim, localVars, CallInv, TypeOK
<1>3. ASSUME NEW r \in Relay, ClaimBuckets(r) PROVE epoch'[q] < MaxEpoch
  BY <1>3 DEF ClaimBuckets, localVars, CallInv, TypeOK
<1>4. ASSUME NEW r \in Relay, ClaimFails(r) PROVE epoch'[q] < MaxEpoch
  BY <1>4 DEF ClaimFails, localVars, CallInv, TypeOK, Idle
<1>5. ASSUME NEW r \in Relay, ApplyClaim(r) PROVE epoch'[q] < MaxEpoch
  BY <1>5 DEF ApplyClaim, RenewLease, CallInv, TypeOK, Idle
<1> QED
  BY <1>1, <1>2, <1>3, <1>4, <1>5 DEF Next, vars, Tick, TimerFires, Callback, StopLease,
     DrainBucket, DrainReturns, localVars

\* Every variable keeps its type; the epoch of a relay stays within its bound.
THEOREM TypeCorrect == Spec => []TypeOK
<1>1. Init => TypeOK /\ CallInv
  BY LeaseAssumption DEF Init, TypeOK, CallInv, Idle
<1>2. TypeOK /\ CallInv /\ [Next]_vars => TypeOK' /\ CallInv'
  BY TypeStep, CallStep
<1> QED
  BY <1>1, <1>2, PTL DEF Spec

-----------------------------------------------------------------------------
(* Fencing.  A deadline d counted from before a claim is covered: as long  *)
(* as it is ahead, the table names the relay for at least that long.  The  *)
(* table changes only by claims, and a claim skips what is covered for     *)
(* another relay.                                                          *)

Covered(r, S, d) == now < d => \A b \in S : lease[b].by = r /\ d <= lease[b].until

LeaseInv ==
  \A r \in Relay :
    /\ leaseUntil[r] <= now + TTL
    /\ call[r].state # "idle" => call[r].started <= now
    /\ call[r].state = "answered" => Covered(r, call[r].buckets, Deadline(r))
    /\ live[r] => Covered(r, owned[r], leaseUntil[r])

LEMMA ClaimCovers ==
  ASSUME TypeOK, NEW r \in Relay, now' = now, lease' = Locked(r),
         NEW q \in Relay, NEW S \in SUBSET Bucket, NEW d \in Nat,
         d <= now + TTL, Covered(q, S, d)
  PROVE  now' < d => \A b \in S : lease'[b].by = q /\ d <= lease'[b].until
<1> SUFFICES ASSUME now < d, NEW b \in S
             PROVE  lease'[b].by = q /\ d <= lease'[b].until
  OBVIOUS
<1>1. lease[b].by = q /\ d <= lease[b].until
  BY DEF Covered
<1>2. now \in Nat /\ lease[b].until \in Nat /\ TTL \in Nat /\ now < lease[b].until
  BY <1>1, LeaseAssumption DEF TypeOK
<1>3. CASE q = r
  <2>1. lease'[b] = [by |-> r, until |-> now + TTL]
    BY <1>1, <1>3 DEF Locked, Claimable
  <2> QED
    BY <2>1, <1>3
<1>4. CASE q # r
  <2>1. b \notin Claimable(r)
    BY <1>1, <1>2, <1>4, LeaseAssumption DEF Claimable
  <2>2. lease'[b] = lease[b]
    BY <2>1 DEF Locked
  <2> QED
    BY <1>1, <2>2
<1> QED
  BY <1>3, <1>4

LEMMA LeaseStep ==
  ASSUME TypeOK, TypeOK', LeaseInv, [Next]_vars
  PROVE  LeaseInv'
<1> USE LeaseAssumption DEF localVars
<1> SUFFICES ASSUME NEW q \in Relay
             PROVE  /\ leaseUntil'[q] <= now' + TTL
                    /\ call'[q].state # "idle" => call'[q].started <= now'
                    /\ call'[q].state = "answered" => Covered(q, call[q].buckets, Deadline(q))'
                    /\ live'[q] => Covered(q, owned[q], leaseUntil[q])'
  BY DEF LeaseInv
<1> USE DEF Deadline
<1>0. /\ now \in Nat /\ TTL \in Nat /\ leaseUntil[q] \in Nat /\ call[q].started \in Nat
      /\ call[q].buckets \in SUBSET Bucket /\ owned[q] \in SUBSET Bucket
  BY DEF TypeOK
<1>1. CASE UNCHANGED <<now, lease, call>> /\ owned'[q] \subseteq owned[q]
           /\ \/ live'[q] = live[q] /\ leaseUntil'[q] = leaseUntil[q]
              \/ ~live'[q] /\ leaseUntil'[q] = 0
  BY <1>0, <1>1 DEF LeaseInv, Covered
<1>2. CASE Tick
  BY <1>0, <1>2 DEF Tick, LeaseInv, Covered
<1>3. ASSUME NEW r \in Relay, StartClaim(r)
      PROVE  /\ leaseUntil'[q] <= now' + TTL
             /\ call'[q].state # "idle" => call'[q].started <= now'
             /\ call'[q].state = "answered" => Covered(q, call[q].buckets, Deadline(q))'
             /\ live'[q] => Covered(q, owned[q], leaseUntil[q])'
  <2>1. CASE q = r
    BY <1>0, <1>3, <2>1 DEF StartClaim, LeaseInv, Covered, TypeOK
  <2>2. CASE q # r
    <3>1. call'[q] = call[q]
      BY <1>3, <2>2 DEF StartClaim, TypeOK
    <3> QED
      BY <1>0, <1>3, <3>1 DEF StartClaim, LeaseInv, Covered
  <2> QED
    BY <2>1, <2>2
<1>4. ASSUME NEW r \in Relay, now' = now, lease' = Locked(r), UNCHANGED localVars,
             call'[q].state # "idle" => call'[q].started = call[q].started /\ call[q].state # "idle",
             call'[q].state = "answered" =>
               \/ call'[q] = call[q]
               \/ q = r /\ call'[q].buckets = Claimable(r) /\ call[q].state = "sent"
      PROVE  /\ leaseUntil'[q] <= now' + TTL
             /\ call'[q].state # "idle" => call'[q].started <= now'
             /\ call'[q].state = "answered" => Covered(q, call[q].buckets, Deadline(q))'
             /\ live'[q] => Covered(q, owned[q], leaseUntil[q])'
  <2>1. live'[q] => Covered(q, owned[q], leaseUntil[q])'
    BY <1>0, <1>4, ClaimCovers DEF LeaseInv, Covered
  <2>2. leaseUntil'[q] <= now' + TTL /\ (call'[q].state # "idle" => call'[q].started <= now')
    BY <1>0, <1>4 DEF LeaseInv
  <2>3. ASSUME call'[q].state = "answered" PROVE Covered(q, call[q].buckets, Deadline(q))'
    <3>1. CASE call'[q] = call[q]
      <4>1. Covered(q, call[q].buckets, call[q].started + TTL) /\ call[q].started <= now
        BY <2>3, <3>1 DEF LeaseInv
      <4>2. call[q].started + TTL \in Nat /\ call[q].started + TTL <= now + TTL
        BY <1>0, <4>1
      <4> QED
        <5>1. now' < call[q].started + TTL =>
                \A b \in call[q].buckets :
                  lease'[b].by = q /\ call[q].started + TTL <= lease'[b].until
          BY <1>0, <1>4, <4>1, <4>2, ClaimCovers
        <5> QED
          BY <3>1, <5>1 DEF Covered
    <3>2. CASE q = r /\ call'[q].buckets = Claimable(r) /\ call[q].state = "sent"
      <4>1. call[q].started <= now /\ call'[q].started = call[q].started
        BY <1>4, <2>3, <3>2 DEF LeaseInv
      <4>2. \A b \in Claimable(r) : lease'[b] = [by |-> r, until |-> now + TTL]
        BY <1>4 DEF Locked, Claimable
      <4> QED
        BY <1>0, <3>2, <4>1, <4>2 DEF Covered
    <3> QED
      BY <1>4, <2>3, <3>1, <3>2
  <2> QED
    BY <2>1, <2>2, <2>3
<1>5. ASSUME NEW r \in Relay, ClaimBuckets(r)
      PROVE  /\ leaseUntil'[q] <= now' + TTL
             /\ call'[q].state # "idle" => call'[q].started <= now'
             /\ call'[q].state = "answered" => Covered(q, call[q].buckets, Deadline(q))'
             /\ live'[q] => Covered(q, owned[q], leaseUntil[q])'
  <2>1. now' = now /\ lease' = Locked(r) /\ UNCHANGED localVars /\ call[r].state = "sent"
    BY <1>5 DEF ClaimBuckets
  <2>2. q # r => call'[q] = call[q]
    BY <1>5 DEF ClaimBuckets, TypeOK
  <2>3. q = r => /\ call'[q].started = call[q].started /\ call'[q].buckets = Claimable(r)
    BY <1>5 DEF ClaimBuckets, TypeOK
  <2> QED
    BY <1>4, <2>1, <2>2, <2>3
<1>6. ASSUME NEW r \in Relay, ClaimFails(r)
      PROVE  /\ leaseUntil'[q] <= now' + TTL
             /\ call'[q].state # "idle" => call'[q].started <= now'
             /\ call'[q].state = "answered" => Covered(q, call[q].buckets, Deadline(q))'
             /\ live'[q] => Covered(q, owned[q], leaseUntil[q])'
  <2>1. now' = now /\ UNCHANGED localVars
    BY <1>6 DEF ClaimFails
  <2>2. call'[q] = call[q] \/ call'[q].state = "idle"
    BY <1>6 DEF ClaimFails, Idle, TypeOK
  <2>3. CASE lease' = Locked(r)
    BY <1>4, <2>1, <2>2, <2>3
  <2>4. CASE lease' = lease
    BY <1>0, <2>1, <2>2, <2>4 DEF LeaseInv, Covered
  <2> QED
    BY <1>6, <2>3, <2>4 DEF ClaimFails
<1>7. ASSUME NEW r \in Relay, ApplyClaim(r)
      PROVE  /\ leaseUntil'[q] <= now' + TTL
             /\ call'[q].state # "idle" => call'[q].started <= now'
             /\ call'[q].state = "answered" => Covered(q, call[q].buckets, Deadline(q))'
             /\ live'[q] => Covered(q, owned[q], leaseUntil[q])'
  <2>1. /\ now' = now /\ lease' = lease /\ call[r].state = "answered"
        /\ owned' = [owned EXCEPT ![r] = call[r].buckets]
        /\ call' = [call EXCEPT ![r] = Idle]
        /\ leaseUntil' = [leaseUntil EXCEPT ![r] = 0] \/ leaseUntil' = [leaseUntil EXCEPT ![r] = Deadline(r)]
        /\ live' = [live EXCEPT ![r] = FALSE] \/ RenewLease(r)
    BY <1>7 DEF ApplyClaim, CancelLease, RenewLease
  <2>2. CASE q # r
    <3>1. call'[q] = call[q] /\ owned'[q] = owned[q] /\ leaseUntil'[q] = leaseUntil[q]
      BY <2>1, <2>2 DEF TypeOK
    <3>2. live'[q] = live[q]
      BY <2>1, <2>2 DEF RenewLease, TypeOK
    <3> QED
      BY <1>0, <2>1, <3>1, <3>2 DEF LeaseInv, Covered
  <2>3. CASE q = r
    <3>1. call'[q] = Idle /\ owned'[q] = call[q].buckets
      BY <2>1, <2>3 DEF TypeOK
    <3>2. leaseUntil'[q] = 0 \/ leaseUntil'[q] = call[q].started + TTL
      BY <2>1, <2>3 DEF TypeOK
    <3>3. live'[q] => leaseUntil'[q] = call[q].started + TTL
      BY <2>1, <2>3 DEF RenewLease, TypeOK
    <3>4. call[q].started <= now /\ Covered(q, call[q].buckets, call[q].started + TTL)
      BY <2>1, <2>3 DEF LeaseInv
    <3> QED
      BY <1>0, <2>1, <3>1, <3>2, <3>3, <3>4 DEF Idle, Covered
  <2> QED
    BY <2>2, <2>3
<1>8. ASSUME NEW r \in Relay, Callback(r) \/ StopLease(r) \/ TimerFires(r)
               \/ (\E b \in Bucket : DrainBucket(r, b) \/ DrainReturns(r, b))
      PROVE  UNCHANGED <<now, lease, call>> /\ owned'[q] \subseteq owned[q]
             /\ \/ live'[q] = live[q] /\ leaseUntil'[q] = leaseUntil[q]
                \/ ~live'[q] /\ leaseUntil'[q] = 0
  BY <1>8 DEF Callback, StopLease, TimerFires, DrainBucket, DrainReturns, CancelLease, TypeOK
<1>9. UNCHANGED vars => UNCHANGED <<now, lease, call, owned, live, leaseUntil>>
  BY DEF vars
<1> QED
  BY <1>1, <1>2, <1>3, <1>5, <1>6, <1>7, <1>8, <1>9 DEF Next

LEMMA LeaseInvariant == Spec => []LeaseInv
<1>1. Init => LeaseInv
  BY LeaseAssumption DEF Init, LeaseInv, Idle, Covered, Deadline
<1>2. TypeOK /\ TypeOK' /\ LeaseInv /\ [Next]_vars => LeaseInv'
  BY LeaseStep
<1> QED
  BY <1>1, <1>2, TypeCorrect, PTL DEF Spec

\* However long the calls to the lease table take, a relay that looks at its
\* own deadline never takes a bucket for its own that the table gives to
\* another.
THEOREM LocalFenceHolds == Spec => []FencedInTime
<1>1. TypeOK /\ LeaseInv => FencedInTime
  BY DEF TypeOK, LeaseInv, Covered, FencedInTime
<1> QED
  BY <1>1, TypeCorrect, LeaseInvariant, PTL

-----------------------------------------------------------------------------
(* Timers and callbacks.                                                   *)

\* A callback that has fired belongs to a deadline that has passed, unless a
\* renewal has replaced it.
TimerInv ==
  \A r \in Relay :
    /\ timer[r] <= epoch[r]
    /\ \A n \in fired[r] : n <= epoch[r]
    /\ epoch[r] \in fired[r] => leaseUntil[r] <= now
    /\ live[r] => timer[r] = epoch[r] \/ epoch[r] \in fired[r]
    /\ publishing[r] \subseteq owned[r]

LEMMA TimerStep ==
  ASSUME TypeOK, TypeOK', TimerInv, [Next]_vars
  PROVE  TimerInv'
<1> USE LeaseAssumption DEF localVars
<1> DEFINE Good(r) ==
      /\ timer[r] <= epoch[r]
      /\ \A n \in fired[r] : n <= epoch[r]
      /\ epoch[r] \in fired[r] => leaseUntil[r] <= now
      /\ live[r] => timer[r] = epoch[r] \/ epoch[r] \in fired[r]
      /\ publishing[r] \subseteq owned[r]
<1> SUFFICES ASSUME NEW q \in Relay PROVE Good(q)'
  BY DEF TimerInv
<1>0. /\ now \in Nat /\ epoch[q] \in Nat /\ timer[q] \in Nat /\ leaseUntil[q] \in Nat
      /\ fired[q] \subseteq Nat /\ 0 \notin fired[q] /\ Good(q)
  BY DEF TypeOK, TimerInv
<1>1. CASE UNCHANGED localVars /\ (now' = now \/ now' = now + 1)
  BY <1>0, <1>1
<1>2. ASSUME NEW r \in Relay, q # r, now' = now,
             ApplyClaim(r) \/ TimerFires(r) \/ Callback(r) \/ StopLease(r)
               \/ (\E b \in Bucket : DrainBucket(r, b) \/ DrainReturns(r, b))
      PROVE  Good(q)'
  <2>1. /\ timer'[q] = timer[q] /\ epoch'[q] = epoch[q] /\ fired'[q] = fired[q]
        /\ leaseUntil'[q] = leaseUntil[q] /\ live'[q] = live[q]
    BY <1>2 DEF ApplyClaim, RenewLease, CancelLease, TimerFires, Callback, StopLease,
       DrainBucket, DrainReturns, TypeOK
  <2>2. publishing'[q] = publishing[q] /\ owned'[q] = owned[q]
    BY <1>2 DEF ApplyClaim, CancelLease, TimerFires, Callback, StopLease,
       DrainBucket, DrainReturns, TypeOK
  <2> QED
    BY <1>0, <1>2, <2>1, <2>2
<1>3. ASSUME CancelLease(q), now' = now, epoch' = epoch, fired'[q] \subseteq fired[q]
      PROVE  Good(q)'
  <2>1. /\ timer'[q] = 0 /\ ~live'[q] /\ leaseUntil'[q] = 0 /\ publishing'[q] = {}
    BY <1>3 DEF CancelLease, TypeOK
  <2> QED
    BY <1>0, <1>3, <2>1
<1>4. CASE ApplyClaim(q)
  <2>1. CASE call[q].buckets = {}
    BY <1>3, <1>4, <2>1 DEF ApplyClaim
  <2>2. CASE call[q].buckets # {}
    <3>1. RenewLease(q) /\ now' = now /\ fired' = fired
      BY <1>4, <2>2 DEF ApplyClaim
    <3>2. timer'[q] = epoch[q] + 1 /\ epoch'[q] = epoch[q] + 1
      BY <3>1 DEF RenewLease, TypeOK
    <3>3. publishing'[q] \subseteq owned'[q]
      <4>1. owned'[q] = call[q].buckets
            /\ publishing'[q] = IF call[q].buckets # owned[q] THEN {} ELSE publishing[q]
        BY <1>4, <2>2 DEF ApplyClaim, TypeOK
      <4> QED
        BY <1>0, <4>1
    <3> QED
      BY <1>0, <3>1, <3>2, <3>3
  <2> QED
    BY <2>1, <2>2
<1>5. CASE TimerFires(q)
  <2>1. /\ timer'[q] = 0 /\ fired'[q] = fired[q] \cup {timer[q]}
        /\ UNCHANGED <<now, owned, live, leaseUntil, epoch, publishing>>
        /\ leaseUntil[q] <= now
    BY <1>5 DEF TimerFires, TypeOK
  <2> QED
    BY <1>0, <2>1
<1>6. CASE Callback(q)
  <2>1. PICK n \in fired[q] :
          /\ fired'[q] = fired[q] \ {n} /\ now' = now /\ epoch' = epoch
          /\ IF n # epoch[q]
               THEN UNCHANGED <<owned, live, leaseUntil, timer, publishing>>
               ELSE CancelLease(q)
    BY <1>6 DEF Callback, TypeOK
  <2>2. CASE n = epoch[q]
    BY <1>3, <2>1, <2>2
  <2>3. CASE n # epoch[q]
    BY <1>0, <2>1, <2>3
  <2> QED
    BY <2>2, <2>3
<1>7. CASE StopLease(q)
  BY <1>3, <1>7 DEF StopLease
<1>8. ASSUME NEW b \in Bucket, DrainBucket(q, b) \/ DrainReturns(q, b)
      PROVE  Good(q)'
  <2>1. publishing'[q] \subseteq owned[q]
    BY <1>0, <1>8 DEF DrainBucket, DrainReturns, BucketLease, TypeOK
  <2> QED
    BY <1>0, <1>8, <2>1 DEF DrainBucket, DrainReturns
<1>9. CASE UNCHANGED vars \/ Tick \/ \E r \in Relay : StartClaim(r) \/ ClaimBuckets(r) \/ ClaimFails(r)
  BY <1>1, <1>9 DEF vars, Tick, StartClaim, ClaimBuckets, ClaimFails
<1>10. ASSUME NEW r \in Relay, ApplyClaim(r) \/ TimerFires(r) \/ Callback(r) \/ StopLease(r)
               \/ (\E b \in Bucket : DrainBucket(r, b) \/ DrainReturns(r, b))
       PROVE  now' = now
  BY <1>10 DEF ApplyClaim, TimerFires, Callback, StopLease, DrainBucket, DrainReturns
<1> HIDE DEF Good
<1> QED
  BY <1>2, <1>4, <1>5, <1>6, <1>7, <1>8, <1>9, <1>10 DEF Next

LEMMA TimerInvariant == Spec => []TimerInv
<1>1. Init => TimerInv
  BY LeaseAssumption DEF Init, TimerInv
<1>2. TypeOK /\ TypeOK' /\ TimerInv /\ [Next]_vars => TimerInv'
  BY TimerStep
<1> QED
  BY <1>1, <1>2, TypeCorrect, PTL DEF Spec

\* No drain goes on, under a live context, for a bucket that was taken away.
THEOREM NoDrainIsOrphaned == Spec => []NoOrphanDrain
<1>1. TimerInv => NoOrphanDrain
  BY DEF TimerInv, NoOrphanDrain
<1> QED
  BY <1>1, TimerInvariant, PTL

\* Something always waits to end a live lease context.
THEOREM LeaseEndsInSight == Spec => []EndInSight
<1>1. TimerInv => EndInSight
  BY DEF TimerInv, EndInSight
<1> QED
  BY <1>1, TimerInvariant, PTL

\* The callback of a replaced timer never takes a renewed lease down.
THEOREM StaleCallbacksHarmless == Spec => OnlyClaimsTakeBuckets
<1>1. TypeOK /\ TimerInv /\ [Next]_vars => TakenByClaim
  <2> SUFFICES ASSUME TypeOK, TimerInv, [Next]_vars, NEW q \in Relay,
                      now < leaseUntil[q], owned'[q] # owned[q]
               PROVE  call'[q] # call[q] \/ q \notin running'
    BY DEF TakenByClaim
  <2>0. now \in Nat /\ leaseUntil[q] \in Nat /\ epoch[q] \notin fired[q]
    BY DEF TypeOK, TimerInv
  <2>1. CASE \E r \in Relay : ApplyClaim(r)
    <3>1. PICK r \in Relay : ApplyClaim(r)
      BY <2>1
    <3>2. q = r
      BY <3>1 DEF ApplyClaim, TypeOK
    <3>3. call[q].state = "answered" /\ call'[q].state = "idle"
      BY <3>1, <3>2 DEF ApplyClaim, Idle, TypeOK
    <3> QED
      BY <3>3
  <2>2. CASE \E r \in Relay : Callback(r)
    BY <2>0, <2>2 DEF Callback, TypeOK
  <2>3. CASE \E r \in Relay : StopLease(r)
    BY <2>3 DEF StopLease, TypeOK
  <2> QED
    BY <2>1, <2>2, <2>3 DEF Next, vars, Tick, StartClaim, ClaimBuckets, ClaimFails,
       TimerFires, DrainBucket, DrainReturns, localVars
<1> QED
  BY <1>1, TypeCorrect, TimerInvariant, PTL DEF Spec, OnlyClaimsTakeBuckets
=============================================================================
