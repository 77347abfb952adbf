---------------------------- MODULE RelayLease -----------------------------
(***************************************************************************)
(* How a relay knows, between two renewals, that its buckets are still its *)
(* own (outbox/relay.go: claim, renewLeaseLocked, cancelLeaseLocked).      *)
(*                                                                         *)
(* The lease table carries locked_until.  A relay keeps its own deadline,  *)
(* counted from before the call that renewed the lease, and a timer that   *)
(* cancels the lease context when the deadline passes.  Calls to the table *)
(* take any time, timers fire late, and a callback that has fired may wait *)
(* for the mutex while the lease is renewed: the epoch is there for that.  *)
(*                                                                         *)
(* All processes read one clock.  OutboxRelay models what the relays do    *)
(* with their buckets; its Timely is the conclusion of this module.        *)
(***************************************************************************)
EXTENDS Naturals, FiniteSets

CONSTANTS
  Relay,     \* owner identities
  Bucket,    \* shards of the queue
  TTL,       \* Config.LeaseTTL, in ticks of the model's clock
  None,      \* no owner
  MaxClock,  \* bound: the clock stops here
  MaxEpoch   \* bound: renewals a relay makes

ASSUME LeaseAssumption ==
  /\ TTL \in Nat \ {0}
  /\ None \notin Relay
  /\ MaxClock \in Nat
  /\ MaxEpoch \in Nat

VARIABLES
  now,         \* the clock
  lease,       \* the lease table
  running,     \* relays whose Run has not returned
  call,        \* per relay, the claim under way and what it has obtained
  owned,       \* Relay.owned
  live,        \* leaseCtx is there and not cancelled
  leaseUntil,  \* Relay.leaseUntil
  epoch,       \* Relay.leaseEpoch
  timer,       \* the epoch of the armed timer, 0 when none is armed
  fired,       \* epochs of callbacks that fired and wait for the mutex
  publishing   \* buckets drained under the current lease context

localVars == <<owned, live, leaseUntil, epoch, timer, fired, publishing>>
vars == <<now, lease, running, call, localVars>>

\* started: the clock when claim() began; state: where its call stands.
Idle == [state |-> "idle", started |-> 0, buckets |-> {}]

TypeOK ==
  /\ now \in 0..MaxClock
  /\ lease \in [Bucket -> [by : Relay \cup {None}, until : Nat]]
  /\ running \in SUBSET Relay
  /\ call \in [Relay -> [state : {"idle", "sent", "answered"}, started : Nat,
                         buckets : SUBSET Bucket]]
  /\ owned \in [Relay -> SUBSET Bucket]
  /\ live \in [Relay -> BOOLEAN]
  /\ leaseUntil \in [Relay -> Nat]
  /\ epoch \in [Relay -> 0..MaxEpoch]
  /\ timer \in [Relay -> 0..MaxEpoch]
  /\ fired \in [Relay -> SUBSET (1..MaxEpoch)]
  /\ publishing \in [Relay -> SUBSET Bucket]

Init ==
  /\ now = 0
  /\ lease = [b \in Bucket |-> [by |-> None, until |-> 0]]
  /\ running = Relay
  /\ call = [r \in Relay |-> Idle]
  /\ owned = [r \in Relay |-> {}]
  /\ live = [r \in Relay |-> FALSE]
  /\ leaseUntil = [r \in Relay |-> 0]
  /\ epoch = [r \in Relay |-> 0]
  /\ timer = [r \in Relay |-> 0]
  /\ fired = [r \in Relay |-> {}]
  /\ publishing = [r \in Relay |-> {}]

Tick ==
  /\ now < MaxClock
  /\ now' = now + 1
  /\ UNCHANGED <<lease, running, call, localVars>>

-----------------------------------------------------------------------------
(* claim(): the call to the table. *)

\* The renewal ticker, or Run itself at start.
StartClaim(r) ==
  /\ r \in running /\ call[r].state = "idle"
  /\ epoch[r] < MaxEpoch
  /\ call' = [call EXCEPT ![r] = [state |-> "sent", started |-> now, buckets |-> {}]]
  /\ UNCHANGED <<now, lease, running, localVars>>

\* Mutant: the loop over the buckets runs one too far.
ClaimableOneMore(r) ==
  {b \in Bucket : lease[b].by \in {r, None} \/ lease[b].until <= now}
    \cup {Cardinality(Bucket) + 1}

\* The transaction of ClaimBuckets: free, expired or already ours.
Claimable(r) == {b \in Bucket : lease[b].by \in {r, None} \/ lease[b].until <= now}
Locked(r) == [b \in Bucket |-> IF b \in Claimable(r)
                                 THEN [by |-> r, until |-> now + TTL] ELSE lease[b]]

ClaimBuckets(r) ==
  /\ call[r].state = "sent"
  /\ lease' = Locked(r)
  /\ call' = [call EXCEPT ![r].state = "answered", ![r].buckets = Claimable(r)]
  /\ UNCHANGED <<now, running, localVars>>

\* An error or the timeout of claimCtx; the commit may have happened.
ClaimFails(r) ==
  /\ call[r].state = "sent"
  /\ lease' = lease \/ lease' = Locked(r)
  /\ call' = [call EXCEPT ![r] = Idle]
  /\ UNCHANGED <<now, running, localVars>>

-----------------------------------------------------------------------------
(* The critical sections of Relay.mu. *)

\* Mutant: the context is dropped without being cancelled.
CancelLeaseForgetting(r) ==
  /\ live' = [live EXCEPT ![r] = FALSE]
  /\ leaseUntil' = [leaseUntil EXCEPT ![r] = 0]
  /\ timer' = [timer EXCEPT ![r] = 0]
  /\ UNCHANGED publishing

\* cancelLeaseLocked: the drains under the context are cancelled with it.
\* The epoch stays as it is.
CancelLease(r) ==
  /\ live' = [live EXCEPT ![r] = FALSE]
  /\ leaseUntil' = [leaseUntil EXCEPT ![r] = 0]
  /\ timer' = [timer EXCEPT ![r] = 0]
  /\ publishing' = [publishing EXCEPT ![r] = {}]

\* Mutant: the deadline counts from the end of the call.
DeadlineLate(r) == now + TTL
\* The deadline claim() passes to renewLeaseLocked.
Deadline(r) == call[r].started + TTL

\* Mutant: the timer of the previous renewal goes on.
RenewLeaseUnarmed(r) ==
  /\ live' = [live EXCEPT ![r] = TRUE]
  /\ leaseUntil' = [leaseUntil EXCEPT ![r] = Deadline(r)]
  /\ epoch' = [epoch EXCEPT ![r] = @ + 1]
  /\ timer' = [timer EXCEPT ![r] = IF @ = 0 THEN epoch[r] + 1 ELSE @]

\* renewLeaseLocked, after the context was cancelled or kept.  Stopping a
\* timer that has fired does not stop its callback.
RenewLease(r) ==
  /\ live' = [live EXCEPT ![r] = TRUE]
  /\ leaseUntil' = [leaseUntil EXCEPT ![r] = Deadline(r)]
  /\ epoch' = [epoch EXCEPT ![r] = @ + 1]
  /\ timer' = [timer EXCEPT ![r] = epoch[r] + 1]

\* claim(), the critical section: a changed set starts a new context.
ApplyClaim(r) ==
  /\ call[r].state = "answered"
  /\ owned' = [owned EXCEPT ![r] = call[r].buckets]
  /\ call' = [call EXCEPT ![r] = Idle]
  /\ IF call[r].buckets = {}
       THEN CancelLease(r) /\ UNCHANGED epoch
       ELSE /\ RenewLease(r)
            /\ publishing' = [publishing EXCEPT ![r] =
                                IF call[r].buckets # owned[r] THEN {} ELSE @]
  /\ UNCHANGED <<now, lease, running, fired>>

\* The runtime fires the timer, at the deadline or later.
TimerFires(r) ==
  /\ timer[r] # 0 /\ leaseUntil[r] <= now
  /\ timer' = [timer EXCEPT ![r] = 0]
  /\ fired' = [fired EXCEPT ![r] = @ \cup {timer[r]}]
  /\ UNCHANGED <<now, lease, running, call, owned, live, leaseUntil, epoch, publishing>>

\* Mutant: the callback acts whatever happened since it fired.
CallbackUnchecked(r) ==
  \E n \in fired[r] :
    /\ fired' = [fired EXCEPT ![r] = @ \ {n}]
    /\ owned' = [owned EXCEPT ![r] = {}]
    /\ CancelLease(r)
    /\ UNCHANGED <<now, lease, running, call, epoch>>

\* The callback gets the mutex: a later epoch means the lease was renewed.
Callback(r) ==
  \E n \in fired[r] :
    /\ fired' = [fired EXCEPT ![r] = @ \ {n}]
    /\ IF n # epoch[r]
         THEN UNCHANGED <<owned, live, leaseUntil, timer, publishing>>
         ELSE owned' = [owned EXCEPT ![r] = {}] /\ CancelLease(r)
    /\ UNCHANGED <<now, lease, running, call, epoch>>

\* bucketLease at the top of drainBucket.
BucketLease(r, b) == live[r] /\ now < leaseUntil[r] /\ b \in owned[r]

DrainBucket(r, b) ==
  /\ r \in running /\ BucketLease(r, b) /\ b \notin publishing[r]
  /\ publishing' = [publishing EXCEPT ![r] = @ \cup {b}]
  /\ UNCHANGED <<now, lease, running, call, owned, live, leaseUntil, epoch, timer, fired>>

DrainReturns(r, b) ==
  /\ b \in publishing[r]
  /\ publishing' = [publishing EXCEPT ![r] = @ \ {b}]
  /\ UNCHANGED <<now, lease, running, call, owned, live, leaseUntil, epoch, timer, fired>>

\* stopLease when Run returns, after its last drain.  A claim of the renewal
\* goroutine may still be under way and be applied afterwards.
StopLease(r) ==
  /\ r \in running /\ publishing[r] = {}
  /\ running' = running \ {r}
  /\ owned' = [owned EXCEPT ![r] = {}]
  /\ CancelLease(r)
  /\ UNCHANGED <<now, lease, call, epoch, fired>>

Next ==
  \/ Tick
  \/ \E r \in Relay :
       \/ StartClaim(r) \/ ClaimBuckets(r) \/ ClaimFails(r) \/ ApplyClaim(r)
       \/ TimerFires(r) \/ Callback(r) \/ StopLease(r)
       \/ \E b \in Bucket : DrainBucket(r, b) \/ DrainReturns(r, b)

Spec == Init /\ [][Next]_vars

\* The clock advances, the runtime runs due timers and their callbacks.
Fairness ==
  /\ WF_vars(Tick)
  /\ \A r \in Relay : WF_vars(TimerFires(r)) /\ WF_vars(Callback(r))
FairSpec == Spec /\ Fairness

-----------------------------------------------------------------------------
(* Properties. *)

\* While its own deadline is ahead, a relay's buckets are its own in the lease
\* table as well: bucketLease never admits a bucket another relay may publish,
\* however long the calls to the table take.
FencedInTime ==
  \A r \in Relay : \A b \in owned[r] :
    live[r] /\ now < leaseUntil[r] =>
      lease[b].by = r /\ leaseUntil[r] <= lease[b].until

\* No drain runs under a live context for a bucket the relay does not own any
\* more (claim cancels the whole generation when the set changes).
NoOrphanDrain == \A r \in Relay : publishing[r] \subseteq owned[r]

\* A live context always has something that will end it: an armed timer of the
\* current epoch, or its callback waiting for the mutex.
EndInSight ==
  \A r \in Relay :
    live[r] => timer[r] = epoch[r] \/ epoch[r] \in fired[r]

\* Before its deadline a relay loses its buckets only to a claim or its own
\* stop, never to the callback of a timer that an earlier renewal replaced.
TakenByClaim ==
  \A r \in Relay :
    (now < leaseUntil[r] /\ owned'[r] # owned[r]) =>
      call'[r] # call[r] \/ r \notin running'
OnlyClaimsTakeBuckets == [][TakenByClaim]_vars

\* A drain that started before the deadline does not outlive it for ever
\* without a renewal: it returns, is cancelled, or the deadline has moved.
DrainsEnd ==
  \A r \in Relay, b \in Bucket :
    (b \in publishing[r] /\ leaseUntil[r] <= now)
      ~> (b \notin publishing[r] \/ now < leaseUntil[r])
=============================================================================
