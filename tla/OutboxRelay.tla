---------------------------- MODULE OutboxRelay ----------------------------
(***************************************************************************)
(* The transactional outbox: several relay processes (outbox/relay.go)     *)
(* over the YDB store (ydb/outbox.go).                                     *)
(*                                                                         *)
(* Writers insert events; relays divide the buckets between them by        *)
(* leases, read a batch of the oldest rows of a bucket and, row by row,    *)
(* check the lease, publish and delete.  Every action is one database      *)
(* transaction, one publisher call or one critical section of Relay.mu;    *)
(* everything between two of them may interleave with the other relays.    *)
(*                                                                         *)
(* Time appears only as what it decides: a lease lapses, a local fencing   *)
(* deadline passes, a backoff elapses.  RelayLease relates the first two   *)
(* to a clock; here Timely says whether to rely on that relation.          *)
(***************************************************************************)
EXTENDS Naturals, FiniteSets

CONSTANTS
  Relay,        \* the owner identities: one per relay process ever started
  Bucket,       \* the shards of the queue
  Event,        \* the events, numbered in (created_at, id) order
  bucketOf,     \* BucketOf of each event's partition key
  BatchSize,    \* Config.BatchSize
  MaxAttempts,  \* OutboxConfig.MaxAttempts
  None,         \* no relay
  ClocksAgree,  \* an event written later has the larger (created_at, id)
  Timely,       \* a relay's fence fires before its lease lapses in the table
  MaxFaults,    \* bound: failed calls and missed renewals in a behaviour
  MaxReplays    \* bound: dead letters an operator puts back

ASSUME RelayAssumption ==
  /\ Event \subseteq Nat
  /\ bucketOf \in [Event -> Bucket]
  /\ BatchSize \in Nat \ {0}
  /\ MaxAttempts \in Nat \ {0}
  /\ None \notin Relay
  /\ ClocksAgree \in BOOLEAN
  /\ Timely \in BOOLEAN
  /\ MaxFaults \in Nat
  /\ MaxReplays \in Nat

VARIABLES
  stamped,    \* events written by EnqueueTx, committed or not
  committed,  \* events whose transaction committed
  pending,    \* rows of the outbox table
  dead,       \* rows of the dead-letter table
  attempts,   \* the attempts column of a pending row
  lease,      \* the lease table: owner, and whether locked_until is ahead
  alive,      \* relay processes that run
  owned,      \* Relay.owned; empty also means that leaseCtx is cancelled
  answer,     \* what ClaimBuckets returned and claim() has not applied yet
  pc,         \* where drainBucket stands, per relay and bucket
  batch,      \* rows read by PublishBucket and not finished
  full,       \* buckets whose last read returned BatchSize rows
  class,      \* the class of the publisher error being recorded
  cancelled,  \* buckets whose publishCtx is cancelled
  backoff,    \* buckets in Relay.retries whose delay has not elapsed
  delivered,  \* history: events the broker has received
  buried,     \* history: events that were ever dead-lettered
  before,     \* history: same-bucket events committed when this was written
  faults,     \* bound counter
  replays     \* bound counter

writerVars  == <<stamped, committed, before>>
tableVars   == <<pending, dead, attempts, buried>>
relayVars   == <<alive, owned, answer>>
workerVars  == <<pc, batch, full, class, cancelled, backoff>>
boundVars   == <<faults, replays>>
vars == <<stamped, committed, pending, dead, attempts, lease, alive, owned,
          answer, pc, batch, full, class, cancelled, backoff, delivered,
          buried, before, faults, replays>>

Class == {"unknown", "transient", "permanent"}
PC == {"idle", "start", "read", "check", "publish", "delete", "record"}
NoLease == [by |-> None, live |-> FALSE]
NoAnswer == [ready |-> FALSE, buckets |-> {}]

TypeOK ==
  /\ stamped \in SUBSET Event
  /\ committed \in SUBSET stamped
  /\ pending \in SUBSET committed
  /\ dead \in SUBSET committed
  /\ attempts \in [Event -> Nat]
  /\ lease \in [Bucket -> [by : Relay \cup {None}, live : BOOLEAN]]
  /\ alive \in SUBSET Relay
  /\ owned \in [Relay -> SUBSET Bucket]
  /\ answer \in [Relay -> [ready : BOOLEAN, buckets : SUBSET Bucket]]
  /\ pc \in [Relay -> [Bucket -> PC]]
  /\ batch \in [Relay -> [Bucket -> SUBSET committed]]
  /\ full \in [Relay -> SUBSET Bucket]
  /\ class \in [Relay -> [Bucket -> Class]]
  /\ cancelled \in [Relay -> SUBSET Bucket]
  /\ backoff \in [Relay -> SUBSET Bucket]
  /\ delivered \in SUBSET committed
  /\ buried \in SUBSET committed
  /\ before \in [Event -> SUBSET committed]
  /\ faults \in 0..MaxFaults
  /\ replays \in 0..MaxReplays

Init ==
  /\ stamped = {} /\ committed = {} /\ pending = {} /\ dead = {}
  /\ attempts = [e \in Event |-> 0]
  /\ lease = [b \in Bucket |-> NoLease]
  /\ alive = Relay
  /\ owned = [r \in Relay |-> {}]
  /\ answer = [r \in Relay |-> NoAnswer]
  /\ pc = [r \in Relay |-> [b \in Bucket |-> "idle"]]
  /\ batch = [r \in Relay |-> [b \in Bucket |-> {}]]
  /\ full = [r \in Relay |-> {}]
  /\ class = [r \in Relay |-> [b \in Bucket |-> "unknown"]]
  /\ cancelled = [r \in Relay |-> {}]
  /\ backoff = [r \in Relay |-> {}]
  /\ delivered = {} /\ buried = {}
  /\ before = [e \in Event |-> {}]
  /\ faults = 0 /\ replays = 0

-----------------------------------------------------------------------------
(* Writers. *)

\* Mutant: the row is visible before the caller's transaction commits.
EnqueueTxAutocommit(e) ==
  /\ e \notin stamped
  /\ stamped' = stamped \cup {e}
  /\ pending' = pending \cup {e}
  /\ UNCHANGED <<committed, before, dead, attempts, buried, lease, relayVars,
                 workerVars, delivered, boundVars>>

\* EnqueueTx: the row gets its created_at, inside a transaction still open.
EnqueueTx(e) ==
  /\ e \notin stamped
  /\ ClocksAgree => \A x \in stamped : x < e
  /\ stamped' = stamped \cup {e}
  /\ before' = [before EXCEPT ![e] = {x \in committed : bucketOf[x] = bucketOf[e]}]
  /\ UNCHANGED <<committed, tableVars, lease, relayVars, workerVars, delivered, boundVars>>

\* The caller's transaction commits, and the row becomes visible.
CommitTx(e) ==
  /\ e \in stamped \ committed
  /\ committed' = committed \cup {e}
  /\ pending' = pending \cup {e}
  /\ attempts' = [attempts EXCEPT ![e] = 0]
  /\ UNCHANGED <<stamped, before, dead, buried, lease, relayVars, workerVars, delivered, boundVars>>

-----------------------------------------------------------------------------
(* Leases. *)

\* leaseHeld, leaseHeldTx and the check of leasedBucketEvents.
Held(r, b) == lease[b].by = r /\ lease[b].live

\* Mutants: every bucket is taken, or a dead owner's bucket never is.
ClaimableAll(r) == Bucket
ClaimableOnce(r) == {b \in Bucket : lease[b].by \in {r, None}}

\* The buckets ClaimBuckets does not skip.
Claimable(r) == {b \in Bucket : ~(lease[b].live /\ lease[b].by # r)}

Lock(r) ==
  lease' = [b \in Bucket |-> IF b \in Claimable(r)
                               THEN [by |-> r, live |-> TRUE] ELSE lease[b]]

\* claim(), the call: the transaction of ClaimBuckets commits.
ClaimBuckets(r) ==
  /\ r \in alive /\ ~answer[r].ready
  /\ Lock(r)
  /\ answer' = [answer EXCEPT ![r] = [ready |-> TRUE, buckets |-> Claimable(r)]]
  /\ UNCHANGED <<writerVars, tableVars, alive, owned, workerVars, delivered, boundVars>>

\* claim(), the error path: the commit happened or not, the set is kept.
ClaimFails(r) ==
  /\ r \in alive /\ ~answer[r].ready
  /\ faults < MaxFaults /\ faults' = faults + 1
  /\ Lock(r)
  /\ UNCHANGED <<writerVars, tableVars, relayVars, workerVars, delivered, replays>>

\* Cancelling leaseCtx cancels the publishCtx of every running drainBucket.
Running(r) == {b \in Bucket : pc[r][b] \notin {"idle", "start"}}
\* Mutant: the batches under way are left running.
CancelNothing(r) == UNCHANGED cancelled
CancelLease(r) == cancelled' = [cancelled EXCEPT ![r] = Running(r)]

\* claim(), the critical section: a changed set cancels the old generation.
ApplyClaim(r) ==
  /\ answer[r].ready
  /\ owned' = [owned EXCEPT ![r] = answer[r].buckets]
  /\ answer' = [answer EXCEPT ![r] = NoAnswer]
  /\ IF answer[r].buckets # owned[r] \/ answer[r].buckets = {}
       THEN CancelLease(r) ELSE UNCHANGED cancelled
  /\ UNCHANGED <<writerVars, tableVars, lease, alive, pc, batch, full, class,
                 backoff, delivered, boundVars>>

\* The fencing timer of renewLeaseLocked: no renewal came in time.
Fence(r) ==
  /\ r \in alive /\ owned[r] # {}
  /\ faults < MaxFaults /\ faults' = faults + 1
  /\ owned' = [owned EXCEPT ![r] = {}]
  /\ CancelLease(r)
  /\ UNCHANGED <<writerVars, tableVars, lease, alive, answer, pc, batch, full,
                 class, backoff, delivered, replays>>

\* locked_until passes.  Timely: the owner has fenced itself by then.
Lapse(b) ==
  /\ lease[b].live
  /\ Timely => \A r \in Relay : lease[b].by = r =>
                 b \notin owned[r] \cup answer[r].buckets
  /\ lease' = [lease EXCEPT ![b].live = FALSE]
  /\ UNCHANGED <<writerVars, tableVars, relayVars, workerVars, delivered, boundVars>>

-----------------------------------------------------------------------------
(* Draining.  One drainBucket per owned bucket, all of them awaited before *)
(* the next tick; inside it PublishBucket, and inside that one row at a    *)
(* time.                                                                   *)

\* The row PublishBucket is at.
IsNext(r, b, e) == e \in batch[r][b] /\ \A x \in batch[r][b] : e <= x

Goto(r, b, to) == pc' = [pc EXCEPT ![r][b] = to]

\* drainBucket returns, leaving the bucket's retry entry as given.
Return(r, b, retry) ==
  /\ Goto(r, b, "idle")
  /\ batch' = [batch EXCEPT ![r][b] = {}]
  /\ full' = [full EXCEPT ![r] = @ \ {b}]
  /\ class' = [class EXCEPT ![r][b] = "unknown"]
  /\ cancelled' = [cancelled EXCEPT ![r] = @ \ {b}]
  /\ backoff' = [backoff EXCEPT ![r] = retry]

ClearRetry(r, b) == Return(r, b, backoff[r] \ {b})
DeferBucket(r, b) == Return(r, b, backoff[r] \cup {b})
NoRetryChange(r, b) == Return(r, b, backoff[r])

\* The call at hand runs with a live publishCtx.
At(r, b, where) == pc[r][b] = where /\ b \notin cancelled[r]

Drain(r) ==
  /\ r \in alive /\ owned[r] # {}
  /\ \A b \in Bucket : pc[r][b] = "idle"
  /\ pc' = [pc EXCEPT ![r] = [b \in Bucket |-> IF b \in owned[r] THEN "start" ELSE "idle"]]
  /\ UNCHANGED <<writerVars, tableVars, lease, relayVars, batch, full, class,
                 cancelled, backoff, delivered, boundVars>>

\* bucketLease and bucketBackingOff at the top of drainBucket.
StartBucket(r, b) ==
  /\ pc[r][b] = "start"
  /\ Goto(r, b, IF b \in owned[r] \ backoff[r] THEN "read" ELSE "idle")
  /\ UNCHANGED <<writerVars, tableVars, lease, relayVars, batch, full, class,
                 cancelled, backoff, delivered, boundVars>>

\* The first BatchSize rows of the bucket.
Rows(b) == {e \in pending : bucketOf[e] = b}
IsBatch(b, S) ==
  /\ \A e \in S : \A x \in Rows(b) : x < e => x \in S
  /\ \/ S = Rows(b) /\ Cardinality(S) <= BatchSize
     \/ S \subseteq Rows(b) /\ Cardinality(S) = BatchSize

\* leasedBucketEvents: no lease or no rows is an empty, successful batch.
ReadBatch(r, b) ==
  /\ At(r, b, "read")
  /\ \/ /\ ~Held(r, b) \/ Rows(b) = {}
        /\ ClearRetry(r, b)
     \/ /\ Held(r, b) /\ Rows(b) # {}
        /\ \E S \in SUBSET Rows(b) :
             /\ IsBatch(b, S)
             /\ batch' = [batch EXCEPT ![r][b] = S]
             /\ full' = [full EXCEPT ![r] = IF Cardinality(S) = BatchSize
                                              THEN @ \cup {b} ELSE @ \ {b}]
        /\ Goto(r, b, "check")
        /\ UNCHANGED <<class, cancelled, backoff>>
  /\ UNCHANGED <<writerVars, tableVars, lease, relayVars, delivered, boundVars>>

\* leaseHeld before each row; a lost lease is a transient error.
CheckLease(r, b) ==
  /\ At(r, b, "check")
  /\ IF Held(r, b)
       THEN Goto(r, b, "publish") /\ UNCHANGED <<batch, full, class, cancelled, backoff>>
       ELSE DeferBucket(r, b)
  /\ UNCHANGED <<writerVars, tableVars, lease, relayVars, delivered, boundVars>>

\* Publisher.Publish accepts the row and returns nil.
PublishSucceeds(r, b) ==
  /\ At(r, b, "publish")
  /\ \E e \in batch[r][b] : IsNext(r, b, e) /\ delivered' = delivered \cup {e}
  /\ Goto(r, b, "delete")
  /\ UNCHANGED <<writerVars, tableVars, lease, relayVars, batch, full, class,
                 cancelled, backoff, boundVars>>

\* Mutant: an error of the publisher is taken for an acknowledgement.
PublishErrorIgnored(r, b) ==
  /\ At(r, b, "publish")
  /\ faults < MaxFaults /\ faults' = faults + 1
  /\ Goto(r, b, "delete")
  /\ UNCHANGED <<writerVars, tableVars, lease, relayVars, batch, full, class,
                 cancelled, backoff, delivered, replays>>

\* It returns an error of some class, whether or not the broker got the row.
PublishFails(r, b) ==
  /\ At(r, b, "publish")
  /\ faults < MaxFaults /\ faults' = faults + 1
  /\ \/ UNCHANGED delivered
     \/ \E e \in batch[r][b] : IsNext(r, b, e) /\ delivered' = delivered \cup {e}
  /\ \E c \in Class : class' = [class EXCEPT ![r][b] = c]
  /\ Goto(r, b, "record")
  /\ UNCHANGED <<writerVars, tableVars, lease, relayVars, batch, full,
                 cancelled, backoff, replays>>

\* Mutant: the row is deleted without looking at the lease.
RemoveRowUnfenced(r, b, e) ==
  /\ pending' = pending \ {e}
  /\ UNCHANGED <<dead, attempts, buried>>

\* The transaction of deleteEvent when its lease check passes.
RemoveRow(r, b, e) ==
  /\ Held(r, b)
  /\ pending' = pending \ {e}
  /\ UNCHANGED <<dead, attempts, buried>>

\* deleteEvent, then the next row, the next batch of a full one, or the end.
DeleteEvent(r, b) ==
  /\ At(r, b, "delete")
  /\ \/ ~Held(r, b) /\ DeferBucket(r, b) /\ UNCHANGED tableVars
     \/ \E e \in batch[r][b] :
          /\ IsNext(r, b, e)
          /\ RemoveRow(r, b, e)
          /\ IF batch[r][b] = {e} /\ b \notin full[r]
               THEN ClearRetry(r, b)
               ELSE /\ batch' = [batch EXCEPT ![r][b] = @ \ {e}]
                    /\ Goto(r, b, IF batch[r][b] = {e} THEN "read" ELSE "check")
                    /\ backoff' = [backoff EXCEPT ![r] =
                                     IF batch[r][b] = {e} THEN @ \ {b} ELSE @]
                    /\ UNCHANGED <<full, class, cancelled>>
  /\ UNCHANGED <<writerVars, lease, relayVars, delivered, boundVars>>

\* Mutant: one failure more than the budget allows.
ParksLate(r, b, e) ==
  /\ e \in pending
  /\ \/ class[r][b] = "permanent"
     \/ class[r][b] = "unknown" /\ attempts[e] + 1 > MaxAttempts

\* The transaction of recordPublishFailure when its lease check passes.
Parks(r, b, e) ==
  /\ e \in pending
  /\ \/ class[r][b] = "permanent"
     \/ class[r][b] = "unknown" /\ attempts[e] + 1 >= MaxAttempts

\* Mutant: the pending row goes, the dead letter is not written.
RecordRowDropping(r, b, e) ==
  /\ Held(r, b)
  /\ IF Parks(r, b, e) THEN pending' = pending \ {e} ELSE UNCHANGED pending
  /\ UNCHANGED <<dead, attempts, buried>>

RecordRow(r, b, e) ==
  /\ Held(r, b)
  /\ IF e \in pending /\ class[r][b] # "transient"
       THEN attempts' = [attempts EXCEPT ![e] = @ + 1] ELSE UNCHANGED attempts
  /\ IF Parks(r, b, e)
       THEN /\ pending' = pending \ {e}
            /\ dead' = dead \cup {e}
            /\ buried' = buried \cup {e}
       ELSE UNCHANGED <<pending, dead, buried>>

\* Mutant: the batch goes on with the row behind the one that failed.
RecordAndSkip(r, b) ==
  /\ At(r, b, "record")
  /\ \E e \in batch[r][b] :
       /\ IsNext(r, b, e)
       /\ RecordRow(r, b, e)
       /\ batch' = [batch EXCEPT ![r][b] = @ \ {e}]
       /\ Goto(r, b, IF batch[r][b] = {e} THEN "read" ELSE "check")
  /\ UNCHANGED <<writerVars, lease, relayVars, full, class, cancelled, backoff,
                 delivered, boundVars>>

\* recordPublishFailure: only a confirmed dead letter ends without a backoff.
RecordPublishFailure(r, b) ==
  /\ At(r, b, "record")
  /\ \/ ~Held(r, b) /\ DeferBucket(r, b) /\ UNCHANGED tableVars
     \/ \E e \in batch[r][b] :
          /\ IsNext(r, b, e)
          /\ RecordRow(r, b, e)
          /\ IF Parks(r, b, e) THEN ClearRetry(r, b) ELSE DeferBucket(r, b)
  /\ UNCHANGED <<writerVars, lease, relayVars, delivered, boundVars>>

\* A call that reported an error may still have taken effect.
EffectAnyway(r, b) ==
  \E e \in batch[r][b] :
    /\ IsNext(r, b, e)
    /\ \/ pc[r][b] = "delete" /\ RemoveRow(r, b, e)
       \/ pc[r][b] = "record" /\ RecordRow(r, b, e)

\* A database call of PublishBucket fails: the batch ends with a backoff.
StoreFails(r, b) ==
  /\ pc[r][b] \in {"read", "check", "delete", "record"} /\ b \notin cancelled[r]
  /\ faults < MaxFaults /\ faults' = faults + 1
  /\ EffectAnyway(r, b) \/ UNCHANGED tableVars
  /\ DeferBucket(r, b)
  /\ UNCHANGED <<writerVars, lease, relayVars, delivered, replays>>

\* publishCtx is cancelled: the call in flight had its effect or not, every
\* later one fails, and drainBucket returns without a backoff.
Abandon(r, b) ==
  /\ b \in cancelled[r]
  /\ EffectAnyway(r, b) \/ UNCHANGED tableVars
  /\ \/ UNCHANGED delivered
     \/ /\ pc[r][b] = "publish"
        /\ \E e \in batch[r][b] : IsNext(r, b, e) /\ delivered' = delivered \cup {e}
  /\ NoRetryChange(r, b)
  /\ UNCHANGED <<writerVars, lease, relayVars, boundVars>>

\* The delay set by deferBucket has passed.
BackoffElapses(r, b) ==
  /\ b \in backoff[r]
  /\ backoff' = [backoff EXCEPT ![r] = @ \ {b}]
  /\ UNCHANGED <<writerVars, tableVars, lease, relayVars, pc, batch, full,
                 class, cancelled, delivered, boundVars>>

-----------------------------------------------------------------------------
(* Processes and operators. *)

\* The process dies; its leases stay in the table.  One relay survives.
Crash(r) ==
  /\ r \in alive /\ alive # {r}
  /\ alive' = alive \ {r}
  /\ owned' = [owned EXCEPT ![r] = {}]
  /\ answer' = [answer EXCEPT ![r] = NoAnswer]
  /\ pc' = [pc EXCEPT ![r] = [b \in Bucket |-> "idle"]]
  /\ batch' = [batch EXCEPT ![r] = [b \in Bucket |-> {}]]
  /\ full' = [full EXCEPT ![r] = {}]
  /\ class' = [class EXCEPT ![r] = [b \in Bucket |-> "unknown"]]
  /\ cancelled' = [cancelled EXCEPT ![r] = {}]
  /\ backoff' = [backoff EXCEPT ![r] = {}]
  /\ UNCHANGED <<writerVars, tableVars, lease, delivered, boundVars>>

\* Run's context ends: everything in flight is cancelled, no lease is given
\* back.  What a late answer to claim() still sets, nobody drains any more.
Stop(r) ==
  /\ r \in alive /\ alive # {r}
  /\ alive' = alive \ {r}
  /\ owned' = [owned EXCEPT ![r] = {}]
  /\ answer' = [answer EXCEPT ![r] = NoAnswer]
  /\ CancelLease(r)
  /\ UNCHANGED <<writerVars, tableVars, lease, pc, batch, full, class, backoff,
                 delivered, boundVars>>

\* Mutant: the dead letter stays behind.
ReplayKeepsLetter(e) ==
  /\ e \in dead \ pending
  /\ replays < MaxReplays /\ replays' = replays + 1
  /\ pending' = pending \cup {e}
  /\ attempts' = [attempts EXCEPT ![e] = 0]
  /\ UNCHANGED <<writerVars, dead, buried, lease, relayVars, workerVars, delivered, faults>>

\* ReplayDeadLetter on a row that is dead and not pending (the other cases
\* change nothing): back to pending with a clean budget.
ReplayDeadLetter(e) ==
  /\ e \in dead \ pending
  /\ replays < MaxReplays /\ replays' = replays + 1
  /\ pending' = pending \cup {e}
  /\ dead' = dead \ {e}
  /\ attempts' = [attempts EXCEPT ![e] = 0]
  /\ UNCHANGED <<writerVars, buried, lease, relayVars, workerVars, delivered, faults>>

-----------------------------------------------------------------------------
WriterStep == \E e \in Event : EnqueueTx(e) \/ CommitTx(e) \/ ReplayDeadLetter(e)

RelayStep(r) ==
  \/ ClaimBuckets(r) \/ ClaimFails(r) \/ ApplyClaim(r) \/ Fence(r)
  \/ Drain(r) \/ Crash(r) \/ Stop(r)

BucketStep(r, b) ==
  \/ StartBucket(r, b) \/ ReadBatch(r, b) \/ CheckLease(r, b)
  \/ PublishSucceeds(r, b) \/ PublishFails(r, b) \/ DeleteEvent(r, b)
  \/ RecordPublishFailure(r, b) \/ StoreFails(r, b) \/ Abandon(r, b)
  \/ BackoffElapses(r, b)

Next ==
  \/ WriterStep
  \/ \E b \in Bucket : Lapse(b)
  \/ \E r \in Relay : RelayStep(r) \/ \E b \in Bucket : BucketStep(r, b)

Spec == Init /\ [][Next]_vars

\* What the code itself keeps doing: the renewal and drain tickers, the
\* sequential code of drainBucket, and the passing of time.  Failures, crashes,
\* writers and operators owe nothing.
Fairness ==
  /\ \A b \in Bucket : WF_vars(Lapse(b))
  /\ \A r \in Relay :
       /\ WF_vars(ClaimBuckets(r)) /\ WF_vars(ApplyClaim(r)) /\ WF_vars(Drain(r))
       /\ \A b \in Bucket :
            /\ WF_vars(StartBucket(r, b)) /\ WF_vars(ReadBatch(r, b))
            /\ WF_vars(CheckLease(r, b)) /\ WF_vars(PublishSucceeds(r, b))
            /\ WF_vars(DeleteEvent(r, b)) /\ WF_vars(RecordPublishFailure(r, b))
            /\ WF_vars(Abandon(r, b)) /\ WF_vars(BackoffElapses(r, b))

FairSpec == Spec /\ Fairness

-----------------------------------------------------------------------------
(* Properties. *)

\* At least once: a committed event is waiting, parked, or the broker has it.
\* No crash, lost lease, half-done call or replay may lose the last copy
\* (publish before deleteEvent; UPSERT and DELETE in one transaction).
NothingLost == committed \subseteq pending \cup dead \cup delivered

\* A row is never in both tables, so that ReplayDeadLetter never has to refuse
\* and no event is replayed while its original still waits.
NotPendingAndDead == pending \cap dead = {}

\* A waiting row has attempts left: the failure that uses the last one parks
\* it, and a replay starts a new budget (recordPublishFailure, ReplayDeadLetter).
BudgetLeft == \A e \in pending : attempts[e] < MaxAttempts

\* Per-key order: when the broker gets an event for the first time it already
\* has every event of the bucket that was committed before this one was
\* written, except those given up as dead letters (PublishBucket stops at the
\* first failure).
OrderKept == \A e \in delivered : before[e] \subseteq delivered \cup buried

\* A relay deletes, charges or parks a row only while the lease table names it,
\* whatever it believed when it read or published the row (deleteEvent and
\* recordPublishFailure check the lease in their own transaction).
RowTouched(e) == e \in pending /\ (e \notin pending' \/ attempts'[e] # attempts[e])
TouchedByHolder ==
  \A e \in Event : RowTouched(e) =>
    \E r \in Relay : /\ Held(r, bucketOf[e])
                      /\ pc[r][bucketOf[e]] \in {"delete", "record"}
                      /\ pc'[r][bucketOf[e]] # pc[r][bucketOf[e]]
OnlyHolderTouchesRows == [][TouchedByHolder]_vars

\* When fences are timely no two processes own a bucket at once, and what a
\* process owns the lease table confirms (claim, renewLeaseLocked).
SingleOwner ==
  Timely => \A r \in Relay : \A b \in owned[r] : Held(r, b)

\* When fences are timely, a relay whose publish context is live publishes only
\* rows that still wait: nothing that another relay finished is sent again by a
\* stale batch, beyond the one call in flight when the lease went.
FreshBatch ==
  Timely => \A r \in Relay, b \in Bucket :
              At(r, b, "publish") => \A e \in batch[r][b] : e \in pending

\* The queue drains: every committed event is eventually delivered or parked,
\* however relays crash and stop, once failures cease.
EventuallySettled ==
  \A e \in Event : e \in pending ~> e \notin pending

\* What the package comment of outbox/outbox.go says: "Instances therefore divide
\* the queue between them".  Relays that all stay up all get some of it.
QueueDivided == <>[](alive = Relay) => <>(\A r \in Relay : owned[r] # {})

\* The detailed system implements the promise of OutboxQueue.
Status(e) ==
  IF e \in pending THEN "pending"
  ELSE IF e \in dead THEN "dead"
  ELSE IF e \in committed THEN "done" ELSE "absent"

Queue == INSTANCE OutboxQueue WITH status <- [e \in Event |-> Status(e)]
ImplementsQueue == Queue!QSpec
=============================================================================
