------------------------- MODULE OutboxRelayProofs -------------------------
(***************************************************************************)
(* Proofs about OutboxRelay, for any number of relays, buckets and events  *)
(* and any batch size, attempt budget and number of faults.  In order:     *)
(* types, what is never lost, whose rows a relay touches; the order of the *)
(* events of a key and that the relays implement OutboxQueue, which need   *)
(* writers whose clocks agree; and what timely fences buy.                 *)
(***************************************************************************)
EXTENDS OutboxRelay, TLAPS

-----------------------------------------------------------------------------
(* Type correctness. *)

LEMMA UpdateOne ==
  ASSUME NEW S, NEW T, NEW f \in [S -> T], NEW s \in S, NEW t \in T
  PROVE  [f EXCEPT ![s] = t] \in [S -> T]
OBVIOUS

LEMMA UpdateTwo ==
  ASSUME NEW R, NEW S, NEW T, NEW f \in [R -> [S -> T]],
         NEW r \in R, NEW s \in S, NEW t \in T
  PROVE  [f EXCEPT ![r][s] = t] \in [R -> [S -> T]]
OBVIOUS

LEMMA WriterTypes ==
  ASSUME TypeOK, WriterStep
  PROVE  TypeOK'
<1> USE RelayAssumption DEF TypeOK, writerVars, tableVars, relayVars, workerVars, boundVars
<1>1. CASE \E e \in Event : EnqueueTx(e)
  BY <1>1 DEF EnqueueTx
<1>2. CASE \E e \in Event : CommitTx(e)
  BY <1>2 DEF CommitTx
<1>3. CASE \E e \in Event : ReplayDeadLetter(e)
  BY <1>3 DEF ReplayDeadLetter
<1> QED
  BY <1>1, <1>2, <1>3 DEF WriterStep

LEMMA RelayTypes ==
  ASSUME TypeOK, NEW r \in Relay, RelayStep(r)
  PROVE  TypeOK'
<1> USE RelayAssumption DEF TypeOK, writerVars, tableVars, relayVars, workerVars, boundVars
<1>1. CASE ClaimBuckets(r)
  BY <1>1 DEF ClaimBuckets, Lock, Claimable
<1>2. CASE ClaimFails(r)
  BY <1>2 DEF ClaimFails, Lock, Claimable
<1>3. CASE ApplyClaim(r)
  <2>a. answer[r].buckets \in SUBSET Bucket
    OBVIOUS
  <2>b. NoAnswer \in [ready : BOOLEAN, buckets : SUBSET Bucket]
    BY DEF NoAnswer
  <2>1. owned' \in [Relay -> SUBSET Bucket]
    <3>1. owned' = [owned EXCEPT ![r] = answer[r].buckets]
      BY <1>3 DEF ApplyClaim
    <3> QED
      BY <2>a, <3>1, UpdateOne
  <2>2. answer' \in [Relay -> [ready : BOOLEAN, buckets : SUBSET Bucket]]
    <3>1. answer' = [answer EXCEPT ![r] = NoAnswer]
      BY <1>3 DEF ApplyClaim
    <3> QED
      BY <2>b, <3>1, UpdateOne
  <2>3. cancelled' \in [Relay -> SUBSET Bucket]
    <3>1. \/ cancelled' = [cancelled EXCEPT ![r] = Running(r)]
          \/ cancelled' = cancelled
      BY <1>3 DEF ApplyClaim, CancelLease
    <3>2. Running(r) \in SUBSET Bucket
      BY DEF Running
    <3> QED
      BY <3>1, <3>2
  <2> QED
    BY <1>3, <2>1, <2>2, <2>3 DEF ApplyClaim
<1>4. CASE Fence(r)
  BY <1>4 DEF Fence, CancelLease, Running
<1>5. CASE Drain(r)
  BY <1>5 DEF Drain, PC
<1>6. CASE Crash(r)
  BY <1>6 DEF Crash, PC, Class, NoAnswer
<1>7. CASE Stop(r)
  BY <1>7 DEF Stop, CancelLease, Running, NoAnswer
<1> QED
  BY <1>1, <1>2, <1>3, <1>4, <1>5, <1>6, <1>7 DEF RelayStep

WorkerTypeOK ==
  /\ pc \in [Relay -> [Bucket -> PC]]
  /\ batch \in [Relay -> [Bucket -> SUBSET committed]]
  /\ full \in [Relay -> SUBSET Bucket]
  /\ class \in [Relay -> [Bucket -> Class]]
  /\ cancelled \in [Relay -> SUBSET Bucket]
  /\ backoff \in [Relay -> SUBSET Bucket]

TableTypeOK ==
  /\ pending \in SUBSET committed
  /\ dead \in SUBSET committed
  /\ attempts \in [Event -> Nat]
  /\ buried \in SUBSET committed

LEMMA ReturnTypes ==
  ASSUME TypeOK, committed' = committed,
         NEW r \in Relay, NEW b \in Bucket, NEW retry \in SUBSET Bucket,
         Return(r, b, retry)
  PROVE  WorkerTypeOK'
BY DEF TypeOK, WorkerTypeOK, Return, Goto, PC, Class

LEMMA RetryTypes ==
  ASSUME TypeOK, committed' = committed, NEW r \in Relay, NEW b \in Bucket,
         ClearRetry(r, b) \/ DeferBucket(r, b) \/ NoRetryChange(r, b)
  PROVE  WorkerTypeOK'
<1>1. /\ backoff[r] \ {b} \in SUBSET Bucket
      /\ backoff[r] \cup {b} \in SUBSET Bucket
      /\ backoff[r] \in SUBSET Bucket
  BY DEF TypeOK
<1> QED
  BY <1>1, ReturnTypes DEF ClearRetry, DeferBucket, NoRetryChange

LEMMA GotoTypes ==
  ASSUME TypeOK, NEW r \in Relay, NEW b \in Bucket, NEW to \in PC, Goto(r, b, to)
  PROVE  pc' \in [Relay -> [Bucket -> PC]]
BY DEF TypeOK, Goto

LEMMA RowTypes ==
  ASSUME TypeOK, committed' = committed,
         NEW r \in Relay, NEW b \in Bucket, NEW e \in batch[r][b],
         RemoveRow(r, b, e) \/ RecordRow(r, b, e)
  PROVE  TableTypeOK'
<1>1. e \in committed /\ e \in Event
  BY DEF TypeOK
<1>2. CASE RemoveRow(r, b, e)
  BY <1>2 DEF RemoveRow, TypeOK, TableTypeOK
<1>3. CASE RecordRow(r, b, e)
  <2>1. attempts' \in [Event -> Nat]
    <3>1. attempts[e] + 1 \in Nat /\ attempts \in [Event -> Nat]
      BY <1>1 DEF TypeOK
    <3>2. attempts' = attempts \/ attempts' = [attempts EXCEPT ![e] = attempts[e] + 1]
      BY <1>3 DEF RecordRow
    <3> QED
      BY <1>1, <3>1, <3>2, UpdateOne
  <2> QED
    BY <1>1, <1>3, <2>1 DEF RecordRow, TypeOK, TableTypeOK
<1> QED
  BY <1>2, <1>3

LEMMA BucketTypes ==
  ASSUME TypeOK, NEW r \in Relay, NEW b \in Bucket, BucketStep(r, b)
  PROVE  TypeOK'
<1> USE RelayAssumption DEF writerVars, tableVars, relayVars, workerVars, boundVars
<1>1. CASE StartBucket(r, b)
  <2>1. pc' \in [Relay -> [Bucket -> PC]]
    BY <1>1, GotoTypes DEF StartBucket, PC
  <2> QED
    BY <1>1, <2>1 DEF StartBucket, TypeOK
<1>2. CASE ReadBatch(r, b)
  <2>1. CASE ClearRetry(r, b)
    BY <1>2, <2>1, RetryTypes DEF ReadBatch, TypeOK, WorkerTypeOK
  <2>2. CASE ~ClearRetry(r, b)
    <3>1. pc' \in [Relay -> [Bucket -> PC]]
      BY <1>2, <2>2, GotoTypes DEF ReadBatch, PC
    <3>2. batch' \in [Relay -> [Bucket -> SUBSET committed]]
      <4>1. PICK S \in SUBSET Rows(b) : batch' = [batch EXCEPT ![r][b] = S]
        BY <1>2, <2>2 DEF ReadBatch
      <4>2. S \in SUBSET committed
        BY <4>1 DEF Rows, TypeOK
      <4> QED
        BY <4>1, <4>2, UpdateTwo, <1>2 DEF ReadBatch, TypeOK
    <3>3. full' \in [Relay -> SUBSET Bucket]
      <4>1. full[r] \cup {b} \in SUBSET Bucket /\ full[r] \ {b} \in SUBSET Bucket
        BY DEF TypeOK
      <4>2. \/ full' = [full EXCEPT ![r] = full[r] \cup {b}]
            \/ full' = [full EXCEPT ![r] = full[r] \ {b}]
        BY <1>2, <2>2 DEF ReadBatch
      <4> QED
        BY <4>1, <4>2 DEF TypeOK
    <3> QED
      BY <1>2, <2>2, <3>1, <3>2, <3>3 DEF ReadBatch, TypeOK
  <2> QED
    BY <2>1, <2>2
<1>3. CASE CheckLease(r, b)
  <2>1. CASE Held(r, b)
    <3>1. pc' \in [Relay -> [Bucket -> PC]]
      BY <1>3, <2>1, GotoTypes DEF CheckLease, PC
    <3> QED
      BY <1>3, <2>1, <3>1 DEF CheckLease, TypeOK
  <2>2. CASE ~Held(r, b)
    BY <1>3, <2>2, RetryTypes DEF CheckLease, TypeOK, WorkerTypeOK
  <2> QED
    BY <2>1, <2>2
<1>4. CASE PublishSucceeds(r, b)
  <2>1. pc' \in [Relay -> [Bucket -> PC]]
    BY <1>4, GotoTypes DEF PublishSucceeds, PC
  <2> QED
    BY <1>4, <2>1 DEF PublishSucceeds, TypeOK
<1>5. CASE PublishFails(r, b)
  <2>1. pc' \in [Relay -> [Bucket -> PC]]
    BY <1>5, GotoTypes DEF PublishFails, PC
  <2>2. class' \in [Relay -> [Bucket -> Class]]
    <3>1. PICK c \in Class : class' = [class EXCEPT ![r][b] = c]
      BY <1>5 DEF PublishFails
    <3> QED
      BY <3>1, UpdateTwo DEF TypeOK
  <2>3. delivered' \in SUBSET committed
    <3>1. batch[r][b] \subseteq committed /\ delivered \subseteq committed
      BY DEF TypeOK
    <3>2. delivered' = delivered \/ \E e \in batch[r][b] : delivered' = delivered \cup {e}
      BY <1>5 DEF PublishFails
    <3> QED
      BY <3>1, <3>2
  <2>4. faults' \in 0..MaxFaults
    BY <1>5 DEF PublishFails, TypeOK
  <2> QED
    BY <1>5, <2>1, <2>2, <2>3, <2>4 DEF PublishFails, TypeOK
<1>6. CASE DeleteEvent(r, b)
  <2>1. CASE UNCHANGED tableVars /\ DeferBucket(r, b)
    BY <1>6, <2>1, RetryTypes DEF DeleteEvent, TypeOK, WorkerTypeOK
  <2>2. CASE ~(UNCHANGED tableVars /\ DeferBucket(r, b))
    <3>1. PICK e \in batch[r][b] :
            /\ RemoveRow(r, b, e)
            /\ IF batch[r][b] = {e} /\ b \notin full[r]
                 THEN ClearRetry(r, b)
                 ELSE /\ batch' = [batch EXCEPT ![r][b] = @ \ {e}]
                      /\ Goto(r, b, IF batch[r][b] = {e} THEN "read" ELSE "check")
                      /\ backoff' = [backoff EXCEPT ![r] =
                                       IF batch[r][b] = {e} THEN @ \ {b} ELSE @]
                      /\ UNCHANGED <<full, class, cancelled>>
      BY <1>6, <2>2 DEF DeleteEvent
    <3>2. TableTypeOK'
      BY <1>6, <3>1, RowTypes DEF DeleteEvent
    <3>3. WorkerTypeOK'
      <4>1. CASE ClearRetry(r, b)
        BY <1>6, <4>1, RetryTypes DEF DeleteEvent
      <4>2. CASE ~ClearRetry(r, b)
        <5>1. pc' \in [Relay -> [Bucket -> PC]]
          BY <3>1, <4>2, GotoTypes DEF PC
        <5>2. batch' \in [Relay -> [Bucket -> SUBSET committed']]
          <6>1. batch' = [batch EXCEPT ![r][b] = batch[r][b] \ {e}]
            BY <3>1, <4>2
          <6>2. batch[r][b] \ {e} \in SUBSET committed
            BY DEF TypeOK
          <6>3. committed' = committed
            BY <1>6 DEF DeleteEvent
          <6> QED
            BY <6>1, <6>2, <6>3, UpdateTwo DEF TypeOK
        <5>3. backoff' \in [Relay -> SUBSET Bucket]
          <6>1. \/ backoff' = [backoff EXCEPT ![r] = backoff[r] \ {b}]
                \/ backoff' = [backoff EXCEPT ![r] = backoff[r]]
            BY <3>1, <4>2
          <6>2. backoff[r] \ {b} \in SUBSET Bucket /\ backoff[r] \in SUBSET Bucket
            BY DEF TypeOK
          <6> QED
            BY <6>1, <6>2 DEF TypeOK
        <5> QED
          BY <1>6, <3>1, <4>2, <5>1, <5>2, <5>3 DEF DeleteEvent, TypeOK, WorkerTypeOK
      <4> QED
        BY <4>1, <4>2
    <3> QED
      BY <1>6, <3>2, <3>3 DEF DeleteEvent, TypeOK, TableTypeOK, WorkerTypeOK
  <2> QED
    BY <2>1, <2>2
<1>7. CASE RecordPublishFailure(r, b)
  <2>1. WorkerTypeOK'
    BY <1>7, RetryTypes DEF RecordPublishFailure
  <2>2. TableTypeOK'
    BY <1>7, RowTypes DEF RecordPublishFailure, TypeOK, TableTypeOK
  <2> QED
    BY <1>7, <2>1, <2>2 DEF RecordPublishFailure, TypeOK, TableTypeOK, WorkerTypeOK
<1>8. CASE StoreFails(r, b)
  <2>1. WorkerTypeOK'
    BY <1>8, RetryTypes DEF StoreFails
  <2>2. TableTypeOK'
    BY <1>8, RowTypes DEF StoreFails, EffectAnyway, TypeOK, TableTypeOK
  <2>3. faults' \in 0..MaxFaults
    BY <1>8 DEF StoreFails, TypeOK
  <2> QED
    BY <1>8, <2>1, <2>2, <2>3 DEF StoreFails, TypeOK, TableTypeOK, WorkerTypeOK
<1>9. CASE Abandon(r, b)
  <2>1. WorkerTypeOK'
    BY <1>9, RetryTypes DEF Abandon
  <2>2. TableTypeOK'
    BY <1>9, RowTypes DEF Abandon, EffectAnyway, TypeOK, TableTypeOK
  <2>3. delivered' \in SUBSET committed
    <3>1. batch[r][b] \subseteq committed /\ delivered \subseteq committed
      BY DEF TypeOK
    <3>2. delivered' = delivered \/ \E e \in batch[r][b] : delivered' = delivered \cup {e}
      BY <1>9 DEF Abandon
    <3> QED
      BY <3>1, <3>2
  <2> QED
    BY <1>9, <2>1, <2>2, <2>3 DEF Abandon, TypeOK, TableTypeOK, WorkerTypeOK
<1>10. CASE BackoffElapses(r, b)
  BY <1>10 DEF BackoffElapses, TypeOK
<1> QED
  BY <1>1, <1>2, <1>3, <1>4, <1>5, <1>6, <1>7, <1>8, <1>9, <1>10 DEF BucketStep

LEMMA LapseTypes ==
  ASSUME TypeOK, NEW b \in Bucket, Lapse(b)
  PROVE  TypeOK'
BY ZenonT(40) DEF TypeOK, Lapse, writerVars, tableVars, relayVars, workerVars, boundVars

\* Every variable keeps its type, and the tables and the broker only ever hold
\* events whose transaction committed.
THEOREM TypeCorrect == Spec => []TypeOK
<1>1. Init => TypeOK
  BY RelayAssumption DEF Init, TypeOK, NoLease, NoAnswer, PC, Class
<1>2. TypeOK /\ [Next]_vars => TypeOK'
  <2> SUFFICES ASSUME TypeOK, [Next]_vars PROVE TypeOK'
    OBVIOUS
  <2>1. CASE UNCHANGED vars
    BY <2>1 DEF TypeOK, vars
  <2>2. CASE Next
    BY <2>2, WriterTypes, RelayTypes, BucketTypes, LapseTypes DEF Next
  <2> QED
    BY <2>1, <2>2
<1> QED
  BY <1>1, <1>2, PTL DEF Spec

-----------------------------------------------------------------------------
(* What a step can do to the tables and to the broker.                     *)

Calls(r, b, e, where) ==
  /\ pc[r][b] = where /\ e \in batch[r][b] /\ IsNext(r, b, e)
  /\ UNCHANGED writerVars

TableStep ==
  \/ \E e \in Event : EnqueueTx(e) \/ CommitTx(e) \/ ReplayDeadLetter(e)
  \/ UNCHANGED <<writerVars, tableVars, delivered>>
  \/ \E r \in Relay, b \in Bucket, e \in Event :
       \/ Calls(r, b, e, "publish") /\ delivered' = delivered \cup {e} /\ UNCHANGED tableVars
       \/ Calls(r, b, e, "delete") /\ RemoveRow(r, b, e) /\ UNCHANGED delivered
       \/ Calls(r, b, e, "record") /\ RecordRow(r, b, e) /\ UNCHANGED delivered

LEMMA BatchEvents ==
  ASSUME TypeOK, NEW r \in Relay, NEW b \in Bucket, NEW e \in batch[r][b]
  PROVE  e \in committed /\ e \in stamped /\ e \in Event
BY DEF TypeOK

LEMMA BucketTableSteps ==
  ASSUME TypeOK, NEW r \in Relay, NEW b \in Bucket, BucketStep(r, b)
  PROVE  TableStep
<1> USE DEF TableStep, Calls
<1>1. CASE StartBucket(r, b) \/ ReadBatch(r, b) \/ CheckLease(r, b) \/ BackoffElapses(r, b)
  BY <1>1 DEF StartBucket, ReadBatch, CheckLease, BackoffElapses
<1>2. CASE PublishSucceeds(r, b)
  BY <1>2, BatchEvents DEF PublishSucceeds, At
<1>3. CASE PublishFails(r, b)
  BY <1>3, BatchEvents DEF PublishFails, At
<1>4. CASE DeleteEvent(r, b)
  BY <1>4, BatchEvents DEF DeleteEvent, At
<1>5. CASE RecordPublishFailure(r, b)
  BY <1>5, BatchEvents DEF RecordPublishFailure, At
<1>6. CASE StoreFails(r, b)
  BY <1>6, BatchEvents DEF StoreFails, EffectAnyway
<1>7. CASE Abandon(r, b)
  BY <1>7, BatchEvents DEF Abandon, EffectAnyway
<1> QED
  BY <1>1, <1>2, <1>3, <1>4, <1>5, <1>6, <1>7 DEF BucketStep

LEMMA TableSteps ==
  ASSUME TypeOK, [Next]_vars
  PROVE  TableStep
<1>1. CASE UNCHANGED vars
  BY <1>1 DEF vars, writerVars, tableVars, TableStep
<1>2. CASE WriterStep
  BY <1>2 DEF WriterStep, TableStep
<1>3. CASE \E b \in Bucket : Lapse(b)
  BY <1>3 DEF Lapse, TableStep
<1>4. ASSUME NEW r \in Relay, RelayStep(r) PROVE TableStep
  BY <1>4 DEF RelayStep, ClaimBuckets, ClaimFails, ApplyClaim, Fence, Drain,
              Crash, Stop, TableStep
<1> QED
  BY <1>1, <1>2, <1>3, <1>4, BucketTableSteps DEF Next

\* A step leaves a batch alone, forgets it, reads it, or drops its first row.
BatchStep(r, b) ==
  \/ /\ batch'[r][b] = batch[r][b]
     /\ pc'[r][b] = "delete" =>
          pc[r][b] = "delete" \/ \E e \in batch[r][b] : IsNext(r, b, e) /\ e \in delivered'
  \/ batch'[r][b] = {}
  \/ /\ IsBatch(b, batch'[r][b])
     /\ pc'[r][b] = "check"
     /\ UNCHANGED <<writerVars, tableVars, delivered>>
  \/ /\ pc[r][b] = "delete" /\ pc'[r][b] # "delete"
     /\ UNCHANGED <<writerVars, delivered>>
     /\ \E e \in batch[r][b] : IsNext(r, b, e) /\ batch'[r][b] = batch[r][b] \ {e}

LEMMA ReturnBatch ==
  ASSUME TypeOK, NEW r \in Relay, NEW b \in Bucket,
         ClearRetry(r, b) \/ DeferBucket(r, b) \/ NoRetryChange(r, b),
         NEW q \in Relay, NEW c \in Bucket
  PROVE  BatchStep(q, c)
<1>1. batch' = [batch EXCEPT ![r][b] = {}] /\ pc' = [pc EXCEPT ![r][b] = "idle"]
  BY DEF ClearRetry, DeferBucket, NoRetryChange, Return, Goto
<1>2. CASE q = r /\ c = b
  <2>1. batch'[q][c] = {}
    BY <1>1, <1>2 DEF TypeOK
  <2> QED
    BY <2>1 DEF BatchStep
<1>3. CASE ~(q = r /\ c = b)
  <2>1. batch'[q][c] = batch[q][c] /\ pc'[q][c] = pc[q][c]
    BY <1>1, <1>3 DEF TypeOK
  <2> QED
    BY <2>1 DEF BatchStep
<1> QED
  BY <1>2, <1>3

LEMMA GotoBatch ==
  ASSUME TypeOK, NEW r \in Relay, NEW b \in Bucket, NEW to, Goto(r, b, to),
         batch' = batch, to = "delete" => \E e \in batch[r][b] : IsNext(r, b, e) /\ e \in delivered',
         NEW q \in Relay, NEW c \in Bucket
  PROVE  BatchStep(q, c)
<1>1. CASE q = r /\ c = b
  <2>1. pc'[q][c] = to
    BY <1>1 DEF Goto, TypeOK
  <2> QED
    BY <1>1, <2>1 DEF BatchStep
<1>2. CASE ~(q = r /\ c = b)
  <2>1. pc'[q][c] = pc[q][c]
    BY <1>2 DEF Goto, TypeOK
  <2> QED
    BY <2>1 DEF BatchStep
<1> QED
  BY <1>1, <1>2

LEMMA BucketBatchSteps ==
  ASSUME TypeOK, NEW r \in Relay, NEW b \in Bucket, BucketStep(r, b),
         NEW q \in Relay, NEW c \in Bucket
  PROVE  BatchStep(q, c)
<1>1. CASE ClearRetry(r, b) \/ DeferBucket(r, b) \/ NoRetryChange(r, b)
  BY <1>1, ReturnBatch
<1>2. CASE StartBucket(r, b)
  BY <1>2, GotoBatch DEF StartBucket
<1>3. CASE ReadBatch(r, b) /\ ~ClearRetry(r, b)
  <2>1. PICK S \in SUBSET Rows(b) : IsBatch(b, S) /\ batch' = [batch EXCEPT ![r][b] = S]
    BY <1>3 DEF ReadBatch
  <2>2. pc' = [pc EXCEPT ![r][b] = "check"] /\ UNCHANGED <<writerVars, tableVars, delivered>>
    BY <1>3 DEF ReadBatch, Goto
  <2>3. CASE q = r /\ c = b
    <3>1. batch'[q][c] = S /\ pc'[q][c] = "check"
      BY <2>1, <2>2, <2>3 DEF TypeOK
    <3> QED
      BY <2>1, <2>2, <2>3, <3>1 DEF BatchStep
  <2>4. CASE ~(q = r /\ c = b)
    <3>1. batch'[q][c] = batch[q][c] /\ pc'[q][c] = pc[q][c]
      BY <2>1, <2>2, <2>4 DEF TypeOK
    <3> QED
      BY <3>1 DEF BatchStep
  <2> QED
    BY <2>3, <2>4
<1>4. CASE CheckLease(r, b)
  BY <1>1, <1>4, GotoBatch DEF CheckLease
<1>5. CASE PublishSucceeds(r, b)
  <2>1. \E e \in batch[r][b] : IsNext(r, b, e) /\ e \in delivered'
    BY <1>5 DEF PublishSucceeds
  <2>2. Goto(r, b, "delete") /\ batch' = batch
    BY <1>5 DEF PublishSucceeds
  <2> QED
    BY <2>1, <2>2, GotoBatch
<1>6. CASE PublishFails(r, b)
  <2>1. Goto(r, b, "record") /\ batch' = batch
    BY <1>6 DEF PublishFails
  <2> QED
    BY <2>1, GotoBatch
<1>7. CASE DeleteEvent(r, b) /\ ~(ClearRetry(r, b) \/ DeferBucket(r, b))
  <2>1. PICK e \in batch[r][b] :
          /\ IsNext(r, b, e)
          /\ batch' = [batch EXCEPT ![r][b] = batch[r][b] \ {e}]
          /\ Goto(r, b, IF batch[r][b] = {e} THEN "read" ELSE "check")
    BY <1>7 DEF DeleteEvent
  <2>2. pc[r][b] = "delete" /\ UNCHANGED <<writerVars, delivered>>
    BY <1>7 DEF DeleteEvent, At
  <2>3. CASE q = r /\ c = b
    <3>1. batch'[q][c] = batch[q][c] \ {e}
      BY <2>1, <2>3 DEF TypeOK
    <3>2. pc'[q][c] # "delete"
      BY <2>1, <2>3 DEF TypeOK, Goto
    <3> QED
      BY <2>1, <2>2, <2>3, <3>1, <3>2 DEF BatchStep
  <2>4. CASE ~(q = r /\ c = b)
    <3>1. batch'[q][c] = batch[q][c] /\ pc'[q][c] = pc[q][c]
      BY <2>1, <2>4 DEF TypeOK, Goto
    <3> QED
      BY <3>1 DEF BatchStep
  <2> QED
    BY <2>3, <2>4
<1>8. CASE BackoffElapses(r, b)
  BY <1>8 DEF BackoffElapses, BatchStep
<1>9. RecordPublishFailure(r, b) \/ StoreFails(r, b) \/ Abandon(r, b) =>
        ClearRetry(r, b) \/ DeferBucket(r, b) \/ NoRetryChange(r, b)
  BY DEF RecordPublishFailure, StoreFails, Abandon
<1> QED
  BY <1>1, <1>2, <1>3, <1>4, <1>5, <1>6, <1>7, <1>8, <1>9 DEF BucketStep

LEMMA RelayBatchSteps ==
  ASSUME TypeOK, NEW r \in Relay, RelayStep(r), NEW q \in Relay, NEW c \in Bucket
  PROVE  BatchStep(q, c)
<1>1. CASE Crash(r)
  <2>1. batch' = [batch EXCEPT ![r] = [b \in Bucket |-> {}]]
        /\ pc' = [pc EXCEPT ![r] = [b \in Bucket |-> "idle"]]
    BY <1>1 DEF Crash
  <2>2. batch'[q][c] = {} \/ (batch'[q][c] = batch[q][c] /\ pc'[q][c] = pc[q][c])
    BY <2>1 DEF TypeOK
  <2> QED
    BY <2>2 DEF BatchStep
<1>2. CASE Drain(r)
  <2>1. batch' = batch
        /\ pc' = [pc EXCEPT ![r] = [b \in Bucket |-> IF b \in owned[r] THEN "start" ELSE "idle"]]
    BY <1>2 DEF Drain, workerVars
  <2>2. batch'[q][c] = batch[q][c] /\ (pc'[q][c] = pc[q][c] \/ pc'[q][c] # "delete")
    BY <2>1 DEF TypeOK
  <2> QED
    BY <2>2 DEF BatchStep
<1>3. CASE UNCHANGED <<pc, batch>>
  BY <1>3 DEF BatchStep
<1> QED
  BY <1>1, <1>2, <1>3 DEF RelayStep, ClaimBuckets, ClaimFails, ApplyClaim, Fence, Stop, workerVars

LEMMA BatchSteps ==
  ASSUME TypeOK, [Next]_vars, NEW q \in Relay, NEW c \in Bucket
  PROVE  BatchStep(q, c)
<1>1. CASE UNCHANGED <<pc, batch>>
  BY <1>1 DEF BatchStep
<1>2. CASE WriterStep \/ (\E b \in Bucket : Lapse(b)) \/ UNCHANGED vars
  BY <1>1, <1>2 DEF WriterStep, EnqueueTx, CommitTx, ReplayDeadLetter, Lapse, workerVars, vars
<1> QED
  BY <1>2, BucketBatchSteps, RelayBatchSteps DEF Next

-----------------------------------------------------------------------------
(* The tables.                                                             *)

\* Between publish and delete the first row of the batch is at the broker.
HeadDelivered ==
  \A r \in Relay, b \in Bucket, e \in Event :
    pc[r][b] = "delete" /\ e \in batch[r][b] /\ IsNext(r, b, e) => e \in delivered

TableInv == TypeOK /\ NothingLost /\ NotPendingAndDead /\ BudgetLeft /\ HeadDelivered

LEMMA OneHead ==
  ASSUME TypeOK, NEW r \in Relay, NEW b \in Bucket, NEW d, NEW e,
         IsNext(r, b, d), IsNext(r, b, e)
  PROVE  d = e
<1>1. d \in Nat /\ e \in Nat /\ d <= e /\ e <= d
  BY RelayAssumption DEF IsNext, TypeOK
<1> QED
  BY <1>1

LEMMA HeadDeliveredStep ==
  ASSUME TypeOK, TypeOK', HeadDelivered, [Next]_vars
  PROVE  HeadDelivered'
<1> SUFFICES ASSUME NEW r \in Relay, NEW b \in Bucket, NEW e \in Event,
                    pc'[r][b] = "delete", e \in batch'[r][b], IsNext(r, b, e)'
             PROVE  e \in delivered'
  BY DEF HeadDelivered
<1>1. delivered \subseteq delivered'
  BY TableSteps DEF TableStep, EnqueueTx, CommitTx, ReplayDeadLetter
<1>2. BatchStep(r, b)
  BY BatchSteps
<1>3. batch'[r][b] = batch[r][b]
  BY <1>2 DEF BatchStep
<1>4. IsNext(r, b, e)
  BY <1>3 DEF IsNext
<1> QED
  BY <1>1, <1>2, <1>3, <1>4, OneHead DEF BatchStep, HeadDelivered

LEMMA TableInvStep ==
  ASSUME TableInv, TypeOK', [Next]_vars
  PROVE  NothingLost' /\ NotPendingAndDead' /\ BudgetLeft'
<1> USE RelayAssumption DEF TableInv
<1>1. CASE \E e \in Event : EnqueueTx(e)
  BY <1>1 DEF EnqueueTx, tableVars, NothingLost, NotPendingAndDead, BudgetLeft
<1>2. CASE \E e \in Event : CommitTx(e)
  BY <1>2 DEF CommitTx, TypeOK, NothingLost, NotPendingAndDead, BudgetLeft
<1>3. CASE \E e \in Event : ReplayDeadLetter(e)
  BY <1>3 DEF ReplayDeadLetter, writerVars, TypeOK, NothingLost, NotPendingAndDead, BudgetLeft
<1>4. CASE UNCHANGED <<writerVars, tableVars, delivered>>
  BY <1>4 DEF writerVars, tableVars, NothingLost, NotPendingAndDead, BudgetLeft
<1>5. ASSUME NEW r \in Relay, NEW b \in Bucket, NEW e \in Event,
             Calls(r, b, e, "publish"), delivered' = delivered \cup {e}, UNCHANGED tableVars
      PROVE  NothingLost' /\ NotPendingAndDead' /\ BudgetLeft'
  BY <1>5 DEF Calls, writerVars, tableVars, NothingLost, NotPendingAndDead, BudgetLeft
<1>6. ASSUME NEW r \in Relay, NEW b \in Bucket, NEW e \in Event,
             Calls(r, b, e, "delete"), RemoveRow(r, b, e), UNCHANGED delivered
      PROVE  NothingLost' /\ NotPendingAndDead' /\ BudgetLeft'
  <2>1. e \in delivered
    BY <1>6 DEF Calls, HeadDelivered
  <2> QED
    BY <1>6, <2>1 DEF Calls, RemoveRow, writerVars, NothingLost, NotPendingAndDead, BudgetLeft
<1>7. ASSUME NEW r \in Relay, NEW b \in Bucket, NEW e \in Event,
             Calls(r, b, e, "record"), RecordRow(r, b, e), UNCHANGED delivered
      PROVE  NothingLost' /\ NotPendingAndDead' /\ BudgetLeft'
  <2>1. NothingLost' /\ NotPendingAndDead'
    BY <1>7 DEF Calls, RecordRow, Parks, writerVars, NothingLost, NotPendingAndDead
  <2>2. BudgetLeft'
    <3> SUFFICES ASSUME NEW x \in pending' PROVE attempts'[x] < MaxAttempts
      BY DEF BudgetLeft
    <3>1. x \in pending /\ x \in Event /\ attempts[x] \in Nat /\ attempts[x] < MaxAttempts
      BY <1>7 DEF RecordRow, BudgetLeft, TypeOK
    <3>2. CASE attempts' = attempts
      BY <3>1, <3>2
    <3>3. CASE attempts' = [attempts EXCEPT ![e] = attempts[e] + 1]
      <4>1. CASE x # e
        BY <3>1, <3>3, <4>1 DEF TypeOK
      <4>2. CASE x = e
        <5>1. ~Parks(r, b, e) /\ class[r][b] \in Class
          BY <1>7, <4>2 DEF RecordRow, TypeOK
        <5>2. attempts'[x] = attempts[x] + 1
          BY <3>1, <3>3, <4>2 DEF TypeOK
        <5>3. class[r][b] # "transient" => class[r][b] = "unknown"
          BY <3>1, <4>2, <5>1 DEF Parks, Class
        <5>4. class[r][b] = "transient" => attempts' = attempts
          BY <1>7 DEF RecordRow
        <5> QED
          BY <3>1, <4>2, <5>1, <5>2, <5>3, <5>4 DEF Parks
      <4> QED
        BY <4>1, <4>2
    <3> QED
      BY <1>7, <3>2, <3>3 DEF RecordRow
  <2> QED
    BY <2>1, <2>2
<1> QED
  BY <1>1, <1>2, <1>3, <1>4, <1>5, <1>6, <1>7, TableSteps DEF TableStep

LEMMA TableInvariant == Spec => []TableInv
<1>1. Init => TableInv
  <2>1. Init => TypeOK
    BY RelayAssumption DEF Init, TypeOK, NoLease, NoAnswer, PC, Class
  <2> QED
    BY <2>1 DEF Init, TableInv, NothingLost, NotPendingAndDead, BudgetLeft, HeadDelivered
<1>2. TableInv /\ TypeOK' /\ [Next]_vars => TableInv'
  BY TableInvStep, HeadDeliveredStep DEF TableInv
<1> QED
  BY <1>1, <1>2, TypeCorrect, PTL DEF Spec

\* No interleaving of crashes, lost leases, half-done calls and replays loses
\* the last copy of a committed event.
THEOREM NothingIsLost == Spec => []NothingLost
BY TableInvariant, PTL DEF TableInv

\* No event ever waits and lies parked at once.
THEOREM TablesDisjoint == Spec => []NotPendingAndDead
BY TableInvariant, PTL DEF TableInv

\* No row waits whose attempt budget is used up.
THEOREM BudgetKept == Spec => []BudgetLeft
BY TableInvariant, PTL DEF TableInv


-----------------------------------------------------------------------------
(* Every row of a batch belongs to the bucket being drained.               *)

OwnBatches == \A r \in Relay, b \in Bucket : \A e \in batch[r][b] : bucketOf[e] = b

LEMMA OwnBatchesStep ==
  ASSUME TypeOK, OwnBatches, [Next]_vars
  PROVE  OwnBatches'
<1> SUFFICES ASSUME NEW r \in Relay, NEW b \in Bucket, NEW e \in batch'[r][b]
             PROVE  bucketOf[e] = b
  BY DEF OwnBatches
<1>1. BatchStep(r, b)
  BY BatchSteps
<1>2. IsBatch(b, batch'[r][b]) => e \in Rows(b)
  BY DEF IsBatch
<1> QED
  BY <1>1, <1>2 DEF BatchStep, OwnBatches, Rows

LEMMA OwnBatchesAlways == Spec => []OwnBatches
<1>1. Init => OwnBatches
  BY DEF Init, OwnBatches
<1>2. TypeOK /\ OwnBatches /\ [Next]_vars => OwnBatches'
  BY OwnBatchesStep
<1> QED
  BY <1>1, <1>2, TypeCorrect, PTL DEF Spec

LEMMA RowTouchedBy ==
  ASSUME TypeOK, OwnBatches, [Next]_vars, NEW e \in Event, RowTouched(e)
  PROVE  \E r \in Relay, b \in Bucket :
           /\ BucketStep(r, b) /\ e \in batch[r][b]
           /\ \/ pc[r][b] = "delete" /\ RemoveRow(r, b, e)
              \/ pc[r][b] = "record" /\ RecordRow(r, b, e)
<1>1. ~UNCHANGED tableVars
  BY DEF RowTouched, tableVars
<1>2. ~WriterStep
  BY DEF WriterStep, EnqueueTx, CommitTx, ReplayDeadLetter, RowTouched, tableVars, TypeOK
<1>3. ~(\E b \in Bucket : Lapse(b)) /\ ~(\E r \in Relay : RelayStep(r)) /\ ~UNCHANGED vars
  BY <1>1 DEF Lapse, RelayStep, ClaimBuckets, ClaimFails, ApplyClaim, Fence, Drain,
              Crash, Stop, vars, tableVars
<1>4. PICK r \in Relay, b \in Bucket : BucketStep(r, b)
  BY <1>2, <1>3 DEF Next
<1>5. DeleteEvent(r, b) \/ RecordPublishFailure(r, b) \/ StoreFails(r, b) \/ Abandon(r, b)
  BY <1>1, <1>4 DEF BucketStep, StartBucket, ReadBatch, CheckLease, PublishSucceeds,
                    PublishFails, BackoffElapses
<1>6. PICK d \in batch[r][b] :
        \/ pc[r][b] = "delete" /\ RemoveRow(r, b, d)
        \/ pc[r][b] = "record" /\ RecordRow(r, b, d)
  BY <1>1, <1>5 DEF DeleteEvent, RecordPublishFailure, StoreFails, Abandon, EffectAnyway, At
<1>7. d = e
  BY <1>6 DEF RemoveRow, RecordRow, RowTouched, TypeOK
<1> QED
  BY <1>4, <1>6, <1>7

LEMMA TableCallReturns ==
  ASSUME TypeOK, NEW r \in Relay, NEW b \in Bucket, BucketStep(r, b),
         pc[r][b] \in {"delete", "record"}, ~UNCHANGED tableVars
  PROVE  pc'[r][b] \in {"idle", "read", "check"}
<1>1. ClearRetry(r, b) \/ DeferBucket(r, b) \/ NoRetryChange(r, b) => pc'[r][b] = "idle"
  BY DEF ClearRetry, DeferBucket, NoRetryChange, Return, Goto, TypeOK
<1>2. DeleteEvent(r, b) \/ RecordPublishFailure(r, b) \/ StoreFails(r, b) \/ Abandon(r, b)
  BY DEF BucketStep, StartBucket, ReadBatch, CheckLease, PublishSucceeds,
         PublishFails, BackoffElapses, At
<1>3. CASE DeleteEvent(r, b)
  BY <1>1, <1>3 DEF DeleteEvent, Goto, TypeOK
<1> QED
  BY <1>1, <1>2, <1>3 DEF RecordPublishFailure, StoreFails, Abandon

\* Rows are deleted, charged and parked only by a relay that the lease table
\* names at that moment, in the call that does it.
THEOREM HolderTouchesRows == Spec => OnlyHolderTouchesRows
<1>1. TypeOK /\ OwnBatches /\ [Next]_vars => TouchedByHolder
  <2> SUFFICES ASSUME TypeOK, OwnBatches, [Next]_vars, NEW e \in Event, RowTouched(e)
               PROVE  \E r \in Relay : /\ Held(r, bucketOf[e])
                                       /\ pc[r][bucketOf[e]] \in {"delete", "record"}
                                       /\ pc'[r][bucketOf[e]] # pc[r][bucketOf[e]]
    BY DEF TouchedByHolder
  <2>1. PICK r \in Relay, b \in Bucket :
           /\ BucketStep(r, b) /\ e \in batch[r][b]
           /\ \/ pc[r][b] = "delete" /\ RemoveRow(r, b, e)
              \/ pc[r][b] = "record" /\ RecordRow(r, b, e)
    BY RowTouchedBy
  <2>2. bucketOf[e] = b /\ Held(r, b) /\ pc[r][b] \in {"delete", "record"}
    BY <2>1 DEF OwnBatches, RemoveRow, RecordRow
  <2>3. ~UNCHANGED tableVars
    BY DEF RowTouched, tableVars
  <2>4. pc'[r][b] \in {"idle", "read", "check"}
    BY <2>1, <2>2, <2>3, TableCallReturns
  <2> QED
    BY <2>2, <2>4
<1> QED
  BY <1>1, TypeCorrect, OwnBatchesAlways, PTL DEF Spec, OnlyHolderTouchesRows

-----------------------------------------------------------------------------
(* Order.  A batch holds, below each of its rows, every predecessor that   *)
(* is neither delivered nor given up: reading establishes that, since what *)
(* is not in the tables has been delivered, and PublishBucket keeps it by  *)
(* dropping only first rows that the broker has.                           *)

StampsInOrder ==
  \A e \in Event : \A p \in before[e] :
    p \in committed /\ p < e /\ bucketOf[p] = bucketOf[e]

DeadAreBuried == dead \subseteq buried

Below(r, b, e) == {x \in batch[r][b] : x < e}
BatchesInOrder ==
  \A r \in Relay, b \in Bucket : \A e \in batch[r][b] :
    before[e] \subseteq delivered \cup buried \cup Below(r, b, e)

OrderInv ==
  /\ TableInv /\ OwnBatches
  /\ StampsInOrder /\ DeadAreBuried /\ BatchesInOrder /\ OrderKept

LEMMA HistoryGrows ==
  ASSUME TableStep
  PROVE  /\ delivered \subseteq delivered' /\ buried \subseteq buried'
         /\ committed \subseteq committed'
BY DEF TableStep, Calls, EnqueueTx, CommitTx, ReplayDeadLetter, RemoveRow, RecordRow,
       writerVars, tableVars

LEMMA StampsStep ==
  ASSUME ClocksAgree, TypeOK, TableStep, StampsInOrder
  PROVE  StampsInOrder'
<1>1. CASE \E e \in Event : EnqueueTx(e)
  <2>1. PICK e \in Event : EnqueueTx(e)
    BY <1>1
  <2>2. SUFFICES ASSUME NEW d \in Event, NEW p \in before'[d]
                 PROVE  p \in committed' /\ p < d /\ bucketOf[p] = bucketOf[d]
    BY DEF StampsInOrder
  <2>3. CASE d = e
    BY <2>1, <2>3 DEF EnqueueTx, TypeOK
  <2>4. CASE d # e
    BY <2>1, <2>4 DEF EnqueueTx, TypeOK, StampsInOrder
  <2> QED
    BY <2>3, <2>4
<1>2. CASE ~\E e \in Event : EnqueueTx(e)
  <2>1. before' = before
    BY <1>2 DEF TableStep, Calls, CommitTx, ReplayDeadLetter, writerVars
  <2> QED
    BY <2>1, HistoryGrows DEF StampsInOrder
<1> QED
  BY <1>1, <1>2

LEMMA BuriedStep ==
  ASSUME TableStep, DeadAreBuried
  PROVE  DeadAreBuried'
BY DEF TableStep, Calls, EnqueueTx, CommitTx, ReplayDeadLetter, RemoveRow, RecordRow,
       writerVars, tableVars, DeadAreBuried

LEMMA OldStamps ==
  ASSUME TypeOK, TableStep, NEW e \in committed
  PROVE  before'[e] = before[e]
<1>1. ASSUME NEW d \in Event, EnqueueTx(d) PROVE before'[e] = before[e]
  BY <1>1 DEF EnqueueTx, TypeOK
<1> QED
  BY <1>1 DEF TableStep, Calls, CommitTx, ReplayDeadLetter, writerVars

LEMMA BatchesStep ==
  ASSUME OrderInv, TypeOK', OwnBatches', [Next]_vars
  PROVE  BatchesInOrder'
<1> USE DEF OrderInv, TableInv
<1> SUFFICES ASSUME NEW r \in Relay, NEW b \in Bucket, NEW e \in batch'[r][b],
                    NEW p \in before'[e]
             PROVE  p \in delivered' \cup buried' \cup Below(r, b, e)'
  BY DEF BatchesInOrder
<1>1. TableStep /\ BatchStep(r, b)
  BY TableSteps, BatchSteps
<1>2. delivered \subseteq delivered' /\ buried \subseteq buried'
  BY <1>1, HistoryGrows
<1>3. CASE batch'[r][b] = batch[r][b]
  <2>1. p \in before[e]
    BY <1>1, <1>3, OldStamps, BatchEvents
  <2> QED
    BY <1>2, <1>3, <2>1 DEF BatchesInOrder, Below
<1>4. CASE /\ IsBatch(b, batch'[r][b])
           /\ UNCHANGED <<writerVars, tableVars, delivered>>
  <2>1. e \in Rows(b) /\ e \in Event
    BY <1>4 DEF IsBatch, Rows, TypeOK
  <2>2. p \in committed /\ p < e /\ bucketOf[p] = b
    BY <1>4, <2>1 DEF StampsInOrder, Rows, writerVars
  <2>3. p \in pending => p \in batch'[r][b]
    BY <1>4, <2>2 DEF IsBatch, Rows
  <2> QED
    BY <1>2, <2>2, <2>3 DEF NothingLost, DeadAreBuried, Below
<1>5. CASE /\ pc[r][b] = "delete" /\ UNCHANGED <<writerVars, delivered>>
           /\ \E h \in batch[r][b] : IsNext(r, b, h) /\ batch'[r][b] = batch[r][b] \ {h}
  <2>1. PICK h \in batch[r][b] : IsNext(r, b, h) /\ batch'[r][b] = batch[r][b] \ {h}
    BY <1>5
  <2>2. h \in delivered
    BY <1>5, <2>1, BatchEvents DEF HeadDelivered
  <2>3. p \in before[e] /\ e \in batch[r][b]
    BY <1>5, <2>1 DEF writerVars
  <2> QED
    BY <1>2, <2>1, <2>2, <2>3 DEF BatchesInOrder, Below
<1> QED
  BY <1>1, <1>3, <1>4, <1>5 DEF BatchStep

\* What the broker gets is the first row of a batch, whose predecessors are
\* therefore all dealt with.
LEMMA DeliverInOrder ==
  ASSUME OrderInv, NEW r \in Relay, NEW b \in Bucket, NEW e \in batch[r][b],
         IsNext(r, b, e)
  PROVE  before[e] \subseteq delivered \cup buried
<1>1. \A x \in batch[r][b] : x \in Nat
  BY RelayAssumption DEF OrderInv, TableInv, TypeOK
<1>2. \A x \in batch[r][b] : ~(x < e)
  BY <1>1 DEF IsNext
<1> QED
  BY <1>2 DEF OrderInv, BatchesInOrder, Below

LEMMA OrderKeptStep ==
  ASSUME OrderInv, [Next]_vars
  PROVE  OrderKept'
<1> USE DEF OrderInv, TableInv
<1>1. TableStep
  BY TableSteps
<1>2. delivered \subseteq delivered' /\ buried \subseteq buried'
  BY <1>1, HistoryGrows
<1> SUFFICES ASSUME NEW e \in delivered', NEW p \in before'[e]
             PROVE  p \in delivered' \cup buried'
  BY DEF OrderKept
<1>3. CASE e \in delivered
  <2>1. before'[e] = before[e]
    BY <1>1, <1>3, OldStamps DEF TypeOK
  <2> QED
    BY <1>2, <1>3, <2>1 DEF OrderKept
<1>4. CASE e \notin delivered
  <2>1. PICK r \in Relay, b \in Bucket : Calls(r, b, e, "publish")
    BY <1>1, <1>4 DEF TableStep, Calls, EnqueueTx, CommitTx, ReplayDeadLetter
  <2>2. before' = before /\ e \in batch[r][b] /\ IsNext(r, b, e)
    BY <2>1 DEF Calls, writerVars
  <2> QED
    BY <1>2, <2>2, DeliverInOrder
<1> QED
  BY <1>3, <1>4

LEMMA OrderInvariant ==
  ASSUME ClocksAgree
  PROVE  Spec => []OrderInv
<1>1. Init => StampsInOrder /\ DeadAreBuried /\ BatchesInOrder /\ OrderKept
  BY DEF Init, StampsInOrder, DeadAreBuried, BatchesInOrder, OrderKept
<1>2. OrderInv /\ TableInv' /\ OwnBatches' /\ [Next]_vars => OrderInv'
  <2> SUFFICES ASSUME OrderInv, TableInv', OwnBatches', [Next]_vars PROVE OrderInv'
    OBVIOUS
  <2>1. TableStep
    BY TableSteps DEF OrderInv, TableInv
  <2> QED
    BY <2>1, StampsStep, BuriedStep, BatchesStep, OrderKeptStep DEF OrderInv, TableInv
<1>3. Init /\ TableInv /\ OwnBatches => OrderInv
  BY <1>1 DEF OrderInv
<1> QED
  BY <1>2, <1>3, TableInvariant, OwnBatchesAlways, PTL DEF Spec

\* With writers whose clocks agree, the broker never sees an event for the
\* first time before one that had committed when it was written, whatever the
\* relays do and however their fences are late.
THEOREM OrderIsKept ==
  ASSUME ClocksAgree
  PROVE  Spec => []OrderKept
BY OrderInvariant, PTL DEF OrderInv

-----------------------------------------------------------------------------
(* The relays implement the queue: every step is one of its operations, or *)
(* leaves it alone.                                                        *)

LEMMA QueueStep ==
  ASSUME ClocksAgree, OrderInv, TypeOK', NotPendingAndDead', [Next]_vars
  PROVE  [Queue!QNext]_Queue!queueVars
<1> DEFINE st == [e \in Event |-> Status(e)]
<1> USE DEF OrderInv, TableInv
<1>0. ASSUME NEW e \in Event, Queue!Announce(e) \/ Queue!Enqueue(e) \/ Queue!Deliver(e)
                              \/ Queue!Discard(e) \/ Queue!Bury(e) \/ Queue!Replay(e)
      PROVE  [Queue!QNext]_Queue!queueVars
  BY <1>0 DEF Queue!QNext
<1>1. ASSUME NEW e \in Event, EnqueueTx(e) PROVE Queue!Announce(e)
  <2>1. st' = st /\ st[e] = "absent"
    BY <1>1 DEF EnqueueTx, tableVars, Status, TypeOK
  <2>2. \A x \in committed : x \in Event /\ st[x] # "absent"
    BY DEF Status, TypeOK
  <2> QED
    BY <1>1, <2>1, <2>2 DEF EnqueueTx, tableVars, Queue!Announce
<1>2. ASSUME NEW e \in Event, CommitTx(e) PROVE Queue!Enqueue(e)
  <2>1. st[e] = "absent"
    BY <1>2 DEF CommitTx, Status, TypeOK
  <2>2. st' = [st EXCEPT ![e] = "pending"]
    BY <1>2 DEF CommitTx, Status
  <2> QED
    BY <1>2, <2>1, <2>2 DEF CommitTx, Queue!Enqueue, Queue!Move
<1>3. ASSUME NEW e \in Event, ReplayDeadLetter(e) PROVE Queue!Replay(e)
  <2>1. st[e] = "dead"
    BY <1>3 DEF ReplayDeadLetter, Status
  <2>2. st' = [st EXCEPT ![e] = "pending"]
    BY <1>3 DEF ReplayDeadLetter, writerVars, Status
  <2> QED
    BY <1>3, <2>1, <2>2 DEF ReplayDeadLetter, writerVars, Queue!Replay, Queue!Move
<1>4. CASE UNCHANGED <<writerVars, tableVars, delivered>>
  <2>1. st' = st
    BY <1>4 DEF writerVars, tableVars, Status
  <2> QED
    BY <1>4, <2>1 DEF writerVars, tableVars, Queue!queueVars
<1>5. ASSUME NEW r \in Relay, NEW b \in Bucket, NEW e \in Event,
             Calls(r, b, e, "publish"), delivered' = delivered \cup {e}, UNCHANGED tableVars
      PROVE  Queue!Deliver(e)
  <2>1. st' = st
    BY <1>5 DEF Calls, writerVars, tableVars, Status
  <2>2. st[e] # "absent"
    BY <1>5, BatchEvents DEF Calls, Status
  <2>3. before[e] \subseteq delivered \cup buried
    BY <1>5, DeliverInOrder DEF Calls
  <2> QED
    BY <1>5, <2>1, <2>2, <2>3 DEF Calls, writerVars, tableVars, Queue!Deliver
<1>6. ASSUME NEW r \in Relay, NEW b \in Bucket, NEW e \in Event,
             Calls(r, b, e, "delete"), RemoveRow(r, b, e), UNCHANGED delivered
      PROVE  [Queue!QNext]_Queue!queueVars
  <2>1. e \in delivered /\ e \in committed
    BY <1>6, BatchEvents DEF Calls, HeadDelivered
  <2>2. CASE e \in pending
    <3>1. st[e] = "pending" /\ e \notin dead
      BY <2>2 DEF Status, NotPendingAndDead
    <3>2. st' = [st EXCEPT ![e] = "done"]
      BY <1>6, <2>1, <2>2, <3>1 DEF Calls, writerVars, RemoveRow, Status
    <3>3. Queue!Discard(e)
      BY <1>6, <2>1, <3>1, <3>2 DEF Calls, writerVars, RemoveRow, Queue!Discard, Queue!Move
    <3> QED
      BY <1>0, <3>3
  <2>3. CASE e \notin pending
    <3>1. pending' = pending
      BY <1>6, <2>3 DEF RemoveRow
    <3> QED
      BY <1>4, <1>6, <3>1 DEF Calls, RemoveRow, tableVars
  <2> QED
    BY <2>2, <2>3
<1>7. ASSUME NEW r \in Relay, NEW b \in Bucket, NEW e \in Event,
             Calls(r, b, e, "record"), RecordRow(r, b, e), UNCHANGED delivered
      PROVE  [Queue!QNext]_Queue!queueVars
  <2>1. CASE Parks(r, b, e)
    <3>1. e \in pending /\ st[e] = "pending"
      BY <2>1 DEF Parks, Status
    <3>2. st' = [st EXCEPT ![e] = "dead"]
      BY <1>7, <2>1 DEF Calls, writerVars, RecordRow, Status
    <3>3. Queue!Bury(e)
      BY <1>7, <2>1, <3>1, <3>2 DEF Calls, writerVars, RecordRow, Queue!Bury, Queue!Move
    <3> QED
      BY <1>0, <3>3
  <2>2. CASE ~Parks(r, b, e)
    <3>1. st' = st
      BY <1>7, <2>2 DEF Calls, writerVars, RecordRow, Status
    <3> QED
      BY <1>7, <2>2, <3>1 DEF Calls, writerVars, RecordRow, Queue!queueVars
  <2> QED
    BY <2>1, <2>2
<1>8. TableStep
  BY TableSteps
<1> QED
  BY <1>0, <1>1, <1>2, <1>3, <1>4, <1>5, <1>6, <1>7, <1>8 DEF TableStep

\* With writers whose clocks agree, relays, leases and retries together are an
\* implementation of the queue that OutboxQueue promises.
THEOREM RelaysImplementQueue ==
  ASSUME ClocksAgree
  PROVE  Spec => ImplementsQueue
<1>1. Init => Queue!QInit
  BY DEF Init, Queue!QInit, Status
<1>2. OrderInv /\ TypeOK' /\ NotPendingAndDead' /\ [Next]_vars => [Queue!QNext]_Queue!queueVars
  BY QueueStep
<1>3. OrderInv => TypeOK /\ NotPendingAndDead
  BY DEF OrderInv, TableInv
<1> QED
  BY <1>1, <1>2, <1>3, OrderInvariant, PTL DEF Spec, ImplementsQueue, Queue!QSpec

-----------------------------------------------------------------------------
(* What timely fences buy: a process then owns only buckets the lease      *)
(* table confirms, and a batch that is not cancelled holds only rows that  *)
(* still wait.                                                             *)

\* What a process owns or is about to own, the lease table confirms.
LeaseConfirmed ==
  \A r \in Relay : \A b \in owned[r] \cup answer[r].buckets : Held(r, b)

LEMMA LockKeeps ==
  ASSUME TypeOK, NEW r \in Relay, Lock(r), NEW q \in Relay, NEW b \in Bucket, Held(q, b)
  PROVE  Held(q, b)'
BY DEF Lock, Claimable, Held, TypeOK

LEMMA LockTakes ==
  ASSUME TypeOK, NEW r \in Relay, Lock(r), NEW b \in Claimable(r)
  PROVE  Held(r, b)'
BY DEF Lock, Claimable, Held, TypeOK

LEMMA LeaseConfirmedStep ==
  ASSUME Timely, TypeOK, LeaseConfirmed, [Next]_vars
  PROVE  LeaseConfirmed'
<1> SUFFICES ASSUME NEW q \in Relay, NEW b \in owned'[q] \cup answer'[q].buckets
             PROVE  Held(q, b)'
  BY DEF LeaseConfirmed
<1>1. CASE UNCHANGED <<lease, owned, answer>>
  BY <1>1 DEF LeaseConfirmed, Held
<1>2. CASE UNCHANGED vars \/ WriterStep \/ \E r \in Relay, c \in Bucket : BucketStep(r, c)
  BY <1>1, <1>2 DEF vars, WriterStep, EnqueueTx, CommitTx, ReplayDeadLetter, relayVars,
       BucketStep, StartBucket, ReadBatch, CheckLease, PublishSucceeds, PublishFails,
       DeleteEvent, RecordPublishFailure, StoreFails, Abandon, BackoffElapses
<1>3. ASSUME NEW c \in Bucket, Lapse(c) PROVE Held(q, b)'
  <2>1. Held(q, b) /\ b \in owned[q] \cup answer[q].buckets /\ b \in Bucket
    BY <1>3 DEF Lapse, relayVars, LeaseConfirmed, TypeOK
  <2>2. c # b
    BY <1>3, <2>1 DEF Lapse, Held
  <2> QED
    BY <1>3, <2>1, <2>2 DEF Lapse, Held, TypeOK
<1>4. ASSUME NEW r \in Relay, RelayStep(r) PROVE Held(q, b)'
  <2>1. CASE ClaimBuckets(r)
    <3>1. Lock(r) /\ owned' = owned
          /\ answer' = [answer EXCEPT ![r] = [ready |-> TRUE, buckets |-> Claimable(r)]]
      BY <2>1 DEF ClaimBuckets
    <3>2. CASE q = r /\ b \in Claimable(r)
      BY <3>1, <3>2, LockTakes
    <3>3. CASE b \in owned[q] \cup answer[q].buckets
      <4>1. Held(q, b) /\ b \in Bucket
        BY <3>3 DEF LeaseConfirmed, TypeOK
      <4> QED
        BY <3>1, <4>1, LockKeeps
    <3> QED
      BY <3>1, <3>2, <3>3 DEF TypeOK
  <2>2. CASE ClaimFails(r)
    <3>1. Held(q, b) /\ b \in Bucket
      BY <2>2 DEF ClaimFails, relayVars, LeaseConfirmed, TypeOK
    <3> QED
      BY <2>2, <3>1, LockKeeps DEF ClaimFails
  <2>3. CASE ApplyClaim(r)
    <3>1. /\ lease' = lease
          /\ owned' = [owned EXCEPT ![r] = answer[r].buckets]
          /\ answer' = [answer EXCEPT ![r] = NoAnswer]
      BY <2>3 DEF ApplyClaim
    <3>2. b \in owned[q] \cup answer[q].buckets
      BY <3>1 DEF NoAnswer, TypeOK
    <3> QED
      BY <3>1, <3>2 DEF LeaseConfirmed, Held
  <2>4. CASE Fence(r) \/ Crash(r) \/ Stop(r) \/ Drain(r)
    <3>1. /\ lease' = lease
          /\ owned' = owned \/ owned' = [owned EXCEPT ![r] = {}]
          /\ answer' = answer \/ answer' = [answer EXCEPT ![r] = NoAnswer]
      BY <2>4 DEF Fence, Crash, Stop, Drain, relayVars
    <3>2. owned'[q] \subseteq owned[q]
      BY <3>1 DEF TypeOK
    <3>3. answer'[q].buckets \subseteq answer[q].buckets
      <4>1. answer \in [Relay -> [ready : BOOLEAN, buckets : SUBSET Bucket]]
        BY DEF TypeOK
      <4>2. answer'[q] = answer[q] \/ answer'[q] = NoAnswer
        BY <3>1, <4>1
      <4> QED
        BY <4>2 DEF NoAnswer
    <3> QED
      BY <3>1, <3>2, <3>3 DEF LeaseConfirmed, Held
  <2> QED
    BY <1>4, <2>1, <2>2, <2>3, <2>4 DEF RelayStep
<1> QED
  BY <1>2, <1>3, <1>4 DEF Next

LEMMA LeaseConfirmedAlways ==
  ASSUME Timely
  PROVE  Spec => []LeaseConfirmed
<1>1. Init => LeaseConfirmed
  BY DEF Init, LeaseConfirmed, NoAnswer
<1>2. TypeOK /\ LeaseConfirmed /\ [Next]_vars => LeaseConfirmed'
  BY LeaseConfirmedStep
<1> QED
  BY <1>1, <1>2, TypeCorrect, PTL DEF Spec

\* With timely fences the lease table confirms every bucket a process owns, so
\* that no two processes own one.
THEOREM OneOwner == Spec => []SingleOwner
<1>1. CASE Timely
  <2>1. LeaseConfirmed => SingleOwner
    BY DEF LeaseConfirmed, SingleOwner
  <2> QED
    BY <1>1, <2>1, LeaseConfirmedAlways, PTL
<1>2. CASE ~Timely
  <2>1. SingleOwner
    BY <1>2 DEF SingleOwner
  <2> QED
    BY <2>1, PTL
<1> QED
  BY <1>1, <1>2

-----------------------------------------------------------------------------
(* Batches that are not cancelled.                                         *)

Draining(r, b) == pc[r][b] \notin {"idle", "start"}

WorkerInv ==
  \A r \in Relay, b \in Bucket :
    /\ ~Draining(r, b) => batch[r][b] = {}
    /\ Draining(r, b) /\ b \notin cancelled[r] => b \in owned[r]

LEMMA CancelAll ==
  ASSUME TypeOK, NEW r \in Relay, CancelLease(r), UNCHANGED <<pc, batch>>,
         owned' \in [Relay -> SUBSET Bucket], \A q \in Relay \ {r} : owned'[q] = owned[q],
         WorkerInv
  PROVE  WorkerInv'
<1> SUFFICES ASSUME NEW q \in Relay, NEW b \in Bucket
             PROVE  /\ ~Draining(q, b)' => batch'[q][b] = {}
                    /\ Draining(q, b)' /\ b \notin cancelled'[q] => b \in owned'[q]
  BY DEF WorkerInv
<1>1. CASE q = r
  <2>1. cancelled'[q] = Running(r)
    BY <1>1 DEF CancelLease, TypeOK
  <2> QED
    BY <1>1, <2>1 DEF WorkerInv, Draining, Running
<1>2. CASE q # r
  <2>1. cancelled'[q] = cancelled[q]
    BY <1>2 DEF CancelLease, TypeOK
  <2> QED
    BY <1>2, <2>1 DEF WorkerInv, Draining
<1> QED
  BY <1>1, <1>2

LEMMA RelayWorkerStep ==
  ASSUME TypeOK, TypeOK', WorkerInv, NEW r \in Relay, RelayStep(r)
  PROVE  WorkerInv'
<1>1. CASE UNCHANGED <<pc, batch, cancelled, owned>>
  BY <1>1 DEF WorkerInv, Draining
<1>2. CASE ClaimBuckets(r) \/ ClaimFails(r)
  BY <1>1, <1>2 DEF ClaimBuckets, ClaimFails, workerVars, relayVars
<1>3. CASE ApplyClaim(r)
  <2>1. UNCHANGED <<pc, batch>> /\ owned' = [owned EXCEPT ![r] = answer[r].buckets]
    BY <1>3 DEF ApplyClaim
  <2>2. \A q \in Relay \ {r} : owned'[q] = owned[q]
    BY <2>1 DEF TypeOK
  <2>3. CASE CancelLease(r)
    BY <2>1, <2>2, <2>3, CancelAll DEF TypeOK
  <2>4. CASE ~CancelLease(r)
    <3>1. cancelled' = cancelled /\ answer[r].buckets = owned[r]
      BY <1>3, <2>4 DEF ApplyClaim
    <3>2. owned' = owned
      BY <2>1, <3>1 DEF TypeOK
    <3> QED
      BY <1>1, <2>1, <3>1, <3>2
  <2> QED
    BY <2>3, <2>4
<1>4. CASE Fence(r) \/ Stop(r)
  <2>1. UNCHANGED <<pc, batch>> /\ CancelLease(r) /\ owned' = [owned EXCEPT ![r] = {}]
    BY <1>4 DEF Fence, Stop
  <2>2. \A q \in Relay \ {r} : owned'[q] = owned[q]
    BY <2>1 DEF TypeOK
  <2> QED
    BY <2>1, <2>2, CancelAll DEF TypeOK
<1>5. CASE Drain(r)
  <2>1. /\ UNCHANGED <<batch, cancelled, owned>>
        /\ \A b \in Bucket : pc[r][b] = "idle"
        /\ pc' = [pc EXCEPT ![r] = [b \in Bucket |-> IF b \in owned[r] THEN "start" ELSE "idle"]]
    BY <1>5 DEF Drain, relayVars
  <2>2. \A q \in Relay, b \in Bucket :
          pc'[q][b] = pc[q][b] \/ (~Draining(q, b) /\ pc'[q][b] \in {"idle", "start"})
    BY <2>1 DEF Draining, TypeOK
  <2> QED
    BY <2>1, <2>2 DEF WorkerInv, Draining
<1>6. CASE Crash(r)
  <2>1. /\ owned' = [owned EXCEPT ![r] = {}]
        /\ pc' = [pc EXCEPT ![r] = [b \in Bucket |-> "idle"]]
        /\ batch' = [batch EXCEPT ![r] = [b \in Bucket |-> {}]]
        /\ cancelled' = [cancelled EXCEPT ![r] = {}]
    BY <1>6 DEF Crash
  <2> SUFFICES ASSUME NEW q \in Relay, NEW b \in Bucket
               PROVE  /\ ~Draining(q, b)' => batch'[q][b] = {}
                      /\ Draining(q, b)' /\ b \notin cancelled'[q] => b \in owned'[q]
    BY DEF WorkerInv
  <2>2. CASE q = r
    BY <2>1, <2>2 DEF Draining, TypeOK
  <2>3. CASE q # r
    BY <2>1, <2>3 DEF Draining, WorkerInv, TypeOK
  <2> QED
    BY <2>2, <2>3
<1> QED
  BY <1>2, <1>3, <1>4, <1>5, <1>6 DEF RelayStep

\* The drain of a bucket is a matter of that bucket and its relay.
LEMMA BucketWorkerStep ==
  ASSUME TypeOK, TypeOK', WorkerInv, NEW r \in Relay, NEW b \in Bucket, BucketStep(r, b)
  PROVE  WorkerInv'
<1> SUFFICES ASSUME NEW q \in Relay, NEW c \in Bucket
             PROVE  /\ ~Draining(q, c)' => batch'[q][c] = {}
                    /\ Draining(q, c)' /\ c \notin cancelled'[q] => c \in owned'[q]
  BY DEF WorkerInv
<1>0. owned' = owned
  BY DEF BucketStep, StartBucket, ReadBatch, CheckLease, PublishSucceeds, PublishFails,
     DeleteEvent, RecordPublishFailure, StoreFails, Abandon, BackoffElapses, relayVars
<1>1. CASE ClearRetry(r, b) \/ DeferBucket(r, b) \/ NoRetryChange(r, b)
  <2>1. /\ pc' = [pc EXCEPT ![r][b] = "idle"]
        /\ batch' = [batch EXCEPT ![r][b] = {}]
        /\ cancelled' = [cancelled EXCEPT ![r] = cancelled[r] \ {b}]
    BY <1>1 DEF ClearRetry, DeferBucket, NoRetryChange, Return, Goto
  <2>2. CASE q = r /\ c = b
    BY <2>1, <2>2 DEF Draining, TypeOK
  <2>3. CASE ~(q = r /\ c = b)
    <3>1. pc'[q][c] = pc[q][c] /\ batch'[q][c] = batch[q][c]
      BY <2>1, <2>3 DEF TypeOK
    <3>2. c \in cancelled[q] => c \in cancelled'[q]
      BY <2>1, <2>3 DEF TypeOK
    <3> QED
      BY <1>0, <3>1, <3>2 DEF Draining, WorkerInv
  <2> QED
    BY <2>2, <2>3
<1>2. CASE BackoffElapses(r, b)
  BY <1>2, <1>0 DEF BackoffElapses, Draining, WorkerInv
<1>3. CASE ~BackoffElapses(r, b) /\ ~(ClearRetry(r, b) \/ DeferBucket(r, b) \/ NoRetryChange(r, b))
  <2>1. cancelled' = cancelled
    BY <1>3 DEF BucketStep, StartBucket, ReadBatch, CheckLease, PublishSucceeds, PublishFails,
       DeleteEvent, RecordPublishFailure, StoreFails, Abandon
  <2>2. \E to : Goto(r, b, to)
    BY <1>3 DEF BucketStep, StartBucket, ReadBatch, CheckLease, PublishSucceeds, PublishFails,
       DeleteEvent, RecordPublishFailure, StoreFails, Abandon
  <2>3. batch' = batch \/ \E S : batch' = [batch EXCEPT ![r][b] = S]
    BY <1>3 DEF BucketStep, StartBucket, ReadBatch, CheckLease, PublishSucceeds, PublishFails,
       DeleteEvent, RecordPublishFailure, StoreFails, Abandon
  <2>4. CASE q = r /\ c = b
    <3>1. CASE StartBucket(r, b)
      BY <1>0, <2>4, <3>1 DEF StartBucket, Goto, Draining, WorkerInv, TypeOK
    <3>2. CASE ~StartBucket(r, b)
      <4>1. Draining(r, b) /\ pc'[r][b] \notin {"idle", "start"}
        BY <1>3, <3>2 DEF BucketStep, ReadBatch, CheckLease, PublishSucceeds, PublishFails,
           DeleteEvent, RecordPublishFailure, StoreFails, Abandon, At, Goto, Draining, TypeOK
      <4> QED
        BY <1>0, <2>1, <2>4, <4>1 DEF Draining, WorkerInv
    <3> QED
      BY <3>1, <3>2
  <2>5. CASE ~(q = r /\ c = b)
    <3>1. pc'[q][c] = pc[q][c] /\ batch'[q][c] = batch[q][c]
      BY <2>2, <2>3, <2>5 DEF Goto, TypeOK
    <3> QED
      BY <1>0, <2>1, <3>1 DEF Draining, WorkerInv
  <2> QED
    BY <2>4, <2>5
<1> QED
  BY <1>1, <1>2, <1>3

LEMMA WorkerInvAlways == Spec => []WorkerInv
<1>1. Init => WorkerInv
  BY DEF Init, WorkerInv, Draining
<1>2. TypeOK /\ TypeOK' /\ WorkerInv /\ [Next]_vars => WorkerInv'
  <2> SUFFICES ASSUME TypeOK, TypeOK', WorkerInv, [Next]_vars PROVE WorkerInv'
    OBVIOUS
  <2>1. CASE UNCHANGED <<pc, batch, cancelled, owned>>
    BY <2>1 DEF WorkerInv, Draining
  <2>2. CASE UNCHANGED vars \/ WriterStep \/ \E b \in Bucket : Lapse(b)
    BY <2>1, <2>2 DEF vars, WriterStep, EnqueueTx, CommitTx, ReplayDeadLetter, Lapse,
       relayVars, workerVars
  <2> QED
    BY <2>2, RelayWorkerStep, BucketWorkerStep DEF Next
<1> QED
  BY <1>1, <1>2, TypeCorrect, PTL DEF Spec

\* A cancelled batch stays cancelled until it is forgotten.
LEMMA CancelledStays ==
  ASSUME TypeOK, TypeOK', [Next]_vars, WorkerInv, NEW r \in Relay, NEW b \in Bucket,
         b \in cancelled[r], batch'[r][b] # {}
  PROVE  b \in cancelled'[r] \/ batch[r][b] = {}
<1>1. CASE cancelled' = cancelled
  BY <1>1
<1>2. CASE UNCHANGED vars \/ WriterStep \/ \E c \in Bucket : Lapse(c)
  BY <1>1, <1>2 DEF vars, WriterStep, EnqueueTx, CommitTx, ReplayDeadLetter, Lapse, workerVars
<1>3. ASSUME NEW q \in Relay, RelayStep(q) PROVE b \in cancelled'[r] \/ batch[r][b] = {}
  <2>1. CASE CancelLease(q)
    <3>1. cancelled'[r] = cancelled[r] \/ (q = r /\ cancelled'[r] = Running(r))
      BY <2>1 DEF CancelLease, TypeOK
    <3> QED
      BY <3>1 DEF Running, WorkerInv, Draining
  <2>2. CASE Crash(q)
    BY <2>2 DEF Crash, TypeOK
  <2> QED
    BY <1>1, <1>3, <2>1, <2>2 DEF RelayStep, ClaimBuckets, ClaimFails, ApplyClaim, Fence,
       Drain, Stop, workerVars
<1>4. ASSUME NEW q \in Relay, NEW c \in Bucket, BucketStep(q, c)
      PROVE  b \in cancelled'[r] \/ batch[r][b] = {}
  <2>1. CASE ClearRetry(q, c) \/ DeferBucket(q, c) \/ NoRetryChange(q, c)
    <3>1. /\ batch' = [batch EXCEPT ![q][c] = {}]
          /\ cancelled' = [cancelled EXCEPT ![q] = cancelled[q] \ {c}]
      BY <2>1 DEF ClearRetry, DeferBucket, NoRetryChange, Return
    <3>2. ~(q = r /\ c = b)
      BY <3>1 DEF TypeOK
    <3> QED
      BY <3>1, <3>2 DEF TypeOK
  <2> QED
    BY <1>1, <1>4, <2>1 DEF BucketStep, StartBucket, ReadBatch, CheckLease, PublishSucceeds,
       PublishFails, DeleteEvent, RecordPublishFailure, StoreFails, Abandon, BackoffElapses
<1> QED
  BY <1>2, <1>3, <1>4 DEF Next

BatchesFresh ==
  \A r \in Relay, b \in Bucket : b \notin cancelled[r] => batch[r][b] \subseteq pending

FreshInv == OwnBatches /\ LeaseConfirmed /\ WorkerInv /\ BatchesFresh

\* A row that leaves while a live batch holds it was finished by that batch.
LEMMA FinishedByOwner ==
  ASSUME TypeOK, TypeOK', FreshInv, [Next]_vars, NEW r \in Relay, NEW b \in Bucket,
         b \notin cancelled[r], NEW e \in batch[r][b], e \in pending \ pending'
  PROVE  e \notin batch'[r][b]
<1> USE DEF FreshInv
<1>1. e \in Event /\ bucketOf[e] = b /\ Held(r, b)
  BY DEF TypeOK, OwnBatches, WorkerInv, LeaseConfirmed
<1>2. PICK q \in Relay, c \in Bucket :
        /\ BucketStep(q, c) /\ e \in batch[q][c]
        /\ \/ pc[q][c] = "delete" /\ RemoveRow(q, c, e)
           \/ pc[q][c] = "record" /\ RecordRow(q, c, e)
  BY <1>1, RowTouchedBy DEF RowTouched
<1>3. c = b /\ q = r
  BY <1>1, <1>2 DEF OwnBatches, RemoveRow, RecordRow, Held
<1>4. CASE ClearRetry(r, b) \/ DeferBucket(r, b) \/ NoRetryChange(r, b)
  BY <1>4 DEF ClearRetry, DeferBucket, NoRetryChange, Return, TypeOK
<1>5. CASE DeleteEvent(r, b) /\ ~(ClearRetry(r, b) \/ DeferBucket(r, b))
  <2>1. PICK d \in batch[r][b] :
          RemoveRow(r, b, d) /\ batch' = [batch EXCEPT ![r][b] = batch[r][b] \ {d}]
    BY <1>5 DEF DeleteEvent
  <2>2. d = e
    BY <2>1 DEF RemoveRow
  <2> QED
    BY <2>1, <2>2 DEF TypeOK
<1>6. ~UNCHANGED tableVars
  BY DEF tableVars
<1> QED
  BY <1>2, <1>3, <1>4, <1>5, <1>6 DEF BucketStep, StartBucket, ReadBatch, CheckLease,
     PublishSucceeds, PublishFails, RecordPublishFailure, StoreFails, Abandon, BackoffElapses

LEMMA BatchesFreshStep ==
  ASSUME TypeOK, TypeOK', FreshInv, [Next]_vars
  PROVE  BatchesFresh'
<1> USE DEF FreshInv
<1> SUFFICES ASSUME NEW r \in Relay, NEW b \in Bucket, b \notin cancelled'[r],
                    NEW e \in batch'[r][b]
             PROVE  e \in pending'
  BY DEF BatchesFresh
<1>1. BatchStep(r, b)
  BY BatchSteps
<1>2. CASE IsBatch(b, batch'[r][b]) /\ UNCHANGED tableVars
  BY <1>2 DEF IsBatch, Rows, tableVars
<1>3. CASE e \in batch[r][b]
  <2>1. b \notin cancelled[r] /\ e \in pending
    BY <1>3, CancelledStays DEF BatchesFresh
  <2> QED
    BY <1>3, <2>1, FinishedByOwner
<1> QED
  BY <1>1, <1>2, <1>3 DEF BatchStep

\* With timely fences a relay publishes, under a context that is not cancelled,
\* only rows that still wait.
THEOREM FreshBatches == Spec => []FreshBatch
<1>1. CASE Timely
  <2>1. Init => BatchesFresh
    BY DEF Init, BatchesFresh
  <2>2. TypeOK /\ TypeOK' /\ FreshInv /\ [Next]_vars => BatchesFresh'
    BY BatchesFreshStep
  <2>3. BatchesFresh => FreshBatch
    BY DEF BatchesFresh, FreshBatch, At
  <2> QED
    BY <1>1, <2>1, <2>2, <2>3, TypeCorrect, OwnBatchesAlways, LeaseConfirmedAlways,
       WorkerInvAlways, PTL DEF Spec, FreshInv
<1>2. CASE ~Timely
  <2>1. FreshBatch
    BY <1>2 DEF FreshBatch
  <2> QED
    BY <2>1, PTL
<1> QED
  BY <1>1, <1>2
=============================================================================
