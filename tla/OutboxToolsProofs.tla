------------------------- MODULE OutboxToolsProofs -------------------------
(***************************************************************************)
(* Proofs about RelayObserver and OutboxOperator, for any buckets, queue   *)
(* and number of observations, any keys and page sizes.                    *)
(***************************************************************************)
EXTENDS RelayObserver, OutboxOperator, FiniteSetTheorems, SequenceTheorems, TLAPS

-----------------------------------------------------------------------------
(* Observations.                                                           *)
(*                                                                         *)
(* The argument: an observation stands in one place at a time, so that the *)
(* counts, the queue, the worker and the senders make up all that were     *)
(* made; and along that way, from the newest whose callback has begun to   *)
(* the one that is being sent, those of a bucket are in order.             *)

Counts == [delivered : Nat, panics : Nat, dropped : Nat]

Types ==
  /\ queue \in Seq(Observation) /\ Len(queue) <= QueueSize
  /\ worker \in [phase : {"selecting", "calling", "stopped"}, events : SUBSET Observation]
  /\ sending \subseteq draining /\ draining \subseteq DrainBucket
  /\ observedUpTo \in [DrainBucket -> 0..MaxObserved]
  /\ counts \in Counts
  /\ newest \in [DrainBucket -> 0..MaxObserved]

\* The worker holds the one event whose callback runs.
OneAtATime ==
  IF worker.phase = "calling" THEN \E e \in Observation : worker.events = {e}
  ELSE worker.events = {}

\* All observations that were made.
Made == {e \in Observation : e.number <= observedUpTo[e.bucket]}

\* Those of them that are on their way or were counted.
Accounted == Len(queue) + Cardinality(worker.events) + Cardinality(sending)
             + counts.delivered + counts.panics + counts.dropped

AllAccounted == IsFiniteSet(Made) /\ Cardinality(Made) = Accounted

\* An observation of a bucket comes after n.
After(e, b, n) == e.bucket = b => n < e.number

\* For each bucket: what the callback saw, what it sees, what waits and what is sent
\* are in the order they were made in.
InOrder ==
  \A b \in DrainBucket :
    /\ newest[b] <= observedUpTo[b]
    /\ b \in sending => newest[b] < observedUpTo[b]
    /\ \A e \in worker.events :
         /\ After(e, b, newest[b])
         /\ e.bucket = b => /\ e.number <= observedUpTo[b]
                            /\ b \in sending => e.number < observedUpTo[b]
    /\ \A i \in DOMAIN queue :
         /\ After(queue[i], b, newest[b])
         /\ \A e \in worker.events : e.bucket = b => After(queue[i], b, e.number)
         /\ \A k \in 1..(i - 1) : queue[k].bucket = b => After(queue[i], b, queue[k].number)
         /\ queue[i].bucket = b => /\ queue[i].number <= observedUpTo[b]
                                   /\ b \in sending => queue[i].number < observedUpTo[b]

ObserverInv == Types /\ OneAtATime /\ AllAccounted /\ InOrder

-----------------------------------------------------------------------------
LEMMA ObservationTypes ==
  ASSUME NEW e \in Observation
  PROVE  e.bucket \in DrainBucket /\ e.number \in 1..MaxObserved /\ e.number \in Nat
         /\ e = [bucket |-> e.bucket, number |-> e.number]
BY ObserverAssumption DEF Observation

LEMMA SendersFinite ==
  ASSUME Types
  PROVE  IsFiniteSet(sending) /\ Cardinality(sending) \in Nat
BY ObserverAssumption, FS_Subset, FS_CardinalityType, sending \in SUBSET DrainBucket DEF Types

LEMMA EventsCounted ==
  ASSUME OneAtATime
  PROVE  Cardinality(worker.events) = IF worker.phase = "calling" THEN 1 ELSE 0
BY FS_EmptySet, FS_Singleton DEF OneAtATime

LEMMA Counting ==
  ASSUME NEW c \in Counts, NEW f \in {"delivered", "panics", "dropped"}
  PROVE  /\ [c EXCEPT ![f] = @ + 1] \in Counts
         /\ [c EXCEPT ![f] = @ + 1].delivered = c.delivered + (IF f = "delivered" THEN 1 ELSE 0)
         /\ [c EXCEPT ![f] = @ + 1].panics = c.panics + (IF f = "panics" THEN 1 ELSE 0)
         /\ [c EXCEPT ![f] = @ + 1].dropped = c.dropped + (IF f = "dropped" THEN 1 ELSE 0)
BY DEF Counts

\* What the account adds up.
LEMMA Numbers ==
  ASSUME Types, OneAtATime
  PROVE  /\ Len(queue) \in Nat /\ Cardinality(worker.events) \in Nat
         /\ Cardinality(sending) \in Nat
         /\ counts.delivered \in Nat /\ counts.panics \in Nat /\ counts.dropped \in Nat
<1>1. Cardinality(worker.events) \in Nat
  BY EventsCounted
<1>2. Len(queue) \in Nat
  BY DEF Types
<1>. QED  BY <1>1, <1>2, SendersFinite DEF Types, Counts

-----------------------------------------------------------------------------
LEMMA Initially == ObserverInit => ObserverInv
<1>. SUFFICES ASSUME ObserverInit PROVE ObserverInv
  OBVIOUS
<1>1. Types
  BY ObserverAssumption DEF ObserverInit, Types, Counts
<1>2. OneAtATime
  BY DEF ObserverInit, OneAtATime
<1>3. AllAccounted
  <2>1. Made = {}
    BY ObservationTypes DEF ObserverInit, Made
  <2>. QED  BY <2>1, FS_EmptySet DEF ObserverInit, AllAccounted, Accounted
<1>4. InOrder
  BY DEF ObserverInit, InOrder
<1>. QED  BY <1>1, <1>2, <1>3, <1>4 DEF ObserverInv

\* An observation is made: its bucket's sender holds it.
LEMMA ObserveKeeps ==
  ASSUME ObserverInv, NEW b \in DrainBucket, Observe(b)
  PROVE  ObserverInv'
<1>. USE DEF ObserverInv
<1>1. CASE closed
  BY <1>1 DEF Observe, Types, OneAtATime, AllAccounted, Made, Accounted, InOrder, After
<1>2. CASE ~closed
  <2>. DEFINE e == [bucket |-> b, number |-> observedUpTo[b] + 1]
  <2>1. /\ b \in draining /\ b \notin sending /\ sending' = sending \cup {b}
        /\ observedUpTo[b] \in Nat /\ observedUpTo[b] < MaxObserved
        /\ observedUpTo' = [observedUpTo EXCEPT ![b] = @ + 1]
        /\ UNCHANGED <<queue, worker, draining, counts, newest>>
    BY <1>2 DEF Observe, Types
  <2>2. Types'
    BY <2>1, ObserverAssumption DEF Types
  <2>3. OneAtATime'
    BY <2>1 DEF OneAtATime
  <2>4. e \in Observation /\ e \notin Made /\ Made' = Made \cup {e}
    <3>1. e \in Observation /\ e \notin Made
      BY <2>1, ObserverAssumption DEF Observation, Made
    <3>2. ASSUME NEW o \in Observation
          PROVE  o.number <= observedUpTo'[o.bucket]
                   <=> o.number <= observedUpTo[o.bucket] \/ o = e
      <4>1. CASE o.bucket = b
        BY <2>1, <4>1, ObservationTypes DEF Types
      <4>2. CASE o.bucket # b
        BY <2>1, <4>2, ObservationTypes DEF Types
      <4>. QED  BY <4>1, <4>2
    <3>. QED  BY <3>1, <3>2 DEF Made
  <2>5. AllAccounted'
    <3>1. IsFiniteSet(Made') /\ Cardinality(Made') = Cardinality(Made) + 1
      BY <2>4, FS_AddElement DEF AllAccounted
    <3>2. Cardinality(sending') = Cardinality(sending) + 1
      BY <2>1, SendersFinite, FS_AddElement
    <3>3. Accounted' = Accounted + 1
      BY <2>1, <3>2, Numbers DEF Accounted
    <3>. QED  BY <3>1, <3>3 DEF AllAccounted
  <2>6. InOrder'
    <3>1. \A o \in worker.events : o.number \in Nat
      BY ObservationTypes DEF Types
    <3>2. \A i \in DOMAIN queue : queue[i] \in Observation /\ queue[i].number \in Nat
      BY ObservationTypes DEF Types
    <3>3. \A c \in DrainBucket :
            /\ newest[c] \in Nat /\ observedUpTo[c] \in Nat
            /\ observedUpTo'[c] = IF c = b THEN observedUpTo[c] + 1 ELSE observedUpTo[c]
            /\ c \in sending' <=> c = b \/ c \in sending
      BY <2>1 DEF Types
    <3>. QED  BY <2>1, <3>1, <3>2, <3>3 DEF InOrder
  <2>. QED  BY <2>2, <2>3, <2>5, <2>6
<1>. QED  BY <1>1, <1>2

\* What is sent takes its place at the end of the queue, or is counted as dropped.
LEMMA EnqueueKeeps ==
  ASSUME ObserverInv, NEW b \in DrainBucket, Enqueue(b)
  PROVE  ObserverInv'
<1>. USE DEF ObserverInv
<1>. DEFINE e == [bucket |-> b, number |-> observedUpTo[b]]
<1>1. /\ b \in sending /\ sending' = sending \ {b}
      /\ UNCHANGED <<closed, worker, draining, observedUpTo, newest>>
  BY DEF Enqueue
<1>2. \A c \in DrainBucket : newest[c] \in Nat /\ observedUpTo[c] \in Nat
  BY DEF Types
<1>3. e \in Observation
  BY <1>1, <1>2 DEF InOrder, Types, Observation
<1>4. Cardinality(sending') = Cardinality(sending) - 1 /\ Cardinality(sending) \in Nat
  BY <1>1, SendersFinite, FS_RemoveElement
<1>5. OneAtATime' /\ Made' = Made
  BY <1>1 DEF OneAtATime, Made
<1>6. CASE Len(queue) < QueueSize
  <2>1. queue' = Append(queue, e) /\ counts' = counts
    BY <1>6 DEF Enqueue
  <2>2. Types' /\ Len(queue') = Len(queue) + 1
    BY <1>1, <1>3, <1>6, <2>1, ObserverAssumption DEF Types
  <2>3. AllAccounted'
    BY <1>1, <1>4, <1>5, <2>1, <2>2, Numbers DEF AllAccounted, Accounted
  <2>4. InOrder'
    <3>1. /\ DOMAIN queue' = 1..(Len(queue) + 1) /\ DOMAIN queue = 1..Len(queue)
          /\ Len(queue) \in Nat
          /\ queue'[Len(queue) + 1] = e
          /\ \A i \in DOMAIN queue : queue'[i] = queue[i]
      BY <1>3, <2>1 DEF Types
    <3>. SUFFICES ASSUME NEW c \in DrainBucket, NEW i \in DOMAIN queue'
                  PROVE  /\ After(queue'[i], c, newest[c])
                         /\ \A o \in worker.events : o.bucket = c => After(queue'[i], c, o.number)
                         /\ \A k \in 1..(i - 1) :
                              queue'[k].bucket = c => After(queue'[i], c, queue'[k].number)
                         /\ queue'[i].bucket = c =>
                              /\ queue'[i].number <= observedUpTo[c]
                              /\ c \in sending' => queue'[i].number < observedUpTo[c]
      BY <1>1 DEF InOrder
    <3>2. CASE i \in DOMAIN queue
      <4>1. \A k \in 1..(i - 1) : k \in DOMAIN queue
        BY <3>1, <3>2
      <4>. QED  BY <1>1, <3>1, <3>2, <4>1 DEF InOrder
    <3>3. CASE i = Len(queue) + 1
      <4>1. \A k \in 1..(i - 1) : k \in DOMAIN queue
        BY <3>1, <3>3
      <4>. QED  BY <1>1, <1>2, <3>1, <3>3, <4>1 DEF InOrder, After
    <3>. QED  BY <3>1, <3>2, <3>3
  <2>. QED  BY <1>5, <2>2, <2>3, <2>4
<1>7. CASE ~(Len(queue) < QueueSize)
  <2>1. queue' = queue /\ counts' = [counts EXCEPT !["dropped"] = @ + 1]
    BY <1>7 DEF Enqueue
  <2>2. /\ counts' \in Counts
        /\ counts'.delivered = counts.delivered /\ counts'.panics = counts.panics
        /\ counts'.dropped = counts.dropped + 1
    <3>1. counts \in Counts
      BY DEF Types
    <3>2. /\ counts' \in Counts
          /\ counts'.delivered = counts.delivered + (IF "dropped" = "delivered" THEN 1 ELSE 0)
          /\ counts'.panics = counts.panics + (IF "dropped" = "panics" THEN 1 ELSE 0)
          /\ counts'.dropped = counts.dropped + (IF "dropped" = "dropped" THEN 1 ELSE 0)
      BY <2>1, <3>1, Counting
    <3>. QED  BY <3>2, Numbers
  <2>3. Types'
    BY <1>1, <2>1, <2>2 DEF Types
  <2>5. AllAccounted'
    <3>1. Accounted' = Accounted
      <4>1. queue' = queue /\ worker' = worker
        BY <1>1, <2>1
      <4>2. /\ Len(queue') = Len(queue) /\ worker'.events = worker.events
            /\ Cardinality(sending') = Cardinality(sending) - 1 /\ Cardinality(sending) \in Nat
            /\ counts'.delivered = counts.delivered /\ counts'.panics = counts.panics
            /\ counts'.dropped = counts.dropped + 1 /\ counts.dropped \in Nat
        BY <1>4, <2>2, <4>1, Numbers
      <4>3. /\ Len(queue) \in Nat /\ Cardinality(worker.events) \in Nat
            /\ counts.delivered \in Nat /\ counts.panics \in Nat
        BY Numbers
      <4>. QED  BY <4>2, <4>3, SMTT(20) DEF Accounted
    <3>. QED  BY <1>5, <3>1 DEF AllAccounted
  <2>4. InOrder'
    BY <1>1, <2>1 DEF InOrder
  <2>. QED  BY <1>5, <2>3, <2>4, <2>5
<1>. QED  BY <1>6, <1>7

\* The first of the queue is with the worker.
LEMMA TakeKeeps ==
  ASSUME ObserverInv, Take
  PROVE  ObserverInv'
<1>. USE DEF ObserverInv
<1>1. /\ worker.phase = "selecting" /\ queue # <<>> /\ queue' = Tail(queue)
      /\ worker' = [phase |-> "calling", events |-> {queue[1]}]
      /\ UNCHANGED <<closed, draining, sending, observedUpTo, counts, newest>>
  BY DEF Take
<1>2. /\ queue[1] \in Observation /\ queue' \in Seq(Observation)
      /\ Len(queue') = Len(queue) - 1 /\ Len(queue) \in Nat /\ 1 \in DOMAIN queue
      /\ DOMAIN queue' = 1..(Len(queue) - 1) /\ DOMAIN queue = 1..Len(queue)
      /\ \A i \in DOMAIN queue' : i + 1 \in DOMAIN queue /\ queue'[i] = queue[i + 1]
  BY <1>1 DEF Types
<1>3. Types' /\ OneAtATime'
  BY <1>1, <1>2, ObserverAssumption DEF Types, OneAtATime
<1>4. AllAccounted'
  <2>1. Cardinality(worker.events) = 0 /\ Cardinality(worker'.events) = 1
    BY <1>1, EventsCounted, FS_Singleton
  <2>. QED  BY <1>1, <1>2, <2>1, SendersFinite DEF AllAccounted, Accounted, Made, Types
<1>5. InOrder'
  <2>1. \A c \in DrainBucket : /\ queue[1].bucket = c => queue[1].number <= observedUpTo[c]
                               /\ After(queue[1], c, newest[c])
                               /\ queue[1].bucket = c /\ c \in sending
                                    => queue[1].number < observedUpTo[c]
    BY <1>2 DEF InOrder
  <2>2. ASSUME NEW c \in DrainBucket, NEW i \in DOMAIN queue'
        PROVE  /\ After(queue'[i], c, newest[c])
               /\ queue[1].bucket = c => After(queue'[i], c, queue[1].number)
               /\ \A k \in 1..(i - 1) :
                    queue'[k].bucket = c => After(queue'[i], c, queue'[k].number)
               /\ queue'[i].bucket = c =>
                    /\ queue'[i].number <= observedUpTo[c]
                    /\ c \in sending => queue'[i].number < observedUpTo[c]
    <3>1. i + 1 \in DOMAIN queue /\ queue'[i] = queue[i + 1] /\ 1 \in 1..((i + 1) - 1)
      BY <1>2
    <3>2. \A k \in 1..(i - 1) : k + 1 \in 1..((i + 1) - 1) /\ queue'[k] = queue[k + 1]
      BY <1>2
    <3>. QED  BY <3>1, <3>2 DEF InOrder
  <2>. QED  BY <1>1, <2>1, <2>2 DEF InOrder
<1>. QED  BY <1>3, <1>4, <1>5

\* The callback has begun for the worker's event, and ends.
LEMMA DeliverKeeps ==
  ASSUME ObserverInv, NEW outcome \in {"delivered", "panics"}, DeliverObservation(outcome)
  PROVE  ObserverInv' /\ ObservedInOrder
<1>. USE DEF ObserverInv
<1>1. PICK e \in worker.events :
        /\ worker' = [phase |-> IF worker.events = {e} THEN "selecting" ELSE "calling",
                      events |-> worker.events \ {e}]
        /\ newest' = [newest EXCEPT ![e.bucket] = e.number]
  BY DEF DeliverObservation
<1>2. /\ worker.phase = "calling" /\ counts' = [counts EXCEPT ![outcome] = @ + 1]
      /\ UNCHANGED <<queue, closed, draining, sending, observedUpTo>>
  BY DEF DeliverObservation
<1>3. worker.events = {e} /\ e \in Observation
  BY <1>1, <1>2 DEF OneAtATime, Types
<1>4. worker' = [phase |-> "selecting", events |-> {}]
  BY <1>1, <1>3
<1>5. /\ e.bucket \in DrainBucket /\ e.number \in 1..MaxObserved
      /\ \A c \in DrainBucket : /\ newest[c] \in Nat /\ observedUpTo[c] \in Nat
                                /\ newest'[c] = IF c = e.bucket THEN e.number ELSE newest[c]
  BY <1>1, <1>3, ObservationTypes DEF Types
<1>6. /\ counts'.delivered + counts'.panics = counts.delivered + counts.panics + 1
      /\ counts'.dropped = counts.dropped
      /\ counts' \in Counts
  <2>1. counts \in Counts
    BY DEF Types
  <2>2. /\ counts' \in Counts
        /\ counts'.delivered = counts.delivered + (IF outcome = "delivered" THEN 1 ELSE 0)
        /\ counts'.panics = counts.panics + (IF outcome = "panics" THEN 1 ELSE 0)
        /\ counts'.dropped = counts.dropped + (IF outcome = "dropped" THEN 1 ELSE 0)
    BY <1>2, <2>1, Counting
  <2>. QED  BY <2>2, Numbers
<1>7. Types' /\ OneAtATime'
  BY <1>1, <1>2, <1>4, <1>5, <1>6 DEF Types, OneAtATime
<1>8. AllAccounted'
  <2>1. Cardinality(worker.events) = 1 /\ Cardinality(worker'.events) = 0
    BY <1>2, <1>4, EventsCounted, FS_EmptySet
  <2>. QED
    <3>1. Accounted' = Accounted
      BY <1>2, <1>6, <2>1, Numbers, SMTT(20) DEF Accounted
    <3>. QED  BY <1>2, <3>1 DEF AllAccounted, Made
<1>9. InOrder'
  <2>1. \A i \in DOMAIN queue, c \in DrainBucket : After(queue[i], c, newest'[c])
    BY <1>3, <1>5 DEF InOrder
  <2>. QED  BY <1>2, <1>3, <1>4, <1>5, <2>1 DEF InOrder
<1>10. ObservedInOrder
  <2>1. newest'[e.bucket] > newest[e.bucket]
    BY <1>3, <1>5 DEF InOrder, After
  <2>. QED  BY <1>5, <2>1 DEF ObservedInOrder
<1>. QED  BY <1>7, <1>8, <1>9, <1>10

-----------------------------------------------------------------------------
LEMMA Steps ==
  ASSUME ObserverInv, [ObserverNext]_observerVars
  PROVE  ObserverInv' /\ [ObservedInOrder]_observerVars
<1>. USE DEF ObserverInv
<1>1. ASSUME UNCHANGED <<counts, newest>> PROVE ObservedInOrder
  <2>1. \A c \in DrainBucket : newest[c] \in Nat
    BY DEF Types
  <2>. QED  BY <1>1, <2>1, Numbers DEF ObservedInOrder
<1>2. CASE \/ Drain \/ ObserverClose \/ WorkerStops
           \/ \E b \in DrainBucket : EndBucket(b)
           \/ UNCHANGED observerVars
  <2>1. UNCHANGED <<queue, sending, observedUpTo, counts, newest>>
    BY <1>2 DEF Drain, ObserverClose, WorkerStops, EndBucket, observerVars
  <2>2. sending \subseteq draining /\ draining \subseteq DrainBucket
    BY DEF Types
  <2>3. /\ sending \subseteq draining' /\ draining' \subseteq DrainBucket
        /\ \/ worker' = worker
           \/ worker.phase = "selecting" /\ worker' = [worker EXCEPT !.phase = "stopped"]
    <3>1. CASE WorkerStops
      BY <3>1, <2>2 DEF WorkerStops
    <3>2. CASE Drain
      BY <3>2, <2>2 DEF Drain
    <3>3. CASE ObserverClose \/ UNCHANGED observerVars
      BY <3>3, <2>2 DEF ObserverClose, observerVars
    <3>4. CASE \E b \in DrainBucket : EndBucket(b)
      BY <3>4, <2>2 DEF EndBucket
    <3>. QED  BY <1>2, <3>1, <3>2, <3>4, <3>3
  <2>4. Types' /\ OneAtATime' /\ worker'.events = worker.events
    BY <2>1, <2>3 DEF Types, OneAtATime
  <2>. QED
    BY <1>1, <2>1, <2>4 DEF AllAccounted, Accounted, Made, InOrder
<1>3. ASSUME NEW b \in DrainBucket, Observe(b) \/ Enqueue(b)
      PROVE  ObserverInv' /\ ObservedInOrder
  <2>1. ObserverInv'
    BY <1>3, ObserveKeeps, EnqueueKeeps
  <2>2. newest' = newest
    BY <1>3 DEF Observe, Enqueue
  <2>3. counts' = counts \/ counts' = [counts EXCEPT !["dropped"] = @ + 1]
    BY <1>3 DEF Observe, Enqueue
  <2>4. counts'.delivered = counts.delivered /\ counts'.panics = counts.panics
    <3>1. counts \in Counts
      BY DEF Types
    <3>2. CASE counts' = [counts EXCEPT !["dropped"] = @ + 1]
      <4>1. /\ counts'.delivered = counts.delivered + (IF "dropped" = "delivered" THEN 1 ELSE 0)
            /\ counts'.panics = counts.panics + (IF "dropped" = "panics" THEN 1 ELSE 0)
        BY <3>1, <3>2, Counting
      <4>. QED  BY <4>1, Numbers
    <3>. QED  BY <2>3, <3>2
  <2>5. \A c \in DrainBucket : newest[c] \in Nat
    BY DEF Types
  <2>. QED  BY <2>1, <2>2, <2>4, <2>5, Numbers DEF ObservedInOrder
<1>4. CASE Take
  BY <1>1, <1>4, TakeKeeps DEF Take
<1>. QED  BY <1>2, <1>3, <1>4, DeliverKeeps DEF ObserverNext

\* Every observation waits, is with the worker, or is counted, and the callback sees
\* those of a bucket in the order they were made, each at most once.
THEOREM KeepsObservations == ObserverSpec => ObservationsKept
<1>1. ObserverInv => ObserverTypeOK
  BY DEF ObserverInv, Types, AllAccounted, Accounted, Made, ObserverTypeOK
<1>2. ObserverInv /\ [ObserverNext]_observerVars
        => ObserverInv' /\ [ObservedInOrder]_observerVars
  BY Steps
<1>. QED  BY <1>1, <1>2, Initially, PTL DEF ObserverSpec, ObservationsKept

-----------------------------------------------------------------------------
(* The operator's calls.                                                   *)
(*                                                                         *)
(* The argument: a step moves one row, so that the account of its key      *)
(* tells what became of it; a walk has returned what stayed up to its      *)
(* cursor, and a page goes on from there; and what a report has counted is *)
(* what stayed, but for the rows that were touched.                        *)

Increasing(s) == \A i, j \in DOMAIN s : i < j => s[i] < s[j]

WalkSound(w, dead) ==
  /\ w \in WalkStates /\ Increasing(w.returned)
  /\ w.phase = "on" =>
       /\ w.stayed \subseteq dead
       /\ \A i \in DOMAIN w.returned : w.returned[i] <= w.after
       /\ \A k \in w.stayed : k <= w.after => k \in ToSet(w.returned)
  /\ w.phase = "done" => w.stayed \subseteq ToSet(w.returned)

\* The keys of the rows of one table.
Of(rows, table) == {k \in RowKey : <<k, table>> \in rows}

ReportSound(r, dead) ==
  /\ r \in ReportStates
  /\ r.phase = "half" =>
       /\ Cardinality(Of(r.still, "pending")) <= r.pending
       /\ r.pending <= Cardinality(Of(r.still, "pending")) + Cardinality(r.touched)
       /\ Of(r.still, "pending") \cap r.touched = {}
       /\ Of(r.still, "dead") = dead \ r.touched
  /\ r.phase = "done" =>
       /\ Cardinality(r.still) <= r.pending + r.dead
       /\ r.pending + r.dead <= Cardinality(r.still) + 2 * Cardinality(r.touched)

\* How many rows table has under k.
Has(table, k) == IF k \in table THEN 1 ELSE 0

TablesSound ==
  /\ waiting \subseteq RowKey /\ parked \subseteq RowKey /\ moves \in 0..MaxMoves
  /\ letters \subseteq RowKey /\ refused \subseteq RowKey
  /\ written \in [RowKey -> Nat] /\ released \in [RowKey -> Nat]
  /\ \A k \in RowKey : Has(waiting, k) + Has(parked, k) + released[k] <= written[k]
  /\ ReplayLosesNothing /\ NotFoundIsFinal

OperatorInv == TablesSound /\ WalkSound(walk, parked) /\ ReportSound(report, parked)

-----------------------------------------------------------------------------
(* Keys and their order. *)

LEMMA KeySets ==
  /\ IsFiniteSet(RowKey) /\ RowKey \subseteq Nat
  /\ \A S \in SUBSET RowKey : IsFiniteSet(S) /\ Cardinality(S) \in 0..MaxKey
<1>1. MaxKey \in Nat
  BY OperatorAssumption
<1>2. IsFiniteSet(RowKey) /\ Cardinality(RowKey) = MaxKey /\ RowKey \subseteq Nat
  BY <1>1, FS_Interval DEF RowKey
<1>3. ASSUME NEW S \in SUBSET RowKey PROVE IsFiniteSet(S) /\ Cardinality(S) \in 0..MaxKey
  <2>1. IsFiniteSet(S) /\ Cardinality(S) <= Cardinality(RowKey)
    BY <1>2, FS_Subset
  <2>2. Cardinality(S) \in Nat
    BY <2>1, FS_CardinalityType
  <2>. QED  BY <1>1, <1>2, <2>1, <2>2
<1>. QED  BY <1>2, <1>3

\* The row of a smaller key has the smaller rank, so that every rank is taken.
LEMMA Ranks ==
  ASSUME NEW S \in SUBSET RowKey
  PROVE  /\ \A k \in S : Rank(k, S) \in 1..Cardinality(S)
         /\ \A k, j \in S : k < j <=> Rank(k, S) < Rank(j, S)
         /\ \A i \in 1..Cardinality(S) : \E k \in S : Rank(k, S) = i
<1>1. /\ IsFiniteSet(S) /\ Cardinality(S) \in Nat /\ S \subseteq Nat
  BY KeySets
<1>. DEFINE upto(k) == {j \in S : j <= k}
<1>2. \A k : /\ upto(k) \in SUBSET S /\ IsFiniteSet(upto(k)) /\ Cardinality(upto(k)) \in Nat
             /\ Cardinality(upto(k)) <= Cardinality(S)
  BY <1>1, FS_Subset, FS_CardinalityType
<1>3. ASSUME NEW k \in S PROVE Rank(k, S) \in 1..Cardinality(S)
  <2>1. k \in upto(k)
    BY <1>1
  <2>2. Cardinality(upto(k)) # 0
    BY <1>2, <2>1, FS_EmptySet
  <2>. QED  BY <1>1, <1>2, <2>2 DEF Rank
<1>4. ASSUME NEW k \in S, NEW j \in S, k < j PROVE Rank(k, S) < Rank(j, S)
  <2>1. upto(k) \in SUBSET upto(j) /\ j \in upto(j) /\ j \notin upto(k)
    <3>1. j \in Nat /\ k \in Nat /\ j <= j /\ ~(j <= k) /\ \A x \in S : x <= k => x <= j
      <4>1. j \in Nat /\ k \in Nat /\ k < j
        BY <1>1, <1>4
      <4>2. \A x \in Nat : x <= k => x <= j
        BY <4>1
      <4>. QED  BY <1>1, <4>1, <4>2
    <3>. QED  BY <3>1
  <2>. HIDE DEF upto
  <2>2. Cardinality(upto(k)) <= Cardinality(upto(j)) /\ Cardinality(upto(k)) # Cardinality(upto(j))
    BY <1>2, <2>1, FS_Subset
  <2>3. Cardinality(upto(k)) < Cardinality(upto(j))
    BY <1>2, <2>2
  <2>. QED  BY <2>3 DEF Rank, upto
<1>5. \A k, j \in S : k < j <=> Rank(k, S) < Rank(j, S)
  BY <1>1, <1>3, <1>4
<1>. DEFINE rank == [k \in S |-> Rank(k, S)]
<1>6. rank \in Injection(S, 1..Cardinality(S))
  <2>1. rank \in [S -> 1..Cardinality(S)]
    BY <1>3
  <2>2. \A k, j \in S : rank[k] = rank[j] => k = j
    BY <1>1, <1>3, <1>4
  <2>. HIDE DEF rank
  <2>. QED  BY <2>1, <2>2 DEF Injection, IsInjective
<1>7. IsFiniteSet(1..Cardinality(S)) /\ Cardinality(1..Cardinality(S)) = Cardinality(S)
  BY <1>1, FS_Interval
<1>. HIDE DEF rank
<1>8. rank \in Surjection(S, 1..Cardinality(S))
  BY <1>6, <1>7, FS_Injection
<1>9. \A i \in 1..Cardinality(S) : \E k \in S : rank[k] = i
  BY <1>8 DEF Surjection
<1>10. \A k \in S : rank[k] = Rank(k, S)
  BY DEF rank
<1>. QED  BY <1>3, <1>5, <1>9, <1>10

LEMMA OrderedKeys ==
  ASSUME NEW S \in SUBSET RowKey
  PROVE  /\ Ordered(S) \in Seq(RowKey) /\ Len(Ordered(S)) = Cardinality(S)
         /\ Increasing(Ordered(S))
         /\ \A i \in DOMAIN Ordered(S) : Ordered(S)[i] \in S
         /\ \A k \in S : \E i \in DOMAIN Ordered(S) : Ordered(S)[i] = k
<1>1. Cardinality(S) \in Nat /\ S \subseteq Nat
  BY KeySets
<1>2. ASSUME NEW i \in 1..Cardinality(S)
      PROVE  Ordered(S)[i] \in S /\ Rank(Ordered(S)[i], S) = i
  <2>1. Ordered(S)[i] = CHOOSE k \in S : Rank(k, S) = i
    BY DEF Ordered
  <2>2. \E k \in S : Rank(k, S) = i
    BY Ranks
  <2>. QED  BY <2>1, <2>2
<1>3. Ordered(S) = [i \in 1..Cardinality(S) |-> Ordered(S)[i]]
  BY DEF Ordered
<1>4. Ordered(S) \in Seq(RowKey) /\ Len(Ordered(S)) = Cardinality(S)
      /\ DOMAIN Ordered(S) = 1..Cardinality(S)
  BY <1>1, <1>2, <1>3
<1>5. Increasing(Ordered(S))
  BY <1>2, <1>4, Ranks DEF Increasing
<1>6. ASSUME NEW k \in S PROVE \E i \in DOMAIN Ordered(S) : Ordered(S)[i] = k
  <2>1. PICK i \in 1..Cardinality(S) : i = Rank(k, S)
    BY Ranks
  <2>2. Ordered(S)[i] \in S /\ Rank(Ordered(S)[i], S) = i
    BY <1>2
  <2>3. PICK x \in S : x = Ordered(S)[i]
    BY <2>2
  <2>4. Rank(x, S) = Rank(k, S) /\ Rank(k, S) \in Nat /\ x \in Nat /\ k \in Nat
    BY <1>1, <2>1, <2>2, <2>3
  <2>5. (x < k <=> Rank(x, S) < Rank(k, S)) /\ (k < x <=> Rank(k, S) < Rank(x, S))
    BY Ranks
  <2>6. x = k
    BY <2>4, <2>5
  <2>. QED  BY <1>4, <2>3, <2>6
<1>. QED  BY <1>2, <1>4, <1>5, <1>6

\* A page: what is parked after the cursor, up to the next one.
LEMMA Paged ==
  ASSUME NEW after \in 0..MaxKey, NEW limit \in 0..MaxPage + 1, parked \subseteq RowKey
  PROVE  LET page == Page(after, limit) IN
         /\ page.items \in Seq(RowKey) /\ Increasing(page.items) /\ page.next \in 0..MaxKey
         /\ \A i \in DOMAIN page.items : page.items[i] > after
         /\ page.next # 0 => \A i \in DOMAIN page.items : page.items[i] <= page.next
         /\ page.next # 0 => page.next > after
         /\ \A k \in parked : k > after /\ (page.next # 0 => k <= page.next)
              => \E i \in DOMAIN page.items : page.items[i] = k
<1>1. PICK S \in SUBSET RowKey : S = {k \in parked : k > after}
  OBVIOUS
<1>2. PICK all : all = Ordered(S)
  OBVIOUS
<1>3. /\ all \in Seq(RowKey) /\ Len(all) \in Nat /\ DOMAIN all = 1..Len(all)
      /\ Increasing(all)
      /\ \A i \in DOMAIN all : all[i] \in S /\ all[i] \in Nat
      /\ \A k \in S : \E i \in DOMAIN all : all[i] = k
  <2>1. /\ all \in Seq(RowKey) /\ Increasing(all)
        /\ \A i \in DOMAIN all : all[i] \in S
        /\ \A k \in S : \E i \in DOMAIN all : all[i] = k
    BY <1>2, OrderedKeys
  <2>2. Len(all) \in Nat /\ DOMAIN all = 1..Len(all)
    BY <2>1
  <2>. QED  BY <2>1, <2>2, KeySets
<1>4. PICK size \in Nat \ {0} : size = PageSize(limit)
  BY OperatorAssumption DEF PageSize
<1>. DEFINE rows == SubSeq(all, 1, IF Len(all) < size + 1 THEN Len(all) ELSE size + 1)
            items == IF Len(rows) > size THEN SubSeq(rows, 1, size) ELSE rows
            next == IF Len(rows) > size THEN rows[size] ELSE 0
<1>5. Page(after, limit) = [items |-> items, next |-> next]
  BY <1>1, <1>2, <1>4 DEF Page, Select
<1>6. CASE Len(all) <= size
  <2>1. rows = all /\ items = all /\ next = 0
    <3>1. rows = SubSeq(all, 1, Len(all))
      BY <1>3, <1>4, <1>6
    <3>2. SubSeq(all, 1, Len(all)) = all
      BY <1>3
    <3>. QED  BY <1>3, <1>4, <1>6, <3>1, <3>2
  <2>. HIDE DEF rows, items, next
  <2>2. /\ \A i \in DOMAIN all : all[i] > after
        /\ 0 \in 0..MaxKey
        /\ \A k \in parked : k > after => \E i \in DOMAIN all : all[i] = k
    BY <1>1, <1>3, OperatorAssumption
  <2>. QED  BY <1>3, <1>5, <2>1, <2>2
<1>7. CASE Len(all) > size
  <2>1. /\ rows \in Seq(RowKey) /\ Len(rows) = size + 1
        /\ \A i \in 1..size + 1 : rows[i] = all[i]
    <3>1. size + 1 <= Len(all) /\ size + 1 \in Nat
      BY <1>3, <1>4, <1>7
    <3>2. rows = SubSeq(all, 1, size + 1)
      BY <1>3, <1>4, <3>1
    <3>. QED  BY <1>3, <3>1, <3>2
  <2>. HIDE DEF rows
  <2>2. /\ items \in Seq(RowKey) /\ Len(items) = size /\ DOMAIN items = 1..size
        /\ \A i \in 1..size : items[i] = all[i] /\ i \in DOMAIN all
        /\ next = all[size] /\ size \in DOMAIN all
    <3>1. items = SubSeq(rows, 1, size) /\ next = rows[size]
      BY <1>4, <2>1
    <3>2. /\ items \in Seq(RowKey) /\ Len(items) = size /\ DOMAIN items = 1..size
          /\ \A i \in 1..size : items[i] = rows[i]
      BY <1>4, <2>1, <3>1
    <3>. QED  BY <1>3, <1>4, <1>7, <2>1, <3>1, <3>2
  <2>. HIDE DEF items, next
  <2>3. \A i \in DOMAIN all : all[i] <= next <=> i <= size
    BY <1>3, <1>4, <2>2 DEF Increasing
  <2>4. Increasing(items) /\ \A i \in DOMAIN items : items[i] > after /\ items[i] <= next
    BY <1>1, <1>3, <2>2, <2>3 DEF Increasing
  <2>5. next \in 0..MaxKey /\ next > after
    BY <1>1, <1>3, <2>2, OperatorAssumption DEF RowKey
  <2>6. ASSUME NEW k \in parked, k > after, k <= next
        PROVE  \E i \in DOMAIN items : items[i] = k
    <3>1. PICK i \in DOMAIN all : all[i] = k
      BY <1>1, <1>3, <2>6
    <3>2. i \in 1..size
      BY <1>3, <2>3, <2>6, <3>1
    <3>. QED  BY <2>2, <3>1, <3>2
  <2>7. next # 0
    BY <2>5
  <2>. QED  BY <1>5, <2>2, <2>4, <2>5, <2>6, <2>7
<1>. QED  BY <1>3, <1>4, <1>6, <1>7

-----------------------------------------------------------------------------
(* The walk and the report while a row changes, and their own steps. *)

\* A change of row k, whichever table it is in.
LEMMA TouchedKeeps ==
  ASSUME NEW k \in RowKey, Touched(k, parked'), parked \subseteq RowKey,
         parked' \subseteq RowKey,
         \A j \in RowKey \ {k} : j \in parked' <=> j \in parked,
         WalkSound(walk, parked), ReportSound(report, parked)
  PROVE  WalkSound(walk', parked') /\ ReportSound(report', parked')
<1>1. WalkSound(walk', parked')
  <2>1. walk \in WalkStates
    BY DEF WalkSound
  <2>2. PICK left \in SUBSET RowKey : left = walk.stayed \cap parked'
    BY <2>1 DEF WalkStates
  <2>3. walk' = [walk EXCEPT !.stayed = left]
    BY <2>2 DEF Touched
  <2>4. /\ walk' \in WalkStates /\ walk'.stayed = left
        /\ walk'.phase = walk.phase /\ walk'.after = walk.after
        /\ walk'.returned = walk.returned
    BY <2>1, <2>3 DEF WalkStates
  <2>5. left \subseteq walk.stayed /\ left \subseteq parked'
    BY <2>2
  <2>. QED  BY <2>4, <2>5 DEF WalkSound
<1>2. CASE report.phase # "half"
  <2>1. report' = report
    BY <1>2 DEF Touched
  <2>. QED  BY <1>1, <1>2, <2>1 DEF ReportSound
<1>3. CASE report.phase = "half"
  <2>. DEFINE A == Of(report.still, "pending")
              B == Of(report.still, "dead")
              T == report.touched
  <2>1. /\ report \in ReportStates /\ report.pending \in Nat
        /\ report.still \subseteq RowKey \X {"pending", "dead"}
        /\ T \in SUBSET RowKey /\ A \in SUBSET RowKey /\ B \in SUBSET RowKey
    BY DEF ReportSound, ReportStates, Of
  <2>2. /\ Cardinality(A) <= report.pending
        /\ report.pending <= Cardinality(A) + Cardinality(T)
        /\ A \cap T = {} /\ B = parked \ T
    BY <1>3 DEF ReportSound
  <2>3. PICK still \in SUBSET (RowKey \X {"pending", "dead"}) :
          still = {row \in report.still : row[1] # k}
    BY <2>1
  <2>4. PICK touched \in SUBSET RowKey : touched = T \cup {k}
    BY <2>1
  <2>5. report' = [report EXCEPT !.still = still, !.touched = touched]
    BY <1>3, <2>3, <2>4 DEF Touched
  <2>6. /\ report' \in ReportStates /\ report'.phase = "half"
        /\ report'.still = still /\ report'.touched = touched
        /\ report'.pending = report.pending
    BY <1>3, <2>1, <2>5 DEF ReportStates
  <2>7. Of(still, "pending") = A \ {k} /\ Of(still, "dead") = B \ {k}
    BY <2>3 DEF Of
  <2>. HIDE DEF A, B, T
  <2>8. /\ IsFiniteSet(A) /\ IsFiniteSet(T)
        /\ Cardinality(A) \in Nat /\ Cardinality(T) \in Nat
    BY <2>1, KeySets, FS_CardinalityType
  <2>9. /\ Cardinality(A \ {k}) = IF k \in A THEN Cardinality(A) - 1 ELSE Cardinality(A)
        /\ Cardinality(touched) = IF k \in T THEN Cardinality(T) ELSE Cardinality(T) + 1
    BY <2>4, <2>8, FS_RemoveElement, FS_AddElement
  <2>10. k \in A => k \notin T
    BY <2>2
  <2>11. /\ Cardinality(A \ {k}) <= report.pending
         /\ report.pending <= Cardinality(A \ {k}) + Cardinality(touched)
    BY <2>1, <2>2, <2>8, <2>9, <2>10
  <2>12. (A \ {k}) \cap touched = {} /\ B \ {k} = parked' \ touched
    BY <2>2, <2>4
  <2>. QED  BY <1>1, <2>6, <2>7, <2>11, <2>12 DEF ReportSound
<1>. QED  BY <1>1, <1>2, <1>3

\* What a walk has and what comes after it, put together.
LEMMA Joined ==
  ASSUME NEW old \in Seq(RowKey), NEW new \in Seq(RowKey), NEW after \in Nat,
         Increasing(old), \A i \in DOMAIN old : old[i] <= after,
         Increasing(new), \A i \in DOMAIN new : new[i] > after
  PROVE  /\ old \o new \in Seq(RowKey) /\ Increasing(old \o new)
         /\ ToSet(old \o new) = ToSet(old) \cup ToSet(new)
<1>1. /\ Len(old) \in Nat /\ Len(new) \in Nat
      /\ DOMAIN old = 1..Len(old) /\ DOMAIN new = 1..Len(new) /\ RowKey \subseteq Nat
  BY KeySets
<1>2. PICK n \in Nat : n = Len(old)
  BY <1>1
<1>3. PICK m \in Nat : m = Len(new)
  BY <1>1
<1>4. PICK all \in Seq(RowKey) : all = old \o new
  <2>1. old \o new \in Seq(RowKey)
    OBVIOUS
  <2>. QED  BY <2>1
<1>5. /\ \A i \in 1..n : old[i] \in Nat /\ old[i] <= after /\ i \in DOMAIN old
      /\ \A i \in 1..m : new[i] \in Nat /\ new[i] > after /\ i \in DOMAIN new
      /\ DOMAIN old = 1..n /\ DOMAIN new = 1..m
  <2>1. DOMAIN old = 1..n /\ DOMAIN new = 1..m
    BY <1>1, <1>2, <1>3
  <2>2. /\ \A i \in DOMAIN old : old[i] \in Nat
        /\ \A i \in DOMAIN new : new[i] \in Nat
    <3>1. /\ \A i \in DOMAIN old : old[i] \in RowKey
          /\ \A i \in DOMAIN new : new[i] \in RowKey
      OBVIOUS
    <3>. QED  BY <1>1, <3>1
  <2>. QED  BY <2>1, <2>2
<1>6. Len(all) = n + m
  BY <1>2, <1>3, <1>4
<1>7. DOMAIN all = 1..n + m
  BY <1>4, <1>6
<1>8. \A i \in 1..n : all[i] = old[i] /\ i \in DOMAIN all
  <2>1. \A i \in 1..n : i \in 1..n + m
    OBVIOUS
  <2>. QED  BY <1>2, <1>3, <1>4, <1>7, <2>1
<1>9. \A i \in 1..m : all[n + i] = new[i] /\ n + i \in DOMAIN all
  <2>1. \A i \in 1..m : n + i \in 1..n + m /\ n + i > n /\ (n + i) - n = i
    OBVIOUS
  <2>. QED  BY <1>2, <1>3, <1>4, <1>7, <2>1
<1>10. \A i \in 1..n + m : i \in 1..n \/ \E x \in 1..m : i = n + x
  <2>. SUFFICES ASSUME NEW i \in 1..n + m, i \notin 1..n PROVE \E x \in 1..m : i = n + x
    OBVIOUS
  <2>1. i - n \in 1..m /\ i = n + (i - n)
    OBVIOUS
  <2>. QED  BY <2>1
<1>11. Increasing(all)
  <2>. SUFFICES ASSUME NEW i \in 1..n + m, NEW j \in 1..n + m, i < j
                PROVE  all[i] < all[j]
    BY <1>7 DEF Increasing
  <2>1. CASE i \in 1..n /\ j \in 1..n
    BY <1>5, <1>8, <2>1 DEF Increasing
  <2>2. CASE i \in 1..n /\ j \notin 1..n
    <3>1. PICK y \in 1..m : j = n + y
      BY <1>10, <2>2
    <3>2. all[i] = old[i] /\ all[j] = new[y]
      BY <1>8, <1>9, <2>2, <3>1
    <3>3. /\ old[i] \in Nat /\ old[i] <= after
          /\ new[y] \in Nat /\ new[y] > after
      BY <1>5, <2>2
    <3>. QED  BY <3>2, <3>3
  <2>3. CASE i \notin 1..n
    <3>1. j \notin 1..n
      BY <2>3
    <3>2. PICK x \in 1..m : i = n + x
      BY <1>10, <2>3
    <3>3. PICK y \in 1..m : j = n + y
      BY <1>10, <3>1
    <3>4. x < y
      BY <3>2, <3>3
    <3>5. new[x] < new[y]
      BY <1>5, <3>4 DEF Increasing
    <3>. QED  BY <1>9, <3>2, <3>3, <3>5
  <2>. QED  BY <2>1, <2>2, <2>3
<1>12. ToSet(all) = ToSet(old) \cup ToSet(new)
  <2>1. \A i \in DOMAIN all : all[i] \in ToSet(old) \cup ToSet(new)
    <3>1. \A i \in 1..n : old[i] \in ToSet(old)
      BY <1>5 DEF ToSet
    <3>2. \A i \in 1..m : new[i] \in ToSet(new)
      BY <1>5 DEF ToSet
    <3>3. ASSUME NEW i \in 1..n + m PROVE all[i] \in ToSet(old) \cup ToSet(new)
      <4>1. CASE i \in 1..n
        BY <1>8, <3>1, <4>1
      <4>2. CASE i \notin 1..n
        <5>1. PICK x \in 1..m : i = n + x
          BY <1>10, <4>2
        <5>. QED  BY <1>9, <3>2, <5>1
      <4>. QED  BY <4>1, <4>2
    <3>. QED  BY <1>7, <3>3
  <2>2. /\ \A i \in 1..n : old[i] \in ToSet(all)
        /\ \A i \in 1..m : new[i] \in ToSet(all)
    <3>1. \A i \in DOMAIN all : all[i] \in ToSet(all)
      BY DEF ToSet
    <3>. QED  BY <1>8, <1>9, <3>1
  <2>3. ToSet(all) \subseteq ToSet(old) \cup ToSet(new)
    <3>1. \A x \in ToSet(all) : \E i \in DOMAIN all : x = all[i]
      BY DEF ToSet
    <3>. QED  BY <2>1, <3>1
  <2>4. ToSet(old) \subseteq ToSet(all) /\ ToSet(new) \subseteq ToSet(all)
    <3>1. \A x \in ToSet(old) : \E i \in 1..n : x = old[i]
      BY <1>5 DEF ToSet
    <3>2. \A x \in ToSet(new) : \E i \in 1..m : x = new[i]
      BY <1>5 DEF ToSet
    <3>. QED  BY <2>2, <3>1, <3>2
  <2>. QED  BY <2>3, <2>4
<1>. QED  BY <1>4, <1>11, <1>12

LEMMA ListKeeps ==
  ASSUME OperatorInv, NEW limit \in 0..MaxPage + 1, ListDeadLetters(limit)
  PROVE  WalkSound(walk', parked)
<1>1. /\ walk \in WalkStates /\ walk.phase = "on" /\ parked \subseteq RowKey
      /\ Increasing(walk.returned) /\ walk.stayed \subseteq parked
      /\ \A i \in DOMAIN walk.returned : walk.returned[i] <= walk.after
      /\ \A k \in walk.stayed : k <= walk.after => k \in ToSet(walk.returned)
  BY DEF OperatorInv, TablesSound, WalkSound, ListDeadLetters
<1>2. PICK after \in 0..MaxKey : after = walk.after
  BY <1>1 DEF WalkStates
<1>3. PICK old \in Seq(RowKey) : old = walk.returned
  BY <1>1 DEF WalkStates
<1>4. PICK stayed \in SUBSET RowKey : stayed = walk.stayed
  BY <1>1 DEF WalkStates
<1>5. PICK page : page = Page(after, limit)
  OBVIOUS
<1>6. PICK new \in Seq(RowKey), next \in 0..MaxKey :
        /\ new = page.items /\ next = page.next /\ Increasing(new)
        /\ \A i \in DOMAIN new : new[i] > after
        /\ next # 0 => (\A i \in DOMAIN new : new[i] <= next) /\ next > after
        /\ \A k \in parked : k > after /\ (next # 0 => k <= next)
             => \E i \in DOMAIN new : new[i] = k
  BY <1>1, <1>5, Paged
<1>7. /\ after \in Nat /\ next \in Nat /\ RowKey \subseteq Nat
      /\ Increasing(old) /\ \A i \in DOMAIN old : old[i] <= after
      /\ stayed \subseteq parked /\ \A k \in stayed : k <= after => k \in ToSet(old)
  BY <1>1, <1>2, <1>3, <1>4, KeySets, OperatorAssumption
<1>8. PICK all \in Seq(RowKey) : all = old \o new
  <2>1. old \o new \in Seq(RowKey)
    OBVIOUS
  <2>. QED  BY <2>1
<1>9. Increasing(all) /\ ToSet(all) = ToSet(old) \cup ToSet(new)
  BY <1>6, <1>7, <1>8, Joined
<1>10. PICK phase \in {"on", "done"} : phase = IF next = 0 THEN "done" ELSE "on"
  OBVIOUS
<1>11. walk' = [walk EXCEPT !.phase = phase, !.after = next, !.returned = all]
  BY <1>1, <1>2, <1>3, <1>5, <1>6, <1>8, <1>10 DEF ListDeadLetters
<1>12. /\ walk' \in WalkStates /\ walk'.phase = phase /\ walk'.after = next
       /\ walk'.returned = all /\ walk'.stayed = stayed
  BY <1>1, <1>4, <1>11 DEF WalkStates
<1>13. ASSUME NEW k \in stayed, next # 0 => k <= next PROVE k \in ToSet(all)
  <2>1. k \in parked /\ k \in Nat
    BY <1>7
  <2>2. CASE k <= after
    BY <1>7, <1>9, <2>2
  <2>3. CASE ~(k <= after)
    <3>1. k > after
      BY <1>7, <2>1, <2>3
    <3>2. PICK i \in DOMAIN new : new[i] = k
      BY <1>6, <1>13, <2>1, <3>1
    <3>. QED  BY <1>9, <3>2 DEF ToSet
  <2>. QED  BY <2>2, <2>3
<1>14. ASSUME next # 0, NEW x \in ToSet(all) PROVE x <= next
  <2>1. CASE x \in ToSet(old)
    <3>1. PICK i \in DOMAIN old : x = old[i]
      BY <2>1 DEF ToSet
    <3>2. x \in Nat
      <4>1. old[i] \in RowKey
        OBVIOUS
      <4>. QED  BY <1>7, <3>1, <4>1
    <3>3. x <= after /\ next > after
      BY <1>6, <1>7, <1>14, <3>1
    <3>. QED  BY <1>7, <3>2, <3>3
  <2>2. CASE x \in ToSet(new)
    <3>1. PICK i \in DOMAIN new : x = new[i]
      BY <2>2 DEF ToSet
    <3>. QED  BY <1>6, <1>14, <3>1
  <2>. QED  BY <1>9, <2>1, <2>2
<1>15. next # 0 => \A i \in DOMAIN all : all[i] <= next
  <2>1. \A i \in DOMAIN all : all[i] \in ToSet(all)
    BY DEF ToSet
  <2>. QED  BY <1>14, <2>1
<1>16. phase = "on" => next # 0
  BY <1>10
<1>17. phase = "done" => next = 0
  BY <1>10
<1>. QED  BY <1>7, <1>9, <1>12, <1>13, <1>15, <1>16, <1>17 DEF WalkSound

\* The rows of a report are those of the one table and of the other.
LEMMA StillCounted ==
  ASSUME NEW still \in SUBSET (RowKey \X {"pending", "dead"})
  PROVE  /\ Cardinality(still)
              = Cardinality(Of(still, "pending")) + Cardinality(Of(still, "dead"))
         /\ Cardinality(Of(still, "pending")) \in Nat
         /\ Cardinality(Of(still, "dead")) \in Nat
<1>. DEFINE A == Of(still, "pending")
            B == Of(still, "dead")
            P == A \X {"pending"}
            D == B \X {"dead"}
<1>1. still = P \cup D /\ P \cap D = {} /\ A \in SUBSET RowKey /\ B \in SUBSET RowKey
  BY DEF Of
<1>. HIDE DEF A, B
<1>2. /\ IsFiniteSet(A) /\ Cardinality(A) \in Nat
      /\ IsFiniteSet(B) /\ Cardinality(B) \in Nat
  BY <1>1, KeySets, FS_CardinalityType
<1>3. /\ IsFiniteSet({"pending"}) /\ Cardinality({"pending"}) = 1
      /\ IsFiniteSet({"dead"}) /\ Cardinality({"dead"}) = 1
  BY FS_Singleton
<1>4. /\ IsFiniteSet(P) /\ Cardinality(P) = Cardinality(A) * 1
      /\ IsFiniteSet(D) /\ Cardinality(D) = Cardinality(B) * 1
  BY <1>2, <1>3, FS_Product
<1>. HIDE DEF P, D
<1>5. Cardinality(still) = Cardinality(P) + Cardinality(D) - Cardinality(P \cap D)
  BY <1>1, <1>4, FS_Union
<1>6. Cardinality(P \cap D) = 0
  BY <1>1, FS_EmptySet
<1>7. Cardinality(still) = Cardinality(A) + Cardinality(B)
  BY <1>2, <1>4, <1>5, <1>6
<1>. QED  BY <1>2, <1>7 DEF A, B

LEMMA CountPendingKeeps ==
  ASSUME OperatorInv, CountPending
  PROVE  ReportSound(report', parked)
<1>1. waiting \in SUBSET RowKey /\ parked \in SUBSET RowKey
  BY DEF OperatorInv, TablesSound
<1>2. PICK still \in SUBSET (RowKey \X {"pending", "dead"}) :
        still = (waiting \X {"pending"}) \cup (parked \X {"dead"})
  BY <1>1
<1>3. PICK n \in 0..MaxKey : n = Cardinality(waiting)
  BY <1>1, KeySets
<1>4. report' = [NoReport EXCEPT !.phase = "half", !.pending = n, !.still = still]
  BY <1>2, <1>3 DEF CountPending
<1>5. /\ report' \in ReportStates /\ report'.phase = "half" /\ report'.pending = n
      /\ report'.still = still /\ report'.touched = {}
  <2>1. 0 \in 0..MaxKey
    BY OperatorAssumption
  <2>. QED  BY <1>4, <2>1 DEF ReportStates, NoReport
<1>6. Of(still, "pending") = waiting /\ Of(still, "dead") = parked
  BY <1>1, <1>2 DEF Of
<1>7. Cardinality({}) = 0 /\ n \in Nat
  BY <1>3, FS_EmptySet
<1>8. n <= n /\ n <= n + 0
  BY <1>7
<1>. QED  BY <1>3, <1>5, <1>6, <1>7, <1>8 DEF ReportSound

LEMMA CountDeadKeeps ==
  ASSUME OperatorInv, CountDead
  PROVE  ReportSound(report', parked)
<1>. DEFINE still == report.still
            touched == report.touched
            p == report.pending
<1>1. /\ parked \in SUBSET RowKey /\ report \in ReportStates /\ report.phase = "half"
      /\ Cardinality(Of(still, "pending")) <= p
      /\ p <= Cardinality(Of(still, "pending")) + Cardinality(touched)
      /\ Of(still, "dead") = parked \ touched
  BY DEF OperatorInv, TablesSound, ReportSound, CountDead
<1>2. /\ touched \in SUBSET RowKey /\ p \in Nat
      /\ still \in SUBSET (RowKey \X {"pending", "dead"})
  BY <1>1 DEF ReportStates
<1>3. PICK n \in 0..MaxKey : n = Cardinality(parked)
  BY <1>1, KeySets
<1>4. report' = [report EXCEPT !.phase = "done", !.dead = n]
  BY <1>3 DEF CountDead
<1>5. /\ report' \in ReportStates /\ report'.phase = "done" /\ report'.pending = p
      /\ report'.dead = n /\ report'.still = still /\ report'.touched = touched
  BY <1>1, <1>4 DEF ReportStates
<1>. HIDE DEF still, touched, p
<1>6. /\ Cardinality(still)
           = Cardinality(Of(still, "pending")) + Cardinality(parked \ touched)
      /\ Cardinality(Of(still, "pending")) \in Nat /\ Cardinality(parked \ touched) \in Nat
  BY <1>1, <1>2, StillCounted
<1>7. /\ IsFiniteSet(parked) /\ IsFiniteSet(touched) /\ Cardinality(touched) \in Nat
      /\ n \in Nat
  BY <1>1, <1>2, <1>3, KeySets, FS_CardinalityType
<1>8. /\ Cardinality(parked \ touched) = n - Cardinality(parked \cap touched)
      /\ Cardinality(parked \cap touched) <= Cardinality(touched)
      /\ Cardinality(parked \cap touched) \in Nat
  <2>1. parked \cap touched \in SUBSET touched
    OBVIOUS
  <2>2. /\ Cardinality(parked \cap touched) <= Cardinality(touched)
        /\ IsFiniteSet(parked \cap touched)
    BY <1>7, <2>1, FS_Subset
  <2>. QED  BY <1>3, <1>7, <2>2, FS_Difference, FS_CardinalityType
<1>9. /\ Cardinality(still) <= p + n
      /\ p + n <= Cardinality(still) + 2 * Cardinality(touched)
  BY <1>1, <1>2, <1>6, <1>7, <1>8
<1>. QED  BY <1>5, <1>9 DEF ReportSound

-----------------------------------------------------------------------------
(* The tables. *)

LEMMA RewriteKeeps ==
  ASSUME OperatorInv, NEW k \in RowKey, Rewrite(k)
  PROVE  OperatorInv'
<1>1. TablesSound /\ WalkSound(walk, parked) /\ ReportSound(report, parked)
  BY DEF OperatorInv
<1>2. /\ k \notin waiting /\ waiting' = waiting \cup {k}
      /\ written' = [written EXCEPT ![k] = @ + 1] /\ refused' = refused \ {k}
      /\ UNCHANGED <<parked, released, letters>>
      /\ moves < MaxMoves /\ moves' = moves + 1 /\ Touched(k, parked')
  BY DEF Rewrite, Move
<1>3. WalkSound(walk', parked') /\ ReportSound(report', parked')
  BY <1>1, <1>2, TouchedKeeps DEF TablesSound
<1>4. \A j \in RowKey : Has(waiting, j)' + Has(parked, j)' + released'[j] <= written'[j]
  <2>. SUFFICES ASSUME NEW j \in RowKey
                PROVE  Has(waiting, j)' + Has(parked, j)' + released'[j] <= written'[j]
    OBVIOUS
  <2>1. /\ Has(waiting, j) + Has(parked, j) + released[j] <= written[j]
        /\ written[j] \in Nat /\ released[j] \in Nat
    BY <1>1 DEF TablesSound
  <2>2. CASE j = k
    <3>1. written'[j] = written[j] + 1
      BY <1>1, <1>2, <2>2 DEF TablesSound
    <3>. QED  BY <1>2, <2>1, <2>2, <3>1 DEF Has
  <2>3. CASE j # k
    BY <1>1, <1>2, <2>1, <2>3 DEF TablesSound, Has
  <2>. QED  BY <2>2, <2>3
<1>5. moves' \in 0..MaxMoves /\ written' \in [RowKey -> Nat]
  BY <1>1, <1>2, OperatorAssumption DEF TablesSound
<1>6. ReplayLosesNothing'
  <2>1. \A j \in RowKey \ {k} : written'[j] = written[j]
    BY <1>1, <1>2 DEF TablesSound
  <2>. QED  BY <1>1, <1>2, <2>1 DEF TablesSound, ReplayLosesNothing
<1>7. NotFoundIsFinal'
  BY <1>1, <1>2 DEF TablesSound, NotFoundIsFinal
<1>. QED  BY <1>1, <1>2, <1>3, <1>4, <1>5, <1>6, <1>7 DEF OperatorInv, TablesSound

LEMMA DeleteDeliveredKeeps ==
  ASSUME OperatorInv, NEW k \in RowKey, DeleteDelivered(k)
  PROVE  OperatorInv'
<1>1. TablesSound /\ WalkSound(walk, parked) /\ ReportSound(report, parked)
  BY DEF OperatorInv
<1>2. /\ k \in waiting /\ waiting' = waiting \ {k}
      /\ released' = [released EXCEPT ![k] = @ + 1]
      /\ UNCHANGED <<parked, written, letters, refused>>
      /\ moves < MaxMoves /\ moves' = moves + 1 /\ Touched(k, parked')
  BY DEF DeleteDelivered, Move
<1>3. WalkSound(walk', parked') /\ ReportSound(report', parked')
  BY <1>1, <1>2, TouchedKeeps DEF TablesSound
<1>4. \A j \in RowKey : Has(waiting, j)' + Has(parked, j)' + released'[j] <= written'[j]
  <2>. SUFFICES ASSUME NEW j \in RowKey
                PROVE  Has(waiting, j)' + Has(parked, j)' + released'[j] <= written'[j]
    OBVIOUS
  <2>1. /\ Has(waiting, j) + Has(parked, j) + released[j] <= written[j]
        /\ written[j] \in Nat /\ released[j] \in Nat
    BY <1>1 DEF TablesSound
  <2>2. CASE j = k
    <3>1. released'[j] = released[j] + 1
      BY <1>1, <1>2, <2>2 DEF TablesSound
    <3>. QED  BY <1>2, <2>1, <2>2, <3>1 DEF Has
  <2>3. CASE j # k
    BY <1>1, <1>2, <2>1, <2>3 DEF TablesSound, Has
  <2>. QED  BY <2>2, <2>3
<1>5. moves' \in 0..MaxMoves /\ released' \in [RowKey -> Nat] /\ waiting' \subseteq RowKey
  BY <1>1, <1>2, OperatorAssumption DEF TablesSound
<1>6. ReplayLosesNothing'
  <2>1. \A j \in RowKey \ {k} : released'[j] = released[j]
    BY <1>1, <1>2 DEF TablesSound
  <2>2. released'[k] # 0
    BY <1>1, <1>2 DEF TablesSound
  <2>. QED  BY <1>1, <1>2, <2>1, <2>2 DEF TablesSound, ReplayLosesNothing
<1>7. NotFoundIsFinal'
  BY <1>1, <1>2 DEF TablesSound, NotFoundIsFinal
<1>. QED  BY <1>1, <1>2, <1>3, <1>4, <1>5, <1>6, <1>7 DEF OperatorInv, TablesSound

LEMMA ParkKeeps ==
  ASSUME OperatorInv, NEW k \in RowKey, Park(k)
  PROVE  OperatorInv'
<1>1. TablesSound /\ WalkSound(walk, parked) /\ ReportSound(report, parked)
  BY DEF OperatorInv
<1>2. /\ k \in waiting /\ waiting' = waiting \ {k} /\ parked' = parked \cup {k}
      /\ UNCHANGED <<written, released, letters, refused>>
      /\ moves < MaxMoves /\ moves' = moves + 1 /\ Touched(k, parked')
  BY DEF Park, Move
<1>3. WalkSound(walk', parked') /\ ReportSound(report', parked')
  BY <1>1, <1>2, TouchedKeeps DEF TablesSound
<1>4. \A j \in RowKey : Has(waiting, j)' + Has(parked, j)' + released'[j] <= written'[j]
  <2>. SUFFICES ASSUME NEW j \in RowKey
                PROVE  Has(waiting, j)' + Has(parked, j)' + released'[j] <= written'[j]
    OBVIOUS
  <2>1. /\ Has(waiting, j) + Has(parked, j) + released[j] <= written[j]
        /\ written[j] \in Nat /\ released[j] \in Nat
    BY <1>1 DEF TablesSound
  <2>. QED  BY <1>2, <2>1 DEF Has
<1>5. moves' \in 0..MaxMoves /\ waiting' \subseteq RowKey
  BY <1>1, <1>2, OperatorAssumption DEF TablesSound
<1>6. ReplayLosesNothing' /\ NotFoundIsFinal'
  BY <1>1, <1>2 DEF TablesSound, ReplayLosesNothing, NotFoundIsFinal
<1>. QED  BY <1>1, <1>2, <1>3, <1>4, <1>5, <1>6 DEF OperatorInv, TablesSound

LEMMA ReplayKeeps ==
  ASSUME OperatorInv, NEW k \in RowKey, ReplayDeadLetter(k)
  PROVE  OperatorInv'
<1>1. TablesSound /\ WalkSound(walk, parked) /\ ReportSound(report, parked)
  BY DEF OperatorInv
<1>2. /\ UNCHANGED <<written, released, moves, letters>>
      /\ \/ refused' = IF k \in parked \cup waiting THEN refused \ {k} ELSE refused \cup {k}
         \/ refused' = refused
  BY DEF ReplayDeadLetter
<1>3. CASE k \in parked /\ k \notin waiting
  <2>1. waiting' = waiting \cup {k} /\ parked' = parked \ {k} /\ Touched(k, parked')
    BY <1>3 DEF ReplayDeadLetter
  <2>2. WalkSound(walk', parked') /\ ReportSound(report', parked')
    BY <1>1, <2>1, TouchedKeeps DEF TablesSound
  <2>3. \A j \in RowKey : Has(waiting, j)' + Has(parked, j)' + released'[j] <= written'[j]
    <3>. SUFFICES ASSUME NEW j \in RowKey
                  PROVE  Has(waiting, j)' + Has(parked, j)' + released'[j] <= written'[j]
      OBVIOUS
    <3>1. Has(waiting, j) + Has(parked, j) + released[j] <= written[j]
      BY <1>1 DEF TablesSound
    <3>2. Has(waiting, j)' + Has(parked, j)' = Has(waiting, j) + Has(parked, j)
      BY <1>3, <2>1 DEF Has
    <3>. QED  BY <1>2, <3>1, <3>2
  <2>4. ReplayLosesNothing' /\ NotFoundIsFinal'
    BY <1>1, <1>2, <1>3, <2>1 DEF TablesSound, ReplayLosesNothing, NotFoundIsFinal
  <2>. QED  BY <1>1, <1>2, <2>1, <2>2, <2>3, <2>4 DEF OperatorInv, TablesSound
<1>4. CASE ~(k \in parked /\ k \notin waiting)
  <2>1. UNCHANGED <<waiting, parked, walk, report>>
    BY <1>4 DEF ReplayDeadLetter
  <2>2. ReplayLosesNothing' /\ NotFoundIsFinal' /\ refused' \subseteq RowKey
    BY <1>1, <1>2, <2>1 DEF TablesSound, ReplayLosesNothing, NotFoundIsFinal
  <2>. QED  BY <1>1, <1>2, <2>1, <2>2 DEF OperatorInv, TablesSound, Has
<1>. QED  BY <1>3, <1>4

\* The steps that read only.
LEMMA ReadingKeeps ==
  ASSUME OperatorInv,
         \/ \E k \in RowKey : GetDeadLetter(k)
         \/ StartWalk
         \/ \E limit \in 0..MaxPage + 1 : ListDeadLetters(limit)
         \/ CountPending
         \/ CountDead
         \/ UNCHANGED operatorVars
  PROVE  OperatorInv'
<1>1. TablesSound /\ WalkSound(walk, parked) /\ ReportSound(report, parked)
  BY DEF OperatorInv
<1>2. /\ UNCHANGED <<waiting, parked, written, released, moves, refused>>
      /\ letters' \subseteq RowKey
  BY <1>1 DEF TablesSound, GetDeadLetter, StartWalk, ListDeadLetters, CountPending, CountDead,
     operatorVars
<1>3. TablesSound'
  BY <1>1, <1>2 DEF TablesSound, ReplayLosesNothing, NotFoundIsFinal, Has
<1>4. WalkSound(walk', parked)
  <2>1. CASE StartWalk
    <3>1. /\ walk' = [phase |-> "on", after |-> 0, returned |-> <<>>, stayed |-> parked]
          /\ parked \in SUBSET RowKey /\ RowKey \subseteq Nat /\ 0 \in 0..MaxKey
          /\ <<>> \in Seq(RowKey) /\ DOMAIN <<>> = {}
      BY <1>1, <2>1, KeySets, OperatorAssumption DEF StartWalk, TablesSound
    <3>2. \A k \in parked : ~(k <= 0)
      BY <3>1 DEF RowKey
    <3>. QED  BY <3>1, <3>2 DEF WalkSound, WalkStates, Increasing
  <2>2. CASE \E limit \in 0..MaxPage + 1 : ListDeadLetters(limit)
    BY <2>2, ListKeeps
  <2>3. CASE walk' = walk
    BY <1>1, <2>3
  <2>. QED  BY <2>1, <2>2, <2>3 DEF GetDeadLetter, CountPending, CountDead, operatorVars
<1>5. ReportSound(report', parked)
  <2>1. CASE CountPending \/ CountDead
    BY <2>1, CountPendingKeeps, CountDeadKeeps
  <2>2. CASE report' = report
    BY <1>1, <2>2
  <2>. QED  BY <2>1, <2>2 DEF GetDeadLetter, StartWalk, ListDeadLetters, operatorVars
<1>. QED  BY <1>2, <1>3, <1>4, <1>5 DEF OperatorInv

LEMMA OperatorBegins ==
  ASSUME OperatorInit
  PROVE  OperatorInv
<1>1. MaxKey \in Nat /\ MaxMoves \in Nat /\ 0 \in 0..MaxKey /\ 0 \in 0..MaxMoves
  BY OperatorAssumption
<1>2. TablesSound
  <2>1. \A k \in RowKey : Has(waiting, k) + Has(parked, k) + released[k] <= written[k]
    BY DEF OperatorInit, Has
  <2>2. written \in [RowKey -> Nat] /\ released \in [RowKey -> Nat]
    BY DEF OperatorInit
  <2>3. ReplayLosesNothing /\ NotFoundIsFinal
    BY DEF OperatorInit, ReplayLosesNothing, NotFoundIsFinal
  <2>. QED  BY <1>1, <2>1, <2>2, <2>3 DEF OperatorInit, TablesSound
<1>3. WalkSound(walk, parked)
  <2>1. <<>> \in Seq(RowKey) /\ DOMAIN <<>> = {}
    OBVIOUS
  <2>. QED  BY <1>1, <2>1 DEF OperatorInit, WalkSound, WalkStates, Increasing
<1>4. ReportSound(report, parked)
  BY <1>1 DEF OperatorInit, NoReport, ReportSound, ReportStates
<1>. QED  BY <1>2, <1>3, <1>4 DEF OperatorInv

LEMMA OperatorStep ==
  ASSUME OperatorInv, [OperatorNext]_operatorVars
  PROVE  OperatorInv'
BY RewriteKeeps, DeleteDeliveredKeeps, ParkKeeps, ReplayKeeps, ReadingKeeps DEF OperatorNext

LEMMA OperatorFollows ==
  ASSUME OperatorInv
  PROVE  OperatorNotMisled
<1>1. TablesSound /\ WalkSound(walk, parked) /\ ReportSound(report, parked)
  BY DEF OperatorInv
<1>2. ASSUME NEW k \in RowKey
      PROVE  /\ Cardinality({k} \cap waiting) + Cardinality({k} \cap parked) + released[k]
                  <= written[k]
             /\ k \in waiting \cup parked => written[k] > 0
  <2>1. \A table : Cardinality({k} \cap table) = Has(table, k)
    <3>. SUFFICES ASSUME NEW table PROVE Cardinality({k} \cap table) = Has(table, k)
      OBVIOUS
    <3>1. CASE k \in table
      <4>1. {k} \cap table = {k}
        BY <3>1
      <4>. QED  BY <3>1, <4>1, FS_Singleton DEF Has
    <3>2. CASE k \notin table
      <4>1. {k} \cap table = {}
        BY <3>2
      <4>. QED  BY <3>2, <4>1, FS_EmptySet DEF Has
    <3>. QED  BY <3>1, <3>2
  <2>2. /\ Has(waiting, k) + Has(parked, k) + released[k] <= written[k]
        /\ released[k] \in Nat /\ written[k] \in Nat
    BY <1>1 DEF TablesSound
  <2>3. k \in waiting \cup parked => written[k] > 0
    BY <2>2 DEF Has
  <2>. QED  BY <2>1, <2>2, <2>3
<1>3. OperatorTypeOK
  BY <1>1, <1>2 DEF OperatorTypeOK, TablesSound, WalkSound, ReportSound
<1>4. ReplayMakesNoCopies
  BY <1>2 DEF ReplayMakesNoCopies
<1>5. WalkComplete
  BY <1>1 DEF WalkSound, WalkComplete, Increasing
<1>6. StatsNearTables
  BY <1>1 DEF ReportSound, StatsNearTables
<1>. QED  BY <1>1, <1>3, <1>4, <1>5, <1>6 DEF OperatorNotMisled, TablesSound

\* For any keys, page sizes and calls: replays lose and copy nothing, "not found" is
\* final, a walk returns what stayed, once and in order, and the statistics are off by
\* no more than what changed meanwhile (ReplayDeadLetter, ListDeadLetters, OutboxStats).
THEOREM SeesTheTables == OperatorSpec => []OperatorNotMisled
<1>1. OperatorInit => OperatorInv
  BY OperatorBegins
<1>2. OperatorInv /\ [OperatorNext]_operatorVars => OperatorInv'
  BY OperatorStep
<1>3. OperatorInv => OperatorNotMisled
  BY OperatorFollows
<1>. QED  BY <1>1, <1>2, <1>3, PTL DEF OperatorSpec
=============================================================================
