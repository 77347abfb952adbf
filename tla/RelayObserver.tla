--------------------------- MODULE RelayObserver ---------------------------
(***************************************************************************)
(* The observer of the outbox relay (outbox/relay.go, asyncObserver): a    *)
(* bounded queue and one worker between the drains of the buckets, which   *)
(* must not wait, and a callback, which may take for ever or panic.        *)
(*                                                                         *)
(* A drain starts one goroutine per bucket and waits for them all; Run     *)
(* closes the observer when it returns, so between two drains.             *)
(***************************************************************************)
EXTENDS Naturals, Sequences, FiniteSets

CONSTANTS
  DrainBucket, \* the buckets the relay holds
  QueueSize,   \* WithObserverQueue
  MaxObserved  \* bound: observations per bucket

ASSUME ObserverAssumption ==
  QueueSize \in Nat \ {0} /\ MaxObserved \in Nat /\ IsFiniteSet(DrainBucket)

VARIABLES
  queue,    \* the channel
  closed,   \* done is closed
  worker,   \* run: where it stands, and with which event
  draining, \* the buckets whose goroutine runs
  sending,  \* those of them between the two selects of enqueue
  observedUpTo, \* per bucket, the observations handed over so far
  counts,   \* what became of them: [delivered, panics, dropped]
  newest    \* ghost: per bucket, the newest observation whose callback has begun

observerVars == <<queue, closed, worker, draining, sending, observedUpTo, counts, newest>>

Observation == [bucket : DrainBucket, number : 1..MaxObserved]

ObserverInit ==
  /\ queue = <<>> /\ closed = FALSE
  /\ worker = [phase |-> "selecting", events |-> {}]
  /\ draining = {} /\ sending = {}
  /\ observedUpTo = [b \in DrainBucket |-> 0]
  /\ counts = [delivered |-> 0, panics |-> 0, dropped |-> 0]
  /\ newest = [b \in DrainBucket |-> 0]

-----------------------------------------------------------------------------
(* The relay. *)

Drain ==
  /\ ~closed /\ draining = {}
  /\ \E b \in DrainBucket : observedUpTo[b] < MaxObserved
  /\ draining' = DrainBucket
  /\ UNCHANGED <<queue, closed, worker, sending, observedUpTo, counts, newest>>

\* enqueue, first select: after a stop nothing is queued.
Observe(b) ==
  /\ b \in draining \ sending /\ observedUpTo[b] < MaxObserved
  /\ IF closed THEN UNCHANGED <<sending, observedUpTo>>
     ELSE /\ sending' = sending \cup {b}
          /\ observedUpTo' = [observedUpTo EXCEPT ![b] = @ + 1]
  /\ UNCHANGED <<queue, closed, worker, draining, counts, newest>>

\* Mutant: the drain waits for room.
EnqueueWaits(b) ==
  /\ b \in sending /\ Len(queue) < QueueSize
  /\ queue' = Append(queue, [bucket |-> b, number |-> observedUpTo[b]])
  /\ sending' = sending \ {b}
  /\ UNCHANGED <<closed, worker, draining, observedUpTo, counts, newest>>

\* enqueue, second select.
Enqueue(b) ==
  /\ b \in sending
  /\ IF Len(queue) < QueueSize
     THEN /\ queue' = Append(queue, [bucket |-> b, number |-> observedUpTo[b]])
          /\ UNCHANGED counts
     ELSE /\ counts' = [counts EXCEPT !.dropped = @ + 1]
          /\ UNCHANGED queue
  /\ sending' = sending \ {b}
  /\ UNCHANGED <<closed, worker, draining, observedUpTo, newest>>

EndBucket(b) ==
  /\ b \in draining \ sending
  /\ draining' = draining \ {b}
  /\ UNCHANGED <<queue, closed, worker, sending, observedUpTo, counts, newest>>

\* close, when Run returns.
ObserverClose ==
  /\ draining = {} /\ ~closed
  /\ closed' = TRUE
  /\ UNCHANGED <<queue, worker, draining, sending, observedUpTo, counts, newest>>

-----------------------------------------------------------------------------
(* The worker. *)

\* Mutant: every event gets a goroutine of its own.
TakeParallel ==
  /\ worker.phase \in {"selecting", "calling"} /\ queue # <<>>
  /\ worker' = [phase |-> "calling", events |-> worker.events \cup {Head(queue)}]
  /\ queue' = Tail(queue)
  /\ UNCHANGED <<closed, draining, sending, observedUpTo, counts, newest>>

\* The select of run takes either of the two when both are ready.
Take ==
  /\ worker.phase = "selecting" /\ queue # <<>>
  /\ worker' = [phase |-> "calling", events |-> {Head(queue)}]
  /\ queue' = Tail(queue)
  /\ UNCHANGED <<closed, draining, sending, observedUpTo, counts, newest>>

WorkerStops ==
  /\ worker.phase = "selecting" /\ closed
  /\ worker' = [worker EXCEPT !.phase = "stopped"]
  /\ UNCHANGED <<queue, closed, draining, sending, observedUpTo, counts, newest>>

\* deliver: the callback returns or panics; the worker goes on either way.
DeliverObservation(outcome) ==
  /\ worker.phase = "calling"
  /\ \E e \in worker.events :
       /\ worker' = [phase |-> IF worker.events = {e} THEN "selecting" ELSE "calling",
                     events |-> worker.events \ {e}]
       /\ newest' = [newest EXCEPT ![e.bucket] = e.number]
  /\ counts' = [counts EXCEPT ![outcome] = @ + 1]
  /\ UNCHANGED <<queue, closed, draining, sending, observedUpTo>>

ObserverNext ==
  \/ Drain \/ ObserverClose
  \/ \E b \in DrainBucket : Observe(b) \/ Enqueue(b) \/ EndBucket(b)
  \/ Take \/ WorkerStops
  \/ \E outcome \in {"delivered", "panics"} : DeliverObservation(outcome)

ObserverSpec == ObserverInit /\ [][ObserverNext]_observerVars

\* The goroutines of the relay run on.  The callback is the user's: nothing says
\* that it returns, except where a property supposes so.
ObserverFairness ==
  /\ \A b \in DrainBucket : WF_observerVars(Enqueue(b)) /\ WF_observerVars(EndBucket(b))
  /\ WF_observerVars(WorkerStops)

-----------------------------------------------------------------------------
(* Properties. *)

\* Nothing that was observed is lost without a trace: it waits, it is with the worker,
\* or it is counted as delivered, panicked or dropped; what waits never exceeds the
\* queue (asyncObserver, DroppedObservations, ObserverPanics).
ObserverTypeOK ==
  /\ queue \in Seq(Observation) /\ Len(queue) <= QueueSize
  /\ worker.phase \in {"selecting", "calling", "stopped"} /\ worker.events \subseteq Observation
  /\ sending \subseteq draining /\ draining \subseteq DrainBucket
  /\ Cardinality({e \in Observation : e.number <= observedUpTo[e.bucket]}) =
       Len(queue) + Cardinality(worker.events) + Cardinality(sending)
       + counts.delivered + counts.panics + counts.dropped

\* The callback sees the observations of a bucket in the order they were made, each at
\* most once, whatever was dropped in between (asyncObserver.run).
ObservedInOrder ==
  \A b \in DrainBucket : newest'[b] >= newest[b]
    /\ (counts'.delivered + counts'.panics > counts.delivered + counts.panics
        => \E c \in DrainBucket : newest'[c] > newest[c])

\* The relay never waits for the callback, not even for one that never returns: every
\* goroutine of a drain ends, given that it observes no more.
BucketDrainsEnd == \A b \in DrainBucket : (observedUpTo[b] = MaxObserved) ~> (b \notin draining)

\* Once closed, the worker ends, whatever is left in the queue, unless a callback never
\* returns (asyncObserver.run, close).
WorkerEnds == []<>(worker.phase # "calling") => (closed ~> (worker.phase = "stopped"))

\* The observer's bookkeeping in every state and step.
ObservationsKept == []ObserverTypeOK /\ [][ObservedInOrder]_observerVars
=============================================================================
