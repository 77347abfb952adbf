---------------------------- MODULE OutboxQueue ----------------------------
(***************************************************************************)
(* What a transactional outbox promises its users, with no relays, leases, *)
(* batches or database transactions in sight.                              *)
(*                                                                         *)
(* An event is absent until the transaction that wrote it commits, then it *)
(* waits, and it leaves the queue in one of two ways: it is discarded once *)
(* the broker has it, or it is parked in the dead-letter table, from where *)
(* an operator may put it back.  The broker may receive an event any       *)
(* number of times, at any moment after its commit, but the first time     *)
(* only when every event it had to wait for has been received or parked.   *)
(***************************************************************************)
CONSTANT Event

VARIABLES
  status,      \* where each event is
  delivered,   \* the events the broker has received at least once
  buried,      \* the events that were ever parked in the dead-letter table
  before       \* the events that had committed when this one was written

queueVars == <<status, delivered, buried, before>>

QInit ==
  /\ status = [e \in Event |-> "absent"]
  /\ delivered = {}
  /\ buried = {}
  /\ before = [e \in Event |-> {}]

\* The event is written by a transaction that has not committed yet.
Announce(e) ==
  /\ status[e] = "absent"
  /\ \E S \in SUBSET {x \in Event : status[x] # "absent"} :
       before' = [before EXCEPT ![e] = S]
  /\ UNCHANGED <<status, delivered, buried>>

Move(e, from, to) ==
  /\ status[e] = from
  /\ status' = [status EXCEPT ![e] = to]

Enqueue(e) ==
  /\ Move(e, "absent", "pending")
  /\ UNCHANGED <<delivered, buried, before>>

Deliver(e) ==
  /\ status[e] # "absent"
  /\ before[e] \subseteq delivered \cup buried
  /\ delivered' = delivered \cup {e}
  /\ UNCHANGED <<status, buried, before>>

Discard(e) ==
  /\ e \in delivered
  /\ Move(e, "pending", "done")
  /\ UNCHANGED <<delivered, buried, before>>

Bury(e) ==
  /\ Move(e, "pending", "dead")
  /\ buried' = buried \cup {e}
  /\ UNCHANGED <<delivered, before>>

Replay(e) ==
  /\ Move(e, "dead", "pending")
  /\ UNCHANGED <<delivered, buried, before>>

QNext ==
  \E e \in Event :
    \/ Announce(e) \/ Enqueue(e) \/ Deliver(e)
    \/ Discard(e)  \/ Bury(e)    \/ Replay(e)

QSpec == QInit /\ [][QNext]_queueVars
=============================================================================
