----------------------- MODULE InstallationLifecycle -----------------------
(***************************************************************************)
(* Delivery of installation lifecycle messages (integration/lifecycle.go,  *)
(* lifecycle_http.go, lifecycle_sender.go, server.go).                     *)
(*                                                                         *)
(* The platform numbers the messages of one project and integration and    *)
(* delivers each until it holds a receipt; attempts are lost, repeated and *)
(* overtake each other.  The receiver keeps a watermark and, changed in    *)
(* the same transaction, the OAuth settings of the active installation.    *)
(*                                                                         *)
(* The platform's operation that creates and retries messages and the      *)
(* receiver's storage are outside the repository; they do what the         *)
(* comments on LifecycleRequest and LifecycleDecision ask of them.         *)
(***************************************************************************)
EXTENDS Naturals, FiniteSets

CONSTANTS
  Installation, \* installation ids
  EventID,        \* event ids
  NoInstallation,       \* no installation
  MaxSequence   \* bound: messages of the stream

ASSUME LifecycleAssumption ==
  /\ MaxSequence \in Nat
  /\ NoInstallation \notin Installation

VARIABLES
  stream,     \* the messages created so far
  attempts,   \* the messages of the signed attempts that are on their way
  watermark,  \* LifecycleState: the message it was taken from
  storedSettings,   \* the message whose OAuth settings are stored, or NoMessage
  receipts,   \* receipts on their way back
  delivered,  \* messages whose receipt the platform holds
  handled     \* ghost: messages for which the receiver made a receipt

lifecycleVars == <<stream, attempts, watermark, storedSettings, receipts, delivered, handled>>

\* Valid messages: an install carries the settings of its installation.
Message == [event : EventID, installation : Installation, sequence : 1..MaxSequence,
            action : {"install", "uninstall"}]
NoMessage == [event |-> NoInstallation, installation |-> NoInstallation, sequence |-> 0,
              action |-> "none"]
Receipt == [message : Message, outcome : {"applied", "duplicate", "superseded"},
            observed : 1..MaxSequence]

LifecycleTypeOK ==
  /\ stream \subseteq Message
  /\ attempts \subseteq Message
  /\ watermark \in Message \cup {NoMessage}
  /\ storedSettings \in Message \cup {NoMessage}
  /\ receipts \subseteq Receipt
  /\ delivered \subseteq Message
  /\ handled \subseteq Message

LifecycleInit ==
  /\ stream = {}
  /\ attempts = {}
  /\ watermark = NoMessage
  /\ storedSettings = NoMessage
  /\ receipts = {}
  /\ delivered = {}
  /\ handled = {}

-----------------------------------------------------------------------------
(* Pure decisions.  A digest is injective: equal digests are equal messages. *)

\* Mutant: a message is compared with the watermark by its own number only.
OutcomeUnordered(current, m) ==
  IF m = current THEN "duplicate" ELSE "applied"
Outcome(current, m) ==
  IF m.sequence < current.sequence THEN "superseded"
  ELSE IF m.sequence = current.sequence THEN (IF m = current THEN "duplicate" ELSE "conflict")
  ELSE IF \/ m.event = current.event
          \/ /\ m.installation = current.installation
             /\ current.action = "uninstall" /\ m.action = "install"
       THEN "conflict"
  ELSE "applied"

\* The message that holds after DecideLifecycle.
DecideLifecycle(current, m) == IF Outcome(current, m) = "applied" THEN m ELSE current

\* ValidateFor: a receipt is about this very message and consistent in itself.
ValidateFor(receipt, m) ==
  /\ receipt.message = m
  /\ \/ receipt.outcome \in {"applied", "duplicate"} /\ receipt.observed = m.sequence
     \/ receipt.outcome = "superseded" /\ receipt.observed > m.sequence

\* ValidateLifecycleOAuth: settings read at run time came with the very message
\* that the watermark was taken from.
ValidateLifecycleOAuth(current, s) ==
  current.sequence > 0 /\ current.action = "install" /\ s = current

-----------------------------------------------------------------------------
(* The platform. *)

Newest == CHOOSE m \in stream \cup {NoMessage} : \A q \in stream : q.sequence <= m.sequence

\* Sequences grow without gaps, events are unique and one installation is active
\* at a time.  Whether a closed one may be taken up again: see Orderly.
Create(m) ==
  /\ m.sequence = Cardinality(stream) + 1
  /\ m.event = CHOOSE e \in EventID : \A q \in stream : q.event # e
  /\ IF Newest.action = "install" THEN m.installation = Newest.installation
                                  ELSE m.action = "install"
  /\ stream' = stream \cup {m}
  /\ UNCHANGED <<attempts, watermark, storedSettings, receipts, delivered, handled>>

\* One attempt of Deliver; the platform repeats it until it holds a receipt.
Deliver(m) ==
  /\ m \in stream \ delivered
  /\ attempts' = attempts \cup {m}
  /\ UNCHANGED <<stream, watermark, storedSettings, receipts, delivered, handled>>

\* The answer comes back to the attempt that waits for it: only 200 with a
\* receipt for this message counts.
Acknowledge(receipt) ==
  /\ receipt \in receipts
  /\ ValidateFor(receipt, receipt.message)
  /\ receipts' = receipts \ {receipt}
  /\ delivered' = delivered \cup {receipt.message}
  /\ UNCHANGED <<stream, attempts, watermark, storedSettings, handled>>

-----------------------------------------------------------------------------
(* The network: it delays, repeats and loses. *)

\* An attempt that comes after the timestamp window is answered 401, which is as
\* good as lost: the next attempt has a timestamp of its own.
LoseAttempt(m) ==
  /\ m \in attempts
  /\ attempts' = attempts \ {m}
  /\ UNCHANGED <<stream, watermark, storedSettings, receipts, delivered, handled>>

LoseReceipt(receipt) ==
  /\ receipt \in receipts
  /\ receipts' = receipts \ {receipt}
  /\ UNCHANGED <<stream, attempts, watermark, storedSettings, delivered, handled>>

-----------------------------------------------------------------------------
(* The receiver. *)

\* The settings after a message: an install sets them, an uninstall clears them.
Effect(m) == IF m.action = "install" THEN m ELSE NoMessage

\* Mutant: the transaction stores the settings of whatever arrives.
HandleUnchecked(m) ==
  LET outcome == Outcome(watermark, m)
      next == DecideLifecycle(watermark, m) IN
  /\ m \in attempts
  /\ outcome # "conflict"
  /\ watermark' = next
  /\ storedSettings' = Effect(m)
  /\ receipts' = receipts \cup {[message |-> m, outcome |-> outcome, observed |-> next.sequence]}
  /\ handled' = handled \cup {m}
  /\ UNCHANGED <<stream, attempts, delivered>>

\* An attempt within the window, its signature verified: decision, effect and
\* watermark are one transaction.  A conflict is answered 409, a failed transaction
\* 503: no effect and no receipt.  The attempt may arrive again.
Handle(m) ==
  LET outcome == Outcome(watermark, m)
      next == DecideLifecycle(watermark, m) IN
  /\ m \in attempts
  /\ outcome # "conflict"
  /\ watermark' = next
  /\ storedSettings' = IF outcome = "applied" THEN Effect(m) ELSE storedSettings
  /\ receipts' = receipts \cup {[message |-> m, outcome |-> outcome, observed |-> next.sequence]}
  /\ handled' = handled \cup {m}
  /\ UNCHANGED <<stream, attempts, delivered>>

LifecycleNext ==
  \/ \E m \in Message : Create(m) \/ Deliver(m)
  \/ \E m \in attempts : LoseAttempt(m) \/ Handle(m)
  \/ \E receipt \in receipts : LoseReceipt(receipt) \/ Acknowledge(receipt)

LifecycleSpec == LifecycleInit /\ [][LifecycleNext]_lifecycleVars

\* The platform repeats what it has no receipt for, and a message repeated for
\* ever is handled and answered in the end.
Numbered(n) == {m \in stream : m.sequence = n}
LifecycleFairness ==
  \A n \in 1..MaxSequence :
    /\ WF_lifecycleVars(\E m \in Numbered(n) : Deliver(m))
    /\ SF_lifecycleVars(\E m \in Numbered(n) : Handle(m))
    /\ SF_lifecycleVars(\E r \in receipts : r.message.sequence = n /\ Acknowledge(r))

-----------------------------------------------------------------------------
(* Properties. *)

\* What the receiver stores is what the newest of all the messages it has
\* answered says, in whatever order, how often and how late they came
\* (DecideLifecycle, LifecycleHandler).
NewestHolds ==
  \A m \in handled :
    (\A q \in handled : q.sequence <= m.sequence) => watermark = m /\ storedSettings = Effect(m)

\* A message the platform has a receipt for is covered by the watermark for good:
\* no acknowledged uninstall is lost (LifecycleReceipt, Deliver).
DeliveredIsCovered ==
  /\ delivered \subseteq handled
  /\ \A m \in delivered : m.sequence <= watermark.sequence

\* The platform never takes an installation up again that it has closed.
Orderly ==
  \A m, q \in stream : m.action = "uninstall" /\ q.sequence > m.sequence
                        => q.installation # m.installation

\* On an orderly stream, once the receiver has answered the uninstall of an
\* installation, its settings are gone and do not come back with a late or
\* repeated install (DecideLifecycle).
ClosedStaysClosed ==
  Orderly => \A m \in handled : m.action = "uninstall"
                                   => storedSettings.installation # m.installation

\* Settings that are stored pass the check every runtime read makes
\* (ValidateLifecycleOAuth).
StoredSettingsValid ==
  storedSettings # NoMessage => ValidateLifecycleOAuth(watermark, storedSettings)

\* The parts above, in every state.
ReceiverAtNewest ==
  LifecycleTypeOK /\ NewestHolds /\ DeliveredIsCovered /\ ClosedStaysClosed /\ StoredSettingsValid

\* The receiver implements a stream that only moves forward, to messages that the
\* platform created (InstallationStream; DecideLifecycle).
Stream == INSTANCE InstallationStream WITH Nothing <- NoMessage, created <- stream,
                                           latest <- watermark
StreamMovesForward == Stream!StreamSpec

\* Once the platform has created the last message of an orderly stream, the
\* receiver comes to hold it and the platform comes to know: nothing in between
\* keeps it from being applied (Deliver, LifecycleHandler).
LastMessageArrives ==
  (Numbered(MaxSequence) # {} /\ Orderly)
    ~> Numbered(MaxSequence) \subseteq delivered \cap {watermark}
=============================================================================
