------------------------- MODULE IntegrationProofs -------------------------
(***************************************************************************)
(* Proofs about what an integration answers: InstallationLifecycle, for    *)
(* any installations, events and number of messages; SourceLookups, for    *)
(* any catalogs and identities; CopyPlan, for any documents, paths and     *)
(* foreign values.                                                         *)
(*                                                                         *)
(* Lifecycle.  Messages have numbers of their own, and the watermark is    *)
(* the newest of those that were handled, with its own settings stored; a  *)
(* receipt is only ever about a message that was handled.                  *)
(*                                                                         *)
(* Lookups and copies have their arguments at the head of their parts.     *)
(***************************************************************************)
EXTENDS InstallationLifecycle, SourceLookups, CopyPlan, FiniteSetTheorems,
        SequenceTheorems, TLAPS

\* The platform gives every message a number of its own.
StreamNumbered ==
  /\ IsFiniteSet(stream)
  /\ \A m \in stream : m.sequence <= Cardinality(stream)
  /\ \A m, q \in stream : m.sequence = q.sequence => m = q

\* Whatever travels or was handled is of the stream, and what is confirmed was
\* handled.
OfTheStream ==
  /\ attempts \subseteq stream
  /\ handled \subseteq stream
  /\ \A r \in receipts : r.message \in handled
  /\ delivered \subseteq handled

\* The watermark and the settings are those of the newest message handled.
AtNewest ==
  /\ IF watermark = NoMessage THEN handled = {} ELSE watermark \in handled
  /\ \A q \in handled : q.sequence <= watermark.sequence
  /\ storedSettings = Effect(watermark)

LifecycleInv == LifecycleTypeOK /\ StreamNumbered /\ OfTheStream /\ AtNewest

-----------------------------------------------------------------------------
(* Messages and decisions. *)

LEMMA MessageTypes ==
  /\ NoMessage \notin Message /\ NoMessage.sequence = 0
  /\ NoMessage.installation = NoInstallation
  /\ \A m \in Message : m.sequence \in Nat /\ m.sequence > 0 /\ m.sequence <= MaxSequence
  /\ \A m \in Message : m.installation \in Installation /\ m.installation # NoInstallation
  /\ Effect(NoMessage) = NoMessage
BY LifecycleAssumption DEF Message, NoMessage, Effect

\* A message that is not in conflict is applied over an older one, or it is the
\* one that holds, or an older one.
LEMMA Decided ==
  ASSUME NEW current \in Message \cup {NoMessage}, NEW m \in Message,
         Outcome(current, m) # "conflict"
  PROVE  \/ /\ Outcome(current, m) = "applied" /\ DecideLifecycle(current, m) = m
            /\ m.sequence > current.sequence
         \/ /\ Outcome(current, m) = "duplicate" /\ DecideLifecycle(current, m) = current
            /\ m = current
         \/ /\ Outcome(current, m) = "superseded" /\ DecideLifecycle(current, m) = current
            /\ m.sequence < current.sequence
<1>1. current.sequence \in Nat /\ m.sequence \in Nat
  BY MessageTypes
<1>. QED  BY <1>1 DEF Outcome, DecideLifecycle

-----------------------------------------------------------------------------
LEMMA Initially == LifecycleInit => LifecycleInv
<1>. SUFFICES ASSUME LifecycleInit PROVE LifecycleInv
  OBVIOUS
<1>1. LifecycleTypeOK
  BY DEF LifecycleInit, LifecycleTypeOK
<1>2. StreamNumbered
  BY FS_EmptySet DEF LifecycleInit, StreamNumbered
<1>3. OfTheStream
  BY DEF LifecycleInit, OfTheStream
<1>4. AtNewest
  BY MessageTypes DEF LifecycleInit, AtNewest
<1>. QED  BY <1>1, <1>2, <1>3, <1>4 DEF LifecycleInv

LEMMA CreateKeeps ==
  ASSUME LifecycleInv, NEW m \in Message, Create(m)
  PROVE  LifecycleInv'
<1>. USE DEF LifecycleInv
<1>1. LifecycleTypeOK'
  BY DEF Create, LifecycleTypeOK, Receipt
<1>2. StreamNumbered'
  <2>1. IsFiniteSet(stream) /\ Cardinality(stream) \in Nat
    BY FS_CardinalityType DEF StreamNumbered
  <2>2. \A q \in stream : q.sequence \in Nat /\ q.sequence <= Cardinality(stream)
    BY MessageTypes DEF StreamNumbered, LifecycleTypeOK
  <2>3. m.sequence = Cardinality(stream) + 1 /\ stream' = stream \cup {m}
    BY DEF Create
  <2>4. m \notin stream
    BY <2>1, <2>2, <2>3
  <2>5. IsFiniteSet(stream') /\ Cardinality(stream') = Cardinality(stream) + 1
    BY <2>1, <2>3, <2>4, FS_AddElement
  <2>6. \A q \in stream' : q.sequence <= Cardinality(stream')
    BY <2>1, <2>2, <2>3, <2>5
  <2>7. \A p, q \in stream' : p.sequence = q.sequence => p = q
    BY <2>1, <2>2, <2>3 DEF StreamNumbered
  <2>. QED  BY <2>5, <2>6, <2>7 DEF StreamNumbered
<1>3. OfTheStream' /\ AtNewest'
  BY DEF Create, OfTheStream, AtNewest
<1>. QED  BY <1>1, <1>2, <1>3

LEMMA HandleKeeps ==
  ASSUME LifecycleInv, NEW m \in attempts, Handle(m)
  PROVE  LifecycleInv'
<1>. USE DEF LifecycleInv
<1>1. m \in Message /\ m \in stream /\ watermark \in Message \cup {NoMessage}
  BY DEF LifecycleTypeOK, OfTheStream
<1>2. /\ watermark' = DecideLifecycle(watermark, m) /\ handled' = handled \cup {m}
      /\ stream' = stream /\ attempts' = attempts /\ delivered' = delivered
  BY DEF Handle
<1>3. m.sequence \in Nat /\ m.sequence > 0 /\ watermark.sequence \in Nat
  BY <1>1, MessageTypes
<1>4. /\ watermark' \in handled' /\ watermark' # NoMessage
      /\ \A q \in handled' : q.sequence <= watermark'.sequence
      /\ storedSettings' = Effect(watermark')
  <2>1. \A q \in handled : q.sequence \in Nat /\ q.sequence <= watermark.sequence
    BY MessageTypes DEF LifecycleTypeOK, AtNewest
  <2>2. CASE Outcome(watermark, m) = "applied"
    BY <2>1, <2>2, <1>1, <1>2, <1>3, Decided, MessageTypes DEF Handle
  <2>3. CASE Outcome(watermark, m) \in {"duplicate", "superseded"}
    <3>1. /\ watermark' = watermark /\ storedSettings' = storedSettings
          /\ m.sequence <= watermark.sequence
      BY <2>3, <1>1, <1>2, <1>3, Decided DEF Handle
    <3>2. watermark # NoMessage
      BY <3>1, <1>3, MessageTypes
    <3>. QED  BY <3>1, <3>2, <2>1, <1>2 DEF AtNewest
  <2>. QED  BY <2>2, <2>3, <1>1, Decided DEF Handle
<1>5. watermark' \in Message
  BY <1>1, <1>2, <1>4 DEF LifecycleTypeOK
<1>6. LifecycleTypeOK'
  <2>1. Outcome(watermark, m) \in {"applied", "duplicate", "superseded"}
    BY <1>1, Decided DEF Handle
  <2>2. watermark'.sequence \in 1..MaxSequence
    BY <1>5 DEF Message
  <2>3. receipts' \subseteq Receipt
    BY <2>1, <2>2, <1>1, <1>2 DEF Handle, LifecycleTypeOK, Receipt
  <2>4. storedSettings' \in Message \cup {NoMessage}
    BY <1>4, <1>5 DEF Effect
  <2>. QED  BY <2>3, <2>4, <1>1, <1>2, <1>5 DEF LifecycleTypeOK
<1>7. StreamNumbered'
  BY <1>2 DEF StreamNumbered
<1>8. OfTheStream'
  <2>1. \A r \in receipts' : r \in receipts \/ r.message = m
    BY DEF Handle
  <2>. QED  BY <2>1, <1>1, <1>2 DEF OfTheStream
<1>9. AtNewest'
  BY <1>4 DEF AtNewest, NoMessage
<1>. QED  BY <1>6, <1>7, <1>8, <1>9

\* The other actions move messages and receipts about.
LEMMA CarriageKeeps ==
  ASSUME LifecycleInv,
         \/ \E m \in Message : Deliver(m)
         \/ \E m \in attempts : LoseAttempt(m)
         \/ \E receipt \in receipts : LoseReceipt(receipt) \/ Acknowledge(receipt)
  PROVE  LifecycleInv'
<1>. USE DEF LifecycleInv
<1>1. ASSUME NEW m \in Message, Deliver(m) PROVE LifecycleInv'
  BY <1>1 DEF Deliver, LifecycleTypeOK, StreamNumbered, OfTheStream, AtNewest, Receipt
<1>2. ASSUME NEW m \in attempts, LoseAttempt(m) PROVE LifecycleInv'
  BY <1>2 DEF LoseAttempt, LifecycleTypeOK, StreamNumbered, OfTheStream, AtNewest, Receipt
<1>3. ASSUME NEW r \in receipts, LoseReceipt(r) PROVE LifecycleInv'
  BY <1>3 DEF LoseReceipt, LifecycleTypeOK, StreamNumbered, OfTheStream, AtNewest, Receipt
<1>4. ASSUME NEW r \in receipts, Acknowledge(r) PROVE LifecycleInv'
  <2>1. r.message \in Message /\ r.message \in handled
    BY <1>4 DEF LifecycleTypeOK, Receipt, OfTheStream
  <2>. QED
    BY <2>1, <1>4 DEF Acknowledge, LifecycleTypeOK, StreamNumbered, OfTheStream, AtNewest
<1>. QED  BY <1>1, <1>2, <1>3, <1>4

LEMMA Steps == LifecycleInv /\ [LifecycleNext]_lifecycleVars => LifecycleInv'
<1>. SUFFICES ASSUME LifecycleInv, [LifecycleNext]_lifecycleVars PROVE LifecycleInv'
  OBVIOUS
<1>1. ASSUME NEW m \in Message, Create(m) PROVE LifecycleInv'
  BY <1>1, CreateKeeps
<1>2. ASSUME NEW m \in attempts, Handle(m) PROVE LifecycleInv'
  BY <1>2, HandleKeeps
<1>3. CASE UNCHANGED lifecycleVars
  BY <1>3 DEF lifecycleVars, LifecycleInv, LifecycleTypeOK, StreamNumbered, OfTheStream,
              AtNewest
<1>. QED  BY <1>1, <1>2, <1>3, CarriageKeeps DEF LifecycleNext

-----------------------------------------------------------------------------
LEMMA InvKept == LifecycleSpec => []LifecycleInv
BY Initially, Steps, PTL DEF LifecycleSpec

\* Whatever was lost, repeated or late, the receiver holds the newest of the
\* messages it has answered, the platform's receipts stay covered, a closed
\* installation stays closed on an orderly stream, and settings that are stored
\* pass the check of every read.
THEOREM HoldsTheNewest == LifecycleSpec => []ReceiverAtNewest
<1>1. ASSUME LifecycleInv PROVE ReceiverAtNewest
  <2>. USE <1>1 DEF LifecycleInv
  <2>1. NewestHolds
    <3>. SUFFICES ASSUME NEW m \in handled, \A q \in handled : q.sequence <= m.sequence
                  PROVE  watermark = m /\ storedSettings = Effect(m)
      BY DEF NewestHolds
    <3>1. watermark \in handled /\ m.sequence <= watermark.sequence
          /\ watermark.sequence <= m.sequence
      BY DEF AtNewest
    <3>2. m.sequence \in Nat /\ watermark.sequence \in Nat
      BY <3>1, MessageTypes DEF LifecycleTypeOK
    <3>. QED  BY <3>1, <3>2 DEF AtNewest, OfTheStream, StreamNumbered
  <2>2. DeliveredIsCovered
    BY DEF DeliveredIsCovered, OfTheStream, AtNewest
  <2>3. ClosedStaysClosed
    <3>. SUFFICES ASSUME Orderly, NEW m \in handled, m.action = "uninstall"
                  PROVE  storedSettings.installation # m.installation
      BY DEF ClosedStaysClosed
    <3>1. m \in Message /\ m \in stream /\ watermark \in handled /\ watermark \in stream
          /\ watermark \in Message /\ m.sequence <= watermark.sequence
      BY DEF LifecycleTypeOK, AtNewest, OfTheStream
    <3>2. CASE watermark.action = "install"
      <4>1. watermark.sequence > m.sequence
        BY <3>1, <3>2, MessageTypes DEF StreamNumbered
      <4>. QED  BY <4>1, <3>1, <3>2 DEF Orderly, AtNewest, Effect
    <3>3. CASE watermark.action # "install"
      BY <3>1, <3>3, MessageTypes DEF AtNewest, Effect
    <3>. QED  BY <3>2, <3>3
  <2>4. StoredSettingsValid
    BY MessageTypes
       DEF StoredSettingsValid, ValidateLifecycleOAuth, AtNewest, Effect, LifecycleTypeOK
  <2>. QED  BY <2>1, <2>2, <2>3, <2>4 DEF ReceiverAtNewest
<1>. QED  BY <1>1, InvKept, PTL

\* The receiver implements the stream: every step of the platform, the network and
\* the receiver is a message created, one taken that is newer than the one that
\* held, or nothing that the stream sees.
THEOREM ImplementsStream == LifecycleSpec => StreamMovesForward
<1>1. LifecycleInit => Stream!StreamInit
  BY DEF LifecycleInit, Stream!StreamInit
<1>2. ASSUME LifecycleInv, [LifecycleNext]_lifecycleVars
      PROVE  [Stream!StreamNext]_<<stream, watermark>>
  <2>1. ASSUME NEW m \in Message, Create(m) PROVE Stream!Created
    <3>1. \A q \in stream : q.sequence < m.sequence
      <4>1. Cardinality(stream) \in Nat
        BY <1>2, FS_CardinalityType DEF LifecycleInv, StreamNumbered
      <4>2. \A q \in stream : q.sequence \in Nat /\ q.sequence <= Cardinality(stream)
        BY <1>2, MessageTypes DEF LifecycleInv, LifecycleTypeOK, StreamNumbered
      <4>. QED  BY <4>1, <4>2, <2>1 DEF Create
    <3>. QED  BY <3>1, <2>1 DEF Create, Stream!Created
  <2>2. ASSUME NEW m \in attempts, Handle(m), Outcome(watermark, m) = "applied"
        PROVE  Stream!Taken
    <3>1. m \in Message /\ m \in stream /\ watermark \in Message \cup {NoMessage}
      BY <1>2 DEF LifecycleInv, LifecycleTypeOK, OfTheStream
    <3>. QED  BY <3>1, <2>2, Decided DEF Handle, Stream!Taken
  <2>3. ASSUME NEW m \in attempts, Handle(m), Outcome(watermark, m) # "applied"
        PROVE  UNCHANGED <<stream, watermark>>
    BY <2>3 DEF Handle, DecideLifecycle
  <2>4. CASE \/ \E m \in Message : Deliver(m)
             \/ \E m \in attempts : LoseAttempt(m)
             \/ \E receipt \in receipts : LoseReceipt(receipt) \/ Acknowledge(receipt)
             \/ UNCHANGED lifecycleVars
    BY <2>4 DEF Deliver, LoseAttempt, LoseReceipt, Acknowledge, lifecycleVars
  <2>. QED  BY <1>2, <2>1, <2>2, <2>3, <2>4 DEF LifecycleNext, Stream!StreamNext
<1>. QED  BY <1>1, <1>2, InvKept, PTL DEF LifecycleSpec, StreamMovesForward, Stream!StreamSpec

-----------------------------------------------------------------------------
(* Lookups.                                                                *)
(*                                                                         *)
(* The argument: the sources in progress are the calls of visit, each once *)
(* and each a parameter of the one below; a source that is done needs only *)
(* such as were done before it, so that no circle is among them, and of    *)
(* any sources left one needs none of the others.                          *)

Frame == [key : Sources, left : SUBSET UNION {Needs(k) : k \in Sources}]

SearchTypes ==
  /\ colour \in [Sources -> 0..2]
  /\ stack \in Seq(Frame)
  /\ verdict \in {"checking", "accepted", "invalidFileImportSource", "unknownSource",
                  "cyclicSourceDependencies", "parentParameterRequired", "resolveRequired"}
  /\ resolved \subseteq Sources

\* A parameter that visit has turned to is done, or it is the one being visited.
TurnedTo(i) ==
  \A p \in Needs(stack[i].key) \ stack[i].left :
    /\ p \in Sources
    /\ colour[p] = 2 \/ (i < Len(stack) /\ p = stack[i + 1].key)

OnThePath ==
  /\ \A i \in 1..Len(stack) :
       /\ colour[stack[i].key] = 1 /\ FileProper(stack[i].key)
       /\ stack[i].left \subseteq Needs(stack[i].key)
       /\ TurnedTo(i)
       /\ \A j \in 1..Len(stack) : stack[i].key = stack[j].key => i = j
  /\ \A i \in 1..(Len(stack) - 1) :
       stack[i + 1].key \in Needs(stack[i].key) \ stack[i].left
  /\ \A k \in Sources : colour[k] = 1 => \E i \in 1..Len(stack) : stack[i].key = k

Done == {k \in Sources : colour[k] = 2}

DoneRight ==
  /\ \A k \in Done : /\ Needs(k) \subseteq Done /\ FileProper(k)
                     /\ "resolve" \in catalog[k].supports
  /\ \A S \in SUBSET Done : ~Circle(S)

Concluded == (verdict = "accepted" => Done = Sources) /\ CyclicForCause

AskedRight ==
  /\ exchange.phase \in {"none", "asked", "answered"}
  /\ exchange.phase # "none" => verdict = "accepted"
  /\ exchange.phase = "asked" =>
       /\ exchange.request.mode \in Modes \cup {"prepareCopy", "validate"}
       /\ exchange.request.mode \in Modes =>
            exchange.request.source \in Sources /\ exchange.request.inputs \in Nat
       /\ exchange.request.mode = "resolve" => exchange.request.ids \subseteq Id

AnsweredRight == AnswersWhatWasAsked /\ FilesCanBeIdentified /\ StatusFitsIssues

LookupInv ==
  SearchTypes /\ OnThePath /\ DoneRight /\ Concluded /\ AskedRight /\ AnsweredRight
-----------------------------------------------------------------------------
(* Numbers and sequences. *)

LEMMA LeastNatural ==
  ASSUME NEW S \in SUBSET Nat, S # {}
  PROVE  \E m \in S : \A k \in S : m <= k
<1>. DEFINE T == {0..m : m \in S}
            R == StrictSubsetOrdering(Nat)
<1>1. T \subseteq FiniteSubsetsOf(Nat) /\ T # {}
  <2>1. \A m \in S : IsFiniteSet(0..m) /\ 0..m \subseteq Nat
    BY FS_Interval
  <2>. QED  BY <2>1 DEF FiniteSubsetsOf
<1>2. PICK t \in T : \A u \in T : <<u, t>> \notin R
  <2>. HIDE DEF T, R
  <2>1. IsWellFoundedOn(R, FiniteSubsetsOf(Nat))
    BY FS_StrictSubsetOrderingWellFounded DEF R
  <2>. QED  BY <1>1, <2>1, WFMin, Zenon
<1>3. PICK m \in S : t = 0..m
  BY <1>2
<1>4. ASSUME NEW k \in S, k < m PROVE FALSE
  <2>1. /\ 0..k \in T /\ 0..k \subseteq 0..m /\ 0..k # 0..m
        /\ 0..k \subseteq Nat /\ 0..m \subseteq Nat
    BY <1>4
  <2>. QED  BY <2>1, <1>2, <1>3 DEF StrictSubsetOrdering
<1>. QED  BY <1>4

\* The calls below the last one, and the last one.
LEMMA UpTo == \A n \in Nat : IsFiniteSet(1..n) /\ Cardinality(1..n) = n
BY FS_Interval

LEMMA StackParts ==
  ASSUME NEW F, NEW s \in Seq(F), s # <<>>
  PROVE  /\ Len(s) \in Nat \ {0} /\ Last(s) = s[Len(s)] /\ Last(s) \in F
         /\ Front(s) \in Seq(F) /\ Len(Front(s)) = Len(s) - 1
         /\ \A i \in 1..(Len(s) - 1) : Front(s)[i] = s[i]
<1>1. Len(s) \in Nat \ {0} /\ s \in [1..Len(s) -> F]
  BY EmptySeq, LenProperties
<1>2. Last(s) = s[Len(s)] /\ Last(s) \in F
  BY <1>1 DEF Last
<1>3. /\ Front(s) \in Seq(F) /\ Len(Front(s)) = Len(s) - 1
      /\ \A i \in 1..(Len(s) - 1) : Front(s)[i] = s[i]
  BY <1>1, SubSeqProperties DEF Front
<1>. QED  BY <1>1, <1>2, <1>3

LEMMA BoundedSeqIsSeq ==
  ASSUME NEW F, NEW n \in Nat, NEW s \in SeqOf(F, n)
  PROVE  s \in Seq(F)
<1>1. PICK m \in 0..n : s \in [1..m -> F]
  BY DEF SeqOf
<1>. QED  BY <1>1

LEMMA Appended ==
  ASSUME NEW F, NEW s \in Seq(F), NEW e \in F
  PROVE  /\ Append(s, e) \in Seq(F) /\ Len(Append(s, e)) = Len(s) + 1
         /\ Append(s, e)[Len(s) + 1] = e /\ \A i \in 1..Len(s) : Append(s, e)[i] = s[i]
         /\ Len(s) \in Nat /\ \A i \in 1..Len(s) : s[i] \in F
BY AppendProperties, LenProperties

-----------------------------------------------------------------------------
(* What the answers say. *)

\* The sum of the issues is what the worst of them says (ValidationResult.Validate).
LEMMA WorstIssueCounts ==
  ASSUME NEW issues \in Seq({"error", "review", "info"})
  PROVE  Expected(issues) = IF "error" \in ToSet(issues) THEN "blocked"
                            ELSE IF "review" \in ToSet(issues) THEN "needsReview" ELSE "passed"
<1>. DEFINE n == Len(issues)
            step(g, m) == IF m = 0 THEN "passed"
                          ELSE IF g[m - 1] = "blocked" \/ issues[m] = "error" THEN "blocked"
                          ELSE IF issues[m] = "review" THEN "needsReview" ELSE g[m - 1]
            some(m, i) == \E k \in 1..m : issues[k] = i
            h == [m \in 0..n |-> IF some(m, "error") THEN "blocked"
                                 ELSE IF some(m, "review") THEN "needsReview" ELSE "passed"]
            upTo == CHOOSE g : g = [m \in 0..n |-> step(g, m)]
<1>1. n \in Nat /\ issues \in [1..n -> {"error", "review", "info"}]
  BY LenProperties
<1>2. ASSUME NEW m \in 0..n PROVE h[m] = step(h, m)
  <2>1. CASE m = 0
    BY <2>1
  <2>2. CASE m # 0
    <3>1. m \in 1..n /\ m - 1 \in 0..n
      BY <1>1, <2>2
    <3>2. \A i : some(m, i) <=> some(m - 1, i) \/ issues[m] = i
      BY <3>1, <1>1
    <3>3. /\ h[m] = IF some(m, "error") THEN "blocked"
                    ELSE IF some(m, "review") THEN "needsReview" ELSE "passed"
          /\ h[m - 1] = IF some(m - 1, "error") THEN "blocked"
                        ELSE IF some(m - 1, "review") THEN "needsReview" ELSE "passed"
      BY <3>1
    <3>. HIDE DEF h, some
    <3>4. step(h, m) = IF h[m - 1] = "blocked" \/ issues[m] = "error" THEN "blocked"
                       ELSE IF issues[m] = "review" THEN "needsReview" ELSE h[m - 1]
      BY <2>2
    <3>5. CASE some(m, "error")
      BY <3>2, <3>3, <3>4, <3>5
    <3>6. CASE ~some(m, "error")
      <4>1. ~some(m - 1, "error") /\ issues[m] # "error"
        BY <3>2, <3>6
      <4>2. h[m - 1] # "blocked"
        BY <4>1, <3>3
      <4>. QED  BY <4>1, <4>2, <3>2, <3>3, <3>4, <3>6
    <3>. QED  BY <3>5, <3>6
  <2>. QED  BY <2>1, <2>2
<1>3. h = [m \in 0..n |-> step(h, m)]
  BY <1>2
<1>4. upTo = [m \in 0..n |-> step(upTo, m)]
  <2>1. \E g : g = [m \in 0..n |-> step(g, m)]
    BY <1>3
  <2>. QED  BY <2>1
<1>. HIDE DEF h, upTo
<1>5. \A m \in 0..n : upTo[m] = h[m]
  <2>. DEFINE Bad == {m \in 0..n : upTo[m] # h[m]}
  <2>. SUFFICES ASSUME Bad # {} PROVE FALSE
    OBVIOUS
  <2>1. PICK m \in Bad : \A k \in Bad : m <= k
    <3>1. Bad \in SUBSET Nat
      OBVIOUS
    <3>. HIDE DEF Bad
    <3>. QED  BY <3>1, LeastNatural
  <2>2. upTo[m] = step(upTo, m) /\ h[m] = step(h, m)
    BY <1>2, <1>4
  <2>3. CASE m = 0
    BY <2>2, <2>3, <2>1
  <2>4. CASE m # 0
    <3>1. m - 1 \in 0..n /\ m - 1 \notin Bad
      BY <1>1, <2>1, <2>4
    <3>2. upTo[m - 1] = h[m - 1]
      BY <3>1
    <3>. QED  BY <2>2, <3>2, <2>1
  <2>. QED  BY <2>3, <2>4
<1>6. Expected(issues) = upTo[n]
  BY DEF Expected, upTo
<1>7. upTo[n] = h[n]
  BY <1>1, <1>5
<1>8. \A i : some(n, i) <=> i \in ToSet(issues)
  BY <1>1 DEF ToSet
<1>9. h[n] = IF some(n, "error") THEN "blocked"
             ELSE IF some(n, "review") THEN "needsReview" ELSE "passed"
  BY <1>1 DEF h
<1>. QED  BY <1>6, <1>7, <1>8, <1>9

\* As many items as identities: no two items are one resource.
LEMMA NoItemTwice ==
  ASSUME NEW items \in Seq([id : Id, proper : BOOLEAN]),
         Cardinality({items[i].id : i \in DOMAIN items}) = Len(items)
  PROVE  IsInjective(items)
<1>. DEFINE ids == {items[i].id : i \in DOMAIN items}
            idAt == [i \in 1..Len(items) |-> items[i].id]
<1>1. Len(items) \in Nat /\ DOMAIN items = 1..Len(items)
  BY LenProperties
<1>2. IsFiniteSet(1..Len(items)) /\ Cardinality(1..Len(items)) = Len(items)
  BY <1>1, UpTo
<1>3. idAt \in Surjection(1..Len(items), ids)
  BY <1>1 DEF Surjection
<1>4. idAt \in Injection(1..Len(items), ids)
  <2>. HIDE DEF idAt, ids
  <2>1. Cardinality(1..Len(items)) = Cardinality(ids)
    BY <1>2 DEF ids
  <2>. QED  BY <1>2, <1>3, <2>1, FS_SurjSameCardinalityImpliesInj
<1>. QED  BY <1>1, <1>4 DEF Injection, IsInjective

\* As many different numbers below n as there are numbers below n: each of them once.
LEMMA OneMatchEach ==
  ASSUME NEW n \in Nat, NEW matches \in Seq(Nat), Len(matches) = n,
         \A i \in DOMAIN matches :
           matches[i] < n /\ \A k \in 1..(i - 1) : matches[k] # matches[i]
  PROVE  \A m \in 0..(n - 1) : Cardinality({i \in DOMAIN matches : matches[i] = m}) = 1
<1>1. DOMAIN matches = 1..n /\ \A i \in 1..n : matches[i] \in 0..(n - 1)
  BY LenProperties
<1>2. matches \in [1..n -> 0..(n - 1)]
  BY <1>1, LenProperties
<1>3. ASSUME NEW i \in 1..n, NEW k \in 1..n, matches[i] = matches[k] PROVE i = k
  <2>1. CASE i < k
    <3>1. i \in 1..(k - 1)
      BY <2>1
    <3>. QED  BY <3>1, <1>1, <1>3
  <2>2. CASE k < i
    <3>1. k \in 1..(i - 1)
      BY <2>2
    <3>. QED  BY <3>1, <1>1, <1>3
  <2>. QED  BY <2>1, <2>2
<1>4. matches \in Injection(1..n, 0..(n - 1))
  BY <1>2, <1>3 DEF Injection, IsInjective
<1>5. /\ IsFiniteSet(1..n) /\ Cardinality(1..n) = n
      /\ IsFiniteSet(0..(n - 1)) /\ Cardinality(0..(n - 1)) = n
  BY FS_Interval
<1>6. matches \in Surjection(1..n, 0..(n - 1))
  BY <1>4, <1>5, FS_Injection
<1>7. ASSUME NEW m \in 0..(n - 1)
      PROVE  Cardinality({i \in DOMAIN matches : matches[i] = m}) = 1
  <2>1. PICK i \in 1..n : matches[i] = m
    BY <1>6 DEF Surjection
  <2>2. {k \in DOMAIN matches : matches[k] = m} = {i}
    BY <1>1, <1>3, <2>1
  <2>. QED  BY <2>2, FS_Singleton
<1>. QED  BY <1>7

-----------------------------------------------------------------------------
LEMMA LookupInitially == LookupInit => LookupInv
<1>. SUFFICES ASSUME LookupInit PROVE LookupInv
  OBVIOUS
<1>1. stack = <<>> /\ Len(stack) = 0
  BY DEF LookupInit
<1>2. SearchTypes
  BY EmptySeq DEF LookupInit, SearchTypes
<1>3. OnThePath
  BY <1>1 DEF LookupInit, OnThePath, TurnedTo
<1>4. Done = {}
  BY DEF LookupInit, Done
<1>5. DoneRight
  BY <1>4 DEF DoneRight, Circle
<1>6. Concluded /\ AskedRight /\ AnsweredRight
  BY DEF LookupInit, Concluded, CyclicForCause, AskedRight, NoExchange, AnsweredRight,
         AnswersWhatWasAsked, FilesCanBeIdentified, StatusFitsIssues
<1>. QED  BY <1>2, <1>3, <1>5, <1>6 DEF LookupInv

\* The path of the calls stays what it is as long as the search does not go on.
LEMMA PathStands ==
  ASSUME OnThePath, UNCHANGED <<catalog, colour, stack>>
  PROVE  OnThePath'
<1>1. ASSUME NEW i \in 1..Len(stack)
      PROVE  /\ (colour[stack[i].key] = 1)' /\ FileProper(stack[i].key)'
             /\ (stack[i].left \subseteq Needs(stack[i].key))'
             /\ \A j \in 1..Len(stack) : (stack[i].key = stack[j].key => i = j)'
  BY DEF OnThePath, FileProper, Needs, Sources
<1>2. ASSUME NEW i \in 1..Len(stack) PROVE TurnedTo(i)'
  <2>1. TurnedTo(i)
    BY DEF OnThePath
  <2>. QED  BY <2>1 DEF TurnedTo, Needs, Sources
<1>3. \A i \in 1..(Len(stack) - 1) : (stack[i + 1].key \in Needs(stack[i].key) \ stack[i].left)'
  BY DEF OnThePath, Needs
<1>4. (\A k \in Sources : colour[k] = 1 => \E i \in 1..Len(stack) : stack[i].key = k)'
  BY DEF OnThePath, Sources
<1>5. Len(stack') = Len(stack)
  OBVIOUS
<1>. QED  BY <1>1, <1>2, <1>3, <1>4, <1>5 DEF OnThePath

\* Whatever the search does before it has come to a verdict leaves the rest as it is.
LEMMA SearchLeavesTheRest ==
  ASSUME LookupInv, Checking,
         SearchTypes', OnThePath', DoneRight', Concluded'
  PROVE  LookupInv'
<1>1. exchange.phase = "none" /\ exchange' = exchange
  BY DEF LookupInv, AskedRight, Checking
<1>2. AskedRight' /\ AnsweredRight'
  BY <1>1 DEF AskedRight, AnsweredRight, AnswersWhatWasAsked, FilesCanBeIdentified,
              StatusFitsIssues
<1>. QED  BY <1>2 DEF LookupInv

\* A verdict against the catalog changes nothing else.
LEMMA VerdictKeeps ==
  ASSUME LookupInv, Checking, UNCHANGED <<colour, stack>>,
         verdict' \in {"invalidFileImportSource", "unknownSource", "cyclicSourceDependencies",
                       "parentParameterRequired", "resolveRequired"},
         verdict' = "cyclicSourceDependencies" => \E S \in SUBSET Sources : Circle(S)
  PROVE  LookupInv'
<1>. USE DEF LookupInv
<1>1. UNCHANGED <<catalog, colour, stack, resolved>>
  BY DEF Checking
<1>2. SearchTypes'
  BY <1>1 DEF SearchTypes, Frame, Sources, Needs
<1>3. OnThePath'
  BY <1>1, PathStands
<1>4. DoneRight'
  BY <1>1 DEF DoneRight, Done, FileProper, Sources, Needs, Circle
<1>5. Concluded'
  <2>1. (\E S \in SUBSET Sources : Circle(S)) => (\E S \in SUBSET Sources : Circle(S))'
    BY <1>1 DEF Circle, Sources, Needs
  <2>. QED  BY <2>1 DEF Concluded, CyclicForCause
<1>. QED  BY <1>2, <1>3, <1>4, <1>5, SearchLeavesTheRest

\* One source more that was not in progress, on top of calls that are a path to it.
LEMMA EntersKeeps ==
  ASSUME LookupInv, Checking, NEW k \in Sources, colour[k] = 0,
         NEW rest, Enters(k, rest),
         rest \in Seq(Frame), Len(rest) = Len(stack),
         \A i \in 1..Len(stack) : rest[i].key = stack[i].key,
         \A i \in 1..(Len(stack) - 1) : rest[i] = stack[i],
         Len(stack) > 0 => /\ rest[Len(stack)].left \subseteq stack[Len(stack)].left
                           /\ k \in stack[Len(stack)].left \ rest[Len(stack)].left
                           /\ stack[Len(stack)].left \ rest[Len(stack)].left \subseteq {k}
  PROVE  LookupInv'
<1>. USE DEF LookupInv
<1>. DEFINE n == Len(stack)
<1>0. verdict = "checking" /\ UNCHANGED <<catalog, resolved, exchange>>
  BY DEF Checking
<1>1. CASE ~FileProper(k)
  <2>1. colour' = colour /\ stack' = stack /\ verdict' = "invalidFileImportSource"
    BY <1>1 DEF Enters, Fails
  <2>. QED  BY <1>0, <2>1, VerdictKeeps
<1>2. CASE FileProper(k)
  <2>. DEFINE frame == [key |-> k, left |-> Needs(k)]
  <2>1. colour' = [colour EXCEPT ![k] = 1] /\ stack' = Append(rest, frame) /\ verdict' = verdict
    BY <1>2 DEF Enters
  <2>2. frame \in Frame /\ Sources' = Sources /\ Frame' = Frame
    BY <1>0 DEF Frame, Sources, Needs
  <2>3. /\ n \in Nat /\ stack' \in Seq(Frame) /\ Len(stack') = n + 1 /\ stack'[n + 1] = frame
        /\ \A i \in 1..n : stack'[i] = rest[i] /\ rest[i] \in Frame /\ stack[i] \in Frame
    BY <2>1, <2>2, Appended DEF SearchTypes
  <2>4. /\ colour' \in [Sources -> 0..2] /\ colour'[k] = 1
        /\ \A j \in Sources \ {k} : colour'[j] = colour[j]
    BY <2>1 DEF SearchTypes
  <2>5. SearchTypes'
    BY <1>0, <2>1, <2>2, <2>3, <2>4 DEF SearchTypes
  <2>6. Done' = Done /\ k \notin Done
    BY <2>2, <2>4 DEF Done
  <2>7. \A j : FileProper(j)' = FileProper(j) /\ Needs(j)' = Needs(j)
    BY <1>0 DEF FileProper, Needs
  <2>8. \A S : Circle(S)' = Circle(S)
    BY <2>7 DEF Circle
  <2>9. DoneRight'
    BY <1>0, <2>6, <2>7, <2>8 DEF DoneRight
  <2>10. Concluded'
    BY <1>0, <2>1 DEF Concluded, CyclicForCause
  <2>11. \A i \in 1..n : /\ stack'[i].key = stack[i].key /\ stack[i].key \in Sources
                         /\ colour[stack[i].key] = 1 /\ stack[i].key # k
    BY <2>3 DEF OnThePath, Frame
  <2>12. stack'[n + 1].key = k /\ stack'[n + 1].left = Needs(k)
    BY <2>3
  <2>13. OnThePath'
    <3>1. ASSUME NEW i \in 1..(n + 1)
          PROVE  /\ colour'[stack'[i].key] = 1 /\ FileProper(stack'[i].key)
                 /\ stack'[i].left \subseteq Needs(stack'[i].key)
                 /\ \A j \in 1..(n + 1) : stack'[i].key = stack'[j].key => i = j
      <4>1. CASE i = n + 1
        <5>1. \A j \in 1..(n + 1) : j = n + 1 \/ j \in 1..n
          BY <2>3
        <5>. QED  BY <4>1, <5>1, <2>4, <2>11, <2>12, <1>2
      <4>2. CASE i # n + 1
        <5>1. i \in 1..n /\ stack'[i].left \subseteq stack[i].left
          <6>1. i \in 1..n
            BY <4>2, <2>3
          <6>2. CASE i \in 1..(n - 1)
            BY <6>1, <6>2, <2>3
          <6>3. CASE i = n
            BY <6>1, <6>3, <2>3
          <6>. QED  BY <6>1, <6>2, <6>3, <2>3
        <5>2. /\ stack'[i].key = stack[i].key /\ stack[i].key \in Sources
              /\ colour[stack[i].key] = 1 /\ stack[i].key # k
          BY <5>1, <2>11
        <5>3. /\ FileProper(stack[i].key) /\ stack[i].left \subseteq Needs(stack[i].key)
              /\ \A j \in 1..n : stack[i].key = stack[j].key => i = j
          BY <5>1 DEF OnThePath
        <5>4. \A j \in 1..(n + 1) : stack'[i].key = stack'[j].key => i = j
          <6>1. \A j \in 1..(n + 1) : j = n + 1 \/ j \in 1..n
            BY <2>3
          <6>. QED  BY <6>1, <5>2, <5>3, <2>11, <2>12
        <5>5. colour'[stack'[i].key] = 1
          BY <5>2, <2>4
        <5>. QED  BY <5>1, <5>2, <5>3, <5>4, <5>5
      <4>. QED  BY <4>1, <4>2
    <3>2. ASSUME NEW i \in 1..(n + 1)
          PROVE  TurnedTo(i)'
      <4>. SUFFICES ASSUME NEW p \in Needs(stack'[i].key) \ stack'[i].left
                    PROVE  /\ p \in Sources
                           /\ colour'[p] = 2 \/ (i < n + 1 /\ p = stack'[i + 1].key)
        BY <2>2, <2>3, <2>7 DEF TurnedTo
      <4>1. i # n + 1
        BY <2>12
      <4>2. i \in 1..n /\ stack'[i].key = stack[i].key
        BY <4>1, <2>3, <2>11
      <4>3. CASE p \in stack[i].left
        <5>1. i = n
          <6>1. i \in 1..(n - 1) => stack'[i] = stack[i]
            BY <2>3
          <6>. QED  BY <6>1, <4>2, <4>3, <2>3
        <5>. QED  BY <5>1, <4>2, <4>3, <2>3, <2>12
      <4>4. CASE p \notin stack[i].left
        <5>1. /\ p \in Sources
              /\ colour[p] = 2 \/ (i < n /\ p = stack[i + 1].key)
          BY <4>2, <4>4 DEF OnThePath, TurnedTo
        <5>2. colour[p] = 2 => colour'[p] = 2
          BY <5>1, <2>4
        <5>3. i < n => i + 1 \in 1..n /\ i < n + 1
          BY <4>2, <2>3
        <5>. QED  BY <5>1, <5>2, <5>3, <2>11
      <4>. QED  BY <4>3, <4>4
    <3>3. ASSUME NEW i \in 1..n
          PROVE  stack'[i + 1].key \in Needs(stack'[i].key) \ stack'[i].left
      <4>1. CASE i = n
        BY <4>1, <2>3, <2>7, <2>11, <2>12 DEF OnThePath
      <4>2. CASE i # n
        <5>1. i \in 1..(n - 1) /\ i + 1 \in 1..n
          BY <4>2, <2>3
        <5>2. stack'[i] = stack[i] /\ stack'[i + 1].key = stack[i + 1].key
          BY <5>1, <2>3, <2>11
        <5>3. stack[i + 1].key \in Needs(stack[i].key) \ stack[i].left
          BY <5>1 DEF OnThePath
        <5>. QED  BY <5>2, <5>3
      <4>. QED  BY <4>1, <4>2
    <3>4. ASSUME NEW j \in Sources, colour'[j] = 1
          PROVE  \E i \in 1..(n + 1) : stack'[i].key = j
      <4>1. CASE j = k
        BY <4>1, <2>3, <2>12
      <4>2. CASE j # k
        <5>1. PICK i \in 1..n : stack[i].key = j
          BY <3>4, <4>2, <2>4 DEF OnThePath
        <5>. QED  BY <5>1, <2>3, <2>11
      <4>. QED  BY <4>1, <4>2
    <3>5. Len(stack') = n + 1 /\ (Len(stack) - 1)' = n /\ Sources' = Sources
      BY <2>2, <2>3
    <3>6. \A i \in 1..Len(stack') : TurnedTo(i)'
      BY <3>2, <3>5
    <3>7. \A i \in 1..Len(stack') :
            (FileProper(stack[i].key)' /\ (stack[i].left \subseteq Needs(stack[i].key))')
      BY <1>0, <3>1, <3>5 DEF FileProper, Needs
    <3>8. \A i \in 1..n : (stack[i + 1].key \in Needs(stack[i].key) \ stack[i].left)'
      BY <1>0, <3>3 DEF Needs
    <3>. QED  BY <3>1, <3>4, <3>5, <3>6, <3>7, <3>8 DEF OnThePath
  <2>. QED  BY <2>5, <2>9, <2>10, <2>13, SearchLeavesTheRest
<1>. QED  BY <1>1, <1>2

LEMMA VisitNextKeeps ==
  ASSUME LookupInv, VisitNext
  PROVE  LookupInv'
<1>1. stack = <<>> /\ Checking
  BY DEF VisitNext
<1>2. PICK k \in Sources : colour[k] = 0 /\ Enters(k, <<>>)
  BY DEF VisitNext
<1>3. <<>> \in Seq(Frame) /\ Len(stack) = 0 /\ Len(<<>>) = Len(stack)
  BY <1>1, EmptySeq
<1>4. PICK rest \in Seq(Frame) : rest = <<>> /\ Len(rest) = Len(stack)
  BY <1>3
<1>5. 1..Len(stack) = {} /\ 1..(Len(stack) - 1) = {} /\ ~(Len(stack) > 0)
  BY <1>3
<1>6. Enters(k, rest)
  BY <1>2, <1>4
<1>. QED  BY <1>1, <1>2, <1>4, <1>5, <1>6, EntersKeeps

\* A parameter that is in progress closes a circle: the sources from it up to the top.
LEMMA GreyParameterCloses ==
  ASSUME LookupInv, NEW p \in Sources, stack # <<>>, p \in Top.left, colour[p] = 1
  PROVE  \E S \in SUBSET Sources : Circle(S)
<1>. DEFINE n == Len(stack)
<1>1. n \in Nat \ {0} /\ \A i \in 1..n : stack[i] \in Frame
  BY StackParts, LenProperties DEF LookupInv, SearchTypes
<1>2. PICK j \in 1..n : stack[j].key = p
  BY DEF LookupInv, OnThePath
<1>. DEFINE S == {stack[i].key : i \in j..n}
<1>3. S \subseteq Sources /\ p \in S
  BY <1>1, <1>2 DEF Frame
<1>4. ASSUME NEW i \in j..n PROVE Needs(stack[i].key) \cap S # {}
  <2>1. CASE i = n
    <3>1. p \in Needs(stack[n].key)
      BY <1>1 DEF Top, Last, LookupInv, OnThePath
    <3>. QED  BY <2>1, <3>1, <1>3
  <2>2. CASE i # n
    <3>1. i \in 1..(n - 1) /\ i + 1 \in j..n
      BY <1>1, <1>2, <2>2
    <3>2. stack[i + 1].key \in Needs(stack[i].key)
      BY <3>1 DEF LookupInv, OnThePath
    <3>. QED  BY <3>1, <3>2
  <2>. QED  BY <2>1, <2>2
<1>5. Circle(S)
  BY <1>3, <1>4 DEF Circle
<1>. QED  BY <1>3, <1>5

LEMMA VisitParameterKeeps ==
  ASSUME LookupInv, VisitParameter
  PROVE  LookupInv'
<1>. USE DEF LookupInv
<1>. DEFINE n == Len(stack)
<1>1. stack # <<>> /\ Checking
  BY DEF VisitParameter
<1>2. PICK p \in Top.left :
        LET rest == Append(Front(stack), [Top EXCEPT !.left = @ \ {p}]) IN
        IF p \notin Sources THEN Fails("unknownSource")
        ELSE IF colour[p] = 1 THEN Fails("cyclicSourceDependencies")
        ELSE IF colour[p] = 2 THEN stack' = rest /\ UNCHANGED <<colour, verdict>>
        ELSE Enters(p, rest)
  BY DEF VisitParameter
<1>. DEFINE top == [Top EXCEPT !.left = @ \ {p}]
            rest == Append(Front(stack), top)
<1>3. /\ n \in Nat \ {0} /\ Top = stack[n] /\ Top \in Frame
      /\ Front(stack) \in Seq(Frame) /\ Len(Front(stack)) = n - 1
      /\ \A i \in 1..(n - 1) : Front(stack)[i] = stack[i]
  BY <1>1, StackParts DEF SearchTypes, Top
<1>4. /\ top \in Frame /\ top.key = stack[n].key /\ top.left = stack[n].left \ {p}
  BY <1>3 DEF Frame
<1>5. /\ rest \in Seq(Frame) /\ Len(rest) = n /\ rest[n] = top
      /\ \A i \in 1..(n - 1) : rest[i] = stack[i]
  <2>. HIDE DEF top
  <2>1. /\ rest \in Seq(Frame) /\ Len(rest) = (n - 1) + 1 /\ rest[(n - 1) + 1] = top
        /\ \A i \in 1..(n - 1) : rest[i] = Front(stack)[i]
    BY <1>3, <1>4, Appended
  <2>2. (n - 1) + 1 = n
    BY <1>3
  <2>. QED  BY <1>3, <2>1, <2>2
<1>6. \A i \in 1..n : rest[i].key = stack[i].key
  <2>1. \A i \in 1..n : i = n \/ i \in 1..(n - 1)
    BY <1>3
  <2>. QED  BY <2>1, <1>4, <1>5
<1>. HIDE DEF top, rest
<1>7. CASE p \notin Sources
  BY <1>1, <1>2, <1>7, VerdictKeeps DEF Fails
<1>8. CASE p \in Sources /\ colour[p] = 1
  <2>1. \E S \in SUBSET Sources : Circle(S)
    BY <1>1, <1>8, GreyParameterCloses
  <2>. QED  BY <1>1, <1>2, <1>8, <2>1, VerdictKeeps DEF Fails
<1>9. CASE p \in Sources /\ colour[p] = 2
  <2>1. stack' = rest /\ colour' = colour /\ verdict' = verdict
        /\ UNCHANGED <<catalog, resolved, exchange>>
    BY <1>1, <1>2, <1>9 DEF rest, top, Checking
  <2>2. SearchTypes'
    BY <2>1, <1>5 DEF SearchTypes, Frame, Sources, Needs
  <2>3. DoneRight' /\ Concluded'
    <3>1. DoneRight'
      BY <2>1 DEF DoneRight, Done, FileProper, Sources, Needs, Circle
    <3>2. verdict' = "checking"
      BY <1>1, <2>1 DEF Checking
    <3>. QED  BY <3>1, <3>2 DEF Concluded, CyclicForCause
  <2>4. \A k : FileProper(k)' = FileProper(k) /\ Needs(k)' = Needs(k)
    BY <2>1 DEF FileProper, Needs
  <2>5. ASSUME NEW i \in 1..n
        PROVE  /\ rest[i].left \subseteq stack[i].left
               /\ stack[i].left \ rest[i].left \subseteq {p}
    BY <1>3, <1>4, <1>5
  <2>6. OnThePath'
    <3>1. ASSUME NEW i \in 1..n
          PROVE  /\ colour'[stack'[i].key] = 1 /\ FileProper(stack'[i].key)
                 /\ stack'[i].left \subseteq Needs(stack'[i].key)
                 /\ \A j \in 1..n : stack'[i].key = stack'[j].key => i = j
      BY <1>6, <2>1, <2>5 DEF OnThePath
    <3>2. ASSUME NEW i \in 1..n, NEW q \in Needs(stack'[i].key) \ stack'[i].left
          PROVE  /\ q \in Sources
                 /\ colour'[q] = 2 \/ (i < n /\ q = stack'[i + 1].key)
      <4>1. CASE q = p
        BY <4>1, <1>9, <2>1
      <4>2. CASE q # p
        <5>1. q \in Needs(stack[i].key) \ stack[i].left
          BY <4>2, <1>6, <2>1, <2>5
        <5>2. q \in Sources /\ (colour[q] = 2 \/ (i < n /\ q = stack[i + 1].key))
          BY <5>1 DEF OnThePath, TurnedTo
        <5>3. i < n => i + 1 \in 1..n
          BY <1>3
        <5>. QED  BY <5>2, <5>3, <1>6, <2>1
      <4>. QED  BY <4>1, <4>2
    <3>3. ASSUME NEW i \in 1..(n - 1)
          PROVE  stack'[i + 1].key \in Needs(stack'[i].key) \ stack'[i].left
      <4>1. i \in 1..n /\ i + 1 \in 1..n
        BY <1>3
      <4>. QED  BY <4>1, <1>6, <2>1, <2>5 DEF OnThePath
    <3>4. \A k \in Sources : colour'[k] = 1 => \E i \in 1..n : stack'[i].key = k
      BY <1>6, <2>1 DEF OnThePath
    <3>5. Len(stack') = n /\ Sources' = Sources
      BY <1>5, <2>1 DEF Sources
    <3>6. \A i \in 1..Len(stack') : TurnedTo(i)'
      BY <3>2, <3>5, <2>1 DEF TurnedTo, Needs
    <3>7. \A i \in 1..Len(stack') :
            FileProper(stack[i].key)' /\ (stack[i].left \subseteq Needs(stack[i].key))'
      BY <2>1, <3>1, <3>5 DEF FileProper, Needs
    <3>8. \A i \in 1..(n - 1) :
            (stack[i + 1].key \in Needs(stack[i].key) \ stack[i].left)'
      BY <2>1, <3>3 DEF Needs
    <3>. QED  BY <3>1, <3>4, <3>5, <3>6, <3>7, <3>8 DEF OnThePath
  <2>. QED  BY <1>1, <2>2, <2>3, <2>6, SearchLeavesTheRest
<1>10. CASE p \in Sources /\ colour[p] # 1 /\ colour[p] # 2
  <2>1. colour[p] = 0 /\ Enters(p, rest)
    BY <1>2, <1>10 DEF rest, top, SearchTypes
  <2>2. p \in stack[n].left
    BY <1>3
  <2>. QED  BY <1>1, <1>3, <1>4, <1>5, <1>6, <1>10, <2>1, <2>2, EntersKeeps
<1>. QED  BY <1>7, <1>8, <1>9, <1>10

\* A source that needs only such as are done is in no circle with them.
LEMMA NoCircleWithOneMore ==
  ASSUME DoneRight, NEW k \in Sources \ Done, Needs(k) \subseteq Done,
         NEW S \in SUBSET (Done \cup {k}), Circle(S)
  PROVE  FALSE
<1>1. S \ {k} # {}
  BY DEF Circle
<1>2. ASSUME NEW j \in S \ {k} PROVE Needs(j) \cap (S \ {k}) # {}
  BY DEF Circle, DoneRight
<1>3. Circle(S \ {k}) /\ S \ {k} \in SUBSET Done
  BY <1>1, <1>2 DEF Circle
<1>. QED  BY <1>3 DEF DoneRight

LEMMA VisitEndsKeeps ==
  ASSUME LookupInv, VisitEnds
  PROVE  LookupInv'
<1>. USE DEF LookupInv
<1>. DEFINE n == Len(stack)
<1>1. stack # <<>> /\ Checking /\ Top.left = {} /\ verdict = "checking"
  BY DEF VisitEnds, Checking
<1>2. PICK k : k = Top.key
  OBVIOUS
<1>3. /\ n \in Nat \ {0} /\ Top = stack[n] /\ Top \in Frame
      /\ Front(stack) \in Seq(Frame) /\ Len(Front(stack)) = n - 1
      /\ \A i \in 1..(n - 1) : Front(stack)[i] = stack[i]
  BY <1>1, StackParts DEF SearchTypes, Top
<1>4. k \in Sources /\ k = stack[n].key /\ stack[n].left = {}
  BY <1>1, <1>2, <1>3 DEF Frame
<1>5. n \in 1..n /\ colour[k] = 1 /\ FileProper(k)
  BY <1>3, <1>4 DEF OnThePath
<1>6. CASE verdict' \in {"parentParameterRequired", "resolveRequired"}
  <2>1. UNCHANGED <<colour, stack>>
    BY <1>1, <1>6 DEF VisitEnds, Fails
  <2>. QED  BY <1>1, <1>6, <2>1, VerdictKeeps
<1>7. CASE verdict' \notin {"parentParameterRequired", "resolveRequired"}
  <2>1. /\ "resolve" \in catalog[k].supports /\ colour' = [colour EXCEPT ![k] = 2]
        /\ stack' = Front(stack) /\ verdict' = verdict
        /\ UNCHANGED <<catalog, resolved, exchange>>
    BY <1>2, <1>7 DEF VisitEnds, Fails, Checking
  <2>2. /\ colour' \in [Sources -> 0..2] /\ colour'[k] = 2
        /\ \A j \in Sources \ {k} : colour'[j] = colour[j]
    BY <2>1, <1>4 DEF SearchTypes
  <2>3. /\ stack' \in Seq(Frame) /\ Len(stack') = n - 1
        /\ \A i \in 1..(n - 1) : stack'[i] = stack[i]
    BY <2>1, <1>3
  <2>4. SearchTypes'
    BY <2>1, <2>2, <2>3 DEF SearchTypes, Frame, Sources, Needs
  <2>5. \A j : FileProper(j)' = FileProper(j) /\ Needs(j)' = Needs(j)
    BY <2>1 DEF FileProper, Needs
  <2>6. Sources' = Sources /\ Done' = Done \cup {k} /\ k \notin Done
    BY <2>1, <2>2, <1>4, <1>5 DEF Done, Sources
  <2>7. Needs(k) \subseteq Done
    <3>1. ASSUME NEW p \in Needs(k) PROVE p \in Sources /\ colour[p] = 2
      BY <1>3, <1>4, <1>5 DEF OnThePath, TurnedTo
    <3>. QED  BY <3>1 DEF Done
  <2>8. DoneRight'
    <3>1. \A j \in Done \cup {k} : /\ Needs(j) \subseteq Done \cup {k} /\ FileProper(j)
                                   /\ "resolve" \in catalog[j].supports
      BY <1>5, <2>1, <2>7 DEF DoneRight
    <3>2. \A S \in SUBSET (Done \cup {k}) : ~Circle(S)
      BY <1>4, <2>6, <2>7, NoCircleWithOneMore
    <3>3. \A S : Circle(S)' = Circle(S)
      BY <2>5 DEF Circle
    <3>. QED  BY <2>1, <2>5, <2>6, <3>1, <3>2, <3>3 DEF DoneRight
  <2>9. Concluded'
    BY <1>1, <2>1 DEF Concluded, CyclicForCause
  <2>10. OnThePath'
    <3>1. ASSUME NEW i \in 1..(n - 1)
          PROVE  i \in 1..n /\ i # n /\ stack[i].key \in Sources /\ stack[i].key # k
      <4>1. i \in 1..n /\ i # n
        BY <1>3
      <4>2. stack[i] \in Frame
        BY <4>1, LenProperties DEF SearchTypes
      <4>. QED  BY <4>1, <4>2, <1>4, <1>5 DEF OnThePath, Frame
    <3>2. ASSUME NEW i \in 1..(n - 1)
          PROVE  /\ colour'[stack'[i].key] = 1 /\ FileProper(stack'[i].key)
                 /\ stack'[i].left \subseteq Needs(stack'[i].key)
                 /\ \A j \in 1..(n - 1) : stack'[i].key = stack'[j].key => i = j
      <4>1. stack'[i] = stack[i] /\ i \in 1..n /\ stack[i].key \in Sources \ {k}
        BY <2>3, <3>1
      <4>2. /\ colour[stack[i].key] = 1 /\ FileProper(stack[i].key)
            /\ stack[i].left \subseteq Needs(stack[i].key)
            /\ \A j \in 1..n : stack[i].key = stack[j].key => i = j
        BY <4>1 DEF OnThePath
      <4>3. \A j \in 1..(n - 1) : stack'[i].key = stack'[j].key => i = j
        BY <2>3, <3>1, <4>1, <4>2
      <4>. QED  BY <2>2, <4>1, <4>2, <4>3
    <3>3. ASSUME NEW i \in 1..(n - 1), NEW q \in Needs(stack'[i].key) \ stack'[i].left
          PROVE  /\ q \in Sources
                 /\ colour'[q] = 2 \/ (i < n - 1 /\ q = stack'[i + 1].key)
      <4>1. q \in Sources /\ (colour[q] = 2 \/ (i < n /\ q = stack[i + 1].key))
        BY <2>3, <3>1 DEF OnThePath, TurnedTo
      <4>2. CASE colour[q] = 2
        BY <4>1, <4>2, <1>5, <2>2
      <4>3. CASE i = n - 1 /\ q = stack[i + 1].key
        <5>1. q = k
          BY <4>3, <1>3, <1>4
        <5>. QED  BY <4>1, <5>1, <2>2
      <4>4. CASE i < n - 1 /\ q = stack[i + 1].key
        <5>1. i + 1 \in 1..(n - 1)
          BY <4>4, <1>3
        <5>. QED  BY <4>1, <4>4, <5>1, <2>3
      <4>5. i < n => i = n - 1 \/ i < n - 1
        BY <1>3
      <4>. QED  BY <4>1, <4>2, <4>3, <4>4, <4>5
    <3>4. ASSUME NEW i \in 1..((n - 1) - 1)
          PROVE  stack'[i + 1].key \in Needs(stack'[i].key) \ stack'[i].left
      <4>1. i \in 1..(n - 1) /\ i + 1 \in 1..(n - 1)
        BY <1>3
      <4>. QED  BY <4>1, <2>3 DEF OnThePath
    <3>5. ASSUME NEW j \in Sources, colour'[j] = 1
          PROVE  \E i \in 1..(n - 1) : stack'[i].key = j
      <4>1. j # k /\ colour[j] = 1
        BY <3>5, <2>2
      <4>2. PICK i \in 1..n : stack[i].key = j
        BY <4>1 DEF OnThePath
      <4>3. i \in 1..(n - 1)
        BY <4>1, <4>2, <1>3, <1>4
      <4>. QED  BY <4>2, <4>3, <2>3
    <3>6. Len(stack') = n - 1 /\ Sources' = Sources
      BY <2>3, <2>6
    <3>7. \A i \in 1..Len(stack') : TurnedTo(i)'
      BY <2>1, <3>3, <3>6 DEF TurnedTo, Needs
    <3>8. \A i \in 1..Len(stack') :
            FileProper(stack[i].key)' /\ (stack[i].left \subseteq Needs(stack[i].key))'
      BY <2>1, <3>2, <3>6 DEF FileProper, Needs
    <3>9. \A i \in 1..((n - 1) - 1) :
            (stack[i + 1].key \in Needs(stack[i].key) \ stack[i].left)'
      BY <2>1, <3>4 DEF Needs
    <3>. QED  BY <3>2, <3>5, <3>6, <3>7, <3>8, <3>9 DEF OnThePath
  <2>. QED  BY <1>1, <2>4, <2>8, <2>9, <2>10, SearchLeavesTheRest
<1>. QED  BY <1>6, <1>7

LEMMA AcceptKeeps ==
  ASSUME LookupInv, Accept
  PROVE  LookupInv'
<1>. USE DEF LookupInv
<1>1. Checking /\ UNCHANGED <<catalog, colour, stack, resolved, exchange>>
      /\ verdict' = "accepted" /\ Done = Sources
  BY DEF Accept, Checking, Done
<1>2. SearchTypes'
  BY <1>1 DEF SearchTypes, Frame, Sources, Needs
<1>3. OnThePath'
  BY <1>1, PathStands
<1>4. DoneRight'
  BY <1>1 DEF DoneRight, Done, FileProper, Sources, Needs, Circle
<1>5. Concluded'
  BY <1>1 DEF Concluded, CyclicForCause, Done, Sources
<1>. QED  BY <1>1, <1>2, <1>3, <1>4, <1>5, SearchLeavesTheRest

\* After the search, its part of the invariant stays what it is.
LEMMA SearchIsOver ==
  ASSUME LookupInv, verdict = "accepted", UNCHANGED <<catalog, colour, stack, verdict>>,
         resolved' \subseteq Sources
  PROVE  (SearchTypes /\ OnThePath /\ DoneRight /\ Concluded)'
<1>. USE DEF LookupInv
<1>1. SearchTypes'
  BY DEF SearchTypes, Frame, Sources, Needs
<1>2. OnThePath'
  BY PathStands
<1>3. DoneRight'
  BY DEF DoneRight, Done, FileProper, Sources, Needs, Circle
<1>4. Concluded'
  BY DEF Concluded, CyclicForCause, Done, Sources
<1>. QED  BY <1>1, <1>2, <1>3, <1>4

LEMMA CallsBackKeeps ==
  ASSUME LookupInv, NEW r, CallsBack(r),
         r.mode \in Modes \cup {"prepareCopy", "validate"},
         r.mode \in Modes => r.source \in Sources /\ r.inputs \in Nat,
         r.mode = "resolve" => r.ids \subseteq Id
  PROVE  LookupInv'
<1>. USE DEF LookupInv
<1>1. /\ verdict = "accepted" /\ UNCHANGED <<catalog, colour, stack, verdict, resolved>>
      /\ exchange' = [phase |-> "asked", request |-> r]
  BY DEF CallsBack
<1>2. exchange'.phase = "asked" /\ exchange'.request = r
  BY <1>1
<1>3. (SearchTypes /\ OnThePath /\ DoneRight /\ Concluded)'
  BY <1>1, SearchIsOver DEF SearchTypes
<1>4. AskedRight'
  BY <1>1, <1>2 DEF AskedRight, Sources
<1>5. AnsweredRight'
  BY <1>2 DEF AnsweredRight, AnswersWhatWasAsked, FilesCanBeIdentified, StatusFitsIssues
<1>. QED  BY <1>3, <1>4, <1>5

LEMMA AskLookupKeeps ==
  ASSUME LookupInv, NEW mode \in Modes, NEW source \in Sources, NEW limited, NEW given,
         AskLookup(mode, source, given, limited)
  PROVE  LookupInv'
<1>1. PICK ids \in SUBSET Id \ {{}}, inputs \in 1..MaxInputs, fits \in BOOLEAN :
        CallsBack([mode |-> mode, source |-> source, given |-> given, limited |-> limited,
                   fits |-> fits, ids |-> ids, inputs |-> inputs])
  BY DEF AskLookup
<1>2. inputs \in Nat
  BY LookupAssumption
<1>3. PICK r : r = [mode |-> mode, source |-> source, given |-> given, limited |-> limited,
                    fits |-> fits, ids |-> ids, inputs |-> inputs]
  OBVIOUS
<1>4. CallsBack(r)
  BY <1>1, <1>3
<1>5. r.mode = mode /\ r.source = source /\ r.inputs = inputs /\ r.ids = ids
  BY <1>3
<1>. QED  BY <1>2, <1>4, <1>5, CallsBackKeeps

\* What is answered leaves the search alone; what is left to see is what it says.
LEMMA AnswersKeeps ==
  ASSUME LookupInv, exchange.phase = "asked", NEW a, NEW valid, Answers(a, valid),
         resolved' \subseteq Sources,
         (valid /\ exchange.request.mode = "resolve" =>
            Items(a) \subseteq exchange.request.ids /\ IsInjective(a.items)),
         (valid /\ exchange.request.mode = "identify" =>
            \A n \in 0..(exchange.request.inputs - 1) :
              Cardinality({i \in DOMAIN a.matches : a.matches[i] = n}) = 1),
         (valid /\ exchange.request.mode = "prepareCopy" => ValidReference(a)),
         (valid /\ exchange.request.mode = "validate" =>
            /\ ("error" \in ToSet(a.issues)) = (a.status = "blocked")
            /\ a.status = "passed" => ToSet(a.issues) \subseteq {"info"})
  PROVE  LookupInv'
<1>. USE DEF LookupInv
<1>1. PICK r : r = exchange.request
  OBVIOUS
<1>2. /\ verdict = "accepted" /\ UNCHANGED <<catalog, colour, stack, verdict>>
      /\ exchange' = [phase |-> "answered", request |-> r, answer |-> a, valid |-> valid]
  BY <1>1 DEF Answers, AskedRight
<1>3. exchange'.phase = "answered" /\ exchange'.request = r /\ exchange'.answer = a
      /\ exchange'.valid = valid
  BY <1>2
<1>4. (SearchTypes /\ OnThePath /\ DoneRight /\ Concluded)'
  BY <1>2, SearchIsOver
<1>5. AskedRight'
  BY <1>2, <1>3 DEF AskedRight
<1>6. AnswersWhatWasAsked'
  BY <1>1, <1>3 DEF AnswersWhatWasAsked, Items
<1>7. FilesCanBeIdentified'
  <2>1. SUFFICES ASSUME r.mode = "prepareCopy", valid, a.file
                 PROVE  ValidLookup([mode |-> "identify", source |-> a.source, given |-> {},
                                     limited |-> FALSE, fits |-> TRUE])'
    BY <1>3 DEF FilesCanBeIdentified
  <2>2. a.source \in Sources /\ catalog[a.source].file
    BY <1>1, <2>1 DEF ValidReference
  <2>3. Needs(a.source) = {} /\ "identify" \in catalog[a.source].supports
    BY <1>2, <2>2 DEF Concluded, DoneRight, FileProper
  <2>4. Required(a.source) = {}
    BY <2>3 DEF Required
  <2>5. ValidLookup([mode |-> "identify", source |-> a.source, given |-> {},
                     limited |-> FALSE, fits |-> TRUE])
    BY <2>2, <2>3, <2>4 DEF ValidLookup
  <2>. QED  BY <1>2, <2>5 DEF ValidLookup, Required, Needs, Sources
<1>8. StatusFitsIssues'
  BY <1>1, <1>3 DEF StatusFitsIssues
<1>. QED  BY <1>4, <1>5, <1>6, <1>7, <1>8 DEF AnsweredRight

LEMMA CallbackAnsweredKeeps ==
  ASSUME LookupInv, CallbackAnswered
  PROVE  LookupInv'
<1>. USE DEF LookupInv
<1>1. exchange.phase = "asked"
  BY DEF CallbackAnswered
<1>2. PICK r : r = exchange.request
  OBVIOUS
<1>3. /\ r.mode \in Modes \cup {"prepareCopy", "validate"}
      /\ r.mode \in Modes => r.source \in Sources /\ r.inputs \in Nat
      /\ resolved \subseteq Sources
  BY <1>1, <1>2 DEF AskedRight, SearchTypes
<1>4. CASE r.mode \in {"resolve", "search"}
  <2>1. PICK items \in SeqOf([id : Id, proper : BOOLEAN], 2), more \in BOOLEAN :
          LET a == [items |-> items, more |-> more] IN
          /\ Answers(a, ValidItems(r, a))
          /\ resolved' = IF ValidItems(r, a) /\ items # <<>>
                         THEN resolved \cup {r.source} ELSE resolved
    BY <1>2, <1>4 DEF CallbackAnswered
  <2>2. PICK a : a = [items |-> items, more |-> more]
    OBVIOUS
  <2>3. a.items = items /\ items \in Seq([id : Id, proper : BOOLEAN])
    BY <2>2, BoundedSeqIsSeq
  <2>4. Answers(a, ValidItems(r, a)) /\ resolved' \subseteq Sources
    BY <1>3, <1>4, <2>1, <2>2 DEF Modes
  <2>5. ValidItems(r, a) /\ r.mode = "resolve" =>
          Items(a) \subseteq r.ids /\ IsInjective(a.items)
    <3>1. SUFFICES ASSUME ValidItems(r, a), r.mode = "resolve"
                   PROVE  Items(a) \subseteq r.ids /\ IsInjective(a.items)
      OBVIOUS
    <3>2. Items(a) \subseteq r.ids /\ Cardinality(Items(a)) = Len(items)
      BY <3>1, <2>3 DEF ValidItems
    <3>3. IsInjective(items)
      BY <2>3, <3>2, NoItemTwice DEF Items
    <3>. QED  BY <2>3, <3>2, <3>3
  <2>6. r.mode \notin {"identify", "prepareCopy", "validate"}
    BY <1>4
  <2>. QED  BY <1>1, <1>2, <2>4, <2>5, <2>6, AnswersKeeps
<1>5. CASE r.mode = "identify"
  <2>1. PICK matches \in SeqOf(0..MaxInputs, MaxInputs + 1) :
          LET a == [matches |-> matches] IN
          Answers(a, ValidMatches(r, a)) /\ UNCHANGED resolved
    BY <1>2, <1>5 DEF CallbackAnswered
  <2>2. PICK a : a = [matches |-> matches]
    OBVIOUS
  <2>3. a.matches = matches /\ matches \in Seq(Nat)
    BY <2>2, LookupAssumption DEF SeqOf
  <2>4. Answers(a, ValidMatches(r, a)) /\ resolved' \subseteq Sources
    BY <1>3, <2>1, <2>2
  <2>5. ValidMatches(r, a) => \A n \in 0..(r.inputs - 1) :
          Cardinality({i \in DOMAIN a.matches : a.matches[i] = n}) = 1
    <3>1. SUFFICES ASSUME ValidMatches(r, a)
                   PROVE  \A n \in 0..(r.inputs - 1) :
                            Cardinality({i \in DOMAIN matches : matches[i] = n}) = 1
      BY <2>3
    <3>2. r.inputs \in Nat
      BY <1>3, <1>5 DEF Modes
    <3>. QED  BY <2>3, <3>1, <3>2, OneMatchEach DEF ValidMatches
  <2>. QED  BY <1>1, <1>2, <1>5, <2>4, <2>5, AnswersKeeps
<1>6. CASE r.mode = "prepareCopy"
  <2>1. PICK ref : Answers(ref, ValidReference(ref)) /\ UNCHANGED resolved
    BY <1>2, <1>6 DEF CallbackAnswered
  <2>. QED  BY <1>1, <1>2, <1>3, <1>6, <2>1, AnswersKeeps
<1>7. CASE r.mode = "validate"
  <2>1. PICK issues \in SeqOf({"error", "review", "info"}, 2),
             status \in {"passed", "needsReview", "blocked"} :
          /\ Answers([issues |-> issues, status |-> status], status = Expected(issues))
          /\ UNCHANGED resolved
    BY <1>2, <1>7 DEF CallbackAnswered
  <2>2. PICK a : a = [issues |-> issues, status |-> status]
    OBVIOUS
  <2>3. a.issues = issues /\ a.status = status /\ issues \in Seq({"error", "review", "info"})
    <3>1. issues \in Seq({"error", "review", "info"})
      BY BoundedSeqIsSeq
    <3>. QED  BY <2>2, <3>1
  <2>4. status = Expected(issues) =>
          /\ ("error" \in ToSet(issues)) = (status = "blocked")
          /\ status = "passed" => ToSet(issues) \subseteq {"info"}
    <3>1. ToSet(issues) \subseteq {"error", "review", "info"}
      BY <2>3, LenProperties DEF ToSet
    <3>. QED  BY <2>3, <3>1, WorstIssueCounts
  <2>5. Answers(a, status = Expected(issues)) /\ resolved' \subseteq Sources
    BY <1>3, <2>1, <2>2
  <2>. QED  BY <1>1, <1>2, <1>7, <2>3, <2>4, <2>5, AnswersKeeps
<1>. QED  BY <1>3, <1>4, <1>5, <1>6, <1>7 DEF Modes

-----------------------------------------------------------------------------
\* Of the sources that are left, one needs none of the others.
LEMMA LookupInvSuffices == LookupInv => LookupsWork
<1>. SUFFICES ASSUME LookupInv PROVE LookupsWork
  OBVIOUS
<1>. USE DEF LookupInv
<1>1. LookupTypeOK
  <2>1. DOMAIN stack = 1..Len(stack) /\ \A i \in 1..Len(stack) : stack[i].key \in Sources
    <3>1. DOMAIN stack = 1..Len(stack) /\ \A i \in 1..Len(stack) : stack[i] \in Frame
      BY LenProperties DEF SearchTypes
    <3>. QED  BY <3>1 DEF Frame
  <2>2. {k \in Sources : colour[k] = 1} = {stack[i].key : i \in DOMAIN stack}
    <3>1. \A i \in 1..Len(stack) : colour[stack[i].key] = 1
      BY DEF OnThePath
    <3>2. \A k \in Sources : colour[k] = 1 => \E i \in 1..Len(stack) : stack[i].key = k
      BY DEF OnThePath
    <3>. QED  BY <2>1, <3>1, <3>2
  <2>. QED  BY <2>2 DEF LookupTypeOK, SearchTypes, OnThePath
<1>2. AcceptedIsWellFounded
  BY DEF AcceptedIsWellFounded, Concluded, DoneRight
<1>3. SomeSourceReady
  <2>1. SUFFICES ASSUME verdict = "accepted", resolved # Sources
                 PROVE  \E k \in Sources \ resolved :
                          ValidLookup([mode |-> "resolve", source |-> k,
                                       given |-> Required(k) \cap resolved,
                                       limited |-> FALSE, fits |-> TRUE])
    BY DEF SomeSourceReady
  <2>2. Sources \ resolved # {} /\ ~Circle(Sources \ resolved) /\ Done = Sources
    BY <2>1 DEF SearchTypes, Concluded, DoneRight
  <2>3. PICK k \in Sources \ resolved : Needs(k) \cap (Sources \ resolved) = {}
    BY <2>2 DEF Circle
  <2>4. "resolve" \in catalog[k].supports /\ Needs(k) \subseteq resolved
    BY <2>2, <2>3 DEF DoneRight
  <2>5. Required(k) \subseteq Needs(k) \cap Sources /\ Required(k) \cap resolved = Required(k)
    BY <2>4 DEF Required, SearchTypes
  <2>6. ValidLookup([mode |-> "resolve", source |-> k, given |-> Required(k) \cap resolved,
                     limited |-> FALSE, fits |-> TRUE])
    BY <2>4, <2>5 DEF ValidLookup
  <2>. QED  BY <2>6
<1>. QED  BY <1>1, <1>2, <1>3 DEF LookupsWork, Concluded, AnsweredRight

\* An accepted catalog can be used, and its answers can be trusted (LookupsWork;
\* schemetransfer/validation.go, source_runtime.go, runtime.go): for any catalogs of
\* sources and any identities.
THEOREM LookupsCanBeUsed == LookupSpec => []LookupsWork
<1>1. ASSUME LookupInv, [LookupNext]_lookupVars PROVE LookupInv'
  <2>1. CASE UNCHANGED lookupVars
    <3>. USE <1>1, <2>1 DEF lookupVars, LookupInv
    <3>1. SearchTypes'
      BY DEF SearchTypes, Frame, Needs, Sources
    <3>2. OnThePath'
      BY PathStands
    <3>3. DoneRight'
      BY DEF DoneRight, Done, Circle, Needs, Sources, FileProper
    <3>4. Concluded'
      BY DEF Concluded, Done, CyclicForCause, Circle, Needs, Sources
    <3>5. AskedRight'
      BY DEF AskedRight, Sources
    <3>6. AnsweredRight'
      <4>1. AnswersWhatWasAsked' /\ StatusFitsIssues'
        BY DEF AnsweredRight, AnswersWhatWasAsked, StatusFitsIssues
      <4>2. FilesCanBeIdentified'
        BY DEF AnsweredRight, FilesCanBeIdentified, ValidLookup, Required, Needs, Sources
      <4>. QED  BY <4>1, <4>2 DEF AnsweredRight
    <3>. QED  BY <3>1, <3>2, <3>3, <3>4, <3>5, <3>6
  <2>2. CASE VisitNext
    BY <1>1, <2>2, VisitNextKeeps
  <2>3. CASE VisitParameter
    BY <1>1, <2>3, VisitParameterKeeps
  <2>4. CASE VisitEnds
    BY <1>1, <2>4, VisitEndsKeeps
  <2>5. CASE Accept
    BY <1>1, <2>5, AcceptKeeps
  <2>6. ASSUME NEW mode \in Modes, NEW source \in Sources, NEW limited \in BOOLEAN,
               NEW given \in SUBSET Needs(source), AskLookup(mode, source, given, limited)
        PROVE  LookupInv'
    BY <1>1, <2>6, AskLookupKeeps
  <2>7. CASE AskCopy \/ AskValidation
    <3>1. PICK m \in {"prepareCopy", "validate"} : CallsBack([mode |-> m])
      BY <2>7 DEF AskCopy, AskValidation
    <3>2. PICK r : r = [mode |-> m]
      OBVIOUS
    <3>3. r.mode = m /\ CallsBack(r) /\ r.mode \notin Modes /\ r.mode # "resolve"
      BY <3>1, <3>2 DEF Modes
    <3>. QED  BY <1>1, <3>3, CallsBackKeeps
  <2>8. CASE CallbackAnswered
    BY <1>1, <2>8, CallbackAnsweredKeeps
  <2>. QED  BY <1>1, <2>1, <2>2, <2>3, <2>4, <2>5, <2>6, <2>7, <2>8 DEF LookupNext
<1>2. LookupSpec => []LookupInv
  BY <1>1, LookupInitially, PTL DEF LookupSpec
<1>. QED  BY <1>2, LookupInvSuffices, PTL

-----------------------------------------------------------------------------
(* Copies.                                                                 *)
(*                                                                         *)
(* The argument: the settings of the builder are the original document     *)
(* with null at its references and nothing below them; values put back at  *)
(* places of which none is below another may be put back all at once, each *)
(* as it was; and places apart from all those moved out are where they     *)
(* were, so that a proper call finds what it names.                        *)

(* Paths. *)

PathSet == Seq(Nat)

LEMMA PrefixIs ==
  ASSUME NEW p \in PathSet, NEW q \in PathSet
  PROVE  IsPrefix(p, q) <=> Len(p) <= Len(q) /\ \A i \in 1..Len(p) : p[i] = q[i]
<1>. USE DEF PathSet
<1>1. Len(p) \in Nat /\ Len(q) \in Nat
  BY LenProperties
<1>2. CASE Len(p) <= Len(q)
  <2>1. /\ Len(SubSeq(p, 1, Len(p))) = Len(p) /\ SubSeq(p, 1, Len(p)) \in PathSet
        /\ \A i \in 1..Len(p) : SubSeq(p, 1, Len(p))[i] = p[i]
    BY <1>1, SubSeqProperties
  <2>2. /\ Len(SubSeq(q, 1, Len(p))) = Len(p) /\ SubSeq(q, 1, Len(p)) \in PathSet
        /\ \A i \in 1..Len(p) : SubSeq(q, 1, Len(p))[i] = q[i]
    BY <1>1, <1>2, SubSeqProperties
  <2>3. SubSeq(p, 1, Len(p)) = SubSeq(q, 1, Len(p)) <=> \A i \in 1..Len(p) : p[i] = q[i]
    BY <2>1, <2>2, SeqEqual
  <2>. QED  BY <1>2, <2>3 DEF IsPrefix
<1>3. CASE ~(Len(p) <= Len(q))
  BY <1>3 DEF IsPrefix
<1>. QED  BY <1>2, <1>3

\* What a path is followed by.
LEMMA Followed ==
  ASSUME NEW p \in PathSet, NEW r \in PathSet
  PROVE  p \o r \in PathSet /\ IsPrefix(p, p \o r) /\ Rest(p, p \o r) = r
<1>. USE DEF PathSet
<1>1. /\ Len(p) \in Nat /\ Len(r) \in Nat /\ p \o r \in PathSet
      /\ Len(p \o r) = Len(p) + Len(r)
      /\ \A i \in 1..Len(p) + Len(r) :
           (p \o r)[i] = IF i <= Len(p) THEN p[i] ELSE r[i - Len(p)]
  BY LenProperties, ConcatProperties
<1>2. IsPrefix(p, p \o r)
  <2>1. \A i \in 1..Len(p) : i \in 1..Len(p) + Len(r) /\ (p \o r)[i] = p[i]
    BY <1>1
  <2>2. PICK s \in PathSet : s = p \o r
    BY <1>1
  <2>3. Len(p) <= Len(s) /\ \A i \in 1..Len(p) : p[i] = s[i]
    BY <1>1, <2>1, <2>2
  <2>4. IsPrefix(p, s)
    BY <2>3, PrefixIs
  <2>. QED  BY <2>2, <2>4
<1>3. Rest(p, p \o r) = r
  <2>. DEFINE s == p \o r
              rest == SubSeq(s, Len(p) + 1, Len(s))
  <2>1. /\ rest \in PathSet /\ Len(rest) = Len(r)
        /\ \A i \in 1..Len(r) : rest[i] = s[Len(p) + i]
    BY <1>1, SubSeqProperties
  <2>2. \A i \in 1..Len(r) : s[Len(p) + i] = r[i]
    BY <1>1
  <2>3. rest = r
    <3>. HIDE DEF rest, s
    <3>. QED  BY <2>1, <2>2, SeqEqual
  <2>. QED  BY <2>3 DEF Rest
<1>. QED  BY <1>1, <1>2, <1>3

LEMMA Continued ==
  ASSUME NEW p \in PathSet, NEW q \in PathSet, IsPrefix(p, q)
  PROVE  Rest(p, q) \in PathSet /\ p \o Rest(p, q) = q
<1>. USE DEF PathSet
<1>1. /\ Len(p) \in Nat /\ Len(q) \in Nat /\ Len(p) <= Len(q)
      /\ \A i \in 1..Len(p) : p[i] = q[i]
  BY LenProperties, PrefixIs
<1>. DEFINE rest == SubSeq(q, Len(p) + 1, Len(q))
<1>2. /\ rest \in PathSet /\ Len(rest) = Len(q) - Len(p)
      /\ \A i \in 1..Len(q) - Len(p) : rest[i] = q[Len(p) + i]
  BY <1>1, SubSeqProperties
<1>. HIDE DEF rest
<1>3. /\ p \o rest \in PathSet /\ Len(p \o rest) = Len(q)
      /\ \A i \in 1..Len(q) : (p \o rest)[i] = IF i <= Len(p) THEN p[i] ELSE rest[i - Len(p)]
  BY <1>1, <1>2, ConcatProperties
<1>4. ASSUME NEW i \in 1..Len(q) PROVE (p \o rest)[i] = q[i]
  <2>1. CASE i <= Len(p)
    BY <1>1, <1>3, <2>1
  <2>2. CASE ~(i <= Len(p))
    <3>1. i - Len(p) \in 1..Len(q) - Len(p) /\ Len(p) + (i - Len(p)) = i
      BY <1>1, <2>2
    <3>. QED  BY <1>2, <1>3, <2>2, <3>1
  <2>. QED  BY <2>1, <2>2
<1>5. p \o rest = q
  BY <1>3, <1>4, SeqEqual
<1>. QED  BY <1>2, <1>5 DEF Rest, rest

LEMMA PrefixOrder ==
  /\ \A p \in PathSet : IsPrefix(p, p)
  /\ \A p, q \in PathSet : IsPrefix(p, q) /\ IsPrefix(q, p) => p = q
  /\ \A p, q, x \in PathSet :
       IsPrefix(p, x) /\ IsPrefix(q, x) => IsPrefix(p, q) \/ IsPrefix(q, p)
<1>1. \A p \in PathSet : IsPrefix(p, p)
  BY PrefixIs, LenProperties DEF PathSet
<1>2. ASSUME NEW p \in PathSet, NEW q \in PathSet, IsPrefix(p, q), IsPrefix(q, p)
      PROVE  p = q
  <2>1. Len(p) \in Nat /\ Len(q) \in Nat
    BY LenProperties DEF PathSet
  <2>2. Len(p) <= Len(q) /\ Len(q) <= Len(p) /\ \A i \in 1..Len(p) : p[i] = q[i]
    BY <1>2, PrefixIs
  <2>3. Len(p) = Len(q)
    BY <2>1, <2>2
  <2>. QED  BY <2>2, <2>3, SeqEqual DEF PathSet
<1>3. ASSUME NEW p \in PathSet, NEW q \in PathSet, NEW x \in PathSet,
             IsPrefix(p, x), IsPrefix(q, x)
      PROVE  IsPrefix(p, q) \/ IsPrefix(q, p)
  <2>1. Len(p) \in Nat /\ Len(q) \in Nat
    BY LenProperties DEF PathSet
  <2>2. (\A i \in 1..Len(p) : p[i] = x[i]) /\ (\A i \in 1..Len(q) : q[i] = x[i])
    BY <1>3, PrefixIs
  <2>3. CASE Len(p) <= Len(q)
    <3>1. \A i \in 1..Len(p) : p[i] = q[i]
      BY <2>1, <2>2, <2>3
    <3>. QED  BY <2>3, <3>1, PrefixIs
  <2>4. CASE Len(q) <= Len(p)
    <3>1. \A i \in 1..Len(q) : q[i] = p[i]
      BY <2>1, <2>2, <2>4
    <3>. QED  BY <2>4, <3>1, PrefixIs
  <2>. QED  BY <2>1, <2>3, <2>4
<1>. QED  BY <1>1, <1>2, <1>3

LEMMA NothingFollows ==
  /\ <<>> \in PathSet
  /\ \A p \in PathSet : p \o <<>> = p /\ Rest(p, p) = <<>>
<1>1. <<>> \in PathSet
  BY EmptySeq DEF PathSet
<1>2. \A p \in PathSet : p \o <<>> = p
  BY ConcatEmptySeq DEF PathSet
<1>. QED  BY <1>1, <1>2, Followed

-----------------------------------------------------------------------------
(* Values in a document. *)

IsAFcn(f) == f = [x \in DOMAIN f |-> f[x]]

LEMMA SameFunction ==
  ASSUME NEW f, IsAFcn(f), NEW g, IsAFcn(g),
         DOMAIN f = DOMAIN g, \A x \in DOMAIN f : f[x] = g[x]
  PROVE  f = g
BY DEF IsAFcn

LEMMA ValueIs ==
  ASSUME NEW d, DOMAIN d \subseteq PathSet, NEW p \in PathSet
  PROVE  Value(d, p) = [r \in {r \in PathSet : p \o r \in DOMAIN d} |-> d[p \o r]]
<1>1. {Rest(p, q) : q \in {q \in DOMAIN d : IsPrefix(p, q)}}
      = {r \in PathSet : p \o r \in DOMAIN d}
  <2>1. ASSUME NEW q \in DOMAIN d, IsPrefix(p, q)
        PROVE  Rest(p, q) \in {r \in PathSet : p \o r \in DOMAIN d}
    <3>1. Rest(p, q) \in PathSet /\ p \o Rest(p, q) = q
      BY <2>1, Continued
    <3>. QED  BY <3>1
  <2>2. ASSUME NEW r \in PathSet, p \o r \in DOMAIN d
        PROVE  r \in {Rest(p, q) : q \in {q \in DOMAIN d : IsPrefix(p, q)}}
    BY <2>2, Followed
  <2>. QED  BY <2>1, <2>2
<1>. QED  BY <1>1 DEF Value

\* The value at a path is what is there and below.
LEMMA SameValue ==
  ASSUME NEW d, DOMAIN d \subseteq PathSet, NEW e, DOMAIN e \subseteq PathSet,
         NEW p \in PathSet,
         \A q \in PathSet : IsPrefix(p, q) =>
           /\ q \in DOMAIN d <=> q \in DOMAIN e
           /\ q \in DOMAIN d => d[q] = e[q]
  PROVE  Value(d, p) = Value(e, p)
<1>1. \A r \in PathSet : /\ p \o r \in DOMAIN d <=> p \o r \in DOMAIN e
                         /\ p \o r \in DOMAIN d => d[p \o r] = e[p \o r]
  BY Followed
<1>2. {r \in PathSet : p \o r \in DOMAIN d} = {r \in PathSet : p \o r \in DOMAIN e}
  BY <1>1
<1>3. [r \in {r \in PathSet : p \o r \in DOMAIN d} |-> d[p \o r]]
      = [r \in {r \in PathSet : p \o r \in DOMAIN e} |-> e[p \o r]]
  BY <1>1, <1>2
<1>4. Value(d, p) = [r \in {r \in PathSet : p \o r \in DOMAIN d} |-> d[p \o r]]
  BY ValueIs
<1>5. Value(e, p) = [r \in {r \in PathSet : p \o r \in DOMAIN e} |-> e[p \o r]]
  BY ValueIs
<1>. QED  BY <1>3, <1>4, <1>5, Zenon

\* Replaced is a function again, of the paths outside p and those of v below it.
LEMMA ReplacedIs ==
  ASSUME NEW d, DOMAIN d \subseteq PathSet, NEW p \in PathSet, NEW v, DOMAIN v \subseteq PathSet
  PROVE  /\ IsAFcn(Replaced(d, p, v))
         /\ DOMAIN Replaced(d, p, v)
              = {q \in PathSet :
                   IF IsPrefix(p, q) THEN Rest(p, q) \in DOMAIN v ELSE q \in DOMAIN d}
         /\ \A q \in DOMAIN Replaced(d, p, v) :
              Replaced(d, p, v)[q] = IF IsPrefix(p, q) THEN v[Rest(p, q)] ELSE d[q]
<1>1. {q \in DOMAIN d : ~IsPrefix(p, q)} \cup {p \o r : r \in DOMAIN v}
      = {q \in PathSet : IF IsPrefix(p, q) THEN Rest(p, q) \in DOMAIN v ELSE q \in DOMAIN d}
  <2>1. ASSUME NEW r \in DOMAIN v
        PROVE  p \o r \in PathSet /\ IsPrefix(p, p \o r) /\ Rest(p, p \o r) = r
    BY Followed
  <2>2. ASSUME NEW q \in PathSet, IsPrefix(p, q), Rest(p, q) \in DOMAIN v
        PROVE  q \in {p \o r : r \in DOMAIN v}
    BY <2>2, Continued
  <2>. QED  BY <2>1, <2>2
<1>. QED  BY <1>1 DEF Replaced, IsAFcn

\* A document with null at some paths.
Without(d, paths) ==
  [q \in {q \in DOMAIN d : \A p \in paths : p # q => ~IsPrefix(p, q)} |->
     IF q \in paths THEN Null ELSE d[q]]

LEMMA NullValueIs == DOMAIN NullValue = {<<>>} /\ NullValue[<<>>] = Null
BY DEF NullValue

LEMMA ReplacedByNull ==
  ASSUME NEW d, DOMAIN d \subseteq PathSet, NEW p \in DOMAIN d
  PROVE  Replaced(d, p, NullValue) = Without(d, {p})
<1>. DEFINE f == Replaced(d, p, NullValue)
            g == Without(d, {p})
<1>1. p \in PathSet /\ DOMAIN NullValue \subseteq PathSet
  BY NullValueIs, NothingFollows
<1>2. \A q \in PathSet : IsPrefix(p, q) => (Rest(p, q) = <<>> <=> q = p)
  BY <1>1, Continued, NothingFollows
<1>3. /\ IsAFcn(f)
      /\ DOMAIN f = {q \in PathSet : IF IsPrefix(p, q) THEN Rest(p, q) \in DOMAIN NullValue
                                     ELSE q \in DOMAIN d}
      /\ \A q \in DOMAIN f : f[q] = IF IsPrefix(p, q) THEN NullValue[Rest(p, q)] ELSE d[q]
  BY <1>1, ReplacedIs
<1>4. /\ IsAFcn(g)
      /\ DOMAIN g = {q \in DOMAIN d : p # q => ~IsPrefix(p, q)}
      /\ \A q \in DOMAIN g : g[q] = IF q = p THEN Null ELSE d[q]
  BY DEF Without, IsAFcn
<1>5. IsPrefix(p, p)
  BY <1>1, PrefixOrder
<1>. HIDE DEF f, g
<1>6. DOMAIN f = DOMAIN g
  BY <1>1, <1>2, <1>3, <1>4, <1>5, NullValueIs
<1>7. \A q \in DOMAIN f : f[q] = g[q]
  BY <1>1, <1>2, <1>3, <1>4, <1>5, <1>6, NullValueIs
<1>8. f = g
  BY <1>3, <1>4, <1>6, <1>7, SameFunction
<1>. QED  BY <1>8 DEF f, g

LEMMA WithoutMore ==
  ASSUME NEW d, NEW A, NEW B
  PROVE  Without(Without(d, A), B) = Without(d, A \cup B)
BY DEF Without

-----------------------------------------------------------------------------
(* Putting values back. *)

At(refs, i) == refs[i].pointer.path
Paths(refs) == {At(refs, i) : i \in 1..Len(refs)}

\* Sequences of references to paths, with documents as values.
AreReferences(refs) ==
  /\ refs = [i \in 1..Len(refs) |-> refs[i]] /\ Len(refs) \in Nat
  /\ \A i \in 1..Len(refs) : /\ At(refs, i) \in PathSet
                             /\ refs[i].pointer.canonical \in BOOLEAN
                             /\ IsAFcn(refs[i].value) /\ DOMAIN refs[i].value \subseteq PathSet

\* No reference is to what another one replaces.
Clean(refs) == \A i, k \in 1..Len(refs) : i # k => ~IsPrefix(At(refs, i), At(refs, k))

LEMMA OneOwner ==
  ASSUME NEW refs, AreReferences(refs), Clean(refs), NEW q \in PathSet,
         NEW i \in 1..Len(refs), NEW k \in 1..Len(refs),
         IsPrefix(At(refs, i), q), IsPrefix(At(refs, k), q)
  PROVE  i = k
BY PrefixOrder DEF AreReferences, Clean

\* A document with the values of the first n references.
Below(refs, n, q) == \E i \in 1..n : IsPrefix(At(refs, i), q)
Owner(refs, n, q) == CHOOSE i \in 1..n : IsPrefix(At(refs, i), q)
Filled(d, refs, n) ==
  [q \in {q \in PathSet :
            IF Below(refs, n, q)
            THEN Rest(At(refs, Owner(refs, n, q)), q) \in DOMAIN refs[Owner(refs, n, q)].value
            ELSE q \in DOMAIN d} |->
     IF Below(refs, n, q)
     THEN refs[Owner(refs, n, q)].value[Rest(At(refs, Owner(refs, n, q)), q)] ELSE d[q]]

LEMMA OwnerIs ==
  ASSUME NEW refs, AreReferences(refs), Clean(refs), NEW n \in 0..Len(refs),
         NEW q \in PathSet, NEW i \in 1..n, IsPrefix(At(refs, i), q)
  PROVE  Below(refs, n, q) /\ Owner(refs, n, q) = i
<1>1. Len(refs) \in Nat /\ \A k \in 1..n : k \in 1..Len(refs)
  BY DEF AreReferences
<1>2. Owner(refs, n, q) \in 1..n /\ IsPrefix(At(refs, Owner(refs, n, q)), q)
  BY DEF Owner
<1>. QED  BY <1>1, <1>2, OneOwner DEF Below

LEMMA FilledIs ==
  ASSUME NEW d, DOMAIN d \subseteq PathSet, NEW refs, AreReferences(refs), Clean(refs),
         NEW n \in 0..Len(refs)
  PROVE  /\ IsAFcn(Filled(d, refs, n)) /\ DOMAIN Filled(d, refs, n) \subseteq PathSet
         /\ \A q \in PathSet, i \in 1..n : IsPrefix(At(refs, i), q) =>
              /\ q \in DOMAIN Filled(d, refs, n)
                   <=> Rest(At(refs, i), q) \in DOMAIN refs[i].value
              /\ q \in DOMAIN Filled(d, refs, n) =>
                   Filled(d, refs, n)[q] = refs[i].value[Rest(At(refs, i), q)]
         /\ \A q \in PathSet : ~Below(refs, n, q) =>
              /\ q \in DOMAIN Filled(d, refs, n) <=> q \in DOMAIN d
              /\ q \in DOMAIN Filled(d, refs, n) => Filled(d, refs, n)[q] = d[q]
<1>. DEFINE f == Filled(d, refs, n)
<1>1. IsAFcn(f) /\ DOMAIN f \subseteq PathSet
  BY DEF Filled, IsAFcn
<1>2. \A q \in PathSet : q \in DOMAIN f <=>
        IF Below(refs, n, q)
        THEN Rest(At(refs, Owner(refs, n, q)), q) \in DOMAIN refs[Owner(refs, n, q)].value
        ELSE q \in DOMAIN d
  BY DEF Filled
<1>3. \A q \in DOMAIN f : f[q] =
        IF Below(refs, n, q)
        THEN refs[Owner(refs, n, q)].value[Rest(At(refs, Owner(refs, n, q)), q)] ELSE d[q]
  BY DEF Filled
<1>. HIDE DEF f
<1>4. ASSUME NEW q \in PathSet, NEW i \in 1..n, IsPrefix(At(refs, i), q)
      PROVE  /\ q \in DOMAIN f <=> Rest(At(refs, i), q) \in DOMAIN refs[i].value
             /\ q \in DOMAIN f => f[q] = refs[i].value[Rest(At(refs, i), q)]
  <2>1. Below(refs, n, q) /\ Owner(refs, n, q) = i
    BY <1>4, OwnerIs
  <2>. QED  BY <2>1, <1>2, <1>3
<1>5. ASSUME NEW q \in PathSet, ~Below(refs, n, q)
      PROVE  (q \in DOMAIN f <=> q \in DOMAIN d) /\ (q \in DOMAIN f => f[q] = d[q])
  BY <1>2, <1>3, <1>5
<1>. QED  BY <1>1, <1>4, <1>5 DEF f

\* Filling in one more value is what HydratedSettings does in a round.
LEMMA FilledStep ==
  ASSUME NEW d, DOMAIN d \subseteq PathSet, NEW refs, AreReferences(refs), Clean(refs),
         NEW n \in 1..Len(refs)
  PROVE  Filled(d, refs, n) = Replaced(Filled(d, refs, n - 1), At(refs, n), refs[n].value)
<1>. DEFINE f == Filled(d, refs, n - 1)
            g == Filled(d, refs, n)
            p == At(refs, n)
            v == refs[n].value
            h == Replaced(f, p, v)
<1>1. /\ Len(refs) \in Nat /\ n - 1 \in 0..Len(refs) /\ n \in 0..Len(refs) /\ n \in 1..n
      /\ \A i : i \in 1..n <=> i \in 1..(n - 1) \/ i = n
  BY DEF AreReferences
<1>2. p \in PathSet /\ DOMAIN v \subseteq PathSet
  BY DEF AreReferences
<1>3. /\ IsAFcn(f) /\ DOMAIN f \subseteq PathSet
      /\ \A q \in PathSet, i \in 1..(n - 1) : IsPrefix(At(refs, i), q) =>
           /\ q \in DOMAIN f <=> Rest(At(refs, i), q) \in DOMAIN refs[i].value
           /\ q \in DOMAIN f => f[q] = refs[i].value[Rest(At(refs, i), q)]
      /\ \A q \in PathSet : ~Below(refs, n - 1, q) =>
           /\ q \in DOMAIN f <=> q \in DOMAIN d
           /\ q \in DOMAIN f => f[q] = d[q]
  BY <1>1, FilledIs
<1>4. /\ IsAFcn(g) /\ DOMAIN g \subseteq PathSet
      /\ \A q \in PathSet, i \in 1..n : IsPrefix(At(refs, i), q) =>
           /\ q \in DOMAIN g <=> Rest(At(refs, i), q) \in DOMAIN refs[i].value
           /\ q \in DOMAIN g => g[q] = refs[i].value[Rest(At(refs, i), q)]
      /\ \A q \in PathSet : ~Below(refs, n, q) =>
           /\ q \in DOMAIN g <=> q \in DOMAIN d
           /\ q \in DOMAIN g => g[q] = d[q]
  BY <1>1, FilledIs
<1>. HIDE DEF f, g
<1>5. /\ IsAFcn(h)
      /\ DOMAIN h = {q \in PathSet :
                       IF IsPrefix(p, q) THEN Rest(p, q) \in DOMAIN v ELSE q \in DOMAIN f}
      /\ \A q \in DOMAIN h : h[q] = IF IsPrefix(p, q) THEN v[Rest(p, q)] ELSE f[q]
  <2>1. p \in PathSet /\ DOMAIN v \subseteq PathSet /\ DOMAIN f \subseteq PathSet
    BY <1>2, <1>3
  <2>. HIDE DEF p, v
  <2>. QED  BY <2>1, ReplacedIs
<1>. HIDE DEF h
<1>6. ASSUME NEW q \in PathSet
      PROVE  (q \in DOMAIN g <=> q \in DOMAIN h) /\ (q \in DOMAIN g => g[q] = h[q])
  <2>1. CASE IsPrefix(p, q)
    BY <2>1, <1>1, <1>4, <1>5
  <2>2. CASE ~IsPrefix(p, q)
    <3>1. /\ q \in DOMAIN h <=> q \in DOMAIN f
          /\ q \in DOMAIN h => h[q] = f[q]
      BY <2>2, <1>5
    <3>2. CASE Below(refs, n - 1, q)
      <4>1. PICK i \in 1..(n - 1) : IsPrefix(At(refs, i), q)
        BY <3>2 DEF Below
      <4>. QED  BY <3>1, <4>1, <1>1, <1>3, <1>4
    <3>3. CASE ~Below(refs, n - 1, q)
      <4>1. ~Below(refs, n, q)
        BY <2>2, <3>3, <1>1 DEF Below
      <4>. QED  BY <3>1, <3>3, <4>1, <1>3, <1>4
    <3>. QED  BY <3>2, <3>3
  <2>. QED  BY <2>1, <2>2
<1>7. DOMAIN g = DOMAIN h
  BY <1>4, <1>5, <1>6
<1>8. g = h
  BY <1>4, <1>5, <1>6, <1>7, SameFunction
<1>. QED  BY <1>8 DEF f, g, h

\* HydratedSettings puts back all of the values (HydratedSettings, copyPointer).
LEMMA HydratedIs ==
  ASSUME NEW d, IsAFcn(d), DOMAIN d \subseteq PathSet,
         NEW refs, AreReferences(refs), Clean(refs)
  PROVE  Hydrated(d, refs) = Filled(d, refs, Len(refs))
<1>. DEFINE n == Len(refs)
            step(g, m) == IF m = 0 THEN d
                          ELSE Replaced(g[m - 1], refs[m].pointer.path, refs[m].value)
            h == [m \in 0..n |-> Filled(d, refs, m)]
            from == CHOOSE g : g = [m \in 0..n |-> step(g, m)]
<1>1. n \in Nat
  BY DEF AreReferences
<1>2. Filled(d, refs, 0) = d
  <2>1. PICK z \in 0..n : z = 0
    BY <1>1
  <2>2. /\ IsAFcn(Filled(d, refs, z)) /\ DOMAIN Filled(d, refs, z) \subseteq PathSet
        /\ \A q \in PathSet : ~Below(refs, z, q) =>
             /\ q \in DOMAIN Filled(d, refs, z) <=> q \in DOMAIN d
             /\ q \in DOMAIN Filled(d, refs, z) => Filled(d, refs, z)[q] = d[q]
    BY <2>1, FilledIs
  <2>3. \A q : ~Below(refs, z, q)
    BY <2>1 DEF Below
  <2>4. DOMAIN Filled(d, refs, z) = DOMAIN d
    BY <2>2, <2>3
  <2>5. \A q \in DOMAIN d : Filled(d, refs, z)[q] = d[q]
    BY <2>2, <2>3, <2>4
  <2>6. Filled(d, refs, z) = d
    BY <2>2, <2>4, <2>5, SameFunction
  <2>. QED  BY <2>1, <2>6
<1>3. ASSUME NEW m \in 0..n PROVE h[m] = step(h, m)
  <2>1. CASE m = 0
    BY <2>1, <1>2
  <2>2. CASE m # 0
    <3>1. m \in 1..n /\ m - 1 \in 0..n
      BY <1>1, <2>2
    <3>2. h[m] = Filled(d, refs, m) /\ h[m - 1] = Filled(d, refs, m - 1)
      BY <3>1
    <3>3. Filled(d, refs, m)
          = Replaced(Filled(d, refs, m - 1), refs[m].pointer.path, refs[m].value)
      BY <3>1, FilledStep DEF At
    <3>4. step(h, m) = Replaced(h[m - 1], refs[m].pointer.path, refs[m].value)
      BY <2>2
    <3>. QED  BY <3>2, <3>3, <3>4
  <2>. QED  BY <2>1, <2>2
<1>4. from = [m \in 0..n |-> step(from, m)]
  <2>1. h = [m \in 0..n |-> step(h, m)]
    <3>1. \A m \in 0..n : Filled(d, refs, m) = step(h, m)
      BY <1>3
    <3>. QED  BY <3>1
  <2>2. \E g : g = [m \in 0..n |-> step(g, m)]
    BY <2>1
  <2>. QED  BY <2>2
<1>. HIDE DEF h, from
<1>5. \A m \in 0..n : from[m] = h[m]
  <2>. DEFINE Bad == {m \in 0..n : from[m] # h[m]}
  <2>. SUFFICES ASSUME Bad # {} PROVE FALSE
    OBVIOUS
  <2>1. PICK m \in Bad : \A k \in Bad : m <= k
    <3>1. Bad \in SUBSET Nat
      OBVIOUS
    <3>. HIDE DEF Bad
    <3>. QED  BY <3>1, LeastNatural
  <2>2. from[m] = step(from, m) /\ h[m] = step(h, m)
    BY <1>3, <1>4
  <2>3. CASE m = 0
    BY <2>2, <2>3, <2>1
  <2>4. CASE m # 0
    <3>1. m - 1 \in 0..n /\ m - 1 \notin Bad
      BY <1>1, <2>1, <2>4
    <3>2. from[m - 1] = h[m - 1]
      BY <3>1
    <3>. QED  BY <2>2, <3>2, <2>1
  <2>. QED  BY <2>3, <2>4
<1>6. Hydrated(d, refs) = from[n]
  BY DEF Hydrated, from
<1>7. h[n] = Filled(d, refs, n)
  BY <1>1 DEF h
<1>. QED  BY <1>1, <1>5, <1>6, <1>7

\* With its values, an answer has them at its placeholders, and the rest as it was.
LEMMA HydratedHas ==
  ASSUME NEW d, IsAFcn(d), DOMAIN d \subseteq PathSet,
         NEW refs, AreReferences(refs), Clean(refs)
  PROVE  /\ \A i \in 1..Len(refs) : Value(Hydrated(d, refs), At(refs, i)) = refs[i].value
         /\ \A q \in PathSet : ~Below(refs, Len(refs), q) =>
              /\ q \in DOMAIN Hydrated(d, refs) <=> q \in DOMAIN d
              /\ q \in DOMAIN Hydrated(d, refs) => Hydrated(d, refs)[q] = d[q]
         /\ IsAFcn(Hydrated(d, refs)) /\ DOMAIN Hydrated(d, refs) \subseteq PathSet
         /\ \A q \in PathSet, i \in 1..Len(refs) : IsPrefix(At(refs, i), q) =>
              /\ q \in DOMAIN Hydrated(d, refs)
                   <=> Rest(At(refs, i), q) \in DOMAIN refs[i].value
              /\ q \in DOMAIN Hydrated(d, refs) =>
                   Hydrated(d, refs)[q] = refs[i].value[Rest(At(refs, i), q)]
<1>. DEFINE n == Len(refs)
            h == Hydrated(d, refs)
<1>1. n \in 0..n
  BY DEF AreReferences
<1>2. /\ IsAFcn(h) /\ DOMAIN h \subseteq PathSet
      /\ \A q \in PathSet, i \in 1..n : IsPrefix(At(refs, i), q) =>
           /\ q \in DOMAIN h <=> Rest(At(refs, i), q) \in DOMAIN refs[i].value
           /\ q \in DOMAIN h => h[q] = refs[i].value[Rest(At(refs, i), q)]
      /\ \A q \in PathSet : ~Below(refs, n, q) =>
           /\ q \in DOMAIN h <=> q \in DOMAIN d
           /\ q \in DOMAIN h => h[q] = d[q]
  BY <1>1, FilledIs, HydratedIs
<1>. HIDE DEF h
<1>3. ASSUME NEW i \in 1..n PROVE Value(h, At(refs, i)) = refs[i].value
  <2>. DEFINE p == At(refs, i)
              v == refs[i].value
              w == Value(h, p)
  <2>1. p \in PathSet /\ IsAFcn(v) /\ DOMAIN v \subseteq PathSet
    BY DEF AreReferences
  <2>2. /\ IsAFcn(w) /\ DOMAIN w = {r \in PathSet : p \o r \in DOMAIN h}
        /\ \A r \in DOMAIN w : w[r] = h[p \o r]
    <3>. HIDE DEF p
    <3>1. w = [r \in {r \in PathSet : p \o r \in DOMAIN h} |-> h[p \o r]]
      BY <1>2, <2>1, ValueIs
    <3>. QED  BY <3>1 DEF IsAFcn
  <2>. HIDE DEF w
  <2>3. ASSUME NEW r \in PathSet
        PROVE  /\ p \o r \in DOMAIN h <=> r \in DOMAIN v
               /\ p \o r \in DOMAIN h => h[p \o r] = v[r]
    <3>1. p \o r \in PathSet /\ IsPrefix(p, p \o r) /\ Rest(p, p \o r) = r
      BY <2>1, Followed
    <3>. QED  BY <3>1, <1>2
  <2>4. DOMAIN w = DOMAIN v /\ \A r \in DOMAIN w : w[r] = v[r]
    BY <2>1, <2>2, <2>3
  <2>5. w = v
    BY <2>1, <2>2, <2>4, SameFunction
  <2>. QED  BY <2>5 DEF w
<1>. QED  BY <1>2, <1>3 DEF h

\* Putting back what was moved out gives the document again.
LEMMA MovedBack ==
  ASSUME NEW o, IsAFcn(o), DOMAIN o \subseteq PathSet,
         NEW refs, AreReferences(refs), Clean(refs),
         \A i \in 1..Len(refs) : refs[i].value = Value(o, At(refs, i))
  PROVE  Hydrated(Without(o, Paths(refs)), refs) = o
<1>. DEFINE d == Without(o, Paths(refs))
            h == Hydrated(d, refs)
            n == Len(refs)
<1>1. /\ IsAFcn(d) /\ DOMAIN d \subseteq PathSet
      /\ \A q : q \in DOMAIN d <=> /\ q \in DOMAIN o
                                   /\ \A p \in Paths(refs) : p # q => ~IsPrefix(p, q)
      /\ \A q \in DOMAIN d : d[q] = IF q \in Paths(refs) THEN Null ELSE o[q]
  BY DEF Without, IsAFcn
<1>. HIDE DEF d
<1>2. /\ IsAFcn(h) /\ DOMAIN h \subseteq PathSet
      /\ \A q \in PathSet : ~Below(refs, n, q) =>
           /\ q \in DOMAIN h <=> q \in DOMAIN d
           /\ q \in DOMAIN h => h[q] = d[q]
      /\ \A q \in PathSet, i \in 1..n : IsPrefix(At(refs, i), q) =>
           /\ q \in DOMAIN h <=> Rest(At(refs, i), q) \in DOMAIN refs[i].value
           /\ q \in DOMAIN h => h[q] = refs[i].value[Rest(At(refs, i), q)]
  BY <1>1, HydratedHas
<1>. HIDE DEF h
<1>3. ASSUME NEW q \in PathSet
      PROVE  (q \in DOMAIN h <=> q \in DOMAIN o) /\ (q \in DOMAIN h => h[q] = o[q])
  <2>1. CASE Below(refs, n, q)
    <3>1. PICK i \in 1..n : IsPrefix(At(refs, i), q)
      BY <2>1 DEF Below
    <3>2. At(refs, i) \in PathSet /\ refs[i].value = Value(o, At(refs, i))
      BY DEF AreReferences
    <3>3. PICK r \in PathSet : r = Rest(At(refs, i), q) /\ At(refs, i) \o r = q
      BY <3>1, <3>2, Continued
    <3>4. refs[i].value
          = [s \in {s \in PathSet : At(refs, i) \o s \in DOMAIN o} |-> o[At(refs, i) \o s]]
      BY <3>2, ValueIs
    <3>5. /\ r \in DOMAIN refs[i].value <=> q \in DOMAIN o
          /\ r \in DOMAIN refs[i].value => refs[i].value[r] = o[q]
      BY <3>3, <3>4
    <3>. QED  BY <1>2, <3>1, <3>3, <3>5
  <2>2. CASE ~Below(refs, n, q)
    <3>1. \A p \in Paths(refs) : ~IsPrefix(p, q)
      BY <2>2 DEF Below, Paths
    <3>2. q \notin Paths(refs)
      BY <3>1, PrefixOrder
    <3>. QED  BY <1>1, <1>2, <2>2, <3>1, <3>2
  <2>. QED  BY <2>1, <2>2
<1>4. DOMAIN h = DOMAIN o
  BY <1>2, <1>3
<1>5. h = o
  BY <1>2, <1>3, <1>4, SameFunction
<1>. QED  BY <1>5 DEF h, d

-----------------------------------------------------------------------------
(* Copies: the builder and its answers. *)

Moveable == {Value(Without(o, A), p) : o \in Document, A \in SUBSET PathSet, p \in PathSet}
CopyReference == [pointer : [path : PathSet, canonical : BOOLEAN], kind : Kinds,
                  file : MediaFile \cup {NoFile}, value : Moveable]
Call == [kind : Kinds \cup {"list", "template"}, pointer : Pointers]

BuilderTypes ==
  /\ original \in Document /\ failed \in BOOLEAN
  /\ plan \in [references : Seq(CopyReference), templates : Seq(Pointers)]
  /\ asked \in Seq(Call)

\* The settings are the original ones with null at the references, whose values are the
\* original ones if they do not overlap.
MovedOut(o, d, refs) ==
  /\ Paths(refs) \subseteq DOMAIN o
  /\ d = Without(o, Paths(refs))
  /\ \A i \in 1..Len(refs) : refs[i].pointer.canonical
  /\ Clean(refs) => \A i \in 1..Len(refs) : refs[i].value = Value(o, At(refs, i))

\* What BuildsWhenProper asks of the calls, of which the plan is made.
NamedIn(o, call) == {call.pointer.path} \cup
  {q \in DOMAIN o : call.kind = "list" /\ Front(q) = call.pointer.path}
ProperIn(o, call) ==
  /\ Found(o, call.pointer)
  /\ call.kind = "list" => o[call.pointer.path] = "list"
  /\ \A p \in NamedIn(o, call) :
       /\ Value(o, p) # NullValue
       /\ call.kind = "variable" => IsText(Value(o, p))
       /\ call.kind = "template" => IsParsed(Value(o, p))
AllApart(o, call, other) == \A p \in NamedIn(o, call), q \in NamedIn(o, other) : Apart(p, q)
WellAsked(o, calls) ==
  /\ \A i \in 1..Len(calls) : ProperIn(o, calls[i])
  /\ \A i, k \in 1..Len(calls) : i # k => AllApart(o, calls[i], calls[k])
AskedFor(o, calls, pl) ==
  /\ \A i \in 1..Len(pl.references) : \E j \in 1..Len(calls) :
       /\ At(pl.references, i) \in NamedIn(o, calls[j])
       /\ pl.references[i].kind = "variable" => calls[j].kind = "variable"
  /\ \A i \in 1..Len(pl.templates) : \E j \in 1..Len(calls) :
       pl.templates[i] = calls[j].pointer /\ calls[j].kind = "template"

Answered == BuiltRestores /\ HydrationFillsPlaceholders /\ OneMediaFile

CopyInv ==
  /\ BuilderTypes
  /\ MovedOut(original, settings, plan.references)
  /\ WellAsked(original, asked) => ~failed /\ Disjoint(plan) /\ AskedFor(original, asked, plan)
  /\ Answered

LEMMA DocumentIs ==
  ASSUME NEW o \in Document
  PROVE  /\ IsAFcn(o) /\ DOMAIN o \subseteq PathSet
         /\ IsFiniteSet(DOMAIN o) /\ <<>> \notin DOMAIN o
BY CopyAssumption DEF IsTree, IsAFcn, PathSet

LEMMA MoveableIs ==
  ASSUME NEW v \in Moveable
  PROVE  IsAFcn(v) /\ DOMAIN v \subseteq PathSet
<1>1. PICK o \in Document, A \in SUBSET PathSet, p \in PathSet : v = Value(Without(o, A), p)
  BY DEF Moveable
<1>2. DOMAIN Without(o, A) \subseteq PathSet
  BY DocumentIs DEF Without
<1>3. v = [r \in {r \in PathSet : p \o r \in DOMAIN Without(o, A)} |-> Without(o, A)[p \o r]]
  BY <1>1, <1>2, ValueIs
<1>. QED  BY <1>3 DEF IsAFcn

LEMMA ReferencesAre ==
  ASSUME NEW refs \in Seq(CopyReference)
  PROVE  AreReferences(refs)
<1>1. /\ Len(refs) \in Nat /\ refs = [i \in 1..Len(refs) |-> refs[i]]
      /\ \A i \in 1..Len(refs) : refs[i] \in CopyReference
  BY LenProperties
<1>2. \A i \in 1..Len(refs) : /\ refs[i].pointer.path \in PathSet /\ refs[i].value \in Moveable
                              /\ refs[i].pointer.canonical \in BOOLEAN
  BY <1>1 DEF CopyReference
<1>. QED  BY <1>1, <1>2, MoveableIs DEF AreReferences, At

\* Two pointers of a plan, wherever they stand in it.
LEMMA DisjointIs ==
  ASSUME NEW pl, NEW F, NEW T, pl.references \in Seq(F), pl.templates \in Seq(T)
  PROVE  Disjoint(pl) <=>
           /\ \A i, k \in 1..Len(pl.references) :
                i # k => ~Overlap(pl.references[i].pointer, pl.references[k].pointer)
           /\ \A i \in 1..Len(pl.references), k \in 1..Len(pl.templates) :
                /\ ~Overlap(pl.references[i].pointer, pl.templates[k])
                /\ ~Overlap(pl.templates[k], pl.references[i].pointer)
           /\ \A i, k \in 1..Len(pl.templates) :
                i # k => ~Overlap(pl.templates[i], pl.templates[k])
<1>. DEFINE refs == pl.references
            templates == pl.templates
            pointers == [i \in DOMAIN refs |-> refs[i].pointer]
            X == {r.pointer : r \in F} \cup T
            all == pointers \o templates
<1>1. PICK n \in Nat, m \in Nat : /\ n = Len(refs) /\ m = Len(templates)
                                  /\ DOMAIN refs = 1..n /\ templates \in [1..m -> T]
                                  /\ \A i \in 1..n : refs[i] \in F
  BY LenProperties
<1>2. pointers \in Seq(X) /\ Len(pointers) = n /\ \A i \in 1..n : pointers[i] = refs[i].pointer
  <2>1. pointers \in [1..n -> X]
    BY <1>1
  <2>. QED  BY <1>1, <2>1
<1>3. templates \in Seq(X) /\ Len(templates) = m
  BY <1>1
<1>. HIDE DEF pointers, X
<1>4. /\ DOMAIN all = 1..n + m
      /\ \A i \in 1..n : all[i] = refs[i].pointer
      /\ \A i \in 1..m : n + i \in 1..n + m /\ all[n + i] = templates[i]
  <2>1. /\ all \in Seq(X) /\ Len(all) = n + m
        /\ \A i \in 1..n + m : all[i] = IF i <= n THEN pointers[i] ELSE templates[i - n]
    BY <1>2, <1>3, ConcatProperties
  <2>2. DOMAIN all = 1..n + m
    BY <2>1, LenProperties
  <2>3. \A i \in 1..n : i \in 1..n + m /\ i <= n
    OBVIOUS
  <2>4. \A i \in 1..m : n + i \in 1..n + m /\ ~(n + i <= n) /\ (n + i) - n = i
    OBVIOUS
  <2>. HIDE DEF all
  <2>. QED  BY <2>1, <2>2, <2>3, <2>4, <1>2
<1>5. Disjoint(pl) <=> \A i, k \in DOMAIN all : i # k => ~Overlap(all[i], all[k])
  BY DEF Disjoint, pointers
<1>. HIDE DEF all
<1>6. ASSUME Disjoint(pl)
      PROVE  /\ \A i, k \in 1..n : i # k => ~Overlap(refs[i].pointer, refs[k].pointer)
             /\ \A i \in 1..n, k \in 1..m : /\ ~Overlap(refs[i].pointer, templates[k])
                                            /\ ~Overlap(templates[k], refs[i].pointer)
             /\ \A i, k \in 1..m : i # k => ~Overlap(templates[i], templates[k])
  <2>1. \A i, k \in 1..n : i # k => ~Overlap(refs[i].pointer, refs[k].pointer)
    <3>1. \A i \in 1..n : i \in 1..n + m
      OBVIOUS
    <3>. QED  BY <1>4, <1>5, <1>6, <3>1
  <2>2. ASSUME NEW i \in 1..n, NEW k \in 1..m
        PROVE  /\ ~Overlap(refs[i].pointer, templates[k])
               /\ ~Overlap(templates[k], refs[i].pointer)
    <3>1. i \in 1..n + m /\ n + k \in 1..n + m /\ i # n + k
      OBVIOUS
    <3>. QED  BY <1>4, <1>5, <1>6, <3>1
  <2>3. ASSUME NEW i \in 1..m, NEW k \in 1..m, i # k
        PROVE  ~Overlap(templates[i], templates[k])
    <3>1. n + i \in 1..n + m /\ n + k \in 1..n + m /\ n + i # n + k
      BY <2>3
    <3>. QED  BY <1>4, <1>5, <1>6, <3>1
  <2>. QED  BY <2>1, <2>2, <2>3
<1>7. ASSUME \A i, k \in 1..n : i # k => ~Overlap(refs[i].pointer, refs[k].pointer),
             \A i \in 1..n, k \in 1..m : /\ ~Overlap(refs[i].pointer, templates[k])
                                         /\ ~Overlap(templates[k], refs[i].pointer),
             \A i, k \in 1..m : i # k => ~Overlap(templates[i], templates[k]),
             NEW i \in 1..n + m, NEW k \in 1..n + m, i # k
      PROVE  ~Overlap(all[i], all[k])
  <2>1. i \in 1..n \/ \E a \in 1..m : i = n + a
    <3>1. i \notin 1..n => i - n \in 1..m /\ i = n + (i - n)
      OBVIOUS
    <3>. QED  BY <3>1
  <2>2. k \in 1..n \/ \E a \in 1..m : k = n + a
    <3>1. k \notin 1..n => k - n \in 1..m /\ k = n + (k - n)
      OBVIOUS
    <3>. QED  BY <3>1
  <2>. QED  BY <1>4, <1>7, <2>1, <2>2
<1>8. Disjoint(pl) <=>
        /\ \A i, k \in 1..n : i # k => ~Overlap(refs[i].pointer, refs[k].pointer)
        /\ \A i \in 1..n, k \in 1..m : /\ ~Overlap(refs[i].pointer, templates[k])
                                       /\ ~Overlap(templates[k], refs[i].pointer)
        /\ \A i, k \in 1..m : i # k => ~Overlap(templates[i], templates[k])
  BY <1>4, <1>5, <1>6, <1>7
<1>. QED  BY <1>1, <1>8

LEMMA ReferencesApart ==
  ASSUME NEW d, NEW pl, NEW F, pl.references \in Seq(F), pl.templates \in Seq(Pointers),
         AreReferences(pl.references), Valid(d, pl)
  PROVE  /\ Clean(pl.references)
         /\ \A i \in 1..Len(pl.references), k \in 1..Len(pl.templates) :
              Apart(At(pl.references, i), pl.templates[k].path)
<1>. DEFINE refs == pl.references
            templates == pl.templates
<1>1. /\ DOMAIN refs = 1..Len(refs) /\ DOMAIN templates = 1..Len(templates)
      /\ \A k \in 1..Len(templates) : templates[k] \in Pointers
  BY LenProperties
<1>2. \A i \in 1..Len(refs) : refs[i].pointer.canonical = TRUE
  BY <1>1 DEF Valid, Found, AreReferences
<1>3. \A k \in 1..Len(templates) : templates[k].canonical = TRUE
  BY <1>1 DEF Valid, Found, Pointers
<1>4. Disjoint(pl)
  BY DEF Valid
<1>5. /\ \A i, k \in 1..Len(refs) : i # k => ~Overlap(refs[i].pointer, refs[k].pointer)
      /\ \A i \in 1..Len(refs), k \in 1..Len(templates) :
           ~Overlap(refs[i].pointer, templates[k])
  BY <1>4, DisjointIs
<1>. HIDE DEF refs, templates
<1>6. Clean(refs)
  BY <1>2, <1>5 DEF Clean, At, Overlap
<1>7. ASSUME NEW i \in 1..Len(refs), NEW k \in 1..Len(templates)
      PROVE  Apart(At(refs, i), templates[k].path)
  BY <1>2, <1>3, <1>5 DEF Apart, At, Overlap
<1>. QED  BY <1>6, <1>7 DEF refs, templates

\* What passes the checks is filled in right (validatePlan, HydratedSettings).
LEMMA ValidFills ==
  ASSUME NEW d, IsAFcn(d), DOMAIN d \subseteq PathSet,
         NEW pl, NEW F, pl.references \in Seq(F), pl.templates \in Seq(Pointers),
         AreReferences(pl.references), Valid(d, pl)
  PROVE  /\ \A i \in DOMAIN pl.references :
              /\ d[pl.references[i].pointer.path] = Null
              /\ Value(Hydrated(d, pl.references), pl.references[i].pointer.path)
                   = pl.references[i].value
         /\ \A q \in DOMAIN d :
              q \notin {pl.references[i].pointer.path : i \in DOMAIN pl.references} =>
                Hydrated(d, pl.references)[q] = d[q]
         /\ \A i \in DOMAIN pl.templates :
              IsParsed(Value(Hydrated(d, pl.references), pl.templates[i].path))
<1>. DEFINE refs == pl.references
            templates == pl.templates
            h == Hydrated(d, refs)
<1>1. /\ DOMAIN refs = 1..Len(refs) /\ DOMAIN templates = 1..Len(templates)
      /\ \A k \in 1..Len(templates) : templates[k].path \in PathSet
  <2>1. /\ DOMAIN refs = 1..Len(refs) /\ DOMAIN templates = 1..Len(templates)
        /\ \A k \in 1..Len(templates) : templates[k] \in Pointers
    BY LenProperties
  <2>. QED  BY <2>1, CopyAssumption DEF Pointers, PathSet
<1>2. /\ Clean(refs)
      /\ \A i \in 1..Len(refs), k \in 1..Len(templates) : Apart(At(refs, i), templates[k].path)
  BY ReferencesApart
<1>3. /\ \A i \in 1..Len(refs) : Value(h, At(refs, i)) = refs[i].value
      /\ \A q \in PathSet : ~Below(refs, Len(refs), q) =>
           /\ q \in DOMAIN h <=> q \in DOMAIN d
           /\ q \in DOMAIN h => h[q] = d[q]
      /\ DOMAIN h \subseteq PathSet
  BY <1>2, HydratedHas
<1>4. /\ \A i \in 1..Len(refs) : At(refs, i) \in DOMAIN d /\ Value(d, At(refs, i)) = NullValue
      /\ \A k \in 1..Len(templates) : IsParsed(Value(d, templates[k].path))
  BY <1>1 DEF Valid, Found, Placeholder, At
<1>. HIDE DEF h
<1>5. ASSUME NEW i \in 1..Len(refs)
      PROVE  /\ d[At(refs, i)] = Null
             /\ \A q \in DOMAIN d : IsPrefix(At(refs, i), q) => q = At(refs, i)
  <2>1. At(refs, i) \in PathSet
    BY DEF AreReferences
  <2>2. Value(d, At(refs, i))
        = [r \in {r \in PathSet : At(refs, i) \o r \in DOMAIN d} |-> d[At(refs, i) \o r]]
    BY <2>1, ValueIs
  <2>3. /\ {r \in PathSet : At(refs, i) \o r \in DOMAIN d} = {<<>>}
        /\ d[At(refs, i) \o <<>>] = Null
    BY <1>4, <2>2, NullValueIs
  <2>4. d[At(refs, i)] = Null
    BY <2>1, <2>3, NothingFollows
  <2>5. ASSUME NEW q \in DOMAIN d, IsPrefix(At(refs, i), q) PROVE q = At(refs, i)
    <3>1. Rest(At(refs, i), q) \in PathSet /\ At(refs, i) \o Rest(At(refs, i), q) = q
      BY <2>1, <2>5, Continued
    <3>2. Rest(At(refs, i), q) = <<>>
      BY <2>3, <3>1
    <3>. QED  BY <2>1, <3>1, <3>2, NothingFollows
  <2>. QED  BY <2>4, <2>5
<1>6. ASSUME NEW q \in DOMAIN d, q \notin {refs[i].pointer.path : i \in DOMAIN refs}
      PROVE  h[q] = d[q]
  <2>1. \A i \in 1..Len(refs) : q # At(refs, i)
    BY <1>1, <1>6 DEF At
  <2>2. ~Below(refs, Len(refs), q)
    BY <1>5, <2>1 DEF Below
  <2>. QED  BY <1>3, <2>2
<1>7. ASSUME NEW k \in 1..Len(templates)
      PROVE  Value(h, templates[k].path) = Value(d, templates[k].path)
  <2>. DEFINE t == templates[k].path
  <2>1. t \in PathSet
    BY <1>1
  <2>2. ASSUME NEW q \in PathSet, IsPrefix(t, q) PROVE ~Below(refs, Len(refs), q)
    <3>1. ASSUME NEW i \in 1..Len(refs), IsPrefix(At(refs, i), q) PROVE FALSE
      <4>1. At(refs, i) \in PathSet /\ ~IsPrefix(At(refs, i), t) /\ ~IsPrefix(t, At(refs, i))
        BY <1>2 DEF AreReferences, Apart
      <4>. QED  BY <2>1, <2>2, <3>1, <4>1, PrefixOrder
    <3>. QED  BY <3>1 DEF Below
  <2>3. \A q \in PathSet : IsPrefix(t, q) =>
          (q \in DOMAIN h <=> q \in DOMAIN d) /\ (q \in DOMAIN h => h[q] = d[q])
    BY <1>3, <2>2
  <2>. HIDE DEF t
  <2>4. Value(h, t) = Value(d, t)
    BY <1>3, <2>1, <2>3, SameValue
  <2>. QED  BY <2>4 DEF t
<1>8. \A i \in DOMAIN refs : /\ d[refs[i].pointer.path] = Null
                             /\ Value(h, refs[i].pointer.path) = refs[i].value
  BY <1>1, <1>3, <1>5 DEF At
<1>9. \A i \in DOMAIN templates : IsParsed(Value(h, templates[i].path))
  BY <1>1, <1>4, <1>7
<1>. QED  BY <1>6, <1>8, <1>9 DEF h

\* The places of two sequences in the one that joins them.
LEMMA Joined ==
  ASSUME NEW F, NEW s \in Seq(F), NEW t \in Seq(F), NEW n \in Nat, NEW m \in Nat,
         n = Len(s), m = Len(t)
  PROVE  /\ \A i \in 1..n : i \in 1..n + m /\ (s \o t)[i] = s[i]
         /\ \A i \in 1..m : /\ n + i \in 1..n + m /\ (s \o t)[n + i] = t[i]
                            /\ \A k \in 1..n : k # n + i
         /\ \A i \in 1..n + m : i \in 1..n \/ (i - n \in 1..m /\ i = n + (i - n))
<1>. DEFINE all == s \o t
<1>1. \A i \in 1..n + m : all[i] = IF i <= n THEN s[i] ELSE t[i - n]
  BY ConcatProperties
<1>2. \A i \in 1..n : i \in 1..n + m /\ i <= n
  OBVIOUS
<1>3. \A i \in 1..m : /\ n + i \in 1..n + m /\ ~(n + i <= n) /\ (n + i) - n = i
                      /\ \A k \in 1..n : k # n + i
  OBVIOUS
<1>4. \A i \in 1..n + m : i \in 1..n \/ (i - n \in 1..m /\ i = n + (i - n))
  OBVIOUS
<1>. HIDE DEF all
<1>5. /\ \A i \in 1..n : i \in 1..n + m /\ all[i] = s[i]
      /\ \A i \in 1..m : n + i \in 1..n + m /\ all[n + i] = t[i] /\ \A k \in 1..n : k # n + i
  BY <1>1, <1>2, <1>3
<1>. QED  BY <1>4, <1>5 DEF all

\* More values moved out, of which none is or is below one that was.
LEMMA MoreMovedOut ==
  ASSUME NEW o \in Document, NEW d, NEW refs \in Seq(CopyReference), MovedOut(o, d, refs),
         NEW more \in Seq(CopyReference),
         \A i \in 1..Len(more) : /\ At(more, i) \in DOMAIN d /\ more[i].pointer.canonical
                                 /\ more[i].value = Value(d, At(more, i))
  PROVE  MovedOut(o, Without(d, Paths(more)), refs \o more)
<1>. DEFINE all == refs \o more
<1>1. PICK n \in Nat, m \in Nat : n = Len(refs) /\ m = Len(more)
  BY LenProperties
<1>2. all \in Seq(CopyReference) /\ Len(all) = n + m
  BY <1>1, ConcatProperties
<1>3. /\ \A i \in 1..n : i \in 1..n + m /\ all[i] = refs[i]
      /\ \A i \in 1..m : n + i \in 1..n + m /\ all[n + i] = more[i] /\ \A k \in 1..n : k # n + i
      /\ \A i \in 1..n + m : i \in 1..n \/ (i - n \in 1..m /\ i = n + (i - n))
  BY <1>1, Joined
<1>. HIDE DEF all
<1>4. Paths(all) = Paths(refs) \cup Paths(more)
  <2>1. /\ \A i \in 1..n : At(all, i) = At(refs, i)
        /\ \A i \in 1..m : At(all, n + i) = At(more, i)
    BY <1>3 DEF At
  <2>2. Paths(all) = {At(all, i) : i \in 1..n + m}
    BY <1>2 DEF Paths
  <2>3. Paths(refs) = {At(refs, i) : i \in 1..n} /\ Paths(more) = {At(more, i) : i \in 1..m}
    BY <1>1 DEF Paths
  <2>4. ASSUME NEW i \in 1..n + m PROVE At(all, i) \in Paths(refs) \cup Paths(more)
    <3>1. CASE i \in 1..n
      BY <2>1, <2>3, <3>1
    <3>2. CASE i \notin 1..n
      <4>1. i - n \in 1..m /\ i = n + (i - n)
        BY <1>3, <3>2
      <4>. QED  BY <2>1, <2>3, <4>1
    <3>. QED  BY <3>1, <3>2
  <2>5. \A i \in 1..n : At(refs, i) \in Paths(all)
    BY <1>3, <2>1, <2>2
  <2>6. \A i \in 1..m : At(more, i) \in Paths(all)
    BY <1>3, <2>1, <2>2
  <2>. QED  BY <2>2, <2>3, <2>4, <2>5, <2>6
<1>5. DOMAIN d \subseteq DOMAIN o /\ DOMAIN o \subseteq PathSet /\ DOMAIN d \subseteq PathSet
  BY DocumentIs DEF MovedOut, Without
<1>6. Paths(all) \subseteq DOMAIN o
  BY <1>1, <1>4, <1>5 DEF MovedOut, Paths
<1>7. Without(d, Paths(more)) = Without(o, Paths(all))
  BY <1>4, WithoutMore DEF MovedOut
<1>8. ASSUME NEW i \in 1..Len(all) PROVE all[i].pointer.canonical
  <2>1. CASE i \in 1..n
    <3>1. all[i] = refs[i] /\ refs[i].pointer.canonical
      BY <2>1, <1>1, <1>3 DEF MovedOut
    <3>. QED  BY <3>1
  <2>2. CASE i \notin 1..n
    <3>1. PICK k \in 1..m : all[i] = more[k]
      BY <2>2, <1>2, <1>3
    <3>2. more[k].pointer.canonical
      BY <1>1
    <3>. QED  BY <3>1, <3>2
  <2>. QED  BY <2>1, <2>2
<1>9. ASSUME Clean(all), NEW i \in 1..Len(all)
      PROVE  all[i].value = Value(o, At(all, i))
  <2>1. CASE i \in 1..n
    <3>1. ASSUME NEW a \in 1..n, NEW b \in 1..n, a # b
          PROVE  ~IsPrefix(At(refs, a), At(refs, b))
      <4>1. /\ a \in 1..Len(all) /\ b \in 1..Len(all)
            /\ At(all, a) = At(refs, a) /\ At(all, b) = At(refs, b)
        BY <1>2, <1>3 DEF At
      <4>. QED  BY <1>9, <3>1, <4>1 DEF Clean
    <3>2. Clean(refs)
      BY <1>1, <3>1 DEF Clean
    <3>. QED  BY <1>1, <1>3, <2>1, <3>2 DEF MovedOut, At
  <2>2. CASE i \notin 1..n
    <3>1. PICK k \in 1..m : i = n + k
      BY <1>2, <1>3, <2>2
    <3>2. all[i] = more[k] /\ At(all, i) = At(more, k)
      BY <1>3, <3>1 DEF At
    <3>. DEFINE p == At(more, k)
    <3>3. p \in DOMAIN d /\ p \in PathSet /\ all[i].value = Value(d, p)
      BY <1>1, <1>5, <3>2
    <3>4. ASSUME NEW a \in 1..n
          PROVE  /\ At(refs, a) \in PathSet
                 /\ ~IsPrefix(At(refs, a), p) /\ ~IsPrefix(p, At(refs, a))
      <4>1. a \in 1..Len(all) /\ At(all, a) = At(refs, a) /\ a # i
        BY <1>2, <1>3, <2>2 DEF At
      <4>2. At(refs, a) \in PathSet
        BY <1>1, ReferencesAre DEF AreReferences
      <4>. QED  BY <1>9, <3>2, <4>1, <4>2 DEF Clean
    <3>5. \A q \in PathSet : IsPrefix(p, q) =>
            \A a \in 1..n : ~IsPrefix(At(refs, a), q) /\ q # At(refs, a)
      BY <3>3, <3>4, PrefixOrder
    <3>. HIDE DEF p
    <3>6. \A q \in PathSet : IsPrefix(p, q) =>
            (q \in DOMAIN d <=> q \in DOMAIN o) /\ (q \in DOMAIN d => d[q] = o[q])
      BY <1>1, <3>5 DEF MovedOut, Without, Paths
    <3>7. Value(d, p) = Value(o, p)
      BY <1>5, <3>3, <3>6, SameValue
    <3>. QED  BY <3>2, <3>3, <3>7 DEF p
  <2>. QED  BY <2>1, <2>2
<1>10. MovedOut(o, Without(d, Paths(more)), all)
  BY <1>6, <1>7, <1>8, <1>9 DEF MovedOut
<1>. QED  BY <1>10 DEF all

\* What is apart from the references is where it was.
LEMMA StillThere ==
  ASSUME NEW o \in Document, NEW d, NEW refs \in Seq(CopyReference), MovedOut(o, d, refs),
         NEW p \in DOMAIN o, \A i \in 1..Len(refs) : Apart(p, At(refs, i))
  PROVE  p \in DOMAIN d /\ d[p] = o[p] /\ Value(d, p) = Value(o, p)
<1>1. DOMAIN d \subseteq DOMAIN o /\ DOMAIN o \subseteq PathSet /\ DOMAIN d \subseteq PathSet
  BY DocumentIs DEF MovedOut, Without
<1>2. ASSUME NEW i \in 1..Len(refs)
      PROVE  /\ At(refs, i) \in PathSet
             /\ ~IsPrefix(At(refs, i), p) /\ ~IsPrefix(p, At(refs, i))
  BY ReferencesAre DEF AreReferences, Apart
<1>3. ASSUME NEW q \in PathSet, IsPrefix(p, q), NEW i \in 1..Len(refs)
      PROVE  ~IsPrefix(At(refs, i), q) /\ q # At(refs, i)
  BY <1>1, <1>2, <1>3, PrefixOrder
<1>4. \A q \in PathSet : IsPrefix(p, q) =>
        (q \in DOMAIN d <=> q \in DOMAIN o) /\ (q \in DOMAIN d => d[q] = o[q])
  BY <1>3 DEF MovedOut, Without, Paths
<1>5. Value(d, p) = Value(o, p)
  BY <1>1, <1>4, SameValue
<1>6. p \in PathSet /\ IsPrefix(p, p)
  BY <1>1, PrefixOrder
<1>. QED  BY <1>4, <1>5, <1>6

LEMMA AskedBefore ==
  ASSUME NEW o, NEW calls \in Seq(Call), NEW c \in Call, WellAsked(o, Append(calls, c))
  PROVE  /\ WellAsked(o, calls) /\ ProperIn(o, c)
         /\ \A i \in 1..Len(calls) : AllApart(o, c, calls[i])
<1>. DEFINE all == Append(calls, c)
<1>1. PICK n \in Nat : n = Len(calls)
  BY LenProperties
<1>2. Len(all) = n + 1 /\ all[n + 1] = c /\ \A i \in 1..n : all[i] = calls[i]
  BY <1>1, AppendProperties
<1>3. n + 1 \in 1..(n + 1) /\ \A i \in 1..n : i \in 1..(n + 1) /\ i # n + 1
  OBVIOUS
<1>. HIDE DEF all
<1>4. /\ \A i \in 1..(n + 1) : ProperIn(o, all[i])
      /\ \A i, k \in 1..(n + 1) : i # k => AllApart(o, all[i], all[k])
  BY <1>2 DEF WellAsked, all
<1>5. ProperIn(o, c)
  BY <1>2, <1>3, <1>4
<1>6. \A i \in 1..n : AllApart(o, c, calls[i])
  BY <1>2, <1>3, <1>4
<1>7. WellAsked(o, calls)
  BY <1>1, <1>2, <1>3, <1>4 DEF WellAsked
<1>. QED  BY <1>1, <1>5, <1>6, <1>7

\* What a proper call names is apart from all that was asked for before.
LEMMA ApartFromPlan ==
  ASSUME NEW o, NEW calls \in Seq(Call), NEW c \in Call, WellAsked(o, Append(calls, c)),
         NEW pl, AskedFor(o, calls, pl), NEW p \in NamedIn(o, c)
  PROVE  /\ \A i \in 1..Len(pl.references) : Apart(p, At(pl.references, i))
         /\ \A i \in 1..Len(pl.templates) : Apart(p, pl.templates[i].path)
<1>1. \A i \in 1..Len(calls) : \A q \in NamedIn(o, calls[i]) : Apart(p, q)
  BY AskedBefore DEF AllApart
<1>2. \A i \in 1..Len(calls) : calls[i].pointer.path \in NamedIn(o, calls[i])
  BY DEF NamedIn
<1>. QED  BY <1>1, <1>2 DEF AskedFor

\* A reference or a list of them, each to what its call names, becomes part of the plan.
LEMMA MoreAskedFor ==
  ASSUME NEW o, NEW calls \in Seq(Call), NEW c \in Call, WellAsked(o, Append(calls, c)),
         NEW pl, pl.references \in Seq(CopyReference), pl.templates \in Seq(Pointers),
         Disjoint(pl), AskedFor(o, calls, pl),
         NEW more \in Seq(CopyReference), Clean(more),
         \A i \in 1..Len(more) : /\ At(more, i) \in NamedIn(o, c)
                                 /\ more[i].kind = "variable" => c.kind = "variable",
         NEW new, new.references = pl.references \o more, new.templates = pl.templates
  PROVE  Disjoint(new) /\ AskedFor(o, Append(calls, c), new)
<1>. DEFINE refs == pl.references
            all == new.references
            templates == pl.templates
<1>1. PICK n \in Nat, m \in Nat : n = Len(refs) /\ m = Len(more)
  BY LenProperties
<1>2. all \in Seq(CopyReference) /\ Len(all) = n + m
  BY <1>1, ConcatProperties
<1>3. /\ \A i \in 1..n : i \in 1..n + m /\ all[i] = refs[i]
      /\ \A i \in 1..m : n + i \in 1..n + m /\ all[n + i] = more[i] /\ \A k \in 1..n : k # n + i
      /\ \A i \in 1..n + m : i \in 1..n \/ (i - n \in 1..m /\ i = n + (i - n))
  BY <1>1, Joined
<1>4. ASSUME NEW k \in 1..m
      PROVE  /\ \A i \in 1..n : Apart(At(more, k), At(refs, i))
             /\ \A i \in 1..Len(templates) : Apart(At(more, k), templates[i].path)
  BY <1>1, ApartFromPlan
<1>5. /\ \A i, k \in 1..n : i # k => ~Overlap(refs[i].pointer, refs[k].pointer)
      /\ \A i \in 1..n, k \in 1..Len(templates) :
           /\ ~Overlap(refs[i].pointer, templates[k])
           /\ ~Overlap(templates[k], refs[i].pointer)
      /\ \A i, k \in 1..Len(templates) : i # k => ~Overlap(templates[i], templates[k])
  BY <1>1, DisjointIs
<1>. HIDE DEF refs, all, templates
<1>6. ASSUME NEW i \in 1..n + m, NEW k \in 1..n + m, i # k
      PROVE  ~Overlap(all[i].pointer, all[k].pointer)
  <2>1. CASE i \in 1..n /\ k \in 1..n
    BY <2>1, <1>3, <1>5, <1>6
  <2>2. CASE i \in 1..n /\ k \notin 1..n
    <3>1. PICK b \in 1..m : all[k] = more[b]
      BY <2>2, <1>3
    <3>. QED  BY <2>2, <3>1, <1>3, <1>4 DEF Overlap, Apart, At
  <2>3. CASE i \notin 1..n /\ k \in 1..n
    <3>1. PICK b \in 1..m : all[i] = more[b]
      BY <2>3, <1>3
    <3>. QED  BY <2>3, <3>1, <1>3, <1>4 DEF Overlap, Apart, At
  <2>4. CASE i \notin 1..n /\ k \notin 1..n
    <3>1. PICK a \in 1..m, b \in 1..m :
            all[i] = more[a] /\ all[k] = more[b] /\ i = n + a /\ k = n + b
      BY <2>4, <1>3
    <3>2. a # b
      BY <3>1, <1>6
    <3>. QED  BY <3>1, <3>2, <1>1 DEF Overlap, Clean, At
  <2>. QED  BY <2>1, <2>2, <2>3, <2>4
<1>7. ASSUME NEW i \in 1..n + m, NEW k \in 1..Len(templates)
      PROVE  ~Overlap(all[i].pointer, templates[k]) /\ ~Overlap(templates[k], all[i].pointer)
  <2>1. CASE i \in 1..n
    BY <2>1, <1>3, <1>5
  <2>2. CASE i \notin 1..n
    <3>1. PICK b \in 1..m : all[i] = more[b]
      BY <2>2, <1>3
    <3>. QED  BY <3>1, <1>4 DEF Overlap, Apart, At
  <2>. QED  BY <2>1, <2>2
<1>8. Disjoint(new)
  <2>1. new.templates \in Seq(Pointers) /\ new.templates = templates
    BY DEF templates
  <2>2. new.references \in Seq(CopyReference) /\ new.references = all /\ Len(all) = n + m
    BY <1>2 DEF all
  <2>. QED  BY <2>1, <2>2, <1>5, <1>6, <1>7, DisjointIs
<1>9. AskedFor(o, Append(calls, c), new)
  <2>. DEFINE cs == Append(calls, c)
  <2>1. PICK l \in Nat : l = Len(calls)
    BY LenProperties
  <2>2. Len(cs) = l + 1 /\ cs[l + 1] = c /\ \A i \in 1..l : cs[i] = calls[i]
    BY <2>1, AppendProperties
  <2>3. l + 1 \in 1..(l + 1) /\ \A i \in 1..l : i \in 1..(l + 1)
    OBVIOUS
  <2>. HIDE DEF cs
  <2>4. ASSUME NEW i \in 1..n + m
        PROVE  \E j \in 1..(l + 1) : /\ At(all, i) \in NamedIn(o, cs[j])
                                     /\ all[i].kind = "variable" => cs[j].kind = "variable"
    <3>1. CASE i \in 1..n
      <4>1. PICK j \in 1..l : /\ At(refs, i) \in NamedIn(o, calls[j])
                              /\ refs[i].kind = "variable" => calls[j].kind = "variable"
        BY <3>1, <1>1, <2>1 DEF AskedFor, refs
      <4>. QED  BY <3>1, <4>1, <1>3, <2>2, <2>3 DEF At
    <3>2. CASE i \notin 1..n
      <4>1. PICK b \in 1..m : all[i] = more[b]
        BY <3>2, <1>3
      <4>2. At(all, i) \in NamedIn(o, c) /\ (all[i].kind = "variable" => c.kind = "variable")
        BY <4>1, <1>1 DEF At
      <4>. QED  BY <4>2, <2>2, <2>3
    <3>. QED  BY <3>1, <3>2
  <2>5. ASSUME NEW i \in 1..Len(templates)
        PROVE  \E j \in 1..(l + 1) : templates[i] = cs[j].pointer /\ cs[j].kind = "template"
    <3>1. PICK j \in 1..l : templates[i] = calls[j].pointer /\ calls[j].kind = "template"
      BY <2>1 DEF AskedFor, templates
    <3>. QED  BY <3>1, <2>2, <2>3
  <2>6. new.references = all /\ new.templates = templates
    BY DEF all, templates
  <2>7. \A i \in 1..Len(new.references) : \E j \in 1..Len(cs) :
          /\ At(new.references, i) \in NamedIn(o, cs[j])
          /\ new.references[i].kind = "variable" => cs[j].kind = "variable"
    BY <1>2, <2>2, <2>4, <2>6
  <2>8. \A i \in 1..Len(new.templates) : \E j \in 1..Len(cs) :
          new.templates[i] = cs[j].pointer /\ cs[j].kind = "template"
    BY <2>2, <2>5, <2>6
  <2>9. AskedFor(o, cs, new)
    BY <2>7, <2>8 DEF AskedFor
  <2>. QED  BY <2>9 DEF cs
<1>. QED  BY <1>8, <1>9

\* A template is noted.
LEMMA TemplateAskedFor ==
  ASSUME NEW o, NEW calls \in Seq(Call), NEW c \in Call, WellAsked(o, Append(calls, c)),
         c.kind = "template",
         NEW pl, pl.references \in Seq(CopyReference), pl.templates \in Seq(Pointers),
         Disjoint(pl), AskedFor(o, calls, pl), c.pointer \in Pointers,
         NEW new, new.references = pl.references,
         new.templates = Append(pl.templates, c.pointer)
  PROVE  Disjoint(new) /\ AskedFor(o, Append(calls, c), new)
<1>. DEFINE refs == pl.references
            templates == pl.templates
            all == new.templates
            cs == Append(calls, c)
<1>1. PICK n \in Nat, m \in Nat : n = Len(refs) /\ m = Len(templates)
  BY LenProperties
<1>2. /\ all \in Seq(Pointers) /\ Len(all) = m + 1 /\ all[m + 1] = c.pointer
      /\ \A i \in 1..m : all[i] = templates[i]
  BY <1>1, AppendProperties
<1>3. \A i \in 1..(m + 1) : i = m + 1 \/ i \in 1..m
  OBVIOUS
<1>4. /\ \A i \in 1..n : Apart(c.pointer.path, At(refs, i))
      /\ \A i \in 1..m : Apart(c.pointer.path, templates[i].path)
  <2>1. c.pointer.path \in NamedIn(o, c)
    BY DEF NamedIn
  <2>. QED  BY <2>1, <1>1, ApartFromPlan
<1>5. /\ \A i, k \in 1..n : i # k => ~Overlap(refs[i].pointer, refs[k].pointer)
      /\ \A i \in 1..n, k \in 1..m : /\ ~Overlap(refs[i].pointer, templates[k])
                                     /\ ~Overlap(templates[k], refs[i].pointer)
      /\ \A i, k \in 1..m : i # k => ~Overlap(templates[i], templates[k])
  BY <1>1, DisjointIs
<1>. HIDE DEF refs, all, templates
<1>6. \A i \in 1..n, k \in 1..(m + 1) :
        ~Overlap(refs[i].pointer, all[k]) /\ ~Overlap(all[k], refs[i].pointer)
  BY <1>2, <1>3, <1>4, <1>5 DEF Overlap, Apart, At
<1>7. \A i, k \in 1..(m + 1) : i # k => ~Overlap(all[i], all[k])
  BY <1>2, <1>3, <1>4, <1>5 DEF Overlap, Apart
<1>8. Disjoint(new)
  <2>1. new.templates \in Seq(Pointers) /\ new.templates = all /\ Len(all) = m + 1
    BY <1>2 DEF all
  <2>2. new.references \in Seq(CopyReference) /\ new.references = refs /\ Len(refs) = n
    BY <1>1 DEF refs
  <2>. QED  BY <2>1, <2>2, <1>5, <1>6, <1>7, DisjointIs
<1>9. AskedFor(o, cs, new)
  <2>1. PICK l \in Nat : l = Len(calls)
    BY LenProperties
  <2>2. Len(cs) = l + 1 /\ cs[l + 1] = c /\ \A i \in 1..l : cs[i] = calls[i]
    BY <2>1, AppendProperties
  <2>3. l + 1 \in 1..(l + 1) /\ \A i \in 1..l : i \in 1..(l + 1)
    OBVIOUS
  <2>. HIDE DEF cs
  <2>4. ASSUME NEW i \in 1..n
        PROVE  \E j \in 1..(l + 1) : /\ At(refs, i) \in NamedIn(o, cs[j])
                                     /\ refs[i].kind = "variable" => cs[j].kind = "variable"
    <3>1. PICK j \in 1..l : /\ At(refs, i) \in NamedIn(o, calls[j])
                            /\ refs[i].kind = "variable" => calls[j].kind = "variable"
      BY <1>1, <2>1 DEF AskedFor, refs
    <3>. QED  BY <3>1, <2>2, <2>3
  <2>5. ASSUME NEW i \in 1..(m + 1)
        PROVE  \E j \in 1..(l + 1) : all[i] = cs[j].pointer /\ cs[j].kind = "template"
    <3>1. CASE i = m + 1
      BY <3>1, <1>2, <2>2, <2>3
    <3>2. CASE i \in 1..m
      <4>1. PICK j \in 1..l : templates[i] = calls[j].pointer /\ calls[j].kind = "template"
        BY <3>2, <1>1, <2>1 DEF AskedFor, templates
      <4>. QED  BY <3>2, <4>1, <1>2, <2>2, <2>3
    <3>. QED  BY <3>1, <3>2, <1>3
  <2>. QED  BY <1>1, <1>2, <2>2, <2>4, <2>5 DEF AskedFor, refs, all
<1>. QED  BY <1>8, <1>9

-----------------------------------------------------------------------------
(* Copies: the steps. *)

LEMMA CopyInitially == CopyInit => CopyInv
<1>. SUFFICES ASSUME CopyInit PROVE CopyInv
  OBVIOUS
<1>1. /\ plan = [references |-> <<>>, templates |-> <<>>]
      /\ plan.references = <<>> /\ plan.templates = <<>>
      /\ Len(plan.references) = 0 /\ Len(plan.templates) = 0
  BY DEF CopyInit, NoPlan
<1>2. BuilderTypes
  BY <1>1, EmptySeq DEF CopyInit, BuilderTypes
<1>3. Paths(plan.references) = {}
  BY <1>1 DEF Paths
<1>4. original = Without(original, {})
  BY DocumentIs DEF CopyInit, Without, IsAFcn
<1>5. MovedOut(original, settings, plan.references)
  BY <1>1, <1>3, <1>4 DEF MovedOut, CopyInit
<1>6. Disjoint(plan)
  <2>1. PICK pl : pl = plan
    OBVIOUS
  <2>2. /\ pl.references \in Seq(Nat) /\ pl.templates \in Seq(Nat)
        /\ 1..Len(pl.references) = {} /\ 1..Len(pl.templates) = {}
    BY <1>1, <2>1, EmptySeq
  <2>3. Disjoint(pl)
    BY <2>2, DisjointIs
  <2>. QED  BY <2>1, <2>3
<1>7. AskedFor(original, asked, plan)
  BY <1>1 DEF AskedFor
<1>8. answer.valid = FALSE
  BY DEF CopyInit, NoAnswer
<1>9. Answered
  BY <1>8 DEF Answered, BuiltRestores, HydrationFillsPlaceholders, OneMediaFile
<1>. QED  BY <1>2, <1>5, <1>6, <1>7, <1>9 DEF CopyInv, CopyInit

LEMMA AnswerStands ==
  ASSUME Answered, UNCHANGED <<original, answer>>
  PROVE  Answered'
BY DEF Answered, BuiltRestores, HydrationFillsPlaceholders, OneMediaFile, References

\* The settings of the builder.
LEMMA SettingsAre ==
  ASSUME CopyInv
  PROVE  /\ original \in Document /\ settings = Without(original, Paths(plan.references))
         /\ IsAFcn(settings) /\ DOMAIN settings \subseteq DOMAIN original
         /\ DOMAIN original \subseteq PathSet /\ DOMAIN settings \subseteq PathSet
         /\ IsFiniteSet(DOMAIN settings) /\ <<>> \notin DOMAIN settings
         /\ Paths(plan.references) \subseteq PathSet
         /\ plan.references \in Seq(CopyReference) /\ plan.templates \in Seq(Pointers)
         /\ asked \in Seq(Call)
<1>1. /\ original \in Document /\ settings = Without(original, Paths(plan.references))
      /\ Paths(plan.references) \subseteq DOMAIN original
      /\ plan.references \in Seq(CopyReference) /\ plan.templates \in Seq(Pointers)
      /\ asked \in Seq(Call)
  BY DEF CopyInv, BuilderTypes, MovedOut
<1>2. IsAFcn(settings) /\ DOMAIN settings \subseteq DOMAIN original
  BY <1>1 DEF Without, IsAFcn
<1>3. IsFiniteSet(DOMAIN settings)
  BY <1>1, <1>2, DocumentIs, FS_Subset
<1>. QED  BY <1>1, <1>2, <1>3, DocumentIs

\* A call that moves values out.
LEMMA MovesKeep ==
  ASSUME CopyInv, NEW c \in Call, asked' = Append(asked, c), ~failed,
         UNCHANGED <<original, answer, failed>>,
         NEW more \in Seq(CopyReference), Clean(more),
         \A i \in 1..Len(more) :
           /\ At(more, i) \in DOMAIN settings /\ more[i].pointer.canonical
           /\ more[i].value = Value(settings, At(more, i))
           /\ At(more, i) \in NamedIn(original, c)
           /\ more[i].kind = "variable" => c.kind = "variable",
         settings' = Without(settings, Paths(more)),
         plan' = [plan EXCEPT !.references = @ \o more]
  PROVE  CopyInv'
<1>1. /\ original \in Document /\ plan.references \in Seq(CopyReference)
      /\ plan.templates \in Seq(Pointers) /\ asked \in Seq(Call)
  BY SettingsAre
<1>2. /\ plan'.references = plan.references \o more /\ plan'.templates = plan.templates
      /\ plan' \in [references : Seq(CopyReference), templates : Seq(Pointers)]
  BY <1>1, ConcatProperties DEF CopyInv, BuilderTypes
<1>3. BuilderTypes'
  BY <1>1, <1>2, AppendProperties DEF CopyInv, BuilderTypes
<1>4. MovedOut(original, settings', plan'.references)
  <2>1. MovedOut(original, settings, plan.references)
    BY DEF CopyInv
  <2>. QED  BY <1>1, <1>2, <2>1, MoreMovedOut
<1>5. ASSUME WellAsked(original, asked')
      PROVE  Disjoint(plan') /\ AskedFor(original, asked', plan')
  <2>1. WellAsked(original, Append(asked, c)) /\ WellAsked(original, asked)
    BY <1>1, <1>5, AskedBefore
  <2>2. Disjoint(plan) /\ AskedFor(original, asked, plan)
    BY <2>1 DEF CopyInv
  <2>. QED  BY <1>1, <1>2, <2>1, <2>2, MoreAskedFor
<1>6. Answered'
  BY AnswerStands DEF CopyInv
<1>. QED  BY <1>3, <1>4, <1>5, <1>6 DEF CopyInv

\* A call that is no proper one.
LEMMA FailsKeeps ==
  ASSUME CopyInv, NEW c \in Call, asked' = Append(asked, c),
         UNCHANGED <<original, answer, settings, plan>>, failed' \in BOOLEAN,
         ~WellAsked(original, Append(asked, c))
  PROVE  CopyInv'
<1>1. BuilderTypes'
  BY AppendProperties DEF CopyInv, BuilderTypes
<1>2. MovedOut(original, settings', plan'.references)
  BY DEF CopyInv
<1>3. Answered'
  BY AnswerStands DEF CopyInv
<1>. QED  BY <1>1, <1>2, <1>3 DEF CopyInv

\* A proper call finds what it names as it was, and the builder in order.
LEMMA ProperFinds ==
  ASSUME CopyInv, NEW c \in Call, WellAsked(original, Append(asked, c))
  PROVE  ~failed /\ Found(settings, c.pointer)
         /\ settings[c.pointer.path] = original[c.pointer.path]
<1>1. /\ original \in Document /\ plan.references \in Seq(CopyReference)
      /\ plan.templates \in Seq(Pointers) /\ asked \in Seq(Call)
      /\ MovedOut(original, settings, plan.references)
  BY SettingsAre DEF CopyInv
<1>2. WellAsked(original, asked) /\ ProperIn(original, c)
  BY <1>1, AskedBefore
<1>3. ~failed /\ AskedFor(original, asked, plan)
  BY <1>2 DEF CopyInv
<1>4. c.pointer.path \in NamedIn(original, c) /\ Found(original, c.pointer)
  BY <1>2 DEF NamedIn, ProperIn
<1>5. \A i \in 1..Len(plan.references) : Apart(c.pointer.path, At(plan.references, i))
  BY <1>1, <1>3, <1>4, ApartFromPlan
<1>6. c.pointer.path \in DOMAIN settings /\ settings[c.pointer.path] = original[c.pointer.path]
  BY <1>1, <1>4, <1>5, StillThere DEF Found
<1>. QED  BY <1>3, <1>4, <1>6 DEF Found

LEMMA ReferenceKeeps ==
  ASSUME CopyInv, NEW pointer \in Pointers, NEW kind \in Kinds,
         NEW file \in MediaFile \cup {NoFile}, Reference(kind, pointer, file)
  PROVE  CopyInv'
<1>1. PICK c \in Call : c.kind = kind /\ c.pointer = pointer /\ asked' = Append(asked, c)
  <2>1. [kind |-> kind, pointer |-> pointer] \in Call
    BY DEF Call
  <2>. QED  BY <2>1 DEF Reference, Asks
<1>2. UNCHANGED <<original, answer>>
  BY DEF Reference, Asks
<1>3. CASE failed \/ ~Found(settings, pointer)
  <2>1. failed' = TRUE /\ UNCHANGED <<settings, plan>>
    BY <1>3 DEF Reference
  <2>2. ~WellAsked(original, Append(asked, c))
    BY <1>1, <1>3, ProperFinds
  <2>. QED  BY <1>1, <1>2, <2>1, <2>2, FailsKeeps
<1>4. CASE ~(failed \/ ~Found(settings, pointer))
  <2>. DEFINE p == pointer.path
              ref == [pointer |-> pointer, kind |-> kind, file |-> file,
                      value |-> Value(settings, p)]
              more == <<ref>>
  <2>1. /\ settings' = Replaced(settings, p, NullValue)
        /\ plan' = [plan EXCEPT !.references = Append(@, ref)]
        /\ failed' = failed /\ p \in DOMAIN settings /\ pointer.canonical /\ ~failed
    BY <1>4 DEF Reference, Found
  <2>2. /\ original \in Document /\ settings = Without(original, Paths(plan.references))
        /\ DOMAIN settings \subseteq PathSet /\ Paths(plan.references) \subseteq PathSet
        /\ plan.references \in Seq(CopyReference) /\ p \in PathSet
    BY <2>1, SettingsAre
  <2>3. ref \in CopyReference
    <3>1. Value(settings, p) \in Moveable
      BY <2>2 DEF Moveable
    <3>2. pointer \in [path : PathSet, canonical : BOOLEAN]
      BY CopyAssumption DEF Pointers, PathSet
    <3>. QED  BY <3>1, <3>2 DEF CopyReference
  <2>4. ref.pointer = pointer /\ ref.kind = kind /\ ref.value = Value(settings, p)
    OBVIOUS
  <2>. HIDE DEF ref
  <2>5. more \in Seq(CopyReference) /\ Len(more) = 1 /\ more[1] = ref
    BY <2>3
  <2>6. At(more, 1) = p /\ Paths(more) = {p} /\ 1..Len(more) = {1}
    BY <2>4, <2>5 DEF At, Paths
  <2>7. Clean(more)
    BY <2>6 DEF Clean
  <2>8. settings' = Without(settings, Paths(more))
    BY <2>1, <2>2, <2>6, ReplacedByNull
  <2>9. plan' = [plan EXCEPT !.references = @ \o more]
    <3>1. Append(plan.references, ref) = plan.references \o more
      BY <2>2, <2>3, <2>5, AppendIsConcat
    <3>. QED  BY <2>1, <3>1
  <2>10. p \in NamedIn(original, c)
    BY <1>1 DEF NamedIn
  <2>11. \A i \in 1..Len(more) :
           /\ At(more, i) \in DOMAIN settings /\ more[i].pointer.canonical
           /\ more[i].value = Value(settings, At(more, i))
           /\ At(more, i) \in NamedIn(original, c)
           /\ more[i].kind = "variable" => c.kind = "variable"
    BY <1>1, <2>1, <2>4, <2>5, <2>6, <2>10
  <2>. HIDE DEF more
  <2>. QED  BY <1>1, <1>2, <2>1, <2>5, <2>7, <2>8, <2>9, <2>11, MovesKeep
<1>. QED  BY <1>3, <1>4

\* An element of a list is not below another one.
LEMMA Siblings ==
  ASSUME NEW p \in PathSet, NEW q \in PathSet, p # <<>>, q # <<>>, Front(p) = Front(q),
         IsPrefix(p, q)
  PROVE  p = q
<1>1. PICK n \in Nat, m \in Nat : n = Len(p) /\ m = Len(q) /\ n # 0 /\ m # 0
  BY LenProperties, EmptySeq DEF PathSet
<1>2. Len(Front(p)) = n - 1 /\ Len(Front(q)) = m - 1
  <2>1. (\A i \in 1..(n - 1) : p[i] \in Nat) /\ (\A i \in 1..(m - 1) : q[i] \in Nat)
    <3>1. (\A i \in 1..n : p[i] \in Nat) /\ (\A i \in 1..m : q[i] \in Nat)
      BY <1>1, ElementOfSeq DEF PathSet
    <3>. QED  BY <1>1, <3>1
  <2>2. 1 \in Int /\ n - 1 \in Int /\ m - 1 \in Int
    OBVIOUS
  <2>3. /\ Len(SubSeq(p, 1, n - 1)) = (IF 1 <= n - 1 THEN n - 1 - 1 + 1 ELSE 0)
        /\ Len(SubSeq(q, 1, m - 1)) = (IF 1 <= m - 1 THEN m - 1 - 1 + 1 ELSE 0)
    BY <2>1, <2>2, SubSeqProperties
  <2>. QED  BY <1>1, <2>3 DEF Front
<1>3. Len(p) = Len(q)
  BY <1>1, <1>2
<1>4. \A i \in 1..Len(p) : p[i] = q[i]
  BY PrefixIs
<1>. QED  BY <1>3, <1>4, SeqEqual DEF PathSet

\* The elements of a list in order are each there once.
LEMMA InOrderIs ==
  ASSUME NEW E, IsFiniteSet(E), \A q \in E : q \in PathSet /\ q # <<>>,
         NEW sorted \in InOrder(E)
  PROVE  /\ Cardinality(E) \in Nat /\ sorted \in [1..Cardinality(E) -> E]
         /\ \A i, k \in 1..Cardinality(E) : sorted[i] = sorted[k] => i = k
         /\ \A q \in E : \E i \in 1..Cardinality(E) : sorted[i] = q
<1>1. PICK n \in Nat : n = Cardinality(E)
  BY FS_CardinalityType
<1>2. /\ sorted \in [1..n -> E]
      /\ \A i, k \in 1..n : i < k => Last(sorted[i]) < Last(sorted[k])
  BY <1>1 DEF InOrder
<1>3. \A i \in 1..n : Last(sorted[i]) \in Nat
  <2>1. ASSUME NEW q \in E PROVE Last(q) \in Nat
    <3>1. q \in Seq(Nat) /\ q # <<>>
      BY DEF PathSet
    <3>2. Len(q) \in 1..Len(q)
      BY <3>1, LenProperties, EmptySeq
    <3>. QED  BY <3>1, <3>2, ElementOfSeq DEF Last
  <2>. QED  BY <1>2, <2>1
<1>4. ASSUME NEW i \in 1..n, NEW k \in 1..n, sorted[i] = sorted[k] PROVE i = k
  <2>1. ~(i < k) /\ ~(k < i)
    BY <1>2, <1>3, <1>4
  <2>. QED  BY <2>1
<1>5. sorted \in Injection(1..n, E)
  BY <1>2, <1>4 DEF Injection, IsInjective
<1>6. Cardinality(1..n) = n
  BY FS_Interval
<1>7. sorted \in Surjection(1..n, E)
  BY <1>1, <1>5, <1>6, FS_Injection
<1>. QED  BY <1>1, <1>2, <1>4, <1>7 DEF Surjection

LEMMA ResourceListKeeps ==
  ASSUME CopyInv, NEW pointer \in Pointers, ResourceList(pointer)
  PROVE  CopyInv'
<1>1. PICK c \in Call : c.kind = "list" /\ c.pointer = pointer /\ asked' = Append(asked, c)
  <2>1. [kind |-> "list", pointer |-> pointer] \in Call
    BY DEF Call
  <2>. QED  BY <2>1 DEF ResourceList, Asks
<1>2. UNCHANGED <<original, answer>>
  BY DEF ResourceList, Asks
<1>3. /\ original \in Document /\ settings = Without(original, Paths(plan.references))
      /\ DOMAIN settings \subseteq PathSet /\ Paths(plan.references) \subseteq PathSet
      /\ DOMAIN settings \subseteq DOMAIN original
      /\ IsFiniteSet(DOMAIN settings) /\ <<>> \notin DOMAIN settings
      /\ plan.references \in Seq(CopyReference) /\ asked \in Seq(Call)
  BY SettingsAre
<1>4. CASE failed \/ ~Found(settings, pointer) \/ settings[pointer.path] # "list"
  <2>1. failed' = TRUE /\ UNCHANGED <<settings, plan>>
    BY <1>4 DEF ResourceList
  <2>2. ASSUME WellAsked(original, Append(asked, c)) PROVE FALSE
    <3>1. ProperIn(original, c)
      BY <1>3, <2>2, AskedBefore
    <3>2. original[pointer.path] = "list"
      BY <1>1, <3>1 DEF ProperIn
    <3>3. ~failed /\ Found(settings, pointer) /\ settings[pointer.path] = original[pointer.path]
      BY <1>1, <2>2, ProperFinds
    <3>. QED  BY <1>4, <3>2, <3>3
  <2>. QED  BY <1>1, <1>2, <2>1, <2>2, FailsKeeps
<1>5. CASE ~(failed \/ ~Found(settings, pointer) \/ settings[pointer.path] # "list")
  <2>. DEFINE E == Elements(pointer)
  <2>1. PICK sorted \in InOrder(E) :
          /\ settings' = Emptied(E)
          /\ plan' = [plan EXCEPT !.references = @ \o Moved(sorted)]
          /\ failed' = failed /\ ~failed
    BY <1>5 DEF ResourceList
  <2>2. /\ IsFiniteSet(E) /\ E \subseteq DOMAIN settings
        /\ \A q \in E : q \in PathSet /\ q # <<>> /\ Front(q) = pointer.path
    <3>1. E \subseteq DOMAIN settings
      BY DEF Elements
    <3>2. IsFiniteSet(E)
      BY <1>3, <3>1, FS_Subset
    <3>. QED  BY <1>3, <3>1, <3>2 DEF Elements
  <2>3. settings' = Without(settings, E)
    BY <2>1 DEF Emptied, Without
  <2>. HIDE DEF E
  <2>4. PICK n \in Nat : /\ n = Cardinality(E) /\ sorted \in [1..n -> E]
                         /\ \A i, k \in 1..n : sorted[i] = sorted[k] => i = k
                         /\ \A q \in E : \E i \in 1..n : sorted[i] = q
    BY <2>2, InOrderIs
  <2>. DEFINE more == Moved(sorted)
  <2>5. more = [i \in 1..n |-> [pointer |-> [path |-> sorted[i], canonical |-> TRUE],
                                kind |-> "resource", file |-> NoFile,
                                value |-> Value(settings, sorted[i])]]
    BY <2>4 DEF Moved
  <2>6. ASSUME NEW i \in 1..n
        PROVE  /\ At(more, i) = sorted[i] /\ more[i].pointer.canonical
               /\ more[i].kind = "resource" /\ more[i].value = Value(settings, At(more, i))
               /\ more[i] \in CopyReference
    <3>1. PICK p \in E : p = sorted[i]
      BY <2>4
    <3>2. Value(settings, p) \in Moveable
      BY <1>3, <2>2 DEF Moveable
    <3>3. PICK v \in Moveable : v = Value(settings, p)
      BY <3>2
    <3>4. more[i] = [pointer |-> [path |-> p, canonical |-> TRUE],
                     kind |-> "resource", file |-> NoFile, value |-> v]
      BY <2>5, <3>1, <3>3
    <3>. HIDE DEF more
    <3>5. /\ more[i].pointer.path = p /\ more[i].pointer.canonical
          /\ more[i].kind = "resource" /\ more[i].value = v
      BY <3>4
    <3>6. more[i] \in CopyReference
      <4>1. p \in PathSet
        BY <2>2
      <4>. QED  BY <3>4, <4>1 DEF CopyReference, Kinds
    <3>. QED  BY <3>1, <3>3, <3>5, <3>6 DEF At
  <2>7. more \in Seq(CopyReference) /\ Len(more) = n
    <3>1. more \in [1..n -> CopyReference]
      <4>1. \A i \in 1..n : more[i] \in CopyReference
        BY <2>6
      <4>2. more = [i \in 1..n |-> more[i]]
        BY <2>5
      <4>. HIDE DEF more
      <4>. QED  BY <4>1, <4>2
    <3>. HIDE DEF more
    <3>. QED  BY <3>1
  <2>. HIDE DEF more
  <2>8. Paths(more) = E
    <3>1. Paths(more) = {sorted[i] : i \in 1..n}
      BY <2>6, <2>7 DEF Paths
    <3>. QED  BY <2>4, <3>1
  <2>9. Clean(more)
    <3>1. ASSUME NEW i \in 1..n, NEW k \in 1..n, i # k, IsPrefix(sorted[i], sorted[k])
          PROVE  FALSE
      <4>1. sorted[i] \in E /\ sorted[k] \in E
        BY <2>4
      <4>2. sorted[i] = sorted[k]
        BY <2>2, <3>1, <4>1, Siblings
      <4>. QED  BY <2>4, <3>1, <4>2
    <3>. QED  BY <2>6, <2>7, <3>1 DEF Clean
  <2>10. ASSUME NEW i \in 1..Len(more)
         PROVE  /\ At(more, i) \in DOMAIN settings /\ more[i].pointer.canonical
                /\ more[i].value = Value(settings, At(more, i))
                /\ At(more, i) \in NamedIn(original, c)
                /\ more[i].kind = "variable" => c.kind = "variable"
    <3>1. At(more, i) \in E
      BY <2>4, <2>6, <2>7
    <3>2. /\ At(more, i) \in DOMAIN settings /\ At(more, i) \in DOMAIN original
          /\ Front(At(more, i)) = pointer.path
      BY <1>3, <2>2, <3>1
    <3>3. At(more, i) \in NamedIn(original, c)
      BY <1>1, <3>2 DEF NamedIn
    <3>. QED  BY <2>6, <2>7, <3>2, <3>3
  <2>11. /\ settings' = Without(settings, Paths(more))
         /\ plan' = [plan EXCEPT !.references = @ \o more]
    BY <2>1, <2>3, <2>8 DEF more
  <2>. QED  BY <1>1, <1>2, <2>1, <2>7, <2>9, <2>10, <2>11, MovesKeep
<1>. QED  BY <1>4, <1>5

LEMMA TemplateKeeps ==
  ASSUME CopyInv, NEW pointer \in Pointers, Template(pointer)
  PROVE  CopyInv'
<1>1. PICK c \in Call : c.kind = "template" /\ c.pointer = pointer /\ asked' = Append(asked, c)
  <2>1. [kind |-> "template", pointer |-> pointer] \in Call
    BY DEF Call
  <2>. QED  BY <2>1 DEF Template, Asks
<1>2. /\ UNCHANGED <<original, answer, settings, failed>>
      /\ plan' = [plan EXCEPT !.templates = Append(@, pointer)]
  BY DEF Template, Asks
<1>3. /\ original \in Document /\ plan.references \in Seq(CopyReference)
      /\ plan.templates \in Seq(Pointers) /\ asked \in Seq(Call)
  BY SettingsAre
<1>4. /\ plan'.references = plan.references /\ plan'.templates = Append(plan.templates, pointer)
      /\ plan' \in [references : Seq(CopyReference), templates : Seq(Pointers)]
  BY <1>2, <1>3, AppendProperties DEF CopyInv, BuilderTypes
<1>5. BuilderTypes'
  BY <1>1, <1>2, <1>3, <1>4, AppendProperties DEF CopyInv, BuilderTypes
<1>6. MovedOut(original, settings, plan'.references)
  BY <1>4 DEF CopyInv
<1>7. ASSUME WellAsked(original, Append(asked, c))
      PROVE  ~failed /\ Disjoint(plan') /\ AskedFor(original, Append(asked, c), plan')
  <2>1. WellAsked(original, asked)
    BY <1>3, <1>7, AskedBefore
  <2>2. ~failed /\ Disjoint(plan) /\ AskedFor(original, asked, plan)
    BY <2>1 DEF CopyInv
  <2>3. PICK new : new = plan'
    OBVIOUS
  <2>4. Disjoint(new) /\ AskedFor(original, Append(asked, c), new)
    BY <1>1, <1>3, <1>4, <1>7, <2>2, <2>3, TemplateAskedFor
  <2>. QED  BY <2>2, <2>3, <2>4
<1>8. Answered'
  BY <1>2, AnswerStands DEF CopyInv
<1>. QED  BY <1>1, <1>2, <1>5, <1>6, <1>7, <1>8 DEF CopyInv

\* What the properties say of an answer that is valid.
FillsPlaceholders(a) ==
  LET h == Hydrated(a.settings, a.plan.references) IN
  /\ \A ref \in References(a) :
       /\ a.settings[ref.pointer.path] = Null
       /\ Value(h, ref.pointer.path) = ref.value
  /\ \A q \in DOMAIN a.settings :
       q \notin {ref.pointer.path : ref \in References(a)} => h[q] = a.settings[q]
  /\ \A i \in DOMAIN a.plan.templates : IsParsed(Value(h, a.plan.templates[i].path))
CopiesFilesOnce(a) ==
  \A r, s \in References(a) :
    r.value = s.value /\ r.file # NoFile /\ s.file # NoFile => r.file = s.file

LEMMA AnswerFills ==
  ASSUME NEW d, IsAFcn(d), DOMAIN d \subseteq PathSet,
         NEW pl, NEW F, pl.references \in Seq(F), pl.templates \in Seq(Pointers),
         AreReferences(pl.references), Valid(d, pl),
         NEW a, a.settings = d, a.plan = pl
  PROVE  FillsPlaceholders(a) /\ CopiesFilesOnce(a)
<1>. DEFINE refs == pl.references
            h == Hydrated(d, refs)
<1>1. /\ \A i \in DOMAIN refs : /\ d[refs[i].pointer.path] = Null
                                /\ Value(h, refs[i].pointer.path) = refs[i].value
      /\ \A q \in DOMAIN d :
           q \notin {refs[i].pointer.path : i \in DOMAIN refs} => h[q] = d[q]
      /\ \A i \in DOMAIN pl.templates : IsParsed(Value(h, pl.templates[i].path))
  BY ValidFills
<1>2. \A i, k \in DOMAIN refs :
        refs[i].file # NoFile /\ refs[k].file # NoFile /\ refs[i].value = refs[k].value =>
          refs[i].file = refs[k].file
  BY DEF Valid, FilesAgree
<1>3. References(a) = {refs[i] : i \in DOMAIN refs}
  BY DEF References
<1>4. Hydrated(a.settings, a.plan.references) = h
  OBVIOUS
<1>. HIDE DEF h, refs
<1>5. {ref.pointer.path : ref \in References(a)} = {refs[i].pointer.path : i \in DOMAIN refs}
  BY <1>3
<1>6. FillsPlaceholders(a)
  BY <1>1, <1>3, <1>4, <1>5 DEF FillsPlaceholders, h
<1>7. CopiesFilesOnce(a)
  BY <1>2, <1>3 DEF CopiesFilesOnce
<1>. QED  BY <1>6, <1>7

LEMMA BuildKeeps ==
  ASSUME CopyInv, Build
  PROVE  CopyInv'
<1>1. PICK a : a = answer' /\ a = [settings |-> settings, plan |-> plan, built |-> TRUE,
                                   valid |-> ~failed /\ Valid(settings, plan)]
  BY DEF Build
<1>2. UNCHANGED <<original, settings, plan, failed, asked>>
  BY DEF Build
<1>3. a.settings = settings /\ a.plan = plan
  BY <1>1
<1>4. a.valid = (~failed /\ Valid(settings, plan))
  BY <1>1
<1>5. a.valid => Valid(settings, plan)
  BY <1>4, Zenon
<1>6. /\ original \in Document /\ IsAFcn(settings) /\ DOMAIN settings \subseteq PathSet
      /\ settings = Without(original, Paths(plan.references))
      /\ plan.references \in Seq(CopyReference) /\ plan.templates \in Seq(Pointers)
      /\ AreReferences(plan.references)
  BY SettingsAre, ReferencesAre
<1>7. ASSUME Valid(settings, plan)
      PROVE  Hydrated(settings, plan.references) = original
  <2>1. Clean(plan.references)
    BY <1>6, <1>7, ReferencesApart
  <2>2. \A i \in 1..Len(plan.references) :
          plan.references[i].value = Value(original, At(plan.references, i))
    BY <2>1 DEF CopyInv, MovedOut
  <2>. QED  BY <1>6, <2>1, <2>2, DocumentIs, MovedBack
<1>8. BuiltRestores'
  <2>1. a.valid => Hydrated(a.settings, a.plan.references) = original
    BY <1>3, <1>5, <1>7
  <2>. QED  BY <1>1, <1>2, <2>1 DEF BuiltRestores
<1>9. HydrationFillsPlaceholders' /\ OneMediaFile'
  <2>1. CASE a.valid
    <3>1. Valid(settings, plan)
      BY <1>5, <2>1
    <3>2. FillsPlaceholders(a) /\ CopiesFilesOnce(a)
      BY <1>3, <1>6, <3>1, AnswerFills
    <3>. QED  BY <1>1, <3>2 DEF HydrationFillsPlaceholders, OneMediaFile,
                                FillsPlaceholders, CopiesFilesOnce
  <2>2. CASE ~a.valid
    BY <1>1, <2>2 DEF HydrationFillsPlaceholders, OneMediaFile
  <2>. QED  BY <2>1, <2>2
<1>10. BuilderTypes'
  BY <1>2 DEF CopyInv, BuilderTypes
<1>. QED  BY <1>2, <1>8, <1>9, <1>10 DEF CopyInv, Answered

LEMMA ReceiveKeeps ==
  ASSUME CopyInv, Receive
  PROVE  CopyInv'
<1>1. PICK d \in Document, refs \in SeqOf(Foreign, 2), templates \in SeqOf(Pointers, 1) :
        answer' = [settings |-> d, plan |-> [references |-> refs, templates |-> templates],
                   built |-> FALSE,
                   valid |-> Valid(d, [references |-> refs, templates |-> templates])]
  BY DEF Receive
<1>2. UNCHANGED <<original, settings, plan, failed, asked>>
  BY DEF Receive
<1>3. PICK pl : pl = [references |-> refs, templates |-> templates]
  OBVIOUS
<1>4. PICK a : /\ a = answer'
               /\ a = [settings |-> d, plan |-> pl, built |-> FALSE, valid |-> Valid(d, pl)]
  BY <1>1, <1>3
<1>5. a.settings = d /\ a.plan = pl /\ a.built = FALSE
  BY <1>4
<1>6. a.valid = Valid(d, pl)
  BY <1>4
<1>7. a.valid => Valid(d, pl)
  BY <1>6, Zenon
<1>8. /\ pl.references = refs /\ pl.templates = templates
      /\ refs \in Seq(Foreign) /\ templates \in Seq(Pointers)
  BY <1>3, BoundedSeqIsSeq
<1>9. AreReferences(refs)
  <2>1. /\ Len(refs) \in Nat /\ refs = [i \in 1..Len(refs) |-> refs[i]]
        /\ \A i \in 1..Len(refs) : refs[i] \in Foreign
    BY <1>8, LenProperties
  <2>2. ASSUME NEW ref \in Foreign
        PROVE  /\ ref.pointer.path \in PathSet /\ ref.pointer.canonical \in BOOLEAN
               /\ IsAFcn(ref.value) /\ DOMAIN ref.value \subseteq PathSet
    BY CopyAssumption DEF PathSet, IsTree, IsAFcn
  <2>. QED  BY <2>1, <2>2 DEF AreReferences, At
<1>10. BuiltRestores'
  BY <1>4, <1>5 DEF BuiltRestores
<1>11. HydrationFillsPlaceholders' /\ OneMediaFile'
  <2>1. CASE a.valid
    <3>1. Valid(d, pl) /\ IsAFcn(d) /\ DOMAIN d \subseteq PathSet
      BY <1>7, <2>1, DocumentIs
    <3>2. FillsPlaceholders(a) /\ CopiesFilesOnce(a)
      BY <1>5, <1>8, <1>9, <3>1, AnswerFills
    <3>. QED  BY <1>4, <3>2 DEF HydrationFillsPlaceholders, OneMediaFile,
                                FillsPlaceholders, CopiesFilesOnce
  <2>2. CASE ~a.valid
    BY <1>4, <2>2 DEF HydrationFillsPlaceholders, OneMediaFile
  <2>. QED  BY <2>1, <2>2
<1>12. BuilderTypes'
  BY <1>2 DEF CopyInv, BuilderTypes
<1>. QED  BY <1>2, <1>10, <1>11, <1>12 DEF CopyInv, Answered

LEMMA CopyStep == CopyInv /\ [CopyNext]_copyVars => CopyInv'
<1>. SUFFICES ASSUME CopyInv, [CopyNext]_copyVars PROVE CopyInv'
  OBVIOUS
<1>1. ASSUME NEW pointer \in Pointers, NEW kind \in Kinds, NEW file \in MediaFile \cup {NoFile},
             Reference(kind, pointer, file)
      PROVE  CopyInv'
  BY <1>1, ReferenceKeeps
<1>2. ASSUME NEW pointer \in Pointers, ResourceList(pointer) PROVE CopyInv'
  BY <1>2, ResourceListKeeps
<1>3. ASSUME NEW pointer \in Pointers, Template(pointer) PROVE CopyInv'
  BY <1>3, TemplateKeeps
<1>4. CASE Build
  BY <1>4, BuildKeeps
<1>5. CASE Receive
  BY <1>5, ReceiveKeeps
<1>6. CASE UNCHANGED copyVars
  <2>1. Answered'
    BY <1>6, AnswerStands DEF CopyInv, copyVars
  <2>. QED  BY <1>6, <2>1 DEF CopyInv, copyVars, BuilderTypes
<1>. QED  BY <1>1, <1>2, <1>3, <1>4, <1>5, <1>6 DEF CopyNext

\* Calls that name different, existing, fitting values.
LEMMA ProperPlanBuilds ==
  ASSUME CopyInv, WellAsked(original, asked),
         \A i \in DOMAIN plan.references : plan.references[i].file = NoFile
  PROVE  ~failed /\ Valid(settings, plan)
<1>. DEFINE refs == plan.references
            templates == plan.templates
            calls == asked
<1>1. /\ original \in Document /\ refs \in Seq(CopyReference) /\ templates \in Seq(Pointers)
      /\ MovedOut(original, settings, refs) /\ ~failed /\ Disjoint(plan)
      /\ AskedFor(original, calls, plan) /\ DOMAIN original \subseteq PathSet
      /\ DOMAIN settings \subseteq PathSet
      /\ settings = Without(original, Paths(refs))
  BY SettingsAre DEF CopyInv
<1>2. DOMAIN refs = 1..Len(refs) /\ DOMAIN templates = 1..Len(templates)
  BY <1>1, LenProperties
<1>3. AreReferences(refs)
  BY <1>1, ReferencesAre
<1>4. \A i \in 1..Len(refs) : refs[i].pointer.canonical
  BY <1>1 DEF MovedOut
<1>5. /\ \A i, k \in 1..Len(refs) : i # k => ~Overlap(refs[i].pointer, refs[k].pointer)
      /\ \A i \in 1..Len(refs), k \in 1..Len(templates) :
           ~Overlap(refs[i].pointer, templates[k])
  BY <1>1, DisjointIs
<1>6. Clean(refs)
  <2>1. \A i \in 1..Len(refs) : refs[i].pointer.canonical = TRUE
    BY <1>3, <1>4 DEF AreReferences
  <2>. QED  BY <1>5, <2>1 DEF Clean, At, Overlap
<1>7. ASSUME NEW i \in 1..Len(refs)
      PROVE  /\ Found(settings, refs[i].pointer) /\ Placeholder(settings, refs[i])
             /\ ValidCopyReference(refs[i])
  <2>. DEFINE p == At(refs, i)
  <2>1. p \in PathSet /\ p \in DOMAIN original /\ p \in Paths(refs)
    BY <1>1, <1>3 DEF AreReferences, MovedOut, Paths
  <2>2. \A q \in Paths(refs) : q # p => ~IsPrefix(q, p)
    BY <1>6 DEF Clean, Paths
  <2>3. p \in DOMAIN settings /\ settings[p] = Null
    BY <1>1, <2>1, <2>2 DEF Without
  <2>4. Found(settings, refs[i].pointer)
    BY <1>4, <2>3 DEF Found, At
  <2>5. ASSUME NEW q \in DOMAIN settings, IsPrefix(p, q) PROVE q = p
    BY <1>1, <2>1, <2>5 DEF Without
  <2>6. Value(settings, p) = NullValue
    <3>. DEFINE v == Value(settings, p)
    <3>1. v = [r \in {r \in PathSet : p \o r \in DOMAIN settings} |-> settings[p \o r]]
      <4>1. DOMAIN settings \subseteq PathSet /\ p \in PathSet
        BY <1>1, <2>1
      <4>. HIDE DEF p
      <4>. QED  BY <4>1, ValueIs
    <3>. HIDE DEF p
    <3>2. ASSUME NEW r \in PathSet, p \o r \in DOMAIN settings PROVE r = <<>>
      <4>1. IsPrefix(p, p \o r) /\ Rest(p, p \o r) = r
        BY <2>1, Followed
      <4>2. p \o r = p
        BY <2>5, <3>2, <4>1
      <4>. QED  BY <2>1, <4>1, <4>2, NothingFollows
    <3>3. <<>> \in PathSet /\ p \o <<>> = p
      BY <2>1, NothingFollows
    <3>4. {r \in PathSet : p \o r \in DOMAIN settings} = {<<>>}
      BY <2>3, <3>2, <3>3
    <3>. HIDE DEF v
    <3>5. IsAFcn(v) /\ DOMAIN v = {<<>>} /\ v[<<>>] = Null
      BY <2>3, <3>1, <3>3, <3>4 DEF IsAFcn
    <3>6. IsAFcn(NullValue)
      BY DEF NullValue, IsAFcn
    <3>7. v = NullValue
      BY <3>5, <3>6, NullValueIs, SameFunction
    <3>. QED  BY <3>7 DEF v
  <2>7. PICK j \in 1..Len(calls) : /\ p \in NamedIn(original, calls[j])
                                   /\ refs[i].kind = "variable" => calls[j].kind = "variable"
    BY <1>1 DEF AskedFor
  <2>8. ProperIn(original, calls[j])
    BY DEF WellAsked
  <2>9. refs[i].value = Value(original, p)
    BY <1>1, <1>6 DEF MovedOut
  <2>10. refs[i].value # NullValue /\ (refs[i].kind = "variable" => IsText(refs[i].value))
    BY <2>7, <2>8, <2>9 DEF ProperIn
  <2>11. ValidCopyReference(refs[i])
    BY <1>2, <2>10 DEF ValidCopyReference
  <2>. QED  BY <2>4, <2>6, <2>11 DEF Placeholder, At
<1>8. ASSUME NEW k \in 1..Len(templates)
      PROVE  Found(settings, templates[k]) /\ IsParsed(Value(settings, templates[k].path))
  <2>1. PICK j \in 1..Len(calls) : templates[k] = calls[j].pointer /\ calls[j].kind = "template"
    BY <1>1 DEF AskedFor
  <2>2. ProperIn(original, calls[j])
    BY DEF WellAsked
  <2>. DEFINE p == templates[k].path
  <2>3. /\ p \in DOMAIN original /\ templates[k].canonical
        /\ IsParsed(Value(original, p))
    BY <2>1, <2>2 DEF ProperIn, NamedIn, Found
  <2>4. templates[k].canonical = TRUE
    <3>1. templates[k] \in Pointers
      BY <1>1, ElementOfSeq
    <3>. QED  BY <2>3, <3>1 DEF Pointers
  <2>5. ASSUME NEW i \in 1..Len(refs) PROVE Apart(p, At(refs, i))
    <3>1. refs[i].pointer.canonical = TRUE
      BY <1>3, <1>4 DEF AreReferences
    <3>. QED  BY <1>5, <2>4, <3>1 DEF Apart, At, Overlap
  <2>6. p \in DOMAIN settings /\ Value(settings, p) = Value(original, p)
    BY <1>1, <2>3, <2>5, StillThere
  <2>. QED  BY <2>3, <2>6 DEF Found
<1>9. FilesAgree(plan)
  BY DEF FilesAgree
<1>. HIDE DEF refs, templates
<1>10. Valid(settings, plan)
  BY <1>1, <1>2, <1>7, <1>8, <1>9 DEF Valid, refs, templates
<1>. QED  BY <1>1, <1>10

LEMMA CopyInvSuffices == CopyInv => CopiesRestore
<1>. SUFFICES ASSUME CopyInv PROVE CopiesRestore
  OBVIOUS
<1>1. /\ original \in Document /\ plan.references \in Seq(CopyReference)
      /\ plan.templates \in Seq(Pointers) /\ asked \in Seq(Call)
      /\ settings = Without(original, Paths(plan.references))
      /\ Paths(plan.references) \subseteq DOMAIN original
      /\ failed \in BOOLEAN
  BY SettingsAre DEF CopyInv, BuilderTypes, MovedOut
<1>2. /\ DOMAIN plan.references = 1..Len(plan.references)
      /\ DOMAIN asked = 1..Len(asked)
  BY <1>1, LenProperties
<1>3. CopyTypeOK
  <2>1. DOMAIN settings \subseteq DOMAIN original
    BY <1>1 DEF Without
  <2>2. \A i \in DOMAIN plan.references : plan.references[i].pointer.path \in DOMAIN original
    BY <1>1, <1>2 DEF Paths, At
  <2>3. ASSUME NEW q \in DOMAIN settings
        PROVE  settings[q] = original[q]
               \/ \E i \in DOMAIN plan.references : plan.references[i].pointer.path = q
    <3>1. CASE q \in Paths(plan.references)
      BY <1>2, <3>1 DEF Paths, At
    <3>2. CASE q \notin Paths(plan.references)
      BY <1>1, <3>2 DEF Without
    <3>. QED  BY <3>1, <3>2
  <2>. QED  BY <1>1, <2>1, <2>2, <2>3 DEF CopyTypeOK, Call
<1>4. BuildsWhenProper
  <2>. SUFFICES ASSUME \A i \in DOMAIN asked : Proper(asked[i]),
                       \A i, k \in DOMAIN asked :
                         i # k => \A p \in Named(asked[i]), q \in Named(asked[k]) : Apart(p, q),
                       \A ref \in {plan.references[i] : i \in DOMAIN plan.references} :
                         ref.file = NoFile
                PROVE  ~failed /\ Valid(settings, plan)
    BY DEF BuildsWhenProper
  <2>1. \A call : Named(call) = NamedIn(original, call)
    BY DEF Named, NamedIn
  <2>2. \A call : Proper(call) = ProperIn(original, call)
    BY <2>1 DEF Proper, ProperIn
  <2>3. WellAsked(original, asked)
    BY <1>2, <2>1, <2>2 DEF WellAsked, AllApart
  <2>4. \A i \in DOMAIN plan.references : plan.references[i].file = NoFile
    OBVIOUS
  <2>. QED  BY <2>3, <2>4, ProperPlanBuilds
<1>5. Answered
  BY DEF CopyInv
<1>. QED  BY <1>3, <1>4, <1>5 DEF CopiesRestore, Answered

\* Whatever the calls, what the builder returns without an error is, put back, what it
\* started from; an answer that passes the platform's checks, however it was made, has
\* its placeholders filled and nothing else changed, and copies a file once; and proper
\* calls never fail (CopyBuilder, validatePlan, HydratedSettings).
THEOREM CopiesPutBack == CopySpec => []CopiesRestore
<1>1. CopyInit => CopyInv
  BY CopyInitially
<1>2. CopyInv /\ [CopyNext]_copyVars => CopyInv'
  BY CopyStep
<1>3. CopyInv => CopiesRestore
  BY CopyInvSuffices
<1>. QED  BY <1>1, <1>2, <1>3, PTL DEF CopySpec
=============================================================================
