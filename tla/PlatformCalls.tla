--------------------------- MODULE PlatformCalls ---------------------------
(***************************************************************************)
(* Calls of the typed clients to the platform (integration/, platform/,    *)
(* transfercrm/, transfermedia/, internal/httpclient).                     *)
(*                                                                         *)
(* A method is a short list of requests (PlatformMethods).  Under an API   *)
(* key a request that is marked idempotent is attempted again after a      *)
(* transport error, 502, 503 or 504, unless its context has ended; under   *)
(* OAuth nothing is, nor under a user's token, which looks the same from   *)
(* here (the replay after a 401 is TokenProvider's).  None of these        *)
(* failures says whether the platform has carried the request out, or      *)
(* still will.                                                             *)
(*                                                                         *)
(* The platform is outside the repository.  What it keeps of one kind does *)
(* not depend on the other kinds, so a behaviour is about one object of    *)
(* one kind: a subject, which an upsert creates, a definition, whose key   *)
(* is unique, a file, whose bytes go to the storage first, an object made  *)
(* under an idempotency key or an identity of the caller's, or any other   *)
(* object of which there may be many.                                      *)
(***************************************************************************)
EXTENDS Naturals, Sequences, FiniteSets, PlatformMethods

CONSTANTS
  Client,       \* goroutines that call the clients
  RetryCount,   \* Config.RetryCount, after its default
  MaxIds,       \* bound: objects the platform makes
  MaxAstray     \* bound: attempts that nobody waits for any more

ASSUME CallsAssumption ==
  RetryCount \in Nat /\ MaxIds \in Nat /\ MaxAstray \in Nat

VARIABLES
  kind,    \* what the behaviour is about
  live,    \* the id of the object; 0: none
  holds,   \* the client whose write it holds, or NoClient
  ids,     \* ids given out so far
  receipt, \* the id made under the one idempotency key in use, or 0
  request, \* per client, where its call stands
  astray   \* attempts on their way that nobody waits for

callsVars == <<kind, live, holds, ids, receipt, request, astray>>

ObjectKinds == {"subject", "definition", "file", "keyed", "object"}
NoClient == "nobody"
Ids == 0..MaxIds

\* id: what the call addresses; ran: how often the platform carried out a request
\* that must be carried out once; alone, existed: ghosts, see the properties.
Calling == [phase : {"idle", "sent", "ran", "succeeded", "conflict"},
            method : Seq(Requests), attempts : 0..RetryCount + 1,
            id : Ids, answer : {"none", "done", "conflict", "missing"},
            ran : 0..RetryCount + 1, alone : BOOLEAN, existed : BOOLEAN]
NoCall == [phase |-> "idle", method |-> <<>>, attempts |-> 0, id |-> 0,
           answer |-> "none", ran |-> 0, alone |-> FALSE, existed |-> FALSE]

CallsInit ==
  /\ kind \in ObjectKinds
  /\ live = 0 /\ holds = NoClient
  /\ ids = 0 /\ receipt = 0
  /\ request = [c \in Client |-> NoCall]
  /\ astray = {}

-----------------------------------------------------------------------------
InCall(c) == request[c].phase \in {"sent", "ran"}
Now(c) == Head(request[c].method)
Writes(r) == r.effect \notin {"read", "target", "bytes"}
\* Not the same when it is repeated.
Unrepeatable(r) == r.effect \in {"create", "ensure", "upsert"}
Touches(m) == \E i \in DOMAIN m : Writes(m[i])

\* No other write is under way.
NoOtherWrite(c) == /\ \A d \in Client \ {c} : ~(InCall(d) /\ Touches(request[d].method))
            /\ astray = {}

\* A method that passes its argument checks and finds a credential; otherwise it
\* returns an error and nothing is sent.
CallMethod(c) ==
  /\ ~InCall(c)
  /\ \E m \in CallMethods :
       /\ m[1].kind = kind
       /\ request' = [d \in Client |->
         IF d = c
         THEN [NoCall EXCEPT !.phase = "sent", !.method = m, !.attempts = 1,
                             !.id = IF m[1].effect = "read" THEN 0 ELSE live,
                             !.existed = m[1].effect = "ensure" /\ live # 0,
                             !.alone = Touches(m) /\ NoOtherWrite(c)]
         ELSE [request[d] EXCEPT !.alone = @ /\ (Touches(m) => ~Touches(request[d].method))]]
  /\ UNCHANGED <<kind, live, holds, ids, receipt, astray>>

-----------------------------------------------------------------------------
(* The platform. *)

Answered(r, id) ==
  CASE r.effect \in {"create", "ensure"} /\ r.kind = "definition" /\ live # 0 -> "conflict"
    [] r.effect \in {"write", "delete"} /\ (id = 0 \/ live # id) -> "missing"
    [] OTHER -> "done"

Makes(r) == \/ r.effect \in {"create", "ensure"}
            \/ r.effect = "upsert" /\ live = 0
            \/ r.effect = "createKeyed" /\ receipt = 0

\* A request of client c for the object id is carried out.
Carry(r, id, c) ==
  LET done == Answered(r, id) = "done"
      makes == done /\ Makes(r)
      deletes == done /\ r.effect = "delete" IN
  /\ makes => ids < MaxIds
  /\ ids' = IF makes THEN ids + 1 ELSE ids
  /\ live' = IF makes THEN ids + 1 ELSE IF deletes THEN 0 ELSE live
  /\ holds' = IF done /\ r.effect \in {"write", "upsert"} THEN c
              ELSE IF makes \/ deletes THEN NoClient ELSE holds
  /\ receipt' = IF makes /\ r.effect = "createKeyed" THEN ids + 1 ELSE receipt

\* What an Ensure in progress sees of it: the definition exists.
Ensures(rec) == rec.phase \in {"sent", "ran"} /\ Head(rec.method).effect = "ensure"
Witnessed(rec) == [rec EXCEPT !.existed = @ \/ (Ensures(rec) /\ live' # 0)]

CarryOut(c) ==
  /\ request[c].phase = "sent"
  /\ Carry(Now(c), request[c].id, c)
  /\ request' = [d \in Client |-> Witnessed(
       IF d = c THEN [request[c] EXCEPT !.phase = "ran", !.ran = IF Unrepeatable(Now(c)) THEN @ + 1 ELSE 0,
                                        !.answer = Answered(Now(c), request[c].id)]
       ELSE request[d])]
  /\ UNCHANGED <<kind, astray>>

\* An attempt that nobody waits for arrives after all, or never.
CarryAstray(a) ==
  /\ a \in astray
  /\ Carry(a.req, a.id, a.client)
  /\ astray' = astray \ {a}
  /\ request' = [d \in Client |-> Witnessed(request[d])]
  /\ UNCHANGED kind

LoseAstray(a) ==
  /\ a \in astray
  /\ astray' = astray \ {a}
  /\ UNCHANGED <<kind, live, holds, ids, receipt, request>>

-----------------------------------------------------------------------------
(* The answer. *)

\* EnsureVariableDefinition: a conflict is as good.
Ensured(r, answer) == answer = "done" \/ (r.effect = "ensure" /\ answer = "conflict")

\* A call that has returned: what the properties ask about it is kept.
CallOver(c, phase) ==
  IF phase = "failed" \/ ~(request[c].alone \/ Ensures(request[c])) THEN NoCall
  ELSE [NoCall EXCEPT !.phase = phase, !.alone = request[c].alone,
          !.method = IF phase = "succeeded" THEN request[c].method ELSE <<>>,
          !.existed = phase = "succeeded" /\ request[c].existed,
          !.id = IF phase = "conflict" THEN request[c].id ELSE 0]

CallOutcome(c, answer) == IF Ensured(Now(c), answer) THEN "succeeded"
                      ELSE IF answer = "conflict" THEN "conflict" ELSE "failed"

\* Any other error of the platform or its gateway, carried out or not.
Refuse(c) ==
  /\ InCall(c)
  /\ request' = [request EXCEPT ![c] = CallOver(c, CallOutcome(c, "refused"))]
  /\ UNCHANGED <<kind, live, holds, ids, receipt, astray>>

\* The next request of the method, or its end; a success that does not decode is an
\* error.
Replied(c) ==
  LET more == Tail(request[c].method) IN
  /\ request[c].phase = "ran"
  /\ request' = [request EXCEPT ![c] =
       IF more # <<>> /\ Ensured(Now(c), request[c].answer)
       THEN [@ EXCEPT !.phase = "sent", !.method = more, !.attempts = 1, !.ran = 0,
                      !.answer = "none"]
       ELSE CallOver(c, CallOutcome(c, request[c].answer))]
  /\ UNCHANGED <<kind, live, holds, ids, receipt, astray>>

Garbled(c) ==
  /\ request[c].phase = "ran" /\ request[c].answer = "done"
  /\ request' = [request EXCEPT ![c] = CallOver(c, "failed")]
  /\ UNCHANGED <<kind, live, holds, ids, receipt, astray>>

\* The retry condition of httpclient.New.
MayRetry(c) == Now(c).retried /\ request[c].attempts <= RetryCount

\* Another attempt, or the call fails: the last attempt, or a context that has ended.
GoOn(c) ==
  \/ /\ MayRetry(c)
     /\ request' = [request EXCEPT ![c].phase = "sent", ![c].attempts = @ + 1,
                                   ![c].answer = "none"]
  \/ request' = [request EXCEPT ![c] = CallOver(c, "failed")]

\* A transport error or timeout, 502, 503 or 504.  An attempt that has not been
\* carried out is lost or goes astray.
Unclear(c) ==
  /\ request[c].phase \in {"sent", "ran"}
  /\ GoOn(c)
  /\ \/ astray' = astray
     \/ /\ request[c].phase = "sent" /\ Writes(Now(c))
        /\ astray' = astray \cup {[client |-> c, req |-> Now(c), id |-> request[c].id]}
        /\ Cardinality(astray') <= MaxAstray
  /\ UNCHANGED <<kind, live, holds, ids, receipt>>

CallsNext ==
  \/ \E c \in Client : \/ CallMethod(c) \/ CarryOut(c) \/ Refuse(c)
                       \/ Replied(c) \/ Garbled(c) \/ Unclear(c)
  \/ \E a \in astray : CarryAstray(a) \/ LoseAstray(a)

CallsSpec == CallsInit /\ [][CallsNext]_callsVars

\* A goroutine runs on, and every attempt ends: it has a timeout.
CallsFairness == \A c \in Client :
  WF_callsVars(Replied(c) \/ Garbled(c) \/ Unclear(c))

-----------------------------------------------------------------------------
(* Properties. *)

\* Types; and what nobody has made cannot be there.
CallsTypeOK ==
  /\ live \in 0..ids /\ ids \in Ids /\ receipt \in 0..ids
  /\ holds \in Client \cup {NoClient} /\ (holds # NoClient => live # 0)
  /\ request \in [Client -> Calling]
  /\ astray \subseteq [client : Client, req : Requests, id : Ids]

\* A request whose repetition would not be the same as itself is carried out at most
\* once by a call, whatever is lost or late: no second object, no second subject
\* (bearerRequest, httpclient.New).
CarriedOnce ==
  \A c \in Client : InCall(c) /\ Unrepeatable(Now(c)) => request[c].ran <= 1

\* Who is told that a definition exists already did not make it with the same call:
\* it was there before, or another call made it (CreateVariableDefinition).
ConflictForCause ==
  \A c \in Client : request[c].phase = "conflict" /\ request[c].alone => request[c].id # 0

\* A definition that EnsureVariableDefinition vouches for existed at some moment of
\* the call.
EnsuredDefined ==
  \A c \in Client : request[c].phase = "succeeded" /\ Now(c).effect = "ensure"
                      => request[c].existed

\* What a successful call has written or deleted stays so until another call begins
\* to write the same: in particular its own earlier attempts, when they arrive late,
\* do not undo it (UpdateSubjectTags, SetSubjectVariables, DeleteTag).
AcknowledgedStays ==
  \A c \in Client : request[c].phase = "succeeded" /\ request[c].alone =>
    LET r == Now(c) IN
    /\ r.effect \in {"write", "upsert"} => holds = c
    /\ r.effect = "delete" => live = 0
    /\ r.effect \in {"create", "ensure"} => live # 0

\* Every call returns, after at most RetryCount further attempts of each request
\* (httpclient.New).
CallsEnd == \A c \in Client : InCall(c) ~> ~InCall(c)

\* What is behind an answer to a call: the parts above, in every state.
CallsAnsweredTruly ==
  CallsTypeOK /\ CarriedOnce /\ ConflictForCause /\ EnsuredDefined /\ AcknowledgedStays
=============================================================================
