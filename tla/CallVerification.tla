-------------------------- MODULE CallVerification --------------------------
(***************************************************************************)
(* What an integration accepts (integration/server.go, consoletoken.go,    *)
(* mcptoken.go, internal/sign/sign.go and domain.go,                       *)
(* integrationoauth/resource_verifier.go): calls that the platform signed, *)
(* console and MCP tokens that it issued, and bearers that it is asked     *)
(* about online.                                                           *)
(*                                                                         *)
(* The platform writes the time by its own clock, in whole seconds; the    *)
(* integration compares it with another clock.  Here a second is two       *)
(* ticks, so that what the whole seconds cut off shows.  One credential is *)
(* on its way at a time; it arrives late, more than once, or at another    *)
(* endpoint of the integration.  Keys: see KeySet; a signature verifies    *)
(* exactly under the input that was signed.                                *)
(***************************************************************************)
EXTENDS Integers

CONSTANTS
  Delivery,     \* calls that are served at the same time
  Window,       \* seconds: VerifierConfig.Window
  ConsoleLeeway, McpLead,  \* seconds: consoleLeeway, and the 30 s of MCPClaims.valid
  MaxLife,      \* seconds: MCPMaxTokenTTL, and the 300 of the introspection
  MaxItems, MaxValues,     \* maxVariableValuesItems, maxVariableResolveValues
  Asked,        \* the variable-values requests the platform makes
  Skew,         \* ticks the two clocks may be apart
  MaxTime       \* bound: ticks

\* What the platform asks for on a page of variable values; an absent number is none.
Cursors == {"none", "blank", "set"}
ValuesRequest == [limit : Int, cursor : Cursors, query : BOOLEAN, values : Int]

ASSUME VerificationAssumption ==
  /\ {Window, ConsoleLeeway, McpLead, MaxLife, MaxItems, MaxValues, Skew, MaxTime} \subseteq Nat
  /\ Skew <= MaxTime
  /\ Asked \subseteq ValuesRequest

VARIABLES
  now,        \* the platform's clock
  offset,     \* the integration's clock, relative to it
  credential, \* what the platform sent last
  withdrawn,  \* the platform has withdrawn the bearer
  inbound,       \* what becomes of the deliveries
  synced      \* ghost: the handler has taken the trigger sync without an error

verificationVars == <<now, offset, credential, withdrawn, inbound, synced>>

NoNumber == -1
Unix(t) == t \div 2
Local == now + offset
Ticks(seconds) == 2 * seconds

Endpoints == {"action", "sync", "values", "lifecycle"}
Tokens == {"console", "mcp", "resource"}

NoCredential == [kind |-> "none"]
NotCalled == [phase |-> "idle"]

-----------------------------------------------------------------------------
(* The checks. *)

\* signingInput, domainInput: the domain of the lifecycle comes before the timestamp.
SignedText(endpoint, stamp) ==
  [domain |-> IF endpoint = "lifecycle" THEN endpoint ELSE "none", stamp |-> stamp]

\* sign.CheckTimestamp.
CheckTimestamp(stamp) ==
  Local - Ticks(stamp) \in (-Ticks(Window))..Ticks(Window)

VerifySigned(c, endpoint) ==
  /\ c.kind \in Endpoints
  /\ CheckTimestamp(c.stamp)
  /\ c.signed = SignedText(endpoint, c.stamp)

\* ConsoleVerifier.Verify.  A token of another kind has another purpose or is no JWT.
VerifyConsole(c) ==
  /\ c.kind = "console" /\ c.ours
  /\ c.expires # 0 /\ Local <= Ticks(c.expires) + Ticks(ConsoleLeeway)
  /\ c.from # 0 => Local + Ticks(ConsoleLeeway) >= Ticks(c.from)

\* MCPClaims.valid, by the clock of the issuer or of the verifier.
ValidMcp(from, expires, clock) ==
  /\ from >= 1 /\ from <= Unix(clock + Ticks(McpLead))
  /\ expires > Unix(clock) /\ expires > from /\ expires - from <= MaxLife
VerifyMcp(c) == c.kind = "mcp" /\ c.ours /\ ValidMcp(c.from, c.expires, Local)

\* Mutant: the claims are enough.
DecodeIntrospectionTrusting(c, active) ==
  IF c.kind # "resource" THEN "invalid"
  ELSE IF ~c.ours \/ c.from <= 0 \/ c.from > Unix(Local)
          \/ c.expires <= c.from \/ c.expires - c.from > MaxLife THEN "unavailable"
  ELSE IF c.expires <= Unix(Local) THEN "invalid" ELSE "accepted"
\* decodeResourceIntrospection.
DecodeIntrospection(c, active) ==
  IF c.kind # "resource" \/ ~active THEN "invalid"
  ELSE IF ~c.ours \/ c.from <= 0 \/ c.from > Unix(Local)
          \/ c.expires <= c.from \/ c.expires - c.from > MaxLife THEN "unavailable"
  ELSE IF c.expires <= Unix(Local) THEN "invalid" ELSE "accepted"

ValidAsked(r) ==
  /\ r.limit # NoNumber => r.limit \in 1..MaxItems
  /\ r.cursor # "blank"
  /\ r.values <= MaxValues
  /\ r.values # NoNumber => ~r.query /\ r.cursor = "none" /\ r.limit = NoNumber

\* validateVariableValuesResponse.
ValidAnswer(r, a) ==
  /\ a.cursor # "blank"
  /\ r.values # NoNumber => a.cursor = "none"
  /\ a.count <= (IF r.values # NoNumber THEN r.values
                 ELSE IF r.limit # NoNumber THEN r.limit ELSE MaxItems)

-----------------------------------------------------------------------------
(* The platform. *)

VerificationInit ==
  /\ now = Skew
  /\ offset \in (-Skew)..Skew
  /\ credential = NoCredential
  /\ withdrawn = FALSE
  /\ inbound = [d \in Delivery |-> NotCalled]
  /\ synced = FALSE

Advance ==
  /\ now < MaxTime
  /\ now' = now + 1
  /\ UNCHANGED <<offset, credential, withdrawn, inbound, synced>>

\* The integration's clock is set.
Adjust ==
  /\ offset' \in (-Skew)..Skew
  /\ UNCHANGED <<now, credential, withdrawn, inbound, synced>>

\* sign.Sign or SignDomain over the timestamp that FormatTimestamp writes.
SignedNow(kind, question) ==
  [kind |-> kind, stamp |-> Unix(now), made |-> now, asked |-> question,
   signed |-> SignedText(kind, Unix(now))]

NoQuestion == [limit |-> NoNumber, cursor |-> "none", query |-> FALSE, values |-> NoNumber]

Sign(kind) ==
  /\ credential = NoCredential
  /\ \E question \in (IF kind = "values" THEN Asked ELSE {NoQuestion}) :
       credential' = SignedNow(kind, question)
  /\ UNCHANGED <<now, offset, withdrawn, inbound, synced>>

NothingPending == \A d \in Delivery : inbound[d].phase \in {"idle", "done"}
NotAcknowledged ==
  /\ credential.kind = "sync"
  /\ \E d \in Delivery : inbound[d].phase = "done" /\ inbound[d].status # 200

\* A trigger sync that was not acknowledged is signed anew and sent again.
SignAgain ==
  /\ NothingPending /\ NotAcknowledged
  /\ credential' = SignedNow("sync", NoQuestion)
  /\ inbound' = [d \in Delivery |-> NotCalled]
  /\ UNCHANGED <<now, offset, withdrawn, synced>>

\* The platform asks for the page that an answer points to.
SignNextPage(d) ==
  /\ NothingPending /\ inbound[d].phase = "done" /\ inbound[d].status = 200
  /\ credential.kind = "values" /\ inbound[d].answer.cursor # "none"
  /\ credential' = SignedNow("values", [credential.asked EXCEPT
                                          !.cursor = inbound[d].answer.cursor])
  /\ inbound' = [e \in Delivery |-> NotCalled]
  /\ UNCHANGED <<now, offset, withdrawn, synced>>

\* Tokens of the platform: the issuer of MCP tokens checks its claims (SignMCPToken).
Mint(kind, life, ours) ==
  /\ credential = NoCredential
  /\ LET from == Unix(now) expires == Unix(now) + life IN
     /\ kind = "mcp" => ValidMcp(from, expires, now)
     /\ credential' = [kind |-> kind, ours |-> ours, from |-> from, expires |-> expires,
                       made |-> now]
  /\ UNCHANGED <<now, offset, withdrawn, inbound, synced>>

Withdraw ==
  /\ credential.kind = "resource"
  /\ withdrawn' = TRUE
  /\ UNCHANGED <<now, offset, credential, inbound, synced>>

-----------------------------------------------------------------------------
(* The integration. *)

Turns(d, state) ==
  /\ inbound' = [inbound EXCEPT ![d] = state]
  /\ UNCHANGED <<now, offset, credential, withdrawn>>

\* stale: ghost, the bearer was withdrawn before it was asked about.
Ended(endpoint, status, at, answer) ==
  [phase |-> "done", endpoint |-> endpoint, status |-> status, at |-> at, answer |-> answer,
   stale |-> FALSE]
NoReply == [count |-> 0, cursor |-> "none"]
Refused(endpoint) == Ended(endpoint, 401, now, NoReply)

\* Verifier.verify: a credential comes in, whole or not, and the key is there or not; then
\* the body is decoded.
Present(d, endpoint, intact) ==
  /\ inbound[d] = NotCalled /\ credential # NoCredential
  /\ credential.kind \in Tokens => endpoint \notin Endpoints
  /\ credential.kind \in Endpoints => endpoint \in Endpoints
  /\ Turns(d,
       CASE endpoint \in Endpoints ->
              IF ~intact \/ ~VerifySigned(credential, endpoint) THEN Refused(endpoint)
              ELSE IF endpoint = "values" /\ ~ValidAsked(credential.asked)
              THEN Ended(endpoint, 400, now, NoReply)
              ELSE [phase |-> "handling", endpoint |-> endpoint, at |-> now]
         [] endpoint = "console" ->
              IF intact /\ VerifyConsole(credential)
              THEN Ended(endpoint, 200, now, NoReply) ELSE Refused(endpoint)
         [] endpoint = "mcp" ->
              IF intact /\ VerifyMcp(credential)
              THEN Ended(endpoint, 200, now, NoReply) ELSE Refused(endpoint)
         [] endpoint = "resource" ->
              IF ~intact THEN Refused(endpoint)
              ELSE [phase |-> "introspecting", endpoint |-> endpoint, at |-> now,
                    stale |-> withdrawn])
  /\ UNCHANGED synced

\* auth-service says whether the bearer is active.
AuthAnswers(d) ==
  /\ inbound[d].phase = "introspecting"
  /\ Turns(d, [phase |-> "answered", endpoint |-> "resource", at |-> inbound[d].at,
               stale |-> inbound[d].stale,
               active |-> ~withdrawn /\ now < Ticks(credential.expires)])
  /\ UNCHANGED synced

\* ResourceVerifier.Verify decodes the answer, if it has come.
Introspected(d, arrives) ==
  /\ inbound[d].phase = "answered"
  /\ LET verdict == DecodeIntrospection(credential, inbound[d].active)
         status == IF ~arrives \/ verdict = "unavailable" THEN 503
                   ELSE IF verdict = "accepted" THEN 200 ELSE 401 IN
     Turns(d, [Ended("resource", status, now, NoReply) EXCEPT !.stale = inbound[d].stale])
  /\ UNCHANGED synced

\* Handle, HandleTriggerSync.  What else handleLifecycle does is in InstallationLifecycle.
HandlerEnds(d, fails) ==
  /\ inbound[d].phase = "handling" /\ inbound[d].endpoint # "values"
  /\ Turns(d, Ended(inbound[d].endpoint, IF fails THEN 500 ELSE 200, inbound[d].at, NoReply))
  /\ synced' = (synced \/ (inbound[d].endpoint = "sync" /\ ~fails))

\* HandleVariableValues: the handler returns an answer of its own making, or an error.
ValuesEnd(d, answer, fails) ==
  /\ inbound[d].phase = "handling" /\ inbound[d].endpoint = "values"
  /\ Turns(d, Ended("values",
                   IF fails \/ ~ValidAnswer(credential.asked, answer) THEN 500 ELSE 200,
                   inbound[d].at, answer))
  /\ UNCHANGED synced

VerificationNext ==
  \/ Advance
  \/ Adjust
  \/ \E kind \in Endpoints : Sign(kind)
  \/ SignAgain
  \/ \E kind \in Tokens, life \in 1..(MaxLife + 1), ours \in BOOLEAN : Mint(kind, life, ours)
  \/ Withdraw
  \/ \E d \in Delivery :
       \/ SignNextPage(d)
       \/ \E endpoint \in Endpoints \cup Tokens, intact \in BOOLEAN :
            Present(d, endpoint, intact)
       \/ AuthAnswers(d)
       \/ \E arrives \in BOOLEAN : Introspected(d, arrives)
       \/ \E fails \in BOOLEAN : HandlerEnds(d, fails)
       \/ \E count \in 0..(MaxItems + 1), cursor \in Cursors, fails \in BOOLEAN :
            ValuesEnd(d, [count |-> count, cursor |-> cursor], fails)

VerificationSpec == VerificationInit /\ [][VerificationNext]_verificationVars

-----------------------------------------------------------------------------
(* Properties. *)

\* Types; and every call on record brought the credential that was sent last.
VerificationTypeOK ==
  /\ now \in Skew..MaxTime /\ offset \in (-Skew)..Skew
  /\ credential.kind \in Endpoints \cup Tokens \cup {"none"}
  /\ withdrawn => credential.kind = "resource"
  /\ synced \in BOOLEAN
  /\ \A d \in Delivery :
       /\ inbound[d].phase \in {"idle", "handling", "introspecting", "answered", "done"}
       /\ inbound[d].phase # "idle" => inbound[d].at \in credential.made..now

\* Accepted: it reached the handler, or the caller got the claims of the token.
TakenIn(c) ==
  \/ c.phase = "handling"
  \/ c.phase = "done" /\ c.status = 200
  \/ c.phase = "done" /\ c.status # 401 /\ c.endpoint \in Endpoints

\* A call, however delayed or often delivered, has no effect later than its window and
\* the skew of the clocks allow; a token none later than its end, the leeway and the skew
\* (CheckTimestamp, the exp checks of the three verifiers).
LateIsRefused ==
  \A d \in Delivery : TakenIn(inbound[d]) =>
    CASE credential.kind \in Endpoints ->
           inbound[d].at - credential.made <= Ticks(Window) + Skew
      [] credential.kind = "console" ->
           inbound[d].at <= Ticks(credential.expires) + Ticks(ConsoleLeeway) + Skew
      [] OTHER -> inbound[d].at < Ticks(credential.expires) + Skew

\* What comes whole and in time is not refused on account of the clocks: a call within its
\* window less the skew; a console or MCP token until its end, by any clock that is no
\* further behind than the leeway; a bearer, which has no leeway, by a clock that is not
\* behind (CheckTimestamp, ConsoleVerifier.Verify, MCPClaims.valid,
\* decodeResourceIntrospection).
InTimeIsAccepted ==
  CASE credential.kind \in Endpoints ->
         now - credential.made + Skew < Ticks(Window) => VerifySigned(credential, credential.kind)
    [] credential.kind = "none" -> TRUE
    [] OTHER ->
         credential.ours /\ now + Skew < Ticks(credential.expires) =>
           CASE credential.kind = "console" ->
                  Skew <= Ticks(ConsoleLeeway) => VerifyConsole(credential)
             [] credential.kind = "mcp" -> Skew <= Ticks(McpLead) => VerifyMcp(credential)
             [] OTHER ->
                  (offset >= 0 /\ credential.from > 0
                     /\ credential.expires - credential.from <= MaxLife
                   => DecodeIntrospection(credential, TRUE) = "accepted")

\* A signature made for the lifecycle endpoint is good for no other, nor one made for
\* another endpoint for it; a token is good for its purpose and its
\* integration (VerifyDomain, the claims).
AcceptedAsMeant ==
  \A d \in Delivery : TakenIn(inbound[d]) =>
    IF inbound[d].endpoint \in Tokens THEN credential.kind = inbound[d].endpoint /\ credential.ours
    ELSE (inbound[d].endpoint = "lifecycle") = (credential.kind = "lifecycle")

\* A bearer that was withdrawn before the call came in is not accepted: nothing is kept
\* of an earlier answer (ResourceVerifier.Verify).
WithdrawnIsRefused ==
  \A d \in Delivery :
    inbound[d].phase = "done" /\ inbound[d].endpoint = "resource" /\ inbound[d].status = 200
      => ~inbound[d].stale

\* The page an answer points to can be asked for, and a page is no longer than asked:
\* the two sides of the contract agree (validateVariableValuesRequest and -Response).
PagesGoOn ==
  \A d \in Delivery :
    inbound[d].phase = "done" /\ inbound[d].endpoint = "values" /\ inbound[d].status = 200 =>
      LET r == credential.asked a == inbound[d].answer IN
      /\ ValidAsked([r EXCEPT !.cursor = a.cursor])
      /\ a.count <= (IF r.values = NoNumber THEN MaxItems ELSE r.values)

\* A trigger sync that the platform is told was taken was taken by the handler, in this
\* call or an earlier one (HandleTriggerSync).
AcknowledgedWasTaken ==
  \A d \in Delivery :
    inbound[d].phase = "done" /\ inbound[d].endpoint = "sync" /\ inbound[d].status = 200
      => synced

\* The right calls are taken, at the right time: the parts above, in every state.
VerifiedCallsOnly ==
  /\ VerificationTypeOK /\ LateIsRefused /\ InTimeIsAccepted /\ AcceptedAsMeant
  /\ WithdrawnIsRefused /\ PagesGoOn /\ AcknowledgedWasTaken
=============================================================================
