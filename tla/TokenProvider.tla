--------------------------- MODULE TokenProvider ---------------------------
(***************************************************************************)
(* The OAuth token provider and the resource clients that share it         *)
(* (integrationoauth/provider.go, client.go, token_http.go).               *)
(*                                                                         *)
(* A provider caches one token per key, joins concurrent acquisitions of a *)
(* key into one flight and keeps at most MaxEntries tokens.  A client      *)
(* sends its request with a token, invalidates it after a 401 and, where   *)
(* the request may be replayed, sends it once more with another one.       *)
(*                                                                         *)
(* The authorization server and the resource are outside the repository:   *)
(* the first gives every token a value of its own and Lifetime from the    *)
(* moment it issues it, the second may refuse any token.                   *)
(***************************************************************************)
EXTENDS Naturals, Sequences, FiniteSets

CONSTANTS
  Caller,     \* goroutines that call Client.Do
  TokenKey,        \* cache keys: an installation's or an application's request
  Flight,     \* slots for flights, those still running after a cancel included
  None,       \* no flight, no key
  MaxEntries, \* Config.MaxEntries
  Lifetime,   \* expires_in of every token
  Early,      \* how long before its expiry a token may come due for renewal
  MaxTokens   \* bound: tokens the server issues

ASSUME ProviderAssumption ==
  /\ MaxEntries \in Nat \ {0} /\ MaxTokens \in Nat
  /\ Lifetime \in Nat \ {0}
  /\ Early \subseteq 1..Lifetime
  /\ None \notin Flight \cup TokenKey
  /\ IsFiniteSet(Caller)

VARIABLES
  cache,    \* the entries, the least recently used first
  flights,  \* Provider.flights: the flight new callers of a key join
  flight,   \* every flight, joined or abandoned
  call,     \* per goroutine, where its Do stands
  token,    \* per token: what is left of it at the server, at the client, until
            \*   refreshAt
  issued,   \* how many tokens the server has issued
  rejected  \* ghost: the tokens that were ever invalidated

providerVars == <<cache, flights, flight, call, token, issued, rejected>>

Token == 1..MaxTokens
NoToken == 0

\* over: the flight's context has ended, by its deadline or by its last waiter.
\* age: the time since fetch read the clock, token: what fetch returned.
FlightStates == [phase : {"free", "asking", "issued", "fetched", "done"},
                 key : TokenKey \cup {None}, over : BOOLEAN, waiters : 0..Cardinality(Caller),
                 age : 0..Lifetime, token : Token \cup {NoToken}]
NoFlight == [phase |-> "free", key |-> None, over |-> FALSE,
         waiters |-> 0, age |-> 0, token |-> NoToken]

\* replay: the request may be sent again; ran: how often the resource carried it
\* out; known: ghost, what was rejected when the acquisition began.
CallStates == [phase : {"idle", "waiting", "sent", "ran", "again"},
               key : TokenKey \cup {None},
               replay : BOOLEAN, attempt : 1..2, flight : Flight \cup {None},
               token : Token \cup {NoToken}, ran : 0..2, known : SUBSET Token]
IdleCaller == [phase |-> "idle", key |-> None, replay |-> FALSE,
         attempt |-> 1, flight |-> None, token |-> NoToken, ran |-> 0, known |-> {}]

ProviderTypeOK ==
  /\ cache \in Seq([key : TokenKey, token : Token])
  /\ flights \in [TokenKey -> Flight \cup {None}]
  /\ flight \in [Flight -> FlightStates]
  /\ call \in [Caller -> CallStates]
  /\ token \in [Token -> [life : 0..Lifetime, left : 0..Lifetime, due : 0..Lifetime]]
  /\ issued \in 0..MaxTokens
  /\ rejected \subseteq 1..issued

ProviderInit ==
  /\ cache = <<>>
  /\ flights = [k \in TokenKey |-> None]
  /\ flight = [f \in Flight |-> NoFlight]
  /\ call = [c \in Caller |-> IdleCaller]
  /\ token = [t \in Token |-> [life |-> 0, left |-> 0, due |-> 0]]
  /\ issued = 0
  /\ rejected = {}

-----------------------------------------------------------------------------
(* The cache. *)

\* What the cache holds, as a set.
Entries == {cache[i] : i \in DOMAIN cache}
Cached(k) == {e \in Entries : e.key = k}

\* The cache when the entry of a key, if it has one, is deleted.
Place(k) == CHOOSE i \in DOMAIN cache : cache[i].key = k
Without(k) == IF Cached(k) = {} THEN cache
              ELSE SubSeq(cache, 1, Place(k) - 1) \o SubSeq(cache, Place(k) + 1, Len(cache))

\* What is kept beside a new entry: at the limit the oldest goes.
Room == IF Len(cache) >= MaxEntries THEN Tail(cache) ELSE cache

\* invalidate: the entry goes only if it still is the rejected token.
Drop(k, t) == IF \E e \in Cached(k) : e.token = t THEN Without(k) ELSE cache

-----------------------------------------------------------------------------
(* Acquiring a token. *)

InFlight == {k \in TokenKey : flights[k] # None}
Waiting(f) == {c \in Caller : call[c].phase = "waiting" /\ call[c].flight = f}

\* A finished flight is garbage once nobody waits on it.
Released(f, c) == IF flight[f].phase = "done" /\ Waiting(f) \subseteq {c}
                  THEN NoFlight ELSE flight[f]

\* The cache answers: the entry becomes the most recently used.
Hit(c, rec) ==
  \E e \in Cached(rec.key) :
    /\ token[e.token].due > 0
    /\ cache' = Append(Without(rec.key), e)
    /\ call' = [call EXCEPT ![c] = [rec EXCEPT !.phase = "sent", !.token = e.token]]
    /\ UNCHANGED <<flights, flight>>

Join(c, rec, f) ==
  /\ flights[rec.key] = f
  /\ flight' = [flight EXCEPT ![f].waiters = @ + 1]
  /\ call' = [call EXCEPT ![c] = [rec EXCEPT !.phase = "waiting", !.flight = f]]
  /\ UNCHANGED flights

StartFlight(c, rec, f) ==
  /\ flights[rec.key] = None
  /\ Cardinality(InFlight) < MaxEntries
  /\ flight[f].phase = "free"
  /\ flights' = [flights EXCEPT ![rec.key] = f]
  /\ flight' = [flight EXCEPT ![f] = [NoFlight EXCEPT !.phase = "asking", !.key = rec.key,
                                                  !.waiters = 1]]
  /\ call' = [call EXCEPT ![c] = [rec EXCEPT !.phase = "waiting", !.flight = f]]

\* ErrCapacity.
NoCapacity(c, rec) ==
  /\ flights[rec.key] = None
  /\ Cardinality(InFlight) >= MaxEntries
  /\ call' = [call EXCEPT ![c] = IdleCaller]
  /\ UNCHANGED <<flights, flight>>

\* token: an entry that is due for renewal goes before anything else happens.
Acquire(c, rec) ==
  \/ Hit(c, rec)
  \/ /\ \A e \in Cached(rec.key) : token[e.token].due = 0
     /\ cache' = Without(rec.key)
     /\ \/ \E f \in Flight : Join(c, rec, f)
        \/ \E f \in Flight : StartFlight(c, rec, f)
        \/ NoCapacity(c, rec)

BeginCall(c) ==
  /\ call[c].phase = "idle"
  /\ \E k \in TokenKey, replay \in BOOLEAN :
       Acquire(c, [IdleCaller EXCEPT !.key = k, !.replay = replay, !.known = rejected])
  /\ UNCHANGED <<token, issued, rejected>>

SecondAttempt(c) ==
  /\ call[c].phase = "again"
  /\ Acquire(c, [call[c] EXCEPT !.attempt = 2, !.token = NoToken, !.known = rejected])
  /\ UNCHANGED <<token, issued, rejected>>

\* The caller's context ends while it waits.  The last one to leave a flight that
\* is still joined takes it out and cancels it.
Leave(c) ==
  LET f == call[c].flight
      last == flight[f].waiters = 1 /\ flights[call[c].key] = f IN
  /\ call[c].phase = "waiting"
  /\ flight' = [flight EXCEPT ![f] =
       IF Released(f, c) = NoFlight THEN NoFlight
       ELSE [flight[f] EXCEPT !.waiters = @ - 1, !.over = @ \/ last]]
  /\ flights' = IF last THEN [flights EXCEPT ![call[c].key] = None] ELSE flights
  /\ call' = [call EXCEPT ![c] = IdleCaller]
  /\ UNCHANGED <<cache, token, issued, rejected>>

\* The flight is done: its token if it is not past its expiry by now, or an error.
FlightReturns(c) ==
  LET f == call[c].flight
      t == flight[f].token IN
  /\ call[c].phase = "waiting" /\ flight[f].phase = "done"
  /\ call' = [call EXCEPT ![c] =
       IF t # NoToken /\ token[t].left > 0
       THEN [call[c] EXCEPT !.phase = "sent", !.flight = None, !.token = t]
       ELSE IdleCaller]
  /\ flight' = [flight EXCEPT ![f] = Released(f, c)]
  /\ UNCHANGED <<cache, flights, token, issued, rejected>>

-----------------------------------------------------------------------------
(* The goroutine of a flight. *)

\* The server issues a token; its answer is on its way.
Issue(f) ==
  /\ flight[f].phase = "asking"
  /\ issued < MaxTokens
  /\ issued' = issued + 1
  /\ flight' = [flight EXCEPT ![f].phase = "issued", ![f].token = issued + 1]
  /\ token' = [token EXCEPT ![issued + 1] =
                 [life |-> Lifetime, left |-> 0, due |-> 0]]
  /\ UNCHANGED <<cache, flights, call, rejected>>

\* The answer arrives in time: the lifetime counts from before the exchange, and
\* the renewal comes a little earlier.
Fetch(f) ==
  LET left == Lifetime - flight[f].age IN
  /\ flight[f].phase = "issued"
  /\ ~flight[f].over
  /\ left > 0
  /\ \E early \in Early :
       token' = [token EXCEPT ![flight[f].token].left = left,
                              ![flight[f].token].due = IF early < left THEN left - early ELSE 0]
  /\ flight' = [flight EXCEPT ![f].phase = "fetched"]
  /\ UNCHANGED <<cache, flights, call, issued, rejected>>

\* fetch fails: no answer, another status, an answer that does not decode, a
\* token that has expired on its way, or a context that has ended.
FetchFails(f) ==
  /\ flight[f].phase \in {"asking", "issued"}
  /\ flight' = [flight EXCEPT ![f].phase = "fetched", ![f].token = NoToken]
  /\ UNCHANGED <<cache, flights, call, token, issued, rejected>>

Deadline(f) ==
  /\ flight[f].phase \in {"asking", "issued", "fetched"}
  /\ ~flight[f].over
  /\ flight' = [flight EXCEPT ![f].over = TRUE]
  /\ UNCHANGED <<cache, flights, call, token, issued, rejected>>

\* Done, for those who wait; with nobody waiting it is garbage at once.
Closed(f) == IF Waiting(f) = {} THEN NoFlight ELSE [flight[f] EXCEPT !.phase = "done"]

\* Mutant: a flight that was abandoned still fills the cache.
LandAnyway(f) ==
  /\ flight[f].phase = "fetched"
  /\ flights' = [flights EXCEPT ![flight[f].key] = None]
  /\ cache' = IF flight[f].token # NoToken
              THEN Append(Room, [key |-> flight[f].key, token |-> flight[f].token])
              ELSE cache
  /\ flight' = [flight EXCEPT ![f] = Closed(f)]
  /\ UNCHANGED <<call, token, issued, rejected>>

\* The critical section of acquire.
Land(f) ==
  LET k == flight[f].key
      joined == flights[k] = f IN
  /\ flight[f].phase = "fetched"
  /\ flights' = IF joined THEN [flights EXCEPT ![k] = None] ELSE flights
  /\ cache' = IF joined /\ flight[f].token # NoToken /\ ~flight[f].over
              THEN Append(Room, [key |-> k, token |-> flight[f].token])
              ELSE cache
  /\ flight' = [flight EXCEPT ![f] = Closed(f)]
  /\ UNCHANGED <<call, token, issued, rejected>>

-----------------------------------------------------------------------------
(* The request. *)

\* The resource carries the request out; it never does so under a dead token.
Execute(c) ==
  /\ call[c].phase = "sent"
  /\ token[call[c].token].life > 0
  /\ call' = [call EXCEPT ![c].phase = "ran", ![c].ran = @ + 1]
  /\ UNCHANGED <<cache, flights, flight, token, issued, rejected>>

\* What follows a 401: once more, if the request may be sent again and has not been.
Replayed(c) == IF call[c].replay /\ call[c].attempt = 1
               THEN [call[c] EXCEPT !.phase = "again"] ELSE IdleCaller

\* Any answer other than 401, or none: the call is over.
Finish(c) ==
  /\ call[c].phase \in {"sent", "ran"}
  /\ call' = [call EXCEPT ![c] = IdleCaller]
  /\ UNCHANGED <<cache, flights, flight, token, issued, rejected>>

\* 401: the request was not carried out, and its token is invalidated.
Unauthorized(c) ==
  /\ call[c].phase = "sent"
  /\ cache' = Drop(call[c].key, call[c].token)
  /\ rejected' = rejected \cup {call[c].token}
  /\ call' = [call EXCEPT ![c] = Replayed(c)]
  /\ UNCHANGED <<flights, flight, token, issued>>

-----------------------------------------------------------------------------
Less(n) == IF n > 0 THEN n - 1 ELSE 0

ProviderTick ==
  /\ token' = [t \in Token |->
       [token[t] EXCEPT !.life = Less(@), !.left = Less(@), !.due = Less(@)]]
  /\ flight' = [f \in Flight |->
       IF flight[f].phase \in {"asking", "issued"} /\ flight[f].age < Lifetime
       THEN [flight[f] EXCEPT !.age = @ + 1] ELSE flight[f]]
  /\ <<token, flight>>' # <<token, flight>>
  /\ UNCHANGED <<cache, flights, call, issued, rejected>>

ProviderNext ==
  \/ \E c \in Caller : \/ BeginCall(c) \/ SecondAttempt(c) \/ Leave(c) \/ FlightReturns(c)
                       \/ Execute(c) \/ Finish(c) \/ Unauthorized(c)
  \/ \E f \in Flight : \/ Issue(f) \/ Fetch(f) \/ FetchFails(f)
                       \/ Deadline(f) \/ Land(f)
  \/ ProviderTick

ProviderSpec == ProviderInit /\ [][ProviderNext]_providerVars

\* A goroutine runs on, a select whose channel is closed returns, and the context
\* of a flight ends: it has a deadline, and with it the HTTP exchange.
Aborted(f) == flight[f].over /\ FetchFails(f)
ProviderFairness ==
  /\ \A c \in Caller : WF_providerVars(FlightReturns(c))
  /\ \A f \in Flight : /\ WF_providerVars(Deadline(f)) /\ WF_providerVars(Aborted(f))
                       /\ WF_providerVars(Land(f))

ProviderFairSpec == ProviderSpec /\ ProviderFairness

-----------------------------------------------------------------------------
(* Properties. *)

\* A key has an entry or a flight to join, never both and never two entries, so
\* that an abandoned flight cannot put its token beside a newer one; and neither
\* entries nor flights exceed MaxEntries (Provider.token, acquire).
EntryOrFlight ==
  /\ \A k \in TokenKey : Cardinality({i \in DOMAIN cache : cache[i].key = k})
                       + (IF flights[k] = None THEN 0 ELSE 1) <= 1
  /\ Len(cache) <= MaxEntries
  /\ Cardinality(InFlight) <= MaxEntries

\* Whoever waits, waits on a flight that is done or that its key still joins: a
\* caller that leaves never takes the flight away from the others; and a flight
\* that is joined has as many waiters as it counts, so that the last one to leave
\* cancels it (Provider.token).
NobodyStranded ==
  \A f \in Flight : flight[f].phase \in {"asking", "issued", "fetched"} =>
    /\ Waiting(f) # {} => flights[flight[f].key] = f
    /\ flight[f].waiters = Cardinality(Waiting(f))
    /\ Waiting(f) = {} => flight[f].over

\* A token that was invalidated before an acquisition began is not what the
\* acquisition returns: neither to the replay after a 401 nor to any other caller
\* (Client.do, Provider.invalidate).
RejectedNotReturned ==
  \A c \in Caller : call[c].phase \in {"sent", "ran"} => call[c].token \notin call[c].known

\* The client believes in a token no longer than the server does, however long the
\* exchange took (Provider.fetch: the lifetime counts from before it).
LifetimeNotInflated == \A t \in Token : token[t].left <= token[t].life

\* No call is carried out twice by the resource: a request is sent again only after
\* an answer that says it was refused (Client.do).
CarriedOutOnce == \A c \in Caller : call[c].ran <= 1

\* An entry leaves the cache because it is due, because its own token is rejected
\* or because a new entry needs the room: a late 401 does not evict the token that
\* replaced the rejected one (Provider.invalidate, acquire).
EntriesLeaveForCause ==
  \A e \in Entries : e \notin Entries' =>
    \/ token[e.token].due = 0
    \/ e.token \in rejected'
    \/ Len(cache) = MaxEntries /\ Entries' \ Entries # {}

\* The provider keeps its tokens and its flights in order: each of the parts above,
\* in every state, and in every step an entry leaves for cause (Provider.token,
\* invalidate, acquire; Client.do).
TokensKeptInOrder ==
  /\ [](/\ ProviderTypeOK /\ EntryOrFlight /\ NobodyStranded
       /\ RejectedNotReturned /\ LifetimeNotInflated /\ CarriedOutOnce)
  /\ [][EntriesLeaveForCause]_providerVars

\* Every Token call returns: its flight ends, with a token or an error, and tells
\* all who wait (Provider.acquire).
AcquisitionsEnd ==
  \A c \in Caller : call[c].phase = "waiting" ~> call[c].phase # "waiting"
=============================================================================
