--------------------------- MODULE AccessProofs ----------------------------
(***************************************************************************)
(* Proofs about TokenProvider, KeySet and CallVerification, for any callers,*)
(* keys, flights, verifiers, deliveries, limits, leeways and lifetimes.    *)
(***************************************************************************)
EXTENDS TokenProvider, KeySet, CallVerification, FiniteSetTheorems, SequenceTheorems, TLAPS

-----------------------------------------------------------------------------
(* Tokens.                                                                 *)
(*                                                                         *)
(* The argument: a token that is on its way in a flight that is not done   *)
(* is known to nobody else, neither to the cache nor to a call nor to      *)
(* another flight.  So what a flight puts into the cache was never         *)
(* rejected, and whoever holds a token that is cached holds it for the key *)
(* it is cached under, where a rejection finds it.                         *)

Entry == [key : TokenKey, token : Token]
Active == {"asking", "issued", "fetched"}
Holding == {"sent", "ran"}

\* One entry for a key.
Distinct(s) == \A i, j \in DOMAIN s : s[i].key = s[j].key => i = j

EntriesSound ==
  /\ Distinct(cache) /\ Len(cache) <= MaxEntries
  /\ \A e \in Entries : flights[e.key] = None /\ e.token <= issued /\ e.token \notin rejected
  /\ \A d, e \in Entries : d.token = e.token => d = e

\* The flights that can be joined.
KeysJoined ==
  /\ \A k \in TokenKey : flights[k] # None =>
       flight[flights[k]].phase \in Active /\ flight[flights[k]].key = k
  /\ IsFiniteSet(InFlight) /\ Cardinality(InFlight) <= MaxEntries

\* Whom a flight serves and who waits for it.
FlightSound(f) ==
  /\ flight[f].phase \in Active =>
       /\ flight[f].key \in TokenKey
       /\ Waiting(f) # {} => flights[flight[f].key] = f
       /\ flight[f].waiters = Cardinality(Waiting(f))
       /\ Waiting(f) = {} => flight[f].over
  /\ flight[f].phase = "done" => Cardinality(Waiting(f)) <= flight[f].waiters

CallSound(c) ==
  /\ call[c].known \subseteq rejected
  /\ call[c].ran = IF call[c].phase = "ran" THEN 1 ELSE 0
  /\ call[c].phase # "idle" => call[c].key \in TokenKey
  /\ call[c].phase = "waiting" =>
       /\ call[c].flight \in Flight
       /\ flight[call[c].flight].phase \in Active \cup {"done"}
       /\ flight[call[c].flight].key = call[c].key
       /\ flight[call[c].flight].token \notin call[c].known
  /\ call[c].phase \in Holding =>
       /\ call[c].token \in 1..issued
       /\ call[c].token \notin call[c].known
       /\ \A e \in Entries : e.token = call[c].token => e.key = call[c].key

\* The tokens that have left their flight.
Public == rejected \cup {e.token : e \in Entries}
            \cup {call[c].token : c \in {d \in Caller : call[d].phase \in Holding}}

\* The token of a flight that is not done is the flight's own.
OwnToken(f) ==
  flight[f].phase \in Active /\ flight[f].token # NoToken =>
    /\ flight[f].token \notin Public
    /\ \A g \in Flight : g # f => flight[g].token # flight[f].token

TokenSound(f) ==
  /\ flight[f].token <= issued
  /\ flight[f].phase \in {"free", "asking"} => flight[f].token = NoToken
  /\ flight[f].phase = "issued" =>
       /\ flight[f].token # NoToken
       /\ Lifetime <= token[flight[f].token].life + flight[f].age
  /\ flight[f].phase = "done" /\ flight[f].token # NoToken =>
       \A e \in Entries : e.token = flight[f].token => e.key = flight[f].key

ProviderInv ==
  /\ ProviderTypeOK /\ EntriesSound /\ KeysJoined /\ LifetimeNotInflated
  /\ \A c \in Caller : CallSound(c)
  /\ \A f \in Flight : FlightSound(f) /\ OwnToken(f) /\ TokenSound(f)

-----------------------------------------------------------------------------
(* The cache. *)

\* s without its i-th element.
Cut(s, i) == SubSeq(s, 1, i - 1) \o SubSeq(s, i + 1, Len(s))

LEMMA CutElements ==
  ASSUME NEW s \in Seq(Entry), NEW i \in 1..Len(s)
  PROVE  /\ Cut(s, i) \in Seq(Entry) /\ Len(Cut(s, i)) = Len(s) - 1
         /\ \A j \in 1..(Len(s) - 1) : Cut(s, i)[j] = IF j < i THEN s[j] ELSE s[j + 1]
<1>. DEFINE front == SubSeq(s, 1, i - 1)
            back == SubSeq(s, i + 1, Len(s))
<1>1. /\ Len(s) \in Nat /\ i \in Int /\ i - 1 \in Int /\ i + 1 \in Int
      /\ \A j \in 1..Len(s) : s[j] \in Entry
  OBVIOUS
<1>2. front \in Seq(Entry) /\ Len(front) = i - 1 /\ \A j \in 1..(i - 1) : front[j] = s[j]
  <2>1. \A j \in 1..(i - 1) : s[j] \in Entry
    BY <1>1
  <2>2. /\ front \in Seq(Entry) /\ Len(front) = IF 1 <= i - 1 THEN i - 1 - 1 + 1 ELSE 0
        /\ \A j \in 1..(i - 1 - 1 + 1) : front[j] = s[1 + j - 1]
    BY <1>1, <2>1, SubSeqProperties
  <2>. HIDE DEF front
  <2>. QED  BY <2>2
<1>3. /\ back \in Seq(Entry) /\ Len(back) = Len(s) - i
      /\ \A j \in 1..(Len(s) - i) : back[j] = s[i + j]
  <2>1. \A j \in (i + 1)..Len(s) : s[j] \in Entry
    BY <1>1
  <2>2. /\ back \in Seq(Entry)
        /\ Len(back) = IF i + 1 <= Len(s) THEN Len(s) - (i + 1) + 1 ELSE 0
        /\ \A j \in 1..(Len(s) - (i + 1) + 1) : back[j] = s[i + 1 + j - 1]
    BY <1>1, <2>1, SubSeqProperties
  <2>. HIDE DEF back
  <2>. QED  BY <2>2
<1>. HIDE DEF front, back
<1>4. /\ front \o back \in Seq(Entry) /\ Len(front \o back) = Len(s) - 1
      /\ \A j \in 1..(Len(s) - 1) :
           (front \o back)[j] = IF j <= i - 1 THEN front[j] ELSE back[j - (i - 1)]
  <2>1. /\ front \o back \in Seq(Entry)
        /\ Len(front \o back) = Len(front) + Len(back)
        /\ \A j \in 1..(Len(front) + Len(back)) : (front \o back)[j] =
             IF j <= Len(front) THEN front[j] ELSE back[j - Len(front)]
    BY <1>2, <1>3, ConcatProperties
  <2>2. Len(front) + Len(back) = Len(s) - 1
    BY <1>1, <1>2, <1>3
  <2>. QED  BY <1>2, <2>1, <2>2
<1>5. ASSUME NEW j \in 1..(Len(s) - 1)
      PROVE  (front \o back)[j] = IF j < i THEN s[j] ELSE s[j + 1]
  <2>1. CASE j < i
    BY <1>1, <1>2, <1>4, <1>5, <2>1
  <2>2. CASE ~(j < i)
    <3>1. j - (i - 1) \in 1..(Len(s) - i) /\ i + (j - (i - 1)) = j + 1
      BY <1>1, <1>5, <2>2
    <3>2. (front \o back)[j] = back[j - (i - 1)]
      BY <1>1, <1>4, <1>5, <2>2
    <3>. QED  BY <1>3, <2>2, <3>1, <3>2
  <2>. QED  BY <2>1, <2>2
<1>. QED  BY <1>4, <1>5 DEF front, back, Cut

LEMMA RemovedOne ==
  ASSUME NEW s \in Seq(Entry), NEW i \in 1..Len(s), Distinct(s),
         NEW r \in Seq(Entry), Len(r) = Len(s) - 1,
         \A j \in 1..(Len(s) - 1) : r[j] = IF j < i THEN s[j] ELSE s[j + 1]
  PROVE  /\ Distinct(r)
         /\ {r[j] : j \in DOMAIN r} = {s[m] : m \in DOMAIN s \ {i}}
<1>1. DOMAIN r = 1..(Len(s) - 1) /\ DOMAIN s = 1..Len(s) /\ Len(s) \in Nat
  OBVIOUS
<1>. DEFINE At(j) == IF j < i THEN j ELSE j + 1
<1>2. \A j \in DOMAIN r : At(j) \in DOMAIN s \ {i} /\ r[j] = s[At(j)]
  BY <1>1
<1>3. \A j, m \in DOMAIN r : At(j) = At(m) => j = m
  BY <1>1
<1>4. ASSUME NEW m \in DOMAIN s \ {i} PROVE \E j \in DOMAIN r : At(j) = m
  <2>1. CASE m < i
    BY <1>1, <1>4, <2>1
  <2>2. CASE m > i
    <3>1. m - 1 \in DOMAIN r /\ At(m - 1) = m
      BY <1>1, <1>4, <2>2
    <3>. QED  BY <3>1
  <2>. QED  BY <1>1, <1>4, <2>1, <2>2
<1>. HIDE DEF At
<1>5. Distinct(r)
  <2>. SUFFICES ASSUME NEW j \in DOMAIN r, NEW m \in DOMAIN r, r[j].key = r[m].key
                PROVE  j = m
    BY DEF Distinct
  <2>1. s[At(j)].key = s[At(m)].key
    BY <1>2
  <2>2. At(j) = At(m)
    BY <1>2, <2>1 DEF Distinct
  <2>. QED  BY <1>3, <2>2
<1>6. \A j \in DOMAIN r : r[j] \in {s[m] : m \in DOMAIN s \ {i}}
  BY <1>2
<1>7. \A m \in DOMAIN s \ {i} : s[m] \in {r[j] : j \in DOMAIN r}
  BY <1>2, <1>4
<1>. QED  BY <1>5, <1>6, <1>7, Zenon

\* Deleting a key leaves the entries of the others.
LEMMA Deleted ==
  ASSUME cache \in Seq(Entry), Distinct(cache), NEW k
  PROVE  /\ Without(k) \in Seq(Entry) /\ Distinct(Without(k))
         /\ Len(Without(k)) \in Nat /\ Len(cache) \in Nat
         /\ Len(Without(k)) = IF Cached(k) = {} THEN Len(cache) ELSE Len(cache) - 1
         /\ {Without(k)[i] : i \in DOMAIN Without(k)} = Entries \ Cached(k)
<1>1. CASE Cached(k) = {}
  BY <1>1 DEF Without, Entries
<1>2. CASE Cached(k) # {}
  <2>. DEFINE i == Place(k)
              r == Without(k)
  <2>1. i \in DOMAIN cache /\ cache[i].key = k
    BY <1>2 DEF Cached, Entries, Place
  <2>2. r = Cut(cache, i)
    BY <1>2 DEF Without, Cut
  <2>3. i \in 1..Len(cache) /\ Len(cache) \in Nat
    BY <2>1
  <2>. HIDE DEF r, i
  <2>4. /\ r \in Seq(Entry) /\ Len(r) = Len(cache) - 1
        /\ \A j \in 1..(Len(cache) - 1) : r[j] = IF j < i THEN cache[j] ELSE cache[j + 1]
    BY <2>2, <2>3, CutElements
  <2>5. Distinct(r) /\ {r[j] : j \in DOMAIN r} = {cache[m] : m \in DOMAIN cache \ {i}}
    BY <2>3, <2>4, RemovedOne
  <2>6. \A m \in DOMAIN cache : m # i <=> cache[m] \notin Cached(k)
    BY <2>1 DEF Cached, Entries, Distinct
  <2>7. {cache[m] : m \in DOMAIN cache \ {i}} = Entries \ Cached(k)
    BY <2>6 DEF Entries
  <2>8. Len(r) \in Nat
    BY <2>4
  <2>. QED  BY <1>2, <2>3, <2>4, <2>5, <2>7, <2>8 DEF r
<1>. QED  BY <1>1, <1>2

\* A new entry goes to the end.
LEMMA Appended ==
  ASSUME NEW s \in Seq(Entry), Distinct(s), NEW e \in Entry,
         \A i \in DOMAIN s : s[i].key # e.key
  PROVE  /\ Append(s, e) \in Seq(Entry) /\ Distinct(Append(s, e))
         /\ Len(Append(s, e)) = Len(s) + 1
         /\ {Append(s, e)[i] : i \in DOMAIN Append(s, e)} = {s[i] : i \in DOMAIN s} \cup {e}
<1>. DEFINE r == Append(s, e)
<1>1. /\ r \in Seq(Entry) /\ Len(r) = Len(s) + 1 /\ DOMAIN r = 1..(Len(s) + 1)
      /\ Len(s) \in Nat /\ DOMAIN s = 1..Len(s)
      /\ r[Len(s) + 1] = e /\ \A i \in DOMAIN s : r[i] = s[i]
  OBVIOUS
<1>. HIDE DEF r
<1>2. \A i \in DOMAIN r : i \in DOMAIN s \/ i = Len(s) + 1
  BY <1>1
<1>3. Distinct(r)
  BY <1>1, <1>2 DEF Distinct
<1>4. {r[i] : i \in DOMAIN r} \subseteq {s[i] : i \in DOMAIN s} \cup {e}
  BY <1>1, <1>2
<1>5. {s[i] : i \in DOMAIN s} \cup {e} \subseteq {r[i] : i \in DOMAIN r}
  <2>1. Len(s) + 1 \in DOMAIN r /\ \A i \in DOMAIN s : i \in DOMAIN r
    BY <1>1
  <2>. QED  BY <1>1, <2>1
<1>. QED  BY <1>1, <1>3, <1>4, <1>5 DEF r

\* The oldest goes where the limit is reached.
LEMMA Roomy ==
  ASSUME cache \in Seq(Entry), Distinct(cache), Len(cache) <= MaxEntries
  PROVE  /\ Room \in Seq(Entry) /\ Distinct(Room) /\ Len(Room) < MaxEntries
         /\ Len(Room) \in Nat
         /\ \A i \in DOMAIN Room : Room[i] \in Entries
         /\ Len(cache) # MaxEntries => Room = cache
<1>1. MaxEntries \in Nat \ {0} /\ Len(cache) \in Nat /\ DOMAIN cache = 1..Len(cache)
  BY ProviderAssumption
<1>2. CASE Len(cache) >= MaxEntries
  <2>1. Room = Tail(cache) /\ cache # <<>>
    BY <1>1, <1>2 DEF Room
  <2>2. /\ Room \in Seq(Entry) /\ Len(Room) = Len(cache) - 1
        /\ DOMAIN Room = 1..(Len(cache) - 1)
        /\ \A i \in DOMAIN Room : Room[i] = cache[i + 1]
    BY <1>1, <2>1
  <2>3. \A i \in DOMAIN Room : i + 1 \in DOMAIN cache
    BY <1>1, <2>2
  <2>4. Distinct(Room)
    BY <1>1, <2>2, <2>3 DEF Distinct
  <2>5. \A i \in DOMAIN Room : Room[i] \in Entries
    BY <2>2, <2>3 DEF Entries
  <2>6. Len(Room) < MaxEntries /\ Len(Room) \in Nat /\ Len(cache) = MaxEntries
    <3>1. Len(Room) = Len(cache) - 1
      BY <2>2
    <3>2. Len(cache) \in Nat /\ MaxEntries \in Nat \ {0}
      BY <1>1
    <3>. QED  BY <1>2, <3>1, <3>2
  <2>. QED  BY <2>2, <2>4, <2>5, <2>6
<1>3. CASE ~(Len(cache) >= MaxEntries)
  BY <1>1, <1>3 DEF Room, Entries
<1>. QED  BY <1>2, <1>3

-----------------------------------------------------------------------------
(* What every step starts from. *)

LEMMA Before ==
  ASSUME ProviderInv
  PROVE  /\ cache \in Seq(Entry) /\ Distinct(cache) /\ Len(cache) \in Nat
         /\ Len(cache) <= MaxEntries
         /\ issued \in Nat /\ rejected \subseteq 1..issued
         /\ flights \in [TokenKey -> Flight \cup {None}]
         /\ flight \in [Flight -> FlightStates] /\ call \in [Caller -> CallStates]
         /\ \A f \in Flight : flight[f] \in FlightStates /\ flight[f].token \in Nat
         /\ \A c \in Caller : call[c] \in CallStates
         /\ \A e \in Entries : e \in Entry /\ e.token \in 1..issued /\ e.token \notin rejected
         /\ \A d, e \in Entries : d.key = e.key => d = e
<1>1. MaxTokens \in Nat
  BY ProviderAssumption
<1>2. /\ cache \in Seq(Entry) /\ Distinct(cache) /\ Len(cache) <= MaxEntries
      /\ issued \in Nat /\ rejected \subseteq 1..issued
      /\ flights \in [TokenKey -> Flight \cup {None}]
      /\ flight \in [Flight -> FlightStates] /\ call \in [Caller -> CallStates]
  BY <1>1 DEF ProviderInv, ProviderTypeOK, Entry, EntriesSound
<1>3. \A f \in Flight : flight[f] \in FlightStates /\ flight[f].token \in Nat
  BY <1>1, <1>2 DEF FlightStates, Token, NoToken
<1>4. \A i \in DOMAIN cache : cache[i] \in Entry
  BY <1>2
<1>5. \A e \in Entries : e \in Entry /\ e.token \in 1..issued /\ e.token \notin rejected
  <2>1. \A e \in Entries : e \in Entry
    BY <1>4 DEF Entries
  <2>2. \A e \in Entries : e.token \in Nat \ {0}
    BY <1>1, <2>1 DEF Entry, Token
  <2>. QED  BY <1>2, <2>1, <2>2 DEF ProviderInv, EntriesSound
<1>6. \A d, e \in Entries : d.key = e.key => d = e
  BY <1>2 DEF Entries, Distinct
<1>. QED  BY <1>2, <1>3, <1>5, <1>6

LEMMA WaitersFinite ==
  ASSUME NEW f
  PROVE  /\ IsFiniteSet(Waiting(f)) /\ Cardinality(Waiting(f)) \in Nat
         /\ Cardinality(Waiting(f)) <= Cardinality(Caller) /\ Cardinality(Caller) \in Nat
<1>1. Waiting(f) \in SUBSET Caller
  BY DEF Waiting
<1>. QED  BY <1>1, ProviderAssumption, FS_Subset, FS_CardinalityType

\* A call becomes rec.
LEMMA CallMoves ==
  ASSUME ProviderInv, NEW c \in Caller, NEW rec \in CallStates,
         call' = [call EXCEPT ![c] = rec]
  PROVE  /\ call' \in [Caller -> CallStates] /\ call'[c] = rec
         /\ \A d \in Caller : d # c => call'[d] = call[d]
         /\ \A f : Waiting(f)' = IF rec.phase = "waiting" /\ rec.flight = f
                                THEN Waiting(f) \cup {c} ELSE Waiting(f) \ {c}
<1>1. /\ call' \in [Caller -> CallStates] /\ call'[c] = rec
      /\ \A d \in Caller : d # c => call'[d] = call[d]
  BY Before
<1>. QED  BY <1>1 DEF Waiting

\* Nobody begins to wait, and nobody who waits stops.
LEMMA NoWaiterMoves ==
  ASSUME ProviderInv, NEW c \in Caller, NEW rec \in CallStates,
         call' = [call EXCEPT ![c] = rec],
         call[c].phase # "waiting", rec.phase # "waiting"
  PROVE  \A f : Waiting(f)' = Waiting(f)
<1>1. call'[c] = rec /\ \A d \in Caller : d # c => call'[d] = call[d]
  BY CallMoves
<1>. QED  BY <1>1 DEF Waiting

LEMMA RanOnce ==
  ASSUME NEW a \in CallStates, a.ran = 0
  PROVE  LET next == [a EXCEPT !.phase = "ran", !.ran = @ + 1]
         IN  /\ next \in CallStates /\ next.phase = "ran" /\ next.ran = 1
             /\ next.token = a.token /\ next.known = a.known /\ next.key = a.key
<1>1. a.ran + 1 \in 0..2 /\ a.ran + 1 = 1
  OBVIOUS
<1>. QED  BY <1>1 DEF CallStates

-----------------------------------------------------------------------------
(* What a step leaves as it is stays sound. *)

LEMMA EntriesKept ==
  ASSUME ProviderInv, cache' \in Seq(Entry), Distinct(cache'), Len(cache') <= MaxEntries,
         Entries' \subseteq Entries, issued' \in Nat, issued <= issued',
         \A e \in Entries' : flights'[e.key] = None /\ e.token \notin rejected'
  PROVE  EntriesSound'
<1>1. \A e \in Entries' : e.token <= issued'
  BY Before
<1>. QED  BY <1>1 DEF EntriesSound, ProviderInv

LEMMA CallKept ==
  ASSUME ProviderInv, NEW d \in Caller, call'[d] = call[d],
         rejected \subseteq rejected', issued' \in Nat, issued <= issued',
         \A e \in Entries' : e \in Entries \/ e.token \notin Public,
         call[d].phase = "waiting" =>
           /\ flight'[call[d].flight].phase \in Active \cup {"done"}
           /\ flight'[call[d].flight].key = flight[call[d].flight].key
           /\ \/ flight'[call[d].flight].token = flight[call[d].flight].token
              \/ flight'[call[d].flight].token \notin rejected
  PROVE  CallSound(d)'
<1>1. CallSound(d)
  BY DEF ProviderInv
<1>2. call[d].phase \in Holding => \A e \in Entries' : e.token = call[d].token => e.key = call[d].key
  BY <1>1 DEF CallSound, Public
<1>3. call[d].phase \in Holding => call[d].token \in 1..issued'
  BY <1>1, Before DEF CallSound
<1>. QED  BY <1>1, <1>2, <1>3 DEF CallSound

LEMMA FlightKept ==
  ASSUME ProviderInv, NEW f \in Flight, flight'[f] = flight[f], Waiting(f)' = Waiting(f),
         flight[f].phase \in Active /\ flights[flight[f].key] = f => flights'[flight[f].key] = f
  PROVE  FlightSound(f)'
BY DEF ProviderInv, FlightSound

LEMMA OwnKept ==
  ASSUME ProviderInv, NEW f \in Flight,
         flight'[f].phase \in Active =>
           /\ flight[f].phase \in Active /\ flight'[f].token \in {flight[f].token, NoToken}
           /\ \A g \in Flight : \/ flight'[g].token \in {flight[g].token, NoToken}
                               \/ flight'[g].token > issued
           /\ \A t \in Public' : t \in Public \/ \E g \in Flight : g # f /\ flight[g].token = t
  PROVE  OwnToken(f)'
<1>. SUFFICES ASSUME flight'[f].phase \in Active, flight'[f].token # NoToken
              PROVE  /\ flight'[f].token \notin Public'
                     /\ \A g \in Flight : g # f => flight'[g].token # flight'[f].token
  BY DEF OwnToken
<1>1. flight'[f].token = flight[f].token /\ OwnToken(f) /\ flight[f].token <= issued
  BY DEF ProviderInv, TokenSound
<1>2. issued \in Nat /\ \A g \in Flight : flight[g].token \in Nat
  BY Before
<1>. QED  BY <1>1, <1>2 DEF OwnToken

LEMMA TokenKept ==
  ASSUME ProviderInv, NEW f \in Flight, flight'[f] = flight[f],
         issued' \in Nat, issued <= issued',
         \A e \in Entries' : e \in Entries \/ e.token # flight[f].token,
         flight[f].phase = "issued" =>
           token'[flight[f].token].life = token[flight[f].token].life
  PROVE  TokenSound(f)'
<1>1. flight[f].token \in Nat /\ issued \in Nat
  BY Before
<1>. QED  BY <1>1 DEF ProviderInv, TokenSound

LEMMA FlightMoves ==
  ASSUME ProviderInv, NEW f \in Flight, NEW rec \in FlightStates,
         flight' = [flight EXCEPT ![f] = rec]
  PROVE  /\ flight' \in [Flight -> FlightStates] /\ flight'[f] = rec
         /\ \A g \in Flight : g # f => flight'[g] = flight[g]
BY Before

-----------------------------------------------------------------------------
(* What becomes of the entries. *)

LEMMA Shrinks ==
  ASSUME ProviderInv, NEW k, cache' = Without(k)
  PROVE  /\ cache' \in Seq(Entry) /\ Distinct(cache') /\ Len(cache') <= MaxEntries
         /\ Entries' = Entries \ Cached(k)
<1>1. /\ cache' \in Seq(Entry) /\ Distinct(cache')
      /\ Len(cache') \in Nat /\ Len(cache) \in Nat /\ Len(cache) <= MaxEntries
      /\ Len(cache') = IF Cached(k) = {} THEN Len(cache) ELSE Len(cache) - 1
      /\ {cache'[i] : i \in DOMAIN cache'} = Entries \ Cached(k)
  BY Before, Deleted
<1>2. Len(cache') <= MaxEntries
  BY <1>1, ProviderAssumption
<1>. QED  BY <1>1, <1>2 DEF Entries

LEMMA Refreshed ==
  ASSUME ProviderInv, NEW k, NEW e \in Cached(k), cache' = Append(Without(k), e)
  PROVE  /\ cache' \in Seq(Entry) /\ Distinct(cache') /\ Len(cache') <= MaxEntries
         /\ Entries' = Entries
<1>. DEFINE w == Without(k)
<1>1. /\ w \in Seq(Entry) /\ Distinct(w) /\ Len(w) \in Nat /\ Len(cache) \in Nat
      /\ Len(w) = Len(cache) - 1 /\ Len(cache) <= MaxEntries
      /\ {w[i] : i \in DOMAIN w} = Entries \ Cached(k)
  BY Before, Deleted
<1>2. e \in Entry /\ e.key = k /\ e \in Entries /\ Cached(k) = {e}
  BY Before DEF Cached
<1>3. \A i \in DOMAIN w : w[i].key # e.key
  BY <1>1, <1>2 DEF Cached
<1>. HIDE DEF w
<1>4. /\ cache' \in Seq(Entry) /\ Distinct(cache') /\ Len(cache') = Len(w) + 1
      /\ {cache'[i] : i \in DOMAIN cache'} = {w[i] : i \in DOMAIN w} \cup {e}
  BY <1>1, <1>2, <1>3, Appended DEF w
<1>5. Len(cache') <= MaxEntries
  BY <1>1, <1>4, ProviderAssumption
<1>6. Entries' = (Entries \ Cached(k)) \cup {e}
  BY <1>1, <1>4 DEF Entries
<1>. QED  BY <1>2, <1>4, <1>5, <1>6

LEMMA Landed ==
  ASSUME ProviderInv, NEW e \in Entry, Cached(e.key) = {}, cache' = Append(Room, e)
  PROVE  /\ cache' \in Seq(Entry) /\ Distinct(cache') /\ Len(cache') <= MaxEntries
         /\ Entries' \subseteq Entries \cup {e} /\ e \in Entries'
         /\ Len(cache) # MaxEntries => Entries \subseteq Entries'
<1>1. /\ Room \in Seq(Entry) /\ Distinct(Room) /\ Len(Room) < MaxEntries
      /\ Len(Room) \in Nat /\ MaxEntries \in Nat
      /\ \A i \in DOMAIN Room : Room[i] \in Entries
      /\ Len(cache) # MaxEntries => Room = cache
  BY Before, Roomy, ProviderAssumption
<1>2. \A i \in DOMAIN Room : Room[i].key # e.key
  BY <1>1 DEF Cached
<1>3. /\ cache' \in Seq(Entry) /\ Distinct(cache') /\ Len(cache') = Len(Room) + 1
      /\ {cache'[i] : i \in DOMAIN cache'} = {Room[i] : i \in DOMAIN Room} \cup {e}
  BY <1>1, <1>2, Appended
<1>4. Entries' = {Room[i] : i \in DOMAIN Room} \cup {e}
  BY <1>3 DEF Entries
<1>5. Len(cache) # MaxEntries => {Room[i] : i \in DOMAIN Room} = Entries
  BY <1>1 DEF Entries
<1>. QED  BY <1>1, <1>3, <1>4, <1>5

-----------------------------------------------------------------------------
(* The request. *)

\* A call goes on, or is over; nothing else happens.
LEMMA RequestKeeps ==
  ASSUME ProviderInv, NEW c \in Caller, Execute(c) \/ Finish(c)
  PROVE  ProviderInv'
<1>. DEFINE rec == call'[c]
<1>1. /\ call[c] \in CallStates /\ CallSound(c) /\ call[c].phase \in Holding
      /\ UNCHANGED <<cache, flights, flight, token, issued, rejected>>
  <2>1. call[c].phase \in Holding
    BY DEF Execute, Finish, Holding
  <2>. QED  BY <2>1, Before DEF ProviderInv, Execute, Finish
<1>2. PICK next \in CallStates :
        /\ call' = [call EXCEPT ![c] = next]
        /\ next = IdleCaller \/ /\ next.phase = "ran" /\ next.ran = 1 /\ next.token = call[c].token
                                /\ next.known = call[c].known /\ next.key = call[c].key
  <2>1. CASE Execute(c)
    <3>. DEFINE next == [call[c] EXCEPT !.phase = "ran", !.ran = @ + 1]
    <3>1. call[c].ran = 0
      BY <1>1, <2>1 DEF Execute, CallSound
    <3>2. /\ next \in CallStates /\ next.phase = "ran" /\ next.ran = 1
          /\ next.token = call[c].token /\ next.known = call[c].known /\ next.key = call[c].key
      BY <1>1, <3>1, RanOnce, Zenon
    <3>3. call' = [call EXCEPT ![c] = next]
      BY <2>1, Before DEF Execute
    <3>. QED  BY <3>2, <3>3
  <2>2. CASE Finish(c)
    <3>1. IdleCaller \in CallStates
      BY DEF IdleCaller, CallStates, NoToken
    <3>. QED  BY <2>2, <3>1 DEF Finish
  <2>. QED  BY <2>1, <2>2
<1>3. /\ call' \in [Caller -> CallStates] /\ call'[c] = next
      /\ \A d \in Caller : d # c => call'[d] = call[d]
      /\ \A f : Waiting(f)' = Waiting(f)
  <2>1. next.phase # "waiting"
    BY <1>2 DEF IdleCaller
  <2>2. call[c].phase # "waiting"
    BY <1>1 DEF Holding
  <2>. QED  BY <1>2, <2>1, <2>2, CallMoves, NoWaiterMoves
<1>4. Entries' = Entries /\ InFlight' = InFlight
  BY <1>1 DEF Entries, InFlight
<1>5. ProviderTypeOK' /\ EntriesSound' /\ KeysJoined' /\ LifetimeNotInflated'
  BY <1>1, <1>3, <1>4
     DEF ProviderInv, ProviderTypeOK, EntriesSound, KeysJoined, LifetimeNotInflated
<1>6. \A d \in Caller : CallSound(d)'
  <2>1. ASSUME NEW d \in Caller, d # c PROVE CallSound(d)'
    <3>1. CallSound(d) /\ call'[d] = call[d]
      BY <1>3, <2>1 DEF ProviderInv
    <3>. QED  BY <1>1, <1>4, <3>1 DEF CallSound
  <2>2. CallSound(c)'
    <3>1. CASE next = IdleCaller
      BY <1>1, <1>3, <3>1 DEF CallSound, IdleCaller, Holding
    <3>2. CASE next.phase = "ran"
      BY <1>1, <1>2, <1>3, <1>4, <3>2 DEF CallSound, IdleCaller, Holding
    <3>. QED  BY <1>2, <3>1, <3>2
  <2>. QED  BY <2>1, <2>2
<1>7. Public' \subseteq Public
  <2>1. \A d \in Caller : call'[d].phase \in Holding =>
          call[d].phase \in Holding /\ call'[d].token = call[d].token
    BY <1>1, <1>2, <1>3 DEF IdleCaller, Holding
  <2>. QED  BY <1>1, <1>4, <2>1 DEF Public
<1>8. ASSUME NEW f \in Flight PROVE FlightSound(f)' /\ OwnToken(f)' /\ TokenSound(f)'
  BY <1>1, <1>3, <1>4, <1>7 DEF ProviderInv, FlightSound, OwnToken, TokenSound
<1>. QED  BY <1>5, <1>6, <1>8 DEF ProviderInv

-----------------------------------------------------------------------------
(* The goroutine of a flight. *)

\* A flight that is not done becomes rec, which is not done either: with the token it
\* had, with none or with one that has just been issued.
LEMMA FlightWorks ==
  ASSUME ProviderInv, NEW f \in Flight, NEW rec \in FlightStates,
         flight' = [flight EXCEPT ![f] = rec],
         UNCHANGED <<cache, flights, call, rejected>>,
         flight[f].phase \in Active, rec.phase \in Active,
         rec.key = flight[f].key, rec.waiters = flight[f].waiters, flight[f].over => rec.over,
         issued' \in 0..MaxTokens, issued <= issued',
         token' \in [Token -> [life : 0..Lifetime, left : 0..Lifetime, due : 0..Lifetime]],
         \A t \in Token : token'[t].left <= token'[t].life,
         \A t \in 1..issued : token'[t].life = token[t].life,
         \/ rec.token \in {flight[f].token, NoToken}
         \/ rec.token > issued /\ rec.token <= issued',
         rec.phase = "asking" => rec.token = NoToken,
         rec.phase = "issued" =>
           rec.token # NoToken /\ Lifetime <= token'[rec.token].life + rec.age
  PROVE  ProviderInv'
<1>1. /\ issued \in Nat /\ issued' \in Nat /\ rejected \subseteq 1..issued
      /\ \A g \in Flight : flight[g].token \in Nat
      /\ \A g \in Flight : flight[g].token <= issued
      /\ rec.token \in Nat
  <2>1. rec.token \in Token \cup {NoToken}
    BY DEF FlightStates
  <2>2. rec.token \in Nat /\ issued' \in Nat
    BY <2>1, ProviderAssumption DEF Token, NoToken
  <2>3. \A g \in Flight : flight[g].token <= issued
    BY DEF ProviderInv, TokenSound
  <2>. QED  BY <2>2, <2>3, Before
<1>2. /\ flight' \in [Flight -> FlightStates] /\ flight'[f] = rec
      /\ \A g \in Flight : g # f => flight'[g] = flight[g]
  BY FlightMoves
<1>3. Entries' = Entries /\ InFlight' = InFlight /\ Public' = Public /\ \A g : Waiting(g)' = Waiting(g)
  BY DEF Entries, InFlight, Public, Waiting
<1>4. ProviderTypeOK'
  <2>1. rejected' \subseteq 1..issued'
    BY <1>1
  <2>. QED  BY <1>2, <2>1 DEF ProviderInv, ProviderTypeOK
<1>5. EntriesSound' /\ LifetimeNotInflated'
  <2>1. \A e \in Entries : e.token <= issued'
    BY <1>1, Before
  <2>. QED  BY <1>3, <2>1 DEF ProviderInv, EntriesSound, LifetimeNotInflated
<1>6. KeysJoined'
  BY <1>2, <1>3, ProviderAssumption, Before DEF ProviderInv, KeysJoined
<1>7. \A c \in Caller : CallSound(c)'
  <2>1. rec.token \notin rejected \/ rec.token = flight[f].token
    BY <1>1 DEF NoToken
  <2>2. \A c \in Caller : call[c].phase = "waiting" => call[c].flight \in Flight
                           /\ flight[call[c].flight].phase \in Active \cup {"done"}
    BY DEF ProviderInv, CallSound
  <2>. QED  BY <1>1, <1>2, <1>3, <2>1, <2>2, CallKept
<1>8. \A g \in Flight : FlightSound(g)'
  <2>1. FlightSound(f)'
    BY <1>2, <1>3 DEF ProviderInv, FlightSound, Active
  <2>. QED  BY <1>2, <1>3, <2>1, FlightKept
<1>9. \A g \in Flight : OwnToken(g)'
  <2>1. \A g \in Flight : \/ flight'[g].token \in {flight[g].token, NoToken}
                        \/ flight'[g].token > issued
    BY <1>2
  <2>2. ASSUME NEW g \in Flight, g # f PROVE OwnToken(g)'
    BY <1>2, <1>3, <2>1, <2>2, OwnKept
  <2>3. CASE rec.token \in {flight[f].token, NoToken}
    BY <1>2, <1>3, <2>1, <2>3, OwnKept
  <2>4. CASE rec.token > issued
    <3>1. \A t \in Public : t <= issued
      BY <1>1, Before DEF Public, ProviderInv, CallSound
    <3>2. rec.token \notin Public /\ \A g \in Flight : flight[g].token # rec.token
      BY <1>1, <2>4, <3>1
    <3>3. flight'[f].token \notin Public'
      BY <1>2, <1>3, <3>2
    <3>4. \A g \in Flight : g # f => flight'[g].token # flight'[f].token
      BY <1>2, <3>2
    <3>. QED  BY <2>2, <3>3, <3>4 DEF OwnToken
  <2>. QED  BY <2>2, <2>3, <2>4
<1>10. \A g \in Flight : TokenSound(g)'
  <2>1. TokenSound(f)'
    <3>1. rec.token <= issued'
      BY <1>1 DEF NoToken
    <3>2. rec.phase # "free" /\ rec.phase # "done"
      BY DEF Active
    <3>. QED  BY <1>2, <3>1, <3>2 DEF TokenSound
  <2>2. ASSUME NEW g \in Flight, g # f PROVE TokenSound(g)'
    <3>1. flight[g].phase = "issued" => flight[g].token \in 1..issued
      BY <1>1 DEF ProviderInv, TokenSound, NoToken
    <3>. QED  BY <1>1, <1>2, <1>3, <2>2, <3>1, TokenKept
  <2>. QED  BY <2>1, <2>2
<1>. QED  BY <1>4, <1>5, <1>6, <1>7, <1>8, <1>9, <1>10 DEF ProviderInv

LEMMA IssueKeeps ==
  ASSUME ProviderInv, NEW f \in Flight, Issue(f)
  PROVE  ProviderInv'
<1>. DEFINE next == issued + 1
            rec == [flight[f] EXCEPT !.phase = "issued", !.token = next]
            given == [life |-> Lifetime, left |-> 0, due |-> 0]
<1>1. /\ flight[f] \in FlightStates /\ flight[f].phase = "asking" /\ issued \in Nat
      /\ issued' = next /\ next \in Token /\ next \in 0..MaxTokens /\ issued < next
      /\ token' = [token EXCEPT ![next] = given]
      /\ UNCHANGED <<cache, flights, call, rejected>>
  BY Before, ProviderAssumption DEF Issue, Token
<1>2. flight' = [flight EXCEPT ![f] = rec]
  BY Before DEF Issue
<1>3. /\ rec \in FlightStates /\ rec.phase = "issued" /\ rec.token = next
      /\ rec.key = flight[f].key /\ rec.waiters = flight[f].waiters
      /\ rec.over = flight[f].over /\ rec.age = flight[f].age /\ rec.age \in Nat
  <2>1. next \in Token \cup {NoToken}
    BY <1>1
  <2>2. flight[f].age \in Nat
    BY <1>1, ProviderAssumption DEF FlightStates
  <2>. QED  BY <1>1, <2>1, <2>2 DEF FlightStates
<1>4. /\ given \in [life : 0..Lifetime, left : 0..Lifetime, due : 0..Lifetime]
      /\ given.left <= given.life /\ given.life = Lifetime
  BY ProviderAssumption
<1>. HIDE DEF given, rec
<1>5. /\ token' \in [Token -> [life : 0..Lifetime, left : 0..Lifetime, due : 0..Lifetime]]
      /\ token'[next] = given /\ \A t \in Token : t # next => token'[t] = token[t]
  BY <1>1, <1>4 DEF ProviderInv, ProviderTypeOK
<1>6. \A t \in Token : token'[t].left <= token'[t].life
  BY <1>4, <1>5 DEF ProviderInv, LifetimeNotInflated
<1>7. \A t \in 1..issued : token'[t].life = token[t].life
  BY <1>1, <1>5, ProviderAssumption DEF Token
<1>8. Lifetime <= token'[rec.token].life + rec.age
  BY <1>3, <1>4, <1>5, ProviderAssumption
<1>9. flight[f].phase \in Active /\ rec.phase \in Active /\ rec.token # NoToken
  BY <1>1, <1>3 DEF Active, NoToken
<1>10. rec.token > issued /\ rec.token <= issued' /\ issued <= issued' /\ issued' \in 0..MaxTokens
  BY <1>1, <1>3
<1>. QED  BY <1>1, <1>2, <1>3, <1>5, <1>6, <1>7, <1>8, <1>9, <1>10, FlightWorks

\* The answer: the lifetime counts from before the exchange, so that the server's has
\* not run out sooner.
LEMMA FetchKeeps ==
  ASSUME ProviderInv, NEW f \in Flight, Fetch(f)
  PROVE  ProviderInv'
<1>. DEFINE t == flight[f].token
            left == Lifetime - flight[f].age
            rec == [flight[f] EXCEPT !.phase = "fetched"]
<1>1. /\ flight[f] \in FlightStates /\ flight[f].phase = "issued" /\ left > 0
      /\ flight[f].age \in 0..Lifetime /\ t \in Token /\ issued \in Nat
      /\ UNCHANGED <<cache, flights, call, issued, rejected>>
      /\ Lifetime <= token[t].life + flight[f].age
  BY Before DEF Fetch, FlightStates, ProviderInv, TokenSound
<1>2. PICK early \in Early :
        token' = [token EXCEPT ![t].left = left, ![t].due = IF early < left THEN left - early ELSE 0]
  BY DEF Fetch
<1>3. /\ token \in [Token -> [life : 0..Lifetime, left : 0..Lifetime, due : 0..Lifetime]]
      /\ \A u \in Token : token[u].left <= token[u].life
  BY DEF ProviderInv, ProviderTypeOK, LifetimeNotInflated
<1>4. /\ left \in 0..Lifetime /\ (IF early < left THEN left - early ELSE 0) \in 0..Lifetime
      /\ left <= token[t].life
  <2>1. early \in Nat /\ Lifetime \in Nat /\ token[t].life \in Nat
    BY <1>1, <1>3, ProviderAssumption
  <2>. QED  BY <1>1, <2>1
<1>. HIDE DEF left
<1>5. /\ token' \in [Token -> [life : 0..Lifetime, left : 0..Lifetime, due : 0..Lifetime]]
      /\ \A u \in Token : token'[u].left <= token'[u].life /\ token'[u].life = token[u].life
  BY <1>1, <1>2, <1>3, <1>4
<1>6. \A u \in 1..issued : token'[u].life = token[u].life
  <2>1. issued <= MaxTokens /\ MaxTokens \in Nat
    BY ProviderAssumption DEF ProviderInv, ProviderTypeOK
  <2>. QED  BY <1>1, <1>5, <2>1 DEF Token
<1>7. flight' = [flight EXCEPT ![f] = rec]
  BY Before DEF Fetch
<1>8. /\ rec \in FlightStates /\ rec.phase = "fetched" /\ rec.token = t
      /\ rec.key = flight[f].key /\ rec.waiters = flight[f].waiters
      /\ rec.over = flight[f].over
  BY <1>1 DEF FlightStates
<1>9. flight[f].phase \in Active /\ rec.phase \in Active
  BY <1>1, <1>8 DEF Active
<1>10. issued' \in 0..MaxTokens /\ issued <= issued'
  BY <1>1 DEF ProviderInv, ProviderTypeOK
<1>. HIDE DEF rec
<1>. QED  BY <1>1, <1>5, <1>6, <1>7, <1>8, <1>9, <1>10, FlightWorks

LEMMA FlightFailsKeeps ==
  ASSUME ProviderInv, NEW f \in Flight, FetchFails(f) \/ Deadline(f)
  PROVE  ProviderInv'
<1>1. /\ flight[f] \in FlightStates /\ flight[f].phase \in Active
      /\ UNCHANGED <<cache, flights, call, token, issued, rejected>>
  BY Before DEF FetchFails, Deadline, Active
<1>2. /\ token' \in [Token -> [life : 0..Lifetime, left : 0..Lifetime, due : 0..Lifetime]]
      /\ \A u \in Token : token'[u].left <= token'[u].life
      /\ \A u \in 1..issued : token'[u].life = token[u].life
      /\ issued' \in 0..MaxTokens /\ issued <= issued'
  BY <1>1, Before DEF ProviderInv, ProviderTypeOK, LifetimeNotInflated
<1>3. CASE FetchFails(f)
  <2>. DEFINE rec == [flight[f] EXCEPT !.phase = "fetched", !.token = NoToken]
  <2>1. flight' = [flight EXCEPT ![f] = rec]
    BY <1>3, Before DEF FetchFails
  <2>2. /\ rec \in FlightStates /\ rec.phase = "fetched" /\ rec.token = NoToken
        /\ rec.key = flight[f].key /\ rec.waiters = flight[f].waiters
        /\ rec.over = flight[f].over
    BY <1>1 DEF FlightStates
  <2>3. rec.phase \in Active
    BY <2>2 DEF Active
  <2>. HIDE DEF rec
  <2>. QED  BY <1>1, <1>2, <2>1, <2>2, <2>3, FlightWorks
<1>4. CASE Deadline(f)
  <2>. DEFINE rec == [flight[f] EXCEPT !.over = TRUE]
  <2>1. flight' = [flight EXCEPT ![f] = rec]
    BY <1>4, Before DEF Deadline
  <2>2. /\ rec \in FlightStates /\ rec.phase = flight[f].phase /\ rec.token = flight[f].token
        /\ rec.key = flight[f].key /\ rec.waiters = flight[f].waiters
        /\ rec.over /\ rec.age = flight[f].age
    BY <1>1 DEF FlightStates
  <2>3. /\ rec.phase = "asking" => rec.token = NoToken
        /\ rec.phase = "issued" =>
             rec.token # NoToken /\ Lifetime <= token'[rec.token].life + rec.age
    BY <1>1, <2>2 DEF ProviderInv, TokenSound
  <2>. HIDE DEF rec
  <2>. QED  BY <1>1, <1>2, <2>1, <2>2, <2>3, FlightWorks
<1>. QED  BY <1>3, <1>4

\* The flight lands: only one that is still joined and has not ended fills the cache,
\* with a token that nobody has seen.
LEMMA LandKeeps ==
  ASSUME ProviderInv, NEW f \in Flight, Land(f)
  PROVE  ProviderInv'
<1>. DEFINE k == flight[f].key
            t == flight[f].token
            joined == flights[k] = f
            stored == joined /\ t # NoToken /\ ~flight[f].over
            new == [key |-> k, token |-> t]
<1>1. /\ flight[f].phase = "fetched" /\ flight[f].phase \in Active
      /\ flights' = IF joined THEN [flights EXCEPT ![k] = None] ELSE flights
      /\ cache' = IF stored THEN Append(Room, new) ELSE cache
      /\ flight' = [flight EXCEPT ![f] = Closed(f)]
      /\ UNCHANGED <<call, token, issued, rejected>>
  BY DEF Land, Active
<1>2. /\ flight[f] \in FlightStates /\ k \in TokenKey /\ issued \in Nat
      /\ OwnToken(f) /\ t <= issued
      /\ flights \in [TokenKey -> Flight \cup {None}] /\ None \notin Flight
      /\ flight[f].waiters = Cardinality(Waiting(f))
      /\ \A e \in Entries : flights[e.key] = None /\ e.key \in TokenKey
  BY <1>1, Before, ProviderAssumption
     DEF ProviderInv, FlightSound, TokenSound, EntriesSound, Entry
<1>3. /\ Closed(f) \in FlightStates /\ Closed(f).phase \in {"free", "done"}
      /\ \/ Closed(f) = NoFlight
         \/ /\ Closed(f).phase = "done" /\ Closed(f).key = k /\ Closed(f).token = t
            /\ Closed(f).waiters = flight[f].waiters
      /\ Waiting(f) # {} => Closed(f).phase = "done" /\ Closed(f).key = k /\ Closed(f).token = t
      /\ NoFlight.phase = "free" /\ NoFlight.token = NoToken
  <2>1. NoFlight \in FlightStates /\ NoFlight.phase = "free" /\ NoFlight.token = NoToken
    <3>1. 0 \in 0..Cardinality(Caller) /\ 0 \in 0..Lifetime
      BY WaitersFinite, ProviderAssumption
    <3>. QED  BY <3>1 DEF NoFlight, FlightStates
  <2>. DEFINE done == [flight[f] EXCEPT !.phase = "done"]
  <2>2. /\ done \in FlightStates /\ done.phase = "done" /\ done.key = k /\ done.token = t
        /\ done.waiters = flight[f].waiters
    BY <1>2 DEF FlightStates
  <2>3. Closed(f) = IF Waiting(f) = {} THEN NoFlight ELSE done
    BY DEF Closed
  <2>. HIDE DEF done, k, t
  <2>4. CASE Waiting(f) = {}
    BY <2>1, <2>3, <2>4
  <2>5. CASE Waiting(f) # {}
    BY <2>1, <2>2, <2>3, <2>5
  <2>. QED  BY <2>4, <2>5
<1>4. /\ flight' \in [Flight -> FlightStates] /\ flight'[f] = Closed(f)
      /\ \A g \in Flight : g # f => flight'[g] = flight[g]
  BY <1>1, <1>3, FlightMoves
<1>5. /\ \A g : Waiting(g)' = Waiting(g)
      /\ flights' \in [TokenKey -> Flight \cup {None}]
      /\ \A j \in TokenKey : flights'[j] = IF flights[j] = f /\ j = k THEN None ELSE flights[j]
  BY <1>1, <1>2 DEF Waiting
<1>6. /\ cache' \in Seq(Entry) /\ Distinct(cache') /\ Len(cache') <= MaxEntries
      /\ Entries' \subseteq Entries \/ (stored /\ Entries' \subseteq Entries \cup {new})
  <2>1. CASE stored
    <3>1. new \in Entry /\ new.key = k
      BY <1>2, <2>1 DEF Entry, FlightStates
    <3>2. Cached(k) = {}
      BY <1>2, <2>1 DEF Cached
    <3>. QED  BY <1>1, <2>1, <3>1, <3>2, Landed
  <2>2. CASE ~stored
    <3>1. cache' = cache
      BY <1>1, <2>2
    <3>. QED  BY <3>1, Before DEF Entries
  <2>. QED  BY <2>1, <2>2
<1>. HIDE DEF stored
<1>7. stored => /\ flights'[k] = None /\ t # NoToken /\ t \notin Public
                /\ t \notin rejected /\ \A e \in Entries : e.token # t
  <2>1. stored => joined /\ t # NoToken
    BY DEF stored
  <2>2. stored => t \notin Public
    BY <1>1, <1>2, <2>1 DEF OwnToken
  <2>. QED  BY <1>2, <1>5, <2>1, <2>2 DEF Public
<1>8. new.key = k /\ new.token = t
  OBVIOUS
<1>. HIDE DEF new
<1>9. ProviderTypeOK' /\ LifetimeNotInflated'
  BY <1>1, <1>4, <1>5, <1>6 DEF ProviderInv, ProviderTypeOK, Entry, LifetimeNotInflated
<1>10. EntriesSound'
  <2>1. \A e \in Entries' : flights'[e.key] = None /\ e.token <= issued /\ e.token \notin rejected
    <3>1. \A e \in Entries : flights'[e.key] = None /\ e.token <= issued /\ e.token \notin rejected
      BY <1>2, <1>5 DEF ProviderInv, EntriesSound
    <3>. QED  BY <1>2, <1>6, <1>7, <1>8, <3>1
  <2>2. \A d, e \in Entries' : d.token = e.token => d = e
    BY <1>6, <1>7, <1>8 DEF ProviderInv, EntriesSound
  <2>. QED  BY <1>1, <1>6, <2>1, <2>2 DEF EntriesSound
<1>11. KeysJoined'
  <2>1. ASSUME NEW j \in TokenKey, flights'[j] # None
        PROVE  flight'[flights'[j]].phase \in Active /\ flight'[flights'[j]].key = j
    <3>1. /\ flights'[j] = flights[j] /\ flights[j] \in Flight
          /\ flight[flights[j]].phase \in Active /\ flight[flights[j]].key = j
      BY <1>2, <1>5, <2>1 DEF ProviderInv, KeysJoined
    <3>2. flights[j] # f
      BY <1>2, <1>5, <2>1, <3>1
    <3>. QED  BY <1>4, <3>1, <3>2
  <2>2. InFlight' \in SUBSET InFlight
    BY <1>5 DEF InFlight
  <2>3. IsFiniteSet(InFlight) /\ Cardinality(InFlight) <= MaxEntries
    BY DEF ProviderInv, KeysJoined
  <2>4. /\ IsFiniteSet(InFlight') /\ Cardinality(InFlight') <= Cardinality(InFlight)
        /\ Cardinality(InFlight') \in Nat /\ Cardinality(InFlight) \in Nat
    BY <2>2, <2>3, FS_Subset, FS_CardinalityType
  <2>5. IsFiniteSet(InFlight') /\ Cardinality(InFlight') <= MaxEntries
    BY <2>3, <2>4, ProviderAssumption
  <2>. QED  BY <2>1, <2>5 DEF KeysJoined
<1>12. ASSUME NEW c \in Caller PROVE CallSound(c)'
  <2>1. ASSUME call[c].phase = "waiting"
        PROVE  /\ flight'[call[c].flight].phase \in Active \cup {"done"}
               /\ flight'[call[c].flight].key = flight[call[c].flight].key
               /\ flight'[call[c].flight].token = flight[call[c].flight].token
    <3>1. call[c].flight \in Flight /\ flight[call[c].flight].phase \in Active \cup {"done"}
      BY <2>1 DEF ProviderInv, CallSound
    <3>2. call[c].flight = f => Waiting(f) # {}
      BY <2>1 DEF Waiting
    <3>. QED  BY <1>3, <1>4, <3>1, <3>2
  <2>2. \A e \in Entries' : e \in Entries \/ e.token \notin Public
    BY <1>6, <1>7, <1>8
  <2>. QED  BY <1>1, <1>2, <2>1, <2>2, CallKept
<1>13. ASSUME NEW g \in Flight PROVE FlightSound(g)'
  <2>1. CASE g = f
    <3>1. Closed(f).phase = "done" => Cardinality(Waiting(f)) <= Closed(f).waiters
      BY <1>2, <1>3, WaitersFinite
    <3>. QED  BY <1>3, <1>4, <1>5, <2>1, <3>1 DEF FlightSound, Active
  <2>2. CASE g # f
    <3>1. flight[g].phase \in Active => flight[g].key \in TokenKey
      BY DEF ProviderInv, FlightSound
    <3>. QED  BY <1>4, <1>5, <2>2, <3>1, FlightKept
  <2>. QED  BY <2>1, <2>2
<1>14. ASSUME NEW g \in Flight PROVE OwnToken(g)'
  <2>1. CASE g = f
    BY <1>3, <1>4, <2>1 DEF OwnToken, Active
  <2>2. CASE g # f
    <3>1. \A u \in Public' : u \in Public \/ \E h \in Flight : h # g /\ flight[h].token = u
      <4>1. \A u \in Public' : u \in Public \/ u = t
        BY <1>1, <1>6, <1>8 DEF Public
      <4>. QED  BY <2>2, <4>1
    <3>2. \A h \in Flight : flight'[h].token \in {flight[h].token, NoToken}
      BY <1>3, <1>4
    <3>. QED  BY <1>4, <2>2, <3>1, <3>2, OwnKept
  <2>. QED  BY <2>1, <2>2
<1>15. ASSUME NEW g \in Flight PROVE TokenSound(g)'
  <2>1. CASE g = f
    <3>1. t # NoToken => \A e \in Entries : e.token # t
      BY <1>1, <1>2 DEF OwnToken, Public
    <3>2. flight'[f].token <= issued
      BY <1>2, <1>3, <1>4 DEF NoToken
    <3>3. flight'[f].phase = "done" /\ flight'[f].token # NoToken =>
            \A e \in Entries' : e.token = flight'[f].token => e.key = flight'[f].key
      BY <1>3, <1>4, <1>6, <1>8, <3>1
    <3>. QED  BY <1>1, <1>3, <1>4, <2>1, <3>2, <3>3 DEF TokenSound
  <2>2. CASE g # f
    <3>1. stored => flight[g].token # t
      BY <1>1, <1>2, <1>7, <2>2 DEF OwnToken
    <3>2. \A e \in Entries' : e \in Entries \/ e.token # flight[g].token
      BY <1>6, <1>8, <3>1
    <3>. QED  BY <1>1, <1>2, <1>4, <2>2, <3>2, TokenKept
  <2>. QED  BY <2>1, <2>2
<1>. QED  BY <1>9, <1>10, <1>11, <1>12, <1>13, <1>14, <1>15 DEF ProviderInv

-----------------------------------------------------------------------------
(* A caller stops waiting. *)

LEMMA Records ==
  /\ IdleCaller \in CallStates /\ IdleCaller.phase = "idle" /\ IdleCaller.ran = 0
  /\ IdleCaller.known = {} /\ IdleCaller.token = NoToken /\ IdleCaller.flight = None
  /\ NoFlight \in FlightStates /\ NoFlight.phase = "free" /\ NoFlight.token = NoToken
  /\ NoFlight.waiters = 0 /\ NoFlight.over = FALSE /\ NoFlight.age = 0
<1>1. 0 \in 0..Cardinality(Caller) /\ 0 \in 0..Lifetime
  BY WaitersFinite, ProviderAssumption
<1>. QED  BY <1>1 DEF NoFlight, FlightStates, IdleCaller, CallStates, NoToken

\* The flight of a caller that waits.
LEMMA WaitsOn ==
  ASSUME ProviderInv, NEW c \in Caller, call[c].phase = "waiting"
  PROVE  \E f \in Flight : call[c].flight = f
BY DEF ProviderInv, CallSound

LEMMA StopsWaiting ==
  ASSUME ProviderInv, NEW c \in Caller, call[c].phase = "waiting",
         NEW f \in Flight, call[c].flight = f,
         NEW next \in CallStates, next.phase # "waiting",
         call' = [call EXCEPT ![c] = next]
  PROVE  /\ call' \in [Caller -> CallStates] /\ call'[c] = next
         /\ \A d \in Caller : d # c => call'[d] = call[d]
         /\ flight[f] \in FlightStates
         /\ flight[f].phase \in Active \cup {"done"} /\ flight[f].key = call[c].key
         /\ c \in Waiting(f) /\ Waiting(f)' = Waiting(f) \ {c}
         /\ Cardinality(Waiting(f)) \in Nat \ {0}
         /\ Cardinality(Waiting(f)') = Cardinality(Waiting(f)) - 1
         /\ \A g : g # f => Waiting(g)' = Waiting(g)
<1>1. /\ call' \in [Caller -> CallStates] /\ call'[c] = next
      /\ \A d \in Caller : d # c => call'[d] = call[d]
      /\ \A g : Waiting(g)' = Waiting(g) \ {c}
  BY CallMoves
<1>2. /\ flight[f] \in FlightStates
      /\ flight[f].phase \in Active \cup {"done"} /\ flight[f].key = call[c].key
  BY Before DEF ProviderInv, CallSound
<1>3. c \in Waiting(f) /\ \A g : g # f => c \notin Waiting(g)
  BY DEF Waiting
<1>4. \A g : g # f => Waiting(g)' = Waiting(g)
  <2>. SUFFICES ASSUME NEW g, g # f PROVE Waiting(g) \ {c} = Waiting(g)
    BY <1>1
  <2>. QED  BY <1>3
<1>5. Cardinality(Waiting(f)) \in Nat \ {0}
  BY <1>3, WaitersFinite, FS_EmptySet
<1>6. Cardinality(Waiting(f) \ {c}) = Cardinality(Waiting(f)) - 1
  BY <1>3, WaitersFinite, FS_RemoveElement
<1>7. Waiting(f)' = Waiting(f) \ {c} /\ Cardinality(Waiting(f)') = Cardinality(Waiting(f)) - 1
  <2>1. Waiting(f)' = Waiting(f) \ {c}
    BY <1>1
  <2>. QED  BY <1>6, <2>1, Zenon
<1>. QED  BY <1>1, <1>2, <1>3, <1>4, <1>5, <1>7

LEMMA LeaveKeeps ==
  ASSUME ProviderInv, NEW c \in Caller, Leave(c)
  PROVE  ProviderInv'
<1>0. PICK f \in Flight : call[c].flight = f
  BY WaitsOn DEF Leave
<1>. DEFINE k == call[c].key
            last == flight[f].waiters = 1 /\ flights[k] = f
            rec == flight'[f]
<1>1. /\ call[c].phase = "waiting"
      /\ flight' = [flight EXCEPT ![f] =
           IF Released(f, c) = NoFlight THEN NoFlight
           ELSE [flight[f] EXCEPT !.waiters = @ - 1, !.over = @ \/ last]]
      /\ flights' = IF last THEN [flights EXCEPT ![k] = None] ELSE flights
      /\ call' = [call EXCEPT ![c] = IdleCaller]
      /\ UNCHANGED <<cache, token, issued, rejected>>
  BY <1>0 DEF Leave
<1>2. /\ call' \in [Caller -> CallStates] /\ call'[c] = IdleCaller
      /\ \A d \in Caller : d # c => call'[d] = call[d]
      /\ flight[f] \in FlightStates
      /\ flight[f].phase \in Active \cup {"done"} /\ flight[f].key = k
      /\ c \in Waiting(f) /\ Waiting(f)' = Waiting(f) \ {c}
      /\ Cardinality(Waiting(f)) \in Nat \ {0}
      /\ Cardinality(Waiting(f)') = Cardinality(Waiting(f)) - 1
      /\ \A g : g # f => Waiting(g)' = Waiting(g)
  BY <1>0, <1>1, Records, StopsWaiting
<1>3. /\ k \in TokenKey /\ flights \in [TokenKey -> Flight \cup {None}] /\ None \notin Flight
      /\ FlightSound(f) /\ TokenSound(f) /\ CallSound(c) /\ issued \in Nat
  BY <1>1, Before, ProviderAssumption DEF ProviderInv, CallSound
<1>4. flight[f].phase \in Active =>
        /\ flights[k] = f /\ flight[f].waiters = Cardinality(Waiting(f))
        /\ last <=> Waiting(f) = {c}
  <2>1. flight[f].phase \in Active =>
          flights[k] = f /\ flight[f].waiters = Cardinality(Waiting(f))
    BY <1>2, <1>3 DEF FlightSound
  <2>2. Cardinality(Waiting(f)) = 1 <=> Waiting(f) = {c}
    <3>1. ASSUME Cardinality(Waiting(f)) = 1 PROVE Waiting(f) = {c}
      <4>1. PICK x : Waiting(f) = {x}
        BY <3>1, WaitersFinite, FS_Singleton
      <4>. QED  BY <1>2, <4>1
    <3>2. Waiting(f) = {c} => Cardinality(Waiting(f)) = 1
      BY FS_Singleton, Zenon
    <3>. QED  BY <3>1, <3>2
  <2>. QED  BY <2>1, <2>2
<1>5. flight[f].phase = "done" => Cardinality(Waiting(f)) <= flight[f].waiters /\ ~last
  <2>1. flights[k] = f => flight[f].phase \in Active
    BY <1>2, <1>3 DEF ProviderInv, KeysJoined
  <2>. QED  BY <1>2, <1>3, <2>1 DEF FlightSound, Active
<1>. HIDE DEF last
\* What becomes of the flight.
<1>6. /\ flight' \in [Flight -> FlightStates] /\ \A g \in Flight : g # f => flight'[g] = flight[g]
      /\ \/ rec = NoFlight /\ flight[f].phase = "done" /\ Waiting(f) = {c}
         \/ /\ rec.phase = flight[f].phase /\ rec.key = k /\ rec.token = flight[f].token
            /\ rec.age = flight[f].age
            /\ rec.waiters = flight[f].waiters - 1 /\ rec.over = (flight[f].over \/ last)
  <2>. DEFINE left == [flight[f] EXCEPT !.waiters = @ - 1, !.over = @ \/ last]
  <2>1. flight[f].waiters - 1 \in 0..Cardinality(Caller) /\ (flight[f].over \/ last) \in BOOLEAN
    <3>1. flight[f].waiters \in 0..Cardinality(Caller) /\ Cardinality(Caller) \in Nat
      BY <1>2, WaitersFinite DEF FlightStates
    <3>2. flight[f].waiters >= 1
      BY <1>2, <1>4, <1>5, <3>1
    <3>. QED  BY <3>1, <3>2
  <2>2. /\ left \in FlightStates /\ left.phase = flight[f].phase /\ left.key = k
        /\ left.token = flight[f].token /\ left.age = flight[f].age
        /\ left.waiters = flight[f].waiters - 1 /\ left.over = (flight[f].over \/ last)
    BY <1>2, <2>1 DEF FlightStates
  <2>3. Released(f, c) = NoFlight => flight[f].phase = "done" /\ Waiting(f) = {c}
    <3>1. flight[f] # NoFlight
      BY <1>2, Records DEF Active
    <3>. QED  BY <1>2, <3>1 DEF Released
  <2>. HIDE DEF left
  <2>4. rec = IF Released(f, c) = NoFlight THEN NoFlight ELSE left
    BY <1>1, <1>2, Before DEF left
  <2>5. flight' = [flight EXCEPT ![f] = rec] /\ rec \in FlightStates
    BY <1>1, <1>2, <2>2, <2>4, Before, Records
  <2>. HIDE DEF rec
  <2>6. flight' \in [Flight -> FlightStates] /\ \A g \in Flight : g # f => flight'[g] = flight[g]
    BY <1>2, <2>5, FlightMoves
  <2>. QED  BY <2>2, <2>3, <2>4, <2>6
<1>. HIDE DEF k, rec
<1>7. /\ flights' \in [TokenKey -> Flight \cup {None}]
      /\ \A j \in TokenKey : flights'[j] = IF last /\ j = k THEN None ELSE flights[j]
  BY <1>1, <1>3 DEF last, k
<1>8. Entries' = Entries /\ Public' \subseteq Public
  <2>1. Entries' = Entries
    BY <1>1 DEF Entries
  <2>2. \A d \in Caller : call'[d].phase \in Holding => call'[d] = call[d]
    BY <1>2, Records DEF Holding
  <2>. QED  BY <1>1, <2>1, <2>2 DEF Public
<1>9. ProviderTypeOK' /\ LifetimeNotInflated' /\ EntriesSound'
  BY <1>1, <1>2, <1>6, <1>7, <1>8, Before
     DEF ProviderInv, ProviderTypeOK, Entry, LifetimeNotInflated, EntriesSound
<1>10. KeysJoined'
  <2>1. ASSUME NEW j \in TokenKey, flights'[j] # None
        PROVE  flight'[flights'[j]].phase \in Active /\ flight'[flights'[j]].key = j
    <3>1. /\ flights'[j] = flights[j] /\ flights[j] \in Flight
          /\ flight[flights[j]].phase \in Active /\ flight[flights[j]].key = j
      BY <1>3, <1>7, <2>1 DEF ProviderInv, KeysJoined
    <3>2. CASE flights[j] = f
      <4>1. rec.phase = flight[f].phase /\ rec.key = k
        BY <1>6, <3>1, <3>2 DEF Active
      <4>. QED  BY <1>2, <3>1, <3>2, <4>1 DEF rec
    <3>3. CASE flights[j] # f
      BY <1>6, <3>1, <3>3
    <3>. QED  BY <3>2, <3>3
  <2>2. InFlight' \in SUBSET InFlight
    BY <1>7 DEF InFlight
  <2>3. IsFiniteSet(InFlight) /\ Cardinality(InFlight) <= MaxEntries
    BY DEF ProviderInv, KeysJoined
  <2>4. /\ IsFiniteSet(InFlight') /\ Cardinality(InFlight') <= Cardinality(InFlight)
        /\ Cardinality(InFlight') \in Nat /\ Cardinality(InFlight) \in Nat
    BY <2>2, <2>3, FS_Subset, FS_CardinalityType
  <2>5. IsFiniteSet(InFlight') /\ Cardinality(InFlight') <= MaxEntries
    BY <2>3, <2>4, ProviderAssumption
  <2>. QED  BY <2>1, <2>5 DEF KeysJoined
<1>11. ASSUME NEW d \in Caller PROVE CallSound(d)'
  <2>1. CASE d = c
    BY <1>2, <2>1, Records DEF CallSound, Holding
  <2>2. CASE d # c
    <3>1. ASSUME call[d].phase = "waiting"
          PROVE  /\ flight'[call[d].flight].phase \in Active \cup {"done"}
                 /\ flight'[call[d].flight].key = flight[call[d].flight].key
                 /\ flight'[call[d].flight].token = flight[call[d].flight].token
      <4>1. call[d].flight \in Flight /\ flight[call[d].flight].phase \in Active \cup {"done"}
        BY <3>1 DEF ProviderInv, CallSound
      <4>2. call[d].flight = f => d \in Waiting(f)
        BY <3>1 DEF Waiting
      <4>. QED  BY <1>2, <1>6, <2>2, <4>1, <4>2 DEF rec
    <3>2. call'[d] = call[d] /\ rejected' = rejected /\ issued' = issued
      BY <1>1, <1>2, <2>2
    <3>. QED  BY <1>3, <1>8, <3>1, <3>2, CallKept
  <2>. QED  BY <2>1, <2>2
<1>12. ASSUME NEW g \in Flight PROVE FlightSound(g)'
  <2>1. CASE g = f /\ flight[f].phase \in Active
    <3>1. /\ rec.phase \in Active /\ rec.key = k /\ rec.waiters = flight[f].waiters - 1
          /\ rec.over = (flight[f].over \/ last)
      BY <1>6, <2>1 DEF Active
    <3>2. rec.waiters = Cardinality(Waiting(f)')
      BY <1>2, <1>4, <2>1, <3>1
    <3>3. Waiting(f)' # {} => flights'[k] = f
      BY <1>2, <1>3, <1>4, <1>7, <2>1
    <3>4. Waiting(f)' = {} => rec.over
      BY <1>2, <1>4, <2>1, <3>1
    <3>5. rec.phase # "done"
      BY <3>1 DEF Active
    <3>. QED  BY <1>3, <2>1, <3>1, <3>2, <3>3, <3>4, <3>5 DEF FlightSound, rec
  <2>2. CASE g = f /\ flight[f].phase = "done"
    <3>1. flight[f].waiters \in Nat /\ Cardinality(Waiting(f)') \in Nat
      <4>1. flight[f].waiters \in 0..Cardinality(Caller)
        BY <1>2 DEF FlightStates
      <4>. QED  BY <1>2, <4>1, WaitersFinite
    <3>2. rec.phase = "done" => Cardinality(Waiting(f)') <= rec.waiters
      BY <1>2, <1>5, <1>6, <2>2, <3>1, Records
    <3>3. rec.phase \in {"done", "free"}
      BY <1>6, <2>2, Records
    <3>4. rec.phase \notin Active
      BY <3>3 DEF Active
    <3>. QED  BY <2>2, <3>2, <3>4 DEF FlightSound, rec
  <2>3. CASE g # f
    <3>1. flights[flight[g].key] = g /\ flight[g].phase \in Active => flights'[flight[g].key] = g
      <4>1. flight[g].phase \in Active => flight[g].key \in TokenKey
        BY DEF ProviderInv, FlightSound
      <4>2. last => flights[k] = f
        BY DEF last, k
      <4>. QED  BY <1>7, <2>3, <4>1, <4>2
    <3>. QED  BY <1>2, <1>6, <2>3, <3>1, FlightKept
  <2>. QED  BY <1>2, <2>1, <2>2, <2>3
<1>13. ASSUME NEW g \in Flight PROVE OwnToken(g)'
  <2>1. flight'[g].phase \in Active => flight[g].phase \in Active /\ flight'[g].token = flight[g].token
    BY <1>6, Records DEF Active, rec
  <2>2. \A h \in Flight : flight'[h].token \in {flight[h].token, NoToken}
    BY <1>6, Records DEF rec
  <2>. QED  BY <1>8, <2>1, <2>2, OwnKept
<1>14. ASSUME NEW g \in Flight PROVE TokenSound(g)'
  <2>1. CASE g = f
    <3>1. CASE rec = NoFlight
      <4>1. NoToken <= issued'
        BY <1>1, <1>3 DEF NoToken
      <4>2. /\ rec.token = NoToken /\ rec.phase # "issued" /\ rec.phase # "done"
        BY <3>1, Records
      <4>. QED  BY <2>1, <4>1, <4>2 DEF TokenSound, rec
    <3>2. CASE /\ rec.phase = flight[f].phase /\ rec.key = k /\ rec.token = flight[f].token
               /\ rec.age = flight[f].age
      BY <1>1, <1>2, <1>3, <1>8, <2>1, <3>2 DEF TokenSound, rec
    <3>. QED  BY <1>6, <3>1, <3>2
  <2>2. CASE g # f
    BY <1>1, <1>3, <1>6, <1>8, <2>2, TokenKept
  <2>. QED  BY <2>1, <2>2
<1>. QED  BY <1>9, <1>10, <1>11, <1>12, <1>13, <1>14 DEF ProviderInv

\* What a flight returns is not what its caller knew to be rejected.
LEMMA ReturnsKeeps ==
  ASSUME ProviderInv, NEW c \in Caller, FlightReturns(c)
  PROVE  ProviderInv'
<1>0. PICK f \in Flight : call[c].flight = f
  BY WaitsOn DEF FlightReturns
<1>. DEFINE t == flight[f].token
            used == t # NoToken /\ token[t].left > 0
            kept == [call[c] EXCEPT !.phase = "sent", !.flight = None, !.token = t]
            next == IF used THEN kept ELSE IdleCaller
            rec == Released(f, c)
<1>1. /\ call[c].phase = "waiting" /\ flight[f].phase = "done" /\ flight[f].phase \notin Active
      /\ call' = [call EXCEPT ![c] = next] /\ flight' = [flight EXCEPT ![f] = rec]
      /\ UNCHANGED <<cache, flights, token, issued, rejected>>
      /\ call[c] \in CallStates /\ flight[f] \in FlightStates
      /\ issued \in Nat /\ t \in Nat /\ rejected \subseteq 1..issued
  BY <1>0, Before DEF FlightReturns, Active
<1>2. CallSound(c) /\ FlightSound(f) /\ TokenSound(f)
  BY DEF ProviderInv
<1>3. /\ kept \in CallStates /\ kept.phase = "sent" /\ kept.token = t
      /\ kept.key = call[c].key /\ kept.known = call[c].known /\ kept.ran = call[c].ran
  BY <1>1 DEF CallStates, FlightStates
<1>. HIDE DEF kept, used
<1>4. /\ next \in CallStates /\ next.phase # "waiting"
      /\ next = IdleCaller \/ (next = kept /\ t # NoToken)
  BY <1>3, Records DEF used
<1>. HIDE DEF next
<1>5. /\ call' \in [Caller -> CallStates] /\ call'[c] = next
      /\ \A d \in Caller : d # c => call'[d] = call[d]
      /\ c \in Waiting(f) /\ Waiting(f)' = Waiting(f) \ {c}
      /\ Cardinality(Waiting(f)) \in Nat \ {0}
      /\ Cardinality(Waiting(f)') = Cardinality(Waiting(f)) - 1
      /\ \A g : g # f => Waiting(g)' = Waiting(g)
      /\ flight[f].key = call[c].key
  BY <1>0, <1>1, <1>4, StopsWaiting
<1>6. /\ rec \in FlightStates
      /\ rec = flight[f] \/ (rec = NoFlight /\ Waiting(f) = {c})
  BY <1>1, <1>5, Records DEF Released
<1>. HIDE DEF rec
<1>7. /\ flight' \in [Flight -> FlightStates] /\ flight'[f] = rec
      /\ \A g \in Flight : g # f => flight'[g] = flight[g]
  BY <1>1, <1>6, FlightMoves
<1>8. Entries' = Entries /\ InFlight' = InFlight
  BY <1>1 DEF Entries, InFlight
<1>9. ProviderTypeOK' /\ LifetimeNotInflated' /\ EntriesSound'
  BY <1>1, <1>5, <1>7, <1>8
     DEF ProviderInv, ProviderTypeOK, LifetimeNotInflated, EntriesSound
<1>10. KeysJoined'
  <2>1. ASSUME NEW j \in TokenKey, flights[j] # None
        PROVE  flight'[flights[j]].phase \in Active /\ flight'[flights[j]].key = j
    <3>1. /\ flights[j] \in Flight
          /\ flight[flights[j]].phase \in Active /\ flight[flights[j]].key = j
      BY <2>1, Before DEF ProviderInv, KeysJoined
    <3>. QED  BY <1>1, <1>7, <3>1
  <2>. QED  BY <1>1, <1>8, <2>1 DEF ProviderInv, KeysJoined
<1>11. Public' \subseteq Public \cup {t}
  <2>1. \A d \in Caller : call'[d].phase \in Holding => call'[d] = call[d] \/ call'[d].token = t
    BY <1>3, <1>4, <1>5, Records DEF Holding
  <2>. QED  BY <1>1, <1>8, <2>1 DEF Public
<1>12. ASSUME NEW d \in Caller PROVE CallSound(d)'
  <2>1. CASE d = c /\ next = IdleCaller
    BY <1>5, <2>1, Records DEF CallSound, Holding
  <2>2. CASE d = c /\ next = kept /\ t # NoToken
    <3>1. t \in 1..issued /\ t \notin call[c].known
      BY <1>0, <1>1, <1>2, <2>2 DEF CallSound, TokenSound, NoToken
    <3>2. \A e \in Entries : e.token = t => e.key = call[c].key
      BY <1>1, <1>2, <1>5, <2>2 DEF TokenSound
    <3>3. call[c].known \subseteq rejected /\ call[c].ran = 0 /\ call[c].key \in TokenKey
      BY <1>1, <1>2 DEF CallSound
    <3>4. call'[d] = kept /\ d = c /\ Entries' = Entries /\ issued' = issued /\ rejected' = rejected
      BY <1>1, <1>5, <1>8, <2>2
    <3>. QED  BY <1>3, <3>1, <3>2, <3>3, <3>4 DEF CallSound
  <2>3. CASE d # c
    <3>1. ASSUME call[d].phase = "waiting"
          PROVE  flight'[call[d].flight] = flight[call[d].flight] /\ call[d].flight \in Flight
                   /\ flight[call[d].flight].phase \in Active \cup {"done"}
      <4>1. call[d].flight \in Flight /\ flight[call[d].flight].phase \in Active \cup {"done"}
        BY <3>1 DEF ProviderInv, CallSound
      <4>2. call[d].flight = f => d \in Waiting(f)
        BY <3>1 DEF Waiting
      <4>. QED  BY <1>6, <1>7, <2>3, <4>1, <4>2
    <3>2. call'[d] = call[d] /\ rejected' = rejected /\ issued' = issued
      BY <1>1, <1>5, <2>3
    <3>. QED  BY <1>1, <1>8, <3>1, <3>2, CallKept
  <2>. QED  BY <1>4, <2>1, <2>2, <2>3
<1>13. ASSUME NEW g \in Flight PROVE FlightSound(g)'
  <2>1. CASE g = f
    <3>1. flight[f].waiters \in Nat /\ Cardinality(Waiting(f)) <= flight[f].waiters
      <4>1. flight[f].waiters \in 0..Cardinality(Caller)
        BY <1>1 DEF FlightStates
      <4>. QED  BY <1>1, <1>2, <4>1, WaitersFinite DEF FlightSound
    <3>2. rec.phase = "done" => Cardinality(Waiting(f)') <= rec.waiters
      BY <1>5, <1>6, <3>1, Records
    <3>3. rec.phase \notin Active
      BY <1>1, <1>6, Records DEF Active
    <3>. QED  BY <1>7, <2>1, <3>2, <3>3 DEF FlightSound
  <2>2. CASE g # f
    BY <1>1, <1>5, <1>7, <2>2, FlightKept
  <2>. QED  BY <2>1, <2>2
<1>14. ASSUME NEW g \in Flight PROVE OwnToken(g)'
  <2>1. flight'[g].phase \in Active => g # f /\ flight'[g] = flight[g]
    BY <1>1, <1>6, <1>7, Records DEF Active
  <2>2. \A h \in Flight : flight'[h].token \in {flight[h].token, NoToken}
    BY <1>6, <1>7, Records
  <2>3. g # f => \A u \in Public' : u \in Public \/ \E h \in Flight : h # g /\ flight[h].token = u
    BY <1>11
  <2>. QED  BY <2>1, <2>2, <2>3, OwnKept
<1>15. ASSUME NEW g \in Flight PROVE TokenSound(g)'
  <2>1. CASE g = f /\ rec = NoFlight
    <3>1. NoToken <= issued'
      BY <1>1 DEF NoToken
    <3>. QED  BY <1>7, <2>1, <3>1, Records DEF TokenSound
  <2>2. CASE flight'[g] = flight[g]
    BY <1>1, <1>8, <2>2, TokenKept
  <2>. QED  BY <1>6, <1>7, <2>1, <2>2
<1>. QED  BY <1>9, <1>10, <1>12, <1>13, <1>14, <1>15 DEF ProviderInv

-----------------------------------------------------------------------------
\* A 401: the token goes wherever it is, and with it only its own entry.
LEMMA UnauthorizedKeeps ==
  ASSUME ProviderInv, NEW c \in Caller, Unauthorized(c)
  PROVE  ProviderInv'
<1>. DEFINE t == call[c].token
            k == call[c].key
            next == Replayed(c)
<1>1. /\ call[c].phase = "sent" /\ call[c].phase \in Holding
      /\ cache' = Drop(k, t) /\ rejected' = rejected \cup {t}
      /\ call' = [call EXCEPT ![c] = next]
      /\ UNCHANGED <<flights, flight, token, issued>>
      /\ call[c] \in CallStates /\ issued \in Nat /\ rejected \subseteq 1..issued
  BY Before DEF Unauthorized, Holding
<1>2. /\ CallSound(c) /\ t \in 1..issued /\ k \in TokenKey
      /\ call[c].ran = 0 /\ call[c].known \subseteq rejected
      /\ \A e \in Entries : e.token = t => e.key = k
  BY <1>1 DEF ProviderInv, CallSound
<1>3. /\ next \in CallStates /\ next.phase \in {"again", "idle"} /\ next.ran = 0
      /\ next.known \subseteq rejected
      /\ next.phase = "again" => next.key = k
  <2>. DEFINE again == [call[c] EXCEPT !.phase = "again"]
  <2>1. /\ again \in CallStates /\ again.phase = "again" /\ again.ran = 0 /\ again.key = k
        /\ again.known = call[c].known
    BY <1>1, <1>2 DEF CallStates
  <2>2. next = again \/ next = IdleCaller
    BY DEF Replayed
  <2>. HIDE DEF again, next
  <2>. QED  BY <1>2, <2>1, <2>2, Records
<1>. HIDE DEF next
<1>4. /\ call' \in [Caller -> CallStates] /\ call'[c] = next
      /\ \A d \in Caller : d # c => call'[d] = call[d]
      /\ \A f : Waiting(f)' = Waiting(f)
  BY <1>1, <1>3, CallMoves, NoWaiterMoves
<1>5. /\ cache' \in Seq(Entry) /\ Distinct(cache') /\ Len(cache') <= MaxEntries
      /\ Entries' \subseteq Entries /\ \A e \in Entries' : e.token # t
  <2>1. CASE \E e \in Cached(k) : e.token = t
    <3>1. cache' = Without(k)
      BY <1>1, <2>1 DEF Drop
    <3>2. \A e \in Entries \ Cached(k) : e.token # t
      BY <1>2 DEF Cached
    <3>3. /\ cache' \in Seq(Entry) /\ Distinct(cache') /\ Len(cache') <= MaxEntries
          /\ Entries' = Entries \ Cached(k)
      BY <3>1, Shrinks
    <3>. QED  BY <3>2, <3>3
  <2>2. CASE ~\E e \in Cached(k) : e.token = t
    <3>1. cache' = cache /\ Entries' = Entries
      BY <1>1, <2>2 DEF Drop, Entries
    <3>2. \A e \in Entries : e.token # t
      BY <1>2, <2>2 DEF Cached
    <3>. QED  BY <3>1, <3>2, Before
  <2>. QED  BY <2>1, <2>2
<1>6. ProviderTypeOK' /\ LifetimeNotInflated'
  <2>1. rejected' \subseteq 1..issued'
    BY <1>1, <1>2
  <2>. QED  BY <1>1, <1>4, <1>5, <2>1 DEF ProviderInv, ProviderTypeOK, Entry, LifetimeNotInflated
<1>7. EntriesSound'
  <2>1. \A e \in Entries' : flights'[e.key] = None /\ e.token \notin rejected'
    BY <1>1, <1>5 DEF ProviderInv, EntriesSound
  <2>. QED  BY <1>1, <1>5, <2>1, EntriesKept
<1>8. KeysJoined'
  BY <1>1 DEF ProviderInv, KeysJoined, InFlight
<1>9. ASSUME NEW d \in Caller PROVE CallSound(d)'
  <2>1. CASE d = c
    <3>1. next.phase \notin Holding /\ next.phase # "waiting"
      BY <1>3 DEF Holding
    <3>2. next.known \subseteq rejected'
      BY <1>1, <1>3
    <3>3. next.phase # "ran" /\ (next.phase # "idle" => next.key \in TokenKey)
      BY <1>2, <1>3
    <3>. QED  BY <1>3, <1>4, <2>1, <3>1, <3>2, <3>3 DEF CallSound
  <2>2. CASE d # c
    <3>1. call[d].phase = "waiting" => flight[call[d].flight].phase \in Active \cup {"done"}
      BY DEF ProviderInv, CallSound
    <3>2. /\ call'[d] = call[d] /\ rejected \subseteq rejected' /\ issued' = issued
          /\ flight' = flight /\ issued <= issued' /\ issued' \in Nat
      BY <1>1, <1>4, <2>2
    <3>3. \A e \in Entries' : e \in Entries
      BY <1>5
    <3>. QED  BY <3>1, <3>2, <3>3, CallKept
  <2>. QED  BY <2>1, <2>2
<1>10. Public' \subseteq Public
  <2>1. \A d \in Caller : call'[d].phase \in Holding => call'[d] = call[d]
    BY <1>3, <1>4 DEF Holding
  <2>2. t \in Public
    BY <1>1 DEF Public
  <2>. QED  BY <1>1, <1>5, <2>1, <2>2 DEF Public
<1>11. ASSUME NEW f \in Flight PROVE FlightSound(f)' /\ OwnToken(f)' /\ TokenSound(f)'
  <2>1. FlightSound(f)'
    BY <1>1, <1>4, FlightKept
  <2>2. OwnToken(f)'
    BY <1>1, <1>10 DEF ProviderInv, OwnToken
  <2>3. TokenSound(f)'
    BY <1>1, <1>5, TokenKept
  <2>. QED  BY <2>1, <2>2, <2>3
<1>. QED  BY <1>6, <1>7, <1>8, <1>9, <1>11 DEF ProviderInv

-----------------------------------------------------------------------------
(* Acquiring a token. *)

\* A caller that does not wait, and its record as its acquisition begins.
Acquiring(c, rec) ==
  /\ rec \in CallStates /\ rec.key \in TokenKey
  /\ rec.ran = 0 /\ rec.known = rejected /\ rec.token = NoToken
  /\ call[c].phase \in {"idle", "again"}
  /\ UNCHANGED <<token, issued, rejected>>

\* The call goes on without a flight.
LEMMA Answered ==
  ASSUME ProviderInv, NEW c \in Caller, NEW next \in CallStates,
         call[c].phase # "waiting", next.phase # "waiting", call' = [call EXCEPT ![c] = next],
         cache' \in Seq(Entry), Distinct(cache'), Len(cache') <= MaxEntries,
         Entries' \subseteq Entries,
         next.phase \in Holding => next.token \in Public,
         UNCHANGED <<flights, flight, token, issued, rejected>>,
         CallSound(c)'
  PROVE  ProviderInv'
<1>1. /\ call' \in [Caller -> CallStates] /\ call'[c] = next
      /\ \A d \in Caller : d # c => call'[d] = call[d]
      /\ \A f : Waiting(f)' = Waiting(f)
      /\ issued \in Nat
  BY CallMoves, NoWaiterMoves, Before
<1>2. ProviderTypeOK' /\ LifetimeNotInflated'
  BY <1>1 DEF ProviderInv, ProviderTypeOK, Entry, LifetimeNotInflated
<1>3. EntriesSound'
  <2>1. \A e \in Entries' : flights'[e.key] = None /\ e.token \notin rejected'
    BY DEF ProviderInv, EntriesSound
  <2>. QED  BY <1>1, <2>1, EntriesKept
<1>4. KeysJoined'
  BY DEF ProviderInv, KeysJoined, InFlight
<1>5. ASSUME NEW d \in Caller PROVE CallSound(d)'
  <2>1. CASE d # c
    <3>1. call[d].phase = "waiting" => flight[call[d].flight].phase \in Active \cup {"done"}
      BY DEF ProviderInv, CallSound
    <3>2. call'[d] = call[d] /\ \A e \in Entries' : e \in Entries
      BY <1>1, <2>1
    <3>. QED  BY <1>1, <3>1, <3>2, CallKept
  <2>. QED  BY <2>1
<1>6. Public' \subseteq Public
  <2>1. \A d \in Caller : call'[d].phase \in Holding =>
          call'[d].token \in Public
    <3>1. \A d \in Caller : call[d].phase \in Holding => call[d].token \in Public
      BY DEF Public
    <3>. QED  BY <1>1, <3>1
  <2>2. \A e \in Entries' : e.token \in Public
    BY DEF Public
  <2>3. rejected' \subseteq Public
    BY DEF Public
  <2>4. Public' = rejected' \cup {e.token : e \in Entries'}
                   \cup {call'[d].token : d \in {b \in Caller : call'[b].phase \in Holding}}
    BY DEF Public
  <2>. QED  BY <2>1, <2>2, <2>3, <2>4
<1>7. ASSUME NEW f \in Flight PROVE FlightSound(f)' /\ OwnToken(f)' /\ TokenSound(f)'
  <2>1. FlightSound(f)'
    BY <1>1, FlightKept
  <2>2. OwnToken(f)'
    BY <1>6 DEF ProviderInv, OwnToken
  <2>3. TokenSound(f)'
    BY <1>1, TokenKept
  <2>. QED  BY <2>1, <2>2, <2>3
<1>. QED  BY <1>2, <1>3, <1>4, <1>5, <1>7 DEF ProviderInv

\* The cache answers.
LEMMA HitKeeps ==
  ASSUME ProviderInv, NEW c \in Caller, NEW rec, Acquiring(c, rec), Hit(c, rec)
  PROVE  ProviderInv'
<1>1. PICK e \in Cached(rec.key) :
        /\ cache' = Append(Without(rec.key), e)
        /\ call' = [call EXCEPT ![c] = [rec EXCEPT !.phase = "sent", !.token = e.token]]
        /\ UNCHANGED <<flights, flight>>
  BY DEF Hit
<1>. DEFINE next == [rec EXCEPT !.phase = "sent", !.token = e.token]
<1>2. /\ e \in Entries /\ e.key = rec.key /\ e.token \in 1..issued
      /\ e.token \in Token /\ e.token \notin rejected
      /\ \A d \in Entries : d.token = e.token => d = e
  BY <1>1, Before DEF Cached, Entry, ProviderInv, EntriesSound
<1>3. /\ next \in CallStates /\ next.phase = "sent" /\ next.token = e.token
      /\ next.key = rec.key /\ next.ran = 0 /\ next.known = rejected
  BY <1>2 DEF Acquiring, CallStates
<1>4. call' = [call EXCEPT ![c] = next]
  BY <1>1
<1>. HIDE DEF next
<1>5. /\ cache' \in Seq(Entry) /\ Distinct(cache') /\ Len(cache') <= MaxEntries
      /\ Entries' = Entries
  BY <1>1, Refreshed
<1>6. call'[c] = next
  BY <1>3, <1>4, CallMoves
<1>7. CallSound(c)'
  BY <1>2, <1>3, <1>5, <1>6 DEF CallSound, Acquiring, Holding
<1>8. next.token \in Public
  BY <1>2, <1>3 DEF Public
<1>. QED  BY <1>1, <1>3, <1>4, <1>5, <1>7, <1>8, Answered DEF Acquiring

LEMMA NoCapacityKeeps ==
  ASSUME ProviderInv, NEW c \in Caller, NEW rec, Acquiring(c, rec),
         cache' = Without(rec.key), NoCapacity(c, rec)
  PROVE  ProviderInv'
<1>1. /\ call' = [call EXCEPT ![c] = IdleCaller] /\ UNCHANGED <<flights, flight>>
      /\ call'[c] = IdleCaller
  BY Records, CallMoves DEF NoCapacity
<1>2. CallSound(c)'
  BY <1>1, Records DEF CallSound, Holding
<1>3. /\ cache' \in Seq(Entry) /\ Distinct(cache') /\ Len(cache') <= MaxEntries
      /\ Entries' \subseteq Entries
  BY Shrinks
<1>. QED  BY <1>1, <1>2, <1>3, Records, Answered DEF Acquiring, Holding

\* The call waits on the flight of its key: on one that others wait on too, or on one
\* of its own.
LEMMA AwaitKeeps ==
  ASSUME ProviderInv, NEW c \in Caller, NEW rec, Acquiring(c, rec), NEW f \in Flight,
         cache' = Without(rec.key),
         call' = [call EXCEPT ![c] = [rec EXCEPT !.phase = "waiting", !.flight = f]],
         NEW fl \in FlightStates, flight' = [flight EXCEPT ![f] = fl],
         fl.phase \in Active, fl.key = rec.key, fl.waiters = Cardinality(Waiting(f) \cup {c}),
         \/ /\ flight[f].phase \in Active /\ fl.phase = flight[f].phase
            /\ fl.token = flight[f].token /\ fl.age = flight[f].age
            /\ flight[f].key = rec.key
         \/ fl.phase = "asking" /\ fl.token = NoToken /\ Waiting(f) = {},
         flights[rec.key] \in {f, None}, flights' = [flights EXCEPT ![rec.key] = f],
         \A k \in TokenKey : flights[k] = f => k = rec.key,
         IsFiniteSet(InFlight'), Cardinality(InFlight') <= MaxEntries
  PROVE  ProviderInv'
<1>. DEFINE next == [rec EXCEPT !.phase = "waiting", !.flight = f]
<1>1. /\ rec.key \in TokenKey /\ call[c].phase # "waiting" /\ call[c].phase \notin Holding
      /\ UNCHANGED <<token, issued, rejected>>
      /\ issued \in Nat /\ rejected \subseteq 1..issued
      /\ flights \in [TokenKey -> Flight \cup {None}] /\ None \notin Flight
  BY Before, ProviderAssumption DEF Acquiring, Holding
<1>2. /\ next \in CallStates /\ next.phase = "waiting" /\ next.flight = f
      /\ next.key = rec.key /\ next.ran = 0 /\ next.known = rejected
  BY DEF Acquiring, CallStates
<1>3. call' = [call EXCEPT ![c] = next]
  OBVIOUS
<1>. HIDE DEF next
<1>4. /\ call' \in [Caller -> CallStates] /\ call'[c] = next
      /\ \A d \in Caller : d # c => call'[d] = call[d]
      /\ Waiting(f)' = Waiting(f) \cup {c} /\ \A g : g # f => Waiting(g)' = Waiting(g)
  <2>1. /\ call' \in [Caller -> CallStates] /\ call'[c] = next
        /\ \A d \in Caller : d # c => call'[d] = call[d]
        /\ \A g : Waiting(g)' = IF next.phase = "waiting" /\ next.flight = g
                                THEN Waiting(g) \cup {c} ELSE Waiting(g) \ {c}
    BY <1>2, <1>3, CallMoves, ZenonT(40)
  <2>2. Waiting(f)' = Waiting(f) \cup {c}
    BY <1>2, <2>1
  <2>3. ASSUME NEW g, g # f PROVE Waiting(g)' = Waiting(g)
    <3>1. Waiting(g)' = Waiting(g) \ {c}
      BY <1>2, <2>1, <2>3
    <3>2. c \notin Waiting(g)
      BY <1>1 DEF Waiting
    <3>. QED  BY <3>1, <3>2
  <2>. QED  BY <2>1, <2>2, <2>3
<1>5. /\ flight' \in [Flight -> FlightStates] /\ flight'[f] = fl
      /\ \A g \in Flight : g # f => flight'[g] = flight[g]
  BY FlightMoves
<1>6. /\ flights' \in [TokenKey -> Flight \cup {None}] /\ flights'[rec.key] = f
      /\ \A k \in TokenKey : k # rec.key => flights'[k] = flights[k]
  BY <1>1
<1>7. /\ cache' \in Seq(Entry) /\ Distinct(cache') /\ Len(cache') <= MaxEntries
      /\ Entries' \subseteq Entries /\ \A e \in Entries' : e.key # rec.key
  <2>1. /\ cache' \in Seq(Entry) /\ Distinct(cache') /\ Len(cache') <= MaxEntries
        /\ Entries' = Entries \ Cached(rec.key)
    BY Shrinks
  <2>. QED  BY <2>1 DEF Cached
<1>8. ProviderTypeOK' /\ LifetimeNotInflated'
  BY <1>1, <1>4, <1>5, <1>6, <1>7
     DEF ProviderInv, ProviderTypeOK, Entry, LifetimeNotInflated
<1>9. EntriesSound'
  <2>1. \A e \in Entries' : flights'[e.key] = None /\ e.token \notin rejected'
    BY <1>1, <1>6, <1>7, Before DEF ProviderInv, EntriesSound, Entry
  <2>. QED  BY <1>1, <1>7, <2>1, EntriesKept
<1>10. KeysJoined'
  <2>1. ASSUME NEW k \in TokenKey, flights'[k] # None
        PROVE  flight'[flights'[k]].phase \in Active /\ flight'[flights'[k]].key = k
    <3>1. CASE k = rec.key
      BY <1>5, <1>6, <3>1
    <3>2. CASE k # rec.key
      <4>1. /\ flights'[k] = flights[k] /\ flights[k] \in Flight /\ flights[k] # f
            /\ flight[flights[k]].phase \in Active /\ flight[flights[k]].key = k
        BY <1>1, <1>6, <2>1, <3>2 DEF ProviderInv, KeysJoined
      <4>. QED  BY <1>5, <4>1
    <3>. QED  BY <3>1, <3>2
  <2>. QED  BY <2>1 DEF KeysJoined
\* The token of the flight is on its way, so that nobody can have rejected it.
<1>11. fl.token \notin rejected
  <2>1. NoToken \notin rejected
    BY <1>1 DEF NoToken
  <2>2. flight[f].phase \in Active /\ flight[f].token # NoToken => flight[f].token \notin rejected
    BY DEF ProviderInv, OwnToken, Public
  <2>. QED  BY <2>1, <2>2
<1>12. ASSUME NEW d \in Caller PROVE CallSound(d)'
  <2>1. CASE d = c
    <3>1. /\ call'[d] = next /\ next.phase # "idle" /\ next.phase # "ran"
          /\ next.phase \notin Holding /\ rejected' = rejected
      BY <1>1, <1>2, <1>4, <2>1 DEF Holding
    <3>2. /\ flight'[f].phase \in Active \cup {"done"} /\ flight'[f].key = next.key
          /\ flight'[f].token \notin next.known
      BY <1>2, <1>5, <1>11
    <3>3. call'[d].known \subseteq rejected' /\ call'[d].key \in TokenKey /\ call'[d].ran = 0
      BY <1>1, <1>2, <3>1
    <3>4. /\ call'[d].flight \in Flight
          /\ flight'[call'[d].flight].phase \in Active \cup {"done"}
          /\ flight'[call'[d].flight].key = call'[d].key
          /\ flight'[call'[d].flight].token \notin call'[d].known
      BY <1>2, <3>1, <3>2
    <3>5. call'[d].phase \notin Holding /\ call'[d].phase # "ran"
      BY <3>1
    <3>. QED  BY <3>3, <3>4, <3>5 DEF CallSound
  <2>2. CASE d # c
    <3>1. ASSUME call[d].phase = "waiting"
          PROVE  /\ flight'[call[d].flight].phase \in Active \cup {"done"}
                 /\ flight'[call[d].flight].key = flight[call[d].flight].key
                 /\ flight'[call[d].flight].token = flight[call[d].flight].token
      <4>1. call[d].flight \in Flight /\ flight[call[d].flight].phase \in Active \cup {"done"}
        BY <3>1 DEF ProviderInv, CallSound
      <4>2. call[d].flight = f => d \in Waiting(f)
        BY <3>1 DEF Waiting
      <4>. QED  BY <1>5, <4>1, <4>2
    <3>2. call'[d] = call[d] /\ \A e \in Entries' : e \in Entries
      BY <1>4, <1>7, <2>2
    <3>. QED  BY <1>1, <3>1, <3>2, CallKept
  <2>. QED  BY <2>1, <2>2
<1>13. ASSUME NEW g \in Flight PROVE FlightSound(g)'
  <2>1. CASE g = f
    BY <1>1, <1>4, <1>5, <1>6, <2>1 DEF FlightSound, Active
  <2>2. CASE g # f
    <3>1. flight[g].phase \in Active => flight[g].key \in TokenKey
      BY DEF ProviderInv, FlightSound
    <3>2. flight[g].phase \in Active /\ flights[flight[g].key] = g => flights'[flight[g].key] = g
      BY <1>1, <1>6, <2>2, <3>1
    <3>. QED  BY <1>4, <1>5, <2>2, <3>2, FlightKept
  <2>. QED  BY <2>1, <2>2
<1>14. Public' \subseteq Public
  <2>1. \A d \in Caller : call'[d].phase \in Holding => call'[d] = call[d]
    BY <1>2, <1>4 DEF Holding
  <2>2. ASSUME NEW t \in Public' PROVE t \in Public
    <3>1. \/ t \in rejected' \/ \E e \in Entries' : t = e.token
          \/ \E d \in Caller : call'[d].phase \in Holding /\ t = call'[d].token
      BY <2>2 DEF Public
    <3>2. CASE t \in rejected' \/ \E e \in Entries' : t = e.token
      BY <1>1, <1>7, <3>2 DEF Public
    <3>3. CASE \E d \in Caller : call'[d].phase \in Holding /\ t = call'[d].token
      BY <2>1, <3>3 DEF Public
    <3>. QED  BY <3>1, <3>2, <3>3
  <2>. QED  BY <2>2
<1>15. ASSUME NEW g \in Flight PROVE OwnToken(g)'
  <2>1. \A h \in Flight : flight'[h].token \in {flight[h].token, NoToken}
    BY <1>5
  <2>2. CASE g = f /\ fl.token = NoToken
    BY <1>5, <2>2 DEF OwnToken
  <2>3. CASE g # f \/ fl.token # NoToken
    <3>1. flight'[g].phase \in Active => flight[g].phase \in Active
      BY <1>5, <2>3
    <3>. QED  BY <1>14, <2>1, <3>1, OwnKept
  <2>. QED  BY <2>2, <2>3
<1>16. ASSUME NEW g \in Flight PROVE TokenSound(g)'
  <2>1. CASE g = f
    <3>1. fl.phase # "free" /\ fl.phase # "done" /\ NoToken <= issued
      BY <1>1 DEF Active, NoToken
    <3>2. TokenSound(f)
      BY DEF ProviderInv
    <3>. QED  BY <1>1, <1>5, <2>1, <3>1, <3>2 DEF TokenSound
  <2>2. CASE g # f
    BY <1>1, <1>5, <1>7, <2>2, TokenKept
  <2>. QED  BY <2>1, <2>2
<1>. QED  BY <1>8, <1>9, <1>10, <1>12, <1>13, <1>15, <1>16 DEF ProviderInv

LEMMA JoinKeeps ==
  ASSUME ProviderInv, NEW c \in Caller, NEW rec, Acquiring(c, rec), NEW f \in Flight,
         cache' = Without(rec.key), Join(c, rec, f)
  PROVE  ProviderInv'
<1>. DEFINE fl == [flight[f] EXCEPT !.waiters = @ + 1]
<1>1. /\ rec.key \in TokenKey /\ flights[rec.key] = f /\ f # None /\ flights' = flights
      /\ flights \in [TokenKey -> Flight \cup {None}]
      /\ flight[f] \in FlightStates /\ flight[f].phase \in Active /\ flight[f].key = rec.key
      /\ \A k \in TokenKey : flights[k] = f => k = rec.key
  BY Before, ProviderAssumption DEF Acquiring, Join, ProviderInv, KeysJoined
<1>2. /\ flight[f].waiters = Cardinality(Waiting(f))
      /\ Cardinality(Waiting(f) \cup {c}) = Cardinality(Waiting(f)) + 1
      /\ Cardinality(Waiting(f) \cup {c}) \in 0..Cardinality(Caller)
  <2>1. c \notin Waiting(f)
    BY DEF Acquiring, Waiting
  <2>2. Waiting(f) \cup {c} \in SUBSET Caller
    BY DEF Waiting
  <2>3. /\ IsFiniteSet(Waiting(f) \cup {c})
        /\ Cardinality(Waiting(f) \cup {c}) <= Cardinality(Caller)
    BY <2>2, ProviderAssumption, FS_Subset
  <2>4. Cardinality(Waiting(f) \cup {c}) \in Nat /\ Cardinality(Caller) \in Nat
    BY <2>3, ProviderAssumption, FS_CardinalityType
  <2>5. Cardinality(Waiting(f) \cup {c}) = Cardinality(Waiting(f)) + 1
    BY <2>1, WaitersFinite, FS_AddElement
  <2>6. flight[f].waiters = Cardinality(Waiting(f))
    BY <1>1 DEF ProviderInv, FlightSound
  <2>. QED  BY <2>3, <2>4, <2>5, <2>6
<1>3. flight' = [flight EXCEPT ![f] = fl]
  BY Before DEF Join
<1>4. flight[f].waiters + 1 \in 0..Cardinality(Caller)
  BY <1>2
<1>5. /\ fl \in FlightStates /\ fl.phase = flight[f].phase /\ fl.token = flight[f].token
      /\ fl.age = flight[f].age /\ fl.key = flight[f].key
      /\ fl.waiters = flight[f].waiters + 1
  BY <1>1, <1>4 DEF FlightStates
<1>. HIDE DEF fl
<1>6. flights' = [flights EXCEPT ![rec.key] = f]
  BY <1>1
<1>7. IsFiniteSet(InFlight') /\ Cardinality(InFlight') <= MaxEntries
  BY <1>1 DEF InFlight, ProviderInv, KeysJoined
<1>8. call' = [call EXCEPT ![c] = [rec EXCEPT !.phase = "waiting", !.flight = f]]
  BY DEF Join
<1>9. fl.phase \in Active /\ fl.key = rec.key /\ fl.waiters = Cardinality(Waiting(f) \cup {c})
  BY <1>1, <1>2, <1>5
<1>10. /\ flights[rec.key] \in {f, None} /\ \A k \in TokenKey : flights[k] = f => k = rec.key
       /\ flight[f].phase \in Active /\ fl.phase = flight[f].phase
       /\ fl.token = flight[f].token /\ fl.age = flight[f].age /\ flight[f].key = rec.key
  BY <1>1, <1>5
<1>11. fl \in FlightStates
  BY <1>5
<1>. QED  BY <1>3, <1>6, <1>7, <1>8, <1>9, <1>10, <1>11, AwaitKeeps

LEMMA StartKeeps ==
  ASSUME ProviderInv, NEW c \in Caller, NEW rec, Acquiring(c, rec), NEW f \in Flight,
         cache' = Without(rec.key), StartFlight(c, rec, f)
  PROVE  ProviderInv'
<1>. DEFINE fl == [NoFlight EXCEPT !.phase = "asking", !.key = rec.key, !.waiters = 1]
<1>1. /\ rec.key \in TokenKey /\ flights[rec.key] = None /\ flight[f].phase = "free"
      /\ flights' = [flights EXCEPT ![rec.key] = f]
      /\ flights \in [TokenKey -> Flight \cup {None}] /\ None \notin Flight
      /\ flight' = [flight EXCEPT ![f] = fl]
      /\ call' = [call EXCEPT ![c] = [rec EXCEPT !.phase = "waiting", !.flight = f]]
  BY Before, ProviderAssumption DEF Acquiring, StartFlight
<1>2. Waiting(f) = {}
  BY <1>1 DEF Waiting, ProviderInv, CallSound, Active
<1>3. Cardinality(Waiting(f) \cup {c}) = 1 /\ 1 \in 0..Cardinality(Caller)
  <2>1. {c} \in SUBSET Caller
    OBVIOUS
  <2>2. Cardinality({c}) = 1
    BY FS_Singleton
  <2>3. Cardinality({c}) <= Cardinality(Caller) /\ Cardinality(Caller) \in Nat
    BY <2>1, ProviderAssumption, FS_Subset, FS_CardinalityType
  <2>4. Waiting(f) \cup {c} = {c}
    BY <1>2
  <2>. QED  BY <2>2, <2>3, <2>4
<1>4. /\ fl \in FlightStates /\ fl.phase = "asking" /\ fl.key = rec.key
      /\ fl.token = NoToken /\ fl.waiters = 1
  BY <1>1, <1>3, Records DEF FlightStates
<1>. HIDE DEF fl
<1>5. \A k \in TokenKey : flights[k] # f
  BY <1>1 DEF ProviderInv, KeysJoined, Active
<1>6. IsFiniteSet(InFlight') /\ Cardinality(InFlight') <= MaxEntries
  <2>1. InFlight' = InFlight \cup {rec.key} /\ rec.key \notin InFlight
    BY <1>1 DEF InFlight
  <2>2. IsFiniteSet(InFlight) /\ Cardinality(InFlight) \in Nat /\ Cardinality(InFlight) < MaxEntries
    BY FS_CardinalityType DEF ProviderInv, KeysJoined, StartFlight
  <2>3. /\ IsFiniteSet(InFlight \cup {rec.key})
        /\ Cardinality(InFlight \cup {rec.key}) = Cardinality(InFlight) + 1
    BY <2>1, <2>2, FS_AddElement
  <2>. QED  BY <2>1, <2>2, <2>3, ProviderAssumption
<1>7. /\ fl \in FlightStates /\ fl.phase \in Active /\ fl.key = rec.key
      /\ fl.waiters = Cardinality(Waiting(f) \cup {c})
      /\ fl.phase = "asking" /\ fl.token = NoToken /\ Waiting(f) = {}
  BY <1>2, <1>3, <1>4 DEF Active
<1>8. flights[rec.key] \in {f, None} /\ \A k \in TokenKey : flights[k] = f => k = rec.key
  BY <1>1, <1>5
<1>9. /\ flights' = [flights EXCEPT ![rec.key] = f] /\ flight' = [flight EXCEPT ![f] = fl]
      /\ call' = [call EXCEPT ![c] = [rec EXCEPT !.phase = "waiting", !.flight = f]]
  BY <1>1
<1>. QED  BY <1>6, <1>7, <1>8, <1>9, AwaitKeeps

LEMMA Retried ==
  ASSUME NEW a \in CallStates, NEW known \in SUBSET Token
  PROVE  LET rec == [a EXCEPT !.attempt = 2, !.token = NoToken, !.known = known]
         IN  /\ rec \in CallStates /\ rec.key = a.key /\ rec.ran = a.ran
             /\ rec.known = known /\ rec.token = NoToken
<1>1. 2 \in 1..2 /\ NoToken \in Token \cup {NoToken}
  OBVIOUS
<1>. QED  BY <1>1 DEF CallStates

LEMMA AcquireKeeps ==
  ASSUME ProviderInv, NEW c \in Caller, BeginCall(c) \/ SecondAttempt(c)
  PROVE  ProviderInv'
<1>1. \E rec : Acquiring(c, rec) /\ Acquire(c, rec)
  <2>1. CASE BeginCall(c)
    <3>1. PICK k \in TokenKey, replay \in BOOLEAN :
            Acquire(c, [IdleCaller EXCEPT !.key = k, !.replay = replay, !.known = rejected])
      BY <2>1 DEF BeginCall
    <3>. DEFINE rec == [IdleCaller EXCEPT !.key = k, !.replay = replay, !.known = rejected]
    <3>2. rejected \subseteq Token
      BY Before, ProviderAssumption DEF ProviderInv, ProviderTypeOK, Token
    <3>3. /\ rec \in CallStates /\ rec.key = k /\ rec.ran = 0
          /\ rec.known = rejected /\ rec.token = NoToken
      BY <3>2, Records DEF CallStates
    <3>4. Acquire(c, rec)
      BY <3>1
    <3>. HIDE DEF rec
    <3>. QED  BY <2>1, <3>3, <3>4 DEF Acquiring, BeginCall
  <2>2. CASE SecondAttempt(c)
    <3>. DEFINE rec == [call[c] EXCEPT !.attempt = 2, !.token = NoToken, !.known = rejected]
    <3>1. /\ call[c] \in CallStates /\ call[c].phase = "again"
          /\ call[c].key \in TokenKey /\ call[c].ran = 0
      BY <2>2, Before DEF SecondAttempt, ProviderInv, CallSound
    <3>2. rejected \subseteq Token
      BY Before, ProviderAssumption DEF ProviderInv, ProviderTypeOK, Token
    <3>3. /\ rec \in CallStates /\ rec.key = call[c].key /\ rec.ran = 0
          /\ rec.known = rejected /\ rec.token = NoToken
      BY <3>1, <3>2, Retried
    <3>4. Acquire(c, rec)
      BY <2>2 DEF SecondAttempt
    <3>. HIDE DEF rec
    <3>. QED  BY <2>2, <3>1, <3>3, <3>4 DEF Acquiring, SecondAttempt
  <2>. QED  BY <2>1, <2>2
<1>. QED  BY <1>1, HitKeeps, JoinKeeps, StartKeeps, NoCapacityKeeps DEF Acquire

-----------------------------------------------------------------------------
(* Time. *)

LEMMA LessFacts ==
  /\ \A n \in 0..Lifetime : Less(n) \in 0..Lifetime /\ Less(n) + 1 >= n
  /\ \A m, n \in 0..Lifetime : m <= n => Less(m) <= Less(n)
BY ProviderAssumption DEF Less

LEMMA OlderFacts ==
  ASSUME NEW a \in FlightStates, a.age < Lifetime
  PROVE  LET older == [a EXCEPT !.age = @ + 1]
         IN  /\ older \in FlightStates /\ older.phase = a.phase /\ older.key = a.key
             /\ older.token = a.token /\ older.waiters = a.waiters /\ older.over = a.over
             /\ older.age = a.age + 1
<1>1. a.age \in 0..Lifetime /\ Lifetime \in Nat
  BY ProviderAssumption DEF FlightStates
<1>2. a.age + 1 \in 0..Lifetime
  BY <1>1
<1>. QED  BY <1>2 DEF FlightStates

LEMMA TickKeeps ==
  ASSUME ProviderInv, ProviderTick
  PROVE  ProviderInv'
<1>. DEFINE Ages(f) == flight[f].phase \in {"asking", "issued"} /\ flight[f].age < Lifetime
            Older(f) == [flight[f] EXCEPT !.age = @ + 1]
            Spent(t) == [token[t] EXCEPT !.life = Less(@), !.left = Less(@), !.due = Less(@)]
<1>1. /\ token' = [t \in Token |-> Spent(t)]
      /\ flight' = [f \in Flight |-> IF Ages(f) THEN Older(f) ELSE flight[f]]
      /\ UNCHANGED <<cache, flights, call, issued, rejected>>
      /\ issued \in Nat /\ Lifetime \in Nat
  BY Before, ProviderAssumption DEF ProviderTick
<1>2. ASSUME NEW t \in Token
      PROVE  /\ token'[t] \in [life : 0..Lifetime, left : 0..Lifetime, due : 0..Lifetime]
             /\ token'[t].left <= token'[t].life /\ token'[t].life + 1 >= token[t].life
             /\ token'[t].life \in Nat /\ token[t].life \in Nat
  <2>1. /\ token[t] \in [life : 0..Lifetime, left : 0..Lifetime, due : 0..Lifetime]
        /\ token[t].left <= token[t].life
    BY <1>2 DEF ProviderInv, ProviderTypeOK, LifetimeNotInflated
  <2>2. /\ Less(token[t].life) \in 0..Lifetime /\ Less(token[t].left) \in 0..Lifetime
        /\ Less(token[t].due) \in 0..Lifetime /\ Less(token[t].life) + 1 >= token[t].life
        /\ Less(token[t].left) <= Less(token[t].life)
    BY <2>1, LessFacts
  <2>3. /\ Spent(t) \in [life : 0..Lifetime, left : 0..Lifetime, due : 0..Lifetime]
        /\ Spent(t).life = Less(token[t].life) /\ Spent(t).left = Less(token[t].left)
    BY <2>1, <2>2
  <2>4. token'[t] = Spent(t)
    BY <1>1, <1>2
  <2>. HIDE DEF Spent
  <2>. QED  BY <1>1, <2>1, <2>2, <2>3, <2>4
<1>3. ASSUME NEW f \in Flight
      PROVE  /\ flight'[f] \in FlightStates /\ flight'[f].phase = flight[f].phase
             /\ flight'[f].key = flight[f].key /\ flight'[f].token = flight[f].token
             /\ flight'[f].waiters = flight[f].waiters /\ flight'[f].over = flight[f].over
             /\ flight'[f].age \in Nat /\ flight[f].age \in Nat
             /\ flight[f].phase = "issued" =>
                  flight'[f].age = flight[f].age + 1 \/ flight'[f].age >= Lifetime
  <2>1. flight[f] \in FlightStates /\ flight[f].age \in Nat /\ Lifetime \in Nat
    <3>1. flight[f] \in FlightStates /\ Lifetime \in Nat
      BY <1>3, Before, ProviderAssumption
    <3>. QED  BY <3>1 DEF FlightStates
  <2>2. CASE Ages(f)
    <3>1. flight'[f] = Older(f)
      BY <1>1, <1>3, <2>2
    <3>2. flight[f].age < Lifetime
      BY <2>2
    <3>3. /\ Older(f) \in FlightStates /\ Older(f).phase = flight[f].phase
          /\ Older(f).key = flight[f].key /\ Older(f).token = flight[f].token
          /\ Older(f).waiters = flight[f].waiters /\ Older(f).over = flight[f].over
          /\ Older(f).age = flight[f].age + 1
      BY <2>1, <3>2, OlderFacts, Zenon
    <3>. HIDE DEF Older
    <3>4. flight[f].age + 1 \in Nat
      BY <2>1
    <3>. QED  BY <2>1, <3>1, <3>3, <3>4
  <2>3. CASE ~Ages(f)
    <3>1. flight'[f] = flight[f]
      BY <1>1, <1>3, <2>3
    <3>2. flight[f].phase = "issued" => ~(flight[f].age < Lifetime)
      BY <2>3
    <3>3. flight[f].phase = "issued" => flight[f].age >= Lifetime
      BY <2>1, <3>2
    <3>. HIDE DEF Ages
    <3>. QED  BY <2>1, <3>1, <3>3
  <2>. QED  BY <2>2, <2>3
<1>4. flight' \in [Flight -> FlightStates]
  BY <1>1, <1>3
<1>5. token' \in [Token -> [life : 0..Lifetime, left : 0..Lifetime, due : 0..Lifetime]]
  BY <1>1, <1>2
<1>. HIDE DEF Ages, Older, Spent
<1>6. /\ Entries' = Entries /\ InFlight' = InFlight /\ Public' = Public
      /\ \A f : Waiting(f)' = Waiting(f)
  BY <1>1 DEF Entries, InFlight, Public, Waiting
<1>7. ProviderTypeOK' /\ LifetimeNotInflated' /\ EntriesSound'
  BY <1>1, <1>2, <1>4, <1>5, <1>6
     DEF ProviderInv, ProviderTypeOK, LifetimeNotInflated, EntriesSound
<1>8. KeysJoined'
  BY <1>1, <1>3, <1>6, Before, ProviderAssumption DEF ProviderInv, KeysJoined
<1>9. \A c \in Caller : CallSound(c)'
  <2>1. \A c \in Caller : call[c].phase = "waiting" => call[c].flight \in Flight
                           /\ flight[call[c].flight].phase \in Active \cup {"done"}
    BY DEF ProviderInv, CallSound
  <2>. QED  BY <1>1, <1>3, <1>6, <2>1, CallKept
<1>10. ASSUME NEW f \in Flight PROVE FlightSound(f)' /\ OwnToken(f)'
  BY <1>1, <1>3, <1>6, <1>10 DEF ProviderInv, FlightSound, OwnToken
<1>11. ASSUME NEW f \in Flight PROVE TokenSound(f)'
  <2>1. TokenSound(f) /\ flight[f] \in FlightStates
    BY <1>11, Before DEF ProviderInv
  <2>2. flight[f].phase = "issued" =>
          Lifetime <= token'[flight[f].token].life + flight'[f].age
    <3>. SUFFICES ASSUME flight[f].phase = "issued"
                  PROVE  Lifetime <= token'[flight[f].token].life + flight'[f].age
      OBVIOUS
    <3>1. flight[f].token \in Token /\ Lifetime <= token[flight[f].token].life + flight[f].age
      BY <2>1 DEF TokenSound, FlightStates
    <3>2. /\ token'[flight[f].token].life + 1 >= token[flight[f].token].life
          /\ token'[flight[f].token].life \in Nat /\ token[flight[f].token].life \in Nat
      BY <1>2, <3>1
    <3>3. /\ flight'[f].age \in Nat /\ flight[f].age \in Nat
          /\ flight'[f].age = flight[f].age + 1 \/ flight'[f].age >= Lifetime
      BY <1>3, <1>11
    <3>. QED  BY <1>1, <3>1, <3>2, <3>3
  <2>. QED  BY <1>1, <1>3, <1>6, <1>11, <2>1, <2>2 DEF TokenSound
<1>. QED  BY <1>7, <1>8, <1>9, <1>10, <1>11 DEF ProviderInv

-----------------------------------------------------------------------------
(* The invariant, and what follows from it. *)

LEMMA InitHolds == ProviderInit => ProviderInv
<1>. SUFFICES ASSUME ProviderInit PROVE ProviderInv
  OBVIOUS
<1>1. /\ cache = <<>> /\ issued = 0 /\ rejected = {}
      /\ flights = [k \in TokenKey |-> None] /\ flight = [f \in Flight |-> NoFlight]
      /\ call = [c \in Caller |-> IdleCaller]
      /\ token = [t \in Token |-> [life |-> 0, left |-> 0, due |-> 0]]
      /\ Lifetime \in Nat /\ MaxTokens \in Nat /\ MaxEntries \in Nat
  BY ProviderAssumption DEF ProviderInit
<1>2. ProviderTypeOK /\ LifetimeNotInflated
  <2>1. [life |-> 0, left |-> 0, due |-> 0] \in [life : 0..Lifetime, left : 0..Lifetime, due : 0..Lifetime]
    BY <1>1
  <2>2. 0 \in 0..MaxTokens /\ \A t \in Token : token[t].left <= token[t].life
    BY <1>1
  <2>. QED  BY <1>1, <2>1, <2>2, Records DEF ProviderTypeOK, LifetimeNotInflated
<1>3. EntriesSound
  BY <1>1 DEF EntriesSound, Distinct, Entries
<1>4. KeysJoined
  <2>1. InFlight = {}
    BY <1>1 DEF InFlight
  <2>2. IsFiniteSet(InFlight) /\ Cardinality(InFlight) = 0
    BY <2>1, FS_EmptySet
  <2>. QED  BY <1>1, <2>2 DEF KeysJoined
<1>5. \A c \in Caller : CallSound(c)
  BY <1>1, Records DEF CallSound, Holding
<1>6. \A f \in Flight : FlightSound(f) /\ OwnToken(f) /\ TokenSound(f)
  BY <1>1, Records DEF FlightSound, OwnToken, TokenSound, Active, NoToken
<1>. QED  BY <1>2, <1>3, <1>4, <1>5, <1>6 DEF ProviderInv

LEMMA StepHolds == ProviderInv /\ [ProviderNext]_providerVars => ProviderInv'
<1>. SUFFICES ASSUME ProviderInv, [ProviderNext]_providerVars PROVE ProviderInv'
  OBVIOUS
<1>1. ASSUME NEW c \in Caller,
             \/ BeginCall(c) \/ SecondAttempt(c) \/ Leave(c) \/ FlightReturns(c)
             \/ Execute(c) \/ Finish(c) \/ Unauthorized(c)
      PROVE  ProviderInv'
  BY <1>1, AcquireKeeps, LeaveKeeps, ReturnsKeeps, RequestKeeps, UnauthorizedKeeps
<1>2. ASSUME NEW f \in Flight,
             Issue(f) \/ Fetch(f) \/ FetchFails(f) \/ Deadline(f) \/ Land(f)
      PROVE  ProviderInv'
  BY <1>2, IssueKeeps, FetchKeeps, FlightFailsKeeps, LandKeeps
<1>3. CASE UNCHANGED providerVars
  <2>1. UNCHANGED <<cache, flights, flight, call, token, issued, rejected>>
    BY <1>3 DEF providerVars
  <2>2. /\ Entries' = Entries /\ InFlight' = InFlight /\ Public' = Public
        /\ \A f : Waiting(f)' = Waiting(f)
    BY <2>1 DEF Entries, InFlight, Public, Waiting
  <2>3. ProviderTypeOK' /\ EntriesSound' /\ KeysJoined' /\ LifetimeNotInflated'
    BY <2>1, <2>2 DEF ProviderInv, ProviderTypeOK, EntriesSound, KeysJoined, LifetimeNotInflated
  <2>4. \A c \in Caller : CallSound(c)'
    BY <2>1, <2>2 DEF ProviderInv, CallSound
  <2>5. \A f \in Flight : FlightSound(f)' /\ OwnToken(f)' /\ TokenSound(f)'
    BY <2>1, <2>2 DEF ProviderInv, FlightSound, OwnToken, TokenSound
  <2>. QED  BY <2>3, <2>4, <2>5 DEF ProviderInv
<1>. QED  BY <1>1, <1>2, <1>3, TickKeeps DEF ProviderNext

LEMMA KeyHeldOnce ==
  ASSUME ProviderInv, NEW k \in TokenKey
  PROVE  Cardinality({i \in DOMAIN cache : cache[i].key = k})
           + (IF flights[k] = None THEN 0 ELSE 1) <= 1
<1>. DEFINE places == {i \in DOMAIN cache : cache[i].key = k}
<1>1. \A i, j \in places : i = j
  BY Before DEF Distinct
<1>2. CASE places = {}
  <2>1. Cardinality(places) = 0
    BY <1>2, FS_EmptySet
  <2>. HIDE DEF places
  <2>2. Cardinality(places) + (IF flights[k] = None THEN 0 ELSE 1) <= 1
    BY <2>1
  <2>. QED  BY <2>2 DEF places
<1>3. CASE places # {}
  <2>1. PICK i \in places : TRUE
    BY <1>3
  <2>2. places = {i}
    BY <1>1, <2>1
  <2>3. flights[k] = None
    BY <2>1 DEF ProviderInv, EntriesSound, Entries
  <2>. HIDE DEF places
  <2>4. Cardinality(places) = 1
    BY <2>2, FS_Singleton
  <2>5. Cardinality(places) + (IF flights[k] = None THEN 0 ELSE 1) <= 1
    BY <2>3, <2>4
  <2>. QED  BY <2>5 DEF places
<1>. QED  BY <1>2, <1>3

LEMMA Follows ==
  ProviderInv => /\ ProviderTypeOK /\ EntryOrFlight /\ NobodyStranded
                 /\ RejectedNotReturned /\ LifetimeNotInflated /\ CarriedOutOnce
<1>. SUFFICES ASSUME ProviderInv
              PROVE  /\ ProviderTypeOK /\ EntryOrFlight /\ NobodyStranded
                     /\ RejectedNotReturned /\ LifetimeNotInflated /\ CarriedOutOnce
  OBVIOUS
<1>1. EntryOrFlight
  BY KeyHeldOnce DEF ProviderInv, EntriesSound, KeysJoined, EntryOrFlight
<1>2. NobodyStranded
  BY DEF ProviderInv, FlightSound, Active, NobodyStranded
<1>3. RejectedNotReturned
  BY DEF ProviderInv, CallSound, Holding, RejectedNotReturned
<1>4. CarriedOutOnce
  <2>1. \A c \in Caller : call[c].ran = 0 \/ call[c].ran = 1
    BY DEF ProviderInv, CallSound
  <2>. QED  BY <2>1 DEF CarriedOutOnce
<1>. QED  BY <1>1, <1>2, <1>3, <1>4 DEF ProviderInv

\* A miss deletes what is due, a rejection its own token, a landing the oldest.
LEMMA LeaveForCause ==
  ProviderInv /\ [ProviderNext]_providerVars => [EntriesLeaveForCause]_providerVars
<1>. SUFFICES ASSUME ProviderInv, ProviderNext PROVE EntriesLeaveForCause
  BY DEF providerVars
<1>1. CASE cache' = cache
  BY <1>1 DEF EntriesLeaveForCause, Entries
<1>2. ASSUME NEW c \in Caller, NEW rec, Acquire(c, rec) PROVE EntriesLeaveForCause
  <2>1. CASE Hit(c, rec)
    <3>1. Entries' = Entries
      BY <2>1, Refreshed DEF Hit
    <3>. QED  BY <3>1 DEF EntriesLeaveForCause
  <2>2. CASE ~Hit(c, rec)
    <3>1. (\A e \in Cached(rec.key) : token[e.token].due = 0) /\ cache' = Without(rec.key)
      BY <1>2, <2>2 DEF Acquire
    <3>2. Entries' = Entries \ Cached(rec.key)
      BY <3>1, Shrinks
    <3>. QED  BY <3>1, <3>2 DEF EntriesLeaveForCause
  <2>. QED  BY <2>1, <2>2
<1>3. ASSUME NEW c \in Caller, Unauthorized(c) PROVE EntriesLeaveForCause
  <2>. DEFINE k == call[c].key
              t == call[c].token
  <2>1. cache' = Drop(k, t) /\ t \in rejected'
    BY <1>3 DEF Unauthorized
  <2>2. CASE \E e \in Cached(k) : e.token = t
    <3>1. Entries' = Entries \ Cached(k)
      BY <2>1, <2>2, Shrinks DEF Drop
    <3>2. \A e \in Cached(k) : e.token = t
      BY <2>2, Before DEF Cached
    <3>. QED  BY <2>1, <3>1, <3>2 DEF EntriesLeaveForCause
  <2>3. CASE ~\E e \in Cached(k) : e.token = t
    BY <1>1, <2>1, <2>3 DEF Drop
  <2>. QED  BY <2>2, <2>3
<1>4. ASSUME NEW f \in Flight, Land(f) PROVE EntriesLeaveForCause
  <2>. DEFINE k == flight[f].key
              t == flight[f].token
              new == [key |-> k, token |-> t]
  <2>1. CASE flights[k] = f /\ t # NoToken /\ ~flight[f].over
    <3>1. cache' = Append(Room, new) /\ flight[f].phase \in Active
      BY <1>4, <2>1 DEF Land, Active
    <3>2. /\ k \in TokenKey /\ flight[f] \in FlightStates /\ None \notin Flight
          /\ t \notin Public
      BY <2>1, <3>1, Before, ProviderAssumption DEF ProviderInv, FlightSound, OwnToken
    <3>3. new \in Entry /\ new.key = k /\ new.token = t
      BY <2>1, <3>2 DEF Entry, FlightStates
    <3>4. Cached(k) = {}
      BY <2>1, <3>2 DEF Cached, ProviderInv, EntriesSound
    <3>. HIDE DEF new
    <3>5. new \in Entries' /\ (Len(cache) # MaxEntries => Entries \subseteq Entries')
      BY <3>1, <3>3, <3>4, Landed
    <3>6. new \notin Entries
      BY <3>2, <3>3 DEF Public
    <3>. QED  BY <3>5, <3>6 DEF EntriesLeaveForCause
  <2>2. CASE ~(flights[k] = f /\ t # NoToken /\ ~flight[f].over)
    BY <1>1, <1>4, <2>2 DEF Land
  <2>. QED  BY <2>1, <2>2
<1>5. ASSUME NEW c \in Caller,
             \/ BeginCall(c) \/ SecondAttempt(c) \/ Leave(c) \/ FlightReturns(c)
             \/ Execute(c) \/ Finish(c)
      PROVE  EntriesLeaveForCause
  <2>1. CASE BeginCall(c) \/ SecondAttempt(c)
    BY <1>2, <2>1 DEF BeginCall, SecondAttempt
  <2>2. CASE Leave(c) \/ FlightReturns(c) \/ Execute(c) \/ Finish(c)
    BY <1>1, <2>2 DEF Leave, FlightReturns, Execute, Finish
  <2>. QED  BY <1>5, <2>1, <2>2
<1>6. ASSUME NEW f \in Flight, Issue(f) \/ Fetch(f) \/ FetchFails(f) \/ Deadline(f)
      PROVE  EntriesLeaveForCause
  BY <1>1, <1>6 DEF Issue, Fetch, FetchFails, Deadline
<1>7. ProviderTick => EntriesLeaveForCause
  BY <1>1 DEF ProviderTick
<1>. QED  BY <1>3, <1>4, <1>5, <1>6, <1>7 DEF ProviderNext

\* A key has one entry or one flight, whoever waits is served, nobody is given a token
\* that was rejected before, the client's lifetimes are no longer than the server's,
\* no call is carried out twice, and an entry leaves the cache only for cause
\* (Provider.token, invalidate, acquire, fetch; Client.do).
THEOREM KeepsOrder == ProviderSpec => TokensKeptInOrder
<1>1. ProviderInv => /\ ProviderTypeOK /\ EntryOrFlight /\ NobodyStranded
                     /\ RejectedNotReturned /\ LifetimeNotInflated /\ CarriedOutOnce
  BY Follows
<1>. QED  BY <1>1, InitHolds, StepHolds, LeaveForCause, PTL DEF ProviderSpec, TokensKeptInOrder

-----------------------------------------------------------------------------
(* Key sets.                                                               *)
(*                                                                         *)
(* The argument: a cached key was published when its set was asked for, so *)
(* it is no older than the set and one exchange; and whoever was not       *)
(* disturbed since its last look still sees the set it looked at.          *)

\* How long the keys that somebody holds have been out of the published set.
KeysAged ==
  /\ \A k \in published : retired[k] = 0
  /\ sinceFetch < TTL => \A k \in byKID : retired[k] <= sinceFetch + Exchange
  /\ \A v \in Verifier : lookup[v].phase = "answered" =>
       \A k \in lookup[v].answer : retired[k] <= lookup[v].age

\* What a goroutine that nobody disturbed knows of the cached set.
LooksHold ==
  \A v \in Verifier : ~lookup[v].torn =>
    /\ lookup[v].phase = "looked" /\ lookup[v].found # NoKid => lookup[v].found \in byKID
    /\ lookup[v].phase = "stored" => lookup[v].answer = byKID

KeySetInv == KeySetTypeOK /\ KeysAged /\ LooksHold

LEMMA KeyFound ==
  ASSUME KeySetTypeOK, NEW kid \in Kid \cup {NoKid}
  PROVE  /\ FoundKey(kid) # NoKid => FoundKey(kid) \in byKID
         /\ FoundKey(kid) \in Kid \cup {NoKid}
         /\ FoundKey(kid) = NoKid =>
              IF kid = NoKid THEN Cardinality(byKID) # 1 ELSE kid \notin byKID
<1>1. NoKid \notin Kid /\ byKID \subseteq Kid
  BY KeySetAssumption DEF KeySetTypeOK
<1>2. Cardinality(byKID) = 1 => (CHOOSE k \in byKID : TRUE) \in byKID
  BY FS_EmptySet
<1>. QED  BY <1>1, <1>2 DEF FoundKey

LEMMA NoLookupTypes ==
  NoLookup \in LookupStates /\ NoLookup.phase = "idle" /\ NoLookup.torn = FALSE
<1>1. 0 \in 0..Exchange
  BY KeySetAssumption
<1>. QED  BY <1>1 DEF NoLookup, LookupStates

LEMMA LookupEnds ==
  ASSUME NEW p \in {"served", "missing"}
  PROVE  LET a == [NoLookup EXCEPT !.phase = p] IN a \in LookupStates /\ a.phase = p
BY NoLookupTypes DEF NoLookup, LookupStates

LEMMA LookupAsks ==
  ASSUME NEW p \in {"asking", "failed"}, NEW kid \in Kid \cup {NoKid}
  PROVE  LET a == [NoLookup EXCEPT !.phase = p, !.kid = kid]
         IN  a \in LookupStates /\ a.phase = p
BY NoLookupTypes DEF NoLookup, LookupStates

LEMMA LookupLooks ==
  ASSUME NEW kid \in Kid \cup {NoKid}, NEW found \in Kid \cup {NoKid}
  PROVE  LET a == [NoLookup EXCEPT !.phase = "looked", !.kid = kid, !.found = found]
         IN  a \in LookupStates /\ a.phase = "looked" /\ a.found = found
BY NoLookupTypes DEF NoLookup, LookupStates

LEMMA LookupAnswered ==
  ASSUME NEW a \in LookupStates, NEW keys \in SUBSET Kid
  PROVE  LET b == [a EXCEPT !.phase = "answered", !.answer = keys]
         IN  b \in LookupStates /\ b.phase = "answered" /\ b.answer = keys /\ b.age = a.age
BY DEF LookupStates

LEMMA LookupStored ==
  ASSUME NEW a \in LookupStates
  PROVE  LET b == [a EXCEPT !.phase = "stored", !.age = 0]
         IN  b \in LookupStates /\ b.phase = "stored" /\ b.answer = a.answer /\ b.torn = a.torn
BY KeySetAssumption, 0 \in 0..Exchange DEF LookupStates

LEMMA LookupTorn ==
  ASSUME NEW a \in LookupStates, NEW t \in BOOLEAN
  PROVE  LET b == [a EXCEPT !.torn = t]
         IN  /\ b \in LookupStates /\ b.phase = a.phase /\ b.answer = a.answer
             /\ b.age = a.age /\ b.torn = t
BY DEF LookupStates

LEMMA LookupAges ==
  ASSUME NEW a \in LookupStates, a.age < Exchange
  PROVE  LET b == [a EXCEPT !.age = @ + 1]
         IN  /\ b \in LookupStates /\ b.phase = a.phase /\ b.answer = a.answer
             /\ b.age = a.age + 1 /\ b.torn = a.torn /\ b.found = a.found
<1>1. a.age + 1 \in 0..Exchange
  BY KeySetAssumption DEF LookupStates
<1>. QED  BY <1>1 DEF LookupStates

LEMMA KeySetBegins == KeySetInit => KeySetInv
<1>. SUFFICES ASSUME KeySetInit PROVE KeySetInv
  OBVIOUS
<1>1. /\ published \subseteq Kid /\ byKID = {} /\ sinceFetch = TTL
      /\ retired = [k \in Kid |-> IF k \in published THEN 0 ELSE Forgotten]
      /\ lookup = [v \in Verifier |-> NoLookup]
  BY DEF KeySetInit
<1>2. 0 \in 0..Forgotten /\ Forgotten \in 0..Forgotten /\ TTL \in 0..TTL
  BY KeySetAssumption DEF Forgotten
<1>3. KeySetTypeOK
  BY <1>1, <1>2, NoLookupTypes DEF KeySetTypeOK
<1>4. KeysAged /\ LooksHold
  BY <1>1, NoLookupTypes, KeySetAssumption DEF KeysAged, LooksHold
<1>. QED  BY <1>3, <1>4 DEF KeySetInv

\* A goroutine takes a step of its own that leaves the cached set alone.
LEMMA LookupStep ==
  ASSUME KeySetInv, NEW v \in Verifier, NEW a \in LookupStates,
         lookup' = [lookup EXCEPT ![v] = a],
         UNCHANGED <<published, retired, byKID, sinceFetch>>,
         a.phase # "stored",
         a.phase = "looked" /\ a.found # NoKid => a.found \in byKID,
         a.phase = "answered" => \A k \in a.answer : retired[k] <= a.age
  PROVE  KeySetInv'
<1>1. /\ lookup' \in [Verifier -> LookupStates]
      /\ \A w \in Verifier : lookup'[w] = IF w = v THEN a ELSE lookup[w]
  BY DEF KeySetInv, KeySetTypeOK
<1>2. KeySetTypeOK'
  BY <1>1 DEF KeySetInv, KeySetTypeOK
<1>3. KeysAged'
  BY <1>1 DEF KeySetInv, KeysAged
<1>4. LooksHold'
  BY <1>1 DEF KeySetInv, LooksHold
<1>. QED  BY <1>2, <1>3, <1>4 DEF KeySetInv

LEMMA LookKeeps ==
  ASSUME KeySetInv, NEW v \in Verifier,
         Look(v) \/ CheckFresh(v) \/ PlatformAnswers(v) \/ RefreshFails(v) \/ LookAgain(v)
  PROVE  KeySetInv'
<1>1. lookup[v] \in LookupStates /\ KeySetTypeOK /\ lookup[v].kid \in Kid \cup {NoKid}
  BY DEF KeySetInv, KeySetTypeOK, LookupStates
<1>2. ASSUME NEW p \in {"served", "missing"}, LookupDone(v, p),
             UNCHANGED <<published, retired, byKID, sinceFetch>>
      PROVE  KeySetInv'
  <2>. DEFINE a == [NoLookup EXCEPT !.phase = p]
  <2>1. lookup' = [lookup EXCEPT ![v] = a] /\ a \in LookupStates /\ a.phase = p
    BY <1>2, LookupEnds DEF LookupDone
  <2>. HIDE DEF a
  <2>. QED  BY <1>2, <2>1, LookupStep
<1>3. ASSUME NEW p \in {"asking", "failed"}, UNCHANGED <<published, retired, byKID, sinceFetch>>,
             lookup' = [lookup EXCEPT ![v] = [NoLookup EXCEPT !.phase = p, !.kid = lookup[v].kid]]
      PROVE  KeySetInv'
  <2>. DEFINE a == [NoLookup EXCEPT !.phase = p, !.kid = lookup[v].kid]
  <2>1. lookup' = [lookup EXCEPT ![v] = a] /\ a \in LookupStates /\ a.phase = p
    BY <1>1, <1>3, LookupAsks
  <2>. HIDE DEF a
  <2>. QED  BY <1>3, <2>1, LookupStep
<1>4. CASE Look(v)
  <2>1. PICK kid \in Kid \cup {NoKid} :
          lookup' = [lookup EXCEPT ![v] =
            [NoLookup EXCEPT !.phase = "looked", !.kid = kid, !.found = FoundKey(kid)]]
    BY <1>4 DEF Look
  <2>. DEFINE found == FoundKey(kid)
              a == [NoLookup EXCEPT !.phase = "looked", !.kid = kid, !.found = found]
  <2>2. found \in Kid \cup {NoKid} /\ (found # NoKid => found \in byKID)
    BY <1>1, KeyFound
  <2>3. lookup' = [lookup EXCEPT ![v] = a]
    BY <2>1
  <2>. HIDE DEF found
  <2>4. a \in LookupStates /\ a.phase = "looked" /\ a.found = found
    BY <2>2, LookupLooks
  <2>. HIDE DEF a
  <2>. QED  BY <1>4, <2>2, <2>3, <2>4, LookupStep DEF Look
<1>5. CASE CheckFresh(v)
  BY <1>2, <1>3, <1>5 DEF CheckFresh
<1>6. CASE PlatformAnswers(v)
  <2>. DEFINE a == [lookup[v] EXCEPT !.phase = "answered", !.answer = published]
  <2>1. lookup' = [lookup EXCEPT ![v] = a] /\ published \in SUBSET Kid
    BY <1>1, <1>6 DEF PlatformAnswers, KeySetTypeOK
  <2>2. a \in LookupStates /\ a.phase = "answered" /\ a.answer = published /\ a.age = lookup[v].age
    BY <1>1, <2>1, LookupAnswered, Zenon
  <2>. HIDE DEF a
  <2>3. \A k \in a.answer : retired[k] <= a.age
    BY <1>1, <2>2 DEF KeySetInv, KeysAged, LookupStates
  <2>. QED  BY <1>6, <2>1, <2>2, <2>3, LookupStep DEF PlatformAnswers
<1>7. CASE RefreshFails(v)
  BY <1>3, <1>7 DEF RefreshFails
<1>8. CASE LookAgain(v)
  BY <1>2, <1>8 DEF LookAgain
<1>. QED  BY <1>4, <1>5, <1>6, <1>7, <1>8

\* The end of a refresh: whoever has looked is disturbed, and the set is as old as the
\* exchange was long.
LEMMA StoreKeeps ==
  ASSUME KeySetInv, NEW v \in Verifier, Store(v)
  PROVE  KeySetInv'
<1>1. /\ lookup \in [Verifier -> LookupStates] /\ lookup[v].phase = "answered"
      /\ byKID' = lookup[v].answer /\ sinceFetch' = 0 /\ UNCHANGED <<published, retired>>
      /\ lookup' = [w \in Verifier |->
           IF w = v THEN [lookup[v] EXCEPT !.phase = "stored", !.age = 0]
           ELSE [lookup[w] EXCEPT !.torn = lookup[w].phase \in {"looked", "stored"}]]
  BY DEF Store, KeySetInv, KeySetTypeOK
<1>2. /\ lookup'[v] \in LookupStates /\ lookup'[v].phase = "stored"
      /\ lookup'[v].answer = lookup[v].answer
  <2>1. lookup'[v] = [lookup[v] EXCEPT !.phase = "stored", !.age = 0]
    BY <1>1
  <2>. QED  BY <1>1, <2>1, LookupStored
<1>3. ASSUME NEW w \in Verifier, w # v
      PROVE  /\ lookup'[w] \in LookupStates /\ lookup'[w].phase = lookup[w].phase
             /\ lookup'[w].answer = lookup[w].answer /\ lookup'[w].age = lookup[w].age
             /\ lookup[w].phase \in {"looked", "stored"} => lookup'[w].torn
  <2>. DEFINE t == lookup[w].phase \in {"looked", "stored"}
  <2>1. lookup'[w] = [lookup[w] EXCEPT !.torn = t] /\ t \in BOOLEAN /\ lookup[w] \in LookupStates
    BY <1>1, <1>3
  <2>2. t => (lookup[w].phase \in {"looked", "stored"}) /\ (lookup[w].phase \in {"looked", "stored"} => t)
    OBVIOUS
  <2>. HIDE DEF t
  <2>3. /\ lookup'[w] \in LookupStates /\ lookup'[w].phase = lookup[w].phase
        /\ lookup'[w].answer = lookup[w].answer /\ lookup'[w].age = lookup[w].age
        /\ lookup'[w].torn = t
    BY <2>1, LookupTorn
  <2>. QED  BY <2>3 DEF t
<1>4. lookup[v].answer \subseteq Kid /\ lookup[v].age \in 0..Exchange
  BY <1>1 DEF LookupStates
<1>5. KeySetTypeOK'
  <2>1. lookup' \in [Verifier -> LookupStates]
    BY <1>1, <1>2, <1>3
  <2>. QED  BY <1>1, <1>4, <2>1, KeySetAssumption DEF KeySetInv, KeySetTypeOK
<1>6. KeysAged'
  <2>1. \A k \in byKID' : retired[k] <= sinceFetch' + Exchange
    <3>1. \A k \in byKID' : retired[k] <= lookup[v].age /\ retired[k] \in Nat
      BY <1>1, <1>4 DEF KeySetInv, KeysAged, KeySetTypeOK, Forgotten
    <3>. QED  BY <1>1, <1>4, <3>1, KeySetAssumption
  <2>2. \A w \in Verifier : lookup'[w].phase = "answered" =>
          \A k \in lookup'[w].answer : retired[k] <= lookup'[w].age
    BY <1>2, <1>3 DEF KeySetInv, KeysAged
  <2>. QED  BY <1>1, <2>1, <2>2 DEF KeySetInv, KeysAged
<1>7. LooksHold'
  BY <1>1, <1>2, <1>3 DEF LooksHold
<1>. QED  BY <1>5, <1>6, <1>7 DEF KeySetInv

LEMMA RotateKeeps ==
  ASSUME KeySetInv, Rotate
  PROVE  KeySetInv'
<1>1. /\ published' \subseteq Kid /\ UNCHANGED <<byKID, sinceFetch, lookup>>
      /\ retired' = [k \in Kid |-> IF k \in published \cup published' THEN 0 ELSE retired[k]]
  BY DEF Rotate
<1>2. /\ retired \in [Kid -> 0..Forgotten] /\ Forgotten \in Nat
      /\ sinceFetch \in 0..TTL /\ byKID \subseteq Kid
      /\ \A v \in Verifier : lookup[v].answer \subseteq Kid /\ lookup[v].age \in 0..Exchange
  BY KeySetAssumption DEF KeySetInv, KeySetTypeOK, LookupStates, Forgotten
<1>3. \A k \in Kid : retired'[k] \in 0..Forgotten /\ retired'[k] <= retired[k]
  BY <1>1, <1>2
<1>4. KeySetTypeOK'
  BY <1>1, <1>2, <1>3 DEF KeySetInv, KeySetTypeOK
<1>5. KeysAged'
  <2>1. \A k \in published' : retired'[k] = 0
    BY <1>1
  <2>2. sinceFetch < TTL => \A k \in byKID : retired'[k] <= sinceFetch + Exchange
    BY <1>2, <1>3, KeySetAssumption DEF KeySetInv, KeysAged
  <2>3. \A v \in Verifier : lookup[v].phase = "answered" =>
          \A k \in lookup[v].answer : retired'[k] <= lookup[v].age
    BY <1>2, <1>3 DEF KeySetInv, KeysAged
  <2>. QED  BY <1>1, <2>1, <2>2, <2>3 DEF KeysAged
<1>6. LooksHold'
  BY <1>1 DEF KeySetInv, LooksHold
<1>. QED  BY <1>4, <1>5, <1>6 DEF KeySetInv

LEMMA AgeKeeps ==
  ASSUME KeySetInv, KeySetTick
  PROVE  KeySetInv'
<1>1. /\ \A v \in Verifier : Exchanging(v) => lookup[v].age < Exchange
      /\ lookup' = [v \in Verifier |->
           IF Exchanging(v) THEN [lookup[v] EXCEPT !.age = @ + 1] ELSE lookup[v]]
      /\ sinceFetch' = IF sinceFetch < TTL THEN sinceFetch + 1 ELSE TTL
      /\ retired' = [k \in Kid |-> IF k \in published THEN 0
                     ELSE IF retired[k] < Forgotten THEN retired[k] + 1 ELSE Forgotten]
      /\ UNCHANGED <<published, byKID>>
  BY DEF KeySetTick
<1>2. /\ retired \in [Kid -> 0..Forgotten] /\ Forgotten \in Nat /\ published \subseteq Kid
      /\ sinceFetch \in 0..TTL /\ byKID \subseteq Kid /\ TTL \in Nat /\ Exchange \in Nat
      /\ \A v \in Verifier : /\ lookup[v] \in LookupStates
                             /\ lookup[v].answer \subseteq Kid /\ lookup[v].age \in 0..Exchange
  BY KeySetAssumption DEF KeySetInv, KeySetTypeOK, LookupStates, Forgotten
<1>3. \A k \in Kid : retired'[k] \in 0..Forgotten /\ retired'[k] <= retired[k] + 1
  BY <1>1, <1>2
<1>4. ASSUME NEW v \in Verifier
      PROVE  /\ lookup'[v] \in LookupStates /\ lookup'[v].phase = lookup[v].phase
             /\ lookup'[v].answer = lookup[v].answer /\ lookup'[v].torn = lookup[v].torn
             /\ lookup'[v].found = lookup[v].found
             /\ lookup[v].phase = "answered" => lookup'[v].age = lookup[v].age + 1
  <2>1. CASE Exchanging(v)
    <3>1. lookup'[v] = [lookup[v] EXCEPT !.age = @ + 1] /\ lookup[v].age < Exchange
      BY <1>1, <2>1
    <3>. QED  BY <1>2, <3>1, LookupAges
  <2>2. CASE ~Exchanging(v)
    BY <1>1, <1>2, <2>2 DEF Exchanging
  <2>. QED  BY <2>1, <2>2
<1>5. KeySetTypeOK'
  <2>1. lookup' \in [Verifier -> LookupStates]
    BY <1>1, <1>4
  <2>2. retired' \in [Kid -> 0..Forgotten] /\ sinceFetch' \in 0..TTL
    BY <1>1, <1>2, <1>3
  <2>. QED  BY <1>1, <1>2, <2>1, <2>2 DEF KeySetTypeOK
<1>6. KeysAged'
  <2>1. \A k \in published' : retired'[k] = 0
    BY <1>1, <1>2
  <2>2. ASSUME sinceFetch' < TTL, NEW k \in byKID PROVE retired'[k] <= sinceFetch' + Exchange
    <3>1. sinceFetch' = sinceFetch + 1 /\ sinceFetch < TTL
      BY <1>1, <1>2, <2>2
    <3>2. retired[k] <= sinceFetch + Exchange /\ retired[k] \in Nat
      BY <1>2, <3>1 DEF KeySetInv, KeysAged
    <3>. QED  BY <1>2, <1>3, <3>1, <3>2
  <2>3. ASSUME NEW v \in Verifier, lookup'[v].phase = "answered", NEW k \in lookup'[v].answer
        PROVE  retired'[k] <= lookup'[v].age
    <3>1. retired[k] <= lookup[v].age /\ k \in Kid /\ retired[k] \in Nat
      BY <1>2, <1>4, <2>3 DEF KeySetInv, KeysAged
    <3>. QED  BY <1>2, <1>3, <1>4, <2>3, <3>1
  <2>. QED  BY <1>1, <2>1, <2>2, <2>3 DEF KeysAged
<1>7. LooksHold'
  BY <1>1, <1>4 DEF KeySetInv, LooksHold
<1>. QED  BY <1>5, <1>6, <1>7 DEF KeySetInv

LEMMA KeySetStep == KeySetInv /\ [KeySetNext]_keySetVars => KeySetInv'
<1>. SUFFICES ASSUME KeySetInv, [KeySetNext]_keySetVars PROVE KeySetInv'
  OBVIOUS
<1>1. CASE UNCHANGED keySetVars
  BY <1>1 DEF keySetVars, KeySetInv, KeySetTypeOK, KeysAged, LooksHold
<1>. QED  BY <1>1, LookKeeps, StoreKeeps, RotateKeeps, AgeKeeps DEF KeySetNext

\* A lookup is over only by a step of its own.
LEMMA OwnEnd ==
  ASSUME KeySetInv, KeySetNext, NEW v \in Verifier, lookup[v].phase \in {"looked", "stored"},
         lookup'[v].phase \in {"served", "missing"}
  PROVE  CheckFresh(v) \/ LookAgain(v)
<1>. SUFFICES ASSUME ~CheckFresh(v), ~LookAgain(v) PROVE FALSE
  OBVIOUS
<1>1. lookup \in [Verifier -> LookupStates]
  BY DEF KeySetInv, KeySetTypeOK
<1>2. ASSUME NEW w \in Verifier, w # v,
             \/ Look(w) \/ CheckFresh(w) \/ PlatformAnswers(w) \/ RefreshFails(w) \/ LookAgain(w)
      PROVE  FALSE
  BY <1>1, <1>2 DEF Look, CheckFresh, PlatformAnswers, RefreshFails, LookAgain, LookupDone
<1>3. ASSUME NEW w \in Verifier, Store(w) PROVE FALSE
  <2>1. w # v
    BY <1>3 DEF Store
  <2>. DEFINE t == lookup[v].phase \in {"looked", "stored"}
  <2>2. lookup'[v] = [lookup[v] EXCEPT !.torn = t] /\ t \in BOOLEAN
    BY <1>3, <2>1 DEF Store
  <2>. HIDE DEF t
  <2>3. lookup'[v].phase = lookup[v].phase
    BY <1>1, <2>2, LookupTorn
  <2>. QED  BY <2>3
<1>4. Look(v) \/ PlatformAnswers(v) \/ RefreshFails(v) => FALSE
  BY DEF Look, PlatformAnswers, RefreshFails
<1>5. Rotate => FALSE
  BY DEF Rotate
<1>6. KeySetTick => FALSE
  BY <1>1 DEF KeySetTick, Exchanging
<1>. QED  BY <1>2, <1>3, <1>4, <1>5, <1>6 DEF KeySetNext

\* Who serves or misses a key does it for cause.
LEMMA KeySetServes ==
  KeySetInv /\ [KeySetNext]_keySetVars => [ServedRecently /\ MissedForCause]_keySetVars
<1>. SUFFICES ASSUME KeySetInv, KeySetNext PROVE ServedRecently /\ MissedForCause
  OBVIOUS
<1>1. /\ lookup \in [Verifier -> LookupStates] /\ KeySetTypeOK
      /\ \A v \in Verifier : lookup[v].kid \in Kid \cup {NoKid}
  BY DEF KeySetInv, KeySetTypeOK, LookupStates
<1>2. ASSUME NEW v \in Verifier, ~lookup[v].torn,
             lookup[v].phase = "looked", lookup'[v].phase = "served"
      PROVE  retired[lookup[v].found] < TTL + Exchange
  <2>1. CheckFresh(v)
    BY <1>2, OwnEnd DEF LookAgain
  <2>2. lookup[v].found # NoKid /\ Fresh
    <3>1. SUFFICES ASSUME ~(lookup[v].found # NoKid /\ Fresh) PROVE FALSE
      OBVIOUS
    <3>2. lookup'[v] = [NoLookup EXCEPT !.phase = "asking", !.kid = lookup[v].kid]
      BY <1>1, <2>1, <3>1 DEF CheckFresh
    <3>3. lookup'[v].phase = "asking"
      BY <1>1, <3>2, LookupAsks
    <3>. QED  BY <1>2, <3>3
  <2>3. lookup[v].found \in byKID
    BY <1>2, <2>2 DEF KeySetInv, LooksHold
  <2>4. retired[lookup[v].found] <= sinceFetch + Exchange
    BY <2>2, <2>3 DEF KeySetInv, KeysAged, Fresh
  <2>5. retired[lookup[v].found] \in Nat /\ sinceFetch \in Nat
    BY <1>1, <2>3, KeySetAssumption DEF KeySetTypeOK, Forgotten
  <2>. QED  BY <2>2, <2>4, <2>5, KeySetAssumption DEF Fresh
<1>3. ASSUME NEW v \in Verifier, ~lookup[v].torn,
             lookup[v].phase = "stored", lookup'[v].phase = "missing"
      PROVE  IF lookup[v].kid = NoKid THEN Cardinality(lookup[v].answer) # 1
             ELSE lookup[v].kid \notin lookup[v].answer
  <2>1. LookAgain(v)
    BY <1>3, OwnEnd DEF CheckFresh
  <2>2. FoundKey(lookup[v].kid) = NoKid
    <3>1. SUFFICES ASSUME FoundKey(lookup[v].kid) # NoKid PROVE FALSE
      OBVIOUS
    <3>2. lookup'[v] = [NoLookup EXCEPT !.phase = "served"]
      BY <1>1, <2>1, <3>1 DEF LookAgain, LookupDone
    <3>3. lookup'[v].phase = "served"
      BY <3>2, LookupEnds
    <3>. QED  BY <1>3, <3>3
  <2>3. lookup[v].answer = byKID
    BY <1>3 DEF KeySetInv, LooksHold
  <2>. QED  BY <1>1, <2>2, <2>3, KeyFound
<1>. QED  BY <1>2, <1>3 DEF ServedRecently, MissedForCause, Serves

\* Whatever the keys, the ttl and the longest exchange: a key is served from the cache
\* only while it is recent, and missed only for cause (sign/jwks.go, KeySet.Key).
THEOREM ServesForCause == KeySetSpec => KeysServedForCause
<1>1. KeySetSpec => []KeySetInv
  BY KeySetBegins, KeySetStep, PTL DEF KeySetSpec
<1>2. KeySetInv => KeySetTypeOK
  BY DEF KeySetInv
<1>3. KeySetSpec => [][ServedRecently /\ MissedForCause]_keySetVars
  BY <1>1, KeySetServes, PTL DEF KeySetSpec
<1>. QED  BY <1>1, <1>2, <1>3, PTL DEF KeysServedForCause

-----------------------------------------------------------------------------
(* Calls and tokens.                                                       *)
(*                                                                         *)
(* The argument: a credential says when it was made, to the second, and for*)
(* what; so a check that it passes by one clock bounds its age by the      *)
(* other.  What a call brought stays what was sent last until all calls    *)
(* have ended, so that what was checked when it came still holds when it   *)
(* ends.                                                                   *)

SignedCall == [kind : Endpoints, stamp : Nat, made : Nat, asked : ValuesRequest,
               signed : [domain : {"lifecycle", "none"}, stamp : Nat]]
SentToken == [kind : Tokens, ours : BOOLEAN, from : Nat, expires : Nat, made : Nat]

\* What was sent at its time is as the platform makes it.
CredentialSound(x, time) ==
  \/ x = NoCredential
  \/ /\ x \in SignedCall /\ x.made <= time
     /\ x.stamp = Unix(x.made) /\ x.signed = SignedText(x.kind, x.stamp)
  \/ /\ x \in SentToken /\ x.made <= time
     /\ x.from = Unix(x.made) /\ x.expires > x.from
     /\ x.kind = "mcp" => x.from >= 1 /\ x.expires - x.from <= MaxLife

Answer == [count : Int, cursor : Cursors]
InboundStates ==
  [phase : {"handling"}, endpoint : Endpoints, at : Nat]
    \cup [phase : {"introspecting"}, endpoint : {"resource"}, at : Nat, stale : BOOLEAN]
    \cup [phase : {"answered"}, endpoint : {"resource"}, at : Nat, stale : BOOLEAN,
          active : BOOLEAN]
    \cup [phase : {"done"}, endpoint : Endpoints \cup Tokens, status : Nat, at : Nat,
          answer : Answer, stale : BOOLEAN]

InTime(at, x) ==
  CASE x.kind \in Endpoints -> at - x.made <= Ticks(Window) + Skew
    [] x.kind = "console" -> at <= Ticks(x.expires) + Ticks(ConsoleLeeway) + Skew
    [] OTHER -> at < Ticks(x.expires) + Skew

Meant(endpoint, x) ==
  IF endpoint \in Tokens THEN x.kind = endpoint /\ x.ours
  ELSE (endpoint = "lifecycle") = (x.kind = "lifecycle")

\* A call c that brought the credential x, by the time given: taken in for cause, and
\* what its handler or the introspection goes by still holds.
InboundSound(c, x, time, gone, taken) ==
  \/ c = NotCalled
  \/ /\ x # NoCredential /\ c \in InboundStates /\ c.at \in x.made..time
     /\ TakenIn(c) => InTime(c.at, x) /\ Meant(c.endpoint, x)
     /\ c.phase = "handling" => x \in SignedCall
     /\ c.phase \in {"introspecting", "answered"} => x \in SentToken
     /\ c.phase = "introspecting" /\ c.stale => gone
     /\ c.phase = "answered" /\ c.stale => ~c.active
     /\ c.phase = "done" /\ c.endpoint = "resource" /\ c.status = 200 => ~c.stale
     /\ c.phase = "handling" /\ c.endpoint = "values" => ValidAsked(x.asked)
     /\ c.phase = "done" /\ c.endpoint = "values" /\ c.status = 200 =>
          x \in SignedCall /\ ValidAsked(x.asked) /\ ValidAnswer(x.asked, c.answer)
     /\ c.phase = "done" /\ c.endpoint = "sync" /\ c.status = 200 => taken

VerificationInv ==
  /\ now \in Skew..MaxTime /\ offset \in (-Skew)..Skew
  /\ withdrawn \in BOOLEAN /\ synced \in BOOLEAN
  /\ withdrawn => credential.kind = "resource"
  /\ CredentialSound(credential, now)
  /\ DOMAIN inbound = Delivery
  /\ \A d \in Delivery : InboundSound(inbound[d], credential, now, withdrawn, synced)

-----------------------------------------------------------------------------
(* The clocks. *)

LEMMA Bounds ==
  /\ Window \in Nat /\ ConsoleLeeway \in Nat /\ McpLead \in Nat /\ MaxLife \in Nat
  /\ MaxItems \in Nat /\ MaxValues \in Nat /\ Skew \in Nat /\ MaxTime \in Nat
  /\ Skew <= MaxTime
BY VerificationAssumption

LEMMA Halves ==
  ASSUME NEW t \in Nat
  PROVE  Unix(t) \in Nat /\ 2 * Unix(t) <= t /\ t <= 2 * Unix(t) + 1
BY DEF Unix

LEMMA TwoClocks ==
  ASSUME VerificationInv
  PROVE  /\ now \in Nat /\ Skew \in Nat /\ Local \in Nat
         /\ Local <= now + Skew /\ now <= Local + Skew
BY Bounds DEF VerificationInv, Local

\* A signature that is accepted was made lately, for this kind of endpoint.
LEMMA SignedInTime ==
  ASSUME VerificationInv, NEW endpoint \in Endpoints, VerifySigned(credential, endpoint)
  PROVE  credential \in SignedCall /\ InTime(now, credential) /\ Meant(endpoint, credential)
<1>1. credential.kind \in Endpoints /\ credential \in SignedCall
  <2>1. credential.kind \in Endpoints
    BY DEF VerifySigned
  <2>2. credential # NoCredential /\ credential \notin SentToken
    BY <2>1 DEF Endpoints, Tokens, NoCredential, SentToken
  <2>. QED  BY <2>1, <2>2 DEF VerificationInv, CredentialSound
<1>2. PICK x \in SignedCall : x = credential
  BY <1>1
<1>3. x \notin SentToken /\ x # NoCredential
  BY DEF SignedCall, SentToken, Endpoints, Tokens, NoCredential
<1>4. /\ x.stamp = Unix(x.made) /\ x.signed = SignedText(x.kind, x.stamp)
      /\ x.made \in Nat /\ x.stamp \in Nat /\ x.made <= now
  BY <1>2, <1>3 DEF VerificationInv, CredentialSound, SignedCall
<1>5. Local - 2 * x.stamp <= 2 * Window /\ x.signed = SignedText(endpoint, x.stamp)
  BY <1>2, <1>4, TwoClocks, Bounds DEF VerifySigned, CheckTimestamp, Ticks
<1>6. 2 * x.stamp <= x.made
  BY <1>4, Halves
<1>7. now - x.made <= 2 * Window + Skew
  BY <1>4, <1>5, <1>6, TwoClocks, Bounds
<1>8. (endpoint = "lifecycle") = (x.kind = "lifecycle")
  BY <1>4, <1>5 DEF SignedText
<1>9. endpoint \notin Tokens /\ credential.kind # "console"
  BY <1>1 DEF Endpoints, Tokens
<1>10. InTime(now, credential)
  BY <1>1, <1>2, <1>7, <1>9 DEF InTime, Ticks
<1>. QED  BY <1>1, <1>2, <1>8, <1>9, <1>10 DEF Meant

\* What a token is.
LEMMA TokenIs ==
  ASSUME VerificationInv, credential.kind \in Tokens
  PROVE  /\ credential \in SentToken /\ credential.made <= now
         /\ credential.from = Unix(credential.made) /\ credential.expires > credential.from
         /\ credential.made \in Nat /\ credential.from \in Nat /\ credential.expires \in Nat
         /\ credential.kind = "mcp" =>
              credential.from >= 1 /\ credential.expires - credential.from <= MaxLife
<1>1. credential \notin SignedCall /\ credential # NoCredential
  BY DEF SignedCall, Endpoints, Tokens, NoCredential
<1>2. credential \in SentToken
  BY <1>1 DEF VerificationInv, CredentialSound
<1>3. credential.made \in Nat /\ credential.from \in Nat /\ credential.expires \in Nat
  BY <1>2 DEF SentToken
<1>. QED  BY <1>1, <1>2, <1>3 DEF VerificationInv, CredentialSound

LEMMA TokensInTime ==
  ASSUME VerificationInv, credential.kind \in Tokens,
         \/ VerifyConsole(credential) \/ VerifyMcp(credential)
         \/ DecodeIntrospection(credential, TRUE) = "accepted"
  PROVE  InTime(now, credential) /\ credential.ours
<1>1. credential.kind \notin Endpoints
  BY DEF Endpoints, Tokens
<1>2. CASE VerifyConsole(credential)
  <2>1. PICK e \in Nat : e = credential.expires
    BY TokenIs
  <2>2. Local <= 2 * e + 2 * ConsoleLeeway
    BY <1>2, <2>1 DEF VerifyConsole, Ticks
  <2>3. now <= 2 * e + 2 * ConsoleLeeway + Skew
    BY <2>2, TwoClocks, Bounds
  <2>. QED  BY <1>1, <1>2, <2>1, <2>3 DEF VerifyConsole, InTime, Ticks
<1>3. CASE VerifyMcp(credential) \/ DecodeIntrospection(credential, TRUE) = "accepted"
  <2>1. PICK e \in Nat : e = credential.expires
    BY TokenIs
  <2>2. /\ credential.kind # "console" /\ credential.ours
        /\ e > Unix(Local) \/ ~(e <= Unix(Local))
    BY <1>3, <2>1 DEF VerifyMcp, ValidMcp, DecodeIntrospection
  <2>3. /\ Unix(Local) \in Nat /\ Local <= 2 * Unix(Local) + 1
    BY TwoClocks, Halves
  <2>4. Local < 2 * e
    BY <2>2, <2>3, TwoClocks
  <2>5. now < 2 * e + Skew
    BY <2>4, TwoClocks
  <2>. QED  BY <1>1, <2>1, <2>2, <2>5 DEF InTime, Ticks
<1>. QED  BY <1>2, <1>3

\* What comes whole and in time is accepted.
LEMMA AcceptsInTime ==
  ASSUME VerificationInv
  PROVE  InTimeIsAccepted
<1>1. CASE credential.kind \in Endpoints
  <2>. SUFFICES ASSUME now - credential.made + Skew < Ticks(Window)
                PROVE  VerifySigned(credential, credential.kind)
    BY <1>1 DEF InTimeIsAccepted
  <2>1. credential # NoCredential /\ credential \notin SentToken
    BY <1>1 DEF Endpoints, Tokens, NoCredential, SentToken
  <2>2. PICK x \in SignedCall : x = credential
    BY <2>1 DEF VerificationInv, CredentialSound
  <2>3. /\ x.stamp = Unix(x.made) /\ x.signed = SignedText(x.kind, x.stamp)
        /\ x.made \in Nat /\ x.stamp \in Nat /\ x.made <= now
    BY <2>1, <2>2 DEF VerificationInv, CredentialSound, SignedCall
  <2>4. 2 * x.stamp <= x.made /\ x.made <= 2 * x.stamp + 1
    BY <2>3, Halves
  <2>5. now - x.made + Skew < 2 * Window
    BY <2>2 DEF Ticks
  <2>6. Local - 2 * x.stamp \in (-(2 * Window))..(2 * Window)
    BY <2>3, <2>4, <2>5, TwoClocks, Bounds
  <2>. QED  BY <1>1, <2>2, <2>3, <2>6 DEF VerifySigned, CheckTimestamp, Ticks
<1>2. CASE credential.kind = "none"
  <2>1. "none" \notin Endpoints
    BY DEF Endpoints
  <2>. QED  BY <1>2, <2>1 DEF InTimeIsAccepted
<1>3. CASE credential.kind \in Tokens
  <2>. DEFINE x == credential
  <2>1. /\ x.kind \notin Endpoints /\ x.kind # "none"
        /\ x.kind \in {"console", "mcp", "resource"}
    BY <1>3 DEF Endpoints, Tokens
  <2>2. /\ x.made <= now /\ x.from = Unix(x.made) /\ x.expires > x.from
        /\ x.made \in Nat /\ x.from \in Nat /\ x.expires \in Nat
        /\ x.kind = "mcp" => x.from >= 1 /\ x.expires - x.from <= MaxLife
    BY <1>3, TokenIs
  <2>3. 2 * x.from <= x.made
    BY <2>2, Halves
  <2>4. PICK here \in Nat : here = Local
    BY TwoClocks
  <2>5. PICK h \in Nat : h = Unix(here)
    BY Halves
  <2>6. here <= now + Skew /\ now <= here + Skew /\ 2 * h <= here /\ here <= 2 * h + 1
    BY <2>4, <2>5, TwoClocks, Halves
  <2>7. ASSUME x.ours, now + Skew < Ticks(x.expires), x.kind = "console",
               Skew <= Ticks(ConsoleLeeway)
        PROVE  VerifyConsole(x)
    <3>1. x.expires # 0 /\ here <= 2 * x.expires + 2 * ConsoleLeeway
      BY <2>2, <2>6, <2>7, TwoClocks, Bounds DEF Ticks
    <3>2. here + 2 * ConsoleLeeway >= 2 * x.from
      BY <2>2, <2>3, <2>6, <2>7, TwoClocks, Bounds DEF Ticks
    <3>. QED  BY <2>4, <2>7, <3>1, <3>2 DEF VerifyConsole, Ticks
  <2>8. ASSUME x.ours, now + Skew < Ticks(x.expires), x.kind = "mcp", Skew <= Ticks(McpLead)
        PROVE  VerifyMcp(x)
    <3>1. here + 2 * McpLead \in Nat /\ here + 2 * McpLead >= x.made
      BY <2>2, <2>6, <2>8, TwoClocks, Bounds DEF Ticks
    <3>2. /\ Unix(here + 2 * McpLead) \in Nat
          /\ here + 2 * McpLead <= 2 * Unix(here + 2 * McpLead) + 1
      BY <3>1, Halves
    <3>3. x.from <= Unix(here + 2 * McpLead)
      BY <2>2, <2>3, <3>1, <3>2
    <3>4. x.expires > h
      BY <2>2, <2>6, <2>8, TwoClocks DEF Ticks
    <3>. QED  BY <2>2, <2>4, <2>5, <2>8, <3>3, <3>4 DEF VerifyMcp, ValidMcp, Ticks
  <2>9. ASSUME x.ours, now + Skew < Ticks(x.expires), x.kind = "resource",
               offset >= 0, x.from > 0, x.expires - x.from <= MaxLife
        PROVE  DecodeIntrospection(x, TRUE) = "accepted"
    <3>1. here >= now
      BY <2>4, <2>9, TwoClocks DEF Local, VerificationInv
    <3>2. x.from <= h
      BY <2>2, <2>3, <2>6, <3>1, TwoClocks
    <3>3. ~(x.expires <= h)
      BY <2>2, <2>6, <2>9, TwoClocks DEF Ticks
    <3>4. /\ ~(x.from <= 0) /\ ~(x.from > h)
          /\ ~(x.expires <= x.from) /\ ~(x.expires - x.from > MaxLife)
      BY <2>2, <2>9, <3>2, Bounds
    <3>. QED  BY <2>4, <2>5, <2>9, <3>3, <3>4 DEF DecodeIntrospection
  <2>. HIDE DEF x
  <2>. QED  BY <2>1, <2>7, <2>8, <2>9 DEF InTimeIsAccepted, x
<1>4. credential.kind \in Endpoints \cup Tokens \cup {"none"}
  BY DEF VerificationInv, CredentialSound, SignedCall, SentToken, NoCredential
<1>. QED  BY <1>1, <1>2, <1>3, <1>4

-----------------------------------------------------------------------------
(* The platform's steps. *)

\* A call keeps what it has while time passes and bearers are withdrawn.
LEMMA SoundLater ==
  ASSUME NEW c, NEW x, NEW time \in Nat, NEW later \in Nat, time <= later,
         x # NoCredential => x.made \in Nat,
         NEW gone \in BOOLEAN, NEW goneLater \in BOOLEAN, gone => goneLater,
         NEW taken \in BOOLEAN, NEW takenLater \in BOOLEAN, taken => takenLater,
         InboundSound(c, x, time, gone, taken)
  PROVE  InboundSound(c, x, later, goneLater, takenLater)
<1>1. CASE c = NotCalled
  BY <1>1 DEF InboundSound
<1>2. CASE c # NotCalled
  <2>1. x.made \in Nat /\ c.at \in x.made..time
    BY <1>2 DEF InboundSound
  <2>2. c.at \in x.made..later
    BY <2>1
  <2>. QED  BY <1>2, <2>2 DEF InboundSound
<1>. QED  BY <1>1, <1>2

LEMMA MadeWhen ==
  ASSUME VerificationInv, credential # NoCredential
  PROVE  /\ credential \in SignedCall \/ credential \in SentToken
         /\ credential.made \in Nat /\ credential.made <= now
BY DEF VerificationInv, CredentialSound, SignedCall, SentToken

LEMMA TimeKeeps ==
  ASSUME VerificationInv, Advance \/ Adjust \/ Withdraw
  PROVE  VerificationInv'
<1>1. now' \in Skew..MaxTime /\ offset' \in (-Skew)..Skew /\ now \in Nat /\ now' \in Nat
      /\ now <= now'
  BY Bounds DEF VerificationInv, Advance, Adjust, Withdraw
<1>2. /\ UNCHANGED <<credential, inbound, synced>>
      /\ withdrawn \in BOOLEAN /\ withdrawn' \in BOOLEAN /\ synced \in BOOLEAN
      /\ withdrawn => withdrawn'
      /\ withdrawn' => credential.kind = "resource"
  <2>1. /\ UNCHANGED <<credential, inbound, synced>>
        /\ withdrawn' = withdrawn \/ (withdrawn' = TRUE /\ credential.kind = "resource")
    BY DEF Advance, Adjust, Withdraw
  <2>2. /\ withdrawn \in BOOLEAN /\ synced \in BOOLEAN
        /\ withdrawn => credential.kind = "resource"
    BY DEF VerificationInv
  <2>3. CASE withdrawn' = withdrawn
    BY <2>1, <2>2, <2>3
  <2>4. CASE withdrawn' = TRUE /\ credential.kind = "resource"
    BY <2>1, <2>2, <2>4
  <2>. QED  BY <2>1, <2>3, <2>4
<1>3. CredentialSound(credential, now')
  <2>1. CredentialSound(credential, now)
    BY DEF VerificationInv
  <2>2. CASE credential = NoCredential
    BY <2>2 DEF CredentialSound
  <2>3. CASE credential # NoCredential
    <3>1. credential.made <= now'
      BY <1>1, <2>3, MadeWhen
    <3>. QED  BY <2>1, <2>3, <3>1 DEF CredentialSound
  <2>. QED  BY <2>2, <2>3
<1>4. \A d \in Delivery : InboundSound(inbound[d], credential, now', withdrawn', synced)
  <2>1. credential # NoCredential => credential.made \in Nat
    BY MadeWhen
  <2>. QED  BY <1>1, <1>2, <2>1, SoundLater DEF VerificationInv
<1>5. /\ CredentialSound(credential, now)'
      /\ (\A d \in Delivery : InboundSound(inbound[d], credential, now, withdrawn, synced))'
  BY <1>2, <1>3, <1>4
<1>6. /\ (DOMAIN inbound = Delivery)'
      /\ (now \in Skew..MaxTime /\ offset \in (-Skew)..Skew)'
  BY <1>1, <1>2 DEF VerificationInv
<1>7. /\ (withdrawn \in BOOLEAN /\ synced \in BOOLEAN)'
      /\ (withdrawn => credential.kind = "resource")'
  BY <1>2, Zenon
<1>. QED  BY <1>5, <1>6, <1>7 DEF VerificationInv

\* The platform sends something new, and no call has come of it.
LEMMA SendKeeps ==
  ASSUME VerificationInv, UNCHANGED <<now, offset, withdrawn, synced>>, ~withdrawn,
         CredentialSound(credential', now),
         DOMAIN inbound' = Delivery, \A d \in Delivery : inbound'[d] = NotCalled
  PROVE  VerificationInv'
BY DEF VerificationInv, InboundSound

LEMMA SignedSound ==
  ASSUME VerificationInv, NEW kind \in Endpoints, NEW question \in ValuesRequest
  PROVE  CredentialSound(SignedNow(kind, question), now)
<1>1. now \in Nat /\ Unix(now) \in Nat
  BY TwoClocks, Halves
<1>2. SignedText(kind, Unix(now)) \in [domain : {"lifecycle", "none"}, stamp : Nat]
  BY <1>1 DEF SignedText
<1>. QED  BY <1>1, <1>2 DEF CredentialSound, SignedNow, SignedCall

LEMMA NothingYet ==
  ASSUME VerificationInv, credential = NoCredential
  PROVE  ~withdrawn /\ \A d \in Delivery : inbound[d] = NotCalled
BY DEF VerificationInv, InboundSound, NoCredential

LEMMA SignKeeps ==
  ASSUME VerificationInv, NEW kind \in Endpoints, Sign(kind)
  PROVE  VerificationInv'
<1>1. PICK question \in (IF kind = "values" THEN Asked ELSE {NoQuestion}) :
        credential' = SignedNow(kind, question)
  BY DEF Sign
<1>2. question \in ValuesRequest
  <2>1. NoQuestion \in ValuesRequest
    BY DEF NoQuestion, NoNumber, ValuesRequest, Cursors
  <2>. QED  BY <1>1, <2>1, VerificationAssumption
<1>3. /\ UNCHANGED <<now, offset, withdrawn, synced, inbound>> /\ ~withdrawn
      /\ \A d \in Delivery : inbound[d] = NotCalled
  BY NothingYet DEF Sign
<1>. QED  BY <1>1, <1>2, <1>3, SignedSound, SendKeeps DEF VerificationInv

LEMMA MintKeeps ==
  ASSUME VerificationInv, NEW kind \in Tokens, NEW life \in 1..(MaxLife + 1),
         NEW ours \in BOOLEAN, Mint(kind, life, ours)
  PROVE  VerificationInv'
<1>1. PICK from \in Nat : from = Unix(now)
  BY TwoClocks, Halves
<1>2. PICK expires \in Nat : expires = from + life
  BY <1>1, Bounds
<1>3. /\ credential' = [kind |-> kind, ours |-> ours, from |-> from, expires |-> expires,
                        made |-> now]
      /\ kind = "mcp" => ValidMcp(from, expires, now)
  BY <1>1, <1>2 DEF Mint
<1>4. expires > from /\ (kind = "mcp" => from >= 1 /\ expires - from <= MaxLife)
  BY <1>2, <1>3, Bounds DEF ValidMcp
<1>5. CredentialSound(credential', now)
  <2>1. credential' \in SentToken /\ now \in Nat /\ now <= now
    BY <1>3, TwoClocks DEF SentToken
  <2>. QED  BY <1>1, <1>3, <1>4, <2>1 DEF CredentialSound
<1>6. /\ UNCHANGED <<now, offset, withdrawn, synced, inbound>> /\ ~withdrawn
      /\ \A d \in Delivery : inbound[d] = NotCalled
  BY NothingYet DEF Mint
<1>. QED  BY <1>5, <1>6, SendKeeps DEF VerificationInv

LEMMA SignAgainKeeps ==
  ASSUME VerificationInv, SignAgain
  PROVE  VerificationInv'
<1>1. /\ UNCHANGED <<now, offset, withdrawn, synced>>
      /\ credential' = SignedNow("sync", NoQuestion) /\ credential.kind = "sync"
      /\ inbound' = [d \in Delivery |-> NotCalled]
  BY DEF SignAgain, NotAcknowledged
<1>2. ~withdrawn
  BY <1>1 DEF VerificationInv
<1>3. "sync" \in Endpoints /\ NoQuestion \in ValuesRequest
  BY DEF Endpoints, NoQuestion, NoNumber, ValuesRequest, Cursors
<1>. QED  BY <1>1, <1>2, <1>3, SignedSound, SendKeeps

LEMMA SignNextPageKeeps ==
  ASSUME VerificationInv, NEW d \in Delivery, SignNextPage(d)
  PROVE  VerificationInv'
<1>1. /\ UNCHANGED <<now, offset, withdrawn, synced>>
      /\ credential.kind = "values" /\ inbound[d].phase = "done"
      /\ credential' = SignedNow("values", [credential.asked EXCEPT
                                              !.cursor = inbound[d].answer.cursor])
      /\ inbound' = [e \in Delivery |-> NotCalled]
  BY DEF SignNextPage
<1>2. ~withdrawn
  BY <1>1 DEF VerificationInv
<1>3. "values" \in Endpoints
  BY DEF Endpoints
<1>4. credential \in SignedCall
  BY <1>1 DEF VerificationInv, CredentialSound, SentToken, Tokens, NoCredential
<1>5. inbound[d] \in InboundStates
  BY <1>1 DEF VerificationInv, InboundSound, NotCalled
<1>6. PICK cursor \in Cursors : cursor = inbound[d].answer.cursor
  BY <1>1, <1>5 DEF InboundStates, Answer
<1>7. PICK r \in ValuesRequest : r = credential.asked
  BY <1>4 DEF SignedCall
<1>8. [r EXCEPT !.cursor = cursor] \in ValuesRequest
  BY <1>7 DEF ValuesRequest
<1>. QED  BY <1>1, <1>2, <1>3, <1>6, <1>7, <1>8, SignedSound, SendKeeps

-----------------------------------------------------------------------------
(* The integration's steps. *)

\* One call goes on, and what it becomes is sound.
LEMMA TurnKeeps ==
  ASSUME VerificationInv, NEW d \in Delivery, NEW state, Turns(d, state),
         synced' \in BOOLEAN, synced => synced',
         InboundSound(state, credential, now, withdrawn, synced')
  PROVE  VerificationInv'
<1>1. /\ inbound' = [inbound EXCEPT ![d] = state] /\ DOMAIN inbound = Delivery
      /\ UNCHANGED <<now, offset, credential, withdrawn>>
      /\ now \in Nat /\ withdrawn \in BOOLEAN /\ synced \in BOOLEAN
      /\ credential # NoCredential => credential.made \in Nat
  BY TwoClocks, MadeWhen DEF VerificationInv, Turns
<1>2. \A e \in Delivery : InboundSound(inbound[e], credential, now, withdrawn, synced')
  <2>1. now <= now
    BY <1>1
  <2>. QED  BY <1>1, <2>1, SoundLater DEF VerificationInv
<1>3. \A e \in Delivery : inbound'[e] = IF e = d THEN state ELSE inbound[e]
  BY <1>1
<1>4. (\A e \in Delivery : InboundSound(inbound[e], credential, now, withdrawn, synced))'
  BY <1>1, <1>2, <1>3
<1>. QED  BY <1>1, <1>4 DEF VerificationInv

LEMMA RefusedSound ==
  ASSUME VerificationInv, credential # NoCredential, NEW endpoint \in Endpoints \cup Tokens,
         NEW status \in {400, 401}, status = 400 => endpoint \in Endpoints
           /\ InTime(now, credential) /\ Meant(endpoint, credential)
  PROVE  InboundSound(Ended(endpoint, status, now, NoReply), credential, now, withdrawn, synced)
<1>. DEFINE c == Ended(endpoint, status, now, NoReply)
<1>1. /\ c.phase = "done" /\ c.status = status /\ c.at = now /\ c.endpoint = endpoint
      /\ c \in InboundStates
  <2>1. NoReply \in Answer /\ now \in Nat /\ status \in Nat
    BY TwoClocks DEF NoReply, Answer, Cursors
  <2>. QED  BY <2>1 DEF Ended, InboundStates
<1>2. now \in credential.made..now
  BY TwoClocks, MadeWhen
<1>3. TakenIn(c) => status = 400
  BY <1>1 DEF TakenIn
<1>. HIDE DEF c
<1>4. InboundSound(c, credential, now, withdrawn, synced)
  BY <1>1, <1>2, <1>3 DEF InboundSound
<1>. QED  BY <1>4 DEF c

\* A token that was taken, at its endpoint.
LEMMA TokenTaken ==
  ASSUME VerificationInv, NEW endpoint \in {"console", "mcp"}, credential # NoCredential,
         credential.kind = endpoint, credential.ours, InTime(now, credential)
  PROVE  InboundSound(Ended(endpoint, 200, now, NoReply), credential, now, withdrawn, synced)
<1>. DEFINE c == Ended(endpoint, 200, now, NoReply)
<1>1. endpoint \in Tokens
  BY DEF Tokens
<1>2. /\ c.phase = "done" /\ c.status = 200 /\ c.at = now /\ c.endpoint = endpoint
      /\ c \in InboundStates
  <2>1. NoReply \in Answer /\ now \in Nat
    BY TwoClocks DEF NoReply, Answer, Cursors
  <2>. QED  BY <1>1, <2>1 DEF Ended, InboundStates
<1>3. now \in credential.made..now
  BY TwoClocks, MadeWhen
<1>4. Meant(endpoint, credential)
  BY <1>1 DEF Meant
<1>5. endpoint # "values" /\ endpoint # "sync" /\ endpoint # "resource"
  OBVIOUS
<1>. HIDE DEF c
<1>6. InboundSound(c, credential, now, withdrawn, synced)
  BY <1>2, <1>3, <1>4, <1>5 DEF InboundSound
<1>. QED  BY <1>6 DEF c

LEMMA HandlingSound ==
  ASSUME VerificationInv, NEW endpoint \in Endpoints, VerifySigned(credential, endpoint),
         endpoint = "values" => ValidAsked(credential.asked)
  PROVE  InboundSound([phase |-> "handling", endpoint |-> endpoint, at |-> now],
                   credential, now, withdrawn, synced)
<1>. DEFINE c == [phase |-> "handling", endpoint |-> endpoint, at |-> now]
<1>1. credential \in SignedCall /\ InTime(now, credential) /\ Meant(endpoint, credential)
  BY SignedInTime
<1>2. credential # NoCredential
  BY <1>1 DEF SignedCall, Endpoints, NoCredential
<1>3. c.phase = "handling" /\ c.at = now /\ c.endpoint = endpoint /\ c \in InboundStates
  BY TwoClocks DEF InboundStates
<1>4. now \in credential.made..now
  BY <1>2, TwoClocks, MadeWhen
<1>. HIDE DEF c
<1>5. InboundSound(c, credential, now, withdrawn, synced)
  BY <1>1, <1>2, <1>3, <1>4 DEF InboundSound
<1>. QED  BY <1>5 DEF c

LEMMA IntrospectingSound ==
  ASSUME VerificationInv, credential \in SentToken, credential # NoCredential
  PROVE  InboundSound([phase |-> "introspecting", endpoint |-> "resource", at |-> now,
                    stale |-> withdrawn], credential, now, withdrawn, synced)
<1>. DEFINE c == [phase |-> "introspecting", endpoint |-> "resource", at |-> now,
                  stale |-> withdrawn]
<1>1. /\ c.phase = "introspecting" /\ c.at = now /\ c.endpoint = "resource"
      /\ c.stale = withdrawn /\ c \in InboundStates
  BY TwoClocks DEF InboundStates, VerificationInv
<1>2. now \in credential.made..now
  BY TwoClocks, MadeWhen
<1>3. ~TakenIn(c)
  BY <1>1 DEF TakenIn
<1>. HIDE DEF c
<1>4. InboundSound(c, credential, now, withdrawn, synced)
  BY <1>1, <1>2, <1>3 DEF InboundSound
<1>. QED  BY <1>4 DEF c

LEMMA PresentKeeps ==
  ASSUME VerificationInv, NEW d \in Delivery, NEW endpoint \in Endpoints \cup Tokens,
         NEW intact \in BOOLEAN, Present(d, endpoint, intact)
  PROVE  VerificationInv'
<1>1. /\ credential # NoCredential /\ synced' = synced /\ synced \in BOOLEAN
      /\ credential.kind \in Tokens => endpoint \notin Endpoints
      /\ credential.kind \in Endpoints => endpoint \in Endpoints
  BY DEF Present, VerificationInv
<1>2. credential.kind \in Endpoints \/ (credential.kind \in Tokens /\ credential \in SentToken)
  BY <1>1, MadeWhen DEF SignedCall, SentToken
<1>3. ASSUME NEW state, Turns(d, state),
             InboundSound(state, credential, now, withdrawn, synced)
      PROVE  VerificationInv'
  BY <1>1, <1>3, TurnKeeps
<1>4. ASSUME Turns(d, Refused(endpoint)) PROVE VerificationInv'
  <2>1. InboundSound(Ended(endpoint, 401, now, NoReply), credential, now, withdrawn, synced)
    BY <1>1, RefusedSound
  <2>. QED  BY <1>3, <1>4, <2>1 DEF Refused
<1>5. CASE endpoint \in Endpoints
  <2>1. Turns(d, IF ~intact \/ ~VerifySigned(credential, endpoint) THEN Refused(endpoint)
                 ELSE IF endpoint = "values" /\ ~ValidAsked(credential.asked)
                 THEN Ended(endpoint, 400, now, NoReply)
                 ELSE [phase |-> "handling", endpoint |-> endpoint, at |-> now])
    <3>1. endpoint \notin {"console", "mcp", "resource"}
      BY <1>5 DEF Endpoints
    <3>. QED  BY <1>5, <3>1 DEF Present
  <2>2. CASE ~intact \/ ~VerifySigned(credential, endpoint)
    BY <1>4, <2>1, <2>2
  <2>3. CASE ~(~intact \/ ~VerifySigned(credential, endpoint))
    <3>1. InTime(now, credential) /\ Meant(endpoint, credential)
      BY <1>5, <2>3, SignedInTime
    <3>2. InboundSound(Ended(endpoint, 400, now, NoReply), credential, now, withdrawn, synced)
      BY <1>1, <1>5, <3>1, RefusedSound
    <3>3. (endpoint = "values" => ValidAsked(credential.asked)) =>
            InboundSound([phase |-> "handling", endpoint |-> endpoint, at |-> now],
                      credential, now, withdrawn, synced)
      BY <1>5, <2>3, HandlingSound
    <3>. QED  BY <1>3, <2>1, <2>3, <3>2, <3>3
  <2>. QED  BY <2>2, <2>3
<1>6. CASE endpoint = "console" \/ endpoint = "mcp"
  <2>1. endpoint \notin Endpoints /\ credential.kind \in Tokens
    BY <1>1, <1>2, <1>6 DEF Endpoints
  <2>2. \/ Turns(d, Refused(endpoint))
        \/ /\ Turns(d, Ended(endpoint, 200, now, NoReply))
           /\ endpoint = "console" => VerifyConsole(credential)
           /\ endpoint = "mcp" => VerifyMcp(credential)
    BY <1>6, <2>1 DEF Present
  <2>3. ASSUME endpoint = "console" => VerifyConsole(credential),
               endpoint = "mcp" => VerifyMcp(credential)
        PROVE  InboundSound(Ended(endpoint, 200, now, NoReply), credential, now, withdrawn, synced)
    <3>1. InTime(now, credential) /\ credential.ours
      BY <1>6, <2>1, <2>3, TokensInTime
    <3>2. credential.kind = endpoint
      BY <1>6, <2>3 DEF VerifyConsole, VerifyMcp
    <3>. QED  BY <1>1, <1>6, <3>1, <3>2, TokenTaken
  <2>. QED  BY <1>3, <1>4, <2>2, <2>3
<1>7. CASE endpoint = "resource"
  <2>1. endpoint \notin Endpoints /\ endpoint # "console" /\ endpoint # "mcp"
    BY <1>7 DEF Endpoints
  <2>2. credential \in SentToken
    BY <1>1, <1>2, <2>1
  <2>3. \/ Turns(d, Refused(endpoint))
        \/ Turns(d, [phase |-> "introspecting", endpoint |-> "resource", at |-> now,
                     stale |-> withdrawn])
    BY <1>7, <2>1 DEF Present
  <2>4. InboundSound([phase |-> "introspecting", endpoint |-> "resource", at |-> now,
                   stale |-> withdrawn], credential, now, withdrawn, synced)
    BY <1>1, <2>2, IntrospectingSound
  <2>. QED  BY <1>3, <1>4, <2>3, <2>4
<1>. QED  BY <1>5, <1>6, <1>7 DEF Tokens

\* What is known of a call that is under way.
LEMMA UnderWay ==
  ASSUME VerificationInv, NEW d \in Delivery,
         inbound[d].phase \in {"handling", "introspecting", "answered"}
  PROVE  /\ InboundSound(inbound[d], credential, now, withdrawn, synced)
         /\ inbound[d] # NotCalled /\ inbound[d] \in InboundStates
         /\ inbound[d].at \in credential.made..now
         /\ credential # NoCredential /\ credential.made \in Nat
<1>1. inbound[d] # NotCalled
  BY DEF NotCalled
<1>2. InboundSound(inbound[d], credential, now, withdrawn, synced)
  BY DEF VerificationInv
<1>. QED  BY <1>1, <1>2, MadeWhen DEF InboundSound

LEMMA AuthAnswersKeeps ==
  ASSUME VerificationInv, NEW d \in Delivery, AuthAnswers(d)
  PROVE  VerificationInv'
<1>1. /\ inbound[d].phase = "introspecting" /\ synced' = synced
      /\ credential # NoCredential /\ credential \in SentToken
      /\ inbound[d].at \in credential.made..now /\ inbound[d].at \in Nat
      /\ inbound[d].stale \in BOOLEAN
      /\ inbound[d].stale => withdrawn
  <2>1. inbound[d].phase = "introspecting" /\ synced' = synced
    BY DEF AuthAnswers
  <2>2. /\ InboundSound(inbound[d], credential, now, withdrawn, synced)
        /\ inbound[d] # NotCalled /\ inbound[d] \in InboundStates
    BY <2>1, UnderWay
  <2>3. inbound[d].at \in Nat /\ inbound[d].stale \in BOOLEAN
    BY <2>1, <2>2 DEF InboundStates
  <2>. QED  BY <2>1, <2>2, <2>3 DEF InboundSound
<1>2. PICK at \in Nat : at = inbound[d].at
  BY <1>1
<1>3. PICK stale \in BOOLEAN : stale = inbound[d].stale
  BY <1>1, Zenon
<1>4. PICK active \in BOOLEAN : active = (~withdrawn /\ now < Ticks(credential.expires))
  OBVIOUS
<1>. DEFINE c == [phase |-> "answered", endpoint |-> "resource", at |-> at, stale |-> stale,
                  active |-> active]
<1>5. Turns(d, c)
  BY <1>2, <1>3, <1>4 DEF AuthAnswers
<1>6. /\ c.phase = "answered" /\ c.endpoint = "resource" /\ c.at = at /\ c.stale = stale
      /\ c.active = active /\ c \in InboundStates
  BY DEF InboundStates
<1>. HIDE DEF c
<1>7. ~TakenIn(c)
  BY <1>6 DEF TakenIn
<1>8. c.stale => ~c.active
  BY <1>1, <1>3, <1>4, <1>6
<1>9. InboundSound(c, credential, now, withdrawn, synced)
  BY <1>1, <1>2, <1>6, <1>7, <1>8 DEF InboundSound
<1>. QED  BY <1>1, <1>5, <1>9, TurnKeeps DEF VerificationInv

LEMMA IntrospectedKeeps ==
  ASSUME VerificationInv, NEW d \in Delivery, NEW arrives \in BOOLEAN, Introspected(d, arrives)
  PROVE  VerificationInv'
<1>1. /\ inbound[d].phase = "answered" /\ synced' = synced
      /\ credential # NoCredential /\ credential \in SentToken /\ credential.made \in Nat
      /\ inbound[d].stale \in BOOLEAN /\ inbound[d].active \in BOOLEAN
      /\ inbound[d].stale => ~inbound[d].active
  <2>1. inbound[d].phase = "answered" /\ synced' = synced
    BY DEF Introspected
  <2>2. /\ InboundSound(inbound[d], credential, now, withdrawn, synced)
        /\ inbound[d] # NotCalled /\ inbound[d] \in InboundStates
        /\ credential.made \in Nat
    BY <2>1, UnderWay
  <2>3. inbound[d].active \in BOOLEAN /\ inbound[d].stale \in BOOLEAN
    BY <2>1, <2>2 DEF InboundStates
  <2>. QED  BY <2>1, <2>2, <2>3 DEF InboundSound
<1>2. PICK active \in BOOLEAN : active = inbound[d].active
  BY <1>1, Zenon
<1>3. PICK stale \in BOOLEAN : stale = inbound[d].stale
  BY <1>1, Zenon
<1>. DEFINE verdict == DecodeIntrospection(credential, active)
            status == IF ~arrives \/ verdict = "unavailable" THEN 503
                      ELSE IF verdict = "accepted" THEN 200 ELSE 401
            c == [Ended("resource", status, now, NoReply) EXCEPT !.stale = stale]
<1>4. Turns(d, c)
  BY <1>2, <1>3 DEF Introspected
<1>. HIDE DEF verdict
<1>5. status \in {200, 401, 503} /\ (status = 200 => verdict = "accepted")
  OBVIOUS
<1>. HIDE DEF status
<1>6. /\ c.phase = "done" /\ c.endpoint = "resource" /\ c.at = now /\ c.stale = stale
      /\ c.status = status /\ c \in InboundStates
  <2>1. NoReply \in Answer /\ now \in Nat /\ status \in Nat /\ "resource" \in Tokens
    BY <1>5, TwoClocks DEF NoReply, Answer, Cursors, Tokens
  <2>. QED  BY <2>1 DEF Ended, InboundStates
<1>. HIDE DEF c
<1>7. now \in credential.made..now
  BY <1>1, TwoClocks, MadeWhen
<1>8. ASSUME status = 200
      PROVE  InTime(now, credential) /\ Meant("resource", credential) /\ ~stale
  <2>1. /\ active = TRUE /\ credential.kind = "resource" /\ credential.ours
        /\ DecodeIntrospection(credential, TRUE) = "accepted"
    <3>1. DecodeIntrospection(credential, active) = "accepted"
      BY <1>5, <1>8 DEF verdict
    <3>2. active = TRUE /\ credential.kind = "resource" /\ credential.ours
      BY <3>1 DEF DecodeIntrospection
    <3>. QED  BY <3>1, <3>2
  <2>2. credential.kind \in Tokens /\ "resource" \in Tokens
    BY <2>1 DEF Tokens
  <2>3. InTime(now, credential)
    BY <2>1, <2>2, TokensInTime
  <2>. QED  BY <1>1, <1>2, <1>3, <2>1, <2>2, <2>3 DEF Meant
<1>9. TakenIn(c) => status = 200
  BY <1>6 DEF TakenIn, Endpoints
<1>10. InboundSound(c, credential, now, withdrawn, synced)
  BY <1>1, <1>6, <1>7, <1>8, <1>9 DEF InboundSound
<1>. QED  BY <1>1, <1>4, <1>10, TurnKeeps DEF VerificationInv

\* A handler's end, with what it answers.
LEMMA EndKeeps ==
  ASSUME VerificationInv, NEW d \in Delivery, inbound[d].phase = "handling",
         NEW status \in {200, 500}, NEW answer \in Answer,
         Turns(d, Ended(inbound[d].endpoint, status, inbound[d].at, answer)),
         synced' \in BOOLEAN, synced => synced',
         inbound[d].endpoint = "sync" /\ status = 200 => synced',
         inbound[d].endpoint = "values" /\ status = 200 => ValidAnswer(credential.asked, answer)
  PROVE  VerificationInv'
<1>1. /\ credential # NoCredential /\ credential \in SignedCall
      /\ inbound[d].at \in credential.made..now /\ inbound[d].at \in Nat
      /\ inbound[d].endpoint \in Endpoints
      /\ InTime(inbound[d].at, credential) /\ Meant(inbound[d].endpoint, credential)
      /\ inbound[d].endpoint = "values" => ValidAsked(credential.asked)
  <2>1. /\ InboundSound(inbound[d], credential, now, withdrawn, synced)
        /\ inbound[d] # NotCalled /\ inbound[d] \in InboundStates
    BY UnderWay
  <2>2. inbound[d].at \in Nat /\ inbound[d].endpoint \in Endpoints
    BY <2>1 DEF InboundStates
  <2>3. TakenIn(inbound[d])
    BY DEF TakenIn
  <2>. QED  BY <2>1, <2>2, <2>3 DEF InboundSound
<1>2. PICK at \in Nat : at = inbound[d].at
  BY <1>1
<1>3. PICK endpoint \in Endpoints : endpoint = inbound[d].endpoint
  BY <1>1
<1>. DEFINE c == Ended(endpoint, status, at, answer)
<1>4. /\ c.phase = "done" /\ c.endpoint = endpoint /\ c.at = at /\ c.status = status
      /\ c.answer = answer /\ c \in InboundStates
  BY DEF Ended, InboundStates
<1>5. Turns(d, c)
  BY <1>2, <1>3
<1>. HIDE DEF c
<1>6. endpoint # "resource"
  BY DEF Endpoints
<1>7. InboundSound(c, credential, now, withdrawn, synced')
  BY <1>1, <1>2, <1>3, <1>4, <1>6 DEF InboundSound
<1>. QED  BY <1>5, <1>7, TurnKeeps

LEMMA HandlerEndsKeeps ==
  ASSUME VerificationInv, NEW d \in Delivery, NEW fails \in BOOLEAN, HandlerEnds(d, fails)
  PROVE  VerificationInv'
<1>1. /\ inbound[d].phase = "handling" /\ inbound[d].endpoint # "values"
      /\ synced' = (synced \/ (inbound[d].endpoint = "sync" /\ ~fails))
  BY DEF HandlerEnds
<1>2. PICK status \in {200, 500} : status = IF fails THEN 500 ELSE 200
  OBVIOUS
<1>3. Turns(d, Ended(inbound[d].endpoint, status, inbound[d].at, NoReply))
  BY <1>2 DEF HandlerEnds
<1>4. NoReply \in Answer
  BY DEF NoReply, Answer, Cursors
<1>5. synced' \in BOOLEAN /\ (synced => synced')
  BY <1>1
<1>6. inbound[d].endpoint = "sync" /\ status = 200 => synced'
  <2>1. status = 200 => ~fails
    BY <1>2
  <2>. QED  BY <1>1, <2>1, Zenon
<1>. QED  BY <1>1, <1>3, <1>4, <1>5, <1>6, EndKeeps

LEMMA ValuesEndKeeps ==
  ASSUME VerificationInv, NEW d \in Delivery, NEW answer \in Answer, NEW fails \in BOOLEAN,
         ValuesEnd(d, answer, fails)
  PROVE  VerificationInv'
<1>1. /\ inbound[d].phase = "handling" /\ inbound[d].endpoint = "values"
      /\ synced' = synced /\ synced \in BOOLEAN
  BY DEF ValuesEnd, VerificationInv
<1>2. PICK status \in {200, 500} :
        status = IF fails \/ ~ValidAnswer(credential.asked, answer) THEN 500 ELSE 200
  OBVIOUS
<1>3. Turns(d, Ended(inbound[d].endpoint, status, inbound[d].at, answer))
  BY <1>1, <1>2 DEF ValuesEnd
<1>4. status = 200 => ValidAnswer(credential.asked, answer)
  BY <1>2
<1>5. inbound[d].endpoint # "sync"
  BY <1>1
<1>. QED  BY <1>1, <1>3, <1>4, <1>5, EndKeeps

LEMMA VerificationBegins ==
  ASSUME VerificationInit
  PROVE  VerificationInv
<1>1. now \in Skew..MaxTime /\ offset \in (-Skew)..Skew
  BY Bounds DEF VerificationInit
<1>2. /\ withdrawn = FALSE /\ synced = FALSE /\ credential = NoCredential
      /\ inbound = [d \in Delivery |-> NotCalled]
  BY DEF VerificationInit
<1>3. CredentialSound(credential, now)
  BY <1>2 DEF CredentialSound
<1>4. \A d \in Delivery : InboundSound(inbound[d], credential, now, withdrawn, synced)
  BY <1>2 DEF InboundSound
<1>. QED  BY <1>1, <1>2, <1>3, <1>4 DEF VerificationInv

LEMMA VerificationStep ==
  ASSUME VerificationInv, [VerificationNext]_verificationVars
  PROVE  VerificationInv'
<1>1. CASE Advance \/ Adjust \/ Withdraw
  BY <1>1, TimeKeeps
<1>2. CASE (\E kind \in Endpoints : Sign(kind)) \/ SignAgain \/ \E d \in Delivery : SignNextPage(d)
  BY <1>2, SignKeeps, SignAgainKeeps, SignNextPageKeeps
<1>3. CASE \E kind \in Tokens, life \in 1..(MaxLife + 1), ours \in BOOLEAN :
             Mint(kind, life, ours)
  BY <1>3, MintKeeps
<1>4. CASE \E d \in Delivery :
             \/ \E endpoint \in Endpoints \cup Tokens, intact \in BOOLEAN :
                  Present(d, endpoint, intact)
             \/ AuthAnswers(d)
             \/ \E arrives \in BOOLEAN : Introspected(d, arrives)
             \/ \E fails \in BOOLEAN : HandlerEnds(d, fails)
  BY <1>4, PresentKeeps, AuthAnswersKeeps, IntrospectedKeeps, HandlerEndsKeeps
<1>5. CASE \E d \in Delivery, count \in 0..(MaxItems + 1), cursor \in Cursors, fails \in BOOLEAN :
             ValuesEnd(d, [count |-> count, cursor |-> cursor], fails)
  <2>1. PICK d \in Delivery, count \in 0..(MaxItems + 1), cursor \in Cursors, fails \in BOOLEAN :
          ValuesEnd(d, [count |-> count, cursor |-> cursor], fails)
    BY <1>5
  <2>2. [count |-> count, cursor |-> cursor] \in Answer
    BY DEF Answer
  <2>. QED  BY <2>1, <2>2, ValuesEndKeeps
<1>6. CASE UNCHANGED verificationVars
  BY <1>6 DEF verificationVars, VerificationInv
<1>. QED  BY <1>1, <1>2, <1>3, <1>4, <1>5, <1>6 DEF VerificationNext

\* What was asked, with the cursor of a good answer, can be asked too.
LEMMA PagesAgree ==
  ASSUME NEW r \in ValuesRequest, NEW a \in Answer, ValidAsked(r), ValidAnswer(r, a)
  PROVE  /\ ValidAsked([r EXCEPT !.cursor = a.cursor])
         /\ a.count <= (IF r.values = NoNumber THEN MaxItems ELSE r.values)
<1>1. PICK next \in ValuesRequest : next = [r EXCEPT !.cursor = a.cursor]
  BY DEF ValuesRequest, Answer
<1>2. /\ next.limit = r.limit /\ next.query = r.query /\ next.values = r.values
      /\ next.cursor = a.cursor /\ r.values \in Int /\ r.limit \in Int /\ a.count \in Int
  BY <1>1 DEF ValuesRequest, Answer
<1>3. ValidAsked(next)
  BY <1>2 DEF ValidAsked, ValidAnswer
<1>4. a.count <= (IF r.values = NoNumber THEN MaxItems ELSE r.values)
  BY <1>2, Bounds DEF ValidAsked, ValidAnswer, NoNumber
<1>. QED  BY <1>1, <1>3, <1>4

LEMMA VerificationFollows ==
  ASSUME VerificationInv
  PROVE  VerifiedCallsOnly
<1>1. \A d \in Delivery : InboundSound(inbound[d], credential, now, withdrawn, synced)
  BY DEF VerificationInv
<1>2. NotCalled.phase = "idle" /\ ~TakenIn(NotCalled)
  BY DEF NotCalled, TakenIn
<1>3. VerificationTypeOK
  <2>1. credential.kind \in Endpoints \cup Tokens \cup {"none"}
    BY DEF VerificationInv, CredentialSound, SignedCall, SentToken, NoCredential
  <2>2. ASSUME NEW d \in Delivery
        PROVE  /\ inbound[d].phase \in {"idle", "handling", "introspecting", "answered", "done"}
               /\ inbound[d].phase # "idle" => inbound[d].at \in credential.made..now
    <3>1. CASE inbound[d] = NotCalled
      BY <1>2, <3>1
    <3>2. CASE inbound[d] # NotCalled
      BY <1>1, <3>2 DEF InboundSound, InboundStates
    <3>. QED  BY <3>1, <3>2
  <2>. QED  BY <2>1, <2>2 DEF VerificationInv, VerificationTypeOK
<1>4. \A d \in Delivery : TakenIn(inbound[d]) =>
        InTime(inbound[d].at, credential) /\ Meant(inbound[d].endpoint, credential)
  BY <1>1, <1>2 DEF InboundSound
<1>5. LateIsRefused
  BY <1>4 DEF LateIsRefused, InTime
<1>6. AcceptedAsMeant
  BY <1>4 DEF AcceptedAsMeant, Meant
<1>7. WithdrawnIsRefused
  BY <1>1, <1>2 DEF WithdrawnIsRefused, InboundSound
<1>8. PagesGoOn
  <2>. SUFFICES ASSUME NEW d \in Delivery, inbound[d].phase = "done",
                       inbound[d].endpoint = "values", inbound[d].status = 200
                PROVE  LET r == credential.asked a == inbound[d].answer IN
                       /\ ValidAsked([r EXCEPT !.cursor = a.cursor])
                       /\ a.count <= (IF r.values = NoNumber THEN MaxItems ELSE r.values)
    BY DEF PagesGoOn
  <2>1. /\ credential \in SignedCall /\ ValidAsked(credential.asked)
        /\ ValidAnswer(credential.asked, inbound[d].answer) /\ inbound[d] \in InboundStates
    BY <1>1, <1>2 DEF InboundSound
  <2>2. credential.asked \in ValuesRequest
    BY <2>1 DEF SignedCall
  <2>3. inbound[d].answer \in Answer
    BY <2>1 DEF InboundStates
  <2>. QED  BY <2>1, <2>2, <2>3, PagesAgree
<1>9. AcknowledgedWasTaken
  BY <1>1, <1>2 DEF AcknowledgedWasTaken, InboundSound
<1>. QED  BY <1>3, <1>5, <1>6, <1>7, <1>8, <1>9, AcceptsInTime DEF VerifiedCallsOnly

\* For any deliveries, window, leeways, lifetimes, skew and requests: what is taken in was
\* made for this endpoint and lately, what comes whole and in time is not refused, and a
\* page is followed by one that can be asked for (Verifier, ConsoleVerifier, MCPVerifier,
\* ResourceVerifier).
THEOREM TakesVerifiedCallsOnly == VerificationSpec => []VerifiedCallsOnly
<1>1. VerificationInit => VerificationInv
  BY VerificationBegins
<1>2. VerificationInv /\ [VerificationNext]_verificationVars => VerificationInv'
  BY VerificationStep
<1>3. VerificationInv => VerifiedCallsOnly
  BY VerificationFollows
<1>. QED  BY <1>1, <1>2, <1>3, PTL DEF VerificationSpec
=============================================================================
