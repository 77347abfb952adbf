------------------------------ MODULE KeySet ------------------------------
(***************************************************************************)
(* The cached signing keys of the platform (internal/sign/jwks.go).        *)
(*                                                                         *)
(* Every verification asks the key set for a key.  It looks the key up and *)
(* then, under another acquisition of the lock, asks whether the set is    *)
(* fresh; otherwise it fetches the published set itself, replaces the      *)
(* cached one and looks again.  Refreshes of several goroutines overlap,   *)
(* and what finishes last stays.                                           *)
(***************************************************************************)
EXTENDS Naturals, FiniteSets

CONSTANTS
  Verifier,  \* goroutines that verify a request
  Kid,       \* names of keys; every key has one
  NoKid,     \* a request without a key id, and no key
  TTL,       \* KeySet.ttl
  Exchange   \* the longest a fetch may take: the deadline of the request's context

ASSUME KeySetAssumption ==
  /\ NoKid \notin Kid
  /\ TTL \in Nat \ {0} /\ Exchange \in Nat

VARIABLES
  published, \* what the platform's endpoint serves
  retired,   \* ghost: per key, the time since it was last published
  byKID,     \* the cached set
  sinceFetch,\* the time since fetchedAt; TTL: stale or never fetched
  lookup     \* per goroutine, where its Key stands

keySetVars == <<published, retired, byKID, sinceFetch, lookup>>

Forgotten == TTL + Exchange + 1

\* found: the key of the first look, or NoKid; answer: what the platform sent; torn:
\* ghost, the set was replaced by another goroutine since this one's last look at it.
LookupStates == [phase : {"idle", "looked", "asking", "answered", "failed", "stored",
                          "served", "missing"},
                 kid : Kid \cup {NoKid}, found : Kid \cup {NoKid},
                 answer : SUBSET Kid, age : 0..Exchange, torn : BOOLEAN]
NoLookup == [phase |-> "idle", kid |-> NoKid, found |-> NoKid, answer |-> {},
             age |-> 0, torn |-> FALSE]

KeySetTypeOK ==
  /\ published \subseteq Kid
  /\ retired \in [Kid -> 0..Forgotten]
  /\ byKID \subseteq Kid
  /\ sinceFetch \in 0..TTL
  /\ lookup \in [Verifier -> LookupStates]

KeySetInit ==
  /\ published \in {S \in SUBSET Kid : Cardinality(S) = 1}
  /\ retired = [k \in Kid |-> IF k \in published THEN 0 ELSE Forgotten]
  /\ byKID = {}
  /\ sinceFetch = TTL
  /\ lookup = [v \in Verifier |-> NoLookup]

-----------------------------------------------------------------------------
\* lookup: without a key id the only key of the set, if it has just one.
FoundKey(kid) == IF kid \in byKID THEN kid
              ELSE IF kid = NoKid /\ Cardinality(byKID) = 1 THEN CHOOSE k \in byKID : TRUE
              ELSE NoKid

LookupDone(v, phase) == lookup' = [lookup EXCEPT ![v] = [NoLookup EXCEPT !.phase = phase]]

Look(v) ==
  /\ lookup[v].phase \in {"idle", "served", "missing"}
  /\ \E kid \in Kid \cup {NoKid} :
       lookup' = [lookup EXCEPT ![v] =
         [NoLookup EXCEPT !.phase = "looked", !.kid = kid, !.found = FoundKey(kid)]]
  /\ UNCHANGED <<published, retired, byKID, sinceFetch>>

Fresh == sinceFetch < TTL

\* Key: found and fresh, or a refresh of its own.
CheckFresh(v) ==
  /\ lookup[v].phase = "looked"
  /\ IF lookup[v].found # NoKid /\ Fresh THEN LookupDone(v, "served")
     ELSE lookup' = [lookup EXCEPT ![v] =
            [NoLookup EXCEPT !.phase = "asking", !.kid = lookup[v].kid]]
  /\ UNCHANGED <<published, retired, byKID, sinceFetch>>

\* The platform answers with what it publishes at that moment.
PlatformAnswers(v) ==
  /\ lookup[v].phase = "asking"
  /\ lookup' = [lookup EXCEPT ![v].phase = "answered", ![v].answer = published]
  /\ UNCHANGED <<published, retired, byKID, sinceFetch>>

\* No answer, another status, or a set that does not decode: one bad key fails it.
RefreshFails(v) ==
  /\ lookup[v].phase \in {"asking", "answered"}
  /\ lookup' = [lookup EXCEPT ![v] =
       [NoLookup EXCEPT !.phase = "failed", !.kid = lookup[v].kid]]
  /\ UNCHANGED <<published, retired, byKID, sinceFetch>>

\* Mutant: keys are added and never go.
StoreMore(v) ==
  /\ lookup[v].phase = "answered"
  /\ byKID' = byKID \cup lookup[v].answer
  /\ sinceFetch' = 0
  /\ lookup' = [w \in Verifier |->
       IF w = v THEN [lookup[v] EXCEPT !.phase = "stored", !.age = 0]
                ELSE [lookup[w] EXCEPT !.torn = lookup[w].phase \in {"looked", "stored"}]]
  /\ UNCHANGED <<published, retired>>

\* The end of refresh: the answer replaces the set, older or newer.
Store(v) ==
  /\ lookup[v].phase = "answered"
  /\ byKID' = lookup[v].answer
  /\ sinceFetch' = 0
  /\ lookup' = [w \in Verifier |->
       IF w = v THEN [lookup[v] EXCEPT !.phase = "stored", !.age = 0]
                ELSE [lookup[w] EXCEPT !.torn = lookup[w].phase \in {"looked", "stored"}]]
  /\ UNCHANGED <<published, retired>>

\* The second look, after a refresh of its own or in spite of one that failed.
LookAgain(v) ==
  /\ lookup[v].phase \in {"stored", "failed"}
  /\ LookupDone(v, IF FoundKey(lookup[v].kid) # NoKid THEN "served" ELSE "missing")
  /\ UNCHANGED <<published, retired, byKID, sinceFetch>>

-----------------------------------------------------------------------------
(* The platform and time. *)

Rotate ==
  /\ published' \in SUBSET Kid \ {{}, published}
  /\ retired' = [k \in Kid |-> IF k \in published \cup published' THEN 0 ELSE retired[k]]
  /\ UNCHANGED <<byKID, sinceFetch, lookup>>

Exchanging(v) == lookup[v].phase \in {"asking", "answered"}

KeySetTick ==
  /\ \A v \in Verifier : Exchanging(v) => lookup[v].age < Exchange
  /\ lookup' = [v \in Verifier |->
       IF Exchanging(v) THEN [lookup[v] EXCEPT !.age = @ + 1] ELSE lookup[v]]
  /\ sinceFetch' = IF sinceFetch < TTL THEN sinceFetch + 1 ELSE TTL
  /\ retired' = [k \in Kid |-> IF k \in published THEN 0
                               ELSE IF retired[k] < Forgotten THEN retired[k] + 1 ELSE Forgotten]
  /\ <<lookup, sinceFetch, retired>>' # <<lookup, sinceFetch, retired>>
  /\ UNCHANGED <<published, byKID>>

KeySetNext ==
  \/ \E v \in Verifier :
       \/ Look(v) \/ CheckFresh(v) \/ PlatformAnswers(v) \/ RefreshFails(v)
       \/ Store(v) \/ LookAgain(v)
  \/ Rotate
  \/ KeySetTick

KeySetSpec == KeySetInit /\ [][KeySetNext]_keySetVars

-----------------------------------------------------------------------------
(* Properties. *)

Serves(v) == lookup[v].phase # "served" /\ lookup'[v].phase = "served"

\* A key that is served from the cache was published at most a ttl and one exchange
\* ago, although an older answer may replace a newer one and counts as new: unless
\* another goroutine replaced the set between the look and the question whether it
\* is fresh, which are two steps (KeySet.Key, refresh).
ServedRecently ==
  \A v \in Verifier :
    Serves(v) /\ lookup[v].phase = "looked" /\ ~lookup[v].torn
      => retired[lookup[v].found] < TTL + Exchange

\* A goroutine that has fetched the set itself misses a key only if the platform did
\* not publish it then, or an answer of another goroutine came in between; without
\* a key id, only if the set does not hold exactly one (KeySet.Key).
MissedForCause ==
  \A v \in Verifier :
    /\ lookup[v].phase = "stored" /\ lookup'[v].phase = "missing" /\ ~lookup[v].torn
    => IF lookup[v].kid = NoKid THEN Cardinality(lookup[v].answer) # 1
       ELSE lookup[v].kid \notin lookup[v].answer

\* Keys are served and missed for cause, in every step.
KeysServedForCause == []KeySetTypeOK /\ [][ServedRecently /\ MissedForCause]_keySetVars
=============================================================================
