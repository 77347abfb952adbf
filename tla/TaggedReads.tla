---------------------------- MODULE TaggedReads ----------------------------
(***************************************************************************)
(* Reads under tags (readcache/cache.go: GetTagged, InvalidateTags).       *)
(*                                                                         *)
(* Redis keeps a random generation for every tag.  A tagged read puts the  *)
(* generations of its tags into its cache key, reads under that key, and   *)
(* returns only if the generations are still the same; a writer commits    *)
(* and then gives the tags it touched new generations.                     *)
(*                                                                         *)
(* What Get does under one key is ReadCache; here it may return anything   *)
(* that was ever loaded under the key, however old, or load it now.        *)
(***************************************************************************)
EXTENDS Naturals, FiniteSets

CONSTANTS
  Reader,     \* callers of GetTagged
  Tag,        \* domain tags
  Tags,       \* the tags each reader gives: with its key, what it reads
  MaxVersion, \* bound: commits at the source
  MaxChanges  \* bound: generations given anew or lost

ASSUME TagAssumption ==
  /\ Tags \in [Reader -> SUBSET Tag]
  /\ MaxVersion \in Nat /\ MaxChanges \in Nat

VARIABLES
  db,      \* the version at the source
  floor,   \* ghost: per tag, the version at the last InvalidateTags carried out
  gen,     \* the generation keys, 0 when missing
  nonce,   \* the nonces drawn so far: no two are the same
  loaded,  \* what was loaded under which key
  reader,  \* per reader, where its GetTagged stands
  changes  \* counts towards MaxChanges

world == <<db, floor, gen, nonce, changes>>
tagsVars == <<world, loaded, reader>>

Version == 0..MaxVersion

\* The generations of some tags, as they go into the key; 0 for the others.
Generation == [Tag -> Nat]
NoGeneration == [t \in Tag |-> 0]

\* ver: what Get returned.
States == [phase : {"idle", "before", "get", "after", "bare", "loaded", "done"},
           gen : Generation, ver : Version]
NoRead == [phase |-> "idle", gen |-> NoGeneration, ver |-> 0]

\* A key has a generation for each of its tags: none is ever missing from it.
TagsTypeOK ==
  /\ db \in Version
  /\ floor \in [Tag -> Version]
  /\ gen \in [Tag -> Nat]
  /\ nonce \in Nat
  /\ loaded \in SUBSET [gen : Generation, ver : Version]
  /\ reader \in [Reader -> States]
  /\ \A r \in Reader : reader[r].phase \in {"get", "after"}
                        => \A t \in Tags[r] : reader[r].gen[t] > 0
  /\ changes \in 0..MaxChanges

TagsInit ==
  /\ db = 0
  /\ floor = [t \in Tag |-> 0]
  /\ gen = [t \in Tag |-> 0]
  /\ nonce = 0
  /\ loaded = {}
  /\ reader = [r \in Reader |-> NoRead]
  /\ changes = 0

-----------------------------------------------------------------------------
(* The two scripts. *)

\* Mutant: a missing generation is left missing.
FilledNever(T) == [t \in Tag |-> IF t \in T /\ gen[t] = 0 THEN 0 ELSE gen[t]]

\* generations: a missing generation is drawn, then all are read.
Filled(T) == [t \in Tag |-> IF t \in T /\ gen[t] = 0 THEN nonce + 1 ELSE gen[t]]
Of(g, T) == [t \in Tag |-> IF t \in T THEN g[t] ELSE 0]

ReadGenerations(T) ==
  /\ gen' = Filled(T) /\ nonce' = nonce + 1
  /\ UNCHANGED <<db, floor, changes>>

\* Nonces are drawn for every call; one that is not used is not counted, to
\* keep the states finite.
Generations(T) ==
  IF \E t \in T : gen[t] = 0 THEN ReadGenerations(T) ELSE UNCHANGED world

Renewed(T) == [t \in Tag |-> IF t \in T THEN nonce + 1 ELSE gen[t]]

\* invalidateTags, carried out.
RenewGenerations(T) ==
  /\ changes < MaxChanges
  /\ gen' = Renewed(T) /\ nonce' = nonce + 1 /\ changes' = changes + 1
  /\ floor' = [t \in Tag |-> IF t \in T THEN db ELSE floor[t]]
  /\ UNCHANGED db

-----------------------------------------------------------------------------
(* GetTagged. *)

ReaderBecomes(r, s) == reader' = [reader EXCEPT ![r] = s]

Call(r) ==
  /\ reader[r].phase = "idle" /\ Tags[r] # {}
  /\ ReaderBecomes(r, [NoRead EXCEPT !.phase = "before"])
  /\ UNCHANGED <<world, loaded>>

Before(r) ==
  /\ reader[r].phase = "before"
  /\ Generations(Tags[r])
  /\ ReaderBecomes(r, [phase |-> "get", gen |-> Of(Filled(Tags[r]), Tags[r]), ver |-> 0])
  /\ UNCHANGED loaded

\* Get under the key of these generations: an entry or a flight that is there,
\* or the source.
GetUnder(r) ==
  /\ reader[r].phase = "get"
  /\ \E v \in {e.ver : e \in {e \in loaded : e.gen = reader[r].gen}} \cup {db} :
       /\ loaded' = loaded \cup {[gen |-> reader[r].gen, ver |-> v]}
       /\ ReaderBecomes(r, [reader[r] EXCEPT !.phase = "after", !.ver = v])
  /\ UNCHANGED world

ReadDone(r) == [phase |-> "done", gen |-> NoGeneration, ver |-> reader[r].ver]

\* Mutant: the generations are not read again.
AfterUnchecked(r) ==
  /\ reader[r].phase = "after"
  /\ ReaderBecomes(r, ReadDone(r))
  /\ UNCHANGED <<world, loaded>>

\* Still the same: return; otherwise, once more.
After(r) ==
  /\ reader[r].phase = "after"
  /\ Generations(Tags[r])
  /\ IF Of(Filled(Tags[r]), Tags[r]) = reader[r].gen
       THEN ReaderBecomes(r, ReadDone(r))
       ELSE ReaderBecomes(r, [NoRead EXCEPT !.phase = "before"])
  /\ UNCHANGED loaded

\* The process keeps away from Redis, or the script fails, carried out or not:
\* Get with ttl 0 under the bare key, which stores nothing.
FallBack(r) ==
  /\ reader[r].phase \in {"before", "after"}
  /\ UNCHANGED world \/ Generations(Tags[r])
  /\ ReaderBecomes(r, [NoRead EXCEPT !.phase = "bare"])
  /\ UNCHANGED loaded

\* The source, or what a flight that is still there has read.
LoadBare(r) ==
  /\ reader[r].phase = "bare"
  /\ \E v \in {reader[q].ver : q \in {q \in Reader : /\ reader[q].phase = "loaded"
                                                     /\ Tags[q] = Tags[r]}} \cup {db} :
       ReaderBecomes(r, [reader[r] EXCEPT !.phase = "loaded", !.ver = v])
  /\ UNCHANGED <<world, loaded>>

\* The call returns with a value, or with an error of the source or of its ctx.
ReadReturns(r) ==
  /\ reader[r].phase \in {"loaded", "done"}
  /\ ReaderBecomes(r, NoRead)
  /\ UNCHANGED <<world, loaded>>

Fail(r) ==
  /\ reader[r].phase # "idle"
  /\ ReaderBecomes(r, NoRead)
  /\ UNCHANGED <<world, loaded>>

-----------------------------------------------------------------------------
Commit ==
  /\ db < MaxVersion
  /\ db' = db + 1
  /\ UNCHANGED <<floor, gen, nonce, changes, loaded, reader>>

\* Of any tags, by any writer; a call that fails may be carried out all the
\* same, and later.
InvalidateTags ==
  /\ \E T \in SUBSET Tag \ {{}} : RenewGenerations(T)
  /\ UNCHANGED <<loaded, reader>>

\* Redis restarts empty, or a generation expires.
LoseGenerations ==
  /\ changes < MaxChanges
  /\ \E T \in SUBSET Tag \ {{}} : gen' = [t \in Tag |-> IF t \in T THEN 0 ELSE gen[t]]
  /\ changes' = changes + 1
  /\ UNCHANGED <<db, floor, nonce, loaded, reader>>

\* What the reader does next when nothing fails.
Proceed(r) == Before(r) \/ GetUnder(r) \/ After(r) \/ LoadBare(r) \/ ReadReturns(r)

TagsNext ==
  \/ \E r \in Reader : Call(r) \/ Proceed(r) \/ FallBack(r) \/ Fail(r)
  \/ Commit \/ InvalidateTags \/ LoseGenerations

TagsSpec == TagsInit /\ [][TagsNext]_tagsVars

\* Readers go on; nothing is assumed of failures.
TagsFairness == \A r \in Reader : WF_tagsVars(Proceed(r))
TagsFairSpec == TagsSpec /\ TagsFairness

-----------------------------------------------------------------------------
(* Properties. *)

\* A read that is not a fallback returns nothing older than any invalidation
\* of one of its tags that Redis had carried out when it checked: whichever
\* alias was read, whatever was cached, expired or lost in between.
Checked ==
  \A r \in Reader : reader[r].phase = "after" /\ reader'[r].phase = "done"
                      => \A t \in Tags[r] : reader[r].ver >= floor[t]
TaggedReadsAreCurrent == [][Checked]_tagsVars

\* A tagged read returns: it starts over only because a tag was invalidated
\* or its generation lost.
TaggedReadsReturn == \A r \in Reader : reader[r].phase # "idle" ~> reader[r].phase = "idle"
=============================================================================
