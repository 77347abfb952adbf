------------------------- MODULE TaggedReadsProofs -------------------------
(***************************************************************************)
(* Proofs about TaggedReads, for any readers, tags and bounds.             *)
(*                                                                         *)
(* The argument: a nonce is never drawn twice, so a key made of the        *)
(* generations of some tags is out of use for good as soon as one of them  *)
(* changes; until then no tag of it was invalidated, and what was loaded   *)
(* under it takes in every invalidation there has been.                    *)
(***************************************************************************)
EXTENDS TaggedReads, TLAPS

\* Nothing carries a generation that is yet to be drawn.
Drawn ==
  /\ \A t \in Tag : gen[t] <= nonce
  /\ \A e \in loaded, t \in Tag : e.gen[t] <= nonce
  /\ \A r \in Reader, t \in Tag : reader[r].gen[t] <= nonce

\* As long as a tag has the generation g gives it, v takes in its
\* invalidations.
TakesIn(g, v) == \A t \in Tag : g[t] > 0 /\ g[t] = gen[t] => v >= floor[t]

\* The same of the state after a step, for g and v as they are.
TakesInNext(g, v) == \A t \in Tag : g[t] > 0 /\ g[t] = gen'[t] => v >= floor'[t]

Current ==
  /\ \A t \in Tag : floor[t] <= db
  /\ \A e \in loaded : TakesIn(e.gen, e.ver)
  /\ \A r \in Reader : reader[r].phase = "after" => TakesIn(reader[r].gen, reader[r].ver)

TagInv == TagsTypeOK /\ Drawn /\ Current

-----------------------------------------------------------------------------
(* The types, as facts to cite. *)

LEMMA Types ==
  ASSUME TagsTypeOK
  PROVE  /\ db \in Nat /\ db \in Version /\ nonce \in Nat /\ changes \in Nat
         /\ \A t \in Tag : floor[t] \in Nat /\ floor[t] \in Version /\ gen[t] \in Nat
         /\ \A e \in loaded : /\ e = [gen |-> e.gen, ver |-> e.ver]
                              /\ e.gen \in Generation /\ e.ver \in Version /\ e.ver \in Nat
                              /\ \A t \in Tag : e.gen[t] \in Nat
         /\ \A r \in Reader : /\ reader[r] \in States
                              /\ reader[r].gen \in Generation
                              /\ reader[r].ver \in Version /\ reader[r].ver \in Nat
                              /\ \A t \in Tag : reader[r].gen[t] \in Nat
         /\ \A r \in Reader : Tags[r] \subseteq Tag
  BY TagAssumption DEF TagsTypeOK, Version, Generation, States

\* What any step does to the generations: they change only to ones not drawn
\* before or to none, and no tag that keeps its generation is invalidated.
WorldMoves ==
  /\ db' \in Version /\ db' >= db
  /\ gen' \in Generation /\ floor' \in [Tag -> Version]
  /\ nonce' \in {nonce, nonce + 1} /\ changes' \in 0..MaxChanges
  /\ \A t \in Tag : floor'[t] <= db'
  /\ \A t \in Tag : \/ gen'[t] = gen[t] /\ floor'[t] = floor[t]
                    \/ gen'[t] = 0
                    \/ gen'[t] = nonce + 1 /\ nonce' = nonce + 1

\* What takes in the invalidations of its tags still does.
LEMMA StillTakesIn ==
  ASSUME TagInv, WorldMoves, NEW g, NEW v, TakesIn(g, v),
         \A t \in Tag : g[t] \in Nat /\ g[t] <= nonce
  PROVE  TakesInNext(g, v)
<1>. SUFFICES ASSUME NEW t \in Tag, g[t] > 0, g[t] = gen'[t]
              PROVE  v >= floor'[t]
  BY DEF TakesInNext
<1>1. g[t] # 0 /\ g[t] # nonce + 1
  BY Types DEF TagInv
<1>. QED  BY <1>1 DEF TakesIn, WorldMoves

\* One reader moves to s, and something is loaded or not.
LEMMA ReaderMoves ==
  ASSUME TagInv, WorldMoves, NEW r \in Reader, NEW s \in States, ReaderBecomes(r, s),
         loaded' \in SUBSET [gen : Generation, ver : Version],
         \A e \in loaded' : TakesIn(e.gen, e.ver) /\ \A t \in Tag : e.gen[t] <= nonce,
         s.phase \in {"get", "after"} => \A t \in Tags[r] : s.gen[t] > 0,
         \A t \in Tag : s.gen[t] <= nonce',
         s.phase = "after" => TakesInNext(s.gen, s.ver)
  PROVE  TagInv'
<1>1. /\ reader' \in [Reader -> States] /\ reader'[r] = s
      /\ \A q \in Reader : q # r => reader'[q] = reader[q]
  BY DEF ReaderBecomes, TagInv, TagsTypeOK
<1>2. TagsTypeOK'
  BY <1>1, Types DEF TagInv, TagsTypeOK, WorldMoves, Generation
<1>3. nonce \in Nat /\ nonce <= nonce' /\ nonce' \in Nat
  BY Types DEF TagInv, WorldMoves
<1>4. Drawn'
  <2>1. \A t \in Tag : gen'[t] <= nonce'
    BY <1>3, Types DEF TagInv, Drawn, WorldMoves
  <2>2. \A e \in loaded', t \in Tag : e.gen[t] <= nonce'
    BY <1>3 DEF Generation
  <2>3. \A q \in Reader, t \in Tag : reader'[q].gen[t] <= nonce'
    BY <1>1, <1>3, Types DEF TagInv, Drawn
  <2>. QED  BY <2>1, <2>2, <2>3 DEF Drawn
<1>5. \A e \in loaded' : TakesInNext(e.gen, e.ver)
  <2>. SUFFICES ASSUME NEW e \in loaded' PROVE TakesInNext(e.gen, e.ver)
    OBVIOUS
  <2>1. TakesIn(e.gen, e.ver) /\ \A t \in Tag : e.gen[t] \in Nat /\ e.gen[t] <= nonce
    BY DEF Generation
  <2>. QED  BY <2>1, StillTakesIn
<1>6. \A q \in Reader : reader'[q].phase = "after"
                          => TakesInNext(reader'[q].gen, reader'[q].ver)
  <2>. SUFFICES ASSUME NEW q \in Reader, reader'[q].phase = "after"
                PROVE  TakesInNext(reader'[q].gen, reader'[q].ver)
    OBVIOUS
  <2>1. CASE q = r
    BY <2>1, <1>1
  <2>2. CASE q # r
    <3>1. reader'[q] = reader[q]
      BY <2>2, <1>1
    <3>2. /\ TakesIn(reader[q].gen, reader[q].ver)
          /\ \A t \in Tag : reader[q].gen[t] \in Nat /\ reader[q].gen[t] <= nonce
      BY <3>1, Types DEF TagInv, Current, Drawn
    <3>. QED  BY <3>1, <3>2, StillTakesIn
  <2>. QED  BY <2>1, <2>2
<1>7. Current'
  BY <1>5, <1>6 DEF Current, TakesIn, TakesInNext, WorldMoves
<1>. QED  BY <1>2, <1>4, <1>7 DEF TagInv

\* No reader moves and nothing is loaded.
LEMMA OnlyWorldMoves ==
  ASSUME TagInv, WorldMoves, UNCHANGED <<loaded, reader>>
  PROVE  TagInv'
<1>1. TagsTypeOK'
  BY Types DEF TagInv, TagsTypeOK, WorldMoves, Generation
<1>2. Drawn'
  BY Types DEF TagInv, Drawn, WorldMoves
<1>3. \A e \in loaded : TakesInNext(e.gen, e.ver)
  <2>. SUFFICES ASSUME NEW e \in loaded PROVE TakesInNext(e.gen, e.ver)
    OBVIOUS
  <2>1. TakesIn(e.gen, e.ver) /\ \A t \in Tag : e.gen[t] \in Nat /\ e.gen[t] <= nonce
    BY Types DEF TagInv, Current, Drawn
  <2>. QED  BY <2>1, StillTakesIn
<1>4. \A r \in Reader : reader[r].phase = "after" => TakesInNext(reader[r].gen, reader[r].ver)
  <2>. SUFFICES ASSUME NEW r \in Reader, reader[r].phase = "after"
                PROVE  TakesInNext(reader[r].gen, reader[r].ver)
    OBVIOUS
  <2>1. /\ TakesIn(reader[r].gen, reader[r].ver)
        /\ \A t \in Tag : reader[r].gen[t] \in Nat /\ reader[r].gen[t] <= nonce
    BY Types DEF TagInv, Current, Drawn
  <2>. QED  BY <2>1, StillTakesIn
<1>5. Current'
  BY <1>3, <1>4 DEF Current, TakesIn, TakesInNext, WorldMoves
<1>. QED  BY <1>1, <1>2, <1>5 DEF TagInv

\* Standing still is such a step.
LEMMA WorldStays ==
  ASSUME TagInv, UNCHANGED world
  PROVE  WorldMoves
BY Types DEF TagInv, TagsTypeOK, Current, WorldMoves, world, Generation

-----------------------------------------------------------------------------
(* The generations script. *)

\* The generations one call of the script returns belong to its tags, all of
\* them drawn, and are those Redis then has.
LEMMA GenerationsRead ==
  ASSUME TagInv, NEW T \in SUBSET Tag, Generations(T)
  PROVE  /\ UNCHANGED <<db, floor, changes>>
         /\ gen' \in Generation
         /\ nonce' \in {nonce, nonce + 1}
         /\ \A t \in Tag : \/ gen'[t] = gen[t]
                           \/ gen'[t] = nonce + 1 /\ nonce' = nonce + 1
         /\ Of(Filled(T), T) \in Generation
         /\ \A t \in T : Of(Filled(T), T)[t] = gen'[t] /\ gen'[t] > 0
         /\ \A t \in Tag : Of(Filled(T), T)[t] <= nonce'
<1>1. \A t \in Tag : gen[t] \in Nat /\ gen[t] <= nonce /\ nonce \in Nat
  BY Types DEF TagInv, Drawn
<1>2. CASE \E t \in T : gen[t] = 0
  BY <1>1, <1>2 DEF Generations, ReadGenerations, Filled, Of, Generation
<1>3. CASE \A t \in T : gen[t] # 0
  <2>1. UNCHANGED world
    BY <1>3 DEF Generations
  <2>2. \A t \in Tag : gen'[t] = gen[t] /\ nonce' = nonce
    BY <2>1 DEF world
  <2>3. \A t \in Tag : Filled(T)[t] = gen[t]
    BY <1>3 DEF Filled
  <2>4. gen \in Generation
    BY DEF TagInv, TagsTypeOK, Generation
  <2>. QED  BY <1>1, <1>3, <2>1, <2>2, <2>3, <2>4 DEF world, Of, Generation
<1>. QED  BY <1>2, <1>3

\* The script is such a step.
LEMMA ScriptMoves ==
  ASSUME TagInv, NEW T \in SUBSET Tag, Generations(T)
  PROVE  WorldMoves
<1>1. \A t \in Tag : floor[t] <= db
  BY DEF TagInv, Current
<1>2. floor \in [Tag -> Version] /\ changes \in 0..MaxChanges /\ db \in Version /\ db >= db
  BY Types DEF TagInv, TagsTypeOK
<1>. QED  BY GenerationsRead, <1>1, <1>2 DEF WorldMoves

-----------------------------------------------------------------------------
(* The steps of a reader. *)

\* What was loaded stays as it was.
LEMMA LoadedStays ==
  ASSUME TagInv, UNCHANGED loaded
  PROVE  /\ loaded' \in SUBSET [gen : Generation, ver : Version]
         /\ \A e \in loaded' : TakesIn(e.gen, e.ver) /\ \A t \in Tag : e.gen[t] <= nonce
BY DEF TagInv, TagsTypeOK, Drawn, Current, TakesIn

\* A reader without generations may move anywhere they are not looked at.
LEMMA MovesOn ==
  ASSUME TagInv, WorldMoves, UNCHANGED loaded, NEW r \in Reader, NEW s \in States,
         ReaderBecomes(r, s), s.phase \notin {"get", "after"},
         \A t \in Tag : s.gen[t] <= nonce'
  PROVE  TagInv'
BY LoadedStays, ReaderMoves

LEMMA IdleState ==
  ASSUME NEW phase \in {"idle", "before", "get", "after", "bare", "loaded", "done"}
  PROVE  /\ [NoRead EXCEPT !.phase = phase] \in States
         /\ [NoRead EXCEPT !.phase = phase].phase = phase
         /\ \A t \in Tag : [NoRead EXCEPT !.phase = phase].gen[t] = 0
         /\ NoRead \in States /\ NoRead.phase = "idle" /\ \A t \in Tag : NoRead.gen[t] = 0
BY TagAssumption DEF NoRead, States, NoGeneration, Generation, Version

\* Back to a state without generations.
LEMMA MovesBack ==
  ASSUME TagInv, WorldMoves, UNCHANGED loaded, NEW r \in Reader,
         NEW phase \in {"idle", "before", "bare"}, ReaderBecomes(r, [NoRead EXCEPT !.phase = phase])
  PROVE  TagInv'
<1>. DEFINE s == [NoRead EXCEPT !.phase = phase]
<1>1. nonce' \in Nat
  BY Types DEF TagInv, WorldMoves
<1>2. s \in States /\ s.phase = phase /\ \A t \in Tag : s.gen[t] = 0
  BY IdleState
<1>3. ReaderBecomes(r, s)
  OBVIOUS
<1>. HIDE DEF s
<1>. QED  BY <1>1, <1>2, <1>3, MovesOn

LEMMA CallKeeps ==
  ASSUME TagInv, NEW r \in Reader, Call(r)
  PROVE  TagInv'
<1>1. WorldMoves
  BY WorldStays DEF Call
<1>. QED  BY <1>1, MovesBack DEF Call

LEMMA BeforeKeeps ==
  ASSUME TagInv, NEW r \in Reader, Before(r)
  PROVE  TagInv'
<1>. DEFINE g == Of(Filled(Tags[r]), Tags[r])
            s == [phase |-> "get", gen |-> g, ver |-> 0]
<1>1. Tags[r] \in SUBSET Tag
  BY TagAssumption
<1>2. WorldMoves
  BY <1>1, ScriptMoves DEF Before
<1>3. /\ g \in Generation
      /\ \A t \in Tags[r] : g[t] > 0
      /\ \A t \in Tag : g[t] <= nonce'
  BY <1>1, GenerationsRead DEF Before
<1>. HIDE DEF g
<1>4. s \in States /\ s.phase = "get" /\ s.gen = g
  <2>1. 0 \in Version
    BY TagAssumption DEF Version
  <2>. QED  BY <1>3, <2>1 DEF States
<1>5. ReaderBecomes(r, s) /\ UNCHANGED loaded
  BY DEF Before, g
<1>. HIDE DEF s
<1>. QED  BY <1>2, <1>3, <1>4, <1>5, LoadedStays, ReaderMoves

LEMMA GetUnderKeeps ==
  ASSUME TagInv, NEW r \in Reader, GetUnder(r)
  PROVE  TagInv'
<1>. DEFINE g == reader[r].gen
<1>1. WorldMoves
  BY WorldStays DEF GetUnder
<1>2. /\ g \in Generation /\ reader[r] \in States
      /\ \A t \in Tag : g[t] \in Nat /\ g[t] <= nonce
      /\ \A t \in Tags[r] : g[t] > 0
  BY Types DEF TagInv, TagsTypeOK, Drawn, GetUnder
<1>3. PICK v \in {e.ver : e \in {e \in loaded : e.gen = g}} \cup {db} :
        /\ loaded' = loaded \cup {[gen |-> g, ver |-> v]}
        /\ ReaderBecomes(r, [reader[r] EXCEPT !.phase = "after", !.ver = v])
  BY DEF GetUnder
<1>. DEFINE s == [reader[r] EXCEPT !.phase = "after", !.ver = v]
<1>4. v \in Version /\ TakesIn(g, v)
  <2>1. CASE v = db
    BY <2>1, Types DEF TagInv, Current, TakesIn
  <2>2. CASE v # db
    <3>1. PICK e \in loaded : e.gen = g /\ e.ver = v
      BY <1>3, <2>2
    <3>. QED  BY <3>1, Types DEF TagInv, Current
  <2>. QED  BY <2>1, <2>2
<1>5. TakesInNext(g, v)
  BY <1>1, <1>2, <1>4, StillTakesIn
<1>6. nonce' = nonce
  BY DEF GetUnder, world
<1>. HIDE DEF g
<1>7. s \in States /\ s.phase = "after" /\ s.gen = g /\ s.ver = v
  BY <1>2, <1>4 DEF States, g
<1>8. loaded' \in SUBSET [gen : Generation, ver : Version]
  BY <1>2, <1>3, <1>4 DEF TagInv, TagsTypeOK
<1>9. \A e \in loaded' : TakesIn(e.gen, e.ver) /\ \A t \in Tag : e.gen[t] <= nonce
  <2>. SUFFICES ASSUME NEW e \in loaded'
                PROVE  TakesIn(e.gen, e.ver) /\ \A t \in Tag : e.gen[t] <= nonce
    OBVIOUS
  <2>1. CASE e \in loaded
    BY <2>1 DEF TagInv, Current, Drawn
  <2>2. CASE e = [gen |-> g, ver |-> v]
    BY <2>2, <1>2, <1>4
  <2>. QED  BY <1>3, <2>1, <2>2
<1>10. ReaderBecomes(r, s)
  BY <1>3
<1>. HIDE DEF s
<1>. QED  BY <1>1, <1>2, <1>5, <1>6, <1>7, <1>8, <1>9, <1>10, ReaderMoves

LEMMA AfterKeeps ==
  ASSUME TagInv, NEW r \in Reader, After(r)
  PROVE  TagInv'
<1>1. Tags[r] \in SUBSET Tag
  BY TagAssumption
<1>2. WorldMoves
  BY <1>1, ScriptMoves DEF After
<1>3. nonce' \in Nat
  BY <1>2, Types DEF TagInv, WorldMoves
<1>4. CASE ReaderBecomes(r, ReadDone(r))
  <2>1. /\ ReadDone(r) \in States /\ ReadDone(r).phase = "done"
        /\ \A t \in Tag : ReadDone(r).gen[t] = 0
    BY Types DEF TagInv, States, ReadDone, NoGeneration, Generation
  <2>2. \A t \in Tag : ReadDone(r).gen[t] <= nonce'
    BY <1>3, <2>1
  <2>. DEFINE s == ReadDone(r)
  <2>3. ReaderBecomes(r, s) /\ s \in States /\ s.phase = "done" /\ \A t \in Tag : s.gen[t] <= nonce'
    BY <1>4, <2>1, <2>2
  <2>. HIDE DEF s
  <2>. QED  BY <1>2, <2>3, MovesOn DEF After
<1>5. CASE ReaderBecomes(r, [NoRead EXCEPT !.phase = "before"])
  BY <1>2, <1>5, MovesBack DEF After
<1>. QED  BY <1>4, <1>5 DEF After

LEMMA FallBackKeeps ==
  ASSUME TagInv, NEW r \in Reader, FallBack(r)
  PROVE  TagInv'
<1>1. Tags[r] \in SUBSET Tag
  BY TagAssumption
<1>2. WorldMoves
  BY <1>1, ScriptMoves, WorldStays DEF FallBack
<1>. QED  BY <1>2, MovesBack DEF FallBack

LEMMA LoadBareKeeps ==
  ASSUME TagInv, NEW r \in Reader, LoadBare(r)
  PROVE  TagInv'
<1>1. WorldMoves
  BY WorldStays DEF LoadBare
<1>2. PICK v \in {reader[q].ver : q \in {q \in Reader : /\ reader[q].phase = "loaded"
                                                        /\ Tags[q] = Tags[r]}} \cup {db} :
        ReaderBecomes(r, [reader[r] EXCEPT !.phase = "loaded", !.ver = v])
  BY DEF LoadBare
<1>3. v \in Version
  BY <1>2, Types DEF TagInv
<1>. DEFINE s == [reader[r] EXCEPT !.phase = "loaded", !.ver = v]
<1>4. s \in States /\ s.phase = "loaded" /\ s.gen = reader[r].gen
  BY <1>3, Types DEF TagInv, States
<1>5. \A t \in Tag : s.gen[t] <= nonce'
  BY <1>4 DEF TagInv, Drawn, LoadBare, world
<1>6. ReaderBecomes(r, s) /\ UNCHANGED loaded
  BY <1>2 DEF LoadBare
<1>. HIDE DEF s
<1>. QED  BY <1>1, <1>4, <1>5, <1>6, MovesOn

LEMMA EndKeeps ==
  ASSUME TagInv, NEW r \in Reader, ReadReturns(r) \/ Fail(r)
  PROVE  TagInv'
<1>1. WorldMoves
  BY WorldStays DEF ReadReturns, Fail
<1>2. ReaderBecomes(r, [NoRead EXCEPT !.phase = "idle"])
  BY DEF ReadReturns, Fail, NoRead
<1>. QED  BY <1>1, <1>2, MovesBack DEF ReadReturns, Fail

-----------------------------------------------------------------------------
(* The steps of the others. *)

LEMMA CommitKeeps ==
  ASSUME TagInv, Commit
  PROVE  TagInv'
<1>1. WorldMoves
  BY Types, TagAssumption DEF TagInv, TagsTypeOK, Current, WorldMoves, Commit, Version, Generation
<1>. QED  BY <1>1, OnlyWorldMoves DEF Commit

LEMMA InvalidateTagsKeeps ==
  ASSUME TagInv, InvalidateTags
  PROVE  TagInv'
<1>1. PICK T \in SUBSET Tag : RenewGenerations(T)
  BY DEF InvalidateTags
<1>2. WorldMoves
  BY <1>1, Types, TagAssumption
  DEF TagInv, TagsTypeOK, Current, WorldMoves, RenewGenerations, Renewed, Generation
<1>. QED  BY <1>2, OnlyWorldMoves DEF InvalidateTags

LEMMA LoseGenerationsKeeps ==
  ASSUME TagInv, LoseGenerations
  PROVE  TagInv'
<1>1. PICK T \in SUBSET Tag : gen' = [t \in Tag |-> IF t \in T THEN 0 ELSE gen[t]]
  BY DEF LoseGenerations
<1>2. WorldMoves
  BY <1>1, Types, TagAssumption
  DEF TagInv, TagsTypeOK, Current, WorldMoves, LoseGenerations, Generation
<1>. QED  BY <1>2, OnlyWorldMoves DEF LoseGenerations

-----------------------------------------------------------------------------
(* The theorems. *)

LEMMA InitHolds == TagsInit => TagInv
<1>1. TagsInit => TagsTypeOK
  BY TagAssumption DEF TagsInit, TagsTypeOK, Version, States, NoRead, NoGeneration, Generation
<1>2. TagsInit => Drawn /\ Current
  BY DEF TagsInit, Drawn, Current, NoRead, NoGeneration
<1>. QED  BY <1>1, <1>2 DEF TagInv

LEMMA StepKeeps == TagInv /\ [TagsNext]_tagsVars => TagInv'
<1>. SUFFICES ASSUME TagInv, [TagsNext]_tagsVars PROVE TagInv'
  OBVIOUS
<1>1. ASSUME NEW r \in Reader, Call(r) \/ Proceed(r) \/ FallBack(r) \/ Fail(r)
      PROVE  TagInv'
  BY <1>1, CallKeeps, BeforeKeeps, GetUnderKeeps, AfterKeeps, FallBackKeeps, LoadBareKeeps,
     EndKeeps DEF Proceed
<1>2. CASE UNCHANGED tagsVars
  BY <1>2, WorldStays, OnlyWorldMoves DEF tagsVars
<1>. QED
  BY <1>1, <1>2, CommitKeeps, InvalidateTagsKeeps, LoseGenerationsKeeps DEF TagsNext

\* The types hold, nonces are not drawn twice, and what is loaded under
\* generations that are still there takes in every invalidation.
THEOREM KeysAreCurrent == TagsSpec => []TagInv
<1>. QED  BY InitHolds, StepKeeps, PTL DEF TagsSpec

\* Every key of a tagged read has a generation for each of its tags (the
\* script draws those that are missing), and the types hold.
THEOREM TagsTypeCorrect == TagsSpec => []TagsTypeOK
<1>1. TagInv => TagsTypeOK
  BY DEF TagInv
<1>. QED  BY <1>1, KeysAreCurrent, PTL

\* A reader that finds its generations unchanged returns a value that takes in
\* what was invalidated by then.
LEMMA CheckedReads ==
  ASSUME TagInv, [TagsNext]_tagsVars
  PROVE  Checked
<1>. SUFFICES ASSUME NEW r \in Reader, reader[r].phase = "after", reader'[r].phase = "done",
                     NEW t \in Tags[r]
              PROVE  reader[r].ver >= floor[t]
  BY DEF Checked
<1>1. reader \in [Reader -> States] /\ Tags[r] \in SUBSET Tag /\ t \in Tag
  BY TagAssumption DEF TagInv, TagsTypeOK
<1>2. ASSUME NEW q \in Reader, q # r, NEW s, ReaderBecomes(q, s) PROVE FALSE
  BY <1>1, <1>2 DEF ReaderBecomes
<1>3. ASSUME NEW phase \in {"idle", "before", "get", "after", "bare", "loaded", "done"},
             phase # "done", ReaderBecomes(r, [NoRead EXCEPT !.phase = phase])
      PROVE  FALSE
  BY <1>1, <1>3, IdleState DEF ReaderBecomes
<1>4. ~ ReaderBecomes(r, NoRead)
  BY <1>1, IdleState DEF ReaderBecomes
<1>5. ~ UNCHANGED reader
  OBVIOUS
<1>6. After(r) /\ ReaderBecomes(r, ReadDone(r))
  <2>1. PICK q \in Reader : Call(q) \/ Proceed(q) \/ FallBack(q) \/ Fail(q)
    BY <1>5 DEF TagsNext, tagsVars, Commit, InvalidateTags, LoseGenerations
  <2>2. q = r
    BY <1>2, <2>1
    DEF Call, Proceed, FallBack, Fail, Before, GetUnder, After, LoadBare, ReadReturns
  <2>3. After(r)
    BY <1>3, <1>4, <2>1, <2>2
    DEF Call, Proceed, FallBack, Fail, Before, GetUnder, LoadBare, ReadReturns
  <2>. QED  BY <1>3, <2>3 DEF After
<1>7. Generations(Tags[r]) /\ Of(Filled(Tags[r]), Tags[r]) = reader[r].gen
  <2>1. ~ ReaderBecomes(r, [NoRead EXCEPT !.phase = "before"])
    BY <1>3
  <2>. QED  BY <1>6, <2>1 DEF After
<1>8. reader[r].gen[t] = gen'[t] /\ gen'[t] > 0
  BY <1>1, <1>7, GenerationsRead
<1>9. gen'[t] = gen[t]
  <2>1. gen[t] <= nonce /\ nonce \in Nat /\ reader[r].gen[t] <= nonce
    BY <1>1, Types DEF TagInv, Drawn
  <2>. QED  BY <1>1, <1>7, <1>8, <2>1, GenerationsRead
<1>. QED  BY <1>1, <1>8, <1>9 DEF TagInv, Current, TakesIn

\* A tagged read that is no fallback returns nothing older than any
\* invalidation of its tags that was carried out when it checked.
THEOREM TaggedReadsHold == TagsSpec => TaggedReadsAreCurrent
<1>1. TagInv /\ [TagsNext]_tagsVars => [Checked]_tagsVars
  BY CheckedReads
<1>. QED  BY <1>1, KeysAreCurrent, PTL DEF TagsSpec, TaggedReadsAreCurrent
=============================================================================
