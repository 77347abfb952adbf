-------------------------- MODULE ReadCacheProofs --------------------------
(***************************************************************************)
(* Proofs about ReadCache, for any number of processes and callers, any    *)
(* durations, any number of commits and of commands that arrive late.      *)
(***************************************************************************)
EXTENDS ReadCache, TLAPS

Phases == {"none", "acquire", "discard", "load", "read", "publish", "release", "done"}

LEMMA Constants ==
  /\ 0 \in Version /\ 0 \in 0..TTL /\ 0 \in 0..LoadTimeout /\ 0 \in 0..Outage
  /\ Lease \in 1..Lease /\ TTL \in 0..TTL /\ LoadTimeout \in 0..LoadTimeout
  /\ Outage \in 0..Outage
  /\ \A p \in Proc : Codec[p] \in Codecs
  /\ \A c \in Caller : Home[c] \in Proc
BY CacheAssumption DEF Version, Codecs

LEMMA Fields ==
  ASSUME NEW f \in Flight
  PROVE  /\ f.phase \in Phases /\ f.token \in Token \cup {None} /\ f.budget \in 0..TTL
         /\ f.timeout \in 0..LoadTimeout /\ f.renewing \in BOOLEAN
         /\ f.kind \in {"ok", "uncacheable", "error"} /\ f.ver \in Version
         /\ f.until \in 0..TTL /\ f.codec \in Codecs /\ f.base \in Version
BY DEF Flight, Phases

LEMMA NoFlightType ==
  ASSUME NEW p \in Proc
  PROVE  NoFlight(p) \in Flight
BY Constants DEF NoFlight, Flight

LEMMA ResultType ==
  ASSUME NEW p \in Proc, NEW kind \in {"ok", "uncacheable", "error"}, NEW ver \in Version,
         NEW codec \in Codecs, NEW base \in Version
  PROVE  LET f == Result(p, kind, ver, codec, base)
         IN  /\ f \in Flight
             /\ f.phase = "done" /\ f.token = None /\ f.kind = kind /\ f.ver = ver
             /\ f.base = base
BY Constants DEF NoFlight, Flight, Result

\* Only the flight of p moves, and it stays a flight.
Moves(p) ==
  /\ flight' \in [Proc -> Flight]
  /\ \A q \in Proc : q # p => flight'[q] = flight[q]

LEMMA BecomesMoves ==
  ASSUME flight \in [Proc -> Flight], NEW p \in Proc, NEW f \in Flight, Becomes(p, f)
  PROVE  Moves(p) /\ flight'[p] = f
BY DEF Becomes, Moves

-----------------------------------------------------------------------------
(* What each action makes of the flight it moves. *)

LEMMA HitMoves ==
  ASSUME TypeOK, NEW p \in Proc, Hit(p)
  PROVE  /\ Moves(p) /\ flight'[p].phase = "done" /\ flight'[p].token = None
         /\ flight'[p].ver = value.ver /\ flight'[p].base = floor
<1>1. value.ver \in Version /\ value.codec \in Codecs /\ floor \in Version
  BY DEF TypeOK, Hit, Entry
<1> QED
  BY <1>1, ResultType, BecomesMoves DEF TypeOK, Hit, Done

LEMMA FindExpiredMoves ==
  ASSUME TypeOK, NEW p \in Proc, FindExpired(p)
  PROVE  /\ Moves(p)
         /\ flight'[p].phase = "discard" /\ flight'[p].token = flight[p].token
<1> DEFINE f == [flight[p] EXCEPT !.phase = "discard", !.ver = value.ver, !.until = 0,
                                  !.codec = value.codec]
<1>1. flight[p] \in Flight /\ value.ver \in Version /\ value.codec \in Codecs
  BY Constants DEF TypeOK, FindExpired, Entry
<1>2. f \in Flight /\ f.phase = "discard" /\ f.token = flight[p].token
  BY <1>1, Constants DEF Flight
<1>3. Becomes(p, f)
  BY DEF FindExpired
<1> HIDE DEF f
<1> QED
  BY <1>2, <1>3, BecomesMoves DEF TypeOK

LEMMA TakeLockMoves ==
  ASSUME TypeOK, NEW p \in Proc, TakeLock(p)
  PROVE  /\ Moves(p)
         /\ flight'[p].phase = "load" /\ flight'[p].token = flight[p].token
<1> DEFINE f == [flight[p] EXCEPT !.phase = "load", !.renewing = TRUE]
<1>1. flight[p] \in Flight
  BY Constants DEF TypeOK
<1>2. f \in Flight /\ f.phase = "load" /\ f.token = flight[p].token
  BY <1>1, Constants DEF Flight
<1>3. Becomes(p, f)
  BY DEF TakeLock
<1> HIDE DEF f
<1> QED
  BY <1>2, <1>3, BecomesMoves DEF TypeOK

LEMMA LoadUnlockedType ==
  ASSUME TypeOK, NEW p \in Proc
  PROVE  /\ LoadUnlocked(p) \in Flight
         /\ LoadUnlocked(p).phase = "load" /\ LoadUnlocked(p).token = None
<1>1. flight[p] \in Flight
  BY DEF TypeOK
<1> QED
  BY <1>1, Constants DEF LoadUnlocked, Flight

LEMMA AcquireFailsMoves ==
  ASSUME TypeOK, NEW p \in Proc, AcquireFails(p)
  PROVE  /\ Moves(p)
         /\ flight'[p].phase = "load" /\ flight'[p].token = None
<1>1. LoadUnlocked(p) \in Flight /\ LoadUnlocked(p).phase = "load" /\ LoadUnlocked(p).token = None
  BY LoadUnlockedType
<1> QED
  BY <1>1, BecomesMoves DEF TypeOK, AcquireFails

LEMMA DiscardFailsMoves ==
  ASSUME TypeOK, NEW p \in Proc, DiscardFails(p)
  PROVE  /\ Moves(p)
         /\ flight'[p].phase = "load" /\ flight'[p].token = None
<1>1. LoadUnlocked(p) \in Flight /\ LoadUnlocked(p).phase = "load" /\ LoadUnlocked(p).token = None
  BY LoadUnlockedType
<1> QED
  BY <1>1, BecomesMoves DEF TypeOK, DiscardFails

LEMMA DiscardMoves ==
  ASSUME TypeOK, NEW p \in Proc, Discard(p)
  PROVE  /\ Moves(p)
         /\ flight'[p].phase = "acquire" /\ flight'[p].token = flight[p].token
<1> DEFINE f == [flight[p] EXCEPT !.phase = "acquire", !.ver = 0, !.codec = Codec[p]]
<1>1. flight[p] \in Flight
  BY Constants DEF TypeOK
<1>2. f \in Flight /\ f.phase = "acquire" /\ f.token = flight[p].token
  BY <1>1, Constants DEF Flight
<1>3. Becomes(p, f)
  BY DEF Discard
<1> HIDE DEF f
<1> QED
  BY <1>2, <1>3, BecomesMoves DEF TypeOK

LEMMA RenewMoves ==
  ASSUME TypeOK, NEW p \in Proc, Renew(p)
  PROVE  /\ Moves(p)
         /\ flight'[p].phase = flight[p].phase /\ flight'[p].token = flight[p].token /\ flight'[p].kind = flight[p].kind
         /\ flight'[p].ver = flight[p].ver /\ flight'[p].until = flight[p].until /\ flight'[p].budget = flight[p].budget
<1> DEFINE f == [flight[p] EXCEPT !.renewing = Owns(flight[p].token)]
<1>1. flight[p] \in Flight /\ Owns(flight[p].token) \in BOOLEAN
  BY Constants DEF TypeOK, Owns
<1>2. f \in Flight /\ f.phase = flight[p].phase /\ f.token = flight[p].token /\ f.kind = flight[p].kind
     /\ f.ver = flight[p].ver /\ f.until = flight[p].until /\ f.budget = flight[p].budget
  BY <1>1, Constants DEF Flight
<1>3. Becomes(p, f)
  BY DEF Renew
<1> HIDE DEF f
<1> QED
  BY <1>2, <1>3, BecomesMoves DEF TypeOK

LEMMA RenewFailsMoves ==
  ASSUME TypeOK, NEW p \in Proc, RenewFails(p)
  PROVE  /\ Moves(p)
         /\ flight'[p].phase = flight[p].phase /\ flight'[p].token = flight[p].token /\ flight'[p].kind = flight[p].kind
         /\ flight'[p].ver = flight[p].ver /\ flight'[p].until = flight[p].until /\ flight'[p].budget = flight[p].budget
<1> DEFINE f == [flight[p] EXCEPT !.renewing = FALSE]
<1>1. flight[p] \in Flight
  BY Constants DEF TypeOK
<1>2. f \in Flight /\ f.phase = flight[p].phase /\ f.token = flight[p].token /\ f.kind = flight[p].kind
     /\ f.ver = flight[p].ver /\ f.until = flight[p].until /\ f.budget = flight[p].budget
  BY <1>1, Constants DEF Flight
<1>3. Becomes(p, f)
  BY DEF RenewFails
<1> HIDE DEF f
<1> QED
  BY <1>2, <1>3, BecomesMoves DEF TypeOK

LEMMA ReadSourceMoves ==
  ASSUME TypeOK, NEW p \in Proc, ReadSource(p)
  PROVE  /\ Moves(p)
         /\ flight'[p].phase = "read" /\ flight'[p].token = flight[p].token /\ flight'[p].ver = db /\ flight'[p].budget = flight[p].budget
<1> DEFINE f == [flight[p] EXCEPT !.phase = "read", !.ver = db]
<1>1. flight[p] \in Flight /\ db \in Version
  BY Constants DEF TypeOK
<1>2. f \in Flight /\ f.phase = "read" /\ f.token = flight[p].token /\ f.ver = db /\ f.budget = flight[p].budget
  BY <1>1, Constants DEF Flight
<1>3. Becomes(p, f)
  BY DEF ReadSource
<1> HIDE DEF f
<1> QED
  BY <1>2, <1>3, BecomesMoves DEF TypeOK

LEMMA TimesOutMoves ==
  ASSUME TypeOK, NEW p \in Proc, TimesOut(p)
  PROVE  /\ Moves(p)
         /\ flight'[p].phase = "done" /\ flight'[p].token = None
         /\ flight'[p].kind = "error"
<1>1. flight[p] \in Flight /\ Codec[p] \in Codecs /\ floor \in Version
  BY Constants DEF TypeOK
<1>2. flight[p].kind \in {"ok", "uncacheable", "error"} /\ flight[p].ver \in Version
  BY <1>1, Fields
<1> QED
  BY <1>1, <1>2, Constants, ResultType, BecomesMoves DEF TypeOK, TimesOut, Done

LEMMA PublishFailsMoves ==
  ASSUME TypeOK, NEW p \in Proc, PublishFails(p)
  PROVE  /\ Moves(p)
         /\ flight'[p].phase = "done" /\ flight'[p].token = None
         /\ flight'[p].kind = flight[p].kind /\ flight'[p].ver = flight[p].ver /\ flight'[p].base = 0
<1>1. flight[p] \in Flight /\ Codec[p] \in Codecs /\ floor \in Version
  BY Constants DEF TypeOK
<1>2. flight[p].kind \in {"ok", "uncacheable", "error"} /\ flight[p].ver \in Version
  BY <1>1, Fields
<1> QED
  BY <1>1, <1>2, Constants, ResultType, BecomesMoves DEF TypeOK, PublishFails, Done

LEMMA ReleaseMoves ==
  ASSUME TypeOK, NEW p \in Proc, Release(p)
  PROVE  /\ Moves(p)
         /\ flight'[p].phase = "done" /\ flight'[p].token = None
         /\ flight'[p].kind = "error"
<1>1. flight[p] \in Flight /\ Codec[p] \in Codecs /\ floor \in Version
  BY Constants DEF TypeOK
<1>2. flight[p].kind \in {"ok", "uncacheable", "error"} /\ flight[p].ver \in Version
  BY <1>1, Fields
<1> QED
  BY <1>1, <1>2, Constants, ResultType, BecomesMoves DEF TypeOK, Release, Done

LEMMA ReleaseFailsMoves ==
  ASSUME TypeOK, NEW p \in Proc, ReleaseFails(p)
  PROVE  /\ Moves(p)
         /\ flight'[p].phase = "done" /\ flight'[p].token = None
         /\ flight'[p].kind = "error"
<1>1. flight[p] \in Flight /\ Codec[p] \in Codecs /\ floor \in Version
  BY Constants DEF TypeOK
<1>2. flight[p].kind \in {"ok", "uncacheable", "error"} /\ flight[p].ver \in Version
  BY <1>1, Fields
<1> QED
  BY <1>1, <1>2, Constants, ResultType, BecomesMoves DEF TypeOK, ReleaseFails, Done

LEMMA LoadErrsMoves ==
  ASSUME TypeOK, NEW p \in Proc, LoadErrs(p)
  PROVE  /\ Moves(p)
         /\ \/ /\ Locked(flight[p])
               /\ flight'[p].phase = "release" /\ flight'[p].token = flight[p].token
            \/ /\ ~Locked(flight[p])
               /\ flight'[p].phase = "done" /\ flight'[p].token = None /\ flight'[p].kind = "error"
<1> DEFINE f == [flight[p] EXCEPT !.phase = "release", !.kind = "error", !.ver = 0,
                                  !.renewing = FALSE]
<1>1. flight[p] \in Flight /\ Codec[p] \in Codecs
  BY Constants DEF TypeOK
<1>2. f \in Flight /\ f.phase = "release" /\ f.token = flight[p].token
  BY <1>1, Constants DEF Flight
<1>3. Locked(flight[p]) => Becomes(p, f)
  BY DEF LoadErrs
<1> HIDE DEF f
<1>4. CASE Locked(flight[p])
  BY <1>2, <1>3, <1>4, BecomesMoves DEF TypeOK
<1>5. CASE ~Locked(flight[p])
  BY <1>1, <1>5, Constants, ResultType, BecomesMoves DEF TypeOK, LoadErrs, Done
<1> QED
  BY <1>4, <1>5

LEMMA LoadEndsMoves ==
  ASSUME TypeOK, NEW p \in Proc, LoadEnds(p)
  PROVE  /\ Moves(p)
         /\ \/ /\ Locked(flight[p])
               /\ flight'[p].phase = "publish" /\ flight'[p].token = flight[p].token
               /\ flight'[p].ver = flight[p].ver /\ flight'[p].until <= flight[p].budget
            \/ /\ ~Locked(flight[p])
               /\ flight'[p].phase = "done" /\ flight'[p].token = None
               /\ flight'[p].base = 0
<1>1. flight[p] \in Flight /\ Codec[p] \in Codecs
  BY Constants DEF TypeOK
<1>2. flight[p].budget \in 0..TTL /\ flight[p].ver \in Version
  BY <1>1, Fields
<1>a. PICK kind \in {"ok", "uncacheable"} :
        \E u \in (IF kind = "ok" THEN Stored(flight[p].budget) ELSE {0}) :
          IF Locked(flight[p])
            THEN Becomes(p, [flight[p] EXCEPT !.phase = "publish", !.kind = kind, !.until = u,
                                              !.renewing = FALSE])
            ELSE Done(p, kind, flight[p].ver, Codec[p], 0)
  BY DEF LoadEnds
<1>3. PICK u \in (IF kind = "ok" THEN Stored(flight[p].budget) ELSE {0}) :
        IF Locked(flight[p])
          THEN Becomes(p, [flight[p] EXCEPT !.phase = "publish", !.kind = kind, !.until = u,
                                            !.renewing = FALSE])
          ELSE Done(p, kind, flight[p].ver, Codec[p], 0)
  BY <1>a
<1>4. u \in 0..TTL /\ u <= flight[p].budget
  BY <1>2, <1>3, CacheAssumption DEF Stored
<1> DEFINE f == [flight[p] EXCEPT !.phase = "publish", !.kind = kind, !.until = u,
                                  !.renewing = FALSE]
<1>5. /\ f \in Flight /\ f.phase = "publish" /\ f.token = flight[p].token
      /\ f.ver = flight[p].ver /\ f.until = u
  BY <1>1, <1>4 DEF Flight
<1>6. Locked(flight[p]) => Becomes(p, f)
  BY <1>3
<1> HIDE DEF f
<1>7. CASE Locked(flight[p])
  BY <1>4, <1>5, <1>6, <1>7, BecomesMoves DEF TypeOK
<1>8. CASE ~Locked(flight[p])
  BY <1>1, <1>2, <1>3, <1>8, Constants, ResultType, BecomesMoves DEF TypeOK, Done
<1> QED
  BY <1>7, <1>8

LEMMA PublishMoves ==
  ASSUME TypeOK, NEW p \in Proc, Publish(p)
  PROVE  /\ Moves(p)
         /\ \/ /\ Owns(flight[p].token)
               /\ flight'[p].phase = "done" /\ flight'[p].token = None
               /\ flight'[p].ver = flight[p].ver /\ flight'[p].base = floor
            \/ /\ ~Owns(flight[p].token)
               /\ flight'[p].phase = "acquire" /\ flight'[p].token = flight[p].token
<1> DEFINE f == [flight[p] EXCEPT !.phase = "acquire", !.kind = "ok", !.ver = 0, !.until = 0]
<1>1. flight[p] \in Flight /\ Codec[p] \in Codecs /\ floor \in Version
  BY Constants DEF TypeOK
<1>2. flight[p].kind \in {"ok", "uncacheable", "error"} /\ flight[p].ver \in Version
  BY <1>1, Fields
<1>3. f \in Flight /\ f.phase = "acquire" /\ f.token = flight[p].token
  BY <1>1, Constants DEF Flight
<1>4. ~Owns(flight[p].token) => Becomes(p, f)
  BY DEF Publish
<1> HIDE DEF f
<1>5. CASE ~Owns(flight[p].token)
  BY <1>3, <1>4, <1>5, BecomesMoves DEF TypeOK
<1>6. CASE Owns(flight[p].token)
  BY <1>1, <1>2, <1>6, ResultType, BecomesMoves DEF TypeOK, Publish, Done
<1> QED
  BY <1>5, <1>6

LEMMA DeliverMoves ==
  ASSUME TypeOK, NEW p \in Proc, Deliver(p)
  PROVE  Moves(p) /\ flight'[p] = NoFlight(p)
BY NoFlightType, BecomesMoves DEF TypeOK, Deliver

LEMMA CrashMoves ==
  ASSUME TypeOK, NEW p \in Proc, Crash(p)
  PROVE  Moves(p) /\ flight'[p] = NoFlight(p)
BY NoFlightType, BecomesMoves DEF TypeOK, Crash, Becomes

\* A flight that starts has a new nonce, or goes to the source.
LEMMA CoalesceMoves ==
  ASSUME TypeOK, NEW p \in Proc, NEW budget \in 0..TTL, Coalesce(p, budget)
  PROVE  /\ Moves(p)
         /\ \/ flight'[p] = flight[p]
            \/ flight'[p].phase = "load" /\ flight'[p].token = None
            \/ flight'[p].phase = "acquire" /\ flight'[p].token \in Token \ InUse
<1> DEFINE s == [NoFlight(p) EXCEPT !.budget = budget, !.timeout = LoadTimeout]
           load == [s EXCEPT !.phase = "load"]
<1>1. s \in Flight /\ s.token = None
  BY Constants DEF NoFlight, Flight
<1>2. CASE UNCHANGED flight
  BY <1>2 DEF Moves, TypeOK
<1>3. CASE Becomes(p, load)
  <2>1. load \in Flight /\ load.phase = "load" /\ load.token = None
    <3> HIDE DEF s
    <3> QED
      BY <1>1 DEF Flight
  <2> HIDE DEF load
  <2> QED
    BY <1>3, <2>1, BecomesMoves DEF TypeOK
<1>4. ASSUME NEW t \in Token \ InUse,
             Becomes(p, [s EXCEPT !.phase = "acquire", !.token = t])
      PROVE  Moves(p) /\ flight'[p].phase = "acquire" /\ flight'[p].token = t
  <2> DEFINE acq == [s EXCEPT !.phase = "acquire", !.token = t]
  <2>1. acq \in Flight /\ acq.phase = "acquire" /\ acq.token = t
    <3> HIDE DEF s
    <3> QED
      BY <1>1 DEF Flight
  <2> HIDE DEF acq, s
  <2>2. Becomes(p, acq)
    BY <1>4 DEF acq
  <2> QED
    BY <2>1, <2>2, BecomesMoves DEF TypeOK
<1>5. \/ UNCHANGED flight
      \/ Becomes(p, load)
      \/ \E t \in Token \ InUse : Becomes(p, [s EXCEPT !.phase = "acquire", !.token = t])
  BY DEF Coalesce
<1> HIDE DEF s, load
<1> QED
  BY <1>2, <1>3, <1>4, <1>5

-----------------------------------------------------------------------------
(* Types. *)

\* Nonces tell flights and their commands apart.  A command that asks for the
\* lock, or publishes under it, is on its way only when its flight is over; and
\* nothing published late can find its nonce in a lock acquired late.
HasToken(f) == f.phase \in {"acquire", "discard", "publish", "release"}
TokensKept ==
  \A p \in Proc : /\ HasToken(flight[p]) => flight[p].token # None
                  /\ flight[p].phase \in {"none", "done"} => flight[p].token = None
TokensApart ==
  \A p, q \in Proc : p # q /\ flight[p].token # None => flight[p].token # flight[q].token
LateApart ==
  \A m \in late : m.op \in {"acquire", "publish"} =>
    m.token \in Token /\ \A p \in Proc : flight[p].token # m.token
PublishedOrAcquired ==
  \A m, n \in late : m.op = "publish" /\ n.op = "acquire" => m.token # n.token
TokenInv == TokensKept /\ TokensApart /\ LateApart /\ PublishedOrAcquired

RedisTypes ==
  value' \in Entry \cup {None} /\ lock' \in Lock \cup {None} /\ floor' \in Version

LEMMA DoTypes ==
  ASSUME TypeOK, NEW t \in Token \cup {None}
  PROVE  /\ \A lost \in BOOLEAN : t # None /\ DoAcquire(t, lost) => RedisTypes
         /\ DoRenew(t) => RedisTypes
         /\ DoRelease(t) => RedisTypes
         /\ DoDelete => RedisTypes
         /\ \A m : DoDiscard(m) => RedisTypes
         /\ \A m \in Command : DoPublish(t, m) => RedisTypes
<1>1. ASSUME NEW lost \in BOOLEAN, t # None, DoAcquire(t, lost) PROVE RedisTypes
  BY <1>1, Constants DEF DoAcquire, RedisTypes, TypeOK, Lock
<1>2. DoRenew(t) => RedisTypes
  <2>1. Owns(t) => [lock EXCEPT !.left = Lease] \in Lock
    BY Constants DEF Owns, TypeOK, Lock
  <2> QED
    BY <2>1 DEF DoRenew, RedisTypes, TypeOK
<1>3. DoRelease(t) => RedisTypes
  BY DEF DoRelease, RedisTypes, TypeOK
<1>4. DoDelete => RedisTypes
  BY DEF DoDelete, RedisTypes, TypeOK
<1>5. ASSUME NEW m, DoDiscard(m) PROVE RedisTypes
  BY <1>5 DEF DoDiscard, RedisTypes, TypeOK
<1>6. ASSUME NEW m \in Command, DoPublish(t, m) PROVE RedisTypes
  <2>1. m.px > 0 => EntryOf(m) \in Entry
    BY CacheAssumption DEF Command, EntryOf, Entry
  <2> QED
    BY <1>6, <2>1 DEF DoPublish, RedisTypes, TypeOK
<1> QED
  BY <1>1, <1>2, <1>3, <1>4, <1>5, <1>6

LEMMA CmdTypes ==
  ASSUME TypeOK, NEW p \in Proc,
         NEW op \in {"acquire", "renew", "publish", "release", "discard", "del"}
  PROVE  /\ Cmd(op, p) \in Command /\ Cmd(op, p).op = op /\ Cmd(op, p).token = flight[p].token
         /\ Cmd(op, p).ver = flight[p].ver /\ Cmd(op, p).until = flight[p].until
         /\ Cmd(op, p).px = flight[p].until
<1>1. flight[p] \in Flight
  BY DEF TypeOK
<1> QED
  BY <1>1, Fields DEF Cmd, Command

LEMMA DelCmdTypes ==
  ASSUME TypeOK, NEW p \in Proc
  PROVE  DelCmd(p) \in Command /\ DelCmd(p).op = "del"
<1> DEFINE m == Cmd("del", p)
<1>1. m \in Command /\ m.op = "del"
  BY CmdTypes
<1> HIDE DEF m
<1>2. DelCmd(p) = [m EXCEPT !.token = None, !.ver = 0, !.until = 0, !.px = 0,
                            !.codec = Codec[p]]
  BY DEF DelCmd, m
<1> QED
  BY <1>1, <1>2, Constants DEF Command

\* What is on its way after a failure: what was, and perhaps the command.
LEMMA LateGrows ==
  ASSUME TypeOK, NEW m, MayArrive(m) \/ UNCHANGED late
  PROVE  late' = late \/ late' = late \cup {m}
BY DEF MayArrive

LEMMA FailsGrows ==
  ASSUME TypeOK, NEW p \in Proc, NEW op, Fails(op, p)
  PROVE  late' = late \/ late' = late \cup {Cmd(op, p)}
BY LateGrows DEF Fails

LEMMA GiveUpTypes ==
  ASSUME TypeOK, NEW t, GiveUp(t)
  PROVE  /\ lock' \in Lock \cup {None}
         /\ lock = None => lock' = None
         /\ lock # None => lock' # None /\ lock'.token = lock.token
         /\ ~Owns(t) => lock' = lock
         /\ Owns(t) => lock'.lost
<1>1. lock # None => /\ [lock EXCEPT !.lost = TRUE] \in Lock
                     /\ [lock EXCEPT !.lost = TRUE].token = lock.token
                     /\ [lock EXCEPT !.lost = TRUE].lost
  BY DEF TypeOK, Lock
<1>2. lock # None => [lock EXCEPT !.lost = TRUE] # None
  BY <1>1, NoneAssumption
<1> QED
  BY <1>1, <1>2 DEF GiveUp, Owns, TypeOK


CallerStates == [phase : {"idle", "waiting", "undecoded", "again", "alone"},
                 budget : 0..TTL, retried : BOOLEAN]

OtherTypes == age' \in [Version -> 0..TTL] /\ db' \in Version
                /\ late' \in SUBSET Command /\ outage' \in [Proc -> 0..Outage]
                /\ caller' \in [Caller -> CallerStates]

LEMMA SameTypes ==
  ASSUME TypeOK
  PROVE  /\ UNCHANGED source => age' \in [Version -> 0..TTL] /\ db' \in Version
         /\ UNCHANGED late => late' \in SUBSET Command
         /\ UNCHANGED outage => outage' \in [Proc -> 0..Outage]
         /\ UNCHANGED caller => caller' \in [Caller -> CallerStates]
         /\ UNCHANGED <<value, lock, floor>> => RedisTypes
         /\ UNCHANGED flight => flight' \in [Proc -> Flight]
BY DEF TypeOK, source, CallerStates, RedisTypes

LEMMA FailedTypes ==
  ASSUME TypeOK, NEW p \in Proc, Failed(p)
  PROVE  outage' \in [Proc -> 0..Outage]
BY Constants DEF TypeOK, Failed

LEMMA FailsTypes ==
  ASSUME TypeOK, NEW p \in Proc
  PROVE  /\ \A op \in {"acquire", "renew", "publish", "release", "discard", "del"} :
              Fails(op, p) => late' \in SUBSET Command
         /\ MayArrive(DelCmd(p)) => late' \in SUBSET Command
BY CmdTypes, DelCmdTypes, FailsGrows DEF TypeOK, MayArrive

LEMMA IdleType ==
  /\ Idle \in CallerStates
  /\ [phase |-> "waiting", budget |-> TTL, retried |-> FALSE] \in CallerStates
BY Constants DEF Idle, CallerStates

LEMMA Assemble ==
  ASSUME RedisTypes, OtherTypes, flight' \in [Proc -> Flight]
  PROVE  TypeOK'
BY DEF RedisTypes, OtherTypes, TypeOK, CallerStates

LEMMA WorksTypes ==
  ASSUME TypeOK, TokenInv, NEW p \in Proc, Works(p)
  PROVE  TypeOK'
<1> USE DEF redis
<1>0. flight[p] \in Flight /\ flight[p].token \in Token \cup {None}
  BY Fields DEF TypeOK
<1>1. CASE Acquire(p)
  <2>1. flight[p].token # None
    BY <1>1 DEF Acquire, TokenInv, TokensKept, HasToken
  <2>2. OtherTypes
    BY <1>1, SameTypes DEF Acquire, Hit, FindExpired, TakeLock, OtherTypes
  <2>3. RedisTypes
    BY <1>0, <1>1, <2>1, SameTypes, DoTypes DEF Acquire, Hit, FindExpired, TakeLock
  <2> QED
    BY <1>1, <2>2, <2>3, HitMoves, FindExpiredMoves, TakeLockMoves, Assemble DEF Acquire, Moves
<1>2. CASE TimesOut(p)
  BY <1>2, TimesOutMoves, SameTypes, Assemble DEF TimesOut, OtherTypes, Moves
<1>3. CASE Discard(p)
  <2>1. RedisTypes
    BY <1>0, <1>3, DoTypes DEF Discard
  <2> QED
    BY <1>3, <2>1, DiscardMoves, SameTypes, Assemble DEF Discard, OtherTypes, Moves
<1>4. CASE Publish(p)
  <2>1. Cmd("publish", p) \in Command
    BY CmdTypes
  <2>2. RedisTypes
    BY <1>0, <1>4, <2>1, DoTypes DEF Publish
  <2> QED
    BY <1>4, <2>2, PublishMoves, SameTypes, Assemble DEF Publish, OtherTypes, Moves
<1>5. CASE Release(p)
  <2>1. RedisTypes
    BY <1>0, <1>5, DoTypes DEF Release
  <2> QED
    BY <1>5, <2>1, ReleaseMoves, SameTypes, Assemble DEF Release, OtherTypes, Moves
<1>6. CASE ReadSource(p)
  BY <1>6, ReadSourceMoves, SameTypes, Assemble DEF ReadSource, OtherTypes, Moves
<1>7. CASE LoadEnds(p)
  BY <1>7, LoadEndsMoves, SameTypes, Assemble DEF LoadEnds, OtherTypes, Moves
<1>8. CASE LoadErrs(p)
  BY <1>8, LoadErrsMoves, SameTypes, Assemble DEF LoadErrs, OtherTypes, Moves
<1>9. CASE Deliver(p)
  <2>1. \A c \in Caller : After(flight[p], c) \in CallerStates
    <3> SUFFICES ASSUME NEW c \in Caller PROVE After(flight[p], c) \in CallerStates
      OBVIOUS
    <3>1. caller[c] \in CallerStates
      BY DEF TypeOK, CallerStates
    <3>2. flight[p].kind \in {"ok", "uncacheable", "error"}
      BY <1>0, Fields
    <3> QED
      BY <3>1, <3>2, IdleType DEF After, CallerStates
  <2>2. caller' \in [Caller -> CallerStates]
    BY <1>9, <2>1 DEF Deliver, TypeOK, CallerStates
  <2> QED
    BY <1>9, <2>2, DeliverMoves, SameTypes, Assemble DEF Deliver, OtherTypes, Moves
<1> QED
  BY <1>1, <1>2, <1>3, <1>4, <1>5, <1>6, <1>7, <1>8, <1>9 DEF Works

LEMMA BreaksTypes ==
  ASSUME TypeOK, NEW p \in Proc, Breaks(p)
  PROVE  TypeOK'
<1>1. CASE AcquireFails(p)
  BY <1>1, AcquireFailsMoves, FailsTypes, FailedTypes, SameTypes, Assemble
  DEF AcquireFails, OtherTypes, Moves
<1>2. CASE DiscardFails(p)
  BY <1>2, DiscardFailsMoves, FailsTypes, FailedTypes, SameTypes, Assemble
  DEF DiscardFails, OtherTypes, Moves
<1>3. CASE PublishFails(p)
  <2>1. RedisTypes
    BY <1>3, GiveUpTypes DEF PublishFails, RedisTypes, TypeOK
  <2> QED
    BY <1>3, <2>1, PublishFailsMoves, FailsTypes, FailedTypes, SameTypes, Assemble
    DEF PublishFails, OtherTypes, Moves
<1>4. CASE ReleaseFails(p)
  <2>1. RedisTypes
    BY <1>4, GiveUpTypes DEF ReleaseFails, RedisTypes, TypeOK
  <2> QED
    BY <1>4, <2>1, ReleaseFailsMoves, FailsTypes, SameTypes, Assemble
    DEF ReleaseFails, OtherTypes, Moves
<1> QED
  BY <1>1, <1>2, <1>3, <1>4 DEF Breaks

LEMMA TickTypes ==
  ASSUME TypeOK, Tick
  PROVE  /\ TypeOK'
         /\ \A p \in Proc : /\ flight'[p].phase = flight[p].phase
                            /\ flight'[p].token = flight[p].token
                            /\ flight'[p].kind = flight[p].kind
                            /\ flight'[p].ver = flight[p].ver
                            /\ flight'[p].base = flight[p].base
                            /\ flight'[p].until = Less(flight[p].until)
                            /\ flight'[p].budget = Less(flight[p].budget)
         /\ value' = None \/ (value # None /\ value'.ver = value.ver
                                /\ value'.until = Less(value.until))
         /\ lock' = None \/ (lock # None /\ lock'.token = lock.token /\ lock'.lost = lock.lost)
         /\ \A m \in late' : \E n \in late :
              m.op = n.op /\ m.token = n.token /\ m.ver = n.ver /\ m.until = Less(n.until)
         /\ \A v \in Version : age'[v] = Older(v)
<1>0. /\ \A n \in 0..TTL : Less(n) \in 0..TTL
      /\ \A n \in 0..LoadTimeout : Less(n) \in 0..LoadTimeout
      /\ \A n \in 0..Outage : Less(n) \in 0..Outage
  BY CacheAssumption DEF Less
<1>1. ASSUME NEW p \in Proc
      PROVE  /\ flight'[p] \in Flight
             /\ flight'[p].phase = flight[p].phase /\ flight'[p].token = flight[p].token
             /\ flight'[p].kind = flight[p].kind /\ flight'[p].ver = flight[p].ver
             /\ flight'[p].base = flight[p].base
             /\ flight'[p].until = Less(flight[p].until)
             /\ flight'[p].budget = Less(flight[p].budget)
  <2> DEFINE f == flight[p]
             g == [f EXCEPT !.budget = Less(f.budget), !.timeout = Less(f.timeout),
                            !.until = Less(f.until)]
  <2>1. f \in Flight
    BY DEF TypeOK
  <2>2. flight'[p] = g
    BY DEF Tick
  <2> HIDE DEF f
  <2>3. Less(f.budget) \in 0..TTL /\ Less(f.timeout) \in 0..LoadTimeout /\ Less(f.until) \in 0..TTL
    BY <1>0, <2>1, Fields
  <2>4. /\ g \in Flight
        /\ g.phase = f.phase /\ g.token = f.token /\ g.kind = f.kind /\ g.ver = f.ver
        /\ g.base = f.base /\ g.until = Less(f.until) /\ g.budget = Less(f.budget)
    BY <2>1, <2>3 DEF Flight
  <2> HIDE DEF g
  <2> QED
    BY <2>2, <2>4 DEF f
<1>2. flight' \in [Proc -> Flight]
  <2>1. flight' = [p \in Proc |-> flight'[p]]
    BY DEF Tick
  <2> QED
    BY <1>1, <2>1
<1>3. /\ value' \in Entry \cup {None}
      /\ value' = None \/ (value # None /\ value'.ver = value.ver
                             /\ value'.until = Less(value.until))
  <2>1. CASE value = None \/ value.px = 1
    BY <2>1 DEF Tick
  <2>2. CASE value # None /\ value.px # 1
    <3> DEFINE w == [value EXCEPT !.until = Less(value.until), !.px = value.px - 1]
    <3>0. value \in Entry /\ value.px \in 1..TTL /\ value.until \in 0..TTL
      BY <2>2 DEF TypeOK, Entry
    <3>1. Less(value.until) \in 0..TTL /\ value.px - 1 \in 1..TTL
      BY <1>0, <2>2, <3>0, CacheAssumption
    <3>2. w \in Entry /\ w.ver = value.ver /\ w.until = Less(value.until)
      BY <3>0, <3>1 DEF Entry
    <3>3. value' = w
      BY <2>2 DEF Tick
    <3> HIDE DEF w
    <3> QED
      BY <2>2, <3>2, <3>3
  <2> QED
    BY <2>1, <2>2
<1>4. /\ lock' \in Lock \cup {None}
      /\ lock' = None \/ (lock # None /\ lock'.token = lock.token /\ lock'.lost = lock.lost)
  <2>1. CASE lock = None \/ lock.left = 1
    BY <2>1 DEF Tick, LockLater
  <2>2. CASE lock # None /\ lock.left # 1
    <3> DEFINE w == [lock EXCEPT !.left = lock.left - 1]
    <3>1. lock \in Lock /\ lock.left - 1 \in 1..Lease
      BY <2>2, CacheAssumption DEF TypeOK, Lock
    <3>2. w \in Lock /\ w.token = lock.token /\ w.lost = lock.lost
      BY <3>1 DEF Lock
    <3>3. lock' = w
      BY <2>2 DEF Tick, LockLater
    <3> HIDE DEF w
    <3> QED
      BY <2>2, <3>2, <3>3
  <2> QED
    BY <2>1, <2>2
<1>5. ASSUME NEW m \in late'
      PROVE  /\ m \in Command
             /\ \E n \in late :
                  m.op = n.op /\ m.token = n.token /\ m.ver = n.ver /\ m.until = Less(n.until)
  <2>1. PICK n \in late : m = [n EXCEPT !.until = Less(n.until)]
    BY <1>5 DEF Tick
  <2>2. n \in Command /\ Less(n.until) \in 0..TTL
    BY <1>0 DEF TypeOK, Command
  <2> QED
    BY <2>1, <2>2 DEF Command
<1>6. ASSUME NEW v \in Version PROVE age'[v] = Older(v) /\ Older(v) \in 0..TTL
  <2>1. age[v] \in 0..TTL
    BY DEF TypeOK
  <2>2. Older(v) \in 0..TTL
    BY <2>1, CacheAssumption DEF Older
  <2> QED
    BY <2>2 DEF Tick
<1>7. age' \in [Version -> 0..TTL]
  <2>1. age' = [v \in Version |-> Older(v)]
    BY DEF Tick
  <2> QED
    BY <1>6, <2>1
<1>8. outage' \in [Proc -> 0..Outage]
  BY <1>0 DEF Tick, TypeOK
<1>9. caller' \in [Caller -> CallerStates]
  <2>1. ASSUME NEW c \in Caller
        PROVE  [caller[c] EXCEPT !.budget = Less(caller[c].budget)] \in CallerStates
    <3>1. caller[c] \in CallerStates
      BY DEF TypeOK, CallerStates
    <3>2. Less(caller[c].budget) \in 0..TTL
      BY <1>0, <3>1 DEF CallerStates
    <3> QED
      BY <3>1, <3>2 DEF CallerStates
  <2>2. caller' = [c \in Caller |-> [caller[c] EXCEPT !.budget = Less(caller[c].budget)]]
    BY DEF Tick
  <2> QED
    BY <2>1, <2>2
<1>10. TypeOK'
  <2>1. RedisTypes
    BY <1>3, <1>4 DEF Tick, TypeOK, RedisTypes
  <2>2. OtherTypes
    BY <1>5, <1>7, <1>8, <1>9 DEF Tick, TypeOK, OtherTypes
  <2> QED
    BY <1>2, <2>1, <2>2, Assemble
<1> QED
  BY <1>1, <1>3, <1>4, <1>5, <1>6, <1>10

LEMMA TypeStep ==
  ASSUME TypeOK, TokenInv, [Next]_vars
  PROVE  TypeOK'
<1> USE DEF redis, source
<1>1. CASE UNCHANGED vars
  BY <1>1 DEF vars, TypeOK
<1>2. ASSUME NEW p \in Proc, Renew(p) PROVE TypeOK'
  <2>1. flight[p].token \in Token \cup {None}
    BY Fields DEF TypeOK
  <2>2. RedisTypes
    BY <1>2, <2>1, DoTypes DEF Renew
  <2> QED
    BY <1>2, <2>2, RenewMoves, SameTypes, Assemble DEF Renew, OtherTypes, Moves
<1>3. ASSUME NEW p \in Proc, RenewFails(p) PROVE TypeOK'
  BY <1>3, RenewFailsMoves, FailsTypes, SameTypes, Assemble DEF RenewFails, OtherTypes, Moves
<1>4. ASSUME NEW p \in Proc, Invalidate(p) PROVE TypeOK'
  BY <1>4, DoTypes, SameTypes, Assemble DEF Invalidate, OtherTypes
<1>5. ASSUME NEW p \in Proc, InvalidateFails(p) PROVE TypeOK'
  BY <1>5, FailsTypes, FailedTypes, SameTypes, Assemble DEF InvalidateFails, OtherTypes
<1>6. ASSUME NEW p \in Proc, Crash(p) PROVE TypeOK'
  <2>1. RedisTypes
    BY <1>6, GiveUpTypes DEF Crash, RedisTypes, TypeOK
  <2>2. caller' \in [Caller -> CallerStates] /\ outage' \in [Proc -> 0..Outage]
    BY <1>6, IdleType, Constants DEF Crash, TypeOK, CallerStates
  <2> QED
    BY <1>6, <2>1, <2>2, CrashMoves, SameTypes, Assemble DEF Crash, OtherTypes, Moves
<1>7. ASSUME NEW c \in Caller, Call(c) PROVE TypeOK'
  <2>1. caller' \in [Caller -> CallerStates]
    BY <1>7, IdleType DEF Call, TypeOK, CallerStates
  <2> QED
    BY <1>7, <2>1, Constants, CoalesceMoves, SameTypes, Assemble DEF Call, OtherTypes, Moves
<1>8. ASSUME NEW c \in Caller, Cancel(c) PROVE TypeOK'
  <2>1. caller' \in [Caller -> CallerStates]
    BY <1>8, IdleType DEF Cancel, TypeOK, CallerStates
  <2> QED
    BY <1>8, <2>1, SameTypes, Assemble DEF Cancel, OtherTypes
<1>9. ASSUME NEW c \in Caller, DropUndecoded(c) PROVE TypeOK'
  <2>1. caller' \in [Caller -> CallerStates]
    BY <1>9 DEF DropUndecoded, TypeOK, CallerStates
  <2>2. RedisTypes /\ late' \in SUBSET Command /\ outage' \in [Proc -> 0..Outage]
    BY <1>9, Constants, DoTypes, SameTypes, FailsTypes, FailedTypes DEF DropUndecoded
  <2> QED
    BY <1>9, <2>1, <2>2, SameTypes, Assemble DEF DropUndecoded, OtherTypes
<1>10. ASSUME NEW c \in Caller, Retry(c) PROVE TypeOK'
  <2>1. caller' \in [Caller -> CallerStates] /\ caller[c].budget \in 0..TTL
    BY <1>10 DEF Retry, TypeOK, CallerStates
  <2> QED
    BY <1>10, <2>1, Constants, CoalesceMoves, SameTypes, Assemble DEF Retry, OtherTypes, Moves
<1>11. ASSUME NEW c \in Caller, LoadAlone(c) PROVE TypeOK'
  <2>1. caller' \in [Caller -> CallerStates]
    BY <1>11, IdleType DEF LoadAlone, TypeOK, CallerStates
  <2> QED
    BY <1>11, <2>1, SameTypes, Assemble DEF LoadAlone, OtherTypes
<1>12. CASE Commit
  BY <1>12, CacheAssumption DEF Commit, TypeOK, Version
<1>13. CASE Arrive
  <2>1. PICK m \in late : CarryOut(m) /\ late' = late \ {m} /\ UNCHANGED <<source, outage, flight, caller>>
    BY <1>13 DEF Arrive
  <2>2. m \in Command /\ m.token \in Token \cup {None} /\ m.op \in {"acquire", "renew", "publish", "release", "discard", "del"}
    BY DEF TypeOK, Command
  <2>3. m.op = "acquire" => m.token # None
    BY CacheAssumption DEF TokenInv, LateApart
  <2>4. RedisTypes
    BY <2>1, <2>2, <2>3, DoTypes DEF CarryOut
  <2>5. late' \in SUBSET Command
    BY <2>1 DEF TypeOK
  <2> QED
    BY <2>1, <2>4, <2>5, SameTypes, Assemble DEF OtherTypes
<1>14. CASE Lose
  BY <1>14 DEF Lose, TypeOK
<1>15. CASE RestartRedis
  BY <1>15 DEF RestartRedis, TypeOK
<1>16. CASE Tick
  BY <1>16, TickTypes
<1> QED
  BY <1>1, <1>2, <1>3, <1>4, <1>5, <1>6, <1>7, <1>8, <1>9, <1>10, <1>11, <1>12, <1>13, <1>14,
     <1>15, <1>16, WorksTypes, BreaksTypes DEF Next

-----------------------------------------------------------------------------
(* Nonces. *)

\* m was on its way before the step.
WasLate(m) == \E n \in late : m.op = n.op /\ m.token = n.token

\* A flight keeps its nonce, drops it, or takes a new one; the command it leaves
\* behind, x, has its old nonce.
LEMMA KeepTokens ==
  ASSUME TypeOK, TokenInv, NEW p \in Proc, Moves(p),
         flight'[p].token \in {None, flight[p].token} \cup (Token \ InUse),
         HasToken(flight'[p]) => flight'[p].token # None,
         flight'[p].phase \in {"none", "done"} => flight'[p].token = None,
         NEW x,
         \A m \in late' : WasLate(m) \/
           (m = x /\ (m.op \in {"acquire", "publish"} =>
                        m.token = flight[p].token /\ m.token \in Token /\ flight'[p].token = None))
  PROVE  TokenInv'
<1>1. TokensKept'
  BY DEF TokenInv, TokensKept, Moves, HasToken
<1>2. TokensApart'
  BY DEF TokenInv, TokensApart, Moves, InUse
<1>3. LateApart'
  <2> SUFFICES ASSUME NEW m \in late', m.op \in {"acquire", "publish"}, NEW q \in Proc
               PROVE  m.token \in Token /\ flight'[q].token # m.token
    BY DEF LateApart
  <2>1. CASE WasLate(m)
    <3>1. PICK n \in late : m.op = n.op /\ m.token = n.token
      BY <2>1 DEF WasLate
    <3>2. n.token \in Token /\ n.token \in InUse /\ n.token # None
          /\ flight[p].token # n.token /\ flight[q].token # n.token
      BY <3>1, CacheAssumption DEF TokenInv, LateApart, InUse
    <3> QED
      BY <3>1, <3>2 DEF Moves
  <2>2. CASE m.token = flight[p].token /\ m.token \in Token /\ flight'[p].token = None
    BY <2>2, CacheAssumption DEF TokenInv, TokensApart, Moves
  <2> QED
    BY <2>1, <2>2
<1>4. PublishedOrAcquired'
  <2> SUFFICES ASSUME NEW m \in late', NEW n \in late', m.op = "publish", n.op = "acquire"
               PROVE  m.token # n.token
    BY DEF PublishedOrAcquired
  <2>1. CASE WasLate(m) /\ WasLate(n)
    BY <2>1 DEF WasLate, TokenInv, PublishedOrAcquired
  <2>2. CASE ~WasLate(m) /\ WasLate(n)
    BY <2>2 DEF WasLate, TokenInv, LateApart
  <2>3. CASE WasLate(m) /\ ~WasLate(n)
    BY <2>3 DEF WasLate, TokenInv, LateApart
  <2>4. CASE ~WasLate(m) /\ ~WasLate(n)
    BY <2>4
  <2> QED
    BY <2>1, <2>2, <2>3, <2>4
<1> QED
  BY <1>1, <1>2, <1>3, <1>4 DEF TokenInv

\* The same when no flight moves.
LEMMA KeepTokensStill ==
  ASSUME TypeOK, TokenInv, UNCHANGED flight, NEW x,
         \A m \in late' : WasLate(m) \/ (m = x /\ m.op \notin {"acquire", "publish"})
  PROVE  TokenInv'
<1>1. TokensKept' /\ TokensApart'
  BY DEF TokenInv, TokensKept, TokensApart
<1>2. LateApart'
  BY DEF TokenInv, LateApart, WasLate
<1>3. PublishedOrAcquired'
  <2> SUFFICES ASSUME NEW m \in late', NEW n \in late', m.op = "publish", n.op = "acquire"
               PROVE  m.token # n.token
    BY DEF PublishedOrAcquired
  <2>1. WasLate(m) /\ WasLate(n)
    OBVIOUS
  <2> QED
    BY <2>1 DEF WasLate, TokenInv, PublishedOrAcquired
<1> QED
  BY <1>1, <1>2, <1>3 DEF TokenInv

LEMMA LateStays ==
  ASSUME late' \subseteq late
  PROVE  \A m \in late' : WasLate(m)
BY DEF WasLate

\* What a failed command of p leaves behind.
LEMMA FailsLeaves ==
  ASSUME TypeOK, NEW p \in Proc,
         NEW op \in {"acquire", "renew", "publish", "release", "discard"}, Fails(op, p)
  PROVE  \A m \in late' : WasLate(m) \/
           (m = Cmd(op, p) /\ m.op = op /\ m.token = flight[p].token)
BY FailsGrows, CmdTypes DEF WasLate

LEMMA WorksTokens ==
  ASSUME TypeOK, TokenInv, NEW p \in Proc, Works(p)
  PROVE  TokenInv'
<1> USE DEF redis, HasToken
<1>0. HasToken(flight[p]) => flight[p].token # None
  BY DEF TokenInv, TokensKept
<1>1. CASE Acquire(p)
  <2>1. \A m \in late' : WasLate(m)
    BY <1>1, LateStays DEF Acquire, Hit, FindExpired, TakeLock
  <2>2. /\ Moves(p) /\ flight'[p].token \in {None, flight[p].token}
        /\ HasToken(flight'[p]) => flight'[p].token # None
        /\ flight'[p].phase \in {"none", "done"} => flight'[p].token = None
    BY <1>0, <1>1, HitMoves, FindExpiredMoves, TakeLockMoves DEF Acquire
  <2> QED
    BY <2>1, <2>2, KeepTokens
<1>2. CASE TimesOut(p)
  BY <1>2, TimesOutMoves, LateStays, KeepTokens DEF TimesOut
<1>3. CASE Discard(p)
  BY <1>0, <1>3, DiscardMoves, LateStays, KeepTokens DEF Discard
<1>4. CASE Publish(p)
  <2>1. \A m \in late' : WasLate(m)
    BY <1>4, LateStays DEF Publish
  <2>2. flight[p].phase = "publish"
    BY <1>4 DEF Publish
  <2> QED
    BY <1>0, <1>4, <2>1, <2>2, PublishMoves, KeepTokens
<1>5. CASE Release(p)
  BY <1>5, ReleaseMoves, LateStays, KeepTokens DEF Release
<1>6. CASE ReadSource(p)
  BY <1>6, ReadSourceMoves, LateStays, KeepTokens DEF ReadSource
<1>7. CASE LoadEnds(p)
  <2>1. \A m \in late' : WasLate(m)
    BY <1>7, LateStays DEF LoadEnds
  <2> QED
    BY <1>7, <2>1, LoadEndsMoves, KeepTokens DEF Locked
<1>8. CASE LoadErrs(p)
  <2>1. \A m \in late' : WasLate(m)
    BY <1>8, LateStays DEF LoadErrs
  <2> QED
    BY <1>8, <2>1, LoadErrsMoves, KeepTokens DEF Locked
<1>9. CASE Deliver(p)
  BY <1>9, DeliverMoves, LateStays, KeepTokens DEF Deliver, NoFlight
<1> QED
  BY <1>1, <1>2, <1>3, <1>4, <1>5, <1>6, <1>7, <1>8, <1>9 DEF Works

LEMMA BreaksTokens ==
  ASSUME TypeOK, TokenInv, NEW p \in Proc, Breaks(p)
  PROVE  TokenInv'
<1>0. /\ HasToken(flight[p]) => flight[p].token \in Token
      /\ flight[p].token \in Token \cup {None}
  BY Fields DEF TypeOK, TokenInv, TokensKept
<1>1. CASE AcquireFails(p)
  <2>1. flight[p].token \in Token /\ Fails("acquire", p)
    BY <1>0, <1>1 DEF AcquireFails, HasToken
  <2> QED
    BY <1>1, <2>1, AcquireFailsMoves, FailsLeaves, KeepTokens DEF HasToken
<1>2. CASE DiscardFails(p)
  <2>1. Fails("discard", p)
    BY <1>2 DEF DiscardFails
  <2> QED
    BY <1>2, <2>1, DiscardFailsMoves, FailsLeaves, KeepTokens DEF HasToken
<1>3. CASE PublishFails(p)
  <2>1. flight[p].token \in Token /\ Fails("publish", p)
    BY <1>0, <1>3 DEF PublishFails, HasToken
  <2> QED
    BY <1>3, <2>1, PublishFailsMoves, FailsLeaves, KeepTokens DEF HasToken
<1>4. CASE ReleaseFails(p)
  <2>1. Fails("release", p)
    BY <1>4 DEF ReleaseFails
  <2> QED
    BY <1>4, <2>1, ReleaseFailsMoves, FailsLeaves, KeepTokens DEF HasToken
<1> QED
  BY <1>1, <1>2, <1>3, <1>4 DEF Breaks

LEMMA CoalesceTokens ==
  ASSUME TypeOK, TokenInv, NEW p \in Proc, NEW budget \in 0..TTL, Coalesce(p, budget),
         UNCHANGED late
  PROVE  TokenInv'
<1>1. \A m \in late' : WasLate(m)
  BY LateStays
<1>2. CASE flight'[p] = flight[p]
  BY <1>1, <1>2, CoalesceMoves, KeepTokens DEF TokenInv, TokensKept
<1>3. CASE flight'[p] # flight[p]
  <2>1. Moves(p)
    BY CoalesceMoves
  <2>2. /\ flight'[p].token \in {None} \cup (Token \ InUse)
        /\ HasToken(flight'[p]) => flight'[p].token # None
        /\ flight'[p].phase \notin {"none", "done"}
    BY <1>3, CoalesceMoves, CacheAssumption DEF HasToken
  <2> QED
    BY <1>1, <2>1, <2>2, KeepTokens
<1> QED
  BY <1>2, <1>3

LEMMA TokenStep ==
  ASSUME TypeOK, TokenInv, [Next]_vars
  PROVE  TokenInv'
<1> USE DEF redis
<1>1. CASE UNCHANGED vars
  BY <1>1, LateStays, KeepTokensStill DEF vars
<1>2. ASSUME NEW p \in Proc, Renew(p) PROVE TokenInv'
  BY <1>2, RenewMoves, LateStays, KeepTokens DEF Renew, HasToken
<1>3. ASSUME NEW p \in Proc, RenewFails(p) PROVE TokenInv'
  <2>1. Fails("renew", p) /\ flight[p].phase \in {"load", "read"}
    BY <1>3 DEF RenewFails
  <2>2. \A m \in late' : WasLate(m) \/ (m = Cmd("renew", p) /\ m.op = "renew")
    BY <2>1, FailsLeaves
  <2> QED
    BY <1>3, <2>1, <2>2, RenewFailsMoves, KeepTokens DEF HasToken
<1>4. ASSUME NEW p \in Proc, Invalidate(p) PROVE TokenInv'
  BY <1>4, LateStays, KeepTokensStill DEF Invalidate
<1>5. ASSUME NEW p \in Proc, MayArrive(DelCmd(p)) \/ UNCHANGED late, UNCHANGED flight
      PROVE  TokenInv'
  <2>1. \A m \in late' : WasLate(m) \/ (m = DelCmd(p) /\ m.op = "del")
    BY <1>5, DelCmdTypes, LateGrows DEF WasLate
  <2> QED
    BY <1>5, <2>1, KeepTokensStill
<1>6. ASSUME NEW p \in Proc, Crash(p) PROVE TokenInv'
  <2>1. \A m \in late' : WasLate(m)
    BY <1>6, LateStays DEF Crash
  <2>2. Moves(p) /\ flight'[p].token = None /\ flight'[p].phase = "none"
    <3>1. Moves(p) /\ flight'[p] = NoFlight(p)
      BY <1>6, CrashMoves
    <3>2. NoFlight(p).token = None /\ NoFlight(p).phase = "none"
      BY DEF NoFlight
    <3> QED
      BY <3>1, <3>2
  <2> QED
    BY <2>1, <2>2, KeepTokens DEF HasToken
<1>7. ASSUME NEW c \in Caller, Call(c) PROVE TokenInv'
  BY <1>7, Constants, CoalesceTokens DEF Call
<1>8. ASSUME NEW c \in Caller, Cancel(c) PROVE TokenInv'
  BY <1>8, LateStays, KeepTokensStill DEF Cancel
<1>9. ASSUME NEW c \in Caller, DropUndecoded(c) PROVE TokenInv'
  BY <1>5, <1>9, Constants DEF DropUndecoded
<1>10. ASSUME NEW c \in Caller, Retry(c) PROVE TokenInv'
  <2>1. caller[c].budget \in 0..TTL
    BY DEF TypeOK
  <2> QED
    BY <1>10, <2>1, Constants, CoalesceTokens DEF Retry
<1>11. ASSUME NEW c \in Caller, LoadAlone(c) PROVE TokenInv'
  BY <1>11, LateStays, KeepTokensStill DEF LoadAlone
<1>12. CASE Commit \/ RestartRedis
  BY <1>12, LateStays, KeepTokensStill DEF Commit, RestartRedis
<1>13. CASE Arrive \/ Lose
  <2>1. late' \subseteq late /\ UNCHANGED flight
    BY <1>13 DEF Arrive, Lose
  <2> QED
    BY <2>1, LateStays, KeepTokensStill
<1>14. CASE Tick
  <2>1. /\ \A p \in Proc : /\ flight'[p].phase = flight[p].phase
                           /\ flight'[p].token = flight[p].token
        /\ \A m \in late' : WasLate(m)
    BY <1>14, TickTypes DEF WasLate
  <2>2. TokensKept' /\ TokensApart'
    BY <2>1 DEF TokenInv, TokensKept, TokensApart, HasToken
  <2>3. LateApart'
    BY <2>1 DEF TokenInv, LateApart, WasLate
  <2>4. PublishedOrAcquired'
    BY <2>1 DEF TokenInv, PublishedOrAcquired, WasLate
  <2> QED
    BY <2>2, <2>3, <2>4 DEF TokenInv
<1>15. ASSUME NEW p \in Proc, InvalidateFails(p) PROVE TokenInv'
  BY <1>5, <1>15 DEF InvalidateFails
<1> QED
  BY <1>1, <1>2, <1>3, <1>4, <1>6, <1>7, <1>8, <1>9, <1>10, <1>11, <1>12, <1>13, <1>14,
     <1>15, WorksTokens, BreaksTokens DEF Next

LEMMA InitTypes ==
  ASSUME Init
  PROVE  TypeOK /\ TokenInv
<1>1. TypeOK
  BY Constants, NoFlightType, IdleType DEF Init, TypeOK, CallerStates
<1>2. TokenInv
  BY DEF Init, TokenInv, TokensKept, TokensApart, LateApart, PublishedOrAcquired, NoFlight,
         HasToken
<1> QED
  BY <1>1, <1>2

\* Every variable keeps its type, and nonces stay apart, in every run.
THEOREM TypeCorrect == Spec => [](TypeOK /\ TokenInv)
<1>1. TypeOK /\ TokenInv /\ [Next]_vars => TypeOK' /\ TokenInv'
  BY TypeStep, TokenStep
<1> QED
  BY <1>1, InitTypes, PTL DEF Spec

-----------------------------------------------------------------------------
(* Invalidations. *)

LoadedUnderLock ==
  \A p \in Proc : flight[p].phase \in {"read", "publish"} /\ Owns(flight[p].token)
                    => flight[p].ver >= floor
SentUnderLock ==
  \A m \in late : m.op = "publish" /\ Owns(m.token) => m.ver >= floor
FenceInv ==
  /\ floor <= db
  /\ NothingSurvivesInvalidation
  /\ LoadedUnderLock
  /\ SentUnderLock
  /\ ResultsTakeInInvalidations

\* The lock is not taken in this step.
LockStaysOrGoes == lock' = None \/ (lock # None /\ lock'.token = lock.token)
ValueStaysOrGoes ==
  value' = None \/ (value # None /\ value'.ver = value.ver) \/ value'.ver >= floor
WasSent(m) == \E n \in late : m.op = n.op /\ m.token = n.token /\ m.ver = n.ver
\* m, if it is a publish, brings nothing older than the last invalidation.
Harmless(m) == m.op = "publish" /\ Owns(m.token) => m.ver >= floor

LEMMA KeepFence ==
  ASSUME FenceInv, TypeOK, TypeOK', UNCHANGED floor, db' >= db,
         LockStaysOrGoes, ValueStaysOrGoes,
         \A p \in Proc :
           /\ flight'[p].phase \in {"read", "publish"} /\ Owns(flight'[p].token)
                => flight'[p].ver >= floor
           /\ flight'[p].phase = "done" /\ flight'[p].kind = "ok"
                => flight'[p].ver >= flight'[p].base,
         \A m \in late' : WasSent(m) \/ Harmless(m)
  PROVE  FenceInv'
<1>1. (floor <= db)'
  BY CacheAssumption DEF FenceInv, TypeOK, Version
<1>2. NothingSurvivesInvalidation'
  BY DEF FenceInv, NothingSurvivesInvalidation, ValueStaysOrGoes
<1>3. LoadedUnderLock'
  BY DEF LoadedUnderLock, LockStaysOrGoes, Owns
<1>4. SentUnderLock'
  BY DEF FenceInv, SentUnderLock, LockStaysOrGoes, Owns, WasSent, Harmless
<1>5. ResultsTakeInInvalidations'
  BY DEF ResultsTakeInInvalidations
<1> QED
  BY <1>1, <1>2, <1>3, <1>4, <1>5 DEF FenceInv

\* Only the flight of p has to be looked at.
LEMMA KeepFenceMoves ==
  ASSUME FenceInv, TypeOK, TypeOK', UNCHANGED <<floor, db>>,
         LockStaysOrGoes, ValueStaysOrGoes, NEW p \in Proc, Moves(p),
         flight'[p].phase \in {"read", "publish"} /\ Owns(flight'[p].token)
           => flight'[p].ver >= floor,
         flight'[p].phase = "done" /\ flight'[p].kind = "ok"
           => flight'[p].ver >= flight'[p].base,
         \A m \in late' : WasSent(m) \/ Harmless(m)
  PROVE  FenceInv'
<1>1. \A q \in Proc :
        /\ flight'[q].phase \in {"read", "publish"} /\ Owns(flight'[q].token)
             => flight'[q].ver >= floor
        /\ flight'[q].phase = "done" /\ flight'[q].kind = "ok"
             => flight'[q].ver >= flight'[q].base
  BY DEF Moves, FenceInv, LoadedUnderLock, ResultsTakeInInvalidations
<1>2. db' >= db
  BY DEF TypeOK, Version
<1> QED
  BY <1>1, <1>2, KeepFence

LEMMA KeepFenceStill ==
  ASSUME FenceInv, TypeOK, TypeOK', UNCHANGED <<floor, flight>>, db' >= db,
         LockStaysOrGoes, ValueStaysOrGoes,
         \A m \in late' : WasSent(m) \/ Harmless(m)
  PROVE  FenceInv'
BY KeepFence DEF FenceInv, LoadedUnderLock, ResultsTakeInInvalidations

LEMMA DeleteFence ==
  ASSUME FenceInv, TypeOK, DoDelete, UNCHANGED <<db, flight>>
  PROVE  FenceInv'
<1>1. (floor <= db)'
  BY DEF DoDelete, TypeOK, Version
<1>2. NothingSurvivesInvalidation' /\ LoadedUnderLock' /\ SentUnderLock'
  BY DEF DoDelete, NothingSurvivesInvalidation, LoadedUnderLock, SentUnderLock, Owns
<1>3. ResultsTakeInInvalidations'
  BY DEF FenceInv, ResultsTakeInInvalidations
<1> QED
  BY <1>1, <1>2, <1>3 DEF FenceInv

LEMMA LateSame ==
  ASSUME late' \subseteq late
  PROVE  \A m \in late' : WasSent(m)
BY DEF WasSent

LEMMA FailsSends ==
  ASSUME TypeOK, NEW p \in Proc,
         NEW op \in {"acquire", "renew", "publish", "release", "discard"}, Fails(op, p)
  PROVE  \A m \in late' : WasSent(m) \/
           (m.op = op /\ m.token = flight[p].token /\ m.ver = flight[p].ver)
BY FailsGrows, CmdTypes DEF WasSent

\* None of the scripts but acquire takes the lock, and none but publish sets the value.
LEMMA ScriptsStay ==
  ASSUME TypeOK, NEW t
  PROVE  /\ DoRenew(t) \/ DoRelease(t) => LockStaysOrGoes /\ ValueStaysOrGoes
         /\ \A m : DoDiscard(m) => LockStaysOrGoes /\ ValueStaysOrGoes
         /\ UNCHANGED <<value, lock>> => LockStaysOrGoes /\ ValueStaysOrGoes
         /\ GiveUp(t) /\ UNCHANGED value => LockStaysOrGoes /\ ValueStaysOrGoes
         /\ \A m : DoPublish(t, m) /\ (Owns(t) => m.ver >= floor)
                     => LockStaysOrGoes /\ ValueStaysOrGoes
<1>1. DoRenew(t) => LockStaysOrGoes /\ ValueStaysOrGoes
  BY DEF DoRenew, Owns, LockStaysOrGoes, ValueStaysOrGoes, TypeOK, Lock
<1>2. DoRelease(t) => LockStaysOrGoes /\ ValueStaysOrGoes
  BY DEF DoRelease, LockStaysOrGoes, ValueStaysOrGoes
<1>3. \A m : DoDiscard(m) => LockStaysOrGoes /\ ValueStaysOrGoes
  BY DEF DoDiscard, LockStaysOrGoes, ValueStaysOrGoes
<1>4. UNCHANGED <<value, lock>> => LockStaysOrGoes /\ ValueStaysOrGoes
  BY DEF LockStaysOrGoes, ValueStaysOrGoes
<1>5. GiveUp(t) /\ UNCHANGED value => LockStaysOrGoes /\ ValueStaysOrGoes
  BY GiveUpTypes DEF LockStaysOrGoes, ValueStaysOrGoes
<1>6. \A m : DoPublish(t, m) /\ (Owns(t) => m.ver >= floor)
                     => LockStaysOrGoes /\ ValueStaysOrGoes
  BY DEF DoPublish, EntryOf, LockStaysOrGoes, ValueStaysOrGoes
<1> QED
  BY <1>1, <1>2, <1>3, <1>4, <1>5, <1>6

LEMMA WorksFence ==
  ASSUME TypeOK, TypeOK', TokenInv, FenceInv, NEW p \in Proc, Works(p)
  PROVE  FenceInv'
<1> USE DEF redis, source
<1>0. flight[p] \in Flight /\ flight[p].ver \in Version /\ floor \in Version /\ 0 \in Version
  BY Fields, Constants DEF TypeOK
<1>1. CASE Acquire(p) /\ TakeLock(p)
  <2>1. /\ Moves(p) /\ flight'[p].phase = "load" /\ flight'[p].token = flight[p].token
    BY <1>1, TakeLockMoves
  <2>2. /\ lock = None /\ lock' # None /\ lock'.token = flight[p].token
        /\ UNCHANGED <<value, db, floor, late>> /\ flight[p].token # None
    <3>1. flight[p].token # None
      BY <1>1 DEF Acquire, TokenInv, TokensKept, HasToken
    <3>2. flight[p].token \in Token
      BY <1>0, <3>1, Fields
    <3>3. [token |-> flight[p].token, left |-> Lease, lost |-> FALSE] \in Lock
      BY <3>2, Constants DEF Lock
    <3> QED
      BY <1>1, <3>1, <3>3, NoneAssumption DEF TakeLock, DoAcquire
  <2>3. LoadedUnderLock'
    BY <2>1, <2>2 DEF LoadedUnderLock, Owns, Moves, TokenInv, TokensApart
  <2>4. SentUnderLock'
    BY <2>2 DEF SentUnderLock, Owns, TokenInv, LateApart
  <2>5. ResultsTakeInInvalidations'
    BY <2>1 DEF FenceInv, ResultsTakeInInvalidations, Moves
  <2> QED
    BY <2>2, <2>3, <2>4, <2>5 DEF FenceInv, NothingSurvivesInvalidation
<1>2. CASE Acquire(p) /\ Hit(p)
  <2>1. flight'[p].ver >= flight'[p].base
    BY <1>2, HitMoves DEF Hit, FenceInv, NothingSurvivesInvalidation
  <2>2. UNCHANGED <<value, lock, floor, db>> /\ late' \subseteq late
    BY <1>2 DEF Hit
  <2> QED
    BY <1>2, <2>1, <2>2, HitMoves, LateSame, ScriptsStay, KeepFenceMoves
<1>3. CASE Acquire(p) /\ FindExpired(p)
  <2>2. UNCHANGED <<value, lock, floor, db>> /\ late' \subseteq late
    BY <1>3 DEF FindExpired
  <2> QED
    BY <1>3, <2>2, FindExpiredMoves, LateSame, ScriptsStay, KeepFenceMoves
<1>4. CASE TimesOut(p)
  <2>2. UNCHANGED <<value, lock, floor, db>> /\ late' \subseteq late
    BY <1>4 DEF TimesOut
  <2> QED
    BY <1>4, <2>2, TimesOutMoves, LateSame, ScriptsStay, KeepFenceMoves
<1>5. CASE Discard(p)
  <2>2. DoDiscard(flight[p]) /\ UNCHANGED <<floor, db>> /\ late' \subseteq late
    BY <1>5 DEF Discard, DoDiscard
  <2> QED
    BY <1>5, <2>2, DiscardMoves, LateSame, ScriptsStay, KeepFenceMoves
<1>6. CASE Publish(p)
  <2>1. Owns(flight[p].token) => flight[p].ver >= floor
    BY <1>6 DEF Publish, FenceInv, LoadedUnderLock
  <2>2. /\ DoPublish(flight[p].token, Cmd("publish", p)) /\ Cmd("publish", p).ver = flight[p].ver
        /\ UNCHANGED <<floor, db>> /\ late' \subseteq late
    BY <1>6, CmdTypes DEF Publish, DoPublish
  <2>3. LockStaysOrGoes /\ ValueStaysOrGoes
    BY <2>1, <2>2, ScriptsStay
  <2>4. /\ flight'[p].phase \notin {"read", "publish"}
        /\ flight'[p].phase = "done" => flight'[p].ver >= flight'[p].base
    BY <1>6, <2>1, PublishMoves
  <2> QED
    BY <1>6, <2>2, <2>3, <2>4, PublishMoves, LateSame, KeepFenceMoves
<1>7. CASE Release(p)
  <2>2. DoRelease(flight[p].token) /\ UNCHANGED <<floor, db>> /\ late' \subseteq late
    BY <1>7 DEF Release, DoRelease
  <2> QED
    BY <1>7, <2>2, ReleaseMoves, LateSame, ScriptsStay, KeepFenceMoves
<1>8. CASE ReadSource(p)
  <2>1. flight'[p].ver >= floor /\ flight'[p].phase = "read"
    BY <1>0, <1>8, ReadSourceMoves DEF FenceInv, Version, TypeOK
  <2>2. UNCHANGED <<value, lock, floor, db>> /\ late' \subseteq late
    BY <1>8 DEF ReadSource
  <2> QED
    BY <1>8, <2>1, <2>2, ReadSourceMoves, LateSame, ScriptsStay, KeepFenceMoves
<1>9. CASE LoadEnds(p)
  <2>1. UNCHANGED <<value, lock, floor, db>> /\ late' \subseteq late /\ flight[p].phase = "read"
    BY <1>9 DEF LoadEnds
  <2>2. flight'[p].phase = "done" => flight'[p].ver >= flight'[p].base
    <3>1. flight'[p].ver \in Nat
      BY Fields, CacheAssumption DEF TypeOK, Version
    <3> QED
      BY <1>9, <3>1, LoadEndsMoves
  <2>3. flight'[p].phase \in {"read", "publish"} /\ Owns(flight'[p].token)
           => flight'[p].ver >= floor
    BY <1>9, <2>1, LoadEndsMoves DEF FenceInv, LoadedUnderLock
  <2> QED
    BY <1>9, <2>1, <2>2, <2>3, LoadEndsMoves, LateSame, ScriptsStay, KeepFenceMoves
<1>10. CASE LoadErrs(p)
  <2>1. UNCHANGED <<value, lock, floor, db>> /\ late' \subseteq late
    BY <1>10 DEF LoadErrs
  <2> QED
    BY <1>10, <2>1, LoadErrsMoves, LateSame, ScriptsStay, KeepFenceMoves
<1>11. CASE Deliver(p)
  <2>1. UNCHANGED <<value, lock, floor, db>> /\ late' \subseteq late
    BY <1>11 DEF Deliver
  <2>2. Moves(p) /\ flight'[p].phase = "none"
    <3>1. Moves(p) /\ flight'[p] = NoFlight(p)
      BY <1>11, DeliverMoves
    <3> QED
      BY <3>1 DEF NoFlight
  <2> QED
    BY <2>1, <2>2, LateSame, ScriptsStay, KeepFenceMoves
<1> QED
  BY <1>1, <1>2, <1>3, <1>4, <1>5, <1>6, <1>7, <1>8, <1>9, <1>10, <1>11 DEF Works, Acquire

LEMMA BreaksFence ==
  ASSUME TypeOK, TypeOK', TokenInv, FenceInv, NEW p \in Proc, Breaks(p)
  PROVE  FenceInv'
<1> USE DEF source
<1>1. CASE AcquireFails(p)
  <2>1. UNCHANGED <<value, lock, floor, db>> /\ Fails("acquire", p)
    BY <1>1 DEF AcquireFails
  <2>2. \A m \in late' : WasSent(m) \/ Harmless(m)
    BY <2>1, FailsSends DEF Harmless
  <2> QED
    BY <1>1, <2>1, <2>2, AcquireFailsMoves, ScriptsStay, KeepFenceMoves
<1>2. CASE DiscardFails(p)
  <2>1. UNCHANGED <<value, lock, floor, db>> /\ Fails("discard", p)
    BY <1>2 DEF DiscardFails
  <2>2. \A m \in late' : WasSent(m) \/ Harmless(m)
    BY <2>1, FailsSends DEF Harmless
  <2> QED
    BY <1>2, <2>1, <2>2, DiscardFailsMoves, ScriptsStay, KeepFenceMoves
<1>3. CASE PublishFails(p)
  <2>1. /\ UNCHANGED <<value, floor, db>> /\ Fails("publish", p) /\ GiveUp(flight[p].token)
        /\ flight[p].phase = "publish"
    BY <1>3 DEF PublishFails
  <2>2. \A m \in late' : WasSent(m) \/ Harmless(m)
    BY <2>1, FailsSends DEF Harmless, FenceInv, LoadedUnderLock
  <2>3. flight'[p].ver >= flight'[p].base
    <3>1. flight[p].ver \in Nat
      BY Fields, CacheAssumption DEF TypeOK, Version
    <3> QED
      BY <1>3, <3>1, PublishFailsMoves
  <2> QED
    BY <1>3, <2>1, <2>2, <2>3, PublishFailsMoves, ScriptsStay, KeepFenceMoves
<1>4. CASE ReleaseFails(p)
  <2>1. UNCHANGED <<value, floor, db>> /\ Fails("release", p) /\ GiveUp(flight[p].token)
    BY <1>4 DEF ReleaseFails
  <2>2. \A m \in late' : WasSent(m) \/ Harmless(m)
    BY <2>1, FailsSends DEF Harmless
  <2> QED
    BY <1>4, <2>1, <2>2, ReleaseFailsMoves, ScriptsStay, KeepFenceMoves
<1> QED
  BY <1>1, <1>2, <1>3, <1>4 DEF Breaks

LEMMA CoalesceFence ==
  ASSUME TypeOK, TypeOK', TokenInv, FenceInv, NEW p \in Proc, NEW budget \in 0..TTL,
         Coalesce(p, budget), UNCHANGED <<value, lock, floor, db, late>>
  PROVE  FenceInv'
<1>1. CASE flight'[p] = flight[p]
  <2>1. UNCHANGED flight
    BY <1>1, CoalesceMoves DEF Moves, TypeOK
  <2>2. db' >= db
    BY DEF TypeOK, Version
  <2> QED
    BY <2>1, <2>2, LateSame, ScriptsStay, KeepFenceStill
<1>2. CASE flight'[p] # flight[p]
  BY <1>2, CoalesceMoves, LateSame, ScriptsStay, KeepFenceMoves
<1> QED
  BY <1>1, <1>2

\* A lock acquired late is nobody's.
LEMMA ArriveFence ==
  ASSUME TypeOK, TypeOK', TokenInv, FenceInv, Arrive
  PROVE  FenceInv'
<1>1. PICK m \in late : CarryOut(m) /\ late' = late \ {m} /\ UNCHANGED <<source, outage, flight, caller>>
  BY DEF Arrive
<1>2. /\ m \in Command /\ late' \subseteq late /\ UNCHANGED <<db, flight>> /\ db' >= db
      /\ m.op \in {"acquire", "renew", "publish", "release", "discard", "del"}
  BY <1>1 DEF source, TypeOK, Command, Version
<1>3. CASE m.op = "del"
  BY <1>1, <1>2, <1>3, DeleteFence DEF CarryOut
<1>4. CASE m.op \in {"renew", "release", "discard"}
  <2>1. LockStaysOrGoes /\ ValueStaysOrGoes /\ UNCHANGED floor
    BY <1>1, <1>4, ScriptsStay DEF CarryOut, DoRenew, DoRelease, DoDiscard
  <2> QED
    BY <1>2, <2>1, LateSame, KeepFenceStill
<1>5. CASE m.op = "publish"
  <2>1. DoPublish(m.token, m) /\ (Owns(m.token) => m.ver >= floor)
    BY <1>1, <1>5 DEF CarryOut, FenceInv, SentUnderLock
  <2>2. LockStaysOrGoes /\ ValueStaysOrGoes /\ UNCHANGED floor
    BY <2>1, ScriptsStay DEF DoPublish
  <2> QED
    BY <1>2, <2>2, LateSame, KeepFenceStill
<1>6. CASE m.op = "acquire"
  <2>1. DoAcquire(m.token, TRUE)
    BY <1>1, <1>6 DEF CarryOut
  <2>2. CASE lock' = lock
    BY <1>2, <2>1, <2>2, LateSame, ScriptsStay, KeepFenceStill DEF DoAcquire
  <2>3. CASE lock' # lock
    <3>1. lock'.token = m.token /\ UNCHANGED <<value, floor>>
      BY <2>1, <2>3 DEF DoAcquire
    <3>2. LoadedUnderLock'
      BY <1>2, <1>6, <3>1 DEF LoadedUnderLock, Owns, TokenInv, LateApart
    <3>3. SentUnderLock'
      BY <1>2, <1>6, <3>1 DEF SentUnderLock, Owns, TokenInv, PublishedOrAcquired
    <3>4. ResultsTakeInInvalidations'
      BY <1>2 DEF FenceInv, ResultsTakeInInvalidations
    <3> QED
      BY <1>2, <3>1, <3>2, <3>3, <3>4 DEF FenceInv, NothingSurvivesInvalidation
  <2> QED
    BY <2>2, <2>3
<1> QED
  BY <1>2, <1>3, <1>4, <1>5, <1>6

LEMMA FenceStep ==
  ASSUME TypeOK, TypeOK', TokenInv, FenceInv, [Next]_vars
  PROVE  FenceInv'
<1> USE DEF redis, source
<1>0. db \in Nat
  BY DEF TypeOK, Version
<1>1. CASE UNCHANGED vars
  BY <1>0, <1>1, LateSame, ScriptsStay, KeepFenceStill DEF vars
<1>2. ASSUME NEW p \in Proc, Renew(p) PROVE FenceInv'
  <2>1. UNCHANGED <<floor, db>> /\ late' \subseteq late /\ DoRenew(flight[p].token)
    BY <1>2 DEF Renew, DoRenew
  <2>2. LockStaysOrGoes /\ ValueStaysOrGoes
    BY <2>1, ScriptsStay
  <2>3. flight[p].phase = flight'[p].phase /\ flight[p].token = flight'[p].token
        /\ flight[p].ver = flight'[p].ver /\ flight[p].phase \in {"load", "read"}
    BY <1>2, RenewMoves DEF Renew
  <2> QED
    BY <1>2, <2>1, <2>2, <2>3, RenewMoves, LateSame, KeepFenceMoves DEF FenceInv, LoadedUnderLock
<1>3. ASSUME NEW p \in Proc, RenewFails(p) PROVE FenceInv'
  <2>1. UNCHANGED <<value, lock, floor, db>> /\ Fails("renew", p)
    BY <1>3 DEF RenewFails
  <2>2. \A m \in late' : WasSent(m) \/ Harmless(m)
    BY <2>1, FailsSends DEF Harmless
  <2>3. flight[p].phase = flight'[p].phase /\ flight[p].token = flight'[p].token
        /\ flight[p].ver = flight'[p].ver /\ flight[p].phase \in {"load", "read"}
    BY <1>3, RenewFailsMoves DEF RenewFails
  <2> QED
    BY <1>3, <2>1, <2>2, <2>3, RenewFailsMoves, ScriptsStay, KeepFenceMoves
    DEF FenceInv, LoadedUnderLock
<1>4. ASSUME NEW p \in Proc, Invalidate(p) PROVE FenceInv'
  BY <1>4, DeleteFence DEF Invalidate
<1>5. ASSUME NEW p \in Proc, MayArrive(DelCmd(p)), UNCHANGED <<value, lock, floor, db, flight>>
      PROVE  FenceInv'
  <2>1. \A m \in late' : WasSent(m) \/ Harmless(m)
    BY <1>5, DelCmdTypes, LateGrows DEF WasSent, Harmless
  <2> QED
    BY <1>0, <1>5, <2>1, ScriptsStay, KeepFenceStill
<1>6. ASSUME NEW p \in Proc, InvalidateFails(p) PROVE FenceInv'
  BY <1>5, <1>6 DEF InvalidateFails
<1>7. ASSUME NEW p \in Proc, Crash(p) PROVE FenceInv'
  <2>1. UNCHANGED <<value, floor, db>> /\ late' \subseteq late
    BY <1>7 DEF Crash
  <2>2. LockStaysOrGoes /\ ValueStaysOrGoes
    BY <1>7, ScriptsStay DEF Crash
  <2>3. Moves(p) /\ flight'[p].phase = "none"
    <3>1. Moves(p) /\ flight'[p] = NoFlight(p)
      BY <1>7, CrashMoves
    <3> QED
      BY <3>1 DEF NoFlight
  <2> QED
    BY <2>1, <2>2, <2>3, LateSame, KeepFenceMoves
<1>8. ASSUME NEW c \in Caller, Call(c) PROVE FenceInv'
  BY <1>8, Constants, CoalesceFence DEF Call
<1>9. ASSUME NEW c \in Caller, Cancel(c) \/ LoadAlone(c) PROVE FenceInv'
  <2>1. UNCHANGED <<value, lock, floor, db, flight>> /\ late' \subseteq late
    BY <1>9 DEF Cancel, LoadAlone
  <2> QED
    BY <1>0, <2>1, LateSame, ScriptsStay, KeepFenceStill
<1>10. ASSUME NEW c \in Caller, DropUndecoded(c) PROVE FenceInv'
  BY <1>5, <1>10, Constants, DeleteFence DEF DropUndecoded
<1>11. ASSUME NEW c \in Caller, Retry(c) PROVE FenceInv'
  <2>1. caller[c].budget \in 0..TTL
    BY DEF TypeOK
  <2> QED
    BY <1>11, <2>1, Constants, CoalesceFence DEF Retry
<1>12. CASE Commit
  <2>1. UNCHANGED <<value, lock, floor, flight>> /\ late' \subseteq late /\ db' >= db
    BY <1>0, <1>12 DEF Commit
  <2> QED
    BY <2>1, LateSame, ScriptsStay, KeepFenceStill
<1>13. CASE Lose \/ RestartRedis
  <2>1. UNCHANGED <<floor, flight, db>> /\ late' \subseteq late
    BY <1>13 DEF Lose, RestartRedis
  <2>2. LockStaysOrGoes /\ ValueStaysOrGoes
    BY <1>13, ScriptsStay DEF Lose, RestartRedis, LockStaysOrGoes, ValueStaysOrGoes
  <2> QED
    BY <1>0, <2>1, <2>2, LateSame, KeepFenceStill
<1>14. CASE Tick
  <2>1. \A m \in late' : WasSent(m)
    BY <1>14, TickTypes DEF WasSent
  <2>2. UNCHANGED <<floor, db>>
    BY <1>14 DEF Tick
  <2>3. LockStaysOrGoes /\ ValueStaysOrGoes
    BY <1>14, TickTypes DEF LockStaysOrGoes, ValueStaysOrGoes
  <2>4. \A p \in Proc : /\ flight'[p].phase = flight[p].phase
                        /\ flight'[p].token = flight[p].token
                        /\ flight'[p].kind = flight[p].kind
                        /\ flight'[p].ver = flight[p].ver
                        /\ flight'[p].base = flight[p].base
    BY <1>14, TickTypes
  <2> QED
    BY <1>0, <2>1, <2>2, <2>3, <2>4, KeepFence
    DEF FenceInv, LoadedUnderLock, ResultsTakeInInvalidations
<1> QED
  BY <1>1, <1>2, <1>3, <1>4, <1>6, <1>7, <1>8, <1>9, <1>10, <1>11, <1>12, <1>13, <1>14,
     WorksFence, BreaksFence, ArriveFence DEF Next

LEMMA InitFence ==
  ASSUME Init
  PROVE  FenceInv
BY DEF Init, FenceInv, NothingSurvivesInvalidation, LoadedUnderLock, SentUnderLock,
       ResultsTakeInInvalidations, NoFlight, Owns

\* What was loaded before an invalidation is not in Redis after it, whatever
\* fails, arrives late, expires or crashes (Invalidate, fill, the publish script).
THEOREM InvalidationsHold == Spec => []NothingSurvivesInvalidation
<1>1. TypeOK /\ TokenInv /\ FenceInv /\ [Next]_vars => TypeOK' /\ TokenInv' /\ FenceInv'
  BY TypeStep, TokenStep, FenceStep
<1>2. FenceInv => NothingSurvivesInvalidation
  BY DEF FenceInv
<1> QED
  BY <1>1, <1>2, InitTypes, InitFence, PTL DEF Spec

\* What a flight takes from Redis or publishes has in it every invalidation
\* carried out by then (read: a lost lease starts the flight over).
THEOREM ResultsAreFenced == Spec => []ResultsTakeInInvalidations
<1>1. TypeOK /\ TokenInv /\ FenceInv /\ [Next]_vars => TypeOK' /\ TokenInv' /\ FenceInv'
  BY TypeStep, TokenStep, FenceStep
<1>2. FenceInv => ResultsTakeInInvalidations
  BY DEF FenceInv
<1> QED
  BY <1>1, <1>2, InitTypes, InitFence, PTL DEF Spec

-----------------------------------------------------------------------------
(* Ages. *)

\* What ver, with u ticks to live, may still cost a reader.
Fresh(ver, u) == ver < db => age[ver] + u <= TTL
FreshInv ==
  /\ \A v \in Version : v >= db => age[v] = 0
  /\ value # None => Fresh(value.ver, value.until)
  /\ \A p \in Proc : flight[p].phase = "read" => Fresh(flight[p].ver, flight[p].budget)
  /\ \A p \in Proc : flight[p].phase = "publish" => Fresh(flight[p].ver, flight[p].until)
  /\ \A m \in late : m.op = "publish" => Fresh(m.ver, m.until)

LEMMA FreshLess ==
  ASSUME NEW v \in Version, NEW u \in 0..TTL, NEW w \in 0..TTL, w <= u, Fresh(v, u), TypeOK
  PROVE  Fresh(v, w)
<1>1. age[v] \in 0..TTL
  BY DEF TypeOK
<1> QED
  BY <1>1, CacheAssumption DEF Fresh

\* Nothing new but what p brings: the value, the flight of p and the command it leaves.
LEMMA KeepFresh ==
  ASSUME FreshInv, UNCHANGED source,
         value' = None \/ value' = value \/ (value' # None /\ Fresh(value'.ver, value'.until)),
         \A p \in Proc :
           /\ flight'[p].phase = "read" => Fresh(flight'[p].ver, flight'[p].budget)
           /\ flight'[p].phase = "publish" => Fresh(flight'[p].ver, flight'[p].until),
         \A m \in late' : m \in late \/ (m.op = "publish" => Fresh(m.ver, m.until))
  PROVE  FreshInv'
BY DEF FreshInv, Fresh, source

LEMMA KeepFreshMoves ==
  ASSUME FreshInv, UNCHANGED source,
         value' = None \/ value' = value \/ (value' # None /\ Fresh(value'.ver, value'.until)),
         NEW p \in Proc, Moves(p),
         flight'[p].phase = "read" => Fresh(flight'[p].ver, flight'[p].budget),
         flight'[p].phase = "publish" => Fresh(flight'[p].ver, flight'[p].until),
         \A m \in late' : m \in late \/ (m.op = "publish" => Fresh(m.ver, m.until))
  PROVE  FreshInv'
<1>1. \A q \in Proc :
        /\ flight'[q].phase = "read" => Fresh(flight'[q].ver, flight'[q].budget)
        /\ flight'[q].phase = "publish" => Fresh(flight'[q].ver, flight'[q].until)
  BY DEF Moves, FreshInv
<1> QED
  BY <1>1, KeepFresh

LEMMA KeepFreshStill ==
  ASSUME FreshInv, UNCHANGED <<source, flight>>,
         value' = None \/ value' = value \/ (value' # None /\ Fresh(value'.ver, value'.until)),
         \A m \in late' : m \in late \/ (m.op = "publish" => Fresh(m.ver, m.until))
  PROVE  FreshInv'
BY KeepFresh DEF FreshInv

LEMMA FailsFresh ==
  ASSUME TypeOK, FreshInv, NEW p \in Proc,
         NEW op \in {"acquire", "renew", "publish", "release", "discard"}, Fails(op, p),
         op = "publish" => flight[p].phase = "publish"
  PROVE  \A m \in late' : m \in late \/ (m.op = "publish" => Fresh(m.ver, m.until))
<1>1. \A m \in late' : m \in late \/ m = Cmd(op, p)
  BY FailsGrows
<1>2. Cmd(op, p).op = op /\ Cmd(op, p).ver = flight[p].ver /\ Cmd(op, p).until = flight[p].until
  BY CmdTypes
<1> QED
  BY <1>1, <1>2 DEF FreshInv

\* A step that sets no value but by publishing m.
LEMMA PublishFresh ==
  ASSUME TypeOK, NEW t, NEW m \in Command, DoPublish(t, m), Fresh(m.ver, m.until)
  PROVE  value' = value \/ (value' # None /\ Fresh(value'.ver, value'.until))
<1>1. m.px > 0 => EntryOf(m) # None
  <2>1. m.px > 0 => EntryOf(m) \in Entry
    BY CacheAssumption DEF Command, EntryOf, Entry
  <2> QED
    BY <2>1, NoneAssumption
<1> QED
  BY <1>1 DEF DoPublish, EntryOf

LEMMA WorksFresh ==
  ASSUME TypeOK, FreshInv, NEW p \in Proc, Works(p)
  PROVE  FreshInv'
<1> USE DEF redis
<1>0. /\ flight[p] \in Flight /\ flight[p].ver \in Version /\ flight[p].budget \in 0..TTL
      /\ flight[p].until \in 0..TTL
  BY Fields DEF TypeOK
<1>1. CASE Acquire(p)
  BY <1>1, HitMoves, FindExpiredMoves, TakeLockMoves, KeepFreshMoves
  DEF Acquire, Hit, FindExpired, TakeLock, DoAcquire
<1>2. CASE TimesOut(p)
  BY <1>2, TimesOutMoves, KeepFreshMoves DEF TimesOut
<1>3. CASE Discard(p)
  BY <1>3, DiscardMoves, KeepFreshMoves DEF Discard, DoDiscard
<1>4. CASE Publish(p)
  <2>1. /\ DoPublish(flight[p].token, Cmd("publish", p)) /\ UNCHANGED <<source, late>>
        /\ flight[p].phase = "publish"
    BY <1>4 DEF Publish
  <2>2. Fresh(Cmd("publish", p).ver, Cmd("publish", p).until)
    BY <2>1, CmdTypes DEF FreshInv
  <2>3. value' = value \/ (value' # None /\ Fresh(value'.ver, value'.until))
    BY <2>1, <2>2, CmdTypes, PublishFresh
  <2> QED
    BY <1>4, <2>1, <2>3, PublishMoves, KeepFreshMoves
<1>5. CASE Release(p)
  BY <1>5, ReleaseMoves, KeepFreshMoves DEF Release, DoRelease
<1>6. CASE ReadSource(p)
  <2>1. Fresh(flight'[p].ver, flight'[p].budget) /\ flight'[p].phase = "read"
    BY <1>6, ReadSourceMoves DEF Fresh, TypeOK, Version
  <2> QED
    BY <1>6, <2>1, ReadSourceMoves, KeepFreshMoves DEF ReadSource
<1>7. CASE LoadEnds(p)
  <2>1. flight[p].phase = "read" /\ UNCHANGED <<source, value, late>>
    BY <1>7 DEF LoadEnds
  <2>2. flight'[p].until \in 0..TTL
    BY <1>7, LoadEndsMoves, Fields DEF Moves
  <2>3. Fresh(flight[p].ver, flight[p].budget)
    BY <2>1 DEF FreshInv
  <2>4. flight'[p].phase = "publish" => Fresh(flight'[p].ver, flight'[p].until)
    BY <1>0, <1>7, <2>2, <2>3, LoadEndsMoves, FreshLess
  <2> QED
    BY <1>7, <2>1, <2>4, LoadEndsMoves, KeepFreshMoves
<1>8. CASE LoadErrs(p)
  BY <1>8, LoadErrsMoves, KeepFreshMoves DEF LoadErrs
<1>9. CASE Deliver(p)
  <2>1. flight'[p].phase = "none"
    <3>1. flight'[p] = NoFlight(p)
      BY <1>9, DeliverMoves
    <3> QED
      BY <3>1 DEF NoFlight
  <2> QED
    BY <1>9, <2>1, DeliverMoves, KeepFreshMoves DEF Deliver
<1> QED
  BY <1>1, <1>2, <1>3, <1>4, <1>5, <1>6, <1>7, <1>8, <1>9 DEF Works

LEMMA BreaksFresh ==
  ASSUME TypeOK, FreshInv, NEW p \in Proc, Breaks(p)
  PROVE  FreshInv'
<1>1. CASE AcquireFails(p)
  <2>1. Fails("acquire", p) /\ UNCHANGED <<source, value>>
    BY <1>1 DEF AcquireFails
  <2> QED
    BY <1>1, <2>1, FailsFresh, AcquireFailsMoves, KeepFreshMoves
<1>2. CASE DiscardFails(p)
  <2>1. Fails("discard", p) /\ UNCHANGED <<source, value>>
    BY <1>2 DEF DiscardFails
  <2> QED
    BY <1>2, <2>1, FailsFresh, DiscardFailsMoves, KeepFreshMoves
<1>3. CASE PublishFails(p)
  <2>1. Fails("publish", p) /\ UNCHANGED <<source, value>> /\ flight[p].phase = "publish"
    BY <1>3 DEF PublishFails
  <2> QED
    BY <1>3, <2>1, FailsFresh, PublishFailsMoves, KeepFreshMoves
<1>4. CASE ReleaseFails(p)
  <2>1. Fails("release", p) /\ UNCHANGED <<source, value>>
    BY <1>4 DEF ReleaseFails
  <2> QED
    BY <1>4, <2>1, FailsFresh, ReleaseFailsMoves, KeepFreshMoves
<1> QED
  BY <1>1, <1>2, <1>3, <1>4 DEF Breaks

LEMMA CoalesceFresh ==
  ASSUME TypeOK, FreshInv, NEW p \in Proc, NEW budget \in 0..TTL,
         Coalesce(p, budget), UNCHANGED <<source, value, late>>
  PROVE  FreshInv'
<1>1. CASE flight'[p] = flight[p]
  BY <1>1, CoalesceMoves, KeepFreshMoves DEF FreshInv
<1>2. CASE flight'[p] # flight[p]
  BY <1>2, CoalesceMoves, KeepFreshMoves
<1> QED
  BY <1>1, <1>2

\* A tick adds to the age what it takes from the time to live.
LEMMA TickFresh ==
  ASSUME TypeOK, FreshInv, Tick
  PROVE  FreshInv'
<1>0. db' = db /\ db \in Version
  BY DEF Tick, TypeOK
<1>1. ASSUME NEW v \in Version, NEW u \in 0..TTL, Fresh(v, u)
      PROVE  v < db => age'[v] + Less(u) <= TTL
  <2>1. age'[v] = Older(v) /\ age[v] \in 0..TTL
    BY TickTypes DEF TypeOK
  <2> QED
    BY <1>1, <2>1, CacheAssumption DEF Fresh, Older, Less
<1>2. \A v \in Version : v >= db => age'[v] = 0
  BY <1>0, TickTypes, CacheAssumption DEF FreshInv, Older, Version
<1>3. value' # None => (value'.ver < db => age'[value'.ver] + value'.until <= TTL)
  <2> SUFFICES ASSUME value' # None
               PROVE  value'.ver < db => age'[value'.ver] + value'.until <= TTL
    OBVIOUS
  <2>1. value # None /\ value'.ver = value.ver /\ value'.until = Less(value.until)
    BY TickTypes
  <2>2. value.ver \in Version /\ value.until \in 0..TTL /\ Fresh(value.ver, value.until)
    BY <2>1 DEF TypeOK, Entry, FreshInv
  <2> QED
    BY <1>1, <2>1, <2>2
<1>4. ASSUME NEW p \in Proc
      PROVE  /\ flight'[p].phase = "read" =>
                  (flight'[p].ver < db => age'[flight'[p].ver] + flight'[p].budget <= TTL)
             /\ flight'[p].phase = "publish" =>
                  (flight'[p].ver < db => age'[flight'[p].ver] + flight'[p].until <= TTL)
  <2>1. /\ flight[p].ver \in Version /\ flight[p].budget \in 0..TTL /\ flight[p].until \in 0..TTL
    BY Fields DEF TypeOK
  <2>2. /\ flight[p].phase = "read" => Fresh(flight[p].ver, flight[p].budget)
        /\ flight[p].phase = "publish" => Fresh(flight[p].ver, flight[p].until)
    BY DEF FreshInv
  <2>3. /\ flight'[p].phase = flight[p].phase /\ flight'[p].ver = flight[p].ver
        /\ flight'[p].until = Less(flight[p].until)
        /\ flight'[p].budget = Less(flight[p].budget)
    BY TickTypes
  <2> QED
    BY <1>1, <2>1, <2>2, <2>3
<1>5. ASSUME NEW m \in late', m.op = "publish"
      PROVE  m.ver < db' => age'[m.ver] + m.until <= TTL
  <2>1. PICK n \in late : m.op = n.op /\ m.ver = n.ver /\ m.until = Less(n.until)
    BY <1>5, TickTypes
  <2>2. n.ver \in Version /\ n.until \in 0..TTL
    BY DEF TypeOK, Command
  <2> QED
    BY <1>0, <1>1, <1>5, <2>1, <2>2 DEF FreshInv
<1> QED
  BY <1>0, <1>2, <1>3, <1>4, <1>5 DEF FreshInv, Fresh

LEMMA FreshStep ==
  ASSUME TypeOK, FreshInv, [Next]_vars
  PROVE  FreshInv'
<1> USE DEF redis
<1>1. CASE UNCHANGED vars
  BY <1>1, KeepFreshStill DEF vars
<1>2. ASSUME NEW p \in Proc, Renew(p) \/ RenewFails(p) PROVE FreshInv'
  <2>1. /\ UNCHANGED <<source, value>> /\ Moves(p) /\ flight'[p].phase = flight[p].phase
        /\ flight'[p].ver = flight[p].ver /\ flight'[p].until = flight[p].until
        /\ flight'[p].budget = flight[p].budget
    BY <1>2, RenewMoves, RenewFailsMoves DEF Renew, RenewFails, DoRenew
  <2>2. \A m \in late' : m \in late \/ (m.op = "publish" => Fresh(m.ver, m.until))
    <3>1. CASE Renew(p)
      BY <3>1 DEF Renew
    <3>2. CASE RenewFails(p)
      BY <3>2, FailsFresh DEF RenewFails
    <3> QED
      BY <1>2, <3>1, <3>2
  <2> QED
    BY <2>1, <2>2, KeepFreshMoves DEF FreshInv
<1>3. ASSUME NEW p \in Proc, Invalidate(p) PROVE FreshInv'
  BY <1>3, KeepFreshStill DEF Invalidate, DoDelete
<1>4. ASSUME NEW p \in Proc, MayArrive(DelCmd(p)), UNCHANGED <<source, value, flight>>
      PROVE  FreshInv'
  <2>1. \A m \in late' : m \in late \/ m.op = "del"
    BY <1>4, DelCmdTypes, LateGrows
  <2> QED
    BY <1>4, <2>1, KeepFreshStill
<1>5. ASSUME NEW p \in Proc, InvalidateFails(p) PROVE FreshInv'
  BY <1>4, <1>5 DEF InvalidateFails
<1>6. ASSUME NEW p \in Proc, Crash(p) PROVE FreshInv'
  <2>1. Moves(p) /\ flight'[p].phase = "none"
    <3>1. Moves(p) /\ flight'[p] = NoFlight(p)
      BY <1>6, CrashMoves
    <3> QED
      BY <3>1 DEF NoFlight
  <2> QED
    BY <1>6, <2>1, KeepFreshMoves DEF Crash
<1>7. ASSUME NEW c \in Caller, Call(c) PROVE FreshInv'
  BY <1>7, Constants, CoalesceFresh DEF Call
<1>8. ASSUME NEW c \in Caller, Cancel(c) \/ LoadAlone(c) PROVE FreshInv'
  BY <1>8, KeepFreshStill DEF Cancel, LoadAlone
<1>9. ASSUME NEW c \in Caller, DropUndecoded(c) PROVE FreshInv'
  <2>1. CASE DoDelete /\ UNCHANGED <<late, outage>>
    BY <1>9, <2>1, KeepFreshStill DEF DropUndecoded, DoDelete
  <2>2. CASE MayArrive(DelCmd(Home[c])) /\ UNCHANGED value
    BY <1>4, <1>9, <2>2, Constants DEF DropUndecoded
  <2> QED
    BY <1>9, <2>1, <2>2 DEF DropUndecoded
<1>10. ASSUME NEW c \in Caller, Retry(c) PROVE FreshInv'
  <2>1. caller[c].budget \in 0..TTL
    BY DEF TypeOK
  <2> QED
    BY <1>10, <2>1, Constants, CoalesceFresh DEF Retry
<1>11. CASE Commit
  <2>1. ASSUME NEW v \in Version, NEW u \in 0..TTL, Fresh(v, u)
        PROVE  v < db' => age[v] + u <= TTL
    <3>1. v < db \/ v >= db
      BY DEF TypeOK, Version
    <3>2. v >= db => age[v] = 0
      BY DEF FreshInv
    <3> QED
      BY <2>1, <3>1, <3>2, CacheAssumption DEF Fresh
  <2>2. /\ value # None => value.ver \in Version /\ value.until \in 0..TTL
        /\ \A m \in late : m.ver \in Version /\ m.until \in 0..TTL
    BY DEF TypeOK, Entry, Command
  <2>3. \A p \in Proc : /\ flight[p].ver \in Version
                        /\ flight[p].budget \in 0..TTL /\ flight[p].until \in 0..TTL
    BY Fields DEF TypeOK
  <2>4. UNCHANGED <<age, value, late, flight>> /\ db' = db + 1 /\ db \in Nat
    BY <1>11 DEF Commit, TypeOK, Version
  <2>5. \A v \in Version : v >= db' => age'[v] = 0
    BY <2>4 DEF FreshInv, Version
  <2> QED
    BY <2>1, <2>2, <2>3, <2>4, <2>5 DEF FreshInv, Fresh
<1>12. CASE Arrive
  <2>1. PICK m \in late : CarryOut(m) /\ late' = late \ {m} /\ UNCHANGED <<source, outage, flight, caller>>
    BY <1>12 DEF Arrive
  <2>2. m \in Command /\ m.op \in {"acquire", "renew", "publish", "release", "discard", "del"}
    BY DEF TypeOK, Command
  <2>3. CASE m.op = "publish"
    BY <2>1, <2>2, <2>3, PublishFresh, KeepFreshStill DEF CarryOut, FreshInv
  <2>4. CASE m.op # "publish"
    <3>1. value' \in {value, None}
      BY <2>1, <2>2, <2>4 DEF CarryOut, DoAcquire, DoRenew, DoRelease, DoDiscard, DoDelete
    <3> QED
      BY <2>1, <3>1, KeepFreshStill
  <2> QED
    BY <2>3, <2>4
<1>13. CASE Lose \/ RestartRedis
  BY <1>13, KeepFreshStill DEF Lose, RestartRedis
<1> QED
  BY <1>1, <1>2, <1>3, <1>5, <1>6, <1>7, <1>8, <1>9, <1>10, <1>11, <1>12, <1>13,
     WorksFresh, BreaksFresh, TickFresh DEF Next

LEMMA InitFresh ==
  ASSUME Init
  PROVE  FreshInv
BY DEF Init, FreshInv, NoFlight

\* An overwritten version is gone from Redis within TTL, with no invalidation
\* at all (get: the deadline counts from the call; publish: PX what is left).
THEOREM ValuesAge == Spec => []NeverOlderThanTTL
<1>1. TypeOK /\ TokenInv /\ FreshInv /\ [Next]_vars => TypeOK' /\ TokenInv' /\ FreshInv'
  BY TypeStep, TokenStep, FreshStep
<1>2. FreshInv => NeverOlderThanTTL
  BY DEF FreshInv, NeverOlderThanTTL, Fresh
<1> QED
  BY <1>1, <1>2, InitTypes, InitFresh, PTL DEF Spec

\* A hit is younger than TTL (read: p.Until against the clock).
LEMMA HitStep ==
  ASSUME TypeOK, FreshInv, [Next]_vars
  PROVE  HitWithinTTL
<1> SUFFICES ASSUME NEW p \in Proc, flight[p].phase = "acquire", flight'[p].phase = "done",
                    flight'[p].kind = "ok"
             PROVE  age[flight'[p].ver] < TTL
  BY DEF HitWithinTTL
<1>1. CASE Hit(p)
  <2>1. value # None /\ value.until > 0 /\ flight'[p].ver = value.ver
    BY <1>1, HitMoves DEF Hit
  <2>2. value.ver \in Version /\ value.until \in 0..TTL /\ age[value.ver] \in 0..TTL /\ db \in Nat
    BY <2>1 DEF TypeOK, Entry, Version
  <2>3. value.ver < db => age[value.ver] + value.until <= TTL
    BY <2>1 DEF FreshInv, Fresh
  <2>4. value.ver >= db => age[value.ver] = 0
    BY <2>2 DEF FreshInv
  <2>5. value.ver \in Nat
    BY <2>2, CacheAssumption DEF Version
  <2> QED
    BY <2>1, <2>2, <2>3, <2>4, <2>5, CacheAssumption
<1>2. CASE ~Hit(p)
  <2>1. \A q \in Proc : q # p => ~Moves(q)
    BY DEF Moves
  <2>2. ~UNCHANGED flight
    OBVIOUS
  <2>3. ~ \E q \in Proc : Renew(q) \/ RenewFails(q) \/ Crash(q) \/ Breaks(q)
    <3> SUFFICES ASSUME NEW q \in Proc,
                        Renew(q) \/ RenewFails(q) \/ Crash(q) \/ Breaks(q)
                 PROVE  FALSE
      OBVIOUS
    <3>1. q = p
      BY <2>1, RenewMoves, RenewFailsMoves, CrashMoves, AcquireFailsMoves, DiscardFailsMoves,
         PublishFailsMoves, ReleaseFailsMoves DEF Breaks
    <3>2. CASE Crash(q)
      <4>1. flight'[p] = NoFlight(p)
        BY <3>1, <3>2, CrashMoves
      <4> QED
        BY <4>1 DEF NoFlight
    <3>3. CASE Renew(q) \/ RenewFails(q)
      BY <3>1, <3>3 DEF Renew, RenewFails
    <3>4. CASE Breaks(q)
      BY <3>1, <3>4, AcquireFailsMoves DEF Breaks, DiscardFails, PublishFails, ReleaseFails
    <3> QED
      BY <3>2, <3>3, <3>4
  <2>4. ~ \E q \in Proc : Works(q)
    <3> SUFFICES ASSUME NEW q \in Proc, Works(q) PROVE FALSE
      OBVIOUS
    <3>1. Moves(q)
      BY HitMoves, FindExpiredMoves, TakeLockMoves, TimesOutMoves, DiscardMoves, PublishMoves,
         ReleaseMoves, ReadSourceMoves, LoadEndsMoves, LoadErrsMoves, DeliverMoves
      DEF Works, Acquire
    <3>2. q = p
      BY <2>1, <3>1
    <3>3. FindExpired(p) \/ TakeLock(p) \/ TimesOut(p)
      BY <1>2, <3>2 DEF Works, Acquire, Discard, Publish, Release, ReadSource, LoadEnds,
                        LoadErrs, Deliver
    <3> QED
      BY <3>3, FindExpiredMoves, TakeLockMoves, TimesOutMoves
  <2>5. ASSUME NEW c \in Caller, Call(c) \/ Retry(c) PROVE FALSE
    <3>1. PICK budget \in 0..TTL : Coalesce(Home[c], budget)
      BY <2>5, Constants DEF Call, Retry, TypeOK
    <3>2. Home[c] = p
      BY <2>1, <3>1, Constants, CoalesceMoves
    <3> QED
      BY <3>1, <3>2 DEF Coalesce
  <2>6. ~Tick
    BY TickTypes
  <2>7. ~ \E c \in Caller : Cancel(c) \/ DropUndecoded(c) \/ LoadAlone(c)
    BY <2>2 DEF Cancel, DropUndecoded, LoadAlone
  <2>8. ~ \E q \in Proc : Invalidate(q) \/ InvalidateFails(q)
    BY <2>2 DEF Invalidate, InvalidateFails
  <2>9. ~(Commit \/ Arrive \/ Lose \/ RestartRedis \/ UNCHANGED vars)
    BY <2>2 DEF Commit, Arrive, Lose, RestartRedis, vars
  <2> QED
    BY <2>3, <2>4, <2>5, <2>6, <2>7, <2>8, <2>9 DEF Next
<1> QED
  BY <1>1, <1>2

\* Every hit, in every run, is on a version overwritten less than TTL ago (read:
\* the deadline inside the payload is checked, however long its key lives).
THEOREM HitsStayWithinTTL == Spec => HitsAreFresh
<1>1. TypeOK /\ TokenInv /\ FreshInv /\ [Next]_vars => TypeOK' /\ TokenInv' /\ FreshInv'
  BY TypeStep, TokenStep, FreshStep
<1>2. TypeOK /\ FreshInv /\ [Next]_vars => HitWithinTTL
  BY HitStep
<1> QED
  BY <1>1, <1>2, InitTypes, InitFresh, PTL DEF Spec, HitsAreFresh

-----------------------------------------------------------------------------
(* Holders. *)

Fills(f) == f.phase \in {"load", "read", "publish", "release"}
SameHolder == lock' = None \/ lock'.lost
                \/ (lock # None /\ lock'.token = lock.token /\ lock'.lost = lock.lost)

LEMMA KeepHolders ==
  ASSUME LocksHaveHolders, SameHolder, NEW p \in Proc, Moves(p),
         \/ lock' = None \/ lock'.lost
         \/ lock # None /\ flight[p].token # lock.token
         \/ ~Fills(flight[p])
         \/ Fills(flight'[p]) /\ flight'[p].token = flight[p].token
  PROVE  LocksHaveHolders'
BY DEF LocksHaveHolders, SameHolder, Moves, Fills

LEMMA KeepHoldersStill ==
  ASSUME LocksHaveHolders, SameHolder, UNCHANGED flight
  PROVE  LocksHaveHolders'
BY DEF LocksHaveHolders, SameHolder

LEMMA ScriptsKeepHolder ==
  ASSUME TypeOK, NEW t
  PROVE  /\ DoRenew(t) \/ DoRelease(t) \/ DoDelete \/ GiveUp(t) => SameHolder
         /\ \A m : DoDiscard(m) \/ DoPublish(t, m) => SameHolder
         /\ UNCHANGED lock => SameHolder
<1>1. DoRenew(t) => SameHolder
  BY DEF DoRenew, Owns, SameHolder, TypeOK, Lock
<1>2. GiveUp(t) => SameHolder
  BY DEF GiveUp, Owns, SameHolder, TypeOK, Lock
<1> QED
  BY <1>1, <1>2 DEF DoRelease, DoDelete, DoDiscard, DoPublish, SameHolder

LEMMA GiveUpFrees ==
  ASSUME TypeOK, NEW p \in Proc, GiveUp(flight[p].token)
  PROVE  lock' = None \/ lock'.lost \/ (lock # None /\ flight[p].token # lock.token)
BY GiveUpTypes DEF Owns

LEMMA WorksHolders ==
  ASSUME TypeOK, TypeOK', TokenInv, LocksHaveHolders, NEW p \in Proc, Works(p)
  PROVE  LocksHaveHolders'
<1> USE DEF redis
<1>1. CASE Acquire(p) /\ TakeLock(p)
  <2>1. lock' # None => lock'.token = flight[p].token
    BY <1>1 DEF TakeLock, DoAcquire
  <2>2. flight'[p].phase = "load" /\ flight'[p].token = flight[p].token
    BY <1>1, TakeLockMoves
  <2> QED
    BY <2>1, <2>2 DEF LocksHaveHolders
<1>2. CASE Acquire(p) /\ (Hit(p) \/ FindExpired(p))
  <2>1. UNCHANGED lock /\ ~Fills(flight[p])
    BY <1>2 DEF Acquire, Hit, FindExpired, Fills
  <2> QED
    BY <1>2, <2>1, HitMoves, FindExpiredMoves, ScriptsKeepHolder, KeepHolders
<1>3. CASE TimesOut(p)
  <2>1. UNCHANGED lock /\ ~Fills(flight[p])
    BY <1>3 DEF TimesOut, Fills
  <2> QED
    BY <1>3, <2>1, TimesOutMoves, ScriptsKeepHolder, KeepHolders
<1>4. CASE Discard(p)
  <2>1. DoDiscard(flight[p]) /\ ~Fills(flight[p])
    BY <1>4 DEF Discard, Fills
  <2> QED
    BY <1>4, <2>1, DiscardMoves, ScriptsKeepHolder, KeepHolders
<1>5. CASE Publish(p)
  <2>1. DoPublish(flight[p].token, Cmd("publish", p))
    BY <1>5 DEF Publish
  <2>2. lock' = None \/ (lock # None /\ flight[p].token # lock.token)
    BY <2>1 DEF DoPublish, Owns
  <2> QED
    BY <1>5, <2>1, <2>2, PublishMoves, ScriptsKeepHolder, KeepHolders
<1>6. CASE Release(p)
  <2>1. DoRelease(flight[p].token)
    BY <1>6 DEF Release
  <2>2. lock' = None \/ (lock # None /\ flight[p].token # lock.token)
    BY <2>1 DEF DoRelease, Owns
  <2> QED
    BY <1>6, <2>1, <2>2, ReleaseMoves, ScriptsKeepHolder, KeepHolders
<1>7. CASE ReadSource(p)
  <2>1. UNCHANGED lock
    BY <1>7 DEF ReadSource
  <2> QED
    BY <1>7, <2>1, ReadSourceMoves, ScriptsKeepHolder, KeepHolders DEF Fills
<1>8. CASE LoadEnds(p) \/ LoadErrs(p)
  <2>1. UNCHANGED lock
    BY <1>8 DEF LoadEnds, LoadErrs
  <2>2. CASE Locked(flight[p])
    BY <1>8, <2>1, <2>2, LoadEndsMoves, LoadErrsMoves, ScriptsKeepHolder, KeepHolders DEF Fills
  <2>3. CASE ~Locked(flight[p])
    <3>1. lock' = None \/ (lock # None /\ flight[p].token # lock.token)
      BY <2>1, <2>3, CacheAssumption DEF Locked, TypeOK, Lock
    <3> QED
      BY <1>8, <2>1, <2>3, <3>1, LoadEndsMoves, LoadErrsMoves, ScriptsKeepHolder, KeepHolders
  <2> QED
    BY <2>2, <2>3
<1>9. CASE Deliver(p)
  <2>1. UNCHANGED lock /\ ~Fills(flight[p])
    BY <1>9 DEF Deliver, Fills
  <2> QED
    BY <1>9, <2>1, DeliverMoves, ScriptsKeepHolder, KeepHolders
<1> QED
  BY <1>1, <1>2, <1>3, <1>4, <1>5, <1>6, <1>7, <1>8, <1>9 DEF Works, Acquire

LEMMA BreaksHolders ==
  ASSUME TypeOK, TokenInv, LocksHaveHolders, NEW p \in Proc, Breaks(p)
  PROVE  LocksHaveHolders'
<1>1. CASE AcquireFails(p) \/ DiscardFails(p)
  <2>1. UNCHANGED lock /\ ~Fills(flight[p])
    BY <1>1 DEF AcquireFails, DiscardFails, Fills
  <2> QED
    BY <1>1, <2>1, AcquireFailsMoves, DiscardFailsMoves, ScriptsKeepHolder, KeepHolders
<1>2. CASE PublishFails(p) \/ ReleaseFails(p)
  <2>1. GiveUp(flight[p].token)
    BY <1>2 DEF PublishFails, ReleaseFails
  <2> QED
    BY <1>2, <2>1, GiveUpFrees, PublishFailsMoves, ReleaseFailsMoves, ScriptsKeepHolder,
       KeepHolders
<1> QED
  BY <1>1, <1>2 DEF Breaks

LEMMA CoalesceHolders ==
  ASSUME TypeOK, LocksHaveHolders, NEW p \in Proc, NEW budget \in 0..TTL,
         Coalesce(p, budget), UNCHANGED lock
  PROVE  LocksHaveHolders'
<1>1. CASE UNCHANGED flight
  BY <1>1, ScriptsKeepHolder, KeepHoldersStill
<1>2. CASE ~UNCHANGED flight
  <2>1. ~Fills(flight[p])
    BY <1>2 DEF Coalesce, Fills
  <2> QED
    BY <2>1, CoalesceMoves, ScriptsKeepHolder, KeepHolders
<1> QED
  BY <1>1, <1>2

LEMMA HolderStep ==
  ASSUME TypeOK, TypeOK', TokenInv, LocksHaveHolders, [Next]_vars
  PROVE  LocksHaveHolders'
<1> USE DEF redis
<1>1. CASE UNCHANGED vars
  BY <1>1, ScriptsKeepHolder, KeepHoldersStill DEF vars
<1>2. ASSUME NEW p \in Proc, Renew(p) PROVE LocksHaveHolders'
  <2>1. DoRenew(flight[p].token)
    BY <1>2 DEF Renew
  <2> QED
    BY <1>2, <2>1, RenewMoves, ScriptsKeepHolder, KeepHolders DEF Fills
<1>3. ASSUME NEW p \in Proc, RenewFails(p) PROVE LocksHaveHolders'
  <2>1. UNCHANGED lock
    BY <1>3 DEF RenewFails
  <2> QED
    BY <1>3, <2>1, RenewFailsMoves, ScriptsKeepHolder, KeepHolders DEF Fills
<1>4. ASSUME NEW p \in Proc, Invalidate(p) \/ InvalidateFails(p) PROVE LocksHaveHolders'
  BY <1>4, ScriptsKeepHolder, KeepHoldersStill DEF Invalidate, InvalidateFails
<1>5. ASSUME NEW p \in Proc, Crash(p) PROVE LocksHaveHolders'
  <2>1. Moves(p)
    BY <1>5, CrashMoves
  <2>2. CASE Locked(flight[p])
    <3>1. GiveUp(flight[p].token)
      BY <1>5, <2>2 DEF Crash
    <3> QED
      BY <2>1, <3>1, GiveUpFrees, ScriptsKeepHolder, KeepHolders
  <2>3. CASE ~Locked(flight[p])
    <3>1. UNCHANGED lock
      BY <1>5, <2>3 DEF Crash
    <3>2. lock' = None \/ (lock # None /\ flight[p].token # lock.token)
      BY <2>3, <3>1, CacheAssumption DEF Locked, TypeOK, Lock
    <3> QED
      BY <2>1, <3>1, <3>2, ScriptsKeepHolder, KeepHolders
  <2> QED
    BY <2>2, <2>3
<1>6. ASSUME NEW c \in Caller, Call(c) PROVE LocksHaveHolders'
  BY <1>6, Constants, CoalesceHolders DEF Call
<1>7. ASSUME NEW c \in Caller, Retry(c) PROVE LocksHaveHolders'
  <2>1. caller[c].budget \in 0..TTL
    BY DEF TypeOK
  <2> QED
    BY <1>7, <2>1, Constants, CoalesceHolders DEF Retry
<1>8. ASSUME NEW c \in Caller, Cancel(c) \/ LoadAlone(c) \/ DropUndecoded(c)
      PROVE  LocksHaveHolders'
  BY <1>8, ScriptsKeepHolder, KeepHoldersStill DEF Cancel, LoadAlone, DropUndecoded
<1>9. CASE Commit \/ Lose \/ RestartRedis
  BY <1>9, ScriptsKeepHolder, KeepHoldersStill DEF Commit, Lose, RestartRedis, SameHolder
<1>10. CASE Arrive
  <2>1. PICK m \in late : CarryOut(m) /\ UNCHANGED flight
    BY <1>10 DEF Arrive
  <2>2. m.op \in {"acquire", "renew", "publish", "release", "discard", "del"}
    BY DEF TypeOK, Command
  <2>3. DoAcquire(m.token, TRUE) => SameHolder
    <3> DEFINE k == [token |-> m.token, left |-> Lease, lost |-> TRUE]
    <3>1. k.lost
      OBVIOUS
    <3>2. DoAcquire(m.token, TRUE) => lock' = lock \/ lock' = k
      BY DEF DoAcquire
    <3> HIDE DEF k
    <3> QED
      BY <3>1, <3>2, ScriptsKeepHolder DEF SameHolder
  <2>4. SameHolder
    BY <2>1, <2>2, <2>3, ScriptsKeepHolder DEF CarryOut
  <2> QED
    BY <2>1, <2>4, KeepHoldersStill
<1>11. CASE Tick
  BY <1>11, TickTypes DEF LocksHaveHolders
<1> QED
  BY <1>1, <1>2, <1>3, <1>4, <1>5, <1>6, <1>7, <1>8, <1>9, <1>10, <1>11,
     WorksHolders, BreaksHolders DEF Next

\* No path of a flight ends with its lock still in Redis, unless Redis failed
\* or the process crashed (fill: release on an error, DEL in publish).
THEOREM NoLockIsKept == Spec => []LocksHaveHolders
<1>1. TypeOK /\ TokenInv /\ LocksHaveHolders /\ [Next]_vars
        => TypeOK' /\ TokenInv' /\ LocksHaveHolders'
  BY TypeStep, TokenStep, HolderStep
<1>2. Init => LocksHaveHolders
  BY DEF Init, LocksHaveHolders
<1> QED
  BY <1>1, <1>2, InitTypes, PTL DEF Spec
=============================================================================
