----------------------------- MODULE ReadCache -----------------------------
(***************************************************************************)
(* One key of the distributed read cache (readcache/cache.go).             *)
(*                                                                         *)
(* Redis holds a value and a lock for the key.  In every process the       *)
(* readers of the key share one flight (singleflight), which looks the     *)
(* value up, or takes the lock, loads the record from the source and       *)
(* publishes it if the lock is still its own.  Writers commit a new        *)
(* version at the source and afterwards invalidate the key.                *)
(*                                                                         *)
(* Every call to Redis may fail, and one that failed may still be carried  *)
(* out later.  Processes crash; Redis restarts empty.  Time is a set of    *)
(* countdowns, so it has no bound.  All processes read one clock.          *)
(***************************************************************************)
EXTENDS Naturals, FiniteSets

CONSTANTS
  Proc,        \* processes, each with a Cache
  Caller,      \* goroutines that call Get
  Home,        \* the process of each caller
  Codec,       \* the representation each process reads and writes
  Token,       \* nonces
  None,
  TTL,         \* the ttl given to Get, in ticks, as are all durations
  Lease,       \* Config.Lease
  LoadTimeout, \* Config.LoadTimeout
  Outage,      \* how long failed() keeps a process away from Redis
  MaxVersion,  \* bound: commits at the source
  MaxLate      \* bound: failed commands that Redis may still carry out

ASSUME CacheAssumption ==
  /\ Home \in [Caller -> Proc]
  /\ None \notin Token
  /\ TTL \in Nat /\ Lease \in Nat \ {0} /\ LoadTimeout \in Nat /\ Outage \in Nat
  /\ MaxVersion \in Nat /\ MaxLate \in Nat

VARIABLES
  db,      \* the version of the record at the source
  age,     \* ghost: ticks since each version was overwritten, at most TTL
  floor,   \* ghost: the version at the last invalidation Redis carried out
  value,   \* the value key
  lock,    \* the lock key
  late,    \* commands that failed and that Redis may still carry out
  outage,  \* per process, what is left of unavailableUntil
  flight,  \* per process, the flight of the key
  caller   \* per caller, where its Get stands

redis == <<value, lock, late>>
source == <<db, age>>
vars == <<source, floor, redis, outage, flight, caller>>

Codecs == {Codec[p] : p \in Proc}
Version == 0..MaxVersion

\* until: what is left of payload.Until; px: what is left of the key.
Entry == [ver : Version, until : 0..TTL, px : 1..TTL, codec : Codecs]

\* lost (ghost): the holder gave the lock up and Redis did not say so.
Lock == [token : Token, left : 1..Lease, lost : BOOLEAN]

Command == [op : {"acquire", "renew", "publish", "release", "discard", "del"},
            token : Token \cup {None}, ver : Version, until : 0..TTL,
            px : 0..TTL, codec : Codecs]

ASSUME NoneAssumption == None \notin Entry /\ None \notin Lock

\* token is None unless the flight goes through Redis; budget: what is left of
\* the leader's ttl; timeout: of fillCtx; renewing: the renewer runs; base
\* (ghost): floor when Redis answered with the value or took it, 0 otherwise.
Flight ==
  [phase : {"none", "acquire", "discard", "load", "read", "publish", "release", "done"},
   token : Token \cup {None}, budget : 0..TTL, timeout : 0..LoadTimeout,
   renewing : BOOLEAN, kind : {"ok", "uncacheable", "error"},
   ver : Version, until : 0..TTL, codec : Codecs, base : Version]

TypeOK ==
  /\ db \in Version
  /\ age \in [Version -> 0..TTL]
  /\ floor \in Version
  /\ value \in Entry \cup {None}
  /\ lock \in Lock \cup {None}
  /\ late \in SUBSET Command
  /\ outage \in [Proc -> 0..Outage]
  /\ flight \in [Proc -> Flight]
  /\ caller \in [Caller -> [phase : {"idle", "waiting", "undecoded", "again", "alone"},
                            budget : 0..TTL, retried : BOOLEAN]]

NoFlight(p) ==
  [phase |-> "none", token |-> None, budget |-> 0, timeout |-> 0, renewing |-> FALSE,
   kind |-> "ok", ver |-> 0, until |-> 0, codec |-> Codec[p], base |-> 0]

Idle == [phase |-> "idle", budget |-> 0, retried |-> FALSE]

Init ==
  /\ db = 0
  /\ age = [v \in Version |-> 0]
  /\ floor = 0
  /\ value = None /\ lock = None /\ late = {}
  /\ outage = [p \in Proc |-> 0]
  /\ flight = [p \in Proc |-> NoFlight(p)]
  /\ caller = [c \in Caller |-> Idle]

-----------------------------------------------------------------------------
(* The commands, as Redis carries them out: each is one atomic script. *)

Owns(t) == lock # None /\ lock.token = t

DoAcquire(t, lost) ==
  /\ lock' = IF value = None /\ lock = None
               THEN [token |-> t, left |-> Lease, lost |-> lost] ELSE lock
  /\ UNCHANGED <<value, floor>>

DoRenew(t) ==
  /\ lock' = IF Owns(t) THEN [lock EXCEPT !.left = Lease] ELSE lock
  /\ UNCHANGED <<value, floor>>

EntryOf(m) == [ver |-> m.ver, until |-> m.until, px |-> m.px, codec |-> m.codec]

\* Mutant: SET and DEL without comparing the token.
DoPublishAnyway(t, m) ==
  /\ value' = IF m.px > 0 THEN EntryOf(m) ELSE value
  /\ lock' = None
  /\ UNCHANGED floor

\* Mutant: SET also when no time is left.
DoPublishSpent(t, m) ==
  /\ value' = IF Owns(t) THEN EntryOf(m) ELSE value
  /\ lock' = IF Owns(t) THEN None ELSE lock
  /\ UNCHANGED floor

DoPublish(t, m) ==
  /\ value' = IF Owns(t) /\ m.px > 0 THEN EntryOf(m) ELSE value
  /\ lock' = IF Owns(t) THEN None ELSE lock
  /\ UNCHANGED floor

DoRelease(t) ==
  /\ lock' = IF Owns(t) THEN None ELSE lock
  /\ UNCHANGED <<value, floor>>

\* The whole body is compared, its deadline included.
DoDiscard(m) ==
  /\ value' = IF /\ value # None
                 /\ value.ver = m.ver /\ value.codec = m.codec /\ value.until = m.until
                THEN None ELSE value
  /\ UNCHANGED <<lock, floor>>

DoDelete == value' = None /\ lock' = None /\ floor' = db

CarryOut(m) ==
  CASE m.op = "acquire" -> DoAcquire(m.token, TRUE)
    [] m.op = "renew"   -> DoRenew(m.token)
    [] m.op = "publish" -> DoPublish(m.token, m)
    [] m.op = "release" -> DoRelease(m.token)
    [] m.op = "discard" -> DoDiscard(m)
    [] m.op = "del"     -> DoDelete

-----------------------------------------------------------------------------
(* A command that fails: lost, or still on its way. *)

Cmd(op, p) ==
  [op |-> op, token |-> flight[p].token, ver |-> flight[p].ver,
   until |-> flight[p].until, px |-> flight[p].until, codec |-> flight[p].codec]

DelCmd(p) == [Cmd("del", p) EXCEPT !.token = None, !.ver = 0, !.until = 0, !.px = 0,
                                   !.codec = Codec[p]]

MayArrive(m) == late' = late \/ (Cardinality(late) < MaxLate /\ late' = late \cup {m})

\* A command whose context is over is not sent at all.
Fails(op, p) ==
  IF flight[p].timeout > 0 THEN MayArrive(Cmd(op, p)) ELSE UNCHANGED late

\* failed(): the process stays away from Redis for a while.
Failed(p) == outage' = [outage EXCEPT ![p] = Outage]

\* The flight gives up a lock that Redis may still hold for it.
GiveUp(t) == lock' = IF Owns(t) THEN [lock EXCEPT !.lost = TRUE] ELSE lock

-----------------------------------------------------------------------------
(* A flight: Cache.read and Cache.fill. *)

Becomes(p, f) == flight' = [flight EXCEPT ![p] = f]

Result(p, kind, ver, codec, base) ==
  [NoFlight(p) EXCEPT !.phase = "done", !.kind = kind, !.ver = ver, !.codec = codec,
                      !.base = base]

Done(p, kind, ver, codec, base) == Becomes(p, Result(p, kind, ver, codec, base))

\* Mutant: the payload's own deadline is not looked at.
HitAnyEntry(p) ==
  /\ value # None
  /\ Done(p, "ok", value.ver, value.codec, floor)
  /\ UNCHANGED <<source, floor, redis, outage, caller>>

\* acquire answers 1 with a value that is still good.
Hit(p) ==
  /\ value # None /\ value.until > 0
  /\ Done(p, "ok", value.ver, value.codec, floor)
  /\ UNCHANGED <<source, floor, redis, outage, caller>>

\* acquire answers 1 with a value past its deadline.
FindExpired(p) ==
  /\ value # None /\ value.until = 0
  /\ Becomes(p, [flight[p] EXCEPT !.phase = "discard", !.ver = value.ver, !.until = 0,
                                  !.codec = value.codec])
  /\ UNCHANGED <<source, floor, redis, outage, caller>>

\* acquire answers 2: the lock is ours.
TakeLock(p) ==
  /\ value = None /\ lock = None
  /\ DoAcquire(flight[p].token, FALSE)
  /\ Becomes(p, [flight[p] EXCEPT !.phase = "load", !.renewing = TRUE])
  /\ UNCHANGED <<source, late, outage, caller>>

\* acquire answers 0 otherwise: the flight sleeps and tries again, nothing changes.
Acquire(p) ==
  /\ flight[p].phase = "acquire" /\ flight[p].timeout > 0
  /\ Hit(p) \/ FindExpired(p) \/ TakeLock(p)

LoadUnlocked(p) ==
  [flight[p] EXCEPT !.phase = "load", !.token = None, !.ver = 0, !.codec = Codec[p]]

\* On an error the source is read without the lock.
AcquireFails(p) ==
  /\ flight[p].phase = "acquire" /\ flight[p].timeout > 0
  /\ Fails("acquire", p) /\ Failed(p)
  /\ Becomes(p, LoadUnlocked(p))
  /\ UNCHANGED <<source, floor, value, lock, caller>>

\* ctx.Err() at the head of the loop, ctx.Done() while it sleeps.
TimesOut(p) ==
  /\ flight[p].phase = "acquire" /\ flight[p].timeout = 0
  /\ Done(p, "error", 0, Codec[p], 0)
  /\ UNCHANGED <<source, floor, redis, outage, caller>>

Discard(p) ==
  /\ flight[p].phase = "discard" /\ flight[p].timeout > 0
  /\ DoDiscard(flight[p])
  /\ Becomes(p, [flight[p] EXCEPT !.phase = "acquire", !.ver = 0, !.codec = Codec[p]])
  /\ UNCHANGED <<source, late, outage, caller>>

DiscardFails(p) ==
  /\ flight[p].phase = "discard"
  /\ Fails("discard", p) /\ Failed(p)
  /\ Becomes(p, LoadUnlocked(p))
  /\ UNCHANGED <<source, floor, value, lock, caller>>

-----------------------------------------------------------------------------
(* Loading.  The source is read at some moment of the load; time may pass   *)
(* before and after it.                                                     *)

Locked(f) == f.token # None

Renew(p) ==
  /\ flight[p].phase \in {"load", "read"} /\ flight[p].renewing /\ flight[p].timeout > 0
  /\ DoRenew(flight[p].token)
  /\ Becomes(p, [flight[p] EXCEPT !.renewing = Owns(flight[p].token)])
  /\ UNCHANGED <<source, late, outage, caller>>

\* The renewer ends silently.
RenewFails(p) ==
  /\ flight[p].phase \in {"load", "read"} /\ flight[p].renewing
  /\ Fails("renew", p)
  /\ Becomes(p, [flight[p] EXCEPT !.renewing = FALSE])
  /\ UNCHANGED <<source, floor, value, lock, outage, caller>>

ReadSource(p) ==
  /\ flight[p].phase = "load"
  /\ Becomes(p, [flight[p] EXCEPT !.phase = "read", !.ver = db])
  /\ UNCHANGED <<source, floor, redis, outage, caller>>

\* Mutant: the ttl counts from the end of the load.
StoredAfresh(budget) == {TTL}

\* Jitter takes up to a tenth off; a value too large is not stored (until 0).
Stored(budget) == {u \in 0..budget : 10 * u >= 9 * budget} \cup {0}

\* The value, or one that cannot be encoded.
LoadEnds(p) ==
  /\ flight[p].phase = "read"
  /\ \E kind \in {"ok", "uncacheable"} :
     \E u \in (IF kind = "ok" THEN Stored(flight[p].budget) ELSE {0}) :
       IF Locked(flight[p])
         THEN Becomes(p, [flight[p] EXCEPT !.phase = "publish", !.kind = kind, !.until = u,
                                           !.renewing = FALSE])
         ELSE Done(p, kind, flight[p].ver, Codec[p], 0)
  /\ UNCHANGED <<source, floor, redis, outage, caller>>

\* Mutant: an error returns without releasing the lock.
LoadErrsHolding(p) ==
  /\ flight[p].phase = "read"
  /\ Done(p, "error", 0, Codec[p], 0)
  /\ UNCHANGED <<source, floor, redis, outage, caller>>

LoadErrs(p) ==
  /\ flight[p].phase = "read"
  /\ IF Locked(flight[p])
       THEN Becomes(p, [flight[p] EXCEPT !.phase = "release", !.kind = "error", !.ver = 0,
                                         !.renewing = FALSE])
       ELSE Done(p, "error", 0, Codec[p], 0)
  /\ UNCHANGED <<source, floor, redis, outage, caller>>

\* Mutant: the answer 0 of publish is taken for success.
PublishUnchecked(p) ==
  /\ flight[p].phase = "publish" /\ flight[p].timeout > 0
  /\ DoPublish(flight[p].token, Cmd("publish", p))
  /\ Done(p, flight[p].kind, flight[p].ver, Codec[p], floor)
  /\ UNCHANGED <<source, late, outage, caller>>

\* Published, or errLeaseLost: then the flight starts over with the same token.
Publish(p) ==
  /\ flight[p].phase = "publish" /\ flight[p].timeout > 0
  /\ DoPublish(flight[p].token, Cmd("publish", p))
  /\ IF Owns(flight[p].token)
       THEN Done(p, flight[p].kind, flight[p].ver, Codec[p], floor)
       ELSE Becomes(p, [flight[p] EXCEPT !.phase = "acquire", !.kind = "ok", !.ver = 0,
                                         !.until = 0])
  /\ UNCHANGED <<source, late, outage, caller>>

\* What was loaded is returned all the same.
PublishFails(p) ==
  /\ flight[p].phase = "publish"
  /\ Fails("publish", p) /\ Failed(p) /\ GiveUp(flight[p].token)
  /\ Done(p, flight[p].kind, flight[p].ver, Codec[p], 0)
  /\ UNCHANGED <<source, floor, value, caller>>

Release(p) ==
  /\ flight[p].phase = "release" /\ flight[p].timeout > 0
  /\ DoRelease(flight[p].token)
  /\ Done(p, "error", 0, Codec[p], 0)
  /\ UNCHANGED <<source, late, outage, caller>>

\* A load that ran into the timeout of fillCtx always ends here.
ReleaseFails(p) ==
  /\ flight[p].phase = "release"
  /\ Fails("release", p) /\ GiveUp(flight[p].token)
  /\ Done(p, "error", 0, Codec[p], 0)
  /\ UNCHANGED <<source, floor, value, outage, caller>>

-----------------------------------------------------------------------------
(* Get: callers share the flight of their process. *)

InUse ==
  {flight[p].token : p \in Proc} \cup {m.token : m \in late}
    \cup (IF lock = None THEN {} ELSE {lock.token})

\* DoChan: join the flight there is, or lead a new one.
Coalesce(p, budget) ==
  IF flight[p].phase # "none" THEN UNCHANGED flight
  ELSE LET started == [NoFlight(p) EXCEPT !.budget = budget, !.timeout = LoadTimeout]
       IN  IF outage[p] > 0
             THEN Becomes(p, [started EXCEPT !.phase = "load"])
             ELSE \E t \in Token \ InUse :
                    Becomes(p, [started EXCEPT !.phase = "acquire", !.token = t])

Call(c) ==
  /\ caller[c].phase = "idle"
  /\ caller' = [caller EXCEPT ![c] = [phase |-> "waiting", budget |-> TTL, retried |-> FALSE]]
  /\ Coalesce(Home[c], TTL)
  /\ UNCHANGED <<source, floor, redis, outage>>

\* ctx of the caller ends; the flight goes on for the others.
Cancel(c) ==
  /\ caller[c].phase # "idle"
  /\ caller' = [caller EXCEPT ![c] = Idle]
  /\ UNCHANGED <<source, floor, redis, outage, flight>>

\* What a waiting caller makes of the result of its flight.
After(f, c) ==
  CASE f.kind = "error"       -> Idle
    [] f.kind = "uncacheable" -> [caller[c] EXCEPT !.phase = "alone"]
    [] f.kind = "ok"          -> IF f.codec = Codec[Home[c]] THEN Idle
                                 ELSE [caller[c] EXCEPT !.phase = "undecoded"]

\* singleflight forgets the flight and hands out its result.
Deliver(p) ==
  /\ flight[p].phase = "done"
  /\ caller' = [c \in Caller |-> IF Home[c] = p /\ caller[c].phase = "waiting"
                                   THEN After(flight[p], c) ELSE caller[c]]
  /\ Becomes(p, NoFlight(p))
  /\ UNCHANGED <<source, floor, redis, outage>>

\* The first time, from the top again; the second time, from the source.
DropUndecoded(c) ==
  /\ caller[c].phase = "undecoded"
  /\ caller' = [caller EXCEPT ![c].phase = IF caller[c].retried THEN "alone" ELSE "again"]
  /\ \/ DoDelete /\ UNCHANGED <<late, outage>>
     \/ MayArrive(DelCmd(Home[c])) /\ Failed(Home[c]) /\ UNCHANGED <<value, lock, floor>>
  /\ UNCHANGED <<source, flight>>

\* Mutant: the attempts are not counted.
RetryForever(c) ==
  /\ caller[c].phase = "again"
  /\ caller' = [caller EXCEPT ![c].phase = "waiting"]
  /\ Coalesce(Home[c], caller[c].budget)
  /\ UNCHANGED <<source, floor, redis, outage>>

Retry(c) ==
  /\ caller[c].phase = "again"
  /\ caller' = [caller EXCEPT ![c].phase = "waiting", ![c].retried = TRUE]
  /\ Coalesce(Home[c], caller[c].budget)
  /\ UNCHANGED <<source, floor, redis, outage>>

LoadAlone(c) ==
  /\ caller[c].phase = "alone"
  /\ caller' = [caller EXCEPT ![c] = Idle]
  /\ UNCHANGED <<source, floor, redis, outage, flight>>

-----------------------------------------------------------------------------
(* Writers, and the world outside. *)

Commit ==
  /\ db < MaxVersion
  /\ db' = db + 1
  /\ UNCHANGED <<age, floor, redis, outage, flight, caller>>

Invalidate(p) ==
  /\ DoDelete
  /\ UNCHANGED <<source, late, outage, flight, caller>>

InvalidateFails(p) ==
  /\ MayArrive(DelCmd(p)) /\ Failed(p)
  /\ UNCHANGED <<source, floor, value, lock, flight, caller>>

\* Redis gets to a command whose caller has given up on it.
Arrive ==
  \E m \in late :
    /\ CarryOut(m)
    /\ late' = late \ {m}
    /\ UNCHANGED <<source, outage, flight, caller>>

Lose ==
  \E m \in late :
    /\ late' = late \ {m}
    /\ UNCHANGED <<source, floor, value, lock, outage, flight, caller>>

\* Persistence is off: Redis restarts empty.
RestartRedis ==
  /\ value' = None /\ lock' = None
  /\ UNCHANGED <<source, floor, late, outage, flight, caller>>

Crash(p) ==
  /\ flight' = [flight EXCEPT ![p] = NoFlight(p)]
  /\ caller' = [c \in Caller |-> IF Home[c] = p THEN Idle ELSE caller[c]]
  /\ outage' = [outage EXCEPT ![p] = 0]
  /\ IF Locked(flight[p]) THEN GiveUp(flight[p].token) ELSE UNCHANGED lock
  /\ UNCHANGED <<source, floor, value, late>>

Less(n) == IF n > 0 THEN n - 1 ELSE 0
Older(v) == IF v < db /\ age[v] < TTL THEN age[v] + 1 ELSE age[v]

\* Mutant: the lock is taken without PX.
LockStays == lock

\* The lock, a tick later.
LockLater == IF lock = None \/ lock.left = 1 THEN None ELSE [lock EXCEPT !.left = @ - 1]

Tick ==
  /\ age' = [v \in Version |-> Older(v)]
  /\ value' = IF value = None \/ value.px = 1 THEN None
              ELSE [value EXCEPT !.until = Less(@), !.px = @ - 1]
  /\ lock' = LockLater
  /\ late' = {[m EXCEPT !.until = Less(@)] : m \in late}
  /\ outage' = [p \in Proc |-> Less(outage[p])]
  /\ flight' = [p \in Proc |-> [flight[p] EXCEPT !.budget = Less(@), !.timeout = Less(@),
                                                 !.until = Less(@)]]
  /\ caller' = [c \in Caller |-> [caller[c] EXCEPT !.budget = Less(@)]]
  /\ UNCHANGED <<db, floor>>

-----------------------------------------------------------------------------
\* What the flight of p does when Redis answers and the source does.
Works(p) ==
  \/ Acquire(p) \/ TimesOut(p) \/ Discard(p) \/ Publish(p) \/ Release(p)
  \/ ReadSource(p) \/ LoadEnds(p) \/ LoadErrs(p)
  \/ Deliver(p)

\* A command fails.
Breaks(p) == AcquireFails(p) \/ DiscardFails(p) \/ PublishFails(p) \/ ReleaseFails(p)

Next ==
  \/ \E p \in Proc :
       Works(p) \/ Breaks(p) \/ Renew(p) \/ RenewFails(p)
         \/ Invalidate(p) \/ InvalidateFails(p) \/ Crash(p)
  \/ \E c \in Caller : Call(c) \/ Cancel(c) \/ DropUndecoded(c) \/ Retry(c) \/ LoadAlone(c)
  \/ Commit \/ Arrive \/ Lose \/ RestartRedis \/ Tick

Spec == Init /\ [][Next]_vars

\* A flight runs on, and after fillCtx is over its commands fail; time passes.
\* Nothing is assumed of failures before that, or of who gets the lock.
FairSpec ==
  /\ Spec
  /\ \A p \in Proc : WF_vars(Works(p) \/ (flight[p].timeout = 0 /\ Breaks(p)))
  /\ \A c \in Caller : WF_vars(DropUndecoded(c) \/ Retry(c) \/ LoadAlone(c))
  /\ WF_vars(Tick)

-----------------------------------------------------------------------------
(* Properties. *)

\* A value in Redis is never older than the last invalidation that Redis
\* carried out: a load overtaken by Invalidate is not published after it.
NothingSurvivesInvalidation == value # None => value.ver >= floor

\* With every invalidation lost, a value is still gone TTL after the version
\* in it was overwritten: neither the time a load takes, nor the wait for the
\* lock, nor a publish that arrives late adds to its life.
NeverOlderThanTTL ==
  value # None /\ value.ver < db => age[value.ver] + value.until <= TTL

\* What a flight takes from Redis, or hands out after Redis took it, has in it
\* every invalidation carried out by then: losing the lease is noticed.
ResultsTakeInInvalidations ==
  \A p \in Proc : flight[p].phase = "done" /\ flight[p].kind = "ok"
                    => flight[p].ver >= flight[p].base

\* A lock in Redis has a flight that fills under it, or its holder failed
\* before Redis could say that it was gone: no path returns and keeps it.
LocksHaveHolders ==
  lock # None /\ ~lock.lost =>
    \E p \in Proc : /\ flight[p].token = lock.token
                    /\ flight[p].phase \in {"load", "read", "publish", "release"}

\* A hit, the moment it is taken, holds a version that was current less than
\* TTL ago, also when its publish reached Redis late and its key lives longer.
HitWithinTTL ==
  \A p \in Proc : flight[p].phase = "acquire" /\ flight'[p].phase = "done"
                  /\ flight'[p].kind = "ok" => age[flight'[p].ver] < TTL
HitsAreFresh == [][HitWithinTTL]_vars

\* Every Get returns: no reader waits for ever behind a lock, a lost lease or
\* entries it cannot decode.
EveryGetReturns == \A c \in Caller : caller[c].phase # "idle" ~> caller[c].phase = "idle"

\* A lock goes away, whatever happened to its holder.
LocksLapse == []<>(lock = None)
=============================================================================
