# Formal model of the Aheron Go SDK

TLA+ modules, TLC configurations and TLAPS proofs about the parts of this
repository that keep state, run concurrently or have to survive failures. All
paths are relative to the repository, `src/` being its root.

Run a model with `tlc -config <run>.cfg <module>.tla` and a proof with
`tlapm <module>.tla`, in this directory. `PROJECT.json` lists the runs, the
mutants that every property is tested with, the source lines each definition
stands for, the hazards of the code and the theorems.

## The system

The SDK is a library, linked into services of the platform and into
integrations. Some parts keep state of their own; the others are the two ends of
protocols whose state is at the platform.

| component | state | operations | what is hard about it |
|---|---|---|---|
| outbox relay, YDB store (`outbox/`, `ydb/outbox.go`) | tables of pending rows, dead letters and leases; per process: owned buckets, lease context and timer, retry entries | EnqueueTx, Relay.Run (claim, renew, drain), PublishBucket, ReplayDeadLetter | several processes, crashes between publish and delete, leases that lapse while a batch runs, calls that fail after taking effect |
| outbox observer (`outbox/relay.go`) | bounded queue, drop and panic counters | enqueue, deliver, close | full queue, stop while enqueuing, callbacks that panic or never return |
| outbox operator (`ydb/outbox.go`) | none: pages of a table others change | ListDeadLetters, GetDeadLetter, OutboxStats, ReplayDeadLetter | rows that move between two pages or two reads, a replay whose answer is lost |
| read cache (`readcache/`) | Redis: value, lock, tag generations; per process: local flights, circuit | Get, GetTagged, Invalidate, InvalidateTags | a load overtaken by an invalidation, lost leases, Redis failing between two calls |
| OAuth token provider and client (`integrationoauth/`) | token cache with LRU, one flight per key | Token, InvalidateToken, Client.Do | invalidation racing a flight, cancelled waiters, bounded cache, the replay after a 401 |
| lifecycle (`integration/lifecycle*.go`) | the receiver's watermark and settings | DecideLifecycle, Deliver | duplicated, late and reordered messages, lost receipts |
| key sets (`internal/sign/jwks.go`) | cached keys and their age | Key, refresh | concurrent refreshes, answers out of order |
| verification (`integration/server.go`, tokens, `sign/`, `resource_verifier.go`) | none between calls | Verify, Handle*, introspection | late and repeated calls, two clocks, withdrawn bearers |
| documentation publishing (`documentation/`, `cmd/knowledge-publish`) | revision of a published package, at the service | publishPackage | compare-and-swap, half-done publication, requests carried out late |
| API clients (`integration/`, `platform/`, `transfermedia/`, `transfercrm/`) over `internal/httpclient/` or OAuth | at the platform | some 90 methods | unclear outcomes, retries, revisions and operation IDs |
| scheme transfer (`schemetransfer/`, `integration/copy.go`) | one builder, one plan | CopyBuilder, validatePlan, HydratedSettings, lookups | overlapping and differently spelt paths, circles of sources, answers that do not fit |
| manifests (`integration/manifest.go`, `catalog.go`) | attempts of a replica | Manifest.resolve, Sync, StartSync | several replicas with different manifests |
| campaign events, variables, provisioning, editorial contracts | none | validation, hashing, parsing | boundary cases of pure functions (not modelled) |

Interactions. Services write outbox rows in their own database transactions;
relays read them and call a `Publisher` (a broker, outside the repository). The
API clients share the HTTP client, and those with `_oauth` in their name get
tokens from the provider. The integration server verifies calls with a key set
and hands lifecycle events to `DecideLifecycle`. The read cache, the publisher
of documentation and the copy plans stand alone.

What makes each component correct:

- outbox: no committed event is lost; per bucket, events reach the broker in
  order; a poison row ends in the dead letters after its budget and blocks
  nobody for ever; only the lease holder changes rows; two processes never
  publish a bucket under live leases.
- read cache: what Redis holds after an invalidation was loaded after it; a lock
  is released only by its holder; a read eventually returns.
- token provider: a rejected token is not handed out again, whatever flights land
  later; a cancelled waiter does not fail the others; the cache stays bounded;
  nothing is carried out twice by a replay.
- lifecycle: what is stored is what the newest message says; a closed installation
  does not come back; the last message arrives.
- key sets: a key is served or missed for cause.
- verification: what reaches a handler was made by the platform, for this endpoint,
  lately; what comes in time is not refused on account of the clocks.
- documentation publishing: nothing is replaced that its job has not read; a success
  is in force.
- API clients: what is not idempotent is carried out once, an acknowledged effect is
  not undone by the call's own lost attempts; an edit goes on top of what was read.
- scheme transfer: what is taken out is put back where it was; an accepted catalog
  of sources can be resolved.
- manifests: a replica that is told a version declared that version, and every
  declared feature has its endpoint.

## Modules

| module | what it is |
|---|---|
| `OutboxQueue` | what an outbox promises, without relays: the abstract specification |
| `OutboxRelay` | the relays over the YDB store, one action per transaction, publisher call or critical section |
| `RelayLease` | the local fencing of one lease by deadline, timer and epoch, against a clock |
| `ReadCache` | one key of the read cache: flights, Redis scripts, lock, writers, failures |
| `TaggedReads` | `GetTagged` and `InvalidateTags` over tag generations |
| `RelayObserver` | the observer's queue and worker between drains and a callback |
| `OutboxOperator` | the operator's reads and replays, the relays reduced to what they do to the tables |
| `TokenProvider` | `Provider` and `Client` with flights, cache and a 401 |
| `InstallationStream` | what the receiver of lifecycle messages promises: the abstract specification |
| `InstallationLifecycle` | messages, attempts, receipts, watermark and settings |
| `KeySet` | `KeySet.Key` by concurrent verifiers over a platform that rotates its keys |
| `CallVerification` | signed calls, console and MCP tokens, bearers, over two clocks |
| `Publication` | `publishPackage` by concurrent jobs over the documentation service |
| `PlatformMethods`, `PlatformCalls` | the methods as lists of requests, and what becomes of a call |
| `GuardedMethods`, `GuardedEdits` | the methods that write revisioned resources, and what becomes of an edit |
| `CopyPlan` | `CopyBuilder`, the checks of a plan, hydration |
| `SourceLookups` | the source graph and the lookups over it |
| `CatalogSync` | `Manifest.resolve` and the synchronisation by several replicas |
| `MCOutboxRelay`, `MCRelayLease`, `MCReadCache` | instances for TLC |
| `MCAccess`, `MCPlatform`, `MCIntegration` | instances of the other components, for safety |
| `MCServicesLive` | instances of them for liveness |
| `OutboxRelayProofs` | proofs about `OutboxRelay`, among them the refinement of `OutboxQueue` |
| `RelayLeaseProofs` | proofs about `RelayLease` |
| `ReadCacheProofs`, `TaggedReadsProofs` | proofs about `ReadCache` and `TaggedReads` |
| `AccessProofs` | proofs about `TokenProvider`, `KeySet` and `CallVerification` |
| `PlatformProofs` | proofs about `GuardedEdits`, `Publication`, `PlatformCalls` and `CatalogSync` |
| `IntegrationProofs` | proofs about `InstallationLifecycle`, among them the refinement of `InstallationStream`, `SourceLookups` and `CopyPlan` |
| `OutboxToolsProofs` | proofs about `RelayObserver` and `OutboxOperator` |

### OutboxRelay

State. `pending`, `dead` and `lease` are the three tables. A row's key
`(bucket, created_at, id)` is the number of the event: a smaller number comes
first in `ORDER BY created_at, id`. `locked_until` is reduced to `live`, whether
it is still ahead, and `Lapse` is its passing. Per process, `owned` is
`Relay.owned` (empty together with a cancelled `leaseCtx`), `answer` what
`ClaimBuckets` has returned and `claim()` has not applied yet, `backoff` the
buckets whose `retries` entry is ahead. Per process and bucket, `pc` says where
the goroutine of `drainBucket` stands and `batch` which rows of
`PublishBucket`'s loop are left; `cancelled` holds the buckets whose
`publishCtx` has been cancelled. `delivered`, `buried` and `before` are history:
what the broker has received, what was ever parked, and what had committed in
the same bucket when an event was written.

Steps. `EnqueueTx` and `CommitTx` are the two ends of the writer's transaction,
so that writers overlap. `ClaimBuckets`, `ReadBatch`, `CheckLease`,
`DeleteEvent`, `RecordPublishFailure` and `ReplayDeadLetter` are one
transaction each; YDB transactions are serialisable, so each is one step, and
`DoTx` repeating its closure is invisible. `PublishSucceeds` and `PublishFails`
are a publisher call; the error may come after the broker accepted the event.
`ClaimFails` and `StoreFails` are calls that report an error, with or without
the effect of the transaction. `Abandon` is a `drainBucket` whose context was
cancelled: the call in flight has its effect or not, later calls fail. `Crash`
is the death of a process, `Stop` the end of `Run`'s context; neither gives a
lease back, and a restarted process is a new owner, one more element of `Relay`.
One relay survives.

`Timely` states whether a relay's fence fires before its lease lapses in the
table. `FALSE` allows every lateness: the safety of the tables and the order do
not depend on it. `TRUE` is what `RelayLease` establishes up to the promptness
of the timer, and `SingleOwner` and `FreshBatch` need it. `ClocksAgree` states
whether an event written later has the larger key; the order needs it.

### RelayLease

`claim()` is three steps (`StartClaim` reads the clock, `ClaimBuckets` or
`ClaimFails` is the transaction, `ApplyClaim` the critical section), so that any
time may pass between them. `TimerFires` and `Callback` are separate because the
callback of `time.AfterFunc` has to wait for the mutex and `Timer.Stop` does not
recall it. `publishing` is the set of buckets drained under the current lease
context; cancelling the context empties it, which is when the drain stops, not
when its goroutine has returned. `StopLease` is the deferred call of `Run`; the
renewal goroutine may still apply a claim after it.

### ReadCache

State. `value` and `lock` are the two Redis keys of one cache key; `px` and
`left` are what is left of their PX, `until` of `payload.Until`. `late` holds
commands that failed at their caller and that Redis may still carry out. Per
process, `flight` is the function that runs under singleflight (`Cache.read`,
then `Cache.fill`), `outage` what is left of `unavailableUntil`. Per goroutine,
`caller` is where its `Get` stands. A version number stands for the record: `db`
counts commits at the source. `floor`, `age`, `lock.lost` and `base` are history.

Steps. Each Redis script is one operator (`DoAcquire`, `DoRenew`, `DoPublish`,
`DoRelease`, `DoDiscard`, `DoDelete`), carried out at once by the step of the
flight that sends it or later by `Arrive`. `ReadSource` and `LoadEnds` are apart,
so that commits and invalidations fall between reading the record and
publishing it. `Renew` and `RenewFails` are the renewal goroutine, beside the
load. `Deliver` ends a flight for all who wait on it; `Cancel` is a caller that
leaves without stopping it. `DropUndecoded`, `Retry` and `LoadAlone` are the loop
of `get` over an entry of another representation. `Crash` ends a process and
frees nothing in Redis; `RestartRedis` empties it.

Time counts down: `Tick` takes one from everything that is left, so that no bound
on time is needed. One clock is read by all processes; a deadline written by one
process is compared with the clock of another in the code, which the model takes
to agree. `Token` stands for the random nonces; a token that is no longer in any
flight, lock or command may be drawn again, which stands for a new one.

### TaggedReads

`gen` is the generation key of each tag, 0 when it is missing, `nonce` what has
been drawn. A cache key is the vector of generations it was made of. What may
happen under one key is taken to be as bad as it can: `GetUnder` returns anything
that was ever loaded under it, or the source. A reader then reads the generations
again (`After`), which may draw missing ones. `FallBack` is every way to the bare
key. `floor` is history: per tag, what the source held when `InvalidateTags` was
last carried out.

### RelayObserver, OutboxOperator

`RelayObserver`: goroutines of a drain enqueue without waiting (`Observe`,
`Enqueue`), the worker takes and delivers; a callback may panic, or stay in
`calling` for ever. Run closes the observer when no drain is under way.
`OutboxOperator`: keys are numbers in the order of the primary key. A walk keeps
the key it has come to; a page is one transaction; a report counts the two tables in
two. A replay whose answer is lost was carried out or not, and the operator may call
it again. `letters` and `report` are what the operator has been told, the rest of
the history is what changed meanwhile.

### TokenProvider

`cache` is the LRU list, newest last, `flights` the map by key, `flight` the
goroutines of `acquire`, among them those whose waiters have left. A caller waits,
holds a token, has sent its request, got a 401 and invalidated, or has ended.
`Fetch` is the exchange with the authorization server; it may fail, be late or
come back after its flight was cancelled. A token counts
down what is left of it at the server (`life`), what the client believes is left
(`left`), and what is left until the client renews it (`due`).

### InstallationLifecycle

Messages are numbered by the platform, sent in `attempts` that are lost, repeated
and reordered, answered with `receipts` that may be lost too. `Handle` is
`handleLifecycle` with the receiver's transaction: watermark and settings change
together. `InstallationStream` has no messages; the refinement
(`StreamMovesForward`) says that the receiver only moves to later ones. The code
keeps the previous lifetime only: the comment "A closed lifetime can never be
reopened" holds for streams on which the platform itself does not take up a closed
installation again (`Orderly`), which is what its own operation promises.

### KeySet

`Look` and `CheckFresh` take the lock each for themselves, `Store` replaces the set
with an answer that may be older than the one stored last. "Serves from cache when
fresh" is therefore true of the two steps only if no other goroutine stores in
between (`torn`); `ServedRecently` says what holds.

### CallVerification

A credential is what the platform sent last; deliveries of it arrive late, more than
once, and at other endpoints. Seconds are two ticks, the integration's clock may be
set. A signature is a record of what was signed. The leeways of the code are
constants: none for introspection, 30 s for MCP, 60 s for the console.

### Publication

The service is one history of activations; a channel's revision is how many it has
seen. A job reads the receipt, uploads, reads the revisions, activates, and reads
again before it claims success; every request may be lost, refused, answered too
late or carried out late.

### PlatformCalls, PlatformMethods

`PlatformMethods` says of each method which requests it makes, what each does at the
platform (`read`, `create`, `upsert`, `write`, ...) and whether the code marks it
idempotent: `Retried` or `Once`. `PlatformCalls` carries a call out: requests go to
the platform, an attempt whose outcome is unclear may have been carried out, may
still be (`astray`) or never will; another attempt follows if `MayRetry`. A
behaviour is about one object of one kind, since the platform keeps kinds apart.
What the code does not prevent, the model shows and no property denies: a `DELETE`
that is retried after its first attempt was carried out reports a 404; an attempt of
an earlier call that arrives late may overwrite a later write (`alone` excludes it).

### GuardedEdits, GuardedMethods

An editor reads (revision and runtime contract), prepares native blocks, writes,
and repeats only what has an operation ID. The platform refuses a revision or a
contract that is not the current one and answers a repeated operation with its
receipt. `adrift` are writes nobody waits for any more. A mismatch of contracts does
not rule out that an earlier attempt of the same operation is carried out after the
contract has been rolled back; a conflict of revisions does, since revisions only
grow.

### CopyPlan, SourceLookups

A document is a function from paths to nodes, a pointer a path and whether it is
spelt as the code would spell it. `Receive` is an answer of any making, `Build` one
of the builder's; both pass through `Valid`. A list may be empty: a call that names it
as a whole and one that takes its elements are then about the same place, and count as
overlapping in `BuildsWhenProper`. `SourceLookups` runs the depth-first
search of `validateResourceSources` as it is (colours, stack), then lookups whose
requests and answers are any that the types allow.

### CatalogSync

A path of the manifest is empty, rooted, a URL or none of these; `ManifestResolves`
is `Manifest.resolve` on such paths. The replicas declare theirs concurrently; what
the platform does with a manifest is external. An observation: `MCPPath` without
`PublicBaseURL` is sent as it is, relative, although the comment at its field calls
the URLs of the body absolute; the model keeps that (`McpURL`).

### MCAccess, MCPlatform, MCIntegration, MCServicesLive

The components above share no state, so that an interleaving of two shows nothing
that one alone does not. Each of these modules extends the modules of some
components, by what they have to do with each other: what lets a call in or out, what
an integration does at the platform, what it keeps and answers. The first state
chooses the part a behaviour is about; the variables of the others rest. The
properties are checked under the names the proofs use, and TLC evaluates the
assumptions of every component. `MCServicesLive` extends all of them, at bounds that
liveness allows.

## Runs

| run | question | bounds |
|---|---|---|
| `outbox_async` | are the tables, the order and the abstract queue safe when leases lapse at any moment? | 2 relays, 1 bucket, 2 events, batch of 2, budget of 1, 1 fault, 1 replay |
| `outbox_live` | with timely fences, does every row leave the queue, does none wait with its budget used up, can two relays own one bucket, does a live batch hold only waiting rows? | 2 relays, 1 bucket, 2 events, batches of 1, budget of 2, 2 faults, no replay |
| `outbox_clocks` | what if writers' clocks disagree? (violated, see below) | as `outbox_async` |
| `outbox_divided` | do two relays divide the queue? (violated, see below) | 2 buckets, no faults |
| `relay_lease` | does the local fence hold in time, does a drain end when its deadline passes? | 2 relays, 2 buckets, TTL 2, clock to 4, 2 renewals each |
| `cache_two_processes` | can a load overtaken by an invalidation be published; is any lock kept? | 2 processes, a caller each, 4 tokens, all durations 1, 1 commit, 1 late command |
| `cache_ages` | can an overwritten version live longer than its TTL? | 1 process, 2 callers, all durations 2, outages of 1, 2 commits, 1 late command |
| `cache_returns` | does every `Get` return, every lock go away? | 2 processes with different representations, durations of 1 |
| `services_access` | are tokens and keys handed out, and calls let in, for cause? | see the next table |
| `services_platform` | does what is written to the platform mean what the caller is told? | see the next table |
| `services_integration` | is what an integration keeps and answers in order? | see the next table |
| `services_live` | does what is begun end, and does the receiver of lifecycle messages refine the stream? | one actor or two of each part, 2 keys in a cache of 1, lifetime 1, 1 retry, 3 synchronisations, 2 messages |

| run | part | property | bounds |
|---|---|---|---|
| `services_access` | TokenProvider | `TokensKeptInOrder` | 2 callers of one key, 2 flights, 1 entry, lifetime 2, 2 tokens |
| | KeySet | `KeysServedForCause` | 2 verifiers, 2 keys, TTL 1, exchange 1 |
| | CallVerification | `VerifiedCallsOnly` | 2 deliveries, window 1 s, leeways 1 s, tokens of up to 2 ticks, skew of half a second, 4 ticks |
| `services_platform` | PlatformCalls | `CallsAnsweredTruly` | 2 clients, all methods, 1 retry, 1 object, 1 attempt astray |
| | GuardedEdits | `EditsKeptApart` | 2 editors, all guarded methods, 1 operation ID, 2 contracts, 2 revisions, 1 write adrift |
| | Publication | `PublishedAsClaimed` | 2 jobs, 3 publications of 2 operations, 3 releases of 2 contracts, 1 late request |
| | CatalogSync | `SyncedAsDeclared` | 2 replicas, 7 manifests, 2 attempts |
| `services_integration` | InstallationLifecycle | `ReceiverAtNewest` | 2 installations, 3 messages |
| | RelayObserver | `ObservationsKept` | 2 buckets, queue of 2, 3 observations each |
| | OutboxOperator | `OperatorNotMisled` | 3 keys, pages of 1 and 2, 3 moves |
| | CopyPlan | `CopiesRestore` | 3 documents, 3 paths in two spellings, 2 calls; foreign plans of up to 2 references and a template |
| | TaggedReads | `TagsTypeOK`, `TaggedReadsAreCurrent` | 2 readers of a key under 2 tags, 1 commit, 2 renewals or losses |
| | SourceLookups | `LookupsWork` | 128 graphs of 3 sources, the ways to declare one or two, 2 resources |

Two relays are enough for every conflict of the code, which is always between a
holder and one other; a crash and a takeover fit in. Two events are the least
with an order; three let a batch of two leave one behind. A budget of two
distinguishes a charged row from a parked one. `MaxFaults` counts failed calls,
publisher errors and missed renewals together; `MaxReplays` the replays. In
`RelayLease` two renewals per relay and a clock of twice the TTL let a lease
be renewed, missed, taken over and missed again; the run stops where the clock
does, which is why deadlock is not checked there.

In the read cache a lock passes between two processes, of which one may be slow,
so that two are enough; four tokens are a flight each, one left in the lock and
one in a late command. A duration of 1 lets a lease lapse at any step; 2, in
`cache_ages`, tells a spent part of a deadline from the whole. One commit makes
old and new; two, a value overwritten twice. For `TaggedReads` two changes are a
generation lost and a tag invalidated, or a tag invalidated after another; the
readers share their keys, since readers under other tags only draw generations.

In the other parts a conflict is between two: two callers and two flights let a
flight be left, replaced and land late. One key in `services_access` makes its
flights meet; two keys that compete for one entry are in `services_live`, and the
theorem about `TokenProvider` has any number. Three messages let a late one fall
between two others, or an uninstall between two installs. A queue of two below three
observations per bucket fills and drops. Two pages need three keys, and three moves
let a row come, go and come back between them. One retry has every effect that more
have, the attempt before having been carried out, lost or gone astray; one attempt
astray arrives after everything else. One object is what a call meets or does not
meet; that a second is never made is counted in `ran` and not in objects. Two
revisions are one that an edit is made against and one that outdates it; two
contracts, a roll-out and a roll-back; one operation ID is what is repeated, since
an ID belongs to one editor. Of three publications two share an operation, so that
an ID comes back with another release. A window of two ticks, a skew of one and four
ticks of time put calls on both sides of every boundary. Circles of one, two and
three sources are in the graphs of three (only the first may need itself), and so
are diamonds, which are none.

A property of a part is a conjunction, stated in its module under names of its own
(`EntryOrFlight`, `ClosedStaysClosed`, `NothingReplacedUnseen`, ...).

Fairness (`OutboxRelay!Fairness`): renewal and drain tickers fire, the
sequential code of `drainBucket` goes on, publisher and database calls return,
leases lapse and backoffs elapse. Nothing is assumed of failures, crashes,
writers or operators, and failures are bounded. A publisher call that never
returns would stop all buckets of its process, since `drain` waits for all of
them; the code gives `Publish` no deadline, so that this is an assumption about
the publisher. `RelayLease!Fairness`: the clock advances, due timers fire and
their callbacks run. `ReadCache!FairSpec`: a flight goes on, by a success or,
once its `fillCtx` is over, by a failure (every Redis call is under that context,
and loads are given it); callers go on; time passes. Nothing is assumed of who
gets the lock or of failures, so that `EveryGetReturns` rests on the deadline of
`fillCtx` alone. A `load` that ignores its context is the caller's own
matter. `TaggedReads!FairSpec`: readers go on; the changes are bounded, since
a tag that is invalidated for ever faster than it is read keeps `GetTagged` in
its loop until its context ends. `ProviderFairness`: exchanges end (they have a deadline)
and tell their waiters. `LifecycleFairness`: the platform retries until it has a
receipt, the receiver answers what arrives often enough; losses are not bounded, so
that some of what is sent again and again arrives (strong fairness). `ObserverFairness`:
the goroutines of a drain run; nothing is assumed of callbacks for `BucketDrainsEnd`,
and for `WorkerEnds` that they return. `CallsFairness`: an attempt ends, as it has a
timeout unless `DisableTimeout` is set, when its context has to end it.
`SyncFairness`: timers run, and the HTTP client has a deadline.

### Where the documentation says something else

- `outbox_clocks`. `outbox/relay.go` says that the strictly sequential drain
  keeps "one key's events in the order they happened". The drain follows
  `created_at, id`; `created_at` is the clock of whichever process wrote the
  event, and ties are broken by a random uuid. A later event written by a
  process whose clock is behind overtakes an earlier one.
- `outbox_divided`. `outbox/outbox.go` and `ydb/outbox.go` say that instances
  divide the queue between them. `ClaimBuckets` takes every free bucket at once
  and renews all it holds, so that the first relay has all of them for as long
  as it lives and the others stand by.

## Proofs

The safety properties of every component are theorems, for any number of relays,
buckets, events, processes, callers, clients, editors, jobs, messages, replicas and so
on, any batch size, budget, lifetime, window, leeway, skew and retry count, any
documents, paths and catalogs, and any value of the bounds. Each assumes what the
`...Assumption` of its component says of the constants, which the code's own
defaults and checks give: limits and lifetimes are positive, a placeholder is not one
of the values it is told from, a document is a tree of finitely many nodes, and the
callers, buckets or operations that are counted are finitely many. Beyond that nothing is assumed of them.

- `OutboxRelayProofs`. Type correctness action by action. Then two lemmas
  summarise the twenty actions: `TableSteps` (what a step does to tables and
  broker) and `BatchSteps` (a step leaves a batch alone, forgets it, reads it or
  drops its first row). `NothingLost` is not inductive by itself: a delete is
  safe because the row was delivered, so the invariant adds `HeadDelivered`,
  that between publish and delete the first row of the batch is at the broker.
  `OwnBatches` (rows of a batch belong to its bucket) gives
  `OnlyHolderTouchesRows`. Order needs, with clocks that agree,
  `BatchesInOrder`: every predecessor of a row of a batch is delivered, parked
  once, or in the batch before it. Reading establishes it (what is in neither
  table has been delivered, by `NothingLost`), dropping first rows keeps it.
  From the same invariant each step is shown to be a step of `OutboxQueue` or to
  leave it alone (`RelaysImplementQueue`). With timely fences: what a process owns
  or has been answered the table confirms; a worker that is not cancelled works on
  an owned bucket; hence a row that leaves while a live batch holds it was finished
  by that batch.
- `RelayLeaseProofs`. A deadline counted from before the claim is *covered*: as
  long as it is ahead the table names the relay for at least that long, because
  a claim skips what is covered for another. With `leaseUntil <= now + TTL` and
  "started in the past" this is inductive. The timer invariant says that a fired
  callback of the current epoch belongs to a deadline that has passed.
- `ReadCacheProofs`. `TokenInv`: a nonce belongs to one flight or one lock, so
  that a script that compares it acts for the flight that drew it. `FenceInv`:
  as long as Redis has the lock of a flight, no invalidation has been carried
  out since its load began (invalidating deletes the lock), so that what it
  publishes under it is new enough; the same of commands that arrive late.
  `FreshInv`: wherever a version is carried, in a flight, a command or Redis, the
  age of the version and what is left of its deadline make at most TTL, because
  the deadline was fixed before the load. `LocksHaveHolders` is inductive with
  `TokenInv`.
- `TaggedReadsProofs`. No generation is above `nonce`, so that what is drawn is
  new; what was loaded under a key takes in the invalidations of each tag whose
  generation is still the one in the key. A checked read finds all of them still
  there.

- `AccessProofs`. Tokens: a token that is on its way in a flight that is not done is
  known to nobody else, neither to the cache nor to a call nor to another flight. So
  what a flight puts into the cache was never rejected, and whoever holds a cached
  token holds it for the key it is cached under, where a rejection finds it. The
  invariant also counts: a flight's `waiters` are those who wait for it, and a flight
  nobody waits for is over. Keys: a cached key was published when its set was asked
  for, so that it is no older than the set and one exchange; and whoever was not
  disturbed since its last look still sees the set it looked at. Verification: a
  credential says when it was made, to the second, and for what, so that a check it
  passes by one clock bounds its age by the other; what a call brought stays what was
  sent last until all calls have ended, so that what was checked when it came (the
  window, the limits of a page) still holds when its handler ends.
- `PlatformProofs`. Edits: an operation ID belongs to one editor, so that what the log
  holds under it is that editor's; a write is made against the revision its editor has
  seen; once a write is told to be behind, every copy of it that is still adrift names
  a revision that the log has left, and stays behind. Publication: an operation is
  activated once, so that a receipt names one activation for good; a request names
  the revisions of its first read, so that the service refuses it once something came
  in between; a channel that has the revision it had at an activation has seen
  nothing since. Calls: no method marks a request for repetition that must not be
  repeated (shown of all of `PlatformMethods`), and none writes before its last
  request; while nobody else writes, what is astray is an attempt of the same
  request, and carrying that out again changes nothing that was told. Manifests: an
  answer that names a published version is about the manifest of the replica that
  asked, and versions are only added; only a manifest that resolves is sent.
- `IntegrationProofs`. Lifecycle: messages have numbers of their own, and the watermark
  is the newest of those that were handled, with its own settings stored; a receipt is
  only ever about a message that was handled. Each step of messages, attempts and
  receipts is a step of `InstallationStream` or leaves it alone (`ImplementsStream`).
  Lookups: the calls of `visit` are a path of parameters in which no source comes
  twice, and a source that is done needs only sources that are done, of which no set is
  a circle; one more, all of whose parameters were done before it, closes none. When
  all are done, the sources left at any time are no circle, so that one of them needs
  none of the others and can be asked (`LookupsCanBeUsed`). Answers: as many items as
  identities are each there once, and as many numbers below n as n each come once.
  Copies: the builder's settings are the original document with null at its references
  and nothing below them (`MovedOut`), which every call keeps, also a failing one.
  Where no reference is at or below another, hydration has a closed form (`Filled`: each
  node is of the one reference above it, or as it was), which gives the document back
  if the values are its own (`MovedBack`) and fills exactly the placeholders of any
  answer that passes `Valid` (`ValidFills`). What `Disjoint` has to exclude is seen from
  that: two references at one path, or one above the other. That proper calls build
  needs the calls themselves in the invariant: what they name is apart from what was
  named before, so that it is still where it was (`StillThere`, `AskedFor`).
- `OutboxToolsProofs`. Observations, an account: an observation stands in one place at a time, so
  that those on their way, in the queue and with the worker and the counts of those
  delivered, dropped and ended by a panic make up all that were made. Along that way,
  those of a bucket are in order. The operator's calls: an account per key of the rows
  in the two tables, those delivered and those written; a page is the keys after the
  cursor in order (a rank is taken once), so that a walk has returned what stayed a
  dead letter up to its cursor; what the first count of a report has counted is what
  stayed in the pending table but for the rows touched, and what stayed among the dead
  letters is what they have now but for those.

Only model-checked: `EventuallySettled`, `DrainsEnd`, `EveryGetReturns`,
`LocksLapse`, `ServicesEnd`, since liveness under fairness is beyond the prover. Where
a proof goes by induction over data (what `Expected` makes of a list of issues, what
hydration makes of a list of references), it takes the least number for which the
claim fails (`LeastNatural`) in place of the library's induction theorems, which the
installed provers cannot instantiate.

## Not modelled

See `components` in `PROJECT.json` for every part and its reason. In the outbox:
the growth of the backoff delay (only that it elapses), payloads and topics,
logging, the TTL of the dead-letter table (30 days
in the README's DDL), a store that returns `DeadLetteredPublishError` from the
publisher itself, clocks of different processes that drift (`RelayLease` has one
clock; `Timely = FALSE` covers the consequences). In the read cache:
`GetUntil` apart from `Get` (its values are immutable and their deadline comes
from the value), the jitter that shortens a TTL, `Invalidate` of several keys
(each is an `Invalidate` of one, up to the first that fails), processes whose
clocks differ, and metrics. A caller that joins a flight begun
before an invalidation gets what that flight loaded: the code promises nothing
else, and no property says it.

In the API clients: the checks of arguments and the decoding of answers, which
appear as calls that are not sent or that fail. In verification: the cryptography
and the parsing of JWTs. In scheme transfer: JSON Schemas, rules and their paths,
issues and their codes. What is left altogether (campaign events, variables,
provisioning, editorial contracts, the MCP client) are functions of one document
without state: a model would repeat their checks one by one.

## Plan

1. Done: every component in the first table but the last row, model-checked; the
   theorems of the section above.
2. The liveness properties stay with TLC.
