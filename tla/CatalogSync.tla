---------------------------- MODULE CatalogSync ----------------------------
(***************************************************************************)
(* Publication of an integration's manifest (integration/catalog.go,       *)
(* manifest.go): every replica declares, when it starts, the whole catalog *)
(* entry that it wants, a handful of times until the platform has answered. *)
(*                                                                         *)
(* A manifest has paths of endpoints, blocks, pages of the console and     *)
(* sources of values.  Of a path it matters whether it is empty, starts    *)
(* with a slash, is a URL or none of these.  What the platform does is     *)
(* external, and taken from what catalog.go and manifest.go say of it: it  *)
(* writes nothing when the manifest is in force, refuses to drop a block   *)
(* that is not retired, and prepares a draft where a human is needed.      *)
(***************************************************************************)
EXTENDS Naturals, Sequences, FiniteSets, SequencesExt

CONSTANTS
  Replica,
  Manifest,      \* the manifests that replicas declare
  MaxAttempts,   \* syncAttempts
  MaxPages       \* maxConsolePages

\* The paths of a manifest, and what matters of one.
Endpoint == {"console", "lifecycle", "action", "triggerSync", "variableValues", "mcp",
             "resourceValues", "prepareCopy", "validateCopySettings", "importCopyFile"}
PathForm == {"none", "rooted", "absolute", "bare"}

ASSUME SyncAssumption ==
  /\ MaxAttempts \in Nat \ {0} /\ MaxPages \in Nat
  /\ \A m \in Manifest : m.paths \in [Endpoint -> PathForm]

VARIABLES
  declares,  \* the manifest of each replica
  based,     \* Config.PublicBaseURL is set
  replica,   \* StartSyncWithObserver: [phase, attempt, result]
  observerCalls,  \* ghost: how often the observer of each replica was called
  requests,  \* on their way to the platform: [from, attempt]
  answers,   \* on their way back: [from, attempt, result]
  publishedVersions    \* the versions that the platform has published

syncVars == <<declares, based, replica, observerCalls, requests, answers, publishedVersions>>

NoResult == [version |-> 0]

-----------------------------------------------------------------------------
(* Manifest.resolve. *)

\* resolveURL.
ResolvedURL(path) ==
  IF path = "rooted" THEN IF based THEN "absolute" ELSE "error"
  ELSE IF path = "bare" THEN "error" ELSE path
Resolves(path) == ResolvedURL(path) # "error"

\* MCPPath has to be on the origin of the integration.
McpURL(path) ==
  IF path = "rooted" THEN IF based THEN "absolute" ELSE "relative"
  ELSE IF path = "none" THEN "none" ELSE "error"

Distinct(items) == \A i, k \in DOMAIN items : i # k => items[i].key # items[k].key

\* resolveConsolePages, Icon.validate: a page [key, path, icon].
PagesResolve(m) ==
  /\ Len(m.pages) <= MaxPages /\ Distinct(m.pages)
  /\ \A i \in DOMAIN m.pages :
       /\ m.pages[i].path # "none" /\ Resolves(m.pages[i].path)
       /\ m.pages[i].icon \in {"none", "small"}

\* A block [key, valid, path, copy]: its own fields are valid or not; a block without a
\* path has the one of its key.
BlocksResolve(m) ==
  /\ Distinct(m.blocks)
  /\ \A i \in DOMAIN m.blocks :
       LET b == m.blocks[i] IN
       /\ b.key \notin m.retired /\ b.valid
       /\ Resolves(IF b.path = "none" THEN "rooted" ELSE b.path)

\* Variable value sources [source, resource]; a resource source takes files or not.
ValuesResolve(m) ==
  \A v \in m.values : IF v.source = "none" THEN ~v.resource
                      ELSE v.resource /\ v.source \in DOMAIN m.sources

\* The endpoints, each with what needs it.
EndpointsResolve(m) ==
  /\ \A e \in Endpoint \ {"mcp"} : Resolves(m.paths[e])
  /\ McpURL(m.paths["mcp"]) # "error"
  /\ m.values # {} => m.paths["variableValues"] # "none"
  /\ DOMAIN m.sources # {} => m.paths["resourceValues"] # "none"
  /\ (\E s \in DOMAIN m.sources : m.sources[s]) => m.paths["importCopyFile"] # "none"
  /\ \A i \in DOMAIN m.blocks :
       /\ m.blocks[i].copy # "none" => m.paths["validateCopySettings"] # "none"
       /\ m.blocks[i].copy = "callback" => m.paths["prepareCopy"] # "none"

ManifestResolves(m) ==
  EndpointsResolve(m) /\ ValuesResolve(m) /\ PagesResolve(m) /\ BlocksResolve(m)

-----------------------------------------------------------------------------
(* The replicas. *)

SyncInit ==
  /\ declares \in [Replica -> Manifest]
  /\ based \in BOOLEAN
  /\ replica = [r \in Replica |-> [phase |-> "waits", attempt |-> 1, result |-> NoResult]]
  /\ observerCalls = [r \in Replica |-> 0]
  /\ requests = {} /\ answers = {} /\ publishedVersions = <<>>

TurnsTo(r, phase) ==
  replica' = [replica EXCEPT ![r].phase = phase]

\* StartSync goes on after a failure, unless it was the last attempt.
Retries(r) ==
  IF replica[r].attempt = MaxAttempts THEN TurnsTo(r, "gave up")
  ELSE replica' = [replica EXCEPT ![r].phase = "waits", ![r].attempt = @ + 1]

\* After the jitter or the backoff, Sync resolves the manifest and sends it.
Sends(r) ==
  /\ replica[r].phase = "waits"
  /\ IF ManifestResolves(declares[r])
     THEN /\ requests' = requests \cup {[from |-> r, attempt |-> replica[r].attempt]}
          /\ TurnsTo(r, "asks")
     ELSE Retries(r) /\ UNCHANGED requests
  /\ UNCHANGED <<declares, based, observerCalls, answers, publishedVersions>>

\* Mutant: an answer without a version is taken, too.
ReceivesAny(r) ==
  /\ replica[r].phase = "asks"
  /\ \E a \in answers :
       /\ a.from = r /\ a.attempt = replica[r].attempt
       /\ answers' = answers \ {a}
       /\ IF a.result.rejected THEN Retries(r) /\ UNCHANGED observerCalls
          ELSE /\ replica' = [replica EXCEPT ![r].phase = "done", ![r].result = a.result]
               /\ observerCalls' = [observerCalls EXCEPT ![r] = @ + 1]
  /\ UNCHANGED <<declares, based, requests, publishedVersions>>
\* The answer to this attempt comes; the observer is called with a result.
Receives(r) ==
  /\ replica[r].phase = "asks"
  /\ \E a \in answers :
       /\ a.from = r /\ a.attempt = replica[r].attempt
       /\ answers' = answers \ {a}
       /\ IF a.result.rejected \/ a.result.version < 1 THEN Retries(r) /\ UNCHANGED observerCalls
          ELSE /\ replica' = [replica EXCEPT ![r].phase = "done", ![r].result = a.result]
               /\ observerCalls' = [observerCalls EXCEPT ![r] = @ + 1]
  /\ UNCHANGED <<declares, based, requests, publishedVersions>>

\* The answer is late or lost: what was asked may still be done.
NoAnswerComes(r) ==
  /\ replica[r].phase = "asks"
  /\ Retries(r)
  /\ UNCHANGED <<declares, based, observerCalls, requests, answers, publishedVersions>>

\* The context is cancelled, between attempts or during one.
Cancelled(r) ==
  /\ replica[r].phase \in {"waits", "asks"}
  /\ TurnsTo(r, "cancelled")
  /\ UNCHANGED <<declares, based, observerCalls, requests, answers, publishedVersions>>

-----------------------------------------------------------------------------
(* The platform. *)

BlockKeys(m) == {m.blocks[i].key : i \in DOMAIN m.blocks}
BlocksInForce == IF publishedVersions = <<>> THEN {} ELSE BlockKeys(Last(publishedVersions))

\* It compares, refuses, prepares or publishes.  It may answer without a version.
Decides(m, result) ==
  IF publishedVersions # <<>> /\ m = Last(publishedVersions)
  THEN /\ result = [rejected |-> FALSE, changed |-> FALSE, published |-> TRUE,
                    version |-> Len(publishedVersions)]
       /\ UNCHANGED publishedVersions
  ELSE IF BlocksInForce \ BlockKeys(m) \subseteq m.retired
  THEN IF m.human
       THEN /\ result = [rejected |-> FALSE, changed |-> TRUE, published |-> FALSE,
                         version |-> Len(publishedVersions) + 1]
            /\ UNCHANGED publishedVersions
       ELSE /\ result = [rejected |-> FALSE, changed |-> TRUE, published |-> TRUE,
                         version |-> Len(publishedVersions) + 1]
            /\ publishedVersions' = Append(publishedVersions, m)
  ELSE /\ result = [rejected |-> TRUE, changed |-> FALSE, published |-> FALSE, version |-> 0]
       /\ UNCHANGED publishedVersions

Empty == [rejected |-> FALSE, changed |-> FALSE, published |-> TRUE, version |-> 0]
Results(m) ==
  [rejected : BOOLEAN, changed : BOOLEAN, published : BOOLEAN,
   version : 0..(Len(publishedVersions) + 1)]

Platform(q) ==
  /\ q \in requests
  /\ requests' = requests \ {q}
  /\ \E result \in Results(declares[q.from]), empty \in BOOLEAN :
       /\ Decides(declares[q.from], result)
       /\ answers' = answers \cup {[from |-> q.from, attempt |-> q.attempt,
                                    result |-> IF empty THEN Empty ELSE result]}
  /\ UNCHANGED <<declares, based, replica, observerCalls>>

SyncNext ==
  \/ \E r \in Replica : Sends(r) \/ Receives(r) \/ NoAnswerComes(r) \/ Cancelled(r)
  \/ \E q \in requests : Platform(q)

SyncSpec == SyncInit /\ [][SyncNext]_syncVars

\* Timers run, and the HTTP client has a deadline.
SyncFairness ==
  \A r \in Replica : WF_syncVars(Sends(r)) /\ WF_syncVars(Receives(r) \/ NoAnswerComes(r))

-----------------------------------------------------------------------------
(* Properties. *)

\* Types; and the observer of a replica was called once if it is done, else never
\* (StartSyncWithObserver).
SyncTypeOK ==
  /\ replica \in [Replica -> [phase : {"waits", "asks", "done", "gave up", "cancelled"},
                              attempt : 1..MaxAttempts,
                              result : {NoResult} \cup {replica[r].result : r \in Replica}]]
  /\ \A q \in requests : q.attempt \in 1..MaxAttempts
  /\ \A r \in Replica : observerCalls[r] = IF replica[r].phase = "done" THEN 1 ELSE 0

\* A replica that was told a published version declared what that version has, whatever
\* else other replicas and earlier attempts of its own have published since (Sync).
ToldItsOwnVersion ==
  \A r \in Replica : replica[r].phase = "done" =>
    LET told == replica[r].result IN
    /\ told.version >= 1
    /\ told.published => /\ told.version <= Len(publishedVersions)
                         /\ publishedVersions[told.version] = declares[r]

\* What the platform is told of has the endpoints that will be called for it: for every
\* source of values, every block that is copied, every file (Manifest.resolve).
DeclaredIsServed ==
  \A q \in requests :
    LET m == declares[q.from]
        served(e) == ResolvedURL(m.paths[e]) = "absolute" IN
    /\ m.values # {} => served("variableValues")
    /\ \A s \in DOMAIN m.sources :
         served("resourceValues") /\ (m.sources[s] => served("importCopyFile"))
    /\ \A i \in DOMAIN m.blocks :
         m.blocks[i].copy # "none" =>
           /\ served("validateCopySettings")
           /\ m.blocks[i].copy = "callback" => served("prepareCopy")

\* The synchronisation never runs on: it ends with an answer or gives up (StartSync).
SyncsEnd == <>(\A r \in Replica : replica[r].phase \in {"done", "gave up", "cancelled"})

\* What replicas declare and are told fits together: the parts above, in every state.
SyncedAsDeclared == SyncTypeOK /\ ToldItsOwnVersion /\ DeclaredIsServed
=============================================================================
