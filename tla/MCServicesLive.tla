--------------------------- MODULE MCServicesLive ---------------------------
(***************************************************************************)
(* Smaller instances of the same parts, of which one moves in each         *)
(* behaviour while the others stay as they begin: that what is begun ends. *)
(***************************************************************************)
EXTENDS TokenProvider, InstallationLifecycle, KeySet, Publication, RelayObserver,
        OutboxOperator, PlatformCalls, GuardedEdits, CopyPlan, CallVerification,
        SourceLookups, CatalogSync, TaggedReads

CONSTANTS Part, p1, p2, k1, s1, s2

VARIABLE part

\* Values of the constants.
OneDocument == {[path \in {<<1>>} |-> "s"]}
OnePath == {<<1>>}
OneCatalog == {[source \in {"a"} |->
  [params |-> <<>>, scope |-> "project", supports |-> {"resolve"}, file |-> FALSE,
   string |-> TRUE, limits |-> FALSE]]}
NoPaths == [e \in Endpoint |-> "none"]
BareManifest(retiredBlocks) ==
  [paths |-> [NoPaths EXCEPT !["action"] = "absolute"], blocks |-> <<>>,
   retired |-> retiredBlocks, pages |-> <<>>, values |-> {}, sources |-> <<>>, human |-> FALSE]
TwoManifests == {BareManifest({}), BareManifest({"b"})}
BothTags == [r \in Reader |-> Tag]

-----------------------------------------------------------------------------
LiveInit ==
  /\ part \in Part
  /\ ProviderInit /\ LifecycleInit /\ KeySetInit /\ PublicationInit /\ ObserverInit
  /\ OperatorInit /\ CallsInit /\ EditsInit /\ CopyInit /\ VerificationInit /\ LookupInit
  /\ SyncInit /\ TagsInit
  \* A part that does not move begins in one state.
  /\ part # "calls" => kind = "subject"
  /\ part # "sync" => based /\ declares = [r \in Replica |-> BareManifest({})]

Rests(p, vars) == IF part = p THEN TRUE ELSE UNCHANGED vars
OthersRest ==
  /\ Rests("tokens", providerVars) /\ Rests("lifecycle", lifecycleVars)
  /\ Rests("observer", observerVars) /\ Rests("calls", callsVars)
  /\ Rests("sync", syncVars) /\ Rests("tags", tagsVars)
  /\ UNCHANGED <<part, keySetVars, publicationVars, operatorVars, editsVars, copyVars,
                 verificationVars, lookupVars>>

LiveNext ==
  \/ part = "tokens" /\ ProviderNext /\ OthersRest
  \/ part = "lifecycle" /\ LifecycleNext /\ OthersRest
  \/ part = "observer" /\ ObserverNext /\ OthersRest
  \/ part = "calls" /\ CallsNext /\ OthersRest
  \/ part = "sync" /\ SyncNext /\ OthersRest
  \/ part = "tags" /\ TagsNext /\ OthersRest

liveVars == <<part, providerVars, lifecycleVars, keySetVars, publicationVars, observerVars,
              operatorVars, callsVars, editsVars, copyVars, verificationVars, lookupVars,
              syncVars, tagsVars>>

\* A part that rests enables none of its fair actions, except that a replica wants to
\* send its manifest from the beginning.
LiveSpec ==
  /\ LiveInit /\ [][LiveNext]_liveVars
  /\ ProviderFairness /\ LifecycleFairness /\ ObserverFairness /\ CallsFairness /\ TagsFairness
  /\ part = "sync" => SyncFairness

-----------------------------------------------------------------------------
\* What is begun ends: an acquisition of a token, the repetition of a lifecycle message,
\* a drain and the observer's worker, a call of the platform, a synchronisation and a
\* tagged read, each under the fairness of its own module.
ServicesEnd ==
  /\ AcquisitionsEnd /\ LastMessageArrives /\ BucketDrainsEnd /\ WorkerEnds /\ CallsEnd
  /\ TaggedReadsReturn
  /\ part = "sync" => SyncsEnd
=============================================================================
