--------------------------- MODULE MCIntegration ----------------------------
(***************************************************************************)
(* Small instances of what an integration keeps and answers: its lifecycle,*)
(* sources and copies, what it reads under tags, and the observer and the  *)
(* operator of its outbox.                                                 *)
(*                                                                         *)
(* A behaviour is one of one part, chosen at the beginning: the parts share*)
(* no state, and the variables of the others stay as they begin.  p1 and p2*)
(* are whoever acts, k1 and k2 the keys they act on.                       *)
(***************************************************************************)
EXTENDS InstallationLifecycle, SourceLookups, CopyPlan, TaggedReads, RelayObserver,
        OutboxOperator

CONSTANTS Part, p1, p2, k1, k2

VARIABLE part

-----------------------------------------------------------------------------
(* Values of the constants. *)
Documents ==
  {(<<1>> :> "list") @@ (<<1, 1>> :> "s") @@ (<<1, 2>> :> "t") @@ (<<2>> :> "s"),
   (<<1>> :> "object") @@ (<<1, 1>> :> "null") @@ (<<1, 2>> :> "n") @@ (<<2>> :> "null"),
   (<<1>> :> "list") @@ (<<2>> :> "t")}
Paths == {<<1>>, <<2>>, <<1, 1>>}
ForeignValues == {<<>> :> "s", <<>> :> "null", (<<>> :> "object") @@ (<<1>> :> "s")}
ForeignReferences ==
  {r \in [pointer : [path : Paths, canonical : BOOLEAN], kind : {"resource", "variable"},
           file : {"m1", "m2", "-"}, value : ForeignValues] :
     r.file # "-" => r.kind = "resource"}

SourceOf(params, scope, supports, file) ==
  [params |-> params, scope |-> scope, supports |-> supports, file |-> file,
   string |-> TRUE, limits |-> file]
\* The graphs of three sources, of which only the first may need itself; every way to
\* declare a source that needs none, or one that is not declared, or another.
Needing ==
  {f \in [{"a", "b", "c"} -> SUBSET {"a", "b", "c"}] : "b" \notin f["b"] /\ "c" \notin f["c"]}
Graphs3 ==
  {[k \in {"a", "b", "c"} |->
      SourceOf([p \in f[k] |-> TRUE], "project", {"resolve"}, FALSE)] : f \in Needing}
Declared(params) == {SourceOf(needs, scope, supports, file) :
  needs \in params, scope \in {"project", "parent"},
  supports \in {{"resolve"}, {"search", "identify"}, {"resolve", "search", "identify"}},
  file \in BOOLEAN}
Plainest == "a" :> SourceOf(<<>>, "project", {"resolve"}, FALSE)
Needed == "b" :> SourceOf(<<>>, "project", {"resolve", "identify"}, TRUE)
Catalogs == Graphs3 \cup {"a" :> s : s \in Declared({<<>>, "z" :> TRUE})}
  \cup {("a" :> s) @@ Needed : s \in Declared({"b" :> TRUE, "b" :> FALSE})}

BothTags == [r \in Reader |-> Tag]

IntegrationSymmetry ==
  {f @@ g : f \in Permutations({p1, p2}), g \in Permutations({k1, k2})}

-----------------------------------------------------------------------------
IntegrationInit ==
  /\ part \in Part
  /\ LifecycleInit /\ LookupInit /\ CopyInit
  /\ TagsInit /\ ObserverInit /\ OperatorInit
  \* A part that rests begins in one state.
  /\ part # "lookups" => catalog = Plainest
  /\ part # "copies" => original = ((<<1>> :> "list") @@ (<<2>> :> "t"))

IntegrationNext ==
  \/ part = "lifecycle" /\ LifecycleNext
     /\ UNCHANGED <<part, lookupVars, copyVars, tagsVars, observerVars, operatorVars>>
  \/ part = "lookups" /\ LookupNext
     /\ UNCHANGED <<part, lifecycleVars, copyVars, tagsVars, observerVars, operatorVars>>
  \/ part = "copies" /\ CopyNext
     /\ UNCHANGED <<part, lifecycleVars, lookupVars, tagsVars, observerVars, operatorVars>>
  \/ part = "tags" /\ TagsNext
     /\ UNCHANGED <<part, lifecycleVars, lookupVars, copyVars, observerVars, operatorVars>>
  \/ part = "observer" /\ ObserverNext
     /\ UNCHANGED <<part, lifecycleVars, lookupVars, copyVars, tagsVars, operatorVars>>
  \/ part = "operator" /\ OperatorNext
     /\ UNCHANGED <<part, lifecycleVars, lookupVars, copyVars, tagsVars, observerVars>>

integrationVars == <<part, lifecycleVars, lookupVars, copyVars, tagsVars, observerVars,
                     operatorVars>>

IntegrationSpec == IntegrationInit /\ [][IntegrationNext]_integrationVars
=============================================================================
