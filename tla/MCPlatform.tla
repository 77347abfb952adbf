----------------------------- MODULE MCPlatform -----------------------------
(***************************************************************************)
(* Small instances of what an integration does at the platform: calls of   *)
(* its methods, edits of revisioned resources, publications and the        *)
(* declaration of its manifest.                                            *)
(*                                                                         *)
(* A behaviour is one of one part, chosen at the beginning: the parts share*)
(* no state, and the variables of the others stay as they begin.  p1 and p2*)
(* are whoever acts.                                                       *)
(***************************************************************************)
EXTENDS PlatformCalls, GuardedEdits, Publication, CatalogSync, TLC

CONSTANTS Part, p1, p2

VARIABLE part

-----------------------------------------------------------------------------
(* Values of the constants. *)
Released1 == [contract |-> "c1", package |-> "p1", current |-> TRUE]
Released2 == [contract |-> "c1", package |-> "p2", current |-> FALSE]
Released3 == [contract |-> "c2", package |-> "p1", current |-> TRUE]
Releases == {Released1, Released2, Released3}
\* Two operations, and one of them once more for another release.
Publications == {[id |-> 1, release |-> Released1], [id |-> 2, release |-> Released2],
                 [id |-> 2, release |-> Released3]}

AtPaths(some, path) == [e \in Endpoint |-> IF e \in some THEN path ELSE "none"]
OfBlock(key, path, copy) == [key |-> key, valid |-> TRUE, path |-> path, copy |-> copy]
ManifestOf(paths, blocks, gone, pages, values, sources, human) ==
  [paths |-> paths, blocks |-> blocks, retired |-> gone, pages |-> pages,
   values |-> values, sources |-> sources, human |-> human]
ResourceValues == {[source |-> "s", resource |-> TRUE]}
TwoBlocks == ManifestOf(AtPaths({"action"}, "absolute"),
  <<OfBlock("a", "absolute", "none"), OfBlock("b", "absolute", "none")>>, {}, <<>>, {}, <<>>,
  FALSE)
OneRetired == ManifestOf(AtPaths({"action"}, "absolute"),
  <<OfBlock("a", "absolute", "none")>>, {"b"}, <<>>, {}, <<>>, FALSE)
Manifests == {TwoBlocks, OneRetired,
  ManifestOf(AtPaths({"action"}, "absolute"), <<OfBlock("a", "none", "none")>>, {},
             <<[key |-> "p", path |-> "rooted", icon |-> "small"]>>, {}, <<>>, TRUE),
  ManifestOf(AtPaths({"mcp"}, "rooted"), <<>>, {"a", "b"}, <<>>, {}, <<>>, FALSE),
  ManifestOf(AtPaths({"action"}, "absolute"), <<OfBlock("a", "absolute", "callback")>>, {},
             <<>>, ResourceValues, "s" :> TRUE, FALSE),
  ManifestOf(AtPaths({"action", "importCopyFile"}, "absolute"),
             <<OfBlock("a", "absolute", "callback")>>, {}, <<>>, {}, "s" :> TRUE, FALSE),
  ManifestOf(AtPaths(Endpoint, "rooted"), <<OfBlock("a", "none", "callback")>>, {}, <<>>,
             ResourceValues, "s" :> TRUE, FALSE)}
PlatformSymmetry == Permutations({p1, p2})

-----------------------------------------------------------------------------
PlatformInit ==
  /\ part \in Part
  /\ CallsInit /\ EditsInit /\ PublicationInit /\ SyncInit
  \* A part that rests begins in one state.
  /\ part # "calls" => kind = "subject"
  /\ part # "edits" => contract = 1
  /\ part # "sync" => based /\ declares = [r \in Replica |-> TwoBlocks]

PlatformNext ==
  \/ part = "calls" /\ CallsNext /\ UNCHANGED <<part, editsVars, publicationVars, syncVars>>
  \/ part = "edits" /\ EditsNext /\ UNCHANGED <<part, callsVars, publicationVars, syncVars>>
  \/ part = "publication" /\ PublicationNext /\ UNCHANGED <<part, callsVars, editsVars, syncVars>>
  \/ part = "sync" /\ SyncNext /\ UNCHANGED <<part, callsVars, editsVars, publicationVars>>

platformVars == <<part, callsVars, editsVars, publicationVars, syncVars>>

PlatformSpec == PlatformInit /\ [][PlatformNext]_platformVars
=============================================================================
