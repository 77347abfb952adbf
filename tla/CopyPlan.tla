------------------------------ MODULE CopyPlan ------------------------------
(***************************************************************************)
(* Copy plans of settings documents (schemetransfer/copy_plan.go,          *)
(* copy_files.go, integration/copy.go).                                    *)
(*                                                                         *)
(* An integration builds a plan: every reference moves a source value out  *)
(* of the settings and leaves null behind.  The platform receives the      *)
(* answer of an integration, built like that or by any other means, checks *)
(* it and, to find the resources, puts the values back.                    *)
(*                                                                         *)
(* A document is a function from paths to nodes; a path is a sequence of   *)
(* keys, and the elements of a list have keys like the fields of an        *)
(* object.  A pointer is the text of a path: as Pointer writes it, or in   *)
(* another spelling that a lenient reader would take for the same.         *)
(***************************************************************************)
EXTENDS Naturals, Sequences, FiniteSets, SequencesExt

CONSTANTS
  Document,   \* settings documents
  Path,       \* the paths that callers may name
  Literal,    \* scalar nodes
  Text,       \* those of them that are strings, not blank
  Parsed,     \* those of them that are templates without an error
  MediaFile, NoFile,
  Foreign,    \* what an answer not made by the builder may have as values
  MaxSteps    \* bound: calls on one builder

\* A document or a value in one: nodes at finitely many paths.
IsTree(d) == /\ d = [q \in DOMAIN d |-> d[q]]
             /\ DOMAIN d \subseteq Seq(Nat) /\ IsFiniteSet(DOMAIN d)

\* No pointer names a document as a whole, so it is given by what is below.
ASSUME CopyAssumption ==
  /\ \A d \in Document : IsTree(d) /\ <<>> \notin DOMAIN d
  /\ Path \subseteq Seq(Nat)
  /\ \A ref \in Foreign : /\ ref.pointer \in [path : Path, canonical : BOOLEAN]
                           /\ IsTree(ref.value)
  /\ Parsed \subseteq Text /\ Text \subseteq Literal
  /\ NoFile \notin MediaFile
  /\ MaxSteps \in Nat

VARIABLES
  original, \* the settings the builder starts from
  settings, \* CopyBuilder.settings
  plan,     \* CopyBuilder.plan: [references, templates]
  failed,   \* CopyBuilder.err # nil
  asked,    \* ghost: the calls on the builder, [kind, pointer] each
  answer    \* the last answer that was built, or that came from elsewhere

copyVars == <<original, settings, plan, failed, asked, answer>>

Null == "null"
NullValue == [q \in {<<>>} |-> Null]
Pointers == [path : Path, canonical : BOOLEAN]
Kinds == {"resource", "variable"}

NoPlan == [references |-> <<>>, templates |-> <<>>]
NoAnswer == [settings |-> <<>>, plan |-> NoPlan, built |-> FALSE, valid |-> FALSE]

-----------------------------------------------------------------------------
(* Documents. *)

Rest(p, q) == SubSeq(q, Len(p) + 1, Len(q))

\* The value at a path: the node and all below it.
Value(d, p) == [r \in {Rest(p, q) : q \in {q \in DOMAIN d : IsPrefix(p, q)}} |-> d[p \o r]]

Replaced(d, p, v) ==
  [q \in {q \in DOMAIN d : ~IsPrefix(p, q)} \cup {p \o r : r \in DOMAIN v} |->
     IF IsPrefix(p, q) THEN v[Rest(p, q)] ELSE d[q]]

\* Mutant: another spelling will do.
FoundLeniently(d, pointer) == pointer.path \in DOMAIN d
\* copyPointer finds a node: it exists, and the pointer is written as Pointer would.
Found(d, pointer) == pointer.canonical /\ pointer.path \in DOMAIN d

IsText(v) == DOMAIN v = {<<>>} /\ v[<<>>] \in Text
IsParsed(v) == DOMAIN v = {<<>>} /\ v[<<>>] \in Parsed

-----------------------------------------------------------------------------
(* The checks on an answer. *)

\* One text is the other or a prefix of it that ends at a slash.
Overlap(p, q) == /\ p.canonical = q.canonical
                 /\ IsPrefix(p.path, q.path) \/ IsPrefix(q.path, p.path)

\* overlappingCopyPaths.
Disjoint(pl) ==
  LET all == [i \in DOMAIN pl.references |-> pl.references[i].pointer] \o pl.templates IN
  \A i, k \in DOMAIN all : i # k => ~Overlap(all[i], all[k])

Placeholder(d, ref) == Value(d, ref.pointer.path) = NullValue

\* validateCopyFile; variables and tags are named by a string in any case.
ValidCopyReference(ref) ==
  /\ ref.value # NullValue
  /\ ref.kind = "variable" => IsText(ref.value)
  /\ ref.file # NoFile => ref.kind = "resource" /\ IsText(ref.value)

\* conflictingCopyFile.  All references here are to one source.
FilesAgree(pl) ==
  \A i, k \in DOMAIN pl.references :
    LET r == pl.references[i] s == pl.references[k] IN
    r.file # NoFile /\ s.file # NoFile /\ r.value = s.value => r.file = s.file

\* PrepareCopyResponse.Validate, validatePlan.
Valid(d, pl) ==
  /\ Disjoint(pl)
  /\ FilesAgree(pl)
  /\ \A i \in DOMAIN pl.references :
       LET ref == pl.references[i] IN
       Found(d, ref.pointer) /\ Placeholder(d, ref) /\ ValidCopyReference(ref)
  /\ \A i \in DOMAIN pl.templates :
       Found(d, pl.templates[i]) /\ IsParsed(Value(d, pl.templates[i].path))

\* HydratedSettings: the references one after the other.
Hydrated(d, refs) ==
  LET from[n \in 0..Len(refs)] ==
        IF n = 0 THEN d ELSE Replaced(from[n - 1], refs[n].pointer.path, refs[n].value)
  IN from[Len(refs)]

-----------------------------------------------------------------------------
(* CopyBuilder. *)

CopyInit ==
  /\ original \in Document
  /\ settings = original
  /\ plan = NoPlan
  /\ failed = FALSE
  /\ asked = <<>>
  /\ answer = NoAnswer

Asks(kind, pointer) ==
  /\ Len(asked) < MaxSteps /\ (answer.built \/ answer = NoAnswer)
  /\ asked' = Append(asked, [kind |-> kind, pointer |-> pointer])
  /\ UNCHANGED <<original, answer>>

\* Reference, with Resource, SubjectVariable and File; after an error all calls are
\* without effect.
Reference(kind, pointer, file) ==
  /\ Asks(kind, pointer)
  /\ IF failed \/ ~Found(settings, pointer)
     THEN failed' = TRUE /\ UNCHANGED <<settings, plan>>
     ELSE /\ settings' = Replaced(settings, pointer.path, NullValue)
          /\ plan' = [plan EXCEPT !.references = Append(@,
                [pointer |-> pointer, kind |-> kind, file |-> file,
                 value |-> Value(settings, pointer.path)])]
          /\ UNCHANGED failed

Elements(pointer) == {q \in DOMAIN settings : Front(q) = pointer.path}
Emptied(paths) == [q \in {q \in DOMAIN settings : \A p \in paths : p # q => ~IsPrefix(p, q)} |->
                     IF q \in paths THEN Null ELSE settings[q]]
InOrder(paths) ==
  {sorted \in [1..Cardinality(paths) -> paths] :
     \A i, k \in 1..Cardinality(paths) : i < k => Last(sorted[i]) < Last(sorted[k])}
Moved(sorted) ==
  [i \in DOMAIN sorted |-> [pointer |-> [path |-> sorted[i], canonical |-> TRUE],
                            kind |-> "resource", file |-> NoFile,
                            value |-> Value(settings, sorted[i])]]

\* ResourceList: every element of a list becomes a reference, in order.
ResourceList(pointer) ==
  /\ Asks("list", pointer)
  /\ IF failed \/ ~Found(settings, pointer) \/ settings[pointer.path] # "list"
     THEN failed' = TRUE /\ UNCHANGED <<settings, plan>>
     ELSE /\ settings' = Emptied(Elements(pointer))
          /\ \E sorted \in InOrder(Elements(pointer)) :
               plan' = [plan EXCEPT !.references = @ \o Moved(sorted)]
          /\ UNCHANGED failed

\* A template is only noted; it is looked at when the plan is built.
Template(pointer) ==
  /\ Asks("template", pointer)
  /\ plan' = [plan EXCEPT !.templates = Append(@, pointer)]
  /\ UNCHANGED <<settings, failed>>

\* Build returns an error or a detached answer; the builder may be used on.
Build ==
  /\ answer.built \/ answer = NoAnswer
  /\ answer' = [settings |-> settings, plan |-> plan, built |-> TRUE,
                valid |-> ~failed /\ Valid(settings, plan)]
  /\ UNCHANGED <<original, settings, plan, failed, asked>>

\* The platform receives an answer made by other means and validates it.
Receive ==
  /\ asked = <<>> /\ answer = NoAnswer
  /\ \E d \in Document, refs \in SeqOf(Foreign, 2), templates \in SeqOf(Pointers, 1) :
       LET pl == [references |-> refs, templates |-> templates] IN
       answer' = [settings |-> d, plan |-> pl, built |-> FALSE, valid |-> Valid(d, pl)]
  /\ UNCHANGED <<original, settings, plan, failed, asked>>

CopyNext ==
  \/ \E pointer \in Pointers :
       \/ \E kind \in Kinds, file \in MediaFile \cup {NoFile} :
            (file # NoFile => kind = "resource") /\ Reference(kind, pointer, file)
       \/ ResourceList(pointer)
       \/ Template(pointer)
  \/ Build
  \/ Receive

CopySpec == CopyInit /\ [][CopyNext]_copyVars

-----------------------------------------------------------------------------
(* Properties. *)

References(a) == {a.plan.references[i] : i \in DOMAIN a.plan.references}

\* What the builder returns without an error, put back, is what it started from: no
\* call in any order loses, moves or duplicates a value (CopyBuilder, HydratedSettings).
BuiltRestores ==
  answer.built /\ answer.valid => Hydrated(answer.settings, answer.plan.references) = original

\* In an answer that passes the checks, however it was made, putting the values back
\* fills its placeholders, each with its own value, and changes nothing else
\* (validatePlan, copyPointer).
HydrationFillsPlaceholders ==
  answer.valid =>
    LET h == Hydrated(answer.settings, answer.plan.references) IN
    /\ \A ref \in References(answer) :
         /\ answer.settings[ref.pointer.path] = Null
         /\ Value(h, ref.pointer.path) = ref.value
    /\ \A q \in DOMAIN answer.settings :
         q \notin {ref.pointer.path : ref \in References(answer)} => h[q] = answer.settings[q]
    /\ \A i \in DOMAIN answer.plan.templates :
         IsParsed(Value(h, answer.plan.templates[i].path))

\* Of one file of the source, one file is copied (validatePlan).
OneMediaFile ==
  answer.valid => \A r, s \in References(answer) :
    r.value = s.value /\ r.file # NoFile /\ s.file # NoFile => r.file = s.file

\* What a call on the builder asks for, read off the original settings; a list may be empty.
Named(call) == {call.pointer.path} \cup
  {q \in DOMAIN original : call.kind = "list" /\ Front(q) = call.pointer.path}
Proper(call) ==
  /\ Found(original, call.pointer)
  /\ call.kind = "list" => original[call.pointer.path] = "list"
  /\ \A p \in Named(call) :
       LET v == Value(original, p) IN
       /\ v # NullValue
       /\ call.kind = "variable" => IsText(v)
       /\ call.kind = "template" => IsParsed(v)
Apart(p, q) == ~IsPrefix(p, q) /\ ~IsPrefix(q, p)

\* The builder answers whenever its calls name different, existing, fitting values of
\* the original settings, in whatever order, none of them with a file, whose copies
\* FilesAgree may refuse (Build, validatePlan).
BuildsWhenProper ==
  /\ \A i \in DOMAIN asked : Proper(asked[i])
  /\ \A i, k \in DOMAIN asked :
       i # k => \A p \in Named(asked[i]), q \in Named(asked[k]) : Apart(p, q)
  /\ \A ref \in {plan.references[i] : i \in DOMAIN plan.references} : ref.file = NoFile
  => ~failed /\ Valid(settings, plan)

\* Types; and where the builder has no error, its settings are the original ones but
\* for its references.
CopyTypeOK ==
  /\ original \in Document
  /\ failed \in BOOLEAN
  /\ DOMAIN settings \subseteq DOMAIN original
  /\ asked \in Seq([kind : Kinds \cup {"list", "template"}, pointer : Pointers])
  /\ \A i \in DOMAIN plan.references :
       plan.references[i].pointer.path \in DOMAIN original
  /\ \A q \in DOMAIN settings :
       settings[q] = original[q]
       \/ \E i \in DOMAIN plan.references : plan.references[i].pointer.path = q

\* A plan moves values and loses none: the parts above, in every state.
CopiesRestore ==
  CopyTypeOK /\ BuiltRestores /\ HydrationFillsPlaceholders /\ OneMediaFile /\ BuildsWhenProper
=============================================================================
