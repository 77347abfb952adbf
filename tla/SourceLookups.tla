--------------------------- MODULE SourceLookups ---------------------------
(***************************************************************************)
(* The resource sources of an integration and the callbacks that use them  *)
(* (schemetransfer/validation.go, source_runtime.go, runtime.go,           *)
(* copy_plan.go, copy_files.go).                                           *)
(*                                                                         *)
(* A source may need resources of other sources as parameters.  The        *)
(* catalog of sources is checked once, by a depth-first search; then the   *)
(* platform looks resources up, source after source, and checks what it    *)
(* asks and what the integration answers.                                  *)
(*                                                                         *)
(* A catalog is a function from keys to sources                            *)
(*   [params : keys -> required, scope, supports, file, string, limits]    *)
(* with one parameter per source that is needed; the search takes keys in  *)
(* sorted order, here in any.  The JSON Schemas are not modelled: what is  *)
(* asked and answered has the right fields and types, batches are not      *)
(* empty, and of each constraint it is only known whether it fits.         *)
(***************************************************************************)
EXTENDS Naturals, Sequences, FiniteSets, SequencesExt

CONSTANTS
  Catalog,    \* the catalogs that integrations declare
  Id,         \* identities of resources
  MaxInputs   \* bound: values of one identify request, items of one answer

ASSUME LookupAssumption == MaxInputs \in Nat \ {0}

VARIABLES
  catalog,
  colour,   \* validateResourceSources: state
  stack,    \* the calls of visit: [key, left, required]
  verdict,  \* what the check of the catalog has come to
  resolved, \* the sources of which the platform has a resource
  exchange  \* the last callback

lookupVars == <<catalog, colour, stack, verdict, resolved, exchange>>

Sources == DOMAIN catalog
Needs(k) == DOMAIN catalog[k].params
Required(k) == {p \in Needs(k) : catalog[k].params[p]}
Modes == {"resolve", "search", "identify"}
NoExchange == [phase |-> "none"]

-----------------------------------------------------------------------------
(* validateResourceSources. *)

LookupInit ==
  /\ catalog \in Catalog
  /\ colour = [k \in Sources |-> 0]
  /\ stack = <<>>
  /\ verdict = "checking"
  /\ resolved = {}
  /\ exchange = NoExchange

Top == Last(stack)
Checking == verdict = "checking" /\ UNCHANGED <<catalog, resolved, exchange>>
Fails(why) == verdict' = why /\ UNCHANGED <<colour, stack>>

\* A source that files are imported into stands by itself.
FileProper(k) ==
  catalog[k].file => /\ catalog[k].scope = "project" /\ catalog[k].string
                     /\ Needs(k) = {} /\ "identify" \in catalog[k].supports

\* visit(k), up to its first parameter; rest is the stack below.
Enters(k, rest) ==
  IF ~FileProper(k) THEN Fails("invalidFileImportSource")
  ELSE /\ colour' = [colour EXCEPT ![k] = 1]
       /\ stack' = Append(rest, [key |-> k, left |-> Needs(k)])
       /\ UNCHANGED verdict

VisitNext == Checking /\ stack = <<>> /\ \E k \in Sources : colour[k] = 0 /\ Enters(k, <<>>)

\* Mutant: a source that is being visited is as good as one that has been.
VisitParameterGrey ==
  /\ Checking /\ stack # <<>>
  /\ \E p \in Top.left :
       LET rest == Append(Front(stack), [Top EXCEPT !.left = @ \ {p}]) IN
       IF p \notin Sources THEN Fails("unknownSource")
       ELSE IF colour[p] # 0 THEN stack' = rest /\ UNCHANGED <<colour, verdict>>
       ELSE Enters(p, rest)
VisitParameter ==
  /\ Checking /\ stack # <<>>
  /\ \E p \in Top.left :
       LET rest == Append(Front(stack), [Top EXCEPT !.left = @ \ {p}]) IN
       IF p \notin Sources THEN Fails("unknownSource")
       ELSE IF colour[p] = 1 THEN Fails("cyclicSourceDependencies")
       ELSE IF colour[p] = 2 THEN stack' = rest /\ UNCHANGED <<colour, verdict>>
       ELSE Enters(p, rest)

\* The end of visit.
VisitEnds ==
  /\ Checking /\ stack # <<>> /\ Top.left = {}
  /\ IF catalog[Top.key].scope = "parent" /\ Required(Top.key) = {}
     THEN Fails("parentParameterRequired")
     ELSE IF "resolve" \notin catalog[Top.key].supports THEN Fails("resolveRequired")
     ELSE /\ colour' = [colour EXCEPT ![Top.key] = 2]
          /\ stack' = Front(stack)
          /\ UNCHANGED verdict

Accept ==
  /\ Checking /\ stack = <<>> /\ \A k \in Sources : colour[k] = 2
  /\ verdict' = "accepted"
  /\ UNCHANGED <<colour, stack>>

-----------------------------------------------------------------------------
(* The callbacks. *)

\* ValidateSourceLookup: a request [mode, source, given, limited, fits].
ValidLookup(r) ==
  /\ r.source \in Sources
  /\ r.mode \in catalog[r.source].supports
  /\ r.given \subseteq Needs(r.source) \cap Sources
  /\ Required(r.source) \subseteq r.given
  /\ r.limited => catalog[r.source].limits /\ r.fits

Items(a) == {a.items[i].id : i \in DOMAIN a.items}

\* LookupResponse.ValidateFor, validateResourceItem.
ValidItems(r, a) ==
  /\ r.mode = "resolve" => /\ ~a.more /\ Len(a.items) <= Cardinality(r.ids)
                           /\ Items(a) \subseteq r.ids
  /\ Cardinality(Items(a)) = Len(a.items)
  /\ \A i \in DOMAIN a.items : a.items[i].proper

\* IdentifyResponse.ValidateFor: inputs are numbered from 0.
ValidMatches(r, a) ==
  /\ Len(a.matches) = r.inputs
  /\ \A i \in DOMAIN a.matches :
       a.matches[i] < r.inputs /\ \A k \in 1..(i - 1) : a.matches[k] # a.matches[i]

\* ValidationResult.Validate: issue after issue, until an error.
Expected(issues) ==
  LET upTo[n \in 0..Len(issues)] ==
        IF n = 0 THEN "passed"
        ELSE IF upTo[n - 1] = "blocked" \/ issues[n] = "error" THEN "blocked"
        ELSE IF issues[n] = "review" THEN "needsReview" ELSE upTo[n - 1]
  IN upTo[Len(issues)]

CallsBack(request) ==
  /\ verdict = "accepted" /\ exchange.phase # "asked"
  /\ exchange' = [phase |-> "asked", request |-> request]
  /\ UNCHANGED <<catalog, colour, stack, verdict, resolved>>

\* The platform asks a source for resources; as parameters it has what it has resolved.
AskLookup(mode, source, given, limited) ==
  \E ids \in SUBSET Id \ {{}}, inputs \in 1..MaxInputs, fits \in BOOLEAN :
    LET r == [mode |-> mode, source |-> source, given |-> given, limited |-> limited,
              fits |-> fits, ids |-> ids, inputs |-> inputs] IN
    /\ mode # "resolve" => Cardinality(ids) = 1
    /\ mode # "identify" => inputs = 1
    /\ ~limited => fits
    /\ given \subseteq resolved /\ ValidLookup(r)
    /\ CallsBack(r)

\* ValidateSources: the integration prepares a plan, which refers to a source, perhaps
\* with a file.
AskCopy == CallsBack([mode |-> "prepareCopy"])
AskValidation == CallsBack([mode |-> "validate"])

ValidReference(ref) ==
  /\ ref.source \in Sources
  /\ ref.file => catalog[ref.source].file
  /\ ref.limited => catalog[ref.source].limits /\ ref.fits

Answers(answer, valid) ==
  /\ exchange' = [phase |-> "answered", request |-> exchange.request, answer |-> answer,
                  valid |-> valid]
  /\ UNCHANGED <<catalog, colour, stack, verdict>>

\* ValidateCallbackResponse: any answer may come; what is valid of it is used.
CallbackAnswered ==
  /\ exchange.phase = "asked"
  /\ LET r == exchange.request IN
     CASE r.mode \in {"resolve", "search"} ->
            \E items \in SeqOf([id : Id, proper : BOOLEAN], 2), more \in BOOLEAN :
              LET a == [items |-> items, more |-> more] IN
              /\ Answers(a, ValidItems(r, a))
              /\ resolved' = IF ValidItems(r, a) /\ items # <<>>
                             THEN resolved \cup {r.source} ELSE resolved
       [] r.mode = "identify" ->
            \E matches \in SeqOf(0..MaxInputs, MaxInputs + 1) :
              LET a == [matches |-> matches] IN
              Answers(a, ValidMatches(r, a)) /\ UNCHANGED resolved
       [] r.mode = "prepareCopy" ->
            \E ref \in [source : UNION {DOMAIN c : c \in Catalog}, file : BOOLEAN,
                        limited : BOOLEAN, fits : BOOLEAN] :
              Answers(ref, ValidReference(ref)) /\ UNCHANGED resolved
       [] r.mode = "validate" ->
            \E issues \in SeqOf({"error", "review", "info"}, 2),
               status \in {"passed", "needsReview", "blocked"} :
              /\ Answers([issues |-> issues, status |-> status], status = Expected(issues))
              /\ UNCHANGED resolved

LookupNext ==
  \/ VisitNext \/ VisitParameter \/ VisitEnds \/ Accept
  \/ \E mode \in Modes, source \in Sources, limited \in BOOLEAN :
       \E given \in SUBSET Needs(source) : AskLookup(mode, source, given, limited)
  \/ AskCopy
  \/ AskValidation
  \/ CallbackAnswered

LookupSpec == LookupInit /\ [][LookupNext]_lookupVars

-----------------------------------------------------------------------------
(* Properties. *)

\* Sources that need each other: each of them one of them.
Circle(S) == S # {} /\ \A k \in S : Needs(k) \cap S # {}

\* Types; and the calls of visit are a path along the parameters, of sources in progress.
LookupTypeOK ==
  /\ colour \in [Sources -> 0..2]
  /\ verdict \in {"checking", "accepted", "invalidFileImportSource", "unknownSource",
                  "cyclicSourceDependencies", "parentParameterRequired", "resolveRequired"}
  /\ {k \in Sources : colour[k] = 1} = {stack[i].key : i \in DOMAIN stack}
  /\ \A i \in 1..(Len(stack) - 1) :
       stack[i + 1].key \in Needs(stack[i].key) \ stack[i].left
  /\ resolved \subseteq Sources

\* A catalog that is accepted has neither circles nor parameters of unknown sources,
\* wherever the search began (validateResourceSources).
AcceptedIsWellFounded ==
  verdict = "accepted" => /\ \A S \in SUBSET Sources : ~Circle(S)
                          /\ \A k \in Sources : Needs(k) \subseteq Sources

\* One that is rejected as cyclic has a circle: that two sources need the same third one
\* is none (validateResourceSources).
CyclicForCause ==
  verdict = "cyclicSourceDependencies" => \E S \in SUBSET Sources : Circle(S)

\* The platform is never stuck: while sources are unresolved, one of them can be asked to
\* resolve with what has been resolved (validateResourceSources, ValidateSourceLookup).
SomeSourceReady ==
  verdict = "accepted" /\ resolved # Sources =>
    \E k \in Sources \ resolved :
      ValidLookup([mode |-> "resolve", source |-> k, given |-> Required(k) \cap resolved,
                   limited |-> FALSE, fits |-> TRUE])

\* What is used of a resolve answer are resources that were asked for, each once; of an
\* identify answer, one match for every input (the two ValidateFor).
AnswersWhatWasAsked ==
  exchange.phase = "answered" /\ exchange.valid =>
    LET r == exchange.request a == exchange.answer IN
    /\ r.mode = "resolve" => Items(a) \subseteq r.ids /\ IsInjective(a.items)
    /\ r.mode = "identify" => \A n \in 0..(r.inputs - 1) :
                                Cardinality({i \in DOMAIN a.matches : a.matches[i] = n}) = 1

\* A file of a plan that is accepted can be identified in its source without parameters
\* (ValidateSources, validateResourceSources).
FilesCanBeIdentified ==
  exchange.phase = "answered" /\ exchange.request.mode = "prepareCopy" /\ exchange.valid
  /\ exchange.answer.file =>
    ValidLookup([mode |-> "identify", source |-> exchange.answer.source, given |-> {},
                 limited |-> FALSE, fits |-> TRUE])

\* Settings with an error are blocked, wherever among the issues it is, and nothing passes
\* that has to be reviewed (ValidationResult.Validate).
StatusFitsIssues ==
  exchange.phase = "answered" /\ exchange.request.mode = "validate" /\ exchange.valid =>
    LET issues == ToSet(exchange.answer.issues) status == exchange.answer.status IN
    /\ ("error" \in issues) = (status = "blocked")
    /\ status = "passed" => issues \subseteq {"info"}

\* An accepted catalog can be used, and its answers can be trusted: the parts above, in
\* every state.
LookupsWork ==
  /\ LookupTypeOK /\ AcceptedIsWellFounded /\ CyclicForCause /\ SomeSourceReady
  /\ AnswersWhatWasAsked /\ FilesCanBeIdentified /\ StatusFitsIssues
=============================================================================
