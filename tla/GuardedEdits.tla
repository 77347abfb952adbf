---------------------------- MODULE GuardedEdits ----------------------------
(***************************************************************************)
(* Edits of a revisioned resource by users of the platform client          *)
(* (platform/*.go) and of campaigns (integration/campaigns.go).            *)
(*                                                                         *)
(* An editor reads the resource, prepares what it writes against the       *)
(* runtime contract it has observed, and writes against the revision it    *)
(* has read.  The client sends once.  A write that carries an operation ID *)
(* may be repeated as it is by the editor when its outcome is unknown.     *)
(*                                                                         *)
(* The platform is outside the repository: it keeps a log of the edits,    *)
(* the revision being its length, refuses a write against another revision *)
(* or another contract than its own, and answers an operation it has       *)
(* carried out with the receipt.                                           *)
(***************************************************************************)
EXTENDS Naturals, Sequences, FiniteSets, GuardedMethods

CONSTANTS
  Editor,      \* goroutines that edit one resource
  EditOperation,   \* operation IDs, each of one intention
  NoOperation, \* a write without one
  Contract,    \* contract revisions of the runtime that carries out native blocks
  MaxRevision, \* bound: edits of the resource
  MaxAdrift    \* bound: writes under way that nobody waits for

ASSUME EditsAssumption ==
  /\ MaxRevision \in Nat /\ MaxAdrift \in Nat
  /\ NoOperation \notin EditOperation
  /\ Contract \subseteq Nat

VARIABLES
  log,      \* the edits the platform has carried out; asObserved: ghost, whether their
            \*   settings were made for the contract that their editor had observed
  contract, \* the runtime's contract, which a roll-out or roll-back changes
  edit,     \* per editor, where its edit stands
  adrift    \* writes that may still be carried out

editsVars == <<log, contract, edit, adrift>>

EditRevisions == 0..MaxRevision
Contracts == Contract \cup {0}

\* base: the revision the write names; observed, prepared: the contract that was seen
\* and the one the settings were made for, 0 for none; told: the revision in the
\* answer; ghosts: seen, the revision the editor has read last, and ran, the
\* revisions its write has made.
Edits == [phase : {"idle", "read", "prepared", "sent", "answered", "behind", "other",
                   "succeeded", "conflict", "mismatch", "unknown"},
          method : EditMethods \cup {NoMethod}, op : EditOperation \cup {NoOperation},
          base : EditRevisions, observed : Contracts, prepared : Contracts,
          told : EditRevisions, seen : EditRevisions, ran : SUBSET EditRevisions]
NoEdit == [phase |-> "idle", method |-> NoMethod, op |-> NoOperation, base |-> 0,
           observed |-> 0, prepared |-> 0, told |-> 0, seen |-> 0, ran |-> {}]

EditsInit ==
  /\ log = <<>>
  /\ contract \in Contract
  /\ edit = [e \in Editor |-> NoEdit]
  /\ adrift = {}

Waits(e) == edit[e].phase \in {"sent", "answered", "behind", "other"}
EditBecomes(e, rec) == edit' = [edit EXCEPT ![e] = rec]

-----------------------------------------------------------------------------
(* The editor. *)

\* GetGraph and the like, with the contract (RuntimeContracts, NativeBlocks).  A read
\* that fails or does not pass its checks changes nothing.
GetGraph(e) ==
  /\ ~Waits(e)
  /\ EditBecomes(e, [NoEdit EXCEPT !.phase = "read", !.seen = Len(log), !.base = Len(log),
                               !.observed = contract])
  /\ UNCHANGED <<log, contract, adrift>>

\* ListOperations: what came after the revision held.
ListOperations(e) ==
  /\ edit[e].phase = "read"
  /\ edit[e].base < Len(log)
  /\ EditBecomes(e, [edit[e] EXCEPT !.base = Len(log), !.seen = Len(log)])
  /\ UNCHANGED <<log, contract, adrift>>

\* PrepareNativeBlockAtContract: the runtime that answers must be at the contract that
\* was observed.
PrepareNativeBlock(e) ==
  /\ edit[e].phase = "read"
  /\ edit[e].observed = contract
  /\ EditBecomes(e, [edit[e] EXCEPT !.phase = "prepared", !.prepared = contract])
  /\ UNCHANGED <<log, contract, adrift>>

Unused == EditOperation \ ({edit[e].op : e \in Editor} \cup {log[i].op : i \in DOMAIN log}
                       \cup {a.op : a \in adrift})

\* A write is sent: with an operation ID of its own, against the revision that was
\* read.  No token, or one that has expired, and it is not sent at all (Client.Do).
Send(e) ==
  /\ \E m \in EditMethods, op \in Unused \cup {NoOperation} :
       /\ m.keyed <=> op # NoOperation
       /\ edit[e].phase = IF m.native THEN "prepared" ELSE "read"
       /\ EditBecomes(e, [edit[e] EXCEPT !.phase = "sent", !.method = m, !.op = op])
  /\ UNCHANGED <<log, contract, adrift>>

\* The outcome is unknown: the very same operation and command once more.
Repeat(e) ==
  /\ edit[e].phase = "unknown" /\ edit[e].method.keyed
  /\ EditBecomes(e, [edit[e] EXCEPT !.phase = "sent"])
  /\ UNCHANGED <<log, contract, adrift>>

-----------------------------------------------------------------------------
(* The platform. *)

Rollout ==
  /\ contract' \in Contract \ {contract}
  /\ UNCHANGED <<log, edit, adrift>>

ReceiptsFor(a) == {i \in DOMAIN log : a.op # NoOperation /\ log[i].op = a.op}
Behind(a) == a.method.guarded /\ a.base # Len(log)
OtherContract(a) == a.method.native /\ a.observed # contract

\* A write is carried out: a new revision, unless it was before or is refused.
MakesRevision(a) == ReceiptsFor(a) = {} /\ ~Behind(a) /\ ~OtherContract(a)
CarryWrite(a) ==
  /\ MakesRevision(a) => Len(log) < MaxRevision
  /\ log' = IF MakesRevision(a) THEN Append(log, [op |-> a.op,
                      asObserved |-> a.method.native => a.prepared = a.observed])
            ELSE log

\* The call that waits for it hears of it.
CarryOutWrite(e) ==
  LET a == edit[e] IN
  /\ a.phase = "sent"
  /\ CarryWrite(a)
  /\ EditBecomes(e, IF MakesRevision(a) THEN [a EXCEPT !.phase = "answered", !.told = Len(log) + 1,
                                           !.ran = @ \cup {Len(log) + 1}]
                ELSE IF ReceiptsFor(a) # {} THEN [a EXCEPT !.phase = "answered",
                                                 !.told = CHOOSE i \in ReceiptsFor(a) : TRUE]
                ELSE [a EXCEPT !.phase = IF Behind(a) THEN "behind" ELSE "other"])
  /\ UNCHANGED <<contract, adrift>>

CarryAdrift(a) ==
  /\ a \in adrift
  /\ CarryWrite(a)
  /\ adrift' = adrift \ {a}
  /\ UNCHANGED <<contract, edit>>

LoseAdrift(a) ==
  /\ a \in adrift
  /\ adrift' = adrift \ {a}
  /\ UNCHANGED <<log, contract, edit>>

-----------------------------------------------------------------------------
(* The answer. *)

\* The checks of the methods on an answer of success.  The resource may have been
\* read for the answer after others had changed it.
Accepted(a, told) ==
  CASE a.method.checked = "revision" -> told = a.base + 1
    [] a.method.checked = "operation" -> told \in ReceiptsFor(a)
    [] OTHER -> TRUE

\* An edit that is over; only one that may be repeated is kept as it was.
EditOver(e, phase, told) ==
  EditBecomes(e,
    IF phase = "unknown" /\ edit[e].method.keyed THEN [edit[e] EXCEPT !.phase = phase, !.told = 0]
    ELSE IF phase = "unknown" THEN NoEdit
    ELSE [edit[e] EXCEPT !.phase = phase, !.told = told, !.base = 0, !.seen = 0,
                         !.observed = 0, !.prepared = 0])

Succeed(e) ==
  /\ edit[e].phase = "answered"
  /\ \E told \in edit[e].told..Len(log) :
       EditOver(e, IF Accepted(edit[e], told) THEN "succeeded" ELSE "unknown", told)
  /\ UNCHANGED <<log, contract, adrift>>

\* 409, with the code contract_revision_mismatch where that is the reason.
Conflict(e) ==
  /\ edit[e].phase \in {"behind", "other"}
  /\ EditOver(e, IF edit[e].phase = "behind" THEN "conflict" ELSE "mismatch", 0)
  /\ UNCHANGED <<log, contract, adrift>>

\* Mutant: a transport error is a reason to send again.
GoneSentAgain(e) == EditBecomes(e, [edit[e] EXCEPT !.phase = "sent", !.told = 0])
\* Client.Do: no failed request is replayed.
Gone(e) == EditOver(e, "unknown", 0)

\* A transport error, a deadline, another status or an answer that does not decode.
Unknown(e) ==
  /\ Waits(e)
  /\ Gone(e)
  /\ \/ adrift' = adrift
     \/ /\ edit[e].phase = "sent"
        /\ adrift' = adrift \cup {edit[e]}
        /\ Cardinality(adrift') <= MaxAdrift
  /\ UNCHANGED <<log, contract>>

EditsNext ==
  \/ \E e \in Editor :
       \/ GetGraph(e) \/ ListOperations(e) \/ PrepareNativeBlock(e) \/ Send(e) \/ Repeat(e)
       \/ CarryOutWrite(e) \/ Succeed(e) \/ Conflict(e) \/ Unknown(e)
  \/ Rollout
  \/ \E a \in adrift : CarryAdrift(a) \/ LoseAdrift(a)

EditsSpec == EditsInit /\ [][EditsNext]_editsVars

-----------------------------------------------------------------------------
(* Properties. *)

\* Types; and no operation is in the log twice.
EditsTypeOK ==
  /\ log \in Seq([op : EditOperation \cup {NoOperation}, asObserved : BOOLEAN])
  /\ Len(log) \in EditRevisions /\ contract \in Contract
  /\ edit \in [Editor -> Edits]
  /\ adrift \subseteq Edits
  /\ \A i, k \in DOMAIN log : log[i].op = log[k].op /\ i # k => log[i].op = NoOperation

\* A success that is checked by its operation or its revision is this call's own: the
\* revision it is told was made by its operation, or by its request (UpdateArticle,
\* ApplyGraphCommand).
SucceededAsTold ==
  \A e \in Editor : edit[e].phase = "succeeded" =>
    /\ edit[e].method.checked = "operation" => log[edit[e].told].op = edit[e].op
    /\ edit[e].method.checked = "revision" => edit[e].told \in edit[e].ran

\* Who is told of a conflict has lost to somebody else: its own write was not carried
\* out and will not be, not even by an earlier attempt (Client.Do, ApplyGraphCommand).
\* A contract mismatch says less: an earlier attempt may come through after a roll-back.
ConflictNotOwn ==
  \A e \in Editor : edit[e].phase = "conflict" =>
    edit[e].ran = {} /\ ReceiptsFor(edit[e]) = {}

\* One call makes at most one revision (Client.Do).
CalledOnceMadeOnce == \A e \in Editor : Cardinality(edit[e].ran) <= 1

\* The settings of a native block that are in the resource were made for the contract
\* their editor had observed, whatever was rolled out and back in between
\* (PrepareNativeBlockAtContract).
PreparedAsObserved ==
  \A i \in DOMAIN log : log[i].asObserved

\* A guarded write goes in only on top of what its editor has read, also when it is
\* repeated or late (ApplyGraphCommand: never blindly rebasing).
GuardedBySight ==
  \A e \in Editor : edit'[e].ran \ edit[e].ran # {} /\ edit[e].method.guarded
    => edit[e].seen = Len(log)

\* Nobody's edit is lost, doubled or misreported: the parts above, in every state and
\* step.
EditsKeptApart ==
  /\ [](/\ EditsTypeOK /\ SucceededAsTold /\ ConflictNotOwn
       /\ CalledOnceMadeOnce /\ PreparedAsObserved)
  /\ [][GuardedBySight]_editsVars
=============================================================================
