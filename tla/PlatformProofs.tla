--------------------------- MODULE PlatformProofs ---------------------------
(***************************************************************************)
(* Proofs about GuardedEdits, Publication, PlatformCalls and CatalogSync,  *)
(* for any editors, jobs, clients, replicas, operation IDs, contracts,     *)
(* releases, manifests and bounds.                                         *)
(***************************************************************************)
EXTENDS GuardedEdits, Publication, PlatformCalls, CatalogSync, FiniteSetTheorems, TLAPS

-----------------------------------------------------------------------------
(* Guarded edits.                                                          *)
(*                                                                         *)
(* The argument: an operation ID belongs to one editor, so what the log    *)
(* holds under it is that editor's; a write is made against the revision   *)
(* its editor has seen; and once a write is told to be behind, every copy  *)
(* of it that is still adrift names a revision that the log has left, and  *)
(* stays behind.                                                           *)

LogEntry == [op : EditOperation \cup {NoOperation}, asObserved : BOOLEAN]

EditsTypes ==
  /\ log \in Seq(LogEntry) /\ Len(log) \in EditRevisions /\ contract \in Contract
  /\ edit \in [Editor -> Edits]
  /\ adrift \subseteq Edits

\* The log l knows no operation of that ID.
NotIn(l, op) == op # NoOperation => \A i \in DOMAIN l : l[i].op # op

OncePerOperation ==
  /\ \A i, k \in DOMAIN log : log[i].op = log[k].op /\ i # k => log[i].op = NoOperation
  /\ \A i \in DOMAIN log : log[i].asObserved

\* A write, under way or not, is as its editor has prepared it, against a revision
\* that there was.
Prepared(l, a) ==
  /\ a.method.keyed <=> a.op # NoOperation
  /\ a.base <= Len(l)
  /\ a.method.native => a.prepared = a.observed

\* What an editor knows of its write: against what it has seen, and which revision,
\* if any, is its own.
EditSound(l, a) ==
  /\ Prepared(l, a)
  /\ a.base = a.seen
  /\ a.phase = "prepared" => a.prepared = a.observed
  /\ \A i \in a.ran : i \in DOMAIN l /\ l[i].op = a.op
  /\ a.ran = {} \/ \E i \in a.ran : a.ran = {i}
  /\ a.phase \in {"idle", "read", "prepared"} => a.ran = {}
  /\ a.op = NoOperation /\ a.phase \notin {"answered", "succeeded"} => a.ran = {}
  /\ a.phase = "answered" /\ a.method.checked = "revision" => a.base + 1 \in a.ran
  /\ a.phase = "succeeded" =>
       /\ a.method.checked = "operation" => a.told \in DOMAIN l /\ l[a.told].op = a.op
       /\ a.method.checked = "revision" => a.told \in a.ran

\* A write that has lost: it was not carried out, and no copy of it that is adrift
\* will be.
Lost(l, copies, a) ==
  /\ a.ran = {}
  /\ NotIn(l, a.op)
  /\ \A c \in copies : c.op = a.op /\ c.op # NoOperation
                         => c.method.guarded /\ c.base < Len(l)

Underway(a) == a.phase \in {"sent", "answered", "behind", "other", "unknown"}
CopyOf(c, a) == c.op = a.op /\ c.op # NoOperation => c.method = a.method /\ c.base = a.base

EditsInv ==
  /\ EditsTypes /\ OncePerOperation
  /\ \A e \in Editor : EditSound(log, edit[e])
  /\ \A a \in adrift : Prepared(log, a)
  /\ \A e, f \in Editor : edit[e].op = edit[f].op /\ edit[e].op # NoOperation => e = f
  /\ \A e \in Editor : Underway(edit[e]) => \A c \in adrift : CopyOf(c, edit[e])
  /\ \A e \in Editor : edit[e].phase \in {"behind", "conflict"} => Lost(log, adrift, edit[e])

-----------------------------------------------------------------------------
(* Methods and logs. *)

LEMMA Checked ==
  ASSUME NEW m \in EditMethods \cup {NoMethod}
  PROVE  m.checked = "revision" => m.guarded /\ ~m.keyed
BY DEF EditMethods, NoMethod, Method, ApplyGraphCommand, AssignStage, AnalyticsApply,
       SaveDashboard, SaveStageSet, SaveStageView, UpdateArticle, UpdateCampaign,
       LaunchCampaign, PrepareCampaign, UpdateScheme, RenameFile

\* What l has become is l, or l and an entry of an operation that it did not hold.
Grows(l, m, op) ==
  \/ m = l
  \/ /\ NotIn(l, op)
     /\ \E r \in LogEntry : r.op = op /\ r.asObserved /\ m = Append(l, r)

LEMMA LogGrown ==
  ASSUME NEW l \in Seq(LogEntry), NEW m, NEW op, Grows(l, m, op)
  PROVE  /\ m \in Seq(LogEntry) /\ Len(m) \in Nat /\ Len(l) \in Nat /\ Len(l) <= Len(m)
         /\ \A i \in DOMAIN l : i \in DOMAIN m /\ m[i] = l[i]
         /\ \A i \in DOMAIN m : i \in DOMAIN l \/ (i = Len(l) + 1 /\ m[i].op = op /\ m[i].asObserved)
BY DEF Grows

\* What holds of a write still does when the log has grown.
LEMMA StillSound ==
  ASSUME NEW l \in Seq(LogEntry), NEW m, NEW op, Grows(l, m, op), NEW a \in Edits
  PROVE  /\ Prepared(l, a) => Prepared(m, a)
         /\ EditSound(l, a) => EditSound(m, a)
<1>1. /\ Len(m) \in Nat /\ Len(l) \in Nat /\ Len(l) <= Len(m)
      /\ \A i \in DOMAIN l : i \in DOMAIN m /\ m[i] = l[i]
  BY LogGrown
<1>2. a.base \in Nat
  BY EditsAssumption DEF Edits, EditRevisions
<1>3. Prepared(l, a) => Prepared(m, a)
  BY <1>1, <1>2 DEF Prepared
<1>. QED  BY <1>1, <1>3 DEF EditSound

\* An entry of another operation than this write's does not make it found.
LEMMA StillLost ==
  ASSUME NEW l \in Seq(LogEntry), NEW m, NEW op, Grows(l, m, op),
         NEW a \in Edits, NEW copies \in SUBSET Edits, Lost(l, copies, a),
         m = l \/ op # a.op \/ op = NoOperation
  PROVE  Lost(m, copies, a)
<1>1. /\ Len(m) \in Nat /\ Len(l) \in Nat /\ Len(l) <= Len(m)
      /\ \A i \in DOMAIN m : i \in DOMAIN l \/ m[i].op = op
      /\ \A i \in DOMAIN l : m[i] = l[i]
  BY LogGrown
<1>2. \A c \in copies : c.base \in Nat
  BY EditsAssumption DEF Edits, EditRevisions
<1>3. NotIn(m, a.op)
  BY <1>1 DEF Lost, NotIn
<1>. QED  BY <1>1, <1>2, <1>3 DEF Lost

LEMMA StillOnce ==
  ASSUME EditsTypes, OncePerOperation, NEW op, Grows(log, log', op)
  PROVE  OncePerOperation'
<1>1. /\ \A i \in DOMAIN log : i \in DOMAIN log' /\ log'[i] = log[i]
      /\ \A i \in DOMAIN log' :
           i \in DOMAIN log \/ (i = Len(log) + 1 /\ log'[i].op = op /\ log'[i].asObserved)
  BY LogGrown DEF EditsTypes
<1>2. CASE log' = log
  BY <1>2 DEF OncePerOperation
<1>3. CASE NotIn(log, op)
  BY <1>1, <1>3 DEF OncePerOperation, NotIn
<1>. QED  BY <1>2, <1>3 DEF Grows

-----------------------------------------------------------------------------
\* One editor's edit becomes rec; its write may have entered the log, or be adrift.
LEMMA EditorMoves ==
  ASSUME EditsInv, NEW e \in Editor, NEW rec \in Edits, EditBecomes(e, rec),
         contract' \in Contract, Len(log') \in EditRevisions,
         \/ log' = log
         \/ Grows(log, log', edit[e].op) /\ adrift' = adrift,
         adrift' = adrift \/ adrift' = adrift \cup {edit[e]},
         EditSound(log', rec),
         rec.op \in {edit[e].op, NoOperation} \cup Unused,
         Underway(rec) => \A c \in adrift' : CopyOf(c, rec),
         rec.phase \in {"behind", "conflict"} => Lost(log', adrift', rec)
  PROVE  EditsInv'
<1>. USE DEF EditsInv
<1>1. /\ edit' \in [Editor -> Edits] /\ edit'[e] = rec
      /\ \A f \in Editor : f # e => edit'[f] = edit[f]
      /\ \A f \in Editor : edit[f] \in Edits
      /\ log \in Seq(LogEntry) /\ adrift' \in SUBSET Edits /\ adrift \in SUBSET Edits
  BY DEF EditBecomes, EditsTypes
<1>2. Grows(log, log', edit[e].op)
  BY DEF Grows
<1>3. EditsTypes' /\ OncePerOperation'
  BY <1>1, <1>2, LogGrown, StillOnce DEF EditsTypes
<1>4. \A f \in Editor : EditSound(log', edit'[f])
  BY <1>1, <1>2, StillSound
<1>5. \A a \in adrift' : Prepared(log', a)
  BY <1>1, <1>2, StillSound DEF EditSound
<1>6. \A f, g \in Editor : edit'[f].op = edit'[g].op /\ edit'[f].op # NoOperation => f = g
  <2>1. \A f \in Editor : f # e /\ edit[f].op # NoOperation => rec.op # edit[f].op
    BY DEF Unused
  <2>. QED  BY <1>1, <2>1
<1>7. \A f \in Editor : Underway(edit'[f]) => \A c \in adrift' : CopyOf(c, edit'[f])
  <2>. SUFFICES ASSUME NEW f \in Editor, f # e, Underway(edit[f]), NEW c \in adrift'
                PROVE  CopyOf(c, edit[f])
    BY <1>1
  <2>1. CASE c \in adrift
    BY <2>1
  <2>2. CASE c = edit[e]
    BY <2>2 DEF CopyOf
  <2>. QED  BY <2>1, <2>2
<1>8. \A f \in Editor : edit'[f].phase \in {"behind", "conflict"}
                          => Lost(log', adrift', edit'[f])
  <2>. SUFFICES ASSUME NEW f \in Editor, f # e, edit[f].phase \in {"behind", "conflict"}
                PROVE  Lost(log', adrift', edit[f])
    BY <1>1
  <2>1. Lost(log, adrift, edit[f])
    OBVIOUS
  <2>2. edit[e].op # edit[f].op \/ edit[e].op = NoOperation
    OBVIOUS
  <2>3. Lost(log', adrift, edit[f])
    BY <1>1, <1>2, <2>1, <2>2, StillLost
  <2>. QED  BY <2>2, <2>3 DEF Lost
<1>. QED  BY <1>3, <1>4, <1>5, <1>6, <1>7, <1>8

-----------------------------------------------------------------------------
\* No edit: its fields.
LEMMA None ==
  /\ NoEdit \in Edits /\ NoEdit.phase = "idle" /\ NoEdit.op = NoOperation
  /\ NoEdit.ran = {} /\ NoEdit.base = 0 /\ NoEdit.seen = 0
  /\ NoEdit.observed = 0 /\ NoEdit.prepared = 0 /\ NoEdit.told = 0
  /\ ~NoEdit.method.keyed /\ ~NoEdit.method.native
BY EditsAssumption DEF NoEdit, NoMethod, Method, Edits, EditRevisions, Contracts

\* An edit that is over stays within the types.
Concluded(a, phase, told) ==
  [a EXCEPT !.phase = phase, !.told = told, !.base = 0, !.seen = 0, !.observed = 0,
            !.prepared = 0]

LEMMA ConcludedFields ==
  ASSUME NEW a \in Edits, NEW told \in EditRevisions,
         NEW phase \in {"succeeded", "conflict", "mismatch"}
  PROVE  /\ Concluded(a, phase, told) \in Edits
         /\ Concluded(a, phase, told).phase = phase
         /\ Concluded(a, phase, told).method = a.method
         /\ Concluded(a, phase, told).op = a.op
         /\ Concluded(a, phase, told).base = 0 /\ Concluded(a, phase, told).seen = 0
         /\ Concluded(a, phase, told).told = told
         /\ Concluded(a, phase, told).ran = a.ran
         /\ Concluded(a, phase, told).observed = 0
         /\ Concluded(a, phase, told).prepared = 0
<1>1. 0 \in EditRevisions /\ 0 \in Contracts
  BY EditsAssumption DEF EditRevisions, Contracts
<1>. QED  BY <1>1 DEF Edits, Concluded

LEMMA EditsBegin == EditsInit => EditsInv
<1>. SUFFICES ASSUME EditsInit PROVE EditsInv
  OBVIOUS
<1>1. NoEdit \in Edits
  BY None
<1>2. /\ log = <<>> /\ adrift = {} /\ contract \in Contract
      /\ edit \in [Editor -> Edits] /\ \A e \in Editor : edit[e] = NoEdit
  BY <1>1 DEF EditsInit
<1>3. EditsTypes /\ OncePerOperation
  BY <1>2, EditsAssumption DEF EditsTypes, OncePerOperation, EditRevisions
<1>4. EditSound(log, NoEdit)
  BY <1>2 DEF EditSound, Prepared, NoEdit, NoMethod, Method
<1>5. NoEdit.op = NoOperation /\ ~Underway(NoEdit) /\ NoEdit.phase = "idle"
  BY DEF NoEdit, Underway
<1>. QED  BY <1>2, <1>3, <1>4, <1>5 DEF EditsInv

\* What an action of an editor starts from.
LEMMA EditsBefore ==
  ASSUME EditsInv, NEW e \in Editor
  PROVE  /\ edit[e] \in Edits /\ EditSound(log, edit[e]) /\ Prepared(log, edit[e])
         /\ Len(log) \in Nat /\ Len(log) \in EditRevisions /\ contract \in Contract
         /\ log \in Seq(LogEntry) /\ DOMAIN log = 1..Len(log)
         /\ edit[e].method \in EditMethods \cup {NoMethod}
         /\ edit[e].base \in Nat /\ edit[e].ran \in SUBSET EditRevisions
BY EditsAssumption DEF EditsInv, EditsTypes, EditSound, Edits, EditRevisions

\* The log and what is adrift stay; the edit becomes rec.
LEMMA EditMoves ==
  ASSUME EditsInv, NEW e \in Editor, NEW rec \in Edits, EditBecomes(e, rec),
         UNCHANGED <<log, contract, adrift>>,
         EditSound(log, rec),
         rec.op \in {edit[e].op, NoOperation} \cup Unused,
         Underway(rec) => \A c \in adrift : CopyOf(c, rec),
         rec.phase \in {"behind", "conflict"} => Lost(log, adrift, rec)
  PROVE  EditsInv'
BY EditorMoves, EditsBefore

LEMMA ReadEditKeeps ==
  ASSUME EditsInv, NEW e \in Editor,
         GetGraph(e) \/ ListOperations(e) \/ PrepareNativeBlock(e)
  PROVE  EditsInv'
<1>1. ASSUME NEW rec \in Edits, EditBecomes(e, rec), UNCHANGED <<log, contract, adrift>>,
             EditSound(log, rec), rec.phase \in {"read", "prepared"},
             rec.op \in {edit[e].op, NoOperation}
      PROVE  EditsInv'
  BY <1>1, EditMoves DEF Underway
<1>2. CASE GetGraph(e)
  <2>. DEFINE rec == [NoEdit EXCEPT !.phase = "read", !.seen = Len(log), !.base = Len(log),
                                    !.observed = contract]
  <2>1. Len(log) \in EditRevisions /\ contract \in Contracts
    BY EditsBefore DEF Contracts
  <2>2. /\ rec \in Edits /\ rec.phase = "read" /\ rec.op = NoOperation /\ rec.ran = {}
        /\ rec.seen = Len(log) /\ rec.base = Len(log)
        /\ ~rec.method.keyed /\ ~rec.method.native
    BY <2>1, None DEF Edits
  <2>3. EditSound(log, rec)
    BY <2>2, EditsBefore DEF EditSound, Prepared
  <2>. QED  BY <1>1, <1>2, <2>2, <2>3 DEF GetGraph
<1>3. CASE ListOperations(e)
  <2>. DEFINE rec == [edit[e] EXCEPT !.base = Len(log), !.seen = Len(log)]
  <2>1. rec \in Edits /\ rec.phase = "read" /\ rec.op = edit[e].op
    BY <1>3, EditsBefore DEF Edits, ListOperations
  <2>2. EditSound(log, rec)
    BY <1>3, EditsBefore DEF EditSound, Prepared, Edits, ListOperations
  <2>. QED  BY <1>1, <1>3, <2>1, <2>2 DEF ListOperations
<1>4. CASE PrepareNativeBlock(e)
  <2>. DEFINE rec == [edit[e] EXCEPT !.phase = "prepared", !.prepared = contract]
  <2>1. rec \in Edits /\ rec.phase = "prepared" /\ rec.op = edit[e].op
    BY EditsBefore DEF Edits, Contracts
  <2>2. EditSound(log, rec)
    BY <1>4, EditsBefore DEF EditSound, Prepared, Edits, PrepareNativeBlock
  <2>. QED  BY <1>1, <1>4, <2>1, <2>2 DEF PrepareNativeBlock
<1>. QED  BY <1>2, <1>3, <1>4

LEMMA SendKeeps ==
  ASSUME EditsInv, NEW e \in Editor, Send(e)
  PROVE  EditsInv'
<1>1. PICK m \in EditMethods, op \in Unused \cup {NoOperation} :
        /\ m.keyed <=> op # NoOperation
        /\ edit[e].phase = IF m.native THEN "prepared" ELSE "read"
        /\ EditBecomes(e, [edit[e] EXCEPT !.phase = "sent", !.method = m, !.op = op])
  BY DEF Send
<1>. DEFINE rec == [edit[e] EXCEPT !.phase = "sent", !.method = m, !.op = op]
<1>2. /\ rec \in Edits /\ rec.phase = "sent" /\ rec.method = m /\ rec.op = op
      /\ rec.base = edit[e].base /\ rec.seen = edit[e].seen /\ rec.ran = edit[e].ran
      /\ rec.observed = edit[e].observed /\ rec.prepared = edit[e].prepared
  BY EditsBefore DEF Edits, Unused
<1>3. EditSound(log, rec)
  <2>1. edit[e].ran = {}
    BY <1>1, EditsBefore DEF EditSound
  <2>2. Prepared(log, rec)
    BY <1>1, <1>2, EditsBefore DEF EditSound, Prepared
  <2>. QED  BY <1>2, <2>1, <2>2, EditsBefore DEF EditSound
<1>4. \A c \in adrift : CopyOf(c, rec)
  BY <1>2 DEF CopyOf, Unused
<1>. QED  BY <1>1, <1>2, <1>3, <1>4, EditMoves DEF Send

LEMMA RepeatKeeps ==
  ASSUME EditsInv, NEW e \in Editor, Repeat(e)
  PROVE  EditsInv'
<1>. DEFINE rec == [edit[e] EXCEPT !.phase = "sent"]
<1>1. edit[e].phase = "unknown" /\ EditBecomes(e, rec) /\ UNCHANGED <<log, contract, adrift>>
  BY DEF Repeat
<1>2. /\ rec \in Edits /\ rec.phase = "sent" /\ rec.method = edit[e].method
      /\ rec.op = edit[e].op /\ rec.base = edit[e].base /\ rec.seen = edit[e].seen
      /\ rec.ran = edit[e].ran /\ rec.observed = edit[e].observed
      /\ rec.prepared = edit[e].prepared
  BY EditsBefore DEF Edits
<1>3. EditSound(log, rec)
  BY <1>1, <1>2, EditsBefore DEF EditSound, Prepared
<1>4. \A c \in adrift : CopyOf(c, rec)
  BY <1>1, <1>2 DEF EditsInv, Underway, CopyOf
<1>. QED  BY <1>1, <1>2, <1>3, <1>4, EditMoves

\* An edit that is over with an answer: succeeded, in conflict or at another contract.
LEMMA OverKeeps ==
  ASSUME EditsInv, NEW e \in Editor, NEW phase \in {"succeeded", "conflict", "mismatch"},
         NEW told \in EditRevisions, EditOver(e, phase, told),
         UNCHANGED <<log, contract, adrift>>,
         phase = "succeeded" =>
           /\ edit[e].method.checked = "operation"
                => told \in DOMAIN log /\ log[told].op = edit[e].op
           /\ edit[e].method.checked = "revision" => told \in edit[e].ran,
         phase # "succeeded" => edit[e].phase \in {"behind", "other"},
         phase = "conflict" => edit[e].phase = "behind"
  PROVE  EditsInv'
<1>. DEFINE rec == Concluded(edit[e], phase, told)
<1>1. EditBecomes(e, rec)
  BY DEF EditOver, Concluded
<1>2. /\ rec \in Edits /\ rec.phase = phase /\ rec.method = edit[e].method
      /\ rec.op = edit[e].op /\ rec.base = 0 /\ rec.seen = 0 /\ rec.told = told
      /\ rec.ran = edit[e].ran /\ rec.observed = 0 /\ rec.prepared = 0
  <2>1. edit[e] \in Edits
    BY EditsBefore
  <2>2. phase \in {"succeeded", "conflict", "mismatch"} /\ told \in EditRevisions
    OBVIOUS
  <2>. QED  BY <2>1, <2>2, ConcludedFields, SMTT(30)
<1>3. EditSound(log, rec)
  BY <1>2, EditsBefore DEF EditSound, Prepared
<1>4. rec.phase = "conflict" => Lost(log, adrift, rec)
  BY <1>2 DEF EditsInv, Lost
<1>. QED  BY <1>1, <1>2, <1>3, <1>4, EditMoves DEF Underway

\* An answer that does not come, or says nothing of the outcome.
LEMMA UnknownKeeps ==
  ASSUME EditsInv, NEW e \in Editor, Unknown(e)
  PROVE  EditsInv'
<1>1. /\ Waits(e) /\ EditOver(e, "unknown", 0)
      /\ adrift' = adrift \/ adrift' = adrift \cup {edit[e]}
      /\ log' = log /\ contract' \in Contract
      /\ Len(log') \in EditRevisions
  BY EditsBefore DEF Unknown, Gone
<1>2. CASE edit[e].method.keyed
  <2>. DEFINE rec == [edit[e] EXCEPT !.phase = "unknown", !.told = 0]
  <2>1. EditBecomes(e, rec)
    BY <1>1, <1>2 DEF EditOver
  <2>2. /\ rec \in Edits /\ rec.phase = "unknown" /\ rec.method = edit[e].method
        /\ rec.op = edit[e].op /\ rec.base = edit[e].base /\ rec.seen = edit[e].seen
        /\ rec.ran = edit[e].ran /\ rec.observed = edit[e].observed
        /\ rec.prepared = edit[e].prepared
    <3>1. 0 \in EditRevisions
      BY EditsAssumption DEF EditRevisions
    <3>. QED  BY <3>1, EditsBefore DEF Edits
  <2>3. EditSound(log, rec)
    BY <1>2, <2>2, EditsBefore DEF EditSound, Prepared
  <2>4. \A c \in adrift' : CopyOf(c, rec)
    BY <1>1, <2>2 DEF EditsInv, Waits, Underway, CopyOf
  <2>. QED  BY <1>1, <2>1, <2>2, <2>3, <2>4, EditorMoves
<1>3. CASE ~edit[e].method.keyed
  <2>1. EditBecomes(e, NoEdit)
    BY <1>1, <1>3 DEF EditOver
  <2>2. EditSound(log, NoEdit)
    BY None, EditsBefore DEF EditSound, Prepared
  <2>. QED  BY <1>1, <2>1, <2>2, None, EditorMoves DEF Underway
<1>. QED  BY <1>2, <1>3

-----------------------------------------------------------------------------
\* A write that is carried out enters the log under its operation ID, or leaves the
\* log as it is.
LEMMA CarriedGrows ==
  ASSUME EditsInv, NEW a \in Edits, Prepared(log, a), CarryWrite(a)
  PROVE  /\ Grows(log, log', a.op) /\ Len(log') \in EditRevisions
         /\ ~MakesRevision(a) => log' = log
         /\ MakesRevision(a) => /\ Len(log') = Len(log) + 1
                                /\ DOMAIN log' = 1..(Len(log) + 1)
                                /\ log'[Len(log) + 1].op = a.op
<1>1. log \in Seq(LogEntry) /\ Len(log) \in EditRevisions /\ Len(log) \in Nat
  BY EditsAssumption DEF EditsInv, EditsTypes, EditRevisions
<1>2. CASE ~MakesRevision(a)
  BY <1>1, <1>2 DEF CarryWrite, Grows
<1>3. CASE MakesRevision(a)
  <2>. DEFINE r == [op |-> a.op, asObserved |-> a.method.native => a.prepared = a.observed]
  <2>1. r.op = a.op /\ r.asObserved
    BY DEF Prepared
  <2>2. r \in LogEntry
    BY DEF LogEntry, Edits
  <2>3. log' = Append(log, r) /\ Len(log) < MaxRevision
    BY <1>3 DEF CarryWrite
  <2>4. NotIn(log, a.op)
    BY <1>3 DEF MakesRevision, ReceiptsFor, NotIn
  <2>5. Grows(log, log', a.op)
    BY <2>1, <2>2, <2>3, <2>4 DEF Grows
  <2>6. Len(log') = Len(log) + 1 /\ DOMAIN log' = 1..(Len(log) + 1)
    BY <1>1, <2>2, <2>3
  <2>7. log'[Len(log) + 1] = r
    BY <1>1, <2>2, <2>3
  <2>8. Len(log') \in EditRevisions
    BY <1>1, <2>3, <2>6, EditsAssumption DEF EditRevisions
  <2>. QED  BY <1>3, <2>1, <2>5, <2>6, <2>7, <2>8
<1>. QED  BY <1>2, <1>3

\* A write whose operation is not in the log has made no revision while it is sent.
LEMMA NotYetRan ==
  ASSUME EditsInv, NEW e \in Editor, edit[e].phase = "sent", ReceiptsFor(edit[e]) = {}
  PROVE  edit[e].ran = {} /\ NotIn(log, edit[e].op)
BY EditsBefore DEF EditSound, ReceiptsFor, NotIn

LEMMA CarryOutKeeps ==
  ASSUME EditsInv, NEW e \in Editor, CarryOutWrite(e)
  PROVE  EditsInv'
<1>. DEFINE a == edit[e]
<1>1. /\ a.phase = "sent" /\ CarryWrite(a) /\ adrift' = adrift /\ contract' \in Contract
      /\ a \in Edits /\ EditSound(log, a) /\ Prepared(log, a) /\ a.base \in Nat
      /\ log \in Seq(LogEntry) /\ Len(log) \in Nat /\ Len(log) \in EditRevisions
      /\ DOMAIN log = 1..Len(log) /\ a.ran \in SUBSET EditRevisions
      /\ a.method \in EditMethods \cup {NoMethod}
  BY EditsBefore DEF CarryOutWrite
<1>2. /\ Grows(log, log', a.op) /\ Len(log') \in EditRevisions
      /\ ~MakesRevision(a) => log' = log
      /\ MakesRevision(a) => /\ Len(log') = Len(log) + 1
                             /\ DOMAIN log' = 1..(Len(log) + 1)
                             /\ log'[Len(log) + 1].op = a.op
  BY <1>1, CarriedGrows
<1>3. EditSound(log', a) /\ Prepared(log', a)
  BY <1>1, <1>2, StillSound
<1>4. \A c \in adrift' : CopyOf(c, a)
  BY <1>1 DEF EditsInv, Underway
<1>5. ASSUME NEW rec \in Edits, EditBecomes(e, rec), EditSound(log', rec),
             rec.op = a.op, rec.base = a.base, rec.method = a.method,
             rec.phase # "conflict",
             rec.phase = "behind" => Lost(log', adrift', rec)
      PROVE  EditsInv'
  <2>1. \A c \in adrift' : CopyOf(c, rec)
    BY <1>4, <1>5 DEF CopyOf
  <2>. QED  BY <1>1, <1>2, <1>5, <2>1, EditorMoves
<1>6. CASE MakesRevision(a)
  <2>. DEFINE next == Len(log) + 1
              rec == [a EXCEPT !.phase = "answered", !.told = next, !.ran = @ \cup {next}]
  <2>1. a.ran = {} /\ (a.method.guarded => a.base = Len(log))
    BY <1>1, <1>6, NotYetRan DEF MakesRevision, Behind
  <2>2. next \in EditRevisions
    BY <1>2, <1>6
  <2>3. EditBecomes(e, rec)
    BY <1>6 DEF CarryOutWrite
  <2>4. /\ rec \in Edits /\ rec.phase = "answered" /\ rec.method = a.method
        /\ rec.op = a.op /\ rec.base = a.base /\ rec.seen = a.seen
        /\ rec.ran = {next} /\ rec.observed = a.observed /\ rec.prepared = a.prepared
    BY <1>1, <2>1, <2>2 DEF Edits
  <2>5. rec.method.checked = "revision" => rec.base + 1 = next
    BY <1>1, <2>1, <2>4, Checked
  <2>6. Prepared(log', rec)
    BY <1>3, <2>4 DEF Prepared
  <2>7. next \in DOMAIN log' /\ log'[next].op = rec.op
    BY <1>1, <1>2, <1>6, <2>4
  <2>8. EditSound(log', rec)
    BY <1>1, <2>4, <2>5, <2>6, <2>7 DEF EditSound
  <2>. HIDE DEF rec
  <2>. QED  BY <1>5, <2>3, <2>4, <2>8
<1>7. CASE ~MakesRevision(a) /\ ReceiptsFor(a) # {}
  <2>. DEFINE held == CHOOSE i \in ReceiptsFor(a) : TRUE
              rec == [a EXCEPT !.phase = "answered", !.told = held]
  <2>1. held \in DOMAIN log /\ a.op # NoOperation
    BY <1>7 DEF ReceiptsFor
  <2>2. held \in EditRevisions
    BY <1>1, <2>1, EditsAssumption DEF EditRevisions
  <2>3. EditBecomes(e, rec)
    BY <1>7 DEF CarryOutWrite
  <2>4. /\ rec \in Edits /\ rec.phase = "answered" /\ rec.method = a.method
        /\ rec.op = a.op /\ rec.base = a.base /\ rec.seen = a.seen
        /\ rec.ran = a.ran /\ rec.observed = a.observed /\ rec.prepared = a.prepared
    BY <1>1, <2>2 DEF Edits
  <2>5. rec.method.checked # "revision"
    BY <1>1, <2>1, <2>4, Checked DEF Prepared
  <2>6. EditSound(log', rec)
    BY <1>1, <1>3, <2>1, <2>4, <2>5 DEF EditSound, Prepared
  <2>. HIDE DEF rec
  <2>. QED  BY <1>5, <2>3, <2>4, <2>6
<1>8. CASE ~MakesRevision(a) /\ ReceiptsFor(a) = {}
  <2>. DEFINE rec == [a EXCEPT !.phase = IF Behind(a) THEN "behind" ELSE "other"]
  <2>1. EditBecomes(e, rec) /\ log' = log
    BY <1>2, <1>8 DEF CarryOutWrite
  <2>2. /\ rec \in Edits /\ rec.phase \in {"behind", "other"} /\ rec.method = a.method
        /\ rec.op = a.op /\ rec.base = a.base /\ rec.seen = a.seen
        /\ rec.ran = a.ran /\ rec.observed = a.observed /\ rec.prepared = a.prepared
        /\ rec.phase = "behind" => Behind(a)
    BY <1>1 DEF Edits
  <2>3. EditSound(log', rec)
    BY <1>1, <1>3, <2>2 DEF EditSound, Prepared
  <2>4. ASSUME Behind(a) PROVE Lost(log', adrift', rec)
    <3>1. a.base < Len(log) /\ a.method.guarded
      BY <1>1, <2>4 DEF Behind, Prepared
    <3>. QED  BY <1>1, <1>4, <1>8, <2>1, <2>2, <3>1, NotYetRan DEF Lost, CopyOf
  <2>. HIDE DEF rec
  <2>. QED  BY <1>5, <2>1, <2>2, <2>3, <2>4
<1>. QED  BY <1>6, <1>7, <1>8

\* A write that nobody waits for: who has lost does not find it carried out.
LEMMA AdriftKeeps ==
  ASSUME EditsInv, NEW a \in adrift, CarryAdrift(a) \/ LoseAdrift(a)
  PROVE  EditsInv'
<1>1. /\ a \in Edits /\ Prepared(log, a) /\ adrift' = adrift \ {a}
      /\ adrift \in SUBSET Edits /\ log \in Seq(LogEntry)
      /\ UNCHANGED <<contract, edit>> /\ Len(log) \in Nat
      /\ \A e \in Editor : edit[e] \in Edits
  BY DEF EditsInv, EditsTypes, CarryAdrift, LoseAdrift
<1>2. /\ Grows(log, log', a.op) /\ Len(log') \in EditRevisions
      /\ ~MakesRevision(a) => log' = log
  BY <1>1, CarriedGrows DEF CarryAdrift, LoseAdrift, Grows, EditsInv, EditsTypes
<1>3. EditsTypes' /\ OncePerOperation'
  BY <1>1, <1>2, LogGrown, StillOnce DEF EditsInv, EditsTypes
<1>4. /\ \A e \in Editor : EditSound(log', edit[e])
      /\ \A b \in adrift : Prepared(log', b)
  BY <1>1, <1>2, StillSound DEF EditsInv
<1>5. ASSUME NEW f \in Editor, edit[f].phase \in {"behind", "conflict"}
      PROVE  Lost(log', adrift', edit[f])
  <2>1. Lost(log, adrift, edit[f])
    BY <1>5 DEF EditsInv
  <2>2. log' = log \/ a.op # edit[f].op \/ a.op = NoOperation
    <3>1. a.base \in Nat
      BY <1>1, EditsAssumption DEF Edits, EditRevisions
    <3>. QED  BY <1>1, <1>2, <2>1, <3>1 DEF Lost, MakesRevision, Behind
  <2>3. Lost(log', adrift, edit[f])
    BY <1>1, <1>2, <2>1, <2>2, StillLost
  <2>. QED  BY <1>1, <2>3 DEF Lost
<1>. QED  BY <1>1, <1>3, <1>4, <1>5 DEF EditsInv

-----------------------------------------------------------------------------
LEMMA SucceedKeeps ==
  ASSUME EditsInv, NEW e \in Editor, Succeed(e)
  PROVE  EditsInv'
<1>1. PICK told \in edit[e].told..Len(log) :
        EditOver(e, IF Accepted(edit[e], told) THEN "succeeded" ELSE "unknown", told)
  BY DEF Succeed
<1>2. /\ edit[e].phase = "answered" /\ UNCHANGED <<log, contract, adrift>>
      /\ told \in EditRevisions /\ Len(log) \in EditRevisions /\ contract \in Contract
  BY <1>1, EditsBefore, EditsAssumption DEF Succeed, Edits, EditRevisions
<1>3. CASE Accepted(edit[e], told)
  <2>1. EditOver(e, "succeeded", told)
    BY <1>1, <1>3
  <2>2. edit[e].method.checked = "operation"
          => told \in DOMAIN log /\ log[told].op = edit[e].op
    BY <1>3 DEF Accepted, ReceiptsFor
  <2>3. edit[e].method.checked = "revision" => told \in edit[e].ran
    BY <1>2, <1>3, EditsBefore DEF Accepted, EditSound
  <2>. QED  BY <1>2, <2>1, <2>2, <2>3, OverKeeps
<1>4. CASE ~Accepted(edit[e], told)
  <2>1. EditOver(e, "unknown", told)
    BY <1>1, <1>4
  <2>2. Waits(e) /\ Gone(e)
    BY <1>2, <2>1 DEF Waits, Gone, EditOver
  <2>. QED  BY <1>2, <2>2, UnknownKeeps DEF Unknown
<1>. QED  BY <1>3, <1>4

LEMMA ConflictKeeps ==
  ASSUME EditsInv, NEW e \in Editor, Conflict(e)
  PROVE  EditsInv'
<1>1. 0 \in EditRevisions
  BY EditsAssumption DEF EditRevisions
<1>2. CASE edit[e].phase = "behind"
  BY <1>1, <1>2, OverKeeps DEF Conflict
<1>3. CASE edit[e].phase = "other"
  BY <1>1, <1>3, OverKeeps DEF Conflict
<1>. QED  BY <1>2, <1>3 DEF Conflict

\* No step but that of a write being carried out finds a revision to be an edit's own.
LEMMA RanStays ==
  ASSUME EditsInv, NEW e \in Editor, NEW rec, EditBecomes(e, rec), rec.ran \subseteq edit[e].ran
  PROVE  GuardedBySight
BY DEF EditsInv, EditsTypes, EditBecomes, GuardedBySight

LEMMA OverSees ==
  ASSUME EditsInv, NEW e \in Editor, NEW phase, NEW told, EditOver(e, phase, told)
  PROVE  GuardedBySight
<1>1. CASE phase = "unknown" /\ edit[e].method.keyed
  <2>1. EditBecomes(e, [edit[e] EXCEPT !.phase = phase, !.told = 0])
    BY <1>1 DEF EditOver
  <2>2. [edit[e] EXCEPT !.phase = phase, !.told = 0].ran = edit[e].ran
    BY EditsBefore DEF Edits
  <2>. QED  BY <2>1, <2>2, RanStays
<1>2. CASE phase = "unknown" /\ ~edit[e].method.keyed
  BY <1>2, None, RanStays DEF EditOver
<1>3. CASE phase # "unknown"
  <2>1. EditBecomes(e, Concluded(edit[e], phase, told))
    BY <1>3 DEF EditOver, Concluded
  <2>2. Concluded(edit[e], phase, told).ran = edit[e].ran
    BY EditsBefore DEF Edits, Concluded
  <2>. QED  BY <2>1, <2>2, RanStays
<1>. QED  BY <1>1, <1>2, <1>3

LEMMA CarryOutSees ==
  ASSUME EditsInv, NEW e \in Editor, CarryOutWrite(e)
  PROVE  GuardedBySight
<1>. DEFINE a == edit[e]
<1>1. CASE MakesRevision(a)
  <2>1. a.method.guarded => a.seen = Len(log)
    BY <1>1, EditsBefore DEF MakesRevision, Behind, EditSound
  <2>2. \A f \in Editor : f # e => edit'[f] = edit[f]
    BY DEF CarryOutWrite, EditBecomes, EditsInv, EditsTypes
  <2>. QED  BY <2>1, <2>2 DEF GuardedBySight
<1>2. CASE ~MakesRevision(a)
  <2>1. PICK rec : EditBecomes(e, rec) /\ rec.ran = a.ran
    <3>1. CASE ReceiptsFor(a) # {}
      <4>1. [a EXCEPT !.phase = "answered", !.told = CHOOSE i \in ReceiptsFor(a) : TRUE].ran
              = a.ran
        BY EditsBefore DEF Edits
      <4>. QED  BY <1>2, <3>1, <4>1 DEF CarryOutWrite
    <3>2. CASE ReceiptsFor(a) = {}
      <4>1. [a EXCEPT !.phase = IF Behind(a) THEN "behind" ELSE "other"].ran = a.ran
        BY EditsBefore DEF Edits
      <4>. QED  BY <1>2, <3>2, <4>1 DEF CarryOutWrite
    <3>. QED  BY <3>1, <3>2
  <2>. QED  BY <2>1, RanStays
<1>. QED  BY <1>1, <1>2

-----------------------------------------------------------------------------
(* Every step. *)

LEMMA EditsStep == EditsInv /\ [EditsNext]_editsVars => EditsInv'
<1>. SUFFICES ASSUME EditsInv, [EditsNext]_editsVars PROVE EditsInv'
  OBVIOUS
<1>1. ASSUME NEW e \in Editor, GetGraph(e) \/ ListOperations(e) \/ PrepareNativeBlock(e)
      PROVE  EditsInv'
  BY <1>1, ReadEditKeeps
<1>2. ASSUME NEW e \in Editor, Send(e) PROVE EditsInv'
  BY <1>2, SendKeeps
<1>3. ASSUME NEW e \in Editor, Repeat(e) PROVE EditsInv'
  BY <1>3, RepeatKeeps
<1>4. ASSUME NEW e \in Editor, CarryOutWrite(e) PROVE EditsInv'
  BY <1>4, CarryOutKeeps
<1>5. ASSUME NEW e \in Editor, Succeed(e) PROVE EditsInv'
  BY <1>5, SucceedKeeps
<1>6. ASSUME NEW e \in Editor, Conflict(e) PROVE EditsInv'
  BY <1>6, ConflictKeeps
<1>7. ASSUME NEW e \in Editor, Unknown(e) PROVE EditsInv'
  BY <1>7, UnknownKeeps
<1>8. CASE Rollout
  BY <1>8 DEF Rollout, EditsInv, EditsTypes, OncePerOperation
<1>9. ASSUME NEW a \in adrift, CarryAdrift(a) \/ LoseAdrift(a) PROVE EditsInv'
  BY <1>9, AdriftKeeps
<1>10. CASE UNCHANGED editsVars
  BY <1>10 DEF editsVars, EditsInv, EditsTypes, OncePerOperation
<1>. QED  BY <1>1, <1>2, <1>3, <1>4, <1>5, <1>6, <1>7, <1>8, <1>9, <1>10 DEF EditsNext

LEMMA EditsSee == EditsInv /\ [EditsNext]_editsVars => [GuardedBySight]_editsVars
<1>. SUFFICES ASSUME EditsInv, EditsNext PROVE GuardedBySight
  OBVIOUS
<1>1. ASSUME NEW e \in Editor, GetGraph(e) PROVE GuardedBySight
  <2>. DEFINE rec == [NoEdit EXCEPT !.phase = "read", !.seen = Len(log), !.base = Len(log),
                                    !.observed = contract]
  <2>1. rec.ran = {}
    BY None DEF Edits
  <2>. QED  BY <1>1, <2>1, RanStays DEF GetGraph
<1>2. ASSUME NEW e \in Editor, ListOperations(e) PROVE GuardedBySight
  <2>1. [edit[e] EXCEPT !.base = Len(log), !.seen = Len(log)].ran = edit[e].ran
    BY EditsBefore DEF Edits
  <2>. QED  BY <1>2, <2>1, RanStays DEF ListOperations
<1>3. ASSUME NEW e \in Editor, PrepareNativeBlock(e) PROVE GuardedBySight
  <2>1. [edit[e] EXCEPT !.phase = "prepared", !.prepared = contract].ran = edit[e].ran
    BY EditsBefore DEF Edits
  <2>. QED  BY <1>3, <2>1, RanStays DEF PrepareNativeBlock
<1>4. ASSUME NEW e \in Editor, Send(e) PROVE GuardedBySight
  <2>1. PICK m \in EditMethods, op \in Unused \cup {NoOperation} :
          EditBecomes(e, [edit[e] EXCEPT !.phase = "sent", !.method = m, !.op = op])
    BY <1>4 DEF Send
  <2>2. [edit[e] EXCEPT !.phase = "sent", !.method = m, !.op = op].ran = edit[e].ran
    BY EditsBefore DEF Edits
  <2>. QED  BY <2>1, <2>2, RanStays
<1>5. ASSUME NEW e \in Editor, Repeat(e) PROVE GuardedBySight
  <2>1. [edit[e] EXCEPT !.phase = "sent"].ran = edit[e].ran
    BY EditsBefore DEF Edits
  <2>. QED  BY <1>5, <2>1, RanStays DEF Repeat
<1>6. ASSUME NEW e \in Editor, CarryOutWrite(e) PROVE GuardedBySight
  BY <1>6, CarryOutSees
<1>7. ASSUME NEW e \in Editor, Succeed(e) \/ Conflict(e) \/ Unknown(e) PROVE GuardedBySight
  BY <1>7, OverSees DEF Succeed, Conflict, Unknown, Gone
<1>8. CASE Rollout \/ \E a \in adrift : CarryAdrift(a) \/ LoseAdrift(a)
  BY <1>8 DEF Rollout, CarryAdrift, LoseAdrift, GuardedBySight
<1>. QED  BY <1>1, <1>2, <1>3, <1>4, <1>5, <1>6, <1>7, <1>8 DEF EditsNext

\* What the run checks follows.
LEMMA EditsFollow ==
  EditsInv => /\ EditsTypeOK /\ SucceededAsTold /\ ConflictNotOwn
              /\ CalledOnceMadeOnce /\ PreparedAsObserved
<1>. SUFFICES ASSUME EditsInv
              PROVE  /\ EditsTypeOK /\ SucceededAsTold /\ ConflictNotOwn
                     /\ CalledOnceMadeOnce /\ PreparedAsObserved
  OBVIOUS
<1>1. EditsTypeOK /\ PreparedAsObserved
  BY DEF EditsInv, EditsTypes, LogEntry, OncePerOperation, EditsTypeOK, PreparedAsObserved
<1>2. SucceededAsTold
  BY DEF EditsInv, EditSound, SucceededAsTold
<1>3. ConflictNotOwn
  BY DEF EditsInv, Lost, NotIn, ReceiptsFor, ConflictNotOwn
<1>4. CalledOnceMadeOnce
  <2>. SUFFICES ASSUME NEW e \in Editor PROVE Cardinality(edit[e].ran) <= 1
    BY DEF CalledOnceMadeOnce
  <2>1. edit[e].ran = {} \/ \E i \in edit[e].ran : edit[e].ran = {i}
    BY EditsBefore DEF EditSound
  <2>2. Cardinality(edit[e].ran) \in {0, 1}
    BY <2>1, FS_EmptySet, FS_Singleton
  <2>. QED  BY <2>2
<1>. QED  BY <1>1, <1>2, <1>3, <1>4

\* Nobody's edit is lost, doubled or misreported, whatever the interleaving of the
\* editors, of the writes that nobody waits for and of roll-outs, and however often an
\* edit is repeated.
THEOREM KeptApart == EditsSpec => EditsKeptApart
<1>. USE DEF EditsSpec
<1>1. EditsSpec => []EditsInv
  BY EditsBegin, EditsStep, PTL
<1>. QED  BY <1>1, EditsSee, EditsFollow, PTL DEF EditsKeptApart

-----------------------------------------------------------------------------
(* Publication.                                                            *)
(*                                                                         *)
(* The argument: an operation is activated once, so a receipt names one    *)
(* activation for good; a request names the revisions of its first read,   *)
(* so the service refuses it once something came in between; and a channel *)
(* that has the revision it had at an activation has seen nothing since.   *)

Activation == [id : OperationID, release : Release]

JobPhases == {"idle", "upload", "channel", "current", "sent", "confirm", "check",
              "checkCurrent", "succeeded", "superseded", "failed"}

\* An operation is activated at most once.
ActivatedOnce == \A i, k \in DOMAIN activations : activations[i].id = activations[k].id => i = k

\* What a job knows: its requests name what it has read, and what it checks is its own
\* receipt.
Knows(a) ==
  /\ a.expected = a.seen /\ a.expectedCurrent = a.seenCurrent
  /\ a.phase \notin {"idle", "succeeded", "superseded", "failed"} =>
       a.id \in OperationID /\ a.release \in Release
  /\ a.phase \in {"check", "checkCurrent"} => ReceiptsOf(a.id) # {}
  /\ a.phase = "checkCurrent" =>
       /\ \A i \in ReceiptsOf(a.id) : activations[i].release = a.release
       /\ a.release.current

PublicationInv ==
  /\ activations \in Seq(Activation) /\ ActivatedOnce
  /\ uploaded \subseteq Package
  /\ job \in [Job -> Jobs] /\ \A j \in Job : Knows(job[j])
  /\ late \subseteq Jobs /\ \A r \in late : Knows(r) /\ r.phase = "sent"

-----------------------------------------------------------------------------
(* Channels and receipts. *)

LEMMA NewestIs ==
  ASSUME NEW S \in SUBSET Nat, NEW i \in S, \A k \in S : k <= i
  PROVE  NewestOf(S) = i
<1>1. \A m \in S : (\A k \in S : k <= m) => m = i
  OBVIOUS
<1>. QED  BY <1>1 DEF NewestOf

LEMMA Lengths ==
  ASSUME PublicationInv
  PROVE  /\ Len(activations) \in Nat /\ DOMAIN activations = 1..Len(activations)
         /\ \A i \in DOMAIN activations : activations[i] \in Activation
BY DEF PublicationInv

\* The one receipt of an operation.
LEMMA OneReceipt ==
  ASSUME PublicationInv, NEW id, ReceiptsOf(id) # {}
  PROVE  /\ NewestOf(ReceiptsOf(id)) \in ReceiptsOf(id)
         /\ ReceiptsOf(id) = {NewestOf(ReceiptsOf(id))}
         /\ NewestOf(ReceiptsOf(id)) \in 1..Len(activations)
         /\ activations[NewestOf(ReceiptsOf(id))].id = id
         /\ activations[NewestOf(ReceiptsOf(id))] \in Activation
<1>1. PICK i \in ReceiptsOf(id) : TRUE
  OBVIOUS
<1>2. \A k \in ReceiptsOf(id) : k = i
  BY <1>1 DEF PublicationInv, ActivatedOnce, ReceiptsOf
<1>3. i \in 1..Len(activations) /\ activations[i].id = id /\ activations[i] \in Activation
  BY <1>1, Lengths DEF ReceiptsOf
<1>4. ReceiptsOf(id) \in SUBSET Nat /\ i <= i
  BY <1>3, Lengths DEF ReceiptsOf
<1>5. NewestOf(ReceiptsOf(id)) = i
  BY <1>1, <1>2, <1>4, NewestIs
<1>. QED  BY <1>1, <1>2, <1>3, <1>5

\* What of 1..n satisfies a condition grows with n, and by how many says whether it does.
LEMMA Counting ==
  ASSUME NEW n \in Nat, NEW S \in SUBSET (1..n)
  PROVE  /\ IsFiniteSet(S) /\ Cardinality(S) \in Nat /\ Cardinality(S) <= n
         /\ \A T \in SUBSET S : Cardinality(T) = Cardinality(S) => T = S
<1>1. IsFiniteSet(1..n) /\ Cardinality(1..n) = n
  BY FS_Interval
<1>2. IsFiniteSet(S) /\ Cardinality(S) <= Cardinality(1..n)
  BY <1>1, FS_Subset
<1>. QED  BY <1>1, <1>2, FS_Subset, FS_CardinalityType

LEMMA ExactCounted ==
  ASSUME PublicationInv, NEW c, NEW i \in 1..Len(activations)
  PROVE  /\ Exact(c, i) \subseteq Exact(c, Len(activations))
         /\ Revision(c) = Cardinality(Exact(c, i)) => Exact(c, Len(activations)) = Exact(c, i)
         /\ Revision(c) \in Nat /\ Revision(c) <= Len(activations)
<1>1. Len(activations) \in Nat
  BY Lengths
<1>2. Exact(c, Len(activations)) \in SUBSET (1..Len(activations))
  BY DEF Exact
<1>3. Exact(c, i) \in SUBSET Exact(c, Len(activations))
  BY <1>1 DEF Exact
<1>. QED  BY <1>1, <1>2, <1>3, Counting DEF Revision

LEMMA PromotedCounted ==
  ASSUME PublicationInv, NEW i \in 1..Len(activations)
  PROVE  /\ Promoted(i) \subseteq Promoted(Len(activations))
         /\ CurrentRevision = Cardinality(Promoted(i)) =>
              Promoted(Len(activations)) = Promoted(i)
<1>1. Len(activations) \in Nat
  BY Lengths
<1>2. Promoted(Len(activations)) \in SUBSET (1..Len(activations))
  BY DEF Promoted
<1>3. Promoted(i) \in SUBSET Promoted(Len(activations))
  BY <1>1 DEF Promoted
<1>. QED  BY <1>1, <1>2, <1>3, Counting DEF CurrentRevision

\* A revision is no more than there are operations.
LEMMA RevisionTypes ==
  ASSUME PublicationInv
  PROVE  /\ \A c : Revision(c) \in ChannelRevisions
         /\ CurrentRevision \in ChannelRevisions
         /\ 0 \in ChannelRevisions
<1>. DEFINE activated == [i \in 1..Len(activations) |-> activations[i].id]
<1>1. IsFiniteSet(OperationID) /\ Cardinality(OperationID) \in Nat
  BY PublicationAssumption, FS_CardinalityType
<1>2. Len(activations) \in Nat
  BY Lengths
<1>3. activated \in Injection(1..Len(activations), OperationID)
  <2>1. \A i \in 1..Len(activations) : activations[i].id \in OperationID
    BY Lengths DEF Activation
  <2>2. \A i, k \in 1..Len(activations) : activated[i] = activated[k] => i = k
    BY Lengths DEF PublicationInv, ActivatedOnce
  <2>. QED  BY <2>1, <2>2 DEF Injection, IsInjective
<1>. HIDE DEF activated
<1>4. Len(activations) <= Cardinality(OperationID)
  <2>1. Cardinality(1..Len(activations)) <= Cardinality(OperationID)
    BY <1>1, <1>3, FS_Injection
  <2>2. \A n \in Nat : Cardinality(1..n) = n
    BY FS_Interval, SMTT(20)
  <2>3. Cardinality(1..Len(activations)) = Len(activations)
    BY <1>2, <2>2
  <2>. QED  BY <1>1, <1>2, <2>1, <2>3
<1>5. ASSUME NEW S \in SUBSET (1..Len(activations)) PROVE Cardinality(S) \in ChannelRevisions
  <2>1. Cardinality(S) \in Nat /\ Cardinality(S) <= Len(activations)
    BY <1>2, <1>5, Counting
  <2>. QED  BY <1>1, <1>2, <1>4, <2>1 DEF ChannelRevisions
<1>6. \A c : Exact(c, Len(activations)) \in SUBSET (1..Len(activations))
  BY DEF Exact
<1>7. Promoted(Len(activations)) \in SUBSET (1..Len(activations))
  BY DEF Promoted
<1>. QED  BY <1>1, <1>5, <1>6, <1>7 DEF Revision, CurrentRevision, ChannelRevisions

-----------------------------------------------------------------------------
(* What a step keeps. *)

LEMMA NoJobTypes ==
  /\ 0 \in ChannelRevisions
  /\ NoJob \in Jobs /\ NoJob.phase = "idle" /\ NoJob.id = NoId /\ NoJob.release = NoRelease
  /\ NoJob.expected = NoJob.seen /\ NoJob.expectedCurrent = NoJob.seenCurrent
<1>1. 0 \in ChannelRevisions
  BY PublicationAssumption, FS_CardinalityType DEF ChannelRevisions
<1>. QED  BY <1>1 DEF NoJob, Jobs

\* A job goes on to another phase.
LEMMA Goes ==
  ASSUME NEW a \in Jobs, NEW p \in JobPhases
  PROVE  LET b == [a EXCEPT !.phase = p]
         IN  /\ b \in Jobs /\ b.phase = p /\ b.id = a.id /\ b.release = a.release
             /\ b.expected = a.expected /\ b.seen = a.seen
             /\ b.expectedCurrent = a.expectedCurrent /\ b.seenCurrent = a.seenCurrent
BY DEF Jobs, JobPhases

\* A job moves, and the history does not.
LEMMA JobMoves ==
  ASSUME PublicationInv, NEW j \in Job, NEW a \in Jobs, job' = [job EXCEPT ![j] = a],
         Knows(a), UNCHANGED activations, uploaded' \subseteq Package,
         late' \subseteq Jobs, \A r \in late' : Knows(r) /\ r.phase = "sent"
  PROVE  PublicationInv'
<1>1. \A r : Knows(r)' <=> Knows(r)
  BY DEF Knows, ReceiptsOf
<1>2. job' \in [Job -> Jobs] /\ \A k \in Job : job'[k] = IF k = j THEN a ELSE job[k]
  BY DEF PublicationInv
<1>3. \A k \in Job : Knows(job'[k])
  BY <1>2 DEF PublicationInv
<1>4. ActivatedOnce' <=> ActivatedOnce
  BY DEF ActivatedOnce
<1>5. (\A k \in Job : Knows(job[k]))'
  BY <1>1, <1>3 DEF Knows, ReceiptsOf
<1>6. (\A r \in late : Knows(r) /\ r.phase = "sent")'
  BY <1>1 DEF Knows, ReceiptsOf
<1>. QED  BY <1>2, <1>4, <1>5, <1>6 DEF PublicationInv

LEMMA Ended ==
  ASSUME NEW p \in {"succeeded", "superseded", "failed"}
  PROVE  LET a == [NoJob EXCEPT !.phase = p] IN a \in Jobs /\ a.phase = p /\ Knows(a)
<1>. DEFINE a == [NoJob EXCEPT !.phase = p]
<1>1. NoJob \in Jobs /\ p \in JobPhases
  BY NoJobTypes DEF JobPhases
<1>2. /\ a \in Jobs /\ a.phase = p
      /\ a.expected = NoJob.expected /\ a.seen = NoJob.seen
      /\ a.expectedCurrent = NoJob.expectedCurrent /\ a.seenCurrent = NoJob.seenCurrent
  BY <1>1, Goes, Zenon
<1>. HIDE DEF a
<1>3. Knows(a)
  BY <1>2, NoJobTypes DEF Knows
<1>. QED  BY <1>2, <1>3 DEF a

LEMMA EndKeeps ==
  ASSUME PublicationInv, NEW j \in Job,
         NEW p \in {"succeeded", "superseded", "failed"}, End(j, p),
         UNCHANGED <<activations, uploaded, late>>
  PROVE  PublicationInv'
<1>. DEFINE a == [NoJob EXCEPT !.phase = p]
<1>1. job' = [job EXCEPT ![j] = a]
  BY DEF End
<1>2. a \in Jobs /\ Knows(a)
  BY Ended, Zenon
<1>. HIDE DEF a
<1>. QED  BY <1>1, <1>2, JobMoves DEF PublicationInv

LEMMA GoKeeps ==
  ASSUME PublicationInv, NEW j \in Job,
         NEW p \in {"channel", "confirm", "check", "checkCurrent"}, Go(j, p),
         job[j].phase \notin {"idle", "succeeded", "superseded", "failed"},
         p \in {"check", "checkCurrent"} => ReceiptsOf(job[j].id) # {},
         p = "checkCurrent" =>
           /\ \A i \in ReceiptsOf(job[j].id) : activations[i].release = job[j].release
           /\ job[j].release.current,
         UNCHANGED activations, uploaded' \subseteq Package,
         late' \subseteq Jobs, \A r \in late' : Knows(r) /\ r.phase = "sent"
  PROVE  PublicationInv'
<1>. DEFINE a == [job[j] EXCEPT !.phase = p]
<1>1. job[j] \in Jobs /\ Knows(job[j]) /\ p \in JobPhases
  BY DEF PublicationInv, JobPhases
<1>2. job' = [job EXCEPT ![j] = a]
  BY DEF Go, PublicationInv
<1>3. /\ a \in Jobs /\ a.phase = p /\ a.id = job[j].id /\ a.release = job[j].release
      /\ a.expected = job[j].expected /\ a.seen = job[j].seen
      /\ a.expectedCurrent = job[j].expectedCurrent /\ a.seenCurrent = job[j].seenCurrent
  BY <1>1, Goes, Zenon
<1>. HIDE DEF a
<1>4. Knows(a)
  BY <1>1, <1>3 DEF Knows
<1>. QED  BY <1>2, <1>3, <1>4, JobMoves

\* A job begins.
LEMMA StartKeeps ==
  ASSUME PublicationInv, NEW j \in Job, StartJob(j)
  PROVE  PublicationInv'
<1>1. PICK call \in JobCalls, upload \in BOOLEAN :
        job' = [job EXCEPT ![j] =
          [NoJob EXCEPT !.id = call.id, !.release = call.release,
                        !.phase = IF ReceiptsOf(call.id) # {} THEN "check"
                                  ELSE IF upload THEN "upload" ELSE "channel"]]
  BY DEF StartJob
<1>. DEFINE p == IF ReceiptsOf(call.id) # {} THEN "check" ELSE IF upload THEN "upload" ELSE "channel"
            a == [NoJob EXCEPT !.id = call.id, !.release = call.release, !.phase = p]
<1>2. call.id \in OperationID /\ call.release \in Release
  BY PublicationAssumption
<1>3. p \in {"check", "upload", "channel"} /\ (p = "check" => ReceiptsOf(call.id) # {})
  OBVIOUS
<1>4. job' = [job EXCEPT ![j] = a]
  BY <1>1
<1>. HIDE DEF p
<1>5. /\ a \in Jobs /\ a.phase = p /\ a.id = call.id /\ a.release = call.release
      /\ a.expected = a.seen /\ a.expectedCurrent = a.seenCurrent
  BY <1>2, <1>3, NoJobTypes DEF NoJob, Jobs
<1>. HIDE DEF a
<1>6. Knows(a)
  BY <1>2, <1>3, <1>5 DEF Knows
<1>. QED  BY <1>4, <1>5, <1>6, JobMoves DEF StartJob, PublicationInv

\* A revision that is read is what the request will name.
LEMMA ReadRevisionKeeps ==
  ASSUME PublicationInv, NEW j \in Job, ReadChannel(j) \/ ReadCurrent(j)
  PROVE  PublicationInv'
<1>1. job[j] \in Jobs /\ Knows(job[j]) /\ job \in [Job -> Jobs]
  BY DEF PublicationInv
<1>2. CASE ReadChannel(j)
  <2>. DEFINE n == Revision(job[j].release.contract)
              p == IF job[j].release.current THEN "current" ELSE "sent"
              a == [job[j] EXCEPT !.phase = p, !.expected = n, !.seen = n]
  <2>1. job' = [job EXCEPT ![j] = a]
    BY <1>1, <1>2 DEF ReadChannel
  <2>2. n \in ChannelRevisions /\ p \in {"current", "sent"}
    BY RevisionTypes
  <2>. HIDE DEF n, p
  <2>3. /\ a \in Jobs /\ a.phase = p /\ a.id = job[j].id /\ a.release = job[j].release
        /\ a.expected = a.seen /\ a.expectedCurrent = job[j].expectedCurrent
        /\ a.seenCurrent = job[j].seenCurrent
    BY <1>1, <2>2 DEF Jobs
  <2>. HIDE DEF a
  <2>4. Knows(a)
    BY <1>1, <1>2, <2>2, <2>3 DEF Knows, ReadChannel
  <2>. QED  BY <1>2, <2>1, <2>3, <2>4, JobMoves DEF ReadChannel, PublicationInv
<1>3. CASE ReadCurrent(j)
  <2>. DEFINE n == CurrentRevision
              a == [job[j] EXCEPT !.phase = "sent", !.expectedCurrent = n, !.seenCurrent = n]
  <2>1. job' = [job EXCEPT ![j] = a]
    BY <1>1, <1>3 DEF ReadCurrent
  <2>2. n \in ChannelRevisions
    BY RevisionTypes
  <2>. HIDE DEF n
  <2>3. /\ a \in Jobs /\ a.phase = "sent" /\ a.id = job[j].id /\ a.release = job[j].release
        /\ a.expected = job[j].expected /\ a.seen = job[j].seen
        /\ a.expectedCurrent = a.seenCurrent
    BY <1>1, <2>2 DEF Jobs
  <2>. HIDE DEF a
  <2>4. Knows(a)
    BY <1>1, <1>3, <2>3 DEF Knows, ReadCurrent
  <2>. QED  BY <1>3, <2>1, <2>3, <2>4, JobMoves DEF ReadCurrent, PublicationInv
<1>. QED  BY <1>2, <1>3

LEMMA UploadKeeps ==
  ASSUME PublicationInv, NEW j \in Job, UploadPackage(j)
  PROVE  PublicationInv'
<1>1. /\ job[j].phase = "upload" /\ uploaded' = uploaded \cup {job[j].release.package}
      /\ UNCHANGED <<activations, late>>
      /\ Go(j, "channel") \/ End(j, "failed")
  BY DEF UploadPackage
<1>2. uploaded' \subseteq Package
  BY <1>1 DEF PublicationInv, Knows, Package
<1>3. CASE Go(j, "channel")
  BY <1>1, <1>2, <1>3, GoKeeps DEF PublicationInv
<1>4. CASE End(j, "failed")
  <2>. DEFINE a == [NoJob EXCEPT !.phase = "failed"]
  <2>1. job' = [job EXCEPT ![j] = a] /\ a \in Jobs /\ Knows(a)
    BY <1>4, Ended DEF End
  <2>. HIDE DEF a
  <2>. QED  BY <1>1, <1>2, <2>1, JobMoves DEF PublicationInv
<1>. QED  BY <1>1, <1>3, <1>4

LEMMA StopKeeps ==
  ASSUME PublicationInv, NEW j \in Job, StopWaiting(j)
  PROVE  PublicationInv'
<1>1. /\ job[j].phase = "sent" /\ late' = late \cup {job[j]} /\ Go(j, "confirm")
      /\ UNCHANGED <<activations, uploaded>>
  BY DEF StopWaiting
<1>2. late' \subseteq Jobs /\ \A r \in late' : Knows(r) /\ r.phase = "sent"
  BY <1>1 DEF PublicationInv
<1>. QED  BY <1>1, <1>2, GoKeeps DEF PublicationInv

\* The looks for a receipt and at the channels.
LEMMA LookKeeps ==
  ASSUME PublicationInv, NEW j \in Job,
         Confirm(j) \/ CheckChannel(j) \/ CheckCurrent(j) \/ RequestFails(j)
  PROVE  PublicationInv'
<1>1. /\ UNCHANGED <<activations, uploaded, late>>
      /\ uploaded \subseteq Package /\ late \subseteq Jobs
      /\ \A r \in late : Knows(r) /\ r.phase = "sent"
      /\ Knows(job[j])
  BY DEF Confirm, CheckChannel, CheckCurrent, RequestFails, PublicationInv
<1>2. CASE Confirm(j)
  BY <1>1, <1>2, GoKeeps, EndKeeps DEF Confirm
<1>3. CASE CheckChannel(j)
  <2>. DEFINE i == NewestOf(ReceiptsOf(job[j].id))
  <2>1. /\ job[j].phase = "check" /\ ReceiptsOf(job[j].id) = {i}
        /\ \/ End(j, "failed") \/ End(j, "superseded") \/ End(j, "succeeded")
           \/ /\ activations[i].release = job[j].release /\ job[j].release.current
              /\ Go(j, "checkCurrent")
    BY <1>1, <1>3, OneReceipt DEF CheckChannel, Knows
  <2>. HIDE DEF i
  <2>2. CASE End(j, "failed") \/ End(j, "superseded") \/ End(j, "succeeded")
    BY <1>1, <2>2, EndKeeps
  <2>3. CASE /\ activations[i].release = job[j].release /\ job[j].release.current
             /\ Go(j, "checkCurrent")
    BY <1>1, <2>1, <2>3, GoKeeps
  <2>. QED  BY <2>1, <2>2, <2>3
<1>4. CASE CheckCurrent(j)
  BY <1>1, <1>4, EndKeeps DEF CheckCurrent
<1>5. CASE RequestFails(j)
  BY <1>1, <1>5, EndKeeps DEF RequestFails
<1>. QED  BY <1>2, <1>3, <1>4, <1>5

-----------------------------------------------------------------------------
(* The service carries out an activation. *)

\* A request is carried out: the history is as it was, or has one more of an operation
\* that had none.
LEMMA HistoryGrown ==
  ASSUME PublicationInv, NEW r \in Jobs, Knows(r), r.phase = "sent", Activated(r)
  PROVE  /\ activations' \in Seq(Activation) /\ ActivatedOnce'
         /\ \A a : Knows(a) => Knows(a)'
         /\ \A id : ReceiptsOf(id) \subseteq ReceiptsOf(id)'
<1>1. CASE Acceptable(r)
  <2>. DEFINE new == [id |-> r.id, release |-> r.release]
  <2>1. new \in Activation /\ new.id = r.id
    BY DEF Knows, Activation
  <2>2. activations \in Seq(Activation) /\ activations' = Append(activations, new)
    BY <1>1 DEF Activated, PublicationInv
  <2>. HIDE DEF new
  <2>3. /\ activations' \in Seq(Activation) /\ Len(activations) \in Nat
        /\ DOMAIN activations = 1..Len(activations)
        /\ DOMAIN activations' = 1..(Len(activations) + 1)
        /\ \A i \in DOMAIN activations : activations'[i] = activations[i]
        /\ activations'[Len(activations) + 1] = new
    BY <2>1, <2>2
  <2>4. \A i \in DOMAIN activations' : i \in DOMAIN activations \/ i = Len(activations) + 1
    BY <2>3
  <2>5. \A i \in DOMAIN activations : i \in DOMAIN activations' /\ activations[i].id # r.id
    BY <1>1, <2>3 DEF Acceptable, ReceiptsOf
  <2>6. ActivatedOnce'
    BY <2>1, <2>3, <2>4, <2>5 DEF PublicationInv, ActivatedOnce
  <2>7. ASSUME NEW id PROVE /\ ReceiptsOf(id) \subseteq ReceiptsOf(id)'
                            /\ ReceiptsOf(id) # {} => ReceiptsOf(id)' = ReceiptsOf(id)
    BY <2>1, <2>3, <2>4, <2>5 DEF ReceiptsOf
  <2>8. ASSUME NEW a, Knows(a) PROVE Knows(a)'
    <3>1. \A i \in ReceiptsOf(a.id) : activations'[i] = activations[i]
      BY <2>3 DEF ReceiptsOf
    <3>. QED  BY <2>7, <2>8, <3>1 DEF Knows
  <2>. QED  BY <2>3, <2>6, <2>7, <2>8
<1>2. CASE ~Acceptable(r)
  <2>1. activations' = activations
    BY <1>2 DEF Activated
  <2>. QED  BY <2>1 DEF PublicationInv, ActivatedOnce, Knows, ReceiptsOf
<1>. QED  BY <1>1, <1>2

\* The job hears of it, or does not.
LEMMA AnsweredKeeps ==
  ASSUME PublicationInv, NEW j \in Job, ActivationAnswered(j)
  PROVE  PublicationInv'
<1>1. /\ job[j].phase = "sent" /\ Activated(job[j]) /\ UNCHANGED <<uploaded, late>>
      /\ \/ /\ \E i \in DOMAIN activations' :
                 activations'[i] = [id |-> job[j].id, release |-> job[j].release]
            /\ Go(j, "check")
         \/ Go(j, "confirm")
  BY DEF ActivationAnswered
<1>2. job[j] \in Jobs /\ Knows(job[j]) /\ job \in [Job -> Jobs]
  BY DEF PublicationInv
<1>3. /\ activations' \in Seq(Activation) /\ ActivatedOnce'
      /\ \A a : Knows(a) => Knows(a)'
  BY <1>1, <1>2, HistoryGrown
<1>4. PICK p \in {"check", "confirm"} :
        /\ Go(j, p)
        /\ p = "check" => \E i \in DOMAIN activations' : activations'[i].id = job[j].id
  <2>1. CASE /\ \E i \in DOMAIN activations' :
                  activations'[i] = [id |-> job[j].id, release |-> job[j].release]
             /\ Go(j, "check")
    <3>1. PICK i \in DOMAIN activations' :
            activations'[i] = [id |-> job[j].id, release |-> job[j].release]
      BY <2>1
    <3>2. activations'[i].id = job[j].id
      BY <3>1
    <3>. QED  BY <2>1, <3>1, <3>2
  <2>2. CASE Go(j, "confirm")
    BY <2>2
  <2>. QED  BY <1>1, <2>1, <2>2
<1>. DEFINE a == [job[j] EXCEPT !.phase = p]
<1>5. job' = [job EXCEPT ![j] = a]
  BY <1>2, <1>4 DEF Go
<1>6. /\ a \in Jobs /\ a.phase = p /\ a.id = job[j].id /\ a.release = job[j].release
      /\ a.expected = job[j].expected /\ a.seen = job[j].seen
      /\ a.expectedCurrent = job[j].expectedCurrent /\ a.seenCurrent = job[j].seenCurrent
  <2>1. p \in JobPhases
    BY DEF JobPhases
  <2>. QED  BY <1>2, <2>1, Goes, Zenon
<1>7. a.id \in OperationID /\ a.release \in Release
  BY <1>1, <1>2, <1>6 DEF Knows
<1>8. a.expected = a.seen /\ a.expectedCurrent = a.seenCurrent
  BY <1>2, <1>6 DEF Knows
<1>. HIDE DEF a
<1>9. /\ job' \in [Job -> Jobs]
      /\ \A k \in Job : job'[k] = IF k = j THEN a ELSE job[k]
  BY <1>2, <1>5, <1>6
<1>10. ASSUME NEW k \in Job PROVE Knows(job[k])'
  <2>1. CASE k = j
    BY <1>4, <1>6, <1>7, <1>8, <1>9, <2>1 DEF Knows, ReceiptsOf
  <2>2. CASE k # j
    <3>. DEFINE b == job[k]
    <3>1. job'[k] = b /\ Knows(b)
      BY <1>9, <2>2 DEF PublicationInv
    <3>. HIDE DEF b
    <3>. QED  BY <1>3, <3>1 DEF Knows, ReceiptsOf
  <2>. QED  BY <2>1, <2>2
<1>11. (\A k \in Job : Knows(job[k]))'
  BY <1>10 DEF Knows, ReceiptsOf
<1>12. (\A r \in late : Knows(r) /\ r.phase = "sent")'
  BY <1>1, <1>3 DEF PublicationInv, Knows, ReceiptsOf
<1>. QED  BY <1>1, <1>3, <1>9, <1>11, <1>12 DEF PublicationInv

\* A request that nobody waits for is carried out, or lost.
LEMMA CarryKeeps ==
  ASSUME PublicationInv, NEW r \in late, CarryLate(r) \/ LoseRequest(r)
  PROVE  PublicationInv'
<1>1. r \in Jobs /\ Knows(r) /\ r.phase = "sent"
  BY DEF PublicationInv
<1>2. /\ activations' \in Seq(Activation) /\ ActivatedOnce'
      /\ \A a : Knows(a) => Knows(a)'
  <2>1. CASE CarryLate(r)
    BY <1>1, <2>1, HistoryGrown DEF CarryLate
  <2>2. CASE LoseRequest(r)
    BY <2>2 DEF LoseRequest, PublicationInv, ActivatedOnce, Knows, ReceiptsOf
  <2>. QED  BY <2>1, <2>2
<1>3. late' = late \ {r} /\ UNCHANGED <<uploaded, job>>
  BY DEF CarryLate, LoseRequest
<1>4. (\A j \in Job : Knows(job[j]))'
  BY <1>2, <1>3 DEF PublicationInv, Knows, ReceiptsOf
<1>5. (\A q \in late : Knows(q) /\ q.phase = "sent")'
  BY <1>2, <1>3 DEF PublicationInv, Knows, ReceiptsOf
<1>. QED  BY <1>2, <1>3, <1>4, <1>5 DEF PublicationInv

LEMMA PublicationBegins == PublicationInit => PublicationInv
<1>. SUFFICES ASSUME PublicationInit PROVE PublicationInv
  OBVIOUS
<1>1. NoJob \in Jobs /\ Knows(NoJob)
  BY NoJobTypes DEF Knows
<1>2. job \in [Job -> Jobs] /\ \A j \in Job : Knows(job[j])
  BY <1>1 DEF PublicationInit
<1>3. activations \in Seq(Activation) /\ ActivatedOnce
  BY DEF PublicationInit, ActivatedOnce
<1>. QED  BY <1>2, <1>3 DEF PublicationInit, PublicationInv

LEMMA PublicationStep ==
  PublicationInv /\ [PublicationNext]_publicationVars => PublicationInv'
<1>. SUFFICES ASSUME PublicationInv, [PublicationNext]_publicationVars PROVE PublicationInv'
  OBVIOUS
<1>1. ASSUME NEW j \in Job, StartJob(j) PROVE PublicationInv'
  BY <1>1, StartKeeps
<1>2. ASSUME NEW j \in Job, UploadPackage(j) PROVE PublicationInv'
  BY <1>2, UploadKeeps
<1>3. ASSUME NEW j \in Job, ReadChannel(j) \/ ReadCurrent(j) PROVE PublicationInv'
  BY <1>3, ReadRevisionKeeps
<1>4. ASSUME NEW j \in Job, StopWaiting(j) PROVE PublicationInv'
  BY <1>4, StopKeeps
<1>5. ASSUME NEW j \in Job, Confirm(j) \/ CheckChannel(j) \/ CheckCurrent(j) \/ RequestFails(j)
      PROVE  PublicationInv'
  BY <1>5, LookKeeps
<1>6. ASSUME NEW j \in Job, ActivationAnswered(j) PROVE PublicationInv'
  BY <1>6, AnsweredKeeps
<1>7. ASSUME NEW r \in late, CarryLate(r) \/ LoseRequest(r) PROVE PublicationInv'
  BY <1>7, CarryKeeps
<1>8. CASE UNCHANGED publicationVars
  BY <1>8 DEF publicationVars, PublicationInv, ActivatedOnce, Knows, ReceiptsOf
<1>. QED  BY <1>1, <1>2, <1>3, <1>4, <1>5, <1>6, <1>7, <1>8 DEF PublicationNext

-----------------------------------------------------------------------------
(* What a job that ends may say. *)

\* A job goes on, and no job ends.
LEMMA NoJobEnds ==
  ASSUME PublicationInv, NEW j \in Job, NEW a, job' = [job EXCEPT ![j] = a],
         a.phase \notin {"succeeded", "superseded"}
  PROVE  SucceededInForce /\ SupersededForCause
<1>1. \A k \in Job : job'[k] = IF k = j THEN a ELSE job[k]
  BY DEF PublicationInv
<1>. QED  BY <1>1 DEF SucceededInForce, SupersededForCause

\* A job ends, and what it says is about what it found.
LEMMA JobEnds ==
  ASSUME PublicationInv, NEW j \in Job, NEW p \in {"succeeded", "superseded", "failed"},
         End(j, p),
         p = "succeeded" =>
           \E i \in ReceiptsOf(job[j].id) :
             LET r == activations[i].release IN
             /\ r = job[j].release
             /\ r.current => Promotes(i)
             /\ \A k \in Exact(r.contract, Len(activations)) :
                  k > i => r.current /\ ~activations[k].release.current,
         p = "superseded" =>
           \E i \in ReceiptsOf(job[j].id) : \E k \in i + 1..Len(activations) :
              \/ activations[k].release.contract = job[j].release.contract
              \/ activations[k].release.current /\ job[j].release.current
  PROVE  SucceededInForce /\ SupersededForCause
<1>. DEFINE a == [NoJob EXCEPT !.phase = p]
<1>1. job' = [job EXCEPT ![j] = a] /\ a.phase = p
  BY Ended DEF End
<1>. HIDE DEF a
<1>2. \A k \in Job : job'[k] = IF k = j THEN a ELSE job[k]
  BY <1>1 DEF PublicationInv
<1>3. SucceededInForce
  BY <1>1, <1>2 DEF SucceededInForce
<1>4. SupersededForCause
  BY <1>1, <1>2 DEF SupersededForCause
<1>. QED  BY <1>3, <1>4

\* The receipt a job checks.
LEMMA Checks ==
  ASSUME PublicationInv, NEW j \in Job, job[j].phase \in {"check", "checkCurrent"},
         NEW i, i = NewestOf(ReceiptsOf(job[j].id))
  PROVE  /\ i \in 1..Len(activations) /\ i \in Nat /\ Len(activations) \in Nat
         /\ ReceiptsOf(job[j].id) = {i} /\ activations[i].release \in Release
         /\ job[j].phase = "checkCurrent" =>
              activations[i].release = job[j].release /\ job[j].release.current
<1>1. ReceiptsOf(job[j].id) # {} /\ Knows(job[j])
  BY DEF PublicationInv, Knows
<1>2. /\ i \in 1..Len(activations) /\ ReceiptsOf(job[j].id) = {i}
      /\ activations[i] \in Activation
  BY <1>1, OneReceipt
<1>3. Len(activations) \in Nat
  BY Lengths
<1>4. job[j].phase = "checkCurrent" =>
        activations[i].release = job[j].release /\ job[j].release.current
  BY <1>1, <1>2 DEF Knows
<1>5. activations[i].release \in Release
  BY <1>2 DEF Activation
<1>6. i \in Nat
  BY <1>2, <1>3
<1>. QED  BY <1>2, <1>3, <1>4, <1>5, <1>6, Zenon

LEMMA CheckedChannel ==
  ASSUME PublicationInv, NEW j \in Job, CheckChannel(j)
  PROVE  SucceededInForce /\ SupersededForCause
<1>. DEFINE i == NewestOf(ReceiptsOf(job[j].id))
            r == job[j].release
<1>1. /\ i \in 1..Len(activations) /\ i \in Nat /\ Len(activations) \in Nat
      /\ ReceiptsOf(job[j].id) = {i}
  BY Checks DEF CheckChannel
<1>2. \/ End(j, "failed")
      \/ /\ activations[i].release = r
         /\ Revision(r.contract) # Cardinality(Exact(r.contract, i)) /\ End(j, "superseded")
      \/ /\ activations[i].release = r /\ ~r.current
         /\ Revision(r.contract) = Cardinality(Exact(r.contract, i)) /\ End(j, "succeeded")
      \/ Go(j, "checkCurrent")
  BY DEF CheckChannel
<1>. HIDE DEF i
<1>3. CASE End(j, "failed")
  BY <1>3, JobEnds
<1>4. CASE Go(j, "checkCurrent")
  <2>. DEFINE a == [job[j] EXCEPT !.phase = "checkCurrent"]
  <2>1. job[j] \in Jobs /\ "checkCurrent" \in JobPhases
    BY DEF PublicationInv, JobPhases
  <2>2. job' = [job EXCEPT ![j] = a] /\ a.phase = "checkCurrent"
    BY <1>4, <2>1, Goes DEF Go, PublicationInv
  <2>. HIDE DEF a
  <2>. QED  BY <2>2, NoJobEnds
<1>5. CASE /\ activations[i].release = r
           /\ Revision(r.contract) # Cardinality(Exact(r.contract, i)) /\ End(j, "superseded")
  <2>1. Exact(r.contract, Len(activations)) # Exact(r.contract, i)
    BY <1>5 DEF Revision
  <2>2. PICK k \in Exact(r.contract, Len(activations)) : k \notin Exact(r.contract, i)
    BY <1>1, <2>1, ExactCounted
  <2>3. k \in i + 1..Len(activations) /\ activations[k].release.contract = r.contract
    BY <1>1, <2>2 DEF Exact
  <2>. QED  BY <1>1, <1>5, <2>3, JobEnds
<1>6. CASE /\ activations[i].release = r /\ ~r.current
           /\ Revision(r.contract) = Cardinality(Exact(r.contract, i)) /\ End(j, "succeeded")
  <2>1. Exact(r.contract, Len(activations)) = Exact(r.contract, i)
    BY <1>1, <1>6, ExactCounted
  <2>2. \A k \in Exact(r.contract, Len(activations)) : ~(k > i)
    BY <1>1, <2>1 DEF Exact
  <2>. QED  BY <1>1, <1>6, <2>2, JobEnds
<1>. QED  BY <1>2, <1>3, <1>4, <1>5, <1>6

LEMMA CheckedCurrent ==
  ASSUME PublicationInv, NEW j \in Job, CheckCurrent(j)
  PROVE  SucceededInForce /\ SupersededForCause
<1>. DEFINE i == NewestOf(ReceiptsOf(job[j].id))
            r == job[j].release
<1>1. /\ i \in 1..Len(activations) /\ i \in Nat /\ Len(activations) \in Nat
      /\ ReceiptsOf(job[j].id) = {i} /\ activations[i].release = r /\ r.current
  BY Checks DEF CheckCurrent
<1>2. \/ CurrentRevision = Cardinality(Promoted(i)) /\ End(j, "succeeded")
      \/ CurrentRevision # Cardinality(Promoted(i)) /\ End(j, "superseded")
  BY DEF CheckCurrent
<1>. HIDE DEF i
<1>3. CASE CurrentRevision = Cardinality(Promoted(i)) /\ End(j, "succeeded")
  <2>1. Promoted(Len(activations)) = Promoted(i)
    BY <1>1, <1>3, PromotedCounted
  <2>2. i \in Promoted(i) /\ Promoted(i) \in SUBSET Nat /\ \A k \in Promoted(i) : k <= i
    BY <1>1 DEF Promoted
  <2>3. Promotes(i)
    BY <2>1, <2>2, NewestIs DEF Promotes
  <2>4. \A k \in Exact(r.contract, Len(activations)) : k > i => ~activations[k].release.current
    <3>1. \A k \in Exact(r.contract, Len(activations)) :
            k \in 1..Len(activations) /\ (activations[k].release.current => k \in Promoted(i))
      BY <2>1 DEF Exact, Promoted
    <3>. QED  BY <1>1, <2>2, <3>1
  <2>. QED  BY <1>1, <1>3, <2>3, <2>4, JobEnds
<1>4. CASE CurrentRevision # Cardinality(Promoted(i)) /\ End(j, "superseded")
  <2>1. Promoted(Len(activations)) # Promoted(i)
    BY <1>4 DEF CurrentRevision
  <2>2. PICK k \in Promoted(Len(activations)) : k \notin Promoted(i)
    BY <1>1, <2>1, PromotedCounted
  <2>3. k \in i + 1..Len(activations) /\ activations[k].release.current
    BY <1>1, <2>2 DEF Promoted
  <2>. QED  BY <1>1, <1>4, <2>3, JobEnds
<1>. QED  BY <1>2, <1>3, <1>4

\* What a request replaces is what its job had read.
LEMMA CarriedSeen ==
  ASSUME PublicationInv, NEW r, r \in {job[j] : j \in Job} \cup late, Activated(r)
  PROVE  NothingReplacedUnseen
<1>1. Knows(r)
  BY DEF PublicationInv
<1>2. CASE Acceptable(r)
  <2>1. /\ activations' = Append(activations, [id |-> r.id, release |-> r.release])
        /\ r.expected = Revision(r.release.contract)
        /\ r.release.current => r.expectedCurrent = CurrentRevision
    BY <1>2 DEF Activated, Acceptable
  <2>2. r.expected = r.seen /\ r.expectedCurrent = r.seenCurrent
    BY <1>1 DEF Knows
  <2>. QED  BY <2>1, <2>2 DEF NothingReplacedUnseen
<1>3. CASE ~Acceptable(r)
  BY <1>3 DEF Activated, NothingReplacedUnseen
<1>. QED  BY <1>2, <1>3

LEMMA PublicationClaims ==
  PublicationInv /\ [PublicationNext]_publicationVars =>
    [SucceededInForce /\ SupersededForCause /\ NothingReplacedUnseen]_publicationVars
<1>. SUFFICES ASSUME PublicationInv, PublicationNext
              PROVE  SucceededInForce /\ SupersededForCause /\ NothingReplacedUnseen
  OBVIOUS
<1>. USE DEF PublicationInv
<1>1. ASSUME NEW j \in Job, StartJob(j)
      PROVE  SucceededInForce /\ SupersededForCause /\ NothingReplacedUnseen
  <2>1. PICK call \in JobCalls, upload \in BOOLEAN :
          job' = [job EXCEPT ![j] =
            [NoJob EXCEPT !.id = call.id, !.release = call.release,
                          !.phase = IF ReceiptsOf(call.id) # {} THEN "check"
                                    ELSE IF upload THEN "upload" ELSE "channel"]]
    BY <1>1 DEF StartJob
  <2>. DEFINE p == IF ReceiptsOf(call.id) # {} THEN "check"
                   ELSE IF upload THEN "upload" ELSE "channel"
              a == [NoJob EXCEPT !.id = call.id, !.release = call.release, !.phase = p]
  <2>2. p \notin {"succeeded", "superseded"}
    OBVIOUS
  <2>3. job' = [job EXCEPT ![j] = a]
    BY <2>1
  <2>. HIDE DEF p
  <2>4. a.phase = p
    BY DEF NoJob
  <2>. HIDE DEF a
  <2>5. activations' = activations
    BY <1>1 DEF StartJob
  <2>. QED  BY <2>2, <2>3, <2>4, <2>5, NoJobEnds DEF NothingReplacedUnseen
<1>2. ASSUME NEW j \in Job, NEW p \in {"channel", "confirm", "check"}, Go(j, p)
      PROVE  SucceededInForce /\ SupersededForCause
  <2>. DEFINE a == [job[j] EXCEPT !.phase = p]
  <2>1. job[j] \in Jobs /\ p \in JobPhases
    BY DEF JobPhases
  <2>2. job' = [job EXCEPT ![j] = a] /\ a.phase = p
    BY <1>2, <2>1, Goes DEF Go
  <2>. HIDE DEF a
  <2>. QED  BY <2>2, NoJobEnds
<1>3. ASSUME NEW j \in Job, UploadPackage(j) \/ StopWaiting(j) \/ Confirm(j) \/ RequestFails(j)
      PROVE  SucceededInForce /\ SupersededForCause /\ NothingReplacedUnseen
  <2>1. activations' = activations /\ (End(j, "failed") \/ \E p \in {"channel", "confirm", "check"} : Go(j, p))
    BY <1>3 DEF UploadPackage, StopWaiting, Confirm, RequestFails
  <2>2. SucceededInForce /\ SupersededForCause
    BY <1>2, <2>1, JobEnds
  <2>. QED  BY <2>1, <2>2 DEF NothingReplacedUnseen
<1>4. ASSUME NEW j \in Job, ReadChannel(j) \/ ReadCurrent(j)
      PROVE  SucceededInForce /\ SupersededForCause /\ NothingReplacedUnseen
  <2>1. activations' = activations /\ job[j] \in Jobs
    BY <1>4 DEF ReadChannel, ReadCurrent
  <2>2. job'[j].phase \in {"current", "sent"} /\ \A k \in Job : k # j => job'[k] = job[k]
    <3>1. CASE ReadChannel(j)
      <4>. DEFINE n == Revision(job[j].release.contract)
                  p == IF job[j].release.current THEN "current" ELSE "sent"
                  a == [job[j] EXCEPT !.phase = p, !.expected = n, !.seen = n]
      <4>1. job' = [job EXCEPT ![j] = a] /\ p \in {"current", "sent"}
        BY <3>1 DEF ReadChannel
      <4>. HIDE DEF p, n
      <4>2. a.phase = p
        BY <2>1 DEF Jobs
      <4>. HIDE DEF a
      <4>. QED  BY <4>1, <4>2
    <3>2. CASE ReadCurrent(j)
      <4>. DEFINE n == CurrentRevision
                  a == [job[j] EXCEPT !.phase = "sent", !.expectedCurrent = n, !.seenCurrent = n]
      <4>1. job' = [job EXCEPT ![j] = a]
        BY <3>2 DEF ReadCurrent
      <4>. HIDE DEF n
      <4>2. a.phase = "sent"
        BY <2>1 DEF Jobs
      <4>. HIDE DEF a
      <4>. QED  BY <4>1, <4>2
    <3>. QED  BY <1>4, <3>1, <3>2
  <2>. QED  BY <2>1, <2>2 DEF SucceededInForce, SupersededForCause, NothingReplacedUnseen
<1>5. ASSUME NEW j \in Job, CheckChannel(j) \/ CheckCurrent(j)
      PROVE  SucceededInForce /\ SupersededForCause /\ NothingReplacedUnseen
  <2>1. activations' = activations
    BY <1>5 DEF CheckChannel, CheckCurrent
  <2>. QED  BY <1>5, <2>1, CheckedChannel, CheckedCurrent DEF NothingReplacedUnseen
<1>6. ASSUME NEW j \in Job, ActivationAnswered(j)
      PROVE  SucceededInForce /\ SupersededForCause /\ NothingReplacedUnseen
  <2>1. Activated(job[j]) /\ \E p \in {"confirm", "check"} : Go(j, p)
    BY <1>6 DEF ActivationAnswered
  <2>. QED  BY <1>2, <2>1, CarriedSeen
<1>7. ASSUME NEW r \in late, CarryLate(r) \/ LoseRequest(r)
      PROVE  SucceededInForce /\ SupersededForCause /\ NothingReplacedUnseen
  <2>1. job' = job /\ (Activated(r) \/ activations' = activations)
    BY <1>7 DEF CarryLate, LoseRequest
  <2>2. NothingReplacedUnseen
    BY <2>1, CarriedSeen DEF NothingReplacedUnseen
  <2>. QED  BY <2>1, <2>2 DEF SucceededInForce, SupersededForCause
<1>. QED  BY <1>1, <1>3, <1>4, <1>5, <1>6, <1>7 DEF PublicationNext

LEMMA PublicationTypes == PublicationInv => PublicationTypeOK
<1>. SUFFICES ASSUME PublicationInv PROVE PublicationTypeOK
  OBVIOUS
<1>1. ASSUME NEW j \in Job, job[j].phase = "checkCurrent"
      PROVE  activations[NewestOf(ReceiptsOf(job[j].id))].release = job[j].release
  BY <1>1, Checks
<1>. QED  BY <1>1 DEF PublicationInv, Knows, PublicationTypeOK, Activation

\* Whatever the jobs, operations and releases: a job claims success only with its release
\* in force and supersession only for cause, and no activation replaces what its job had
\* not read (documentation/publish.go, publishPackage).
THEOREM PublishesAsClaimed == PublicationSpec => PublishedAsClaimed
<1>1. PublicationSpec => []PublicationInv
  BY PublicationBegins, PublicationStep, PTL DEF PublicationSpec
<1>2. PublicationSpec => []PublicationTypeOK
  BY <1>1, PublicationTypes, PTL
<1>3. PublicationSpec =>
        [][SucceededInForce /\ SupersededForCause /\ NothingReplacedUnseen]_publicationVars
  BY <1>1, PublicationClaims, PTL DEF PublicationSpec
<1>. QED  BY <1>2, <1>3 DEF PublishedAsClaimed

-----------------------------------------------------------------------------
(* Calls.                                                                  *)
(*                                                                         *)
(* The argument: a request that must not be repeated is never marked for   *)
(* it, so it is sent once; a method writes in its last request only; and   *)
(* while nobody else writes, what is astray is an attempt of the same      *)
(* request, and carrying that out again changes nothing that was told.     *)

\* What is left of a method: it writes, if at all, in its last request.
Rest(m) ==
  /\ m \in Seq(Requests) /\ m # <<>>
  /\ \A i \in DOMAIN m : i < Len(m) => ~Writes(m[i])
  /\ Len(m) > 1 => \A i \in DOMAIN m : m[i].kind = "file"

\* What a call on record keeps of its attempts and its answers.
CallSound(a) ==
  /\ a.phase \in {"sent", "ran", "succeeded"} => Rest(a.method)
  /\ a.phase \in {"sent", "ran"} => a.attempts >= 1
  /\ a.phase \in {"sent", "ran"} /\ Unrepeatable(Head(a.method)) =>
       a.ran <= 1 /\ (a.phase = "sent" => a.ran = 0)
  /\ a.phase = "ran" /\ Head(a.method).effect = "ensure" /\ a.answer \in {"done", "conflict"}
       => a.existed
  /\ a.phase = "ran" /\ a.answer = "conflict" => Head(a.method).effect \in {"create", "ensure"}
  /\ a.phase = "succeeded" /\ Head(a.method).effect = "ensure" => a.existed
  /\ a.phase = "conflict" /\ a.alone => a.id # 0
  /\ a.phase = "idle" => ~a.alone
  /\ a.alone /\ a.phase \in {"sent", "ran", "succeeded"} => Touches(a.method)

\* While nobody else writes: the attempts astray are its own, and what it was told
\* stands.
Alone(a) == a.alone /\ a.phase \in {"sent", "ran", "succeeded"}
Quiet(c) == \A d \in Client \ {c} : InCall(d) => ~Touches(request[d].method)
OwnAstray(c, r) == \A x \in astray : x.client = c /\ x.req = r /\ r.retried
Stands(c, a) ==
  LET r == Head(a.method) IN
  /\ a.phase = "sent" /\ a.id = 0 /\ r.effect = "create" /\ r.kind = "definition" => live = 0
  /\ a.phase = "ran" /\ a.answer = "conflict" /\ r.effect = "create" => a.id # 0
  /\ a.phase = "succeeded" \/ (a.phase = "ran" /\ Ensured(r, a.answer)) =>
       /\ r.effect \in {"write", "upsert"} => holds = c
       /\ r.effect = "delete" => live = 0
       /\ r.effect \in {"create", "ensure"} => live # 0

CallsInv ==
  /\ CallsTypeOK
  /\ \A x \in astray : Writes(x.req)
  /\ \A c \in Client : CallSound(request[c])
  /\ \A c \in Client : Alone(request[c]) =>
       Quiet(c) /\ OwnAstray(c, Now(c)) /\ Stands(c, request[c])

-----------------------------------------------------------------------------
(* Methods and requests. *)

Effects == {"read", "target", "bytes", "create", "createKeyed", "ensure", "upsert",
            "write", "delete"}

\* One request, that is not attempted again if it must not be repeated.
Single(m) == \E e \in Effects, k \in ObjectKinds, t \in BOOLEAN :
  /\ m = <<Req(e, k, t)>>
  /\ e \in {"create", "ensure", "upsert"} => ~t

LEMMA ClientMethods ==
  /\ \A m \in CRMMethods \cup LinksMethods \cup ProjectMethods \cup UserMethods
               \cup TransferMethods : Single(m)
  /\ \A m \in FilesMethods : Single(m) \/ m = UploadToNamespace \/ m = Replace
<1>. USE DEF Single, Effects, ObjectKinds, Once, Retried
<1>1. \A m \in CRMMethods : Single(m)
  BY DEF CRMMethods, UpsertSubject, ReadSubject, UpdateSubjectTags, SetSubjectVariables,
     CountSubjects, SearchSubjects, GetSubjects, ReadDefinitions, CreateVariableDefinition,
     CreateIntegrationVariableDefinition, UpdateVariableDefinition, DeleteVariableDefinition,
     EnsureVariableDefinition, EnsureIntegrationVariableDefinition, ListTags, CreateTag,
     UpdateTag, DeleteTag, ReadValueSources
<1>2. \A m \in LinksMethods : Single(m)
  BY DEF LinksMethods, CreateLink, GetLink, ReadLinks, DisableLink, ReplayDelivery,
     RegisterCallback
<1>3. \A m \in ProjectMethods : Single(m)
  BY DEF ProjectMethods, CreateCampaign, StartPrepared, CancelCampaign, ReadCampaigns,
     ReadCatalog, ListNamedTriggers, ResolveKeyed, ReactivateKeyed, Resolve,
     ActivateDetailed, ListTriggers, GetAnalyticsDefinition, CreateAnalyticsDefinition
<1>4. \A m \in UserMethods : Single(m)
  BY DEF UserMethods, ReadProjects, ReadSchemes, CreateScheme, DeleteScheme,
     ListInstallations, ListMCP, MCPConnection, ListLibrary, LibraryUsage,
     DeleteLibraryFile, Capabilities, UserDefinitions, UserCreateDefinition,
     AnalyticsValues, QueryAnalytics, ReadDashboards, ReadStageSets, ReadStageGraph,
     ListFolders, CreateFolder, ListProvisionable, ProvisionIntegrationFolder,
     ListArticles, CreateArticle, changePublication
<1>5. \A m \in TransferMethods : Single(m)
  BY DEF TransferMethods, ProvisionResource, Capture, ImportAsset, GetAsset, GetImport,
     RetireSnapshot
<1>6. \A m \in FilesMethods : Single(m) \/ m = UploadToNamespace \/ m = Replace
  BY DEF FilesMethods, ReadFiles, FilesUsage, Rename, DeleteFiles
<1>. QED  BY <1>1, <1>2, <1>3, <1>4, <1>5, <1>6

LEMMA Methods ==
  ASSUME NEW m \in CallMethods
  PROVE  Single(m) \/ m = UploadToNamespace \/ m = Replace
BY ClientMethods DEF CallMethods

\* The requests of a method, one by one.
Listed(m) ==
  /\ m \in Seq([effect : Effects, kind : ObjectKinds, retried : BOOLEAN]) /\ m # <<>>
  /\ \A i \in DOMAIN m : i < Len(m) => ~Writes(m[i])
  /\ Len(m) > 1 => \A i \in DOMAIN m : m[i].kind = "file"
  /\ \A i \in DOMAIN m : Unrepeatable(m[i]) => ~m[i].retried

LEMMA MethodsListed ==
  ASSUME NEW m \in CallMethods
  PROVE  Listed(m)
<1>1. CASE Single(m)
  BY <1>1 DEF Single, Listed, Req, Unrepeatable
<1>. DEFINE last(e) == Req(e, "file", FALSE)
            up(e) == <<createUploadURL, putObject, last(e)>>
<1>2. ASSUME NEW e \in {"create", "write"}, m = up(e) PROVE Listed(m)
  <2>1. /\ createUploadURL \in [effect : Effects, kind : ObjectKinds, retried : BOOLEAN]
        /\ putObject \in [effect : Effects, kind : ObjectKinds, retried : BOOLEAN]
        /\ last(e) \in [effect : Effects, kind : ObjectKinds, retried : BOOLEAN]
        /\ createUploadURL.kind = "file" /\ putObject.kind = "file" /\ last(e).kind = "file"
        /\ ~Writes(createUploadURL) /\ ~Writes(putObject)
        /\ ~Unrepeatable(createUploadURL) /\ ~Unrepeatable(putObject) /\ ~last(e).retried
    BY DEF createUploadURL, putObject, Req, Effects, ObjectKinds, Writes, Unrepeatable
  <2>. HIDE DEF last
  <2>. QED  BY <1>2, <2>1 DEF Listed
<1>3. CASE m = UploadToNamespace
  <2>1. UploadToNamespace = up("create")
    BY DEF UploadToNamespace
  <2>. QED  BY <1>2, <1>3, <2>1
<1>4. CASE m = Replace
  <2>1. Replace = up("write")
    BY DEF Replace
  <2>. QED  BY <1>2, <1>4, <2>1
<1>. QED  BY <1>1, <1>3, <1>4, Methods

LEMMA RequestTypes ==
  ASSUME NEW r \in Requests
  PROVE  /\ r.effect \in Effects /\ r.kind \in ObjectKinds /\ r.retried \in BOOLEAN
         /\ Unrepeatable(r) => ~r.retried
<1>1. PICK m \in CallMethods : \E i \in DOMAIN m : r = m[i]
  BY DEF Requests
<1>2. PICK i \in DOMAIN m : r = m[i]
  BY <1>1
<1>3. Listed(m)
  BY MethodsListed
<1>4. m[i] \in [effect : Effects, kind : ObjectKinds, retried : BOOLEAN]
  <2>. DEFINE S == [effect : Effects, kind : ObjectKinds, retried : BOOLEAN]
  <2>1. m \in Seq(S)
    BY <1>3 DEF Listed
  <2>. HIDE DEF S
  <2>2. m[i] \in S
    BY <1>2, <2>1
  <2>. QED  BY <2>2 DEF S
<1>5. Unrepeatable(m[i]) => ~m[i].retried
  BY <1>3 DEF Listed
<1>. QED  BY <1>2, <1>4, <1>5

LEMMA MethodsRest ==
  ASSUME NEW m \in CallMethods
  PROVE  Rest(m) /\ m[1] = Head(m)
<1>1. \A i \in DOMAIN m : m[i] \in Requests
  BY DEF Requests
<1>2. Listed(m)
  BY MethodsListed
<1>3. m \in Seq(Requests)
  BY <1>1, <1>2 DEF Listed
<1>. QED  BY <1>2, <1>3 DEF Listed, Rest

LEMMA Rests ==
  ASSUME NEW m, Rest(m)
  PROVE  /\ Head(m) \in Requests
         /\ Writes(Head(m)) => Touches(m)
         /\ Tail(m) # <<>> =>
              /\ Rest(Tail(m)) /\ ~Writes(Head(m)) /\ Head(Tail(m)).kind = "file"
              /\ Touches(Tail(m)) <=> Touches(m)
<1>1. m \in Seq(Requests) /\ m # <<>> /\ Head(m) = m[1] /\ 1 \in DOMAIN m /\ m[1] \in Requests
  BY DEF Rest
<1>2. ASSUME Tail(m) # <<>>
      PROVE  /\ Rest(Tail(m)) /\ ~Writes(Head(m)) /\ Head(Tail(m)).kind = "file"
             /\ Touches(Tail(m)) <=> Touches(m)
  <2>. DEFINE t == Tail(m)
  <2>1. /\ t \in Seq(Requests) /\ t # <<>> /\ Len(t) = Len(m) - 1 /\ Len(m) > 1
        /\ \A i \in DOMAIN t : i + 1 \in DOMAIN m /\ t[i] = m[i + 1]
        /\ \A i \in DOMAIN m : i # 1 => i - 1 \in DOMAIN t /\ m[i] = t[i - 1]
        /\ DOMAIN t = 1..Len(t) /\ DOMAIN m = 1..Len(m) /\ Len(t) \in Nat
        /\ Head(t) = t[1] /\ 1 \in DOMAIN t
    BY <1>1, <1>2
  <2>. HIDE DEF t
  <2>2. ~Writes(m[1])
    BY <1>1, <2>1 DEF Rest
  <2>3. Rest(t)
    <3>1. ASSUME NEW i \in DOMAIN t, i < Len(t) PROVE ~Writes(t[i])
      <4>1. i + 1 \in DOMAIN m /\ i + 1 < Len(m) /\ t[i] = m[i + 1]
        BY <1>1, <2>1, <3>1
      <4>. QED  BY <4>1 DEF Rest
    <3>2. ASSUME NEW i \in DOMAIN t PROVE t[i].kind = "file"
      <4>1. i + 1 \in DOMAIN m /\ t[i] = m[i + 1]
        BY <2>1
      <4>. QED  BY <2>1, <4>1 DEF Rest
    <3>. QED  BY <2>1, <3>1, <3>2 DEF Rest
  <2>4. Touches(t) <=> Touches(m)
    BY <2>1, <2>2 DEF Touches
  <2>5. Head(t).kind = "file"
    <3>1. t[1] = m[1 + 1] /\ 1 + 1 \in DOMAIN m
      BY <2>1
    <3>. QED  BY <2>1, <3>1 DEF Rest
  <2>. QED  BY <1>1, <2>2, <2>3, <2>4, <2>5 DEF t
<1>. QED  BY <1>1, <1>2 DEF Touches

-----------------------------------------------------------------------------
(* Records of calls. *)

LEMMA NoCallTypes ==
  /\ NoCall \in Calling /\ NoCall.phase = "idle" /\ NoCall.alone = FALSE
  /\ NoCall.ran = 0 /\ NoCall.existed = FALSE
<1>1. 0 \in 0..RetryCount + 1 /\ 0 \in Ids /\ <<>> \in Seq(Requests)
  BY CallsAssumption DEF Ids
<1>. QED  BY <1>1 DEF NoCall, Calling

LEMMA IdleSound ==
  CallSound(NoCall) /\ ~Alone(NoCall)
BY NoCallTypes DEF CallSound, Alone

-----------------------------------------------------------------------------
(* Steps of a client by itself. *)

LEMMA CallsBefore ==
  ASSUME CallsInv
  PROVE  /\ request \in [Client -> Calling] /\ live \in 0..ids /\ ids \in Ids
         /\ receipt \in 0..ids /\ ids \in Nat /\ live \in Ids
         /\ \A c \in Client : request[c] \in Calling /\ CallSound(request[c])
         /\ \A c \in Client : InCall(c) => Rest(request[c].method) /\ Now(c) \in Requests
<1>1. /\ request \in [Client -> Calling] /\ live \in 0..ids /\ ids \in Ids
      /\ receipt \in 0..ids
      /\ \A c \in Client : request[c] \in Calling /\ CallSound(request[c])
  BY DEF CallsInv, CallsTypeOK
<1>2. \A c \in Client : InCall(c) => Rest(request[c].method)
  BY <1>1 DEF InCall, CallSound
<1>3. \A c \in Client : InCall(c) => Now(c) \in Requests
  BY <1>2, Rests DEF Now
<1>. QED  BY <1>1, <1>2, <1>3, CallsAssumption DEF Ids

\* A client's call moves; the platform does nothing.  What goes astray is the attempt
\* of that call.
LEMMA ClientMoves ==
  ASSUME CallsInv, NEW c \in Client, NEW a \in Calling, CallSound(a),
         request' = [request EXCEPT ![c] = a],
         UNCHANGED <<live, holds, ids, receipt>>,
         astray' \subseteq [client : Client, req : Requests, id : Ids],
         \A x \in astray' \ astray : /\ x.client = c /\ Writes(x.req)
                                     /\ InCall(c) /\ x.req = Now(c),
         a.phase \in {"sent", "ran"} /\ Touches(a.method) =>
           InCall(c) /\ Touches(request[c].method),
         Alone(a) =>
           /\ InCall(c) /\ Alone(request[c]) /\ Stands(c, a)
           /\ \A x \in astray' : x.client = c /\ x.req = Head(a.method) /\ x.req.retried
  PROVE  CallsInv'
<1>1. /\ request' \in [Client -> Calling]
      /\ \A d \in Client : request'[d] = IF d = c THEN a ELSE request[d]
  BY CallsBefore
<1>2. CallsTypeOK'
  BY <1>1 DEF CallsInv, CallsTypeOK
<1>3. \A x \in astray' : Writes(x.req)
  BY DEF CallsInv
<1>4. \A d \in Client : CallSound(request'[d])
  BY <1>1, CallsBefore
<1>5. ASSUME NEW d \in Client, Alone(request'[d])
      PROVE  Quiet(d)' /\ OwnAstray(d, Now(d))' /\ Stands(d, request[d])'
  <2>1. CASE d = c
    <3>1. Alone(a) /\ request'[d] = a /\ Quiet(c)
      BY <1>1, <1>5, <2>1 DEF CallsInv
    <3>2. Quiet(c)'
      BY <1>1, <3>1 DEF Quiet, InCall
    <3>3. OwnAstray(d, Now(d))'
      BY <2>1, <3>1 DEF OwnAstray, Now
    <3>4. Stands(d, request[d])'
      BY <2>1, <3>1 DEF Stands
    <3>. QED  BY <2>1, <3>2, <3>3, <3>4
  <2>2. CASE d # c
    <3>1. /\ request'[d] = request[d] /\ Quiet(d) /\ OwnAstray(d, Now(d))
          /\ Stands(d, request[d])
      BY <1>1, <1>5, <2>2 DEF CallsInv
    <3>2. InCall(c) => ~Touches(request[c].method)
      BY <2>2, <3>1 DEF Quiet
    <3>3. Quiet(d)'
      BY <1>1, <3>1, <3>2 DEF Quiet, InCall
    <3>4. \A x \in astray' : x \in astray
      <4>1. SUFFICES ASSUME NEW x \in astray' \ astray PROVE FALSE
        OBVIOUS
      <4>2. Writes(Now(c)) /\ InCall(c) /\ Rest(request[c].method)
        BY <4>1, CallsBefore
      <4>3. Touches(request[c].method)
        BY <4>2, Rests DEF Now
      <4>. QED  BY <3>2, <4>2, <4>3
    <3>5. OwnAstray(d, Now(d))'
      BY <3>1, <3>4 DEF OwnAstray, Now
    <3>6. Stands(d, request[d])'
      BY <3>1 DEF Stands
    <3>. QED  BY <3>3, <3>5, <3>6
  <2>. QED  BY <2>1, <2>2
<1>6. (\A d \in Client : CallSound(request[d]))'
  BY <1>4
<1>7. (\A d \in Client : Alone(request[d]) =>
         Quiet(d) /\ OwnAstray(d, Now(d)) /\ Stands(d, request[d]))'
  BY <1>5
<1>. QED  BY <1>2, <1>3, <1>6, <1>7 DEF CallsInv

\* A call that returns with cause.
LEMMA Returned ==
  ASSUME CallsInv, NEW c \in Client, InCall(c),
         NEW phase \in {"succeeded", "conflict", "failed"},
         phase = "succeeded" /\ Now(c).effect = "ensure" => request[c].existed,
         phase = "conflict" /\ request[c].alone => request[c].id # 0
  PROVE  LET a == CallOver(c, phase)
         IN  /\ a \in Calling /\ CallSound(a) /\ a.phase \notin {"sent", "ran"}
             /\ Alone(a) => /\ phase = "succeeded" /\ Alone(request[c])
                            /\ a.phase = "succeeded" /\ a.method = request[c].method
<1>. DEFINE a == CallOver(c, phase)
<1>1. /\ request[c] \in Calling /\ CallSound(request[c]) /\ Rest(request[c].method)
      /\ request[c].phase \in {"sent", "ran"}
      /\ request[c].alone \in BOOLEAN /\ request[c].existed \in BOOLEAN
      /\ request[c].id \in Ids /\ request[c].method \in Seq(Requests)
  BY CallsBefore DEF InCall, Calling
<1>2. CASE a = NoCall
  BY <1>2, NoCallTypes, IdleSound
<1>3. CASE a # NoCall
  <2>. DEFINE method == IF phase = "succeeded" THEN request[c].method ELSE <<>>
              existed == phase = "succeeded" /\ request[c].existed
              id == IF phase = "conflict" THEN request[c].id ELSE 0
  <2>1. /\ phase \in {"succeeded", "conflict"}
        /\ a = [NoCall EXCEPT !.phase = phase, !.alone = request[c].alone, !.method = method,
                              !.existed = existed, !.id = id]
    BY <1>3 DEF CallOver
  <2>2. method \in Seq(Requests) /\ existed \in BOOLEAN /\ id \in Ids
    BY <1>1, CallsAssumption DEF Ids
  <2>3. /\ phase = "succeeded" => method = request[c].method /\ existed = request[c].existed
        /\ phase = "conflict" => id = request[c].id
    BY <1>1
  <2>. HIDE DEF a, method, existed, id
  <2>4. /\ a \in Calling /\ a.phase = phase /\ a.alone = request[c].alone
        /\ a.method = method /\ a.existed = existed /\ a.id = id
    <3>1. 0 \in 0..RetryCount + 1
      BY CallsAssumption
    <3>. QED  BY <1>1, <2>1, <2>2, <3>1 DEF NoCall, Calling
  <2>5. CallSound(a)
    BY <1>1, <2>1, <2>3, <2>4 DEF CallSound, Now
  <2>6. Alone(a) => phase = "succeeded" /\ Alone(request[c]) /\ a.method = request[c].method
    BY <1>1, <2>1, <2>3, <2>4 DEF Alone
  <2>. QED  BY <2>1, <2>4, <2>5, <2>6 DEF a
<1>. QED  BY <1>2, <1>3

\* The call of c returns; an attempt may have gone astray.
LEMMA ReturnKeeps ==
  ASSUME CallsInv, NEW c \in Client, InCall(c),
         NEW phase \in {"succeeded", "conflict", "failed"},
         request' = [request EXCEPT ![c] = CallOver(c, phase)],
         UNCHANGED <<live, holds, ids, receipt>>,
         astray' \subseteq [client : Client, req : Requests, id : Ids],
         \A x \in astray' \ astray : x.client = c /\ Writes(x.req) /\ x.req = Now(c),
         phase # "failed" => astray' = astray,
         phase = "succeeded" => request[c].phase = "ran" /\ Ensured(Now(c), request[c].answer),
         phase = "conflict" => /\ request[c].phase = "ran" /\ request[c].answer = "conflict"
                               /\ Now(c).effect # "ensure"
  PROVE  CallsInv'
<1>1. request[c] \in Calling /\ CallSound(request[c]) /\ Rest(request[c].method)
  BY CallsBefore
<1>2. phase = "succeeded" /\ Now(c).effect = "ensure" => request[c].existed
  BY <1>1 DEF CallSound, Now, Ensured
<1>3. phase = "conflict" /\ request[c].alone => request[c].id # 0
  <2>. SUFFICES ASSUME phase = "conflict", request[c].alone PROVE request[c].id # 0
    OBVIOUS
  <2>1. Stands(c, request[c])
    BY DEF CallsInv, Alone, InCall
  <2>2. Head(request[c].method).effect = "create"
    BY <1>1 DEF CallSound, Now
  <2>. QED  BY <2>1, <2>2 DEF Stands
<1>. DEFINE a == CallOver(c, phase)
<1>4. /\ a \in Calling /\ CallSound(a) /\ a.phase \notin {"sent", "ran"}
      /\ Alone(a) => /\ phase = "succeeded" /\ Alone(request[c])
                     /\ a.phase = "succeeded" /\ a.method = request[c].method
  BY <1>2, <1>3, Returned
<1>5. request' = [request EXCEPT ![c] = a]
  OBVIOUS
<1>. HIDE DEF a
<1>6. ASSUME Alone(a)
      PROVE  /\ Alone(request[c]) /\ Stands(c, a)
             /\ \A x \in astray' : x.client = c /\ x.req = Head(a.method) /\ x.req.retried
  <2>1. /\ phase = "succeeded" /\ Alone(request[c]) /\ a.phase = "succeeded"
        /\ a.method = request[c].method /\ astray' = astray
    BY <1>4, <1>6
  <2>2. OwnAstray(c, Now(c)) /\ Stands(c, request[c])
    BY <2>1 DEF CallsInv
  <2>3. Stands(c, a)
    BY <2>1, <2>2 DEF Stands, Now
  <2>. QED  BY <2>1, <2>2, <2>3 DEF OwnAstray, Now
<1>7. \A x \in astray' \ astray : x.client = c /\ Writes(x.req) /\ InCall(c) /\ x.req = Now(c)
  OBVIOUS
<1>. QED  BY <1>4, <1>5, <1>6, <1>7, ClientMoves

LEMMA RefuseKeeps ==
  ASSUME CallsInv, NEW c \in Client, Refuse(c) \/ Garbled(c)
  PROVE  CallsInv'
<1>1. /\ InCall(c) /\ request' = [request EXCEPT ![c] = CallOver(c, "failed")]
      /\ UNCHANGED <<live, holds, ids, receipt, astray>>
  BY DEF Refuse, Garbled, InCall, CallOutcome, Ensured
<1>2. astray' \subseteq [client : Client, req : Requests, id : Ids]
  BY <1>1 DEF CallsInv, CallsTypeOK
<1>. QED  BY <1>1, <1>2, ReturnKeeps

LEMMA RepliedKeeps ==
  ASSUME CallsInv, NEW c \in Client, Replied(c)
  PROVE  CallsInv'
<1>1. /\ request[c].phase = "ran" /\ InCall(c) /\ Rest(request[c].method)
      /\ request[c] \in Calling /\ CallSound(request[c])
      /\ UNCHANGED <<live, holds, ids, receipt, astray>>
      /\ astray \subseteq [client : Client, req : Requests, id : Ids]
  BY CallsBefore DEF Replied, InCall, CallsInv, CallsTypeOK
<1>. DEFINE more == Tail(request[c].method)
<1>2. CASE more # <<>> /\ Ensured(Now(c), request[c].answer)
  <2>. DEFINE a == [request[c] EXCEPT !.phase = "sent", !.method = more, !.attempts = 1,
                                      !.ran = 0, !.answer = "none"]
  <2>1. /\ Rest(more) /\ ~Writes(Now(c)) /\ Head(more).kind = "file"
        /\ Touches(more) <=> Touches(request[c].method)
    BY <1>1, <1>2, Rests DEF Now
  <2>2. request' = [request EXCEPT ![c] = a]
    BY <1>1, <1>2, CallsBefore DEF Replied
  <2>3. more \in Seq(Requests)
    BY <2>1 DEF Rest
  <2>. HIDE DEF more
  <2>4. /\ a \in Calling /\ a.phase = "sent" /\ a.method = more /\ a.attempts = 1
        /\ a.id = request[c].id /\ a.existed = request[c].existed
        /\ a.alone = request[c].alone /\ a.ran = 0 /\ a.answer = "none"
    <3>1. 0 \in 0..RetryCount + 1 /\ 1 \in 0..RetryCount + 1
      BY CallsAssumption
    <3>. QED  BY <1>1, <2>3, <3>1 DEF Calling
  <2>. HIDE DEF a
  <2>5. CallSound(a)
    BY <1>1, <2>1, <2>4 DEF CallSound
  <2>6. ASSUME Alone(a)
        PROVE  /\ Alone(request[c]) /\ Stands(c, a)
             /\ \A x \in astray' : x.client = c /\ x.req = Head(a.method) /\ x.req.retried
    <3>1. Alone(request[c]) /\ OwnAstray(c, Now(c))
      BY <1>1, <2>4, <2>6 DEF Alone, CallsInv
    <3>2. astray = {}
      BY <2>1, <3>1 DEF OwnAstray, CallsInv
    <3>3. Stands(c, a)
      BY <2>1, <2>4 DEF Stands
    <3>. QED  BY <1>1, <3>1, <3>2, <3>3 DEF OwnAstray
  <2>. QED  BY <1>1, <2>1, <2>2, <2>4, <2>5, <2>6, ClientMoves
<1>3. CASE ~(more # <<>> /\ Ensured(Now(c), request[c].answer))
  <2>. DEFINE phase == CallOutcome(c, request[c].answer)
  <2>1. request' = [request EXCEPT ![c] = CallOver(c, phase)]
    BY <1>1, <1>3, CallsBefore DEF Replied
  <2>2. /\ phase \in {"succeeded", "conflict", "failed"}
        /\ phase = "succeeded" => Ensured(Now(c), request[c].answer)
        /\ phase = "conflict" => request[c].answer = "conflict" /\ Now(c).effect # "ensure"
    BY DEF CallOutcome, Ensured
  <2>. HIDE DEF phase
  <2>. QED  BY <1>1, <2>1, <2>2, ReturnKeeps
<1>. QED  BY <1>2, <1>3

LEMMA UnclearKeeps ==
  ASSUME CallsInv, NEW c \in Client, Unclear(c)
  PROVE  CallsInv'
<1>1. /\ InCall(c) /\ Rest(request[c].method) /\ Now(c) \in Requests
      /\ request[c] \in Calling /\ CallSound(request[c])
      /\ UNCHANGED <<live, holds, ids, receipt>> /\ GoOn(c)
      /\ astray \subseteq [client : Client, req : Requests, id : Ids]
      /\ request[c].id \in Ids
  BY CallsBefore DEF Unclear, InCall, CallsInv, CallsTypeOK, Calling
<1>2. \/ astray' = astray
      \/ /\ Writes(Now(c))
         /\ astray' = astray \cup {[client |-> c, req |-> Now(c), id |-> request[c].id]}
  BY DEF Unclear
<1>3. /\ astray' \subseteq [client : Client, req : Requests, id : Ids]
      /\ \A x \in astray' \ astray : x.client = c /\ Writes(x.req) /\ x.req = Now(c)
  BY <1>1, <1>2
<1>4. CASE request' = [request EXCEPT ![c] = CallOver(c, "failed")]
  BY <1>1, <1>3, <1>4, ReturnKeeps
<1>5. CASE /\ MayRetry(c)
           /\ request' = [request EXCEPT ![c].phase = "sent", ![c].attempts = @ + 1,
                                         ![c].answer = "none"]
  <2>. DEFINE n == request[c].attempts + 1
              a == [request[c] EXCEPT !.phase = "sent", !.attempts = n, !.answer = "none"]
  <2>1. request' = [request EXCEPT ![c] = a]
    BY <1>5, CallsBefore
  <2>2. Now(c).retried /\ request[c].attempts <= RetryCount
    BY <1>5 DEF MayRetry
  <2>3. /\ a \in Calling /\ a.phase = "sent" /\ a.method = request[c].method
        /\ a.attempts = request[c].attempts + 1 /\ a.id = request[c].id
        /\ a.existed = request[c].existed /\ a.alone = request[c].alone
        /\ a.ran = request[c].ran /\ a.answer = "none"
    <3>1. n \in 0..RetryCount + 1
      BY <1>1, <2>2, CallsAssumption DEF Calling
    <3>. HIDE DEF n
    <3>2. /\ a \in Calling /\ a.phase = "sent" /\ a.method = request[c].method
          /\ a.attempts = n /\ a.id = request[c].id
          /\ a.existed = request[c].existed /\ a.alone = request[c].alone
          /\ a.ran = request[c].ran /\ a.answer = "none"
      BY <1>1, <3>1 DEF Calling
    <3>. QED  BY <3>2 DEF n
  <2>. HIDE DEF a
  <2>4. ~Unrepeatable(Now(c))
    BY <1>1, <2>2, RequestTypes
  <2>5. request[c].attempts \in Nat
    BY <1>1, CallsAssumption DEF Calling
  <2>6. CallSound(a)
    BY <1>1, <2>3, <2>4, <2>5 DEF CallSound, Now, InCall
  <2>7. ASSUME Alone(a)
        PROVE  /\ Alone(request[c]) /\ Stands(c, a)
             /\ \A x \in astray' : x.client = c /\ x.req = Head(a.method) /\ x.req.retried
    <3>1. Alone(request[c]) /\ OwnAstray(c, Now(c))
      BY <1>1, <2>3, <2>7 DEF Alone, InCall, CallsInv
    <3>2. \A x \in astray' : x.client = c /\ x.req = Head(a.method) /\ x.req.retried
      BY <1>2, <2>2, <2>3, <3>1 DEF OwnAstray, Now
    <3>3. Stands(c, a)
      BY <2>3, <2>4 DEF Stands, Now, Unrepeatable
    <3>. QED  BY <3>1, <3>2, <3>3
  <2>. QED  BY <1>1, <1>3, <2>1, <2>3, <2>6, <2>7, ClientMoves
<1>. QED  BY <1>1, <1>4, <1>5 DEF GoOn

LEMMA LoseAstrayKeeps ==
  ASSUME CallsInv, NEW x \in astray, LoseAstray(x)
  PROVE  CallsInv'
<1>1. astray' \subseteq astray /\ UNCHANGED <<live, holds, ids, receipt, request>>
  BY DEF LoseAstray
<1>2. CallsTypeOK'
  BY <1>1 DEF CallsInv, CallsTypeOK
<1>3. ASSUME NEW c \in Client, Alone(request[c])
      PROVE  Quiet(c)' /\ OwnAstray(c, Now(c))' /\ Stands(c, request[c])'
  BY <1>1, <1>3 DEF CallsInv, Quiet, InCall, OwnAstray, Now, Stands
<1>4. (\A c \in Client : Alone(request[c]) =>
         Quiet(c) /\ OwnAstray(c, Now(c)) /\ Stands(c, request[c]))'
  BY <1>1, <1>3
<1>. QED  BY <1>1, <1>2, <1>4 DEF CallsInv

-----------------------------------------------------------------------------
(* A call begins. *)

LEMMA CallMethodKeeps ==
  ASSUME CallsInv, NEW c \in Client, CallMethod(c)
  PROVE  CallsInv'
<1>1. PICK m \in CallMethods :
        request' = [d \in Client |->
          IF d = c
          THEN [NoCall EXCEPT !.phase = "sent", !.method = m, !.attempts = 1,
                              !.id = IF m[1].effect = "read" THEN 0 ELSE live,
                              !.existed = m[1].effect = "ensure" /\ live # 0,
                              !.alone = Touches(m) /\ NoOtherWrite(c)]
          ELSE [request[d] EXCEPT !.alone = @ /\ (Touches(m) => ~Touches(request[d].method))]]
  BY DEF CallMethod
<1>2. /\ UNCHANGED <<live, holds, ids, receipt, astray>> /\ ~InCall(c)
      /\ Rest(m) /\ m[1] = Head(m) /\ m \in Seq(Requests)
  BY MethodsRest DEF CallMethod, Rest
<1>. DEFINE id == IF m[1].effect = "read" THEN 0 ELSE live
            existed == m[1].effect = "ensure" /\ live # 0
            alone == Touches(m) /\ NoOtherWrite(c)
<1>3. id \in Ids /\ existed \in BOOLEAN /\ alone \in BOOLEAN
  BY CallsBefore, CallsAssumption DEF Ids, Touches, NoOtherWrite
<1>4. PICK a : a = [NoCall EXCEPT !.phase = "sent", !.method = m, !.attempts = 1,
                                  !.id = id, !.existed = existed, !.alone = alone]
  OBVIOUS
<1>5. request'[c] = a
  BY <1>1, <1>4
<1>6. alone => Touches(m) /\ NoOtherWrite(c)
  OBVIOUS
<1>7. Head(m).effect = "create" => id = live
  BY <1>2
<1>. HIDE DEF id, existed, alone
<1>8. /\ a \in Calling /\ a.phase = "sent" /\ a.method = m /\ a.attempts = 1
      /\ a.id = id /\ a.existed = existed /\ a.alone = alone /\ a.ran = 0
      /\ a.answer = "none"
  <2>1. 0 \in 0..RetryCount + 1 /\ 1 \in 0..RetryCount + 1
    BY CallsAssumption
  <2>. QED  BY <1>2, <1>3, <1>4, <2>1 DEF NoCall, Calling
<1>9. CallSound(a)
  BY <1>2, <1>6, <1>8 DEF CallSound
<1>10. ASSUME NEW d \in Client, d # c
       PROVE  /\ request'[d] \in Calling /\ request'[d].phase = request[d].phase
              /\ request'[d].method = request[d].method
              /\ request'[d].attempts = request[d].attempts /\ request'[d].id = request[d].id
              /\ request'[d].existed = request[d].existed /\ request'[d].ran = request[d].ran
              /\ request'[d].answer = request[d].answer
              /\ request'[d].alone => /\ request[d].alone
                                      /\ Touches(m) => ~Touches(request[d].method)
  <2>. DEFINE left == request[d].alone /\ (Touches(m) => ~Touches(request[d].method))
  <2>1. request[d] \in Calling /\ request[d].alone \in BOOLEAN
    BY CallsBefore DEF Calling
  <2>2. left \in BOOLEAN
    BY <2>1
  <2>3. request'[d] = [request[d] EXCEPT !.alone = left]
    BY <1>1, <1>10
  <2>4. left => request[d].alone /\ (Touches(m) => ~Touches(request[d].method))
    OBVIOUS
  <2>. HIDE DEF left
  <2>. QED  BY <2>1, <2>2, <2>3, <2>4 DEF Calling
<1>11. request' \in [Client -> Calling]
  <2>1. \A d \in Client : request'[d] \in Calling
    BY <1>5, <1>8, <1>10
  <2>. QED  BY <1>1, <2>1
<1>12. CallsTypeOK'
  BY <1>2, <1>11 DEF CallsInv, CallsTypeOK
<1>13. ASSUME NEW d \in Client PROVE CallSound(request[d])'
  <2>1. CASE d = c
    BY <1>5, <1>9, <2>1
  <2>2. CASE d # c
    <3>1. CallSound(request[d])
      BY CallsBefore
    <3>. QED  BY <1>10, <2>2, <3>1 DEF CallSound
  <2>. QED  BY <2>1, <2>2
<1>14. ASSUME NEW d \in Client, Alone(request'[d])
       PROVE  Quiet(d)' /\ OwnAstray(d, Now(d))' /\ Stands(d, request[d])'
  <2>1. CASE d = c
    <3>1. alone /\ Touches(m) /\ NoOtherWrite(c)
      BY <1>5, <1>6, <1>8, <1>14, <2>1 DEF Alone
    <3>2. Quiet(d)'
      BY <1>10, <2>1, <3>1 DEF NoOtherWrite, Quiet, InCall
    <3>3. OwnAstray(d, Now(d))'
      BY <1>2, <3>1 DEF NoOtherWrite, OwnAstray
    <3>4. Stands(d, request[d])'
      BY <1>2, <1>5, <1>7, <1>8, <2>1 DEF Stands
    <3>. QED  BY <3>2, <3>3, <3>4
  <2>2. CASE d # c
    <3>1. /\ Alone(request[d]) /\ (Touches(m) => ~Touches(request[d].method))
          /\ request'[d].method = request[d].method
      BY <1>10, <1>14, <2>2 DEF Alone
    <3>2. Quiet(d) /\ OwnAstray(d, Now(d)) /\ Stands(d, request[d])
      BY <3>1 DEF CallsInv
    <3>3. ~Touches(m)
      BY <3>1, CallsBefore DEF Alone, CallSound
    <3>4. Quiet(d)'
      BY <1>5, <1>8, <1>10, <3>2, <3>3 DEF Quiet, InCall
    <3>5. OwnAstray(d, Now(d))'
      BY <1>2, <3>1, <3>2 DEF OwnAstray, Now
    <3>6. Stands(d, request[d])'
      BY <1>2, <1>10, <2>2, <3>2 DEF Stands
    <3>. QED  BY <3>4, <3>5, <3>6
  <2>. QED  BY <2>1, <2>2
<1>15. (\A d \in Client : CallSound(request[d]))'
  BY <1>13
<1>16. (\A d \in Client : Alone(request[d]) =>
          Quiet(d) /\ OwnAstray(d, Now(d)) /\ Stands(d, request[d]))'
  BY <1>14
<1>17. (\A x \in astray : Writes(x.req))'
  BY <1>2 DEF CallsInv
<1>. QED  BY <1>12, <1>15, <1>16, <1>17 DEF CallsInv

-----------------------------------------------------------------------------
(* The platform carries a request out. *)

LEMMA Carried ==
  ASSUME CallsInv, NEW r \in Requests, NEW id \in Ids, NEW c \in Client, Carry(r, id, c)
  PROVE  /\ live' \in 0..ids' /\ ids' \in Ids /\ receipt' \in 0..ids'
         /\ holds' \in Client \cup {NoClient} /\ (holds' # NoClient => live' # 0)
         /\ ~Writes(r) => live' = live /\ holds' = holds
         /\ r.effect = "write" => holds' \in {c, holds}
         /\ r.effect = "delete" => live' \in {0, live}
         /\ Answered(r, id) = "done" =>
              /\ r.effect \in {"write", "upsert"} => holds' = c
              /\ r.effect = "delete" => live' = 0
         /\ r.effect \in {"create", "ensure"} => live' # 0
         /\ Answered(r, id) \in {"done", "conflict", "missing"}
         /\ Answered(r, id) = "conflict" =>
              r.effect \in {"create", "ensure"} /\ r.kind = "definition" /\ live # 0
<1>1. /\ r.effect \in Effects /\ live \in 0..ids /\ ids \in Nat /\ receipt \in 0..ids
      /\ MaxIds \in Nat /\ holds \in Client \cup {NoClient} /\ (holds # NoClient => live # 0)
      /\ ids <= MaxIds
  BY RequestTypes, CallsBefore, CallsAssumption DEF CallsInv, CallsTypeOK, Ids
<1>. DEFINE answer == Answered(r, id)
            makes == answer = "done" /\ Makes(r)
            deletes == answer = "done" /\ r.effect = "delete"
<1>2. /\ answer \in {"done", "conflict", "missing"}
      /\ answer = "conflict" =>
           r.effect \in {"create", "ensure"} /\ r.kind = "definition" /\ live # 0
      /\ answer # "done" => r.effect \in {"create", "ensure", "write", "delete"}
      /\ answer = "done" /\ r.effect = "write" => live # 0
      /\ r.effect \in {"create", "ensure"} => answer \in {"done", "conflict"}
  BY <1>1 DEF Answered, Effects
<1>3. /\ makes => answer = "done" /\ r.effect \in {"create", "ensure", "upsert", "createKeyed"}
      /\ answer = "done" /\ r.effect \in {"create", "ensure"} => makes
      /\ answer = "done" /\ r.effect = "upsert" /\ live = 0 => makes
      /\ deletes <=> answer = "done" /\ r.effect = "delete"
  BY DEF Makes
<1>4. /\ makes => ids < MaxIds
      /\ ids' = IF makes THEN ids + 1 ELSE ids
      /\ live' = IF makes THEN ids + 1 ELSE IF deletes THEN 0 ELSE live
      /\ holds' = IF answer = "done" /\ r.effect \in {"write", "upsert"} THEN c
                  ELSE IF makes \/ deletes THEN NoClient ELSE holds
      /\ receipt' = IF makes /\ r.effect = "createKeyed" THEN ids + 1 ELSE receipt
  BY DEF Carry
<1>5. answer = Answered(r, id)
  OBVIOUS
<1>. HIDE DEF answer, makes, deletes
<1>6. ids' \in 0..MaxIds /\ live' \in 0..ids' /\ receipt' \in 0..ids'
  BY <1>1, <1>4
<1>7. holds' \in Client \cup {NoClient}
  BY <1>1, <1>4
<1>8. holds' # NoClient => live' # 0
  BY <1>1, <1>2, <1>3, <1>4
<1>9. ~Writes(r) => live' = live /\ holds' = holds
  BY <1>3, <1>4 DEF Writes
<1>10. /\ r.effect = "write" => holds' \in {c, holds}
       /\ r.effect = "delete" => live' \in {0, live}
       /\ answer = "done" => /\ r.effect \in {"write", "upsert"} => holds' = c
                             /\ r.effect = "delete" => live' = 0
  BY <1>3, <1>4
<1>11. r.effect \in {"create", "ensure"} => live' # 0
  BY <1>1, <1>2, <1>3, <1>4
<1>. QED  BY <1>2, <1>5, <1>6, <1>7, <1>8, <1>9, <1>10, <1>11 DEF Ids

\* What an Ensure in progress sees.
LEMMA SeenCall ==
  ASSUME NEW a \in Calling
  PROVE  /\ Witnessed(a) \in Calling /\ Witnessed(a).phase = a.phase
         /\ Witnessed(a).method = a.method /\ Witnessed(a).attempts = a.attempts
         /\ Witnessed(a).id = a.id /\ Witnessed(a).alone = a.alone
         /\ Witnessed(a).ran = a.ran /\ Witnessed(a).answer = a.answer
         /\ Witnessed(a).existed <=> a.existed \/ (Ensures(a) /\ live' # 0)
         /\ CallSound(a) => CallSound(Witnessed(a))
<1>. DEFINE e == a.existed \/ (Ensures(a) /\ live' # 0)
<1>1. Witnessed(a) = [a EXCEPT !.existed = e] /\ e \in BOOLEAN
  BY DEF Witnessed, Calling, Ensures
<1>2. e <=> a.existed \/ (Ensures(a) /\ live' # 0)
  OBVIOUS
<1>. HIDE DEF e
<1>3. /\ Witnessed(a) \in Calling /\ Witnessed(a).phase = a.phase
      /\ Witnessed(a).method = a.method /\ Witnessed(a).attempts = a.attempts
      /\ Witnessed(a).id = a.id /\ Witnessed(a).alone = a.alone
      /\ Witnessed(a).ran = a.ran /\ Witnessed(a).answer = a.answer
      /\ Witnessed(a).existed = e
  BY <1>1 DEF Calling
<1>4. CallSound(a) => CallSound(Witnessed(a))
  BY <1>2, <1>3 DEF CallSound
<1>. QED  BY <1>2, <1>3, <1>4

LEMMA CarryAstrayKeeps ==
  ASSUME CallsInv, NEW x \in astray, CarryAstray(x)
  PROVE  CallsInv'
<1>1. /\ x.client \in Client /\ x.req \in Requests /\ x.id \in Ids /\ Writes(x.req)
      /\ Carry(x.req, x.id, x.client) /\ astray' \subseteq astray
      /\ request' = [d \in Client |-> Witnessed(request[d])]
  BY DEF CallsInv, CallsTypeOK, CarryAstray
<1>2. ASSUME NEW d \in Client
      PROVE  /\ request'[d] = Witnessed(request[d]) /\ request'[d] \in Calling
             /\ request'[d].phase = request[d].phase /\ request'[d].method = request[d].method
             /\ request'[d].id = request[d].id /\ request'[d].alone = request[d].alone
             /\ request'[d].answer = request[d].answer /\ CallSound(request'[d])
  BY <1>1, CallsBefore, SeenCall
<1>3. request' \in [Client -> Calling]
  BY <1>1, <1>2
<1>4. CallsTypeOK'
  BY <1>1, <1>3, Carried DEF CallsInv, CallsTypeOK
<1>5. ASSUME NEW d \in Client, Alone(request'[d])
      PROVE  Quiet(d)' /\ OwnAstray(d, Now(d))' /\ Stands(d, request[d])'
  <2>1. Alone(request[d]) /\ Quiet(d) /\ OwnAstray(d, Now(d)) /\ Stands(d, request[d])
    BY <1>2, <1>5 DEF Alone, CallsInv
  <2>2. x.client = d /\ x.req = Now(d) /\ ~Unrepeatable(Now(d))
    BY <1>1, <2>1, RequestTypes DEF OwnAstray
  <2>3. Quiet(d)'
    BY <1>2, <2>1 DEF Quiet, InCall
  <2>4. OwnAstray(d, Now(d))'
    BY <1>1, <1>2, <2>1 DEF OwnAstray, Now
  <2>5. /\ Now(d).effect = "write" => holds' \in {d, holds}
        /\ Now(d).effect = "delete" => live' \in {0, live}
    BY <1>1, <2>2, Carried
  <2>6. Stands(d, request[d])'
    BY <1>2, <2>1, <2>2, <2>5 DEF Stands, Now, Unrepeatable
  <2>. QED  BY <2>3, <2>4, <2>6
<1>6. (\A d \in Client : CallSound(request[d]))'
  BY <1>2
<1>7. (\A d \in Client : Alone(request[d]) =>
         Quiet(d) /\ OwnAstray(d, Now(d)) /\ Stands(d, request[d]))'
  BY <1>5
<1>8. (\A y \in astray : Writes(y.req))'
  BY <1>1 DEF CallsInv
<1>. QED  BY <1>4, <1>6, <1>7, <1>8 DEF CallsInv

LEMMA CarryCallKeeps ==
  ASSUME CallsInv, NEW c \in Client, CarryOut(c)
  PROVE  CallsInv'
<1>1. /\ request[c].phase = "sent" /\ InCall(c) /\ request[c] \in Calling
      /\ Rest(request[c].method) /\ Now(c) \in Requests /\ request[c].id \in Ids
      /\ CallSound(request[c]) /\ astray' = astray /\ Carry(Now(c), request[c].id, c)
  BY CallsBefore DEF CarryOut, InCall, Calling
<1>2. PICK n : n = IF Unrepeatable(Now(c)) THEN request[c].ran + 1 ELSE 0
  OBVIOUS
<1>3. PICK answer : answer = Answered(Now(c), request[c].id)
  OBVIOUS
<1>4. PICK a : a = [request[c] EXCEPT !.phase = "ran", !.ran = n, !.answer = answer]
  OBVIOUS
<1>5. request' = [d \in Client |-> Witnessed(IF d = c THEN a ELSE request[d])]
  BY <1>2, <1>3, <1>4 DEF CarryOut
<1>6. /\ n \in 0..RetryCount + 1 /\ n \in Nat /\ (Unrepeatable(Now(c)) => n <= 1)
      /\ answer \in {"done", "conflict", "missing"}
      /\ answer = "conflict" => /\ Now(c).effect \in {"create", "ensure"}
                                /\ Now(c).kind = "definition" /\ live # 0
  <2>1. Unrepeatable(Now(c)) => request[c].ran = 0
    BY <1>1 DEF CallSound, Now
  <2>. QED  BY <1>1, <1>2, <1>3, <2>1, Carried, CallsAssumption
<1>7. /\ a \in Calling /\ a.phase = "ran" /\ a.method = request[c].method
      /\ a.attempts = request[c].attempts /\ a.id = request[c].id
      /\ a.existed = request[c].existed /\ a.alone = request[c].alone
      /\ a.ran = n /\ a.answer = answer
  BY <1>1, <1>4, <1>6 DEF Calling
<1>8. /\ request'[c] = Witnessed(a) /\ request'[c] \in Calling
      /\ request'[c].phase = "ran" /\ request'[c].method = request[c].method
      /\ request'[c].attempts = request[c].attempts /\ request'[c].id = request[c].id
      /\ request'[c].alone = request[c].alone /\ request'[c].ran = n
      /\ request'[c].answer = answer
      /\ Now(c).effect = "ensure" => request'[c].existed
  <2>1. Now(c).effect = "ensure" => Ensures(a) /\ live' # 0
    BY <1>1, <1>7, Carried DEF Ensures, Now
  <2>. QED  BY <1>5, <1>7, <2>1, SeenCall
<1>9. CallSound(request'[c])
  BY <1>1, <1>6, <1>8 DEF CallSound, Now
<1>10. ASSUME NEW d \in Client, d # c
       PROVE  /\ request'[d] = Witnessed(request[d]) /\ request'[d] \in Calling
              /\ request'[d].phase = request[d].phase
              /\ request'[d].method = request[d].method /\ request'[d].id = request[d].id
              /\ request'[d].alone = request[d].alone
              /\ request'[d].answer = request[d].answer /\ CallSound(request'[d])
  BY <1>5, <1>10, CallsBefore, SeenCall
<1>11. request' \in [Client -> Calling] /\ \A d \in Client : CallSound(request'[d])
  BY <1>5, <1>8, <1>9, <1>10
<1>12. CallsTypeOK'
  BY <1>1, <1>11, Carried DEF CallsInv, CallsTypeOK
<1>13. ASSUME NEW d \in Client, Alone(request'[d])
       PROVE  Quiet(d)' /\ OwnAstray(d, Now(d))' /\ Stands(d, request[d])'
  <2>1. \A e \in Client : /\ request'[e].method = request[e].method
                          /\ request'[e].phase \in {"sent", "ran"} <=> InCall(e)
    BY <1>1, <1>8, <1>10 DEF InCall
  <2>2. Alone(request[d])
    BY <1>1, <1>8, <1>10, <1>13 DEF Alone
  <2>3. Quiet(d) /\ OwnAstray(d, Now(d)) /\ Stands(d, request[d])
    BY <2>2 DEF CallsInv
  <2>4. Quiet(d)' /\ OwnAstray(d, Now(d))'
    BY <1>1, <2>1, <2>3 DEF Quiet, InCall, OwnAstray, Now
  <2>5. CASE d # c
    <3>1. ~Writes(Now(c))
      BY <1>1, <2>3, <2>5, Rests DEF Quiet, Now
    <3>2. live' = live /\ holds' = holds
      BY <1>1, <3>1, Carried
    <3>3. Stands(d, request[d])'
      BY <1>10, <2>3, <2>5, <3>2 DEF Stands
    <3>. QED  BY <2>4, <3>3
  <2>6. CASE d = c
    <3>1. /\ answer = "done" => /\ Now(c).effect \in {"write", "upsert"} => holds' = c
                                /\ Now(c).effect = "delete" => live' = 0
          /\ Now(c).effect \in {"create", "ensure"} => live' # 0
      BY <1>1, <1>3, Carried
    <3>2. answer = "conflict" /\ Now(c).effect = "create" => request[c].id # 0
      BY <1>1, <1>6, <2>3, <2>6 DEF Stands, Now
    <3>3. Stands(d, request[d])'
      BY <1>8, <2>6, <3>1, <3>2 DEF Stands, Now, Ensured
    <3>. QED  BY <2>4, <3>3
  <2>. QED  BY <2>5, <2>6
<1>14. (\A d \in Client : CallSound(request[d]))'
  BY <1>11
<1>15. (\A d \in Client : Alone(request[d]) =>
          Quiet(d) /\ OwnAstray(d, Now(d)) /\ Stands(d, request[d]))'
  BY <1>13
<1>16. (\A x \in astray : Writes(x.req))'
  BY <1>1 DEF CallsInv
<1>. QED  BY <1>12, <1>14, <1>15, <1>16 DEF CallsInv

-----------------------------------------------------------------------------
(* The invariant, and what follows from it. *)

LEMMA CallsBegin ==
  ASSUME CallsInit
  PROVE  CallsInv
<1>1. request = [c \in Client |-> NoCall] /\ request \in [Client -> Calling]
  BY NoCallTypes DEF CallsInit
<1>2. CallsTypeOK
  BY <1>1, CallsAssumption DEF CallsInit, CallsTypeOK, Ids
<1>. QED  BY <1>1, <1>2, IdleSound DEF CallsInit, CallsInv

LEMMA CallsStep ==
  ASSUME CallsInv, [CallsNext]_callsVars
  PROVE  CallsInv'
<1>1. CASE \E c \in Client : \/ CallMethod(c) \/ CarryOut(c) \/ Refuse(c)
                             \/ Replied(c) \/ Garbled(c) \/ Unclear(c)
  BY <1>1, CallMethodKeeps, CarryCallKeeps, RefuseKeeps, RepliedKeeps, UnclearKeeps
<1>2. CASE \E x \in astray : CarryAstray(x) \/ LoseAstray(x)
  BY <1>2, CarryAstrayKeeps, LoseAstrayKeeps
<1>3. CASE UNCHANGED callsVars
  BY <1>3 DEF callsVars, CallsInv, CallsTypeOK, Quiet, OwnAstray, Stands, InCall, Now
<1>. QED  BY <1>1, <1>2, <1>3 DEF CallsNext

LEMMA CallsFollow ==
  ASSUME CallsInv
  PROVE  CallsAnsweredTruly
<1>1. CarriedOnce
  BY CallsBefore DEF CarriedOnce, CallSound, InCall, Now
<1>2. ConflictForCause
  BY CallsBefore DEF ConflictForCause, CallSound
<1>3. EnsuredDefined
  BY CallsBefore DEF EnsuredDefined, CallSound, Now
<1>4. AcknowledgedStays
  BY DEF AcknowledgedStays, CallsInv, Alone, Stands, Now
<1>. QED  BY <1>1, <1>2, <1>3, <1>4 DEF CallsAnsweredTruly, CallsInv

\* A call of a typed client is answered truly: what must not be repeated is carried out
\* once, a conflict has a cause outside the call, what an Ensure vouches for was there,
\* and what a call was told it wrote or deleted stays so while nobody else writes, late
\* attempts or not (bearerRequest, httpclient.New).
THEOREM AnswersTruly == CallsSpec => []CallsAnsweredTruly
<1>1. CallsInit => CallsInv
  BY CallsBegin
<1>2. CallsInv /\ [CallsNext]_callsVars => CallsInv'
  BY CallsStep
<1>3. CallsInv => CallsAnsweredTruly
  BY CallsFollow
<1>. QED  BY <1>1, <1>2, <1>3, PTL DEF CallsSpec

-----------------------------------------------------------------------------
(* Manifests.                                                              *)
(*                                                                         *)
(* The argument: an answer that names a published version is about the     *)
(* manifest of the replica that asked, and versions are only added; and    *)
(* only a manifest that resolves is sent.                                  *)

SyncResult == [rejected : BOOLEAN, changed : BOOLEAN, published : BOOLEAN, version : Nat]
SyncState == [phase : {"waits", "asks", "done", "gave up", "cancelled"},
              attempt : 1..MaxAttempts, result : {NoResult} \cup SyncResult]

\* What replica r is told by a result is true.
ToldTruly(r, result) ==
  result.published /\ result.version >= 1 =>
    /\ result.version <= Len(publishedVersions)
    /\ publishedVersions[result.version] = declares[r]

SyncInv ==
  /\ declares \in [Replica -> Manifest] /\ publishedVersions \in Seq(Manifest)
  /\ replica \in [Replica -> SyncState]
  /\ requests \subseteq [from : Replica, attempt : 1..MaxAttempts]
  /\ answers \subseteq [from : Replica, attempt : 1..MaxAttempts, result : SyncResult]
  /\ observerCalls = [r \in Replica |-> IF replica[r].phase = "done" THEN 1 ELSE 0]
  /\ \A q \in requests : ManifestResolves(declares[q.from])
  /\ \A a \in answers : ToldTruly(a.from, a.result)
  /\ \A r \in Replica : replica[r].phase = "done" =>
       /\ replica[r].result \in SyncResult /\ replica[r].result.version >= 1
       /\ ToldTruly(r, replica[r].result)

\* What StartSync makes of a failure.
LEMMA RetriesOn ==
  ASSUME NEW r \in Replica, SyncInv, Retries(r)
  PROVE  /\ replica' \in [Replica -> SyncState] /\ replica'[r].phase \in {"waits", "gave up"}
         /\ \A d \in Replica \ {r} : replica'[d] = replica[d]
<1>1. replica[r] \in SyncState /\ MaxAttempts \in Nat /\ replica \in [Replica -> SyncState]
  BY SyncAssumption DEF SyncInv
<1>2. replica[r].attempt \in 1..MaxAttempts
  BY <1>1 DEF SyncState
<1>3. CASE replica[r].attempt = MaxAttempts
  <2>1. replica' = [replica EXCEPT ![r].phase = "gave up"]
    BY <1>3 DEF Retries, TurnsTo
  <2>. QED  BY <1>1, <2>1 DEF SyncState
<1>4. CASE replica[r].attempt # MaxAttempts
  <2>1. PICK n \in 1..MaxAttempts : n = replica[r].attempt + 1
    BY <1>1, <1>2, <1>4
  <2>2. replica' = [replica EXCEPT ![r].phase = "waits", ![r].attempt = n]
    BY <1>4, <2>1 DEF Retries
  <2>. DEFINE b == [replica[r] EXCEPT !.phase = "waits", !.attempt = n]
  <2>3. replica' = [replica EXCEPT ![r] = b]
    BY <1>1, <2>2
  <2>4. b \in SyncState /\ b.phase = "waits"
    BY <1>1, <2>1 DEF SyncState
  <2>. HIDE DEF b
  <2>. QED  BY <1>1, <2>3, <2>4
<1>. QED  BY <1>3, <1>4

LEMMA Turned ==
  ASSUME NEW r \in Replica, SyncInv, NEW phase \in {"asks", "cancelled"}, TurnsTo(r, phase)
  PROVE  /\ replica' \in [Replica -> SyncState] /\ replica'[r].phase = phase
         /\ \A d \in Replica \ {r} : replica'[d] = replica[d]
<1>. DEFINE b == [replica[r] EXCEPT !.phase = phase]
<1>1. replica[r] \in SyncState /\ replica \in [Replica -> SyncState]
  BY DEF SyncInv
<1>2. b \in SyncState /\ b.phase = phase
  BY <1>1 DEF SyncState
<1>3. replica' = [replica EXCEPT ![r] = b]
  BY DEF TurnsTo
<1>. HIDE DEF b
<1>. QED  BY <1>1, <1>2, <1>3

\* A replica that is not told anything, and was not done, leaves the invariant true.
LEMMA ReplicaMoves ==
  ASSUME SyncInv, NEW r \in Replica, replica[r].phase # "done",
         replica' \in [Replica -> SyncState], replica'[r].phase # "done",
         \A d \in Replica \ {r} : replica'[d] = replica[d],
         UNCHANGED <<declares, observerCalls, answers, publishedVersions, based>>,
         requests' \subseteq [from : Replica, attempt : 1..MaxAttempts],
         \A q \in requests' : q \in requests \/ ManifestResolves(declares[q.from])
  PROVE  SyncInv'
<1>1. \A d \in Replica : \/ replica'[d] = replica[d]
                         \/ replica[d].phase # "done" /\ replica'[d].phase # "done"
  OBVIOUS
<1>2. observerCalls' = [d \in Replica |-> IF replica'[d].phase = "done" THEN 1 ELSE 0]
  BY <1>1 DEF SyncInv
<1>3. \A m : ManifestResolves(m)' <=> ManifestResolves(m)
  BY DEF ManifestResolves, EndpointsResolve, ValuesResolve, PagesResolve, BlocksResolve,
     Resolves, ResolvedURL, McpURL
<1>4. (\A q \in requests : ManifestResolves(declares[q.from]))'
  BY <1>3 DEF SyncInv
<1>5. (\A a \in answers : ToldTruly(a.from, a.result))'
  BY DEF SyncInv, ToldTruly
<1>6. (\A d \in Replica : replica[d].phase = "done" =>
       /\ replica[d].result \in SyncResult /\ replica[d].result.version >= 1
       /\ ToldTruly(d, replica[d].result))'
  BY <1>1 DEF SyncInv, ToldTruly
<1>7. (declares \in [Replica -> Manifest] /\ publishedVersions \in Seq(Manifest)
       /\ answers \subseteq [from : Replica, attempt : 1..MaxAttempts, result : SyncResult])'
  BY DEF SyncInv
<1>. QED  BY <1>2, <1>4, <1>5, <1>6, <1>7 DEF SyncInv

LEMMA SendsKeeps ==
  ASSUME SyncInv, NEW r \in Replica, Sends(r)
  PROVE  SyncInv'
<1>1. /\ replica[r].phase = "waits" /\ replica[r] \in SyncState
      /\ UNCHANGED <<declares, based, observerCalls, answers, publishedVersions>>
      /\ requests \subseteq [from : Replica, attempt : 1..MaxAttempts]
  BY DEF Sends, SyncInv
<1>2. CASE ManifestResolves(declares[r])
  <2>1. /\ requests' = requests \cup {[from |-> r, attempt |-> replica[r].attempt]}
        /\ TurnsTo(r, "asks") /\ replica[r].attempt \in 1..MaxAttempts
    BY <1>1, <1>2 DEF Sends, SyncState
  <2>. QED  BY <1>1, <1>2, <2>1, Turned, ReplicaMoves
<1>3. CASE ~ManifestResolves(declares[r])
  <2>1. Retries(r) /\ requests' = requests
    BY <1>3 DEF Sends
  <2>. QED  BY <1>1, <2>1, RetriesOn, ReplicaMoves
<1>. QED  BY <1>2, <1>3

LEMMA NoAnswerKeeps ==
  ASSUME SyncInv, NEW r \in Replica, NoAnswerComes(r) \/ Cancelled(r)
  PROVE  SyncInv'
<1>1. /\ replica[r].phase # "done" /\ (Retries(r) \/ TurnsTo(r, "cancelled"))
      /\ UNCHANGED <<declares, based, observerCalls, requests, answers, publishedVersions>>
      /\ requests \subseteq [from : Replica, attempt : 1..MaxAttempts]
  BY DEF NoAnswerComes, Cancelled, SyncInv
<1>2. /\ replica' \in [Replica -> SyncState] /\ replica'[r].phase # "done"
      /\ \A d \in Replica \ {r} : replica'[d] = replica[d]
  BY <1>1, RetriesOn, Turned
<1>. QED  BY <1>1, <1>2, ReplicaMoves

LEMMA ReceivesKeeps ==
  ASSUME SyncInv, NEW r \in Replica, Receives(r)
  PROVE  SyncInv'
<1>1. PICK a \in answers :
        /\ a.from = r /\ answers' = answers \ {a}
        /\ IF a.result.rejected \/ a.result.version < 1
           THEN Retries(r) /\ UNCHANGED observerCalls
           ELSE /\ replica' = [replica EXCEPT ![r].phase = "done", ![r].result = a.result]
                /\ observerCalls' = [observerCalls EXCEPT ![r] = @ + 1]
  BY DEF Receives
<1>2. /\ replica[r].phase = "asks" /\ replica[r] \in SyncState /\ a.result \in SyncResult
      /\ UNCHANGED <<declares, based, requests, publishedVersions>>
      /\ replica \in [Replica -> SyncState] /\ ToldTruly(r, a.result)
      /\ answers' \subseteq answers
  BY <1>1 DEF Receives, SyncInv
<1>3. \A m : ManifestResolves(m)' <=> ManifestResolves(m)
  BY <1>2 DEF ManifestResolves, EndpointsResolve, ValuesResolve, PagesResolve, BlocksResolve,
     Resolves, ResolvedURL, McpURL
<1>4. /\ replica' \in [Replica -> SyncState]
      /\ \A d \in Replica \ {r} : replica'[d] = replica[d]
      /\ observerCalls' = [d \in Replica |-> IF replica'[d].phase = "done" THEN 1 ELSE 0]
      /\ replica'[r].phase = "done" =>
           replica'[r].result = a.result /\ a.result.version >= 1
  <2>1. CASE a.result.rejected \/ a.result.version < 1
    <3>1. Retries(r) /\ observerCalls' = observerCalls
      BY <1>1, <2>1
    <3>2. /\ replica' \in [Replica -> SyncState] /\ replica'[r].phase # "done"
          /\ \A d \in Replica \ {r} : replica'[d] = replica[d]
      BY <3>1, RetriesOn
    <3>. QED  BY <1>2, <3>1, <3>2 DEF SyncInv
  <2>2. CASE ~(a.result.rejected \/ a.result.version < 1)
    <3>. DEFINE b == [replica[r] EXCEPT !.phase = "done", !.result = a.result]
    <3>1. /\ replica' = [replica EXCEPT ![r] = b]
          /\ observerCalls' = [observerCalls EXCEPT ![r] = observerCalls[r] + 1]
      BY <1>1, <1>2, <2>2
    <3>2. b \in SyncState /\ b.phase = "done" /\ b.result = a.result
      BY <1>2 DEF SyncState
    <3>. HIDE DEF b
    <3>3. observerCalls[r] = 0
      BY <1>2 DEF SyncInv
    <3>4. a.result.version >= 1
      BY <1>2, <2>2 DEF SyncResult
    <3>5. /\ replica' \in [Replica -> SyncState] /\ replica'[r] = b
          /\ \A d \in Replica \ {r} : replica'[d] = replica[d]
      BY <1>2, <3>1, <3>2
    <3>6. /\ observerCalls = [d \in Replica |-> IF replica[d].phase = "done" THEN 1 ELSE 0]
          /\ observerCalls' = [observerCalls EXCEPT ![r] = 1]
      <4>1. observerCalls[r] + 1 = 1
        BY <3>3
      <4>2. observerCalls' = [observerCalls EXCEPT ![r] = 1]
        BY <3>1, <4>1, Zenon
      <4>. QED  BY <4>2 DEF SyncInv
    <3>7. \A d \in Replica : observerCalls'[d] = IF replica'[d].phase = "done" THEN 1 ELSE 0
      <4>1. observerCalls'[r] = 1 /\ replica'[r].phase = "done"
        BY <3>2, <3>5, <3>6
      <4>2. \A d \in Replica \ {r} : observerCalls'[d] = observerCalls[d]
        BY <3>6
      <4>. QED  BY <3>5, <3>6, <4>1, <4>2
    <3>8. observerCalls' = [d \in Replica |-> IF replica'[d].phase = "done" THEN 1 ELSE 0]
      BY <3>6, <3>7
    <3>. QED  BY <3>2, <3>4, <3>5, <3>8
  <2>. QED  BY <2>1, <2>2
<1>5. (\A q \in requests : ManifestResolves(declares[q.from]))'
  BY <1>2, <1>3 DEF SyncInv
<1>6. (\A x \in answers : ToldTruly(x.from, x.result))'
  BY <1>2 DEF SyncInv, ToldTruly
<1>7. (\A d \in Replica : replica[d].phase = "done" =>
       /\ replica[d].result \in SyncResult /\ replica[d].result.version >= 1
       /\ ToldTruly(d, replica[d].result))'
  BY <1>2, <1>4 DEF SyncInv, ToldTruly
<1>. QED  BY <1>2, <1>4, <1>5, <1>6, <1>7 DEF SyncInv

\* What the platform decides about a manifest is true of it, and no version goes away.
LEMMA Decided ==
  ASSUME SyncInv, NEW m \in Manifest, NEW result \in Results(m), Decides(m, result)
  PROVE  /\ publishedVersions' \in Seq(Manifest) /\ result \in SyncResult
         /\ Len(publishedVersions) <= Len(publishedVersions')
         /\ \A i \in 1..Len(publishedVersions) : publishedVersions'[i] = publishedVersions[i]
         /\ result.published /\ result.version >= 1 =>
              /\ result.version <= Len(publishedVersions')
              /\ publishedVersions'[result.version] = m
<1>1. publishedVersions \in Seq(Manifest) /\ Len(publishedVersions) \in Nat
  BY DEF SyncInv
<1>2. result \in SyncResult
  BY <1>1 DEF Results, SyncResult
<1>3. CASE publishedVersions # <<>> /\ m = Last(publishedVersions)
  BY <1>1, <1>2, <1>3 DEF Decides, Last
<1>4. CASE ~(publishedVersions # <<>> /\ m = Last(publishedVersions))
  <2>1. \/ publishedVersions' = publishedVersions /\ (~result.published \/ result.version = 0)
        \/ /\ publishedVersions' = Append(publishedVersions, m)
           /\ result.version = Len(publishedVersions) + 1
    BY <1>4 DEF Decides
  <2>. QED  BY <1>1, <1>2, <2>1
<1>. QED  BY <1>3, <1>4

LEMMA PlatformKeeps ==
  ASSUME SyncInv, NEW q \in requests, Platform(q)
  PROVE  SyncInv'
<1>. DEFINE m == declares[q.from]
<1>1. PICK result \in Results(m), empty \in BOOLEAN :
        /\ Decides(m, result)
        /\ answers' = answers \cup {[from |-> q.from, attempt |-> q.attempt,
                                     result |-> IF empty THEN Empty ELSE result]}
  BY DEF Platform
<1>2. /\ q.from \in Replica /\ q.attempt \in 1..MaxAttempts /\ m \in Manifest
      /\ UNCHANGED <<declares, based, replica, observerCalls>> /\ requests' \subseteq requests
      /\ publishedVersions \in Seq(Manifest)
  BY DEF Platform, SyncInv
<1>3. /\ publishedVersions' \in Seq(Manifest) /\ result \in SyncResult
      /\ Len(publishedVersions) <= Len(publishedVersions')
      /\ \A i \in 1..Len(publishedVersions) : publishedVersions'[i] = publishedVersions[i]
      /\ result.published /\ result.version >= 1 =>
           /\ result.version <= Len(publishedVersions')
           /\ publishedVersions'[result.version] = m
  BY <1>1, <1>2, Decided
<1>4. ASSUME NEW r, NEW x \in SyncResult, ToldTruly(r, x) PROVE ToldTruly(r, x)'
  <2>1. x.version \in Nat /\ Len(publishedVersions) \in Nat /\ Len(publishedVersions') \in Nat
    BY <1>2, <1>3, <1>4 DEF SyncResult
  <2>. QED  BY <1>2, <1>3, <1>4, <2>1 DEF ToldTruly
<1>5. PICK t : t = IF empty THEN Empty ELSE result
  OBVIOUS
<1>6. t \in SyncResult /\ ToldTruly(q.from, t)'
  <2>1. CASE empty
    BY <1>5, <2>1 DEF Empty, SyncResult, ToldTruly
  <2>2. CASE ~empty
    BY <1>2, <1>3, <1>5, <2>2 DEF ToldTruly
  <2>. QED  BY <2>1, <2>2
<1>7. \A x \in answers' : x \in answers \/ x = [from |-> q.from, attempt |-> q.attempt, result |-> t]
  BY <1>1, <1>5
<1>8. answers' \subseteq [from : Replica, attempt : 1..MaxAttempts, result : SyncResult]
  BY <1>2, <1>6, <1>7 DEF SyncInv
<1>9. ASSUME NEW x \in answers' PROVE ToldTruly(x.from, x.result)'
  <2>1. CASE x \in answers
    BY <1>4, <2>1 DEF SyncInv
  <2>2. CASE x = [from |-> q.from, attempt |-> q.attempt, result |-> t]
    <3>1. x.from = q.from /\ x.result = t
      BY <2>2
    <3>. QED  BY <1>6, <3>1
  <2>. QED  BY <1>7, <2>1, <2>2
<1>10. \A y : ManifestResolves(y)' <=> ManifestResolves(y)
  BY <1>2 DEF ManifestResolves, EndpointsResolve, ValuesResolve, PagesResolve, BlocksResolve,
     Resolves, ResolvedURL, McpURL
<1>11. (\A x \in requests : ManifestResolves(declares[x.from]))'
  BY <1>2, <1>10 DEF SyncInv
<1>12. ASSUME NEW d \in Replica, replica'[d].phase = "done"
       PROVE  /\ replica'[d].result \in SyncResult /\ replica'[d].result.version >= 1
              /\ ToldTruly(d, replica[d].result)'
  <2>1. /\ replica[d].result \in SyncResult /\ replica[d].result.version >= 1
        /\ ToldTruly(d, replica[d].result)
    BY <1>2, <1>12 DEF SyncInv
  <2>2. PICK x \in SyncResult : x = replica[d].result
    BY <2>1
  <2>3. ToldTruly(d, x)'
    BY <1>4, <2>1, <2>2
  <2>. QED  BY <1>2, <2>1, <2>2, <2>3 DEF ToldTruly
<1>13. (\A x \in answers : ToldTruly(x.from, x.result))'
  BY <1>9
<1>14. (\A d \in Replica : replica[d].phase = "done" =>
        /\ replica[d].result \in SyncResult /\ replica[d].result.version >= 1
        /\ ToldTruly(d, replica[d].result))'
  BY <1>12
<1>15. (/\ declares \in [Replica -> Manifest] /\ publishedVersions \in Seq(Manifest)
        /\ replica \in [Replica -> SyncState]
        /\ requests \subseteq [from : Replica, attempt : 1..MaxAttempts]
        /\ observerCalls = [r \in Replica |-> IF replica[r].phase = "done" THEN 1 ELSE 0])'
  BY <1>2, <1>3 DEF SyncInv
<1>. QED  BY <1>8, <1>11, <1>13, <1>14, <1>15 DEF SyncInv

LEMMA SyncBegins ==
  ASSUME SyncInit
  PROVE  SyncInv
<1>1. 1 \in 1..MaxAttempts /\ <<>> \in Seq(Manifest)
  BY SyncAssumption
<1>. DEFINE b == [phase |-> "waits", attempt |-> 1, result |-> NoResult]
<1>2. b \in SyncState /\ b.phase = "waits"
  BY <1>1 DEF SyncState
<1>3. replica = [r \in Replica |-> b]
  BY DEF SyncInit
<1>. HIDE DEF b
<1>. QED  BY <1>1, <1>2, <1>3 DEF SyncInit, SyncInv

LEMMA SyncStep ==
  ASSUME SyncInv, [SyncNext]_syncVars
  PROVE  SyncInv'
<1>1. CASE \E r \in Replica : Sends(r) \/ Receives(r) \/ NoAnswerComes(r) \/ Cancelled(r)
  BY <1>1, SendsKeeps, ReceivesKeeps, NoAnswerKeeps
<1>2. CASE \E q \in requests : Platform(q)
  BY <1>2, PlatformKeeps
<1>3. CASE UNCHANGED syncVars
  <2>1. \A y : ManifestResolves(y)' <=> ManifestResolves(y)
    BY <1>3 DEF syncVars, ManifestResolves, EndpointsResolve, ValuesResolve, PagesResolve,
       BlocksResolve, Resolves, ResolvedURL, McpURL
  <2>. QED  BY <1>3, <2>1 DEF syncVars, SyncInv, ToldTruly
<1>. QED  BY <1>1, <1>2, <1>3 DEF SyncNext

\* A manifest that resolves has the endpoints that will be called for it.
LEMMA ResolvedServes ==
  ASSUME NEW m \in Manifest, ManifestResolves(m)
  PROVE  \A e \in Endpoint \ {"mcp"} :
           m.paths[e] # "none" => ResolvedURL(m.paths[e]) = "absolute"
BY SyncAssumption DEF ManifestResolves, EndpointsResolve, Resolves, ResolvedURL, PathForm

LEMMA SyncFollows ==
  ASSUME SyncInv
  PROVE  SyncedAsDeclared
<1>1. SyncTypeOK
  <2>1. \A r \in Replica : /\ replica[r] \in SyncState
                           /\ observerCalls[r] = IF replica[r].phase = "done" THEN 1 ELSE 0
    BY DEF SyncInv
  <2>2. \A r \in Replica :
          replica[r] \in [phase : {"waits", "asks", "done", "gave up", "cancelled"},
                          attempt : 1..MaxAttempts,
                          result : {NoResult} \cup {replica[d].result : d \in Replica}]
    BY <2>1 DEF SyncState
  <2>3. DOMAIN replica = Replica /\ replica = [r \in DOMAIN replica |-> replica[r]]
    BY DEF SyncInv
  <2>4. \A q \in requests : q.attempt \in 1..MaxAttempts
    BY DEF SyncInv
  <2>. QED  BY <2>1, <2>2, <2>3, <2>4 DEF SyncTypeOK
<1>2. ToldItsOwnVersion
  BY DEF SyncInv, ToldItsOwnVersion, ToldTruly
<1>3. DeclaredIsServed
  <2>. SUFFICES ASSUME NEW q \in requests
                PROVE  LET m == declares[q.from]
                           served(e) == ResolvedURL(m.paths[e]) = "absolute" IN
                       /\ m.values # {} => served("variableValues")
                       /\ \A s \in DOMAIN m.sources :
                            served("resourceValues") /\ (m.sources[s] => served("importCopyFile"))
                       /\ \A i \in DOMAIN m.blocks :
                            m.blocks[i].copy # "none" =>
                              /\ served("validateCopySettings")
                              /\ m.blocks[i].copy = "callback" => served("prepareCopy")
    BY DEF DeclaredIsServed
  <2>1. PICK m \in Manifest : m = declares[q.from] /\ ManifestResolves(m)
    BY DEF SyncInv
  <2>2. /\ m.values # {} => m.paths["variableValues"] # "none"
        /\ DOMAIN m.sources # {} => m.paths["resourceValues"] # "none"
        /\ (\E s \in DOMAIN m.sources : m.sources[s]) => m.paths["importCopyFile"] # "none"
        /\ \A i \in DOMAIN m.blocks :
             /\ m.blocks[i].copy # "none" => m.paths["validateCopySettings"] # "none"
             /\ m.blocks[i].copy = "callback" => m.paths["prepareCopy"] # "none"
    BY <2>1 DEF ManifestResolves, EndpointsResolve
  <2>3. /\ {"variableValues", "resourceValues", "importCopyFile", "validateCopySettings",
            "prepareCopy"} \subseteq Endpoint \ {"mcp"}
        /\ \A e \in Endpoint \ {"mcp"} :
             m.paths[e] # "none" => ResolvedURL(m.paths[e]) = "absolute"
    BY <2>1, ResolvedServes DEF Endpoint
  <2>. QED  BY <2>1, <2>2, <2>3
<1>. QED  BY <1>1, <1>2, <1>3 DEF SyncedAsDeclared

\* For any replicas, manifests and attempts: a replica that is told a published version
\* declared what that version has, its observer is called once, and whatever is declared
\* has the endpoints it will be called at (Sync, StartSyncWithObserver, Manifest.resolve).
THEOREM SyncsAsDeclared == SyncSpec => []SyncedAsDeclared
<1>1. SyncInit => SyncInv
  BY SyncBegins
<1>2. SyncInv /\ [SyncNext]_syncVars => SyncInv'
  BY SyncStep
<1>3. SyncInv => SyncedAsDeclared
  BY SyncFollows
<1>. QED  BY <1>1, <1>2, <1>3, PTL DEF SyncSpec
=============================================================================
