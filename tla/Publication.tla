---------------------------- MODULE Publication ----------------------------
(***************************************************************************)
(* Publication of documentation packages by concurrent, repeated CI jobs   *)
(* (documentation/publish.go, client.go, cmd/knowledge-publish).           *)
(*                                                                         *)
(* A job recovers the receipt of its operation, uploads, reads the         *)
(* revision of the exact channel, and of the provider's current channel    *)
(* where it promotes that too, and asks once for an activation against     *)
(* what it has read.  Success is claimed only after the channels have been *)
(* read again.                                                             *)
(*                                                                         *)
(* The documentation service is outside the repository.  It activates an   *)
(* operation at most once, only a package it holds and only against the    *)
(* revisions the request expects, moves both channels at once, and keeps a *)
(* receipt.  All of that is one history: a channel's revision is how many  *)
(* activations it has seen, and the last of them is in force.              *)
(***************************************************************************)
EXTENDS Naturals, Sequences, FiniteSets

CONSTANTS
  Job,       \* CI jobs; a job that has ended may start again
  OperationID, \* operation IDs
  JobCalls,     \* what jobs may run: [id, release]
  MaxLate,   \* bound: requests under way that no job waits for
  Release,   \* what is published: [contract, package, current]; one provider
  NoRelease, \* a job that does not run
  NoId

ASSUME PublicationAssumption ==
  /\ NoRelease \notin Release /\ NoId \notin OperationID
  /\ \A r \in Release : r.current \in BOOLEAN
  /\ JobCalls \subseteq [id : OperationID, release : Release]
  /\ MaxLate \in Nat /\ IsFiniteSet(OperationID)

VARIABLES
  activations,  \* the activations, each [id, release]
  uploaded, \* the packages the service holds
  job,      \* per job, where its publishPackage stands
  late      \* activation requests whose job has stopped waiting

publicationVars == <<activations, uploaded, job, late>>

ChannelRevisions == 0..Cardinality(OperationID)
Package == {r.package : r \in Release}

\* expected, expectedCurrent: the revisions the request names; seen, seenCurrent:
\* ghosts, the revisions at the first read of this call.
Jobs == [phase : {"idle", "upload", "channel", "current", "sent", "confirm", "check",
                  "checkCurrent", "succeeded", "superseded", "failed"},
         id : OperationID \cup {NoId}, release : Release \cup {NoRelease},
         expected : ChannelRevisions, expectedCurrent : ChannelRevisions,
         seen : ChannelRevisions, seenCurrent : ChannelRevisions]
NoJob == [phase |-> "idle", id |-> NoId, release |-> NoRelease,
          expected |-> 0, expectedCurrent |-> 0, seen |-> 0, seenCurrent |-> 0]

PublicationInit ==
  /\ activations = <<>>
  /\ uploaded = {}
  /\ job = [j \in Job |-> NoJob]
  /\ late = {}

-----------------------------------------------------------------------------
(* The service's channels and receipts. *)

\* The activations, of the first n, that moved a channel: the exact one of a
\* contract or the provider's current one.
Exact(c, n) == {i \in 1..n : activations[i].release.contract = c}
Promoted(n) == {i \in 1..n : activations[i].release.current}
NewestOf(S) == CHOOSE i \in S : \A k \in S : k <= i

Revision(c) == Cardinality(Exact(c, Len(activations)))
CurrentRevision == Cardinality(Promoted(Len(activations)))

ReceiptsOf(id) == {i \in DOMAIN activations : activations[i].id = id}

-----------------------------------------------------------------------------
(* publishPackage. *)

Go(j, phase) == job' = [job EXCEPT ![j].phase = phase]
End(j, phase) == job' = [job EXCEPT ![j] = [NoJob EXCEPT !.phase = phase]]
JobRuns(j) == job[j].phase \notin {"idle", "succeeded", "superseded", "failed"}

\* publishPackage begins: the receipt of the operation, if it has one, before
\* anything else.  Any of the four entry points may be called under any ID.
StartJob(j) ==
  /\ ~JobRuns(j)
  /\ \E call \in JobCalls, upload \in BOOLEAN :
       job' = [job EXCEPT ![j] =
         [NoJob EXCEPT !.id = call.id, !.release = call.release,
                       !.phase = IF ReceiptsOf(call.id) # {} THEN "check"
                                 ELSE IF upload THEN "upload" ELSE "channel"]]
  /\ UNCHANGED <<activations, uploaded, late>>

\* An upload the service has carried out may still fail at the job.
UploadPackage(j) ==
  /\ job[j].phase = "upload"
  /\ uploaded' = uploaded \cup {job[j].release.package}
  /\ \/ Go(j, "channel")
     \/ End(j, "failed")
  /\ UNCHANGED <<activations, late>>

\* 404, before the first release, is revision 0.
ReadChannel(j) ==
  LET n == Revision(job[j].release.contract) IN
  /\ job[j].phase = "channel"
  /\ job' = [job EXCEPT ![j].phase = IF job[j].release.current THEN "current" ELSE "sent",
                        ![j].expected = n, ![j].seen = n]
  /\ UNCHANGED <<activations, uploaded, late>>

ReadCurrent(j) ==
  /\ job[j].phase = "current"
  /\ job' = [job EXCEPT ![j].phase = "sent", ![j].expectedCurrent = CurrentRevision,
                        ![j].seenCurrent = CurrentRevision]
  /\ UNCHANGED <<activations, uploaded, late>>

\* The job's deadline, or a connection that breaks: the request may still be
\* carried out.
StopWaiting(j) ==
  /\ job[j].phase = "sent"
  /\ late' = late \cup {job[j]}
  /\ Cardinality(late') <= MaxLate
  /\ Go(j, "confirm")
  /\ UNCHANGED <<activations, uploaded>>

\* Mutant: after a conflict the channels are read once more.
ConfirmAgain(j) ==
  /\ job[j].phase = "confirm"
  /\ IF ReceiptsOf(job[j].id) # {} THEN Go(j, "check")
     ELSE job' = [job EXCEPT ![j].phase = "sent",
                             ![j].expected = Revision(job[j].release.contract),
                             ![j].expectedCurrent = CurrentRevision]
  /\ UNCHANGED <<activations, uploaded, late>>

\* After any error of the activation, one more look for the receipt.
Confirm(j) ==
  /\ job[j].phase = "confirm"
  /\ IF ReceiptsOf(job[j].id) # {} THEN Go(j, "check") ELSE End(j, "failed")
  /\ UNCHANGED <<activations, uploaded, late>>

\* A request of the job to the service fails.
RequestFails(j) ==
  /\ job[j].phase \in {"upload", "channel", "current", "confirm", "check", "checkCurrent"}
  /\ End(j, "failed")
  /\ UNCHANGED <<activations, uploaded, late>>

\* check: the receipt is for this release and mode, and the exact channel still
\* stands at its revision.
CheckChannel(j) ==
  LET i == NewestOf(ReceiptsOf(job[j].id))
      r == job[j].release IN
  /\ job[j].phase = "check"
  /\ IF activations[i].release # r THEN End(j, "failed")
     ELSE IF Revision(r.contract) # Cardinality(Exact(r.contract, i)) THEN End(j, "superseded")
     ELSE IF r.current THEN Go(j, "checkCurrent") ELSE End(j, "succeeded")
  /\ UNCHANGED <<activations, uploaded, late>>

\* check: the current channel, in a request of its own.
CheckCurrent(j) ==
  /\ job[j].phase = "checkCurrent"
  /\ End(j, IF CurrentRevision = Cardinality(Promoted(NewestOf(ReceiptsOf(job[j].id))))
            THEN "succeeded" ELSE "superseded")
  /\ UNCHANGED <<activations, uploaded, late>>

-----------------------------------------------------------------------------
(* The service carries out an activation. *)

Acceptable(r) ==
  /\ ReceiptsOf(r.id) = {}
  /\ r.release.package \in uploaded
  /\ r.expected = Revision(r.release.contract)
  /\ r.release.current => r.expectedCurrent = CurrentRevision

Activated(r) == activations' = IF Acceptable(r)
                         THEN Append(activations, [id |-> r.id, release |-> r.release])
                         ELSE activations

\* The job hears of it: its receipt, an error, or the receipt of the same request
\* carried out before, or nothing.
ActivationAnswered(j) ==
  /\ job[j].phase = "sent"
  /\ Activated(job[j])
  /\ \/ /\ \E i \in DOMAIN activations' :
             activations'[i] = [id |-> job[j].id, release |-> job[j].release]
        /\ Go(j, "check")
     \/ Go(j, "confirm")
  /\ UNCHANGED <<uploaded, late>>

\* Nobody waits for it any more.
CarryLate(r) ==
  /\ r \in late
  /\ Activated(r)
  /\ late' = late \ {r}
  /\ UNCHANGED <<uploaded, job>>

LoseRequest(r) ==
  /\ r \in late
  /\ late' = late \ {r}
  /\ UNCHANGED <<activations, uploaded, job>>

PublicationNext ==
  \/ \E j \in Job :
       \/ StartJob(j) \/ UploadPackage(j) \/ ReadChannel(j) \/ ReadCurrent(j) \/ StopWaiting(j)
       \/ Confirm(j) \/ RequestFails(j) \/ CheckChannel(j) \/ CheckCurrent(j)
       \/ ActivationAnswered(j)
  \/ \E r \in late : CarryLate(r) \/ LoseRequest(r)

PublicationSpec == PublicationInit /\ [][PublicationNext]_publicationVars

-----------------------------------------------------------------------------
(* Properties. *)

\* Types; and a job checks a publication only with a receipt of its operation, and
\* the current channel only after the receipt was found to be for its release.
PublicationTypeOK ==
  /\ activations \in Seq([id : OperationID, release : Release])
  /\ uploaded \subseteq Package
  /\ job \in [Job -> Jobs]
  /\ late \subseteq Jobs
  /\ \A j \in Job :
       /\ job[j].phase \in {"check", "checkCurrent"} => ReceiptsOf(job[j].id) # {}
       /\ job[j].phase = "checkCurrent" =>
            activations[NewestOf(ReceiptsOf(job[j].id))].release = job[j].release

Promotes(i) == i = NewestOf(Promoted(Len(activations)))

\* A job that claims success has its release in force.  Where it promotes the current
\* channel too, that channel is in force as well, and the exact one unless a release
\* of the same contract that promotes nothing came in between the two reads
\* (publishPackage: check).
SucceededInForce ==
  \A j \in Job :
    job[j].phase # "succeeded" /\ job'[j].phase = "succeeded" =>
      \E i \in ReceiptsOf(job[j].id) :
        LET r == activations[i].release IN
        /\ r = job[j].release
        /\ r.current => Promotes(i)
        /\ \A k \in Exact(r.contract, Len(activations)) :
             k > i => r.current /\ ~activations[k].release.current

\* A job says that its publication is no longer current only when its operation was
\* activated and another release has come since (publishPackage: check).
SupersededForCause ==
  \A j \in Job :
    job[j].phase # "superseded" /\ job'[j].phase = "superseded" =>
      \E i \in ReceiptsOf(job[j].id) : \E k \in i + 1..Len(activations) :
         \/ activations[k].release.contract = job[j].release.contract
         \/ activations[k].release.current /\ job[j].release.current

\* An activation replaces only what its own call had read before it asked the first
\* time: whatever came in between is never silently published over, however late the
\* request arrives (publishPackage: "Never silently publish against a freshly read
\* channel revision").
NothingReplacedUnseen ==
  activations' # activations =>
    \E r \in {job[j] : j \in Job} \cup late :
      /\ activations' = Append(activations, [id |-> r.id, release |-> r.release])
      /\ r.seen = Revision(r.release.contract)
      /\ r.release.current => r.seenCurrent = CurrentRevision

\* What publishPackage promises in every state and step.
PublishedAsClaimed ==
  /\ []PublicationTypeOK
  /\ [][SucceededInForce /\ SupersededForCause /\ NothingReplacedUnseen]_publicationVars
=============================================================================
