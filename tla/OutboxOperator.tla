--------------------------- MODULE OutboxOperator ---------------------------
(***************************************************************************)
(* What an operator does with the dead letters of a YDB outbox while its   *)
(* relays run (ydb/outbox.go: ListDeadLetters, GetDeadLetter,              *)
(* ReplayDeadLetter, OutboxStats).                                         *)
(*                                                                         *)
(* The relays are reduced to what they do to the two tables: a pending row *)
(* is deleted once delivered, or parked.  A producer may write an event    *)
(* again under the key it had, since EnqueueTx takes the id and the time   *)
(* of its caller; that is how a key gets into both tables.                 *)
(***************************************************************************)
EXTENDS Naturals, FiniteSets, SequencesExt

CONSTANTS
  MaxKey,      \* rows have the keys 1..MaxKey, in primary-key order
  DefaultPage, \* defaultDeadLetterPageSize
  MaxPage,     \* maxDeadLetterPageSize
  MaxMoves     \* bound: steps of the relays and of the producer

ASSUME OperatorAssumption ==
  /\ {MaxKey, MaxMoves} \subseteq Nat
  /\ DefaultPage \in 1..MaxPage /\ MaxPage \in Nat

VARIABLES
  waiting,  \* the keys in the pending table
  parked,   \* the keys in the dead-letter table
  written,  \* history: how often a key was enqueued
  released, \* history: how often a row was delivered and deleted
  moves,    \* steps of the relays and of the producer so far
  walk,     \* the operator's walk over the pages
  letters,  \* what GetDeadLetter last returned, if anything
  refused,  \* the keys a replay was last answered "not found" for
  report    \* a call of OutboxStats

RowKey == 1..MaxKey

\* stayed: history, what was dead when the walk began and has not left since.
WalkStates == [phase : {"idle", "on", "done"}, after : 0..MaxKey,
               returned : Seq(RowKey), stayed : SUBSET RowKey]

\* still: history, the rows no step has touched since the call began; touched:
\* the keys of the others.
ReportStates == [phase : {"idle", "half", "done"}, pending : 0..MaxKey, dead : 0..MaxKey,
                 still : SUBSET (RowKey \X {"pending", "dead"}), touched : SUBSET RowKey]
NoReport == [phase |-> "idle", pending |-> 0, dead |-> 0, still |-> {}, touched |-> {}]

operatorVars == <<waiting, parked, written, released, moves, walk, letters, refused, report>>

OperatorInit ==
  /\ waiting = {} /\ parked = {} /\ moves = 0
  /\ written = [k \in RowKey |-> 0] /\ released = [k \in RowKey |-> 0]
  /\ walk = [phase |-> "idle", after |-> 0, returned |-> <<>>, stayed |-> {}]
  /\ letters = {} /\ refused = {}
  /\ report = NoReport

-----------------------------------------------------------------------------
(* The tables under the operator's feet. *)

\* What every change of row k does to the history of a walk and of a report.
Touched(k, dead) ==
  /\ walk' = [walk EXCEPT !.stayed = @ \cap dead]
  /\ report' = IF report.phase # "half" THEN report
               ELSE [report EXCEPT !.still = {row \in @ : row[1] # k}, !.touched = @ \cup {k}]

Move(k) == moves < MaxMoves /\ moves' = moves + 1 /\ Touched(k, parked')

\* EnqueueTx: INSERT fails on a key that is pending, whatever the dead letters say.
Rewrite(k) ==
  /\ k \notin waiting /\ waiting' = waiting \cup {k}
  /\ written' = [written EXCEPT ![k] = @ + 1]
  /\ refused' = refused \ {k}
  /\ UNCHANGED <<parked, released, letters>>
  /\ Move(k)

\* A relay delivers a row and deletes it.
DeleteDelivered(k) ==
  /\ k \in waiting /\ waiting' = waiting \ {k}
  /\ released' = [released EXCEPT ![k] = @ + 1]
  /\ UNCHANGED <<parked, written, letters, refused>>
  /\ Move(k)

\* RecordPublishFailure gives a row up: UPSERT into the dead letters.
Park(k) ==
  /\ k \in waiting /\ waiting' = waiting \ {k} /\ parked' = parked \cup {k}
  /\ UNCHANGED <<written, released, letters, refused>>
  /\ Move(k)

-----------------------------------------------------------------------------
(* ListDeadLetters. *)

StartWalk ==
  /\ walk.phase # "on"
  /\ walk' = [phase |-> "on", after |-> 0, returned |-> <<>>, stayed |-> parked]
  /\ UNCHANGED <<waiting, parked, written, released, moves, letters, refused, report>>

PageSize(limit) ==
  IF limit = 0 THEN DefaultPage ELSE IF limit > MaxPage THEN MaxPage ELSE limit

\* ORDER BY the primary key.
Rank(k, rows) == Cardinality({j \in rows : j <= k})
Ordered(rows) == [i \in 1..Cardinality(rows) |-> CHOOSE k \in rows : Rank(k, rows) = i]

\* The query: rows after the cursor in key order, at most n.
Select(after, n) ==
  LET rows == Ordered({k \in parked : k > after})
  IN SubSeq(rows, 1, IF Len(rows) < n THEN Len(rows) ELSE n)

\* One row more than the page is asked for, to learn whether there is another
\* page; next is 0 where Page.Next is nil.
Page(after, limit) ==
  LET size == PageSize(limit)
      rows == Select(after, size + 1)
      items == IF Len(rows) > size THEN SubSeq(rows, 1, size) ELSE rows
  IN [items |-> items, next |-> IF Len(rows) > size THEN rows[size] ELSE 0]

ListDeadLetters(limit) ==
  LET page == Page(walk.after, limit)
  IN /\ walk.phase = "on"
     /\ walk' = [walk EXCEPT !.phase = IF page.next = 0 THEN "done" ELSE @,
                             !.after = page.next, !.returned = @ \o page.items]
     /\ UNCHANGED <<waiting, parked, written, released, moves, letters, refused, report>>

-----------------------------------------------------------------------------
(* One row. *)

GetDeadLetter(k) ==
  /\ letters' = parked \cap {k}
  /\ UNCHANGED <<waiting, parked, written, released, moves, walk, refused, report>>

\* Mutant: the letter read earlier is written back.
ReplayDeadLetterRead(k) ==
  /\ k \in letters /\ waiting' = waiting \cup {k} /\ parked' = parked \ {k}
  /\ Touched(k, parked')
  /\ UNCHANGED <<written, released, moves, letters, refused>>
\* The transaction: requeued, already pending, a conflict, or not found.  The
\* answer may be lost, which for the operator is a reason to call again.
ReplayDeadLetter(k) ==
  /\ IF k \in parked /\ k \notin waiting
       THEN waiting' = waiting \cup {k} /\ parked' = parked \ {k} /\ Touched(k, parked')
       ELSE UNCHANGED <<waiting, parked, walk, report>>
  /\ \/ refused' = IF k \in parked \cup waiting THEN refused \ {k} ELSE refused \cup {k}
     \/ UNCHANGED refused
  /\ UNCHANGED <<written, released, moves, letters>>

-----------------------------------------------------------------------------
(* OutboxStats: two queries, nothing holds the tables still between them. *)

CountPending ==
  /\ report.phase # "half"
  /\ report' = [NoReport EXCEPT !.phase = "half", !.pending = Cardinality(waiting),
                                !.still = (waiting \X {"pending"}) \cup (parked \X {"dead"})]
  /\ UNCHANGED <<waiting, parked, written, released, moves, walk, letters, refused>>

CountDead ==
  /\ report.phase = "half"
  /\ report' = [report EXCEPT !.phase = "done", !.dead = Cardinality(parked)]
  /\ UNCHANGED <<waiting, parked, written, released, moves, walk, letters, refused>>

OperatorNext ==
  \/ \E k \in RowKey : \/ Rewrite(k) \/ DeleteDelivered(k) \/ Park(k)
                       \/ GetDeadLetter(k) \/ ReplayDeadLetter(k)
  \/ StartWalk
  \/ \E limit \in 0..MaxPage + 1 : ListDeadLetters(limit)
  \/ CountPending \/ CountDead

OperatorSpec == OperatorInit /\ [][OperatorNext]_operatorVars

-----------------------------------------------------------------------------
(* Types, and no key is in a table that was never written. *)
OperatorTypeOK ==
  /\ waiting \subseteq RowKey /\ parked \subseteq RowKey /\ moves \in 0..MaxMoves
  /\ walk \in WalkStates /\ report \in ReportStates
  /\ letters \subseteq RowKey /\ refused \subseteq RowKey
  /\ \A k \in waiting \cup parked : written[k] > 0

\* A row is in a table or was delivered once for each time it was written, at
\* most: replaying, repeating a replay whose answer was lost, and replaying what
\* was written again meanwhile never make a copy.
ReplayMakesNoCopies ==
  \A k \in RowKey :
    Cardinality({k} \cap waiting) + Cardinality({k} \cap parked) + released[k] <= written[k]

\* And none is lost: what was written and never delivered is in a table.
ReplayLosesNothing ==
  \A k \in RowKey : written[k] > 0 /\ released[k] = 0 => k \in waiting \cup parked

\* A replay says "not found" only of a row that is in neither table, and the row
\* stays away unless its producer writes it again.
NotFoundIsFinal == refused \cap (waiting \cup parked) = {}

\* However rows come and go between the pages, a walk returns no row twice and
\* keeps the order, and when it ends it has returned every row that was a dead
\* letter all along.
WalkComplete ==
  /\ \A i, j \in DOMAIN walk.returned : i < j => walk.returned[i] < walk.returned[j]
  /\ walk.phase = "done" => walk.stayed \subseteq ToSet(walk.returned)

\* OutboxStats counts every row that stayed where it was during the call exactly
\* once, and the rows under each other key at most twice together.
StatsNearTables ==
  report.phase = "done" =>
    LET counted == report.pending + report.dead
        stayed == Cardinality(report.still)
    IN stayed <= counted /\ counted <= stayed + 2 * Cardinality(report.touched)

\* The parts above, in every state.
OperatorNotMisled ==
  /\ OperatorTypeOK /\ ReplayMakesNoCopies /\ ReplayLosesNothing
  /\ NotFoundIsFinal /\ WalkComplete /\ StatsNearTables
=============================================================================
