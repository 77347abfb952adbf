------------------------ MODULE InstallationStream ------------------------
(***************************************************************************)
(* What the receiver of lifecycle messages promises for one project and    *)
(* integration, without messages: it holds the latest request it has seen, *)
(* and moves only to later ones of those the platform created.             *)
(***************************************************************************)
EXTENDS Naturals

CONSTANT Nothing \* a message with sequence 0

VARIABLES
  created, \* the requests the platform has created
  latest   \* the request that holds, or Nothing

StreamInit == created = {} /\ latest = Nothing

Created == \E r \in created' : /\ created' = created \cup {r}
                               /\ \A q \in created : q.sequence < r.sequence
                               /\ UNCHANGED latest

Taken == /\ latest' \in created
         /\ latest'.sequence > latest.sequence
         /\ UNCHANGED created

StreamNext == Created \/ Taken

StreamSpec == StreamInit /\ [][StreamNext]_<<created, latest>>
=============================================================================
