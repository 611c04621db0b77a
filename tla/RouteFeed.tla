------------------------------ MODULE RouteFeed ------------------------------
(***************************************************************************)
(* What srmd's route table promises to the streams that watch it: every    *)
(* change of the table is offered to a watcher at most once, and nothing   *)
(* is offered that did not happen.  The order is not promised.             *)
(***************************************************************************)
EXTENDS Naturals, Sequences

CONSTANTS Ids, Streams

VARIABLES
  routes,   \* ids in the table
  ever,     \* ids that were ever in the table
  inbox     \* what each watcher was told, in the order it was told

vars == <<routes, ever, inbox>>

\* The changes that have been made so far.
Changes ==
  [type : {"ADDED"}, id : ever] \cup [type : {"REMOVED"}, id : ever \ routes]

Told(s) == {inbox[s][k] : k \in 1 .. Len(inbox[s])}

Init ==
  /\ routes = {} /\ ever = {}
  /\ inbox = [s \in Streams |-> <<>>]

Add(i) ==
  /\ i \notin ever
  /\ routes' = routes \cup {i}
  /\ ever' = ever \cup {i}
  /\ UNCHANGED inbox

Remove(i) ==
  /\ i \in routes
  /\ routes' = routes \ {i}
  /\ UNCHANGED <<ever, inbox>>

Tell(s, e) ==
  /\ e \in Changes \ Told(s)
  /\ inbox' = [inbox EXCEPT ![s] = Append(@, e)]
  /\ UNCHANGED <<routes, ever>>

Next ==
  \/ \E i \in Ids : Add(i) \/ Remove(i)
  \/ \E s \in Streams, e \in Changes : Tell(s, e)

Spec == Init /\ [][Next]_vars
=============================================================================
