------------------------------ MODULE WorkQueue ------------------------------
(***************************************************************************)
(* What both background clients of sra promise about a submitted request:  *)
(* it is processed at most once, requests are processed one at a time and  *)
(* in the order in which they entered the queue.                           *)
(***************************************************************************)
EXTENDS Naturals, Sequences

CONSTANT Requests

VARIABLES
  queue,     \* requests that wait, oldest first
  active,    \* the request being processed, as a set of at most one
  finished   \* requests that are over, successful or not

vars == <<queue, active, finished>>

Waiting == {queue[k] : k \in 1 .. Len(queue)}

Init == queue = <<>> /\ active = {} /\ finished = {}

Submit(r) ==
  /\ r \notin Waiting \cup active \cup finished
  /\ queue' = Append(queue, r)
  /\ UNCHANGED <<active, finished>>

Begin ==
  /\ queue # <<>> /\ active = {}
  /\ active' = {Head(queue)}
  /\ queue' = Tail(queue)
  /\ UNCHANGED finished

Finish ==
  /\ active # {}
  /\ finished' = finished \cup active
  /\ active' = {}
  /\ UNCHANGED queue

Next == Begin \/ Finish \/ \E r \in Requests : Submit(r)

Spec == Init /\ [][Next]_vars
=============================================================================
