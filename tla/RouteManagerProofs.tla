------------------------- MODULE RouteManagerProofs -------------------------
(***************************************************************************)
(* Proofs about RouteManager, for any sets of ids, workers and streams:    *)
(* type correctness, the exactly-once broadcast, that no event owed to a   *)
(* registered stream is lost, and that the table implements RouteFeed.     *)
(***************************************************************************)
EXTENDS RouteManager, TLAPS

\* TypeOK is not inductive alone: a call appends ev[w], which is an event only
\* because a worker that is not idle carries one.
Carries == \A w \in Workers : wpc[w] # "idle" => ev[w] \in Events

TypeInv == TypeOK /\ Carries

LEMMA EventFacts ==
  /\ NoEvent \notin Events
  /\ \A i \in Ids : /\ Added(i) \in Events
                    /\ Removed(i) \in Events
                    /\ Added(i).id = i /\ Removed(i).id = i
  /\ \A i, j : Added(i) # Removed(j)
BY DEF Events, NoEvent, Added, Removed

LEMMA TypeInit == Init => TypeInv
BY DEF Init, TypeInv, TypeOK, Carries

LEMMA TypeRequest ==
  ASSUME TypeInv, Request PROVE TypeInv'
<1> USE DEF TypeInv, TypeOK, Carries, workerVars, queueVars, streamVars,
            historyVars
<1>1. ASSUME NEW w \in Workers, NEW i \in Ids, AddRoute(w, i)
      PROVE TypeInv'
  BY <1>1, EventFacts DEF AddRoute, FreshIds, StartNotify, Commit, Registered
<1>2. ASSUME NEW w \in Workers, NEW i \in Ids, RemoveRoute(w, i)
      PROVE TypeInv'
  BY <1>2, EventFacts
     DEF RemoveRoute, Erased, StartNotify, Commit, Registered
<1>3. ASSUME NEW s \in Streams, NEW f \in Families \cup {Unspecified},
             NEW initial \in BOOLEAN, OpenStream(s, f, initial)
      PROVE TypeInv'
  BY <1>3 DEF OpenStream, Goto, ListRoutes
<1>4. ASSUME NEW s \in Streams, Cancel(s)
      PROVE TypeInv'
  BY <1>4 DEF Cancel
<1> QED BY <1>1, <1>2, <1>3, <1>4 DEF Request

LEMMA TypeWorker ==
  ASSUME TypeInv, NEW w \in Workers, WorkerStep(w) PROVE TypeInv'
<1> USE DEF TypeInv, TypeOK, Carries, workerVars, queueVars, streamVars,
            historyVars
<1>1. CASE CopyObservers(w)
  BY <1>1 DEF CopyObservers, Copied
<1>2. ASSUME NEW s \in Streams, CallObserver(w, s)
      PROVE TypeInv'
  <2>1. ev[w] \in Events
    BY <1>2 DEF CallObserver
  <2>2. /\ log' \in [Streams -> Seq(Events)]
        /\ \A t \in Streams : Len(log'[t]) >= Len(log[t])
    BY <1>2, <2>1 DEF CallObserver
  <2>3. \A t \in Streams : written'[t] <= taken'[t] /\ taken'[t] <= Len(log'[t])
    BY <1>2, <2>2 DEF CallObserver
  <2> QED BY <1>2, <2>2, <2>3 DEF CallObserver, StillToCall
<1>3. ASSUME NEW s \in Streams, CallDanglingObserver(w, s)
      PROVE TypeInv'
  BY <1>3 DEF CallDanglingObserver, StillToCall
<1>4. CASE Reply(w)
  BY <1>4 DEF Reply, Events
<1> QED BY <1>1, <1>2, <1>3, <1>4 DEF WorkerStep

LEMMA TypeStream ==
  ASSUME TypeInv, NEW s \in Streams, StreamStep(s) PROVE TypeInv'
<1> USE DEF TypeInv, TypeOK, Carries, workerVars, queueVars, streamVars,
            historyVars, Goto
<1>1. ASSUME NEW i \in Ids, WriteSnapshot(s, i)
      PROVE TypeInv'
  BY <1>1 DEF WriteSnapshot
<1>2. CASE SnapshotWriteFails(s)
  BY <1>2 DEF SnapshotWriteFails
<1>3. CASE Register(s)
  BY <1>3 DEF Register
<1>4. CASE CheckCancelled(s)
  BY <1>4 DEF CheckCancelled, LoopHead
<1>5. CASE TakeBatch(s)
  BY <1>5 DEF TakeBatch, BatchEnd
<1>6. CASE HandleEvent(s)
  BY <1>6 DEF HandleEvent
<1>7. CASE WriteFails(s)
  BY <1>7 DEF WriteFails
<1>8. CASE BatchDone(s)
  BY <1>8 DEF BatchDone
<1>9. CASE Unregister(s)
  BY <1>9 DEF Unregister
<1>10. CASE ReturnStream(s)
  BY <1>10 DEF ReturnStream
<1> QED
  BY <1>1, <1>2, <1>3, <1>4, <1>5, <1>6, <1>7, <1>8, <1>9, <1>10
     DEF StreamStep

LEMMA TypeNext == TypeInv /\ [Next]_vars => TypeInv'
<1> SUFFICES ASSUME TypeInv, [Next]_vars PROVE TypeInv'
  OBVIOUS
<1>1. CASE UNCHANGED vars
  BY <1>1 DEF vars, TypeInv, TypeOK, Carries, workerVars, queueVars,
              streamVars, historyVars
<1> QED BY <1>1, TypeRequest, TypeWorker, TypeStream DEF Next

\* Every variable keeps its type, whatever the threads and clients do.
THEOREM TypeCorrect == Spec => []TypeOK
<1>1. TypeInv => TypeOK
  BY DEF TypeInv
<1> QED BY <1>1, TypeInit, TypeNext, PTL DEF Spec

-----------------------------------------------------------------------------
(* No owed event is lost.                                                   *)

\* What a step may do to the queues: they keep what they got, and only the
\* call of an observer adds to one.
LEMMA GotAppend ==
  ASSUME TypeInv, NEW w \in Workers, NEW s \in Streams, CallObserver(w, s)
  PROVE  /\ Got(s)' = Got(s) \cup {ev[w]}
         /\ \A t \in Streams \ {s} : Got(t)' = Got(t)
<1>1. ev[w] \in Events /\ log[s] \in Seq(Events) /\ DOMAIN log = Streams
  BY DEF TypeInv, TypeOK, Carries, CallObserver
<1>2. log'[s] = Append(log[s], ev[w])
  BY <1>1 DEF CallObserver
<1>3. /\ Len(log'[s]) = Len(log[s]) + 1
      /\ log'[s][Len(log[s]) + 1] = ev[w]
      /\ \A k \in 1 .. Len(log[s]) : log'[s][k] = log[s][k]
      /\ Len(log[s]) \in Nat
  BY <1>1, <1>2
<1>4. \A t \in Streams \ {s} : log'[t] = log[t]
  BY <1>1 DEF CallObserver
<1>5. \A k : k \in 1 .. Len(log[s]) + 1 <=>
             k \in 1 .. Len(log[s]) \/ k = Len(log[s]) + 1
  BY <1>3
<1>6. {log'[s][k] : k \in 1 .. Len(log'[s])} =
        {log[s][k] : k \in 1 .. Len(log[s])} \cup {ev[w]}
  BY <1>3, <1>5, Zenon
<1>7. \A t \in Streams \ {s} : Got(t)' = Got(t)
  BY <1>4 DEF Got
<1> QED BY <1>6, <1>7 DEF Got

\* A registered stream is inside its loop, so its frame is alive, and nothing
\* is owed to a stream that was never registered.
RegisteredLive ==
  /\ \A s \in observers : spc[s] \in {"loop", "wait", "write", "leave"}
  /\ \A s \in Streams : spc[s] \in {"new", "snapshot"} => owed[s] = {}

OwedInv == TypeInv /\ RegisteredLive /\ OwedNotLost

LEMMA RegisteredLiveNext ==
  TypeInv /\ RegisteredLive /\ [Next]_vars => RegisteredLive'
<1> SUFFICES ASSUME TypeInv, RegisteredLive, [Next]_vars PROVE RegisteredLive'
  OBVIOUS
<1> USE DEF RegisteredLive, TypeInv, TypeOK, workerVars, queueVars, streamVars,
            historyVars, Goto
<1>1. CASE UNCHANGED vars
  BY <1>1 DEF vars
<1>2. CASE Request
  BY ZenonT(30), <1>2 DEF Request, AddRoute, RemoveRoute, Commit, Registered, OpenStream,
              Cancel
<1>3. ASSUME NEW w \in Workers, WorkerStep(w) PROVE RegisteredLive'
  BY <1>3 DEF WorkerStep, CopyObservers, CallObserver, CallDanglingObserver,
              Reply
<1>4. ASSUME NEW s \in Streams, StreamStep(s) PROVE RegisteredLive'
  BY ZenonT(60), <1>4 DEF StreamStep, WriteSnapshot, SnapshotWriteFails, Register,
              CheckCancelled, LoopHead, TakeBatch, HandleEvent, WriteFails,
              BatchDone, Unregister, ReturnStream
<1> QED BY <1>1, <1>2, <1>3, <1>4 DEF Next

LEMMA OwedInit == Init => OwedNotLost
BY DEF Init, OwedNotLost, Registered

\* A commit: the worker was idle, so it carried nothing, and it now carries the
\* new event to every registered stream.
LEMMA OwedCommit ==
  ASSUME TypeInv, OwedNotLost, NEW w \in Workers, NEW e \in Events,
         StartNotify(w, e), Commit(e), UNCHANGED <<observers, todo, log>>
  PROVE  OwedNotLost'
<1> SUFFICES ASSUME NEW s \in Streams, s \in observers, NEW d \in owed'[s]
             PROVE  \/ d \in Got(s)'
                    \/ \E v \in Workers : InFlight(v, d, s)'
  BY DEF OwedNotLost, Registered
<1>1. Got(s)' = Got(s)
  BY DEF Got
<1>2. ev'[w] = e /\ wpc'[w] = "notify"
  BY DEF StartNotify, TypeInv, TypeOK
<1>3. \A v \in Workers \ {w} : ev'[v] = ev[v] /\ wpc'[v] = wpc[v]
  BY DEF StartNotify, TypeInv, TypeOK
<1>4. d \in owed[s] \cup {e}
  BY DEF Commit, Registered
<1>5. CASE d = e
  BY <1>2, <1>5 DEF InFlight
<1>6. CASE d \in owed[s]
  <2>1. d \in Got(s) \/ \E v \in Workers : InFlight(v, d, s)
    BY <1>6 DEF OwedNotLost, Registered
  <2>2. ~InFlight(w, d, s)
    BY DEF InFlight, StartNotify
  <2> QED BY <1>1, <1>3, <2>1, <2>2 DEF InFlight
<1> QED BY <1>4, <1>5, <1>6

LEMMA OwedNext ==
  TypeInv /\ RegisteredLive /\ OwedNotLost /\ [Next]_vars => OwedNotLost'
<1> SUFFICES ASSUME TypeInv, RegisteredLive, OwedNotLost, [Next]_vars
             PROVE  OwedNotLost'
  OBVIOUS
<1> USE DEF workerVars, queueVars, streamVars, historyVars
<1>1. ASSUME NEW w \in Workers, NEW i \in Ids, AddRoute(w, i)
      PROVE OwedNotLost'
  BY <1>1, OwedCommit, EventFacts DEF AddRoute
<1>2. ASSUME NEW w \in Workers, NEW i \in Ids, RemoveRoute(w, i)
      PROVE OwedNotLost'
  BY <1>2, OwedCommit, EventFacts DEF RemoveRoute
<1>3. ASSUME UNCHANGED <<log, owed, ev, wpc, todo>>,
             observers' \subseteq observers
      PROVE OwedNotLost'
  BY <1>3 DEF OwedNotLost, Registered, InFlight, Got
<1>4. ASSUME NEW w \in Workers, CopyObservers(w)
      PROVE OwedNotLost'
  <2>1. \A d, s : s \in observers /\ InFlight(w, d, s) => InFlight(w, d, s)'
    BY <1>4 DEF CopyObservers, Copied, InFlight, TypeInv, TypeOK
  <2>2. \A v \in Workers \ {w} : \A d, s :
          InFlight(v, d, s) => InFlight(v, d, s)'
    BY <1>4 DEF CopyObservers, InFlight, TypeInv, TypeOK
  <2> QED
    BY <1>4, <2>1, <2>2 DEF CopyObservers, OwedNotLost, Registered, Got
<1>5. ASSUME NEW w \in Workers, NEW s \in Streams, CallObserver(w, s)
      PROVE OwedNotLost'
  <2>1. \A t \in Streams : Got(t) \subseteq Got(t)'
    BY <1>5, GotAppend
  <2>2. \A d : InFlight(w, d, s) => d \in Got(s)'
    BY <1>5, GotAppend DEF InFlight
  <2>3. \A v \in Workers, t \in Streams : \A d :
          InFlight(v, d, t) /\ (v # w \/ t # s) => InFlight(v, d, t)'
    BY <1>5 DEF CallObserver, StillToCall, InFlight, TypeInv, TypeOK
  <2> QED
    BY <1>5, <2>1, <2>2, <2>3 DEF CallObserver, OwedNotLost, Registered
<1>6. ASSUME NEW w \in Workers, NEW s \in Streams, CallDanglingObserver(w, s)
      PROVE OwedNotLost'
  <2>1. s \notin observers
    BY <1>6 DEF CallDanglingObserver, RegisteredLive
  <2>2. \A v \in Workers, t \in Streams \ {s} : \A d :
          InFlight(v, d, t) => InFlight(v, d, t)'
    BY <1>6 DEF CallDanglingObserver, StillToCall, InFlight, TypeInv, TypeOK
  <2> QED
    BY <1>6, <2>1, <2>2 DEF CallDanglingObserver, OwedNotLost, Registered, Got
<1>7. ASSUME NEW w \in Workers, Reply(w)
      PROVE OwedNotLost'
  <2>1. \A v \in Workers, t \in Streams : \A d :
          InFlight(v, d, t) => InFlight(v, d, t)'
    BY <1>7 DEF Reply, InFlight, TypeInv, TypeOK
  <2> QED BY <1>7, <2>1 DEF Reply, OwedNotLost, Registered, Got
<1>8. ASSUME NEW s \in Streams, Register(s)
      PROVE OwedNotLost'
  <2>1. owed[s] = {}
    BY <1>8 DEF Register, Goto, RegisteredLive
  <2> QED BY <1>8, <2>1 DEF Register, OwedNotLost, Registered, InFlight, Got
<1>9. ASSUME NEW s \in Streams, StreamStep(s), ~Register(s)
      PROVE OwedNotLost'
  BY <1>3, <1>9
     DEF StreamStep, WriteSnapshot, SnapshotWriteFails, CheckCancelled,
         TakeBatch, HandleEvent, WriteFails, BatchDone, Unregister,
         ReturnStream
<1>10. CASE UNCHANGED vars
  BY <1>3, <1>10 DEF vars
<1>11. ASSUME Request, NEW s \in Streams,
              \/ Cancel(s)
              \/ \E f \in Families \cup {Unspecified}, initial \in BOOLEAN :
                   OpenStream(s, f, initial)
       PROVE OwedNotLost'
  BY <1>3, <1>11 DEF Cancel, OpenStream
<1> QED
  BY <1>1, <1>2, <1>4, <1>5, <1>6, <1>7, <1>8, <1>9, <1>10, <1>11
     DEF Next, Request, WorkerStep

\* No event owed to a registered stream is ever lost between the commit and
\* the stream's queue, for any number of workers and streams.
THEOREM NothingOwedIsLost == Spec => []OwedNotLost
<1>1. Init => OwedInv
  BY TypeInit, OwedInit DEF OwedInv, RegisteredLive, Init
<1>2. OwedInv /\ [Next]_vars => OwedInv'
  BY TypeNext, RegisteredLiveNext, OwedNext DEF OwedInv
<1>3. OwedInv => OwedNotLost
  BY DEF OwedInv
<1> QED BY <1>1, <1>2, <1>3, PTL DEF Spec

-----------------------------------------------------------------------------
(* The table implements RouteFeed.                                          *)

LEMMA ChangesFacts ==
  ASSUME TypeInv
  PROVE  /\ \A i \in Ids : Added(i) \in Feed!Changes <=> i \in issued
         /\ \A i \in Ids : Removed(i) \in Feed!Changes <=>
                             i \in issued \ routes
         /\ Feed!Changes \subseteq Events
BY DEF Feed!Changes, Added, Removed, Events, TypeInv, TypeOK

\* A commit makes one more change, which nobody has seen or carries yet.
LEMMA BroadcastCommit ==
  ASSUME TypeInv, BroadcastOnce, NEW w \in Workers,
         NEW e \in Events, e \notin Feed!Changes,
         Feed!Changes \cup {e} \subseteq Feed!Changes',
         StartNotify(w, e), UNCHANGED <<todo, log>>
  PROVE  BroadcastOnce'
<1>1. ev'[w] = e /\ wpc'[w] = "notify" /\ wpc[w] = "idle"
  BY DEF StartNotify, TypeInv, TypeOK
<1>2. \A v \in Workers \ {w} : ev'[v] = ev[v] /\ wpc'[v] = wpc[v]
  BY DEF StartNotify, TypeInv, TypeOK
<1>3. \A s \in Streams : Got(s)' = Got(s) /\ Got(s) \subseteq Feed!Changes
  BY DEF Got, BroadcastOnce
<1>4. \A v \in Workers \ {w} : wpc[v] # "idle" =>
        ev[v] \in Feed!Changes /\ ev[v] # e
  BY DEF BroadcastOnce
<1>5. ASSUME NEW v \in Workers, wpc'[v] # "idle"
      PROVE  /\ ev'[v] \in Feed!Changes'
             /\ \A u \in Workers \ {v} : wpc'[u] # "idle" => ev'[u] # ev'[v]
             /\ \A s \in Streams : InFlight(v, ev[v], s)' => ev'[v] \notin Got(s)'
  <2>1. CASE v = w
    BY <1>1, <1>2, <1>3, <1>4, <2>1
  <2>2. CASE v # w
    <3>1. \A s \in Streams : InFlight(v, ev[v], s)' => InFlight(v, ev[v], s)
      BY <1>2, <2>2 DEF InFlight
    <3> QED BY <1>1, <1>2, <1>3, <1>4, <1>5, <2>2, <3>1 DEF BroadcastOnce
  <2> QED BY <2>1, <2>2
<1> QED BY <1>3, <1>5 DEF BroadcastOnce

LEMMA BroadcastNext ==
  TypeInv /\ BroadcastOnce /\ [Next]_vars => BroadcastOnce'
<1> SUFFICES ASSUME TypeInv, BroadcastOnce, [Next]_vars PROVE BroadcastOnce'
  OBVIOUS
<1> USE DEF workerVars, queueVars, streamVars, historyVars
<1>1. ASSUME NEW w \in Workers, NEW i \in Ids, AddRoute(w, i)
      PROVE BroadcastOnce'
  <2>1. Added(i) \in Events /\ Added(i) \notin Feed!Changes
    BY <1>1, ChangesFacts, EventFacts DEF AddRoute, FreshIds
  <2>2. Feed!Changes \cup {Added(i)} \subseteq Feed!Changes'
    BY <1>1 DEF AddRoute, FreshIds, Feed!Changes, Added, TypeInv, TypeOK
  <2> QED BY <1>1, <2>1, <2>2, BroadcastCommit DEF AddRoute
<1>2. ASSUME NEW w \in Workers, NEW i \in Ids, RemoveRoute(w, i)
      PROVE BroadcastOnce'
  <2>1. Removed(i) \in Events /\ Removed(i) \notin Feed!Changes
    BY <1>2, ChangesFacts, EventFacts DEF RemoveRoute
  <2>2. Feed!Changes \cup {Removed(i)} \subseteq Feed!Changes'
    BY <1>2 DEF RemoveRoute, Erased, Feed!Changes, Removed, TypeInv, TypeOK
  <2> QED BY <1>2, <2>1, <2>2, BroadcastCommit DEF RemoveRoute
<1>3. ASSUME UNCHANGED <<routes, issued, log, ev, wpc, todo>>
      PROVE BroadcastOnce'
  BY <1>3 DEF BroadcastOnce, InFlight, Got, Feed!Changes
<1>4. ASSUME NEW w \in Workers, CopyObservers(w)
      PROVE BroadcastOnce'
  <2>1. UNCHANGED <<routes, issued, log, ev>>
    BY <1>4 DEF CopyObservers
  <2>2. \A v \in Workers : /\ wpc'[v] # "idle" <=> wpc[v] # "idle"
                            /\ \A s : InFlight(v, ev[v], s)' =>
                                        InFlight(v, ev[v], s)
    BY <1>4 DEF CopyObservers, InFlight, TypeInv, TypeOK
  <2>3. Feed!Changes' = Feed!Changes /\ \A s \in Streams : Got(s)' = Got(s)
    BY <2>1 DEF Got, Feed!Changes
  <2> QED BY <2>1, <2>2, <2>3 DEF BroadcastOnce
<1>5. ASSUME NEW w \in Workers, NEW s \in Streams, CallObserver(w, s)
      PROVE BroadcastOnce'
  <2>1. UNCHANGED <<routes, issued, ev, wpc>>
    BY <1>5 DEF CallObserver
  <2>2. ~InFlight(w, ev[w], s)'
    BY <1>5 DEF CallObserver, StillToCall, InFlight, TypeInv, TypeOK
  <2>3. \A v \in Workers, t \in Streams :
          InFlight(v, ev[v], t)' => InFlight(v, ev[v], t)
    BY <1>5 DEF CallObserver, StillToCall, InFlight, TypeInv, TypeOK
  <2>4. \A t \in Streams : Got(t)' = IF t = s THEN Got(t) \cup {ev[w]} ELSE Got(t)
    BY <1>5, GotAppend
  <2>5. wpc[w] # "idle"
    BY <1>5 DEF CallObserver
  <2>6. Feed!Changes' = Feed!Changes
    BY <2>1 DEF Feed!Changes
  <2>7. \A v \in Workers, t \in Streams :
          wpc[v] # "idle" /\ InFlight(v, ev[v], t)' => ev[v] \notin Got(t)'
    BY <2>2, <2>3, <2>4, <2>5 DEF BroadcastOnce
  <2>8. \A t \in Streams : Got(t)' \subseteq Feed!Changes
    BY <2>4, <2>5 DEF BroadcastOnce
  <2> QED BY <2>1, <2>6, <2>7, <2>8 DEF BroadcastOnce
<1>6. ASSUME NEW w \in Workers,
             \/ Reply(w)
             \/ \E s \in Streams : CallDanglingObserver(w, s)
      PROVE BroadcastOnce'
  <2>1. UNCHANGED <<routes, issued, log>>
    BY <1>6 DEF Reply, CallDanglingObserver
  <2>2. \A v \in Workers : wpc'[v] # "idle" =>
          /\ wpc[v] # "idle" /\ ev'[v] = ev[v]
          /\ \A s : InFlight(v, ev[v], s)' => InFlight(v, ev[v], s)
    BY <1>6 DEF Reply, CallDanglingObserver, StillToCall, InFlight, TypeInv,
                TypeOK
  <2>3. Feed!Changes' = Feed!Changes /\ \A s \in Streams : Got(s)' = Got(s)
    BY <2>1 DEF Got, Feed!Changes
  <2> QED BY <2>2, <2>3 DEF BroadcastOnce
<1>7. ASSUME NEW s \in Streams, StreamStep(s)
      PROVE BroadcastOnce'
  BY <1>3, <1>7
     DEF StreamStep, WriteSnapshot, SnapshotWriteFails, Register,
         CheckCancelled, TakeBatch, HandleEvent, WriteFails, BatchDone,
         Unregister, ReturnStream
<1>8. ASSUME NEW s \in Streams,
             \/ Cancel(s)
             \/ \E f \in Families \cup {Unspecified}, initial \in BOOLEAN :
                  OpenStream(s, f, initial)
      PROVE BroadcastOnce'
  BY <1>3, <1>8 DEF Cancel, OpenStream
<1>9. CASE UNCHANGED vars
  BY <1>3, <1>9 DEF vars
<1> QED
  BY <1>1, <1>2, <1>4, <1>5, <1>6, <1>7, <1>8, <1>9
     DEF Next, Request, WorkerStep

LEMMA BroadcastInit == Init => BroadcastOnce
BY DEF Init, BroadcastOnce, Got

\* A change is broadcast by one worker, after its commit, and never twice to
\* the same stream.
THEOREM BroadcastIsOnce == Spec => []BroadcastOnce
<1>1. TypeInv /\ BroadcastOnce /\ [Next]_vars => (TypeInv /\ BroadcastOnce)'
  BY TypeNext, BroadcastNext
<1> QED BY <1>1, TypeInit, BroadcastInit, PTL DEF Spec

LEMMA FeedInit == Init => Feed!Init
BY DEF Init, Feed!Init

LEMMA FeedNext ==
  TypeInv /\ BroadcastOnce /\ [Next]_vars => [Feed!Next]_Feed!vars
<1> SUFFICES ASSUME TypeInv, BroadcastOnce, [Next]_vars
             PROVE  [Feed!Next]_Feed!vars
  OBVIOUS
<1> USE DEF workerVars, queueVars, streamVars, historyVars
<1>1. ASSUME NEW w \in Workers, NEW i \in Ids, AddRoute(w, i)
      PROVE Feed!Next
  BY <1>1 DEF AddRoute, FreshIds, Feed!Next, Feed!Add
<1>2. ASSUME NEW w \in Workers, NEW i \in Ids, RemoveRoute(w, i)
      PROVE Feed!Next
  BY <1>2 DEF RemoveRoute, Erased, Feed!Next, Feed!Remove
<1>3. ASSUME NEW w \in Workers, NEW s \in Streams, CallObserver(w, s)
      PROVE Feed!Next
  <2>1. InFlight(w, ev[w], s) /\ wpc[w] # "idle"
    BY <1>3 DEF CallObserver, InFlight
  <2>2. ev[w] \in Feed!Changes \ Got(s)
    BY <2>1 DEF BroadcastOnce
  <2>3. Feed!Told(s) = Got(s)
    BY DEF Feed!Told, Got
  <2>4. Feed!Tell(s, ev[w])
    BY <1>3, <2>2, <2>3 DEF CallObserver, Feed!Tell
  <2> QED BY <2>2, <2>4 DEF Feed!Next
<1>4. ASSUME UNCHANGED <<routes, issued, log>>
      PROVE UNCHANGED Feed!vars
  BY <1>4 DEF Feed!vars
<1>5. ASSUME NEW w \in Workers,
             \/ CopyObservers(w) \/ Reply(w)
             \/ \E s \in Streams : CallDanglingObserver(w, s)
      PROVE UNCHANGED Feed!vars
  BY <1>4, <1>5 DEF CopyObservers, Reply, CallDanglingObserver
<1>6. ASSUME NEW s \in Streams, StreamStep(s)
      PROVE UNCHANGED Feed!vars
  BY <1>4, <1>6
     DEF StreamStep, WriteSnapshot, SnapshotWriteFails, Register,
         CheckCancelled, TakeBatch, HandleEvent, WriteFails, BatchDone,
         Unregister, ReturnStream
<1>7. ASSUME NEW s \in Streams,
             \/ Cancel(s)
             \/ \E f \in Families \cup {Unspecified}, initial \in BOOLEAN :
                  OpenStream(s, f, initial)
      PROVE UNCHANGED Feed!vars
  BY <1>4, <1>7 DEF Cancel, OpenStream
<1>8. CASE UNCHANGED vars
  BY <1>4, <1>8 DEF vars
<1> QED
  BY <1>1, <1>2, <1>3, <1>5, <1>6, <1>7, <1>8 DEF Next, Request, WorkerStep

\* Every behaviour of the table and its streams is one of RouteFeed: each
\* watcher is told each committed change at most once, and nothing else.
THEOREM ImplementsFeed == Spec => FeedSpec
<1>1. TypeInv /\ BroadcastOnce /\ [Next]_vars => (TypeInv /\ BroadcastOnce)'
  BY TypeNext, BroadcastNext
<1> QED
  BY <1>1, TypeInit, BroadcastInit, FeedInit, FeedNext, PTL
     DEF Spec, FeedSpec, Feed!Spec
-----------------------------------------------------------------------------
(* The client's copy of the table.                                          *)

\* A stream is registered exactly inside its loop.  Before it, its observer
\* was called by nobody and will not be; after it, a stream that is not
\* cancelled has written its whole snapshot.  It is owed only what happened.
StreamInv ==
  \A s \in Streams :
    /\ spc[s] \in {"loop", "wait", "write", "leave"} => s \in observers
    /\ spc[s] \in {"new", "snapshot"} =>
         log[s] = <<>> /\ \A w \in Workers : s \notin todo[w]
    /\ spc[s] = "new" => shown[s] = {}
    /\ spc[s] \notin {"new", "snapshot"} /\ ~cancelled[s] => unsent[s] = {}
    /\ owed[s] \subseteq Feed!Changes

\* A caller that got its reply knows that no worker still carries its ADDED:
\* so a route that was removed only after that reply is not racy.
AckInv ==
  /\ acked \subseteq issued
  /\ issued \ (routes \cup racy) \subseteq acked
  /\ \A i \in acked, w \in Workers : wpc[w] # "idle" => ev[w] # Added(i)

\* Of a route that is not racy, ADDED precedes REMOVED in every queue, and a
\* stream that was told of both the first and the end of it is owed the end.
OrderInv ==
  \A s \in Streams, i \in Ids \ racy :
    /\ \A k, l \in 1 .. Len(log[s]) :
         log[s][k] = Removed(i) /\ log[s][l] = Added(i) => l < k
    /\ i \in issued \ (routes \cup missed[s]) /\ Added(i) \in Got(s) =>
         Removed(i) \in owed[s]

\* The snapshot and the owed events together are the table.
CopyInv ==
  \A s \in Streams : spc[s] # "new" /\ ~cancelled[s] =>
    \A i \in Ids \ missed[s] : Match(s, i) =>
      (i \in routes <=>
         /\ i \in unsent[s] \cup shown[s] \/ Added(i) \in owed[s]
         /\ Removed(i) \notin owed[s])

LEMMA StreamInvNext ==
  TypeInv /\ RegisteredLive /\ StreamInv /\ [Next]_vars => StreamInv'
<1> SUFFICES ASSUME TypeInv, RegisteredLive, StreamInv, [Next]_vars
             PROVE  StreamInv'
  OBVIOUS
<1> USE DEF workerVars, queueVars, streamVars, historyVars, Goto
<1>1. ASSUME UNCHANGED <<routes, issued, observers, todo, log, spc, shown,
                         unsent, owed>>,
             \A s \in Streams : cancelled[s] => cancelled'[s]
      PROVE  StreamInv'
  BY <1>1 DEF StreamInv, Feed!Changes
<1>2. ASSUME NEW e \in Events, Commit(e),
             Feed!Changes \cup {e} \subseteq Feed!Changes',
             UNCHANGED <<observers, todo, log, spc, shown, unsent, cancelled>>
      PROVE  StreamInv'
  BY <1>2 DEF StreamInv, Commit
<1>3. ASSUME NEW w \in Workers, NEW i \in Ids, AddRoute(w, i)
      PROVE  StreamInv'
  <2>1. Feed!Changes \cup {Added(i)} \subseteq Feed!Changes'
    BY <1>3 DEF AddRoute, FreshIds, Feed!Changes, Added, TypeInv, TypeOK
  <2> QED BY <1>2, <1>3, <2>1, EventFacts DEF AddRoute
<1>4. ASSUME NEW w \in Workers, NEW i \in Ids, RemoveRoute(w, i)
      PROVE  StreamInv'
  <2>1. Feed!Changes \cup {Removed(i)} \subseteq Feed!Changes'
    BY <1>4 DEF RemoveRoute, Erased, Feed!Changes, Removed, TypeInv, TypeOK
  <2> QED BY <1>2, <1>4, <2>1, EventFacts DEF RemoveRoute
<1>5. ASSUME NEW w \in Workers, CopyObservers(w) PROVE StreamInv'
  BY <1>5 DEF CopyObservers, Copied, StreamInv, RegisteredLive, TypeInv, TypeOK,
              Feed!Changes
<1>6. ASSUME NEW w \in Workers, NEW s \in Streams,
             CallObserver(w, s) \/ CallDanglingObserver(w, s)
      PROVE  StreamInv'
  <2>1. /\ s \in todo[w] /\ todo' = [todo EXCEPT ![w] = todo[w] \ {s}]
        /\ \A t \in Streams \ {s} : log'[t] = log[t]
        /\ UNCHANGED <<routes, issued, observers, spc, shown, unsent, cancelled,
                       owed>>
    BY <1>6 DEF CallObserver, CallDanglingObserver, StillToCall, TypeInv, TypeOK
  <2>2. spc[s] \notin {"new", "snapshot"}
    BY <2>1 DEF StreamInv
  <2> QED BY <2>1, <2>2 DEF StreamInv, Feed!Changes, TypeInv, TypeOK
<1>7. ASSUME NEW w \in Workers, Reply(w) PROVE StreamInv'
  BY <1>1, <1>7 DEF Reply
<1>8. ASSUME NEW s \in Streams,
             \/ StreamStep(s) \/ Cancel(s)
             \/ \E f \in Families \cup {Unspecified}, initial \in BOOLEAN :
                  OpenStream(s, f, initial)
      PROVE  StreamInv'
  <2>1. UNCHANGED <<routes, issued, log, todo, owed>>
    BY <1>8
       DEF StreamStep, WriteSnapshot, SnapshotWriteFails, Register,
           CheckCancelled, TakeBatch, HandleEvent, WriteFails, BatchDone,
           Unregister, ReturnStream, Cancel, OpenStream
  <2>2. \A t \in Streams \ {s} :
          /\ spc'[t] = spc[t] /\ shown'[t] = shown[t] /\ unsent'[t] = unsent[t]
          /\ cancelled'[t] = cancelled[t] /\ (t \in observers <=> t \in observers')
    BY <1>8
       DEF StreamStep, WriteSnapshot, SnapshotWriteFails, Register,
           CheckCancelled, TakeBatch, HandleEvent, WriteFails, BatchDone,
           Unregister, ReturnStream, Cancel, OpenStream, TypeInv, TypeOK
  <2>3. /\ spc'[s] \in {"loop", "wait", "write", "leave"} => s \in observers'
        /\ spc'[s] \in {"new", "snapshot"} => spc[s] \in {"new", "snapshot"}
        /\ spc'[s] = "new" => spc[s] = "new" /\ shown'[s] = shown[s]
        /\ spc'[s] \notin {"new", "snapshot"} /\ ~cancelled'[s] =>
             unsent'[s] = {}
    <3>1. CASE StreamStep(s) /\ ~Register(s)
      BY <1>8, <3>1
         DEF StreamStep, WriteSnapshot, SnapshotWriteFails, LoopHead,
             CheckCancelled, TakeBatch, HandleEvent, WriteFails, BatchDone,
             Unregister, ReturnStream, TypeInv, TypeOK, StreamInv
    <3>2. CASE Register(s)
      BY <3>2 DEF Register, TypeInv, TypeOK
    <3>3. CASE Cancel(s)
      BY <3>3 DEF Cancel, TypeInv, TypeOK, StreamInv
    <3>4. ASSUME NEW f, NEW initial, OpenStream(s, f, initial)
          PROVE  spc[s] = "new" /\ spc'[s] = "snapshot"
      BY <3>4 DEF OpenStream, TypeInv, TypeOK
    <3> QED BY <1>8, <3>1, <3>2, <3>3, <3>4
  <2>4. Feed!Changes' = Feed!Changes
    BY <2>1 DEF Feed!Changes
  <2> QED BY <2>1, <2>2, <2>3, <2>4 DEF StreamInv
<1>9. CASE UNCHANGED vars
  BY <1>1, <1>9 DEF vars
<1> QED
  BY <1>3, <1>4, <1>5, <1>6, <1>7, <1>8, <1>9 DEF Next, Request, WorkerStep

LEMMA AckInvNext ==
  TypeInv /\ BroadcastOnce /\ AckInv /\ [Next]_vars => AckInv'
<1> SUFFICES ASSUME TypeInv, BroadcastOnce, AckInv, [Next]_vars PROVE AckInv'
  OBVIOUS
<1> USE DEF workerVars, queueVars, streamVars, historyVars
<1>1. ASSUME UNCHANGED <<routes, issued, acked, racy>>,
             \A w \in Workers : wpc'[w] # "idle" =>
               wpc[w] # "idle" /\ ev'[w] = ev[w]
      PROVE  AckInv'
  BY <1>1 DEF AckInv
<1>2. ASSUME NEW w \in Workers, NEW i \in Ids, AddRoute(w, i) PROVE AckInv'
  <2>1. \A v \in Workers : IF v = w THEN ev'[v] = Added(i)
                                    ELSE ev'[v] = ev[v] /\ wpc'[v] = wpc[v]
    BY <1>2 DEF AddRoute, StartNotify, TypeInv, TypeOK
  <2>2. i \notin acked /\ \A j : Added(j) = Added(i) => j = i
    BY <1>2 DEF AddRoute, FreshIds, AckInv, Added
  <2> QED BY <1>2, <2>1, <2>2 DEF AddRoute, AckInv
<1>3. ASSUME NEW w \in Workers, NEW i \in Ids, RemoveRoute(w, i) PROVE AckInv'
  <2>1. \A v \in Workers : IF v = w THEN ev'[v] = Removed(i)
                                    ELSE ev'[v] = ev[v] /\ wpc'[v] = wpc[v]
    BY <1>3 DEF RemoveRoute, StartNotify, TypeInv, TypeOK
  <2> QED BY <1>3, <2>1, EventFacts DEF RemoveRoute, Erased, AckInv
<1>4. ASSUME NEW w \in Workers, Reply(w) PROVE AckInv'
  <2>1. \A v \in Workers : IF v = w THEN wpc'[v] = "idle"
                                    ELSE ev'[v] = ev[v] /\ wpc'[v] = wpc[v]
    BY <1>4 DEF Reply, TypeInv, TypeOK
  <2>2. UNCHANGED <<routes, issued, racy>> /\ wpc[w] # "idle"
    BY <1>4 DEF Reply
  <2>3. CASE ev[w].type # "ADDED"
    BY <1>4, <2>1, <2>2, <2>3 DEF Reply, AckInv
  <2>4. CASE ev[w].type = "ADDED"
    <3>1. PICK i \in Ids : ev[w] = Added(i) /\ ev[w].id = i
      BY <2>2, <2>4 DEF TypeInv, Carries, Events, Added
    <3>2. acked' = acked \cup {i} /\ i \in issued
      BY <1>4, <2>2, <2>4, <3>1, ChangesFacts DEF Reply, BroadcastOnce
    <3>3. \A v \in Workers \ {w} : wpc[v] # "idle" => ev[v] # Added(i)
      BY <2>2, <3>1 DEF BroadcastOnce
    <3> QED BY <2>1, <2>2, <3>2, <3>3 DEF AckInv
  <2> QED BY <2>3, <2>4
<1>5. ASSUME NEW w \in Workers,
             \/ CopyObservers(w)
             \/ \E s \in Streams : CallObserver(w, s) \/ CallDanglingObserver(w, s)
      PROVE  AckInv'
  BY <1>1, <1>5 DEF CopyObservers, CallObserver, CallDanglingObserver, TypeInv,
                    TypeOK
<1>6. ASSUME NEW s \in Streams,
             \/ StreamStep(s) \/ Cancel(s)
             \/ \E f \in Families \cup {Unspecified}, initial \in BOOLEAN :
                  OpenStream(s, f, initial)
      PROVE  AckInv'
  BY <1>1, <1>6
     DEF StreamStep, WriteSnapshot, SnapshotWriteFails, Register,
         CheckCancelled, TakeBatch, HandleEvent, WriteFails, BatchDone,
         Unregister, ReturnStream, Cancel, OpenStream
<1>7. CASE UNCHANGED vars
  BY <1>1, <1>7 DEF vars
<1> QED
  BY <1>2, <1>3, <1>4, <1>5, <1>6, <1>7 DEF Next, Request, WorkerStep

\* No worker hands ADDED to a stream for a route that is gone and not racy.
LEMMA AddedInTime ==
  ASSUME TypeInv, BroadcastOnce, AckInv, NEW w \in Workers, wpc[w] # "idle",
         NEW i \in Ids \ racy, ev[w] = Added(i)
  PROVE  i \in routes
<1>1. i \in issued
  BY ChangesFacts DEF BroadcastOnce
<1>2. i \notin acked
  BY DEF AckInv
<1> QED BY <1>1, <1>2 DEF AckInv

LEMMA OrderInvNext ==
  /\ TypeInv /\ BroadcastOnce /\ StreamInv /\ AckInv /\ OrderInv /\ [Next]_vars
  => OrderInv'
<1> SUFFICES ASSUME TypeInv, BroadcastOnce, StreamInv, AckInv, OrderInv,
                    [Next]_vars
             PROVE  OrderInv'
  OBVIOUS
<1> USE DEF workerVars, queueVars, streamVars, historyVars
<1>1. ASSUME UNCHANGED <<routes, issued, racy, log, owed, missed>>
      PROVE  OrderInv'
  BY <1>1 DEF OrderInv, Got
<1>2. ASSUME NEW w \in Workers, NEW i \in Ids, AddRoute(w, i) PROVE OrderInv'
  BY <1>2, EventFacts DEF AddRoute, Commit, OrderInv, Got
<1>3. ASSUME NEW w \in Workers, NEW i \in Ids, RemoveRoute(w, i)
      PROVE  OrderInv'
  <2>1. /\ routes' = routes \ {i} /\ racy \subseteq racy' /\ UNCHANGED <<issued, log>>
        /\ \A s \in Streams : owed[s] \subseteq owed'[s] /\ missed[s] \subseteq missed'[s]
        /\ \A s \in Streams : i \in missed'[s] \/ Removed(i) \in owed'[s]
    BY <1>3, EventFacts DEF RemoveRoute, Erased, Commit
  <2>2. \A s \in Streams : Got(s)' = Got(s)
    BY <2>1 DEF Got
  <2> QED BY <2>1, <2>2 DEF OrderInv
<1>4. ASSUME NEW w \in Workers, NEW s \in Streams, CallObserver(w, s)
      PROVE  OrderInv'
  <2>1. /\ UNCHANGED <<routes, issued, racy, owed, missed>> /\ wpc[w] # "idle"
        /\ log' = [log EXCEPT ![s] = Append(@, ev[w])]
        /\ \A t \in Streams \ {s} : log'[t] = log[t] /\ Got(t)' = Got(t)
        /\ Got(s)' = Got(s) \cup {ev[w]} /\ ev[w] \in Events
        /\ Got(s) \subseteq Feed!Changes
    BY <1>4, GotAppend DEF CallObserver, TypeInv, TypeOK, Carries, BroadcastOnce
  <2> SUFFICES ASSUME NEW i \in Ids \ racy
        PROVE  /\ \A k, l \in 1 .. Len(log'[s]) :
                    log'[s][k] = Removed(i) /\ log'[s][l] = Added(i) => l < k
               /\ i \in issued \ (routes \cup missed[s]) /\ Added(i) \in Got(s)' =>
                    Removed(i) \in owed[s]
    BY <2>1 DEF OrderInv
  <2>2. ev[w] = Added(i) => i \in routes
    BY <2>1, AddedInTime
  <2>3. ev[w] = Added(i) => Removed(i) \notin Got(s)
    BY <2>1, <2>2, ChangesFacts
  <2>4. /\ Len(log[s]) \in Nat /\ Len(log'[s]) = Len(log[s]) + 1
        /\ log'[s][Len(log[s]) + 1] = ev[w]
        /\ \A k \in 1 .. Len(log[s]) : log'[s][k] = log[s][k]
    BY <2>1 DEF TypeInv, TypeOK
  <2>5. \A k \in 1 .. Len(log'[s]) :
          k \in 1 .. Len(log[s]) \/ (k = Len(log[s]) + 1 /\ log'[s][k] = ev[w])
    BY <2>4
  <2>6. ASSUME NEW k \in 1 .. Len(log'[s]), NEW l \in 1 .. Len(log'[s]),
               log'[s][k] = Removed(i), log'[s][l] = Added(i)
        PROVE  l < k
    <3>1. CASE k \in 1 .. Len(log[s]) /\ l \in 1 .. Len(log[s])
      BY <2>4, <2>6, <3>1 DEF OrderInv
    <3>2. CASE l \in 1 .. Len(log[s]) /\ k = Len(log[s]) + 1
      BY <2>4, <3>2
    <3>3. CASE l = Len(log[s]) + 1
      <4>1. ev[w] = Added(i) /\ k # l
        BY <2>4, <2>6, <3>3, EventFacts
      <4>2. Removed(i) \in Got(s)
        BY <2>4, <2>5, <2>6, <3>3, <4>1 DEF Got
      <4> QED BY <2>3, <4>1, <4>2
    <3> QED BY <2>5, <3>1, <3>2, <3>3
  <2>7. ASSUME i \in issued \ (routes \cup missed[s]), Added(i) \in Got(s)'
        PROVE  Removed(i) \in owed[s]
    BY <2>1, <2>2, <2>7 DEF OrderInv
  <2> QED BY <2>6, <2>7
\* The only step that shrinks missed: nobody has called this stream so far.
<1>5. ASSUME NEW s \in Streams, NEW f \in Families \cup {Unspecified},
             NEW initial \in BOOLEAN, OpenStream(s, f, initial)
      PROVE  OrderInv'
  <2>1. /\ UNCHANGED <<routes, issued, racy, owed, log>>
        /\ log[s] = <<>>
        /\ \A t \in Streams \ {s} : missed'[t] = missed[t]
    BY <1>5 DEF OpenStream, Goto, StreamInv, TypeInv, TypeOK
  <2>2. \A t \in Streams : Got(t)' = Got(t)
    BY <2>1 DEF Got
  <2>3. Got(s) = {} /\ Len(log[s]) = 0
    BY <2>1 DEF Got
  <2> QED BY <2>1, <2>2, <2>3 DEF OrderInv
<1>6. ASSUME NEW w \in Workers,
             \/ CopyObservers(w) \/ Reply(w)
             \/ \E s \in Streams : CallDanglingObserver(w, s)
      PROVE  OrderInv'
  BY <1>1, <1>6 DEF CopyObservers, Reply, CallDanglingObserver
<1>7. ASSUME NEW s \in Streams, StreamStep(s) \/ Cancel(s) PROVE OrderInv'
  BY <1>1, <1>7
     DEF StreamStep, WriteSnapshot, SnapshotWriteFails, Register,
         CheckCancelled, TakeBatch, HandleEvent, WriteFails, BatchDone,
         Unregister, ReturnStream, Cancel
<1>8. CASE UNCHANGED vars
  BY <1>1, <1>8 DEF vars
<1> QED
  BY <1>2, <1>3, <1>4, <1>5, <1>6, <1>7, <1>8 DEF Next, Request, WorkerStep

LEMMA CopyInvNext ==
  /\ TypeInv /\ RegisteredLive /\ StreamInv /\ CopyInv /\ [Next]_vars
  => CopyInv'
<1> SUFFICES ASSUME TypeInv, RegisteredLive, StreamInv, CopyInv, [Next]_vars
             PROVE  CopyInv'
  OBVIOUS
<1> USE DEF workerVars, queueVars, streamVars, historyVars
<1>1. ASSUME UNCHANGED <<routes, filter, unsent, shown, owed, missed>>,
             \A s \in Streams : /\ spc'[s] # "new" => spc[s] # "new"
                                /\ cancelled[s] => cancelled'[s]
      PROVE  CopyInv'
  BY <1>1 DEF CopyInv, Match
<1>2. ASSUME NEW w \in Workers, NEW i \in Ids, AddRoute(w, i) PROVE CopyInv'
  <2>1. /\ routes' = routes \cup {i} /\ Commit(Added(i)) /\ Added(i).id = i
        /\ UNCHANGED <<filter, unsent, shown, spc, cancelled>>
    BY <1>2, EventFacts DEF AddRoute
  <2>2. \A s \in Streams : Removed(i) \notin owed[s]
    BY <1>2, ChangesFacts DEF AddRoute, FreshIds, StreamInv
  <2>3. \A j : Added(j) = Added(i) => j = i
    BY DEF Added
  <2> QED BY <2>1, <2>2, <2>3, EventFacts DEF CopyInv, Match, Commit
<1>3. ASSUME NEW w \in Workers, NEW i \in Ids, RemoveRoute(w, i) PROVE CopyInv'
  <2>1. /\ routes' = routes \ {i} /\ Commit(Removed(i)) /\ Removed(i).id = i
        /\ UNCHANGED <<filter, unsent, shown, spc, cancelled>>
    BY <1>3, EventFacts DEF RemoveRoute, Erased
  <2>2. \A j : Removed(j) = Removed(i) => j = i
    BY DEF Removed
  <2> QED BY <2>1, <2>2, EventFacts DEF CopyInv, Match, Commit
<1>4. ASSUME NEW s \in Streams, NEW f \in Families \cup {Unspecified},
             NEW initial \in BOOLEAN, OpenStream(s, f, initial)
      PROVE  CopyInv'
  <2>1. /\ spc[s] = "new" /\ shown[s] = {} /\ owed[s] = {}
        /\ UNCHANGED <<routes, owed, shown, cancelled>>
        /\ \A t \in Streams \ {s} :
             /\ missed'[t] = missed[t] /\ filter'[t] = filter[t]
             /\ unsent'[t] = unsent[t] /\ spc'[t] = spc[t]
        /\ filter'[s] = f
        /\ unsent'[s] = IF initial THEN ListRoutes(f) ELSE {}
        /\ missed'[s] = IF initial THEN {} ELSE issued
    BY <1>4 DEF OpenStream, Goto, StreamInv, RegisteredLive, TypeInv, TypeOK
  <2>2. \A i \in Ids \ missed'[s] : Match(s, i)' =>
          (i \in routes <=> i \in unsent'[s])
    BY <2>1 DEF Match, ListRoutes, TypeInv, TypeOK
  <2> QED BY <2>1, <2>2 DEF CopyInv, Match
<1>5. ASSUME NEW s \in Streams, NEW i \in Ids, WriteSnapshot(s, i)
      PROVE  CopyInv'
  BY <1>5 DEF WriteSnapshot, CopyInv, Match, TypeInv, TypeOK
<1>6. ASSUME NEW w \in Workers, WorkerStep(w) PROVE CopyInv'
  BY <1>1, <1>6 DEF WorkerStep, CopyObservers, CallObserver,
                    CallDanglingObserver, Reply
<1>7. ASSUME NEW s \in Streams,
             \/ Cancel(s)
             \/ StreamStep(s) /\ ~\E i \in Ids : WriteSnapshot(s, i)
      PROVE  CopyInv'
  BY <1>1, <1>7
     DEF StreamStep, SnapshotWriteFails, Register, CheckCancelled, TakeBatch,
         HandleEvent, WriteFails, BatchDone, Unregister, ReturnStream, Cancel,
         Goto, TypeInv, TypeOK
<1>8. CASE UNCHANGED vars
  BY <1>1, <1>8 DEF vars
<1> QED
  BY <1>2, <1>3, <1>4, <1>5, <1>6, <1>7, <1>8 DEF Next, Request

ViewInv ==
  /\ OwedInv /\ BroadcastOnce /\ StreamInv /\ AckInv /\ OrderInv /\ CopyInv

LEMMA ViewInit == Init => ViewInv
<1>1. Init => StreamInv /\ AckInv /\ OrderInv /\ CopyInv
  BY DEF Init, StreamInv, AckInv, OrderInv, CopyInv, Got
<1>2. Init => OwedInv
  BY TypeInit, OwedInit DEF OwedInv, RegisteredLive, Init
<1> QED BY <1>1, <1>2, BroadcastInit DEF ViewInv

LEMMA ViewNext == ViewInv /\ [Next]_vars => ViewInv'
BY TypeNext, RegisteredLiveNext, OwedNext, BroadcastNext, StreamInvNext,
   AckInvNext, OrderInvNext, CopyInvNext
   DEF ViewInv, OwedInv

\* What the invariant says of a stream when nothing is under way.
LEMMA ViewIsExact == ViewInv => ViewExact
<1> SUFFICES ASSUME ViewInv, NEW s \in Streams, Quiescent(s),
                    NEW i \in Ids \ (missed[s] \cup racy)
             PROVE  i \in View(s) <=> i \in ListRoutes(filter[s])
  BY DEF ViewExact
<1> USE DEF ViewInv, OwedInv
<1>1. /\ written[s] = Len(log[s]) /\ Handled(s) = Got(s)
      /\ ~cancelled[s] /\ spc[s] = "wait" /\ unsent[s] = {}
  BY DEF Quiescent, Handled, Got, StreamInv
<1>2. owed[s] \subseteq Got(s) /\ Got(s) \subseteq Feed!Changes
  <2>1. \A e : \A w \in Workers : ~InFlight(w, e, s)
    BY DEF Quiescent, InFlight
  <2> QED BY <1>1, <2>1 DEF OwedNotLost, Registered, StreamInv, BroadcastOnce
<1>3. i \in ListRoutes(filter[s]) <=> i \in routes /\ Match(s, i)
  BY DEF ListRoutes, Match
<1>4. CASE ~Match(s, i)
  BY <1>3, <1>4 DEF View
<1>5. CASE Match(s, i)
  <2>1. i \in routes <=> /\ i \in shown[s] \/ Added(i) \in owed[s]
                         /\ Removed(i) \notin owed[s]
    BY <1>1, <1>5 DEF CopyInv
  <2>2. i \in View(s) <=>
          \/ i \in shown[s] /\ Removed(i) \notin Got(s)
          \/ \E k \in 1 .. Len(log[s]) :
               /\ log[s][k] = Added(i)
               /\ \A l \in k + 1 .. Len(log[s]) : log[s][l] # Removed(i)
    BY <1>1, <1>5 DEF View
  <2>3. ASSUME i \in routes PROVE i \in View(s)
    <3>1. Removed(i) \notin Got(s)
      BY <1>2, <2>3, ChangesFacts
    <3>2. \A l \in 1 .. Len(log[s]) : log[s][l] # Removed(i)
      BY <3>1 DEF Got
    <3>3. Len(log[s]) \in Nat
      BY DEF TypeInv, TypeOK
    <3>4. \A k \in 1 .. Len(log[s]) :
            \A l \in k + 1 .. Len(log[s]) : log[s][l] # Removed(i)
      BY <3>2, <3>3
    <3> QED BY <1>2, <2>1, <2>2, <2>3, <3>1, <3>4 DEF Got
  <2>4. ASSUME i \in shown[s], Removed(i) \notin Got(s) PROVE i \in routes
    BY <1>2, <2>1, <2>4
  <2>5. ASSUME NEW k \in 1 .. Len(log[s]), log[s][k] = Added(i),
               \A l \in k + 1 .. Len(log[s]) : log[s][l] # Removed(i),
               i \notin routes
        PROVE  FALSE
    <3>1. Added(i) \in Got(s)
      BY <2>5 DEF Got
    <3>2. i \in issued
      BY <1>2, <3>1, ChangesFacts
    <3>3. Removed(i) \in Got(s)
      BY <1>2, <2>5, <3>1, <3>2 DEF OrderInv
    <3>4. PICK l \in 1 .. Len(log[s]) : log[s][l] = Removed(i)
      BY <3>3 DEF Got
    <3>5. k < l
      BY <2>5, <3>4 DEF OrderInv
    <3>6. Len(log[s]) \in Nat
      BY DEF TypeInv, TypeOK
    <3>7. l \in k + 1 .. Len(log[s])
      BY <3>5, <3>6
    <3> QED BY <2>5, <3>4, <3>7
  <2> QED BY <1>3, <1>5, <2>2, <2>3, <2>4, <2>5
<1> QED BY <1>4, <1>5

\* A client that follows its stream has an exact copy of the table whenever
\* the workers are done and its queue is drained, but for the routes the code
\* gives no order for: those that changed between the snapshot and the
\* registration, and those removed before their AddRoute was answered.
THEOREM ViewIsExactWhenQuiescent == Spec => []ViewExact
BY ViewInit, ViewNext, ViewIsExact, PTL DEF Spec
=============================================================================
