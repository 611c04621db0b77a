---------------------------- MODULE RouteManager ----------------------------
(***************************************************************************)
(* The route table of srmd and its WatchRoutes streams.                    *)
(*                                                                         *)
(* A worker is a gRPC thread running AddRoute or RemoveRoute: it commits   *)
(* to the table under routesMutex_, copies the observer map under          *)
(* observersMutex_ and then calls the copies with no lock held.  A stream  *)
(* is one WatchRoutes call: it writes a snapshot, registers an observer    *)
(* that lives in its stack frame and forwards what the observer collects.  *)
(*                                                                         *)
(* A Route record is identified with its id; its family and its            *)
(* (destination, gateway, interface) key are functions of the id.  The     *)
(* vectors `pending' and `batch' of a stream are the last two parts of     *)
(* log, the sequence of every event its observer was ever called with.     *)
(***************************************************************************)
EXTENDS Naturals, Sequences

CONSTANTS
  Ids,        \* ids generateId() may hand out: each is used at most once
  Families,   \* the address families a route may have
  Unspecified, \* ADDRESS_FAMILY_UNSPECIFIED: the filter that keeps all routes
  FamilyOf,   \* the address family of the route with a given id
  Workers,    \* gRPC threads that serve AddRoute and RemoveRoute
  Streams     \* WatchRoutes calls, each one invocation of the handler

ASSUME RouteAssumption ==
  /\ FamilyOf \in [Ids -> Families]
  /\ Unspecified \notin Families

VARIABLES
  routes,     \* routes_: ids in the table
  issued,     \* ids handed out so far
  observers,  \* observers_: streams whose callback is registered
  wpc,        \* where each worker is
  ev,         \* the event a worker is broadcasting
  todo,       \* notifyObservers' copies a worker has still to call
  spc,        \* where each stream is
  filter,     \* req->address_family() of each stream
  unsent,     \* snapshot routes a stream has not written yet
  shown,      \* snapshot routes a stream has written
  log,        \* every event a stream's observer was called with, in order
  taken,      \* log[1 .. taken] has been swapped out of pending
  written,    \* log[1 .. written] has been handled by the write loop
  cancelled,  \* the client is gone, or the server is shutting down
  up          \* FALSE once an observer of a dead frame did damage

\* History variables: what the properties compare the streams with.
VARIABLES
  owed,       \* events committed while the stream's observer was registered
  missed,     \* ids committed after the snapshot, before the registration
  acked,      \* ids whose AddRoute has returned to its caller
  racy        \* ids removed before their AddRoute returned

workerVars == <<wpc, ev, todo>>
queueVars == <<log, taken, written>>
streamVars == <<spc, filter, unsent, shown, cancelled>>
historyVars == <<owed, missed, acked, racy>>
vars == <<routes, issued, observers, workerVars, queueVars, streamVars, up,
          historyVars>>

Events == [type : {"ADDED", "REMOVED"}, id : Ids]
Added(i) == [type |-> "ADDED", id |-> i]
Removed(i) == [type |-> "REMOVED", id |-> i]
NoEvent == [type |-> "NONE"]

Match(s, i) == filter[s] = Unspecified \/ FamilyOf[i] = filter[s]

Registered(s) == s \in observers

\* The events a stream's observer got, and those of them it has handled.
Got(s) == {log[s][k] : k \in 1 .. Len(log[s])}
Handled(s) == {log[s][k] : k \in 1 .. written[s]}

TypeOK ==
  /\ routes \subseteq issued
  /\ issued \subseteq Ids
  /\ observers \subseteq Streams
  /\ wpc \in [Workers -> {"idle", "notify", "call"}]
  /\ ev \in [Workers -> Events \cup {NoEvent}]
  /\ todo \in [Workers -> SUBSET Streams]
  /\ spc \in [Streams -> {"new", "snapshot", "loop", "wait", "write",
                          "leave", "return", "done"}]
  /\ filter \in [Streams -> Families \cup {Unspecified}]
  /\ unsent \in [Streams -> SUBSET Ids]
  /\ shown \in [Streams -> SUBSET Ids]
  /\ log \in [Streams -> Seq(Events)]
  /\ taken \in [Streams -> Nat]
  /\ written \in [Streams -> Nat]
  /\ \A s \in Streams : written[s] <= taken[s] /\ taken[s] <= Len(log[s])
  /\ cancelled \in [Streams -> BOOLEAN]
  /\ up \in BOOLEAN
  /\ owed \in [Streams -> SUBSET Events]
  /\ missed \in [Streams -> SUBSET Ids]
  /\ acked \subseteq Ids
  /\ racy \subseteq Ids

Init ==
  /\ routes = {} /\ issued = {} /\ observers = {}
  /\ wpc = [w \in Workers |-> "idle"]
  /\ ev = [w \in Workers |-> NoEvent]
  /\ todo = [w \in Workers |-> {}]
  /\ spc = [s \in Streams |-> "new"]
  /\ filter = [s \in Streams |-> Unspecified]
  /\ unsent = [s \in Streams |-> {}]
  /\ shown = [s \in Streams |-> {}]
  /\ log = [s \in Streams |-> <<>>]
  /\ taken = [s \in Streams |-> 0]
  /\ written = [s \in Streams |-> 0]
  /\ cancelled = [s \in Streams |-> FALSE]
  /\ up = TRUE
  /\ owed = [s \in Streams |-> {}]
  /\ missed = [s \in Streams |-> {}]
  /\ acked = {} /\ racy = {}

-----------------------------------------------------------------------------
(* RouteManager: AddRoute, RemoveRoute and notifyObservers.  A request with *)
(* an empty destination, an empty id or an unknown id is answered without   *)
(* any change of state and is no step of the model.                         *)

\* What a commit of event e means to each stream, for the history variables.
Commit(e) ==
  /\ owed' = [s \in Streams |->
                IF Registered(s) THEN owed[s] \cup {e} ELSE owed[s]]
  /\ missed' = [s \in Streams |->
                IF Registered(s) THEN missed[s] ELSE missed[s] \cup {e.id}]

StartNotify(w, e) ==
  /\ wpc[w] = "idle"
  /\ wpc' = [wpc EXCEPT ![w] = "notify"]
  /\ ev' = [ev EXCEPT ![w] = e]

\* Ids generateId() can return: a kernel UUID is never returned twice.
FreshIds_Reused == Ids \ routes
FreshIds == Ids \ issued

\* addRoute up to the release of routesMutex_.
AddRoute(w, i) ==
  /\ i \in FreshIds
  /\ StartNotify(w, Added(i))
  /\ routes' = routes \cup {i}
  /\ issued' = issued \cup {i}
  /\ Commit(Added(i))
  /\ UNCHANGED <<observers, todo, queueVars, streamVars, up, acked, racy>>

\* routes_.erase(it).
Erased_Kept(i) == routes
Erased(i) == routes \ {i}

\* removeRoute up to the release of routesMutex_.
RemoveRoute(w, i) ==
  /\ i \in routes
  /\ StartNotify(w, Removed(i))
  /\ routes' = Erased(i)
  /\ racy' = IF i \in acked THEN racy ELSE racy \cup {i}
  /\ Commit(Removed(i))
  /\ UNCHANGED <<issued, observers, todo, queueVars, streamVars, up, acked>>

\* The observers one notification calls.
Copied_TryLock == {s \in observers : spc[s] # "write"}
Copied == observers

\* notifyObservers copies the observer map under observersMutex_.
CopyObservers(w) ==
  /\ wpc[w] = "notify"
  /\ wpc' = [wpc EXCEPT ![w] = "call"]
  /\ todo' = [todo EXCEPT ![w] = Copied]
  /\ UNCHANGED <<routes, issued, observers, ev, queueVars, streamVars, up,
                 historyVars>>

\* The copies left to call after that of s.
StillToCall(w, s) == todo[w] \ {s}

\* One call of a copied observer, while the frame it refers to is alive.
CallObserver(w, s) ==
  /\ wpc[w] = "call" /\ s \in todo[w] /\ spc[s] # "done"
  /\ log' = [log EXCEPT ![s] = Append(@, ev[w])]
  /\ todo' = [todo EXCEPT ![w] = StillToCall(w, s)]
  /\ UNCHANGED <<routes, issued, observers, wpc, ev, taken, written,
                 streamVars, up, historyVars>>

\* The same call after WatchRoutes returned: the captured references dangle.
\* The call goes unnoticed, or the process is lost (crash, hang, corruption).
CallDanglingObserver(w, s) ==
  /\ wpc[w] = "call" /\ s \in todo[w] /\ spc[s] = "done"
  /\ todo' = [todo EXCEPT ![w] = StillToCall(w, s)]
  /\ up' \in BOOLEAN
  /\ UNCHANGED <<routes, issued, observers, wpc, ev, queueVars, streamVars,
                 historyVars>>

\* addRoute or removeRoute returns and the RPC is answered.
Reply(w) ==
  /\ wpc[w] = "call" /\ todo[w] = {}
  /\ wpc' = [wpc EXCEPT ![w] = "idle"]
  /\ ev' = [ev EXCEPT ![w] = NoEvent]
  /\ acked' = IF ev[w].type = "ADDED" THEN acked \cup {ev[w].id} ELSE acked
  /\ UNCHANGED <<routes, issued, observers, todo, queueVars, streamVars, up,
                 owed, missed, racy>>

-----------------------------------------------------------------------------
(* WatchRoutes.                                                             *)

\* listRoutes with an address-family filter, under a shared lock.
ListRoutes(f) == {i \in routes : f = Unspecified \/ FamilyOf[i] = f}

Goto(s, from, to) == spc[s] = from /\ spc' = [spc EXCEPT ![s] = to]

\* The call arrives; with send_initial_state it lists the table.
OpenStream(s, f, initial) ==
  /\ Goto(s, "new", "snapshot")
  /\ filter' = [filter EXCEPT ![s] = f]
  /\ unsent' = [unsent EXCEPT ![s] = IF initial THEN ListRoutes(f) ELSE {}]
  /\ missed' = [missed EXCEPT ![s] = IF initial THEN {} ELSE issued]
  /\ UNCHANGED <<routes, issued, observers, workerVars, queueVars, shown,
                 cancelled, up, owed, acked, racy>>

\* Write() of one snapshot route.  A write to a cancelled call may still
\* return true, but reaches nobody.
WriteSnapshot(s, i) ==
  /\ spc[s] = "snapshot" /\ i \in unsent[s]
  /\ unsent' = [unsent EXCEPT ![s] = @ \ {i}]
  /\ shown' = IF cancelled[s] THEN shown ELSE [shown EXCEPT ![s] = @ \cup {i}]
  /\ UNCHANGED <<routes, issued, observers, workerVars, queueVars, spc, filter,
                 cancelled, up, historyVars>>

\* Write() of a snapshot route fails: the handler returns, never registered.
SnapshotWriteFails(s) ==
  /\ unsent[s] # {} /\ cancelled[s]
  /\ Goto(s, "snapshot", "done")
  /\ UNCHANGED <<routes, issued, observers, workerVars, queueVars, filter,
                 unsent, shown, cancelled, up, historyVars>>

\* registerObserver, only once the whole snapshot is written.
Register(s) ==
  /\ unsent[s] = {}
  /\ Goto(s, "snapshot", "loop")
  /\ observers' = observers \cup {s}
  /\ UNCHANGED <<routes, issued, workerVars, queueVars, filter, unsent, shown,
                 cancelled, up, historyVars>>

\* The loop head: while (!ctx->IsCancelled()).
LoopHead_NoCheck(s) == "wait"
LoopHead(s) == IF cancelled[s] THEN "leave" ELSE "wait"

CheckCancelled(s) ==
  /\ Goto(s, "loop", LoopHead(s))
  /\ UNCHANGED <<routes, issued, observers, workerVars, queueVars, filter,
                 unsent, shown, cancelled, up, historyVars>>

\* std::swap(batch, pending): the batch ends where the log ends.
BatchEnd_PastEnd(s) == Len(log[s]) + 1
BatchEnd(s) == Len(log[s])

\* wait_for returns, on an event or after 200 ms, and pending is swapped out.
TakeBatch(s) ==
  /\ Goto(s, "wait", "write")
  /\ taken' = [taken EXCEPT ![s] = BatchEnd(s)]
  /\ UNCHANGED <<routes, issued, observers, workerVars, log, written, filter,
                 unsent, shown, cancelled, up, historyVars>>

\* One event of the batch: skipped by the filter, or a Write() that returns
\* true.  Whether it reached the client is what `cancelled' says.
HandleEvent(s) ==
  /\ spc[s] = "write" /\ written[s] < taken[s]
  /\ written' = [written EXCEPT ![s] = @ + 1]
  /\ UNCHANGED <<routes, issued, observers, workerVars, log, taken, streamVars,
                 up, historyVars>>

\* A Write() of the batch fails: unregister and return, the rest is dropped.
WriteFails(s) ==
  /\ written[s] < taken[s] /\ cancelled[s]
  /\ Match(s, log[s][written[s] + 1].id)
  /\ Goto(s, "write", "leave")
  /\ UNCHANGED <<routes, issued, observers, workerVars, queueVars, filter,
                 unsent, shown, cancelled, up, historyVars>>

BatchDone(s) ==
  /\ written[s] = taken[s]
  /\ Goto(s, "write", "loop")
  /\ UNCHANGED <<routes, issued, observers, workerVars, queueVars, filter,
                 unsent, shown, cancelled, up, historyVars>>

\* unregisterObserver erases the map entry; copies made before it live on.
Unregister(s) ==
  /\ Goto(s, "leave", "return")
  /\ observers' = observers \ {s}
  /\ UNCHANGED <<routes, issued, workerVars, queueVars, filter, unsent, shown,
                 cancelled, up, historyVars>>

\* The handler returns: eventMutex, eventCv and pending are destroyed.
ReturnStream(s) ==
  /\ Goto(s, "return", "done")
  /\ UNCHANGED <<routes, issued, observers, workerVars, queueVars, filter,
                 unsent, shown, cancelled, up, historyVars>>

\* The client cancels or disconnects, or srmd shuts its server down.
Cancel(s) ==
  /\ spc[s] \notin {"new", "done"} /\ ~cancelled[s]
  /\ cancelled' = [cancelled EXCEPT ![s] = TRUE]
  /\ UNCHANGED <<routes, issued, observers, workerVars, queueVars, spc, filter,
                 unsent, shown, up, historyVars>>

-----------------------------------------------------------------------------

WorkerStep(w) ==
  \/ CopyObservers(w)
  \/ \E s \in Streams : CallObserver(w, s) \/ CallDanglingObserver(w, s)
  \/ Reply(w)

StreamStep(s) ==
  \/ \E i \in Ids : WriteSnapshot(s, i)
  \/ SnapshotWriteFails(s) \/ Register(s) \/ CheckCancelled(s)
  \/ TakeBatch(s) \/ HandleEvent(s) \/ WriteFails(s) \/ BatchDone(s)
  \/ Unregister(s) \/ ReturnStream(s)

Request ==
  \/ \E w \in Workers, i \in Ids : AddRoute(w, i) \/ RemoveRoute(w, i)
  \/ \E s \in Streams, f \in Families \cup {Unspecified}, initial \in BOOLEAN :
       OpenStream(s, f, initial)
  \/ \E s \in Streams : Cancel(s)

Next ==
  /\ up
  /\ \/ Request
     \/ \E w \in Workers : WorkerStep(w)
     \/ \E s \in Streams : StreamStep(s)

\* Every thread that can run eventually runs; clients are free not to call, but
\* a client that stays reads its stream (Write() blocks on one that does not).
Fairness ==
  /\ \A w \in Workers : WF_vars(up /\ WorkerStep(w))
  /\ \A s \in Streams : WF_vars(up /\ StreamStep(s))

Spec == Init /\ [][Next]_vars /\ Fairness

-----------------------------------------------------------------------------
(* Properties.                                                              *)

\* The specification the table and its notifications implement.
Feed == INSTANCE RouteFeed WITH inbox <- log, ever <- issued

\* Worker w still has to hand event e to stream s.
InFlight(w, e, s) ==
  /\ ev[w] = e
  /\ wpc[w] = "notify" \/ (wpc[w] = "call" /\ s \in todo[w])

\* Notifying outside the locks loses nothing: an event committed while a
\* stream was registered has reached the stream's queue, or a worker still
\* carries it, as long as the stream stays registered.
OwedNotLost ==
  \A s \in Streams : Registered(s) =>
    \A e \in owed[s] :
      e \in Got(s) \/ \E w \in Workers : InFlight(w, e, s)

\* What makes delivery exactly once although no lock is held across it: a
\* change is broadcast by one worker only, after its commit, and a stream that
\* worker has still to call has not seen the change.
BroadcastOnce ==
  /\ \A w \in Workers : wpc[w] # "idle" =>
       /\ ev[w] \in Feed!Changes
       /\ \A v \in Workers \ {w} : wpc[v] # "idle" => ev[v] # ev[w]
       /\ \A s \in Streams : InFlight(w, ev[w], s) => ev[w] \notin Got(s)
  /\ \A s \in Streams : Got(s) \subseteq Feed!Changes

\* The routes the client of s believes in, from what was written to it.
View(s) ==
  {i \in Ids : /\ Match(s, i)
               /\ \/ i \in shown[s] /\ Removed(i) \notin Handled(s)
                  \/ \E k \in 1 .. written[s] :
                       /\ log[s][k] = Added(i)
                       /\ \A l \in k + 1 .. written[s] :
                            log[s][l] # Removed(i)}

Quiescent(s) ==
  /\ spc[s] = "wait" /\ ~cancelled[s] /\ written[s] = Len(log[s])
  /\ \A w \in Workers : wpc[w] = "idle"

\* Once the workers are done and the queue is drained, the client's copy of
\* the table is exact, but for two kinds of routes: those that changed between
\* the snapshot and the registration, and those removed by a caller that did
\* not wait for the AddRoute reply (REMOVED may then overtake ADDED).
ViewExact ==
  \A s \in Streams : Quiescent(s) =>
    \A i \in Ids \ (missed[s] \cup racy) :
      i \in View(s) <=> i \in ListRoutes(filter[s])

\* An event owed to a stream is handled by its write loop, unless the stream
\* is cancelled: pending is drained however busy the workers are.
OwedIsHandled ==
  \A s \in Streams, e \in Events :
    e \in owed[s] ~> (e \in Handled(s) \/ cancelled[s] \/ ~up)

\* A cancelled WatchRoutes call returns, so that the server can shut down.
CancelledReturns ==
  \A s \in Streams : cancelled[s] ~> (spc[s] = "done" \/ ~up)

\* The route table implements RouteFeed: each stream is told each committed
\* change at most once, and nothing that was not committed.
FeedSpec == Feed!Spec

-----------------------------------------------------------------------------
(* What the comments of the code say and the code does not do.              *)

\* route_manager.hpp on unregisterObserver: removal is deferred until the
\* notification cycle in progress completes, so no copy outlives the frame.
NoDanglingObserver ==
  \A w \in Workers : \A s \in todo[w] : wpc[w] = "call" => spc[s] # "done"
=============================================================================
