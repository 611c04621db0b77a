----------------------------- MODULE WatchMirror -----------------------------
(***************************************************************************)
(* "sra watch": the /32 OSPF routes of the kernel are mirrored into srmd.  *)
(* cmdNetlinkWatch dumps the kernel table and adds every route to srmd,    *)
(* then opens a netlink socket; from there on nlWatchCb turns each event   *)
(* into AddRoute and RemoveRoute calls and remembers the ids srmd returns. *)
(*                                                                         *)
(* The kernel is external: per destination and metric it has at most one   *)
(* route, over a set of nexthops.  A nexthop stands for a gateway and an   *)
(* interface.  The dump lists a route once per nexthop; an event carries   *)
(* one nexthop only, or None when the kernel sends RTA_MULTIPATH, which    *)
(* nl_dispatch skips.  srmd keeps what AddRoute gave it (RouteManager).    *)
(***************************************************************************)
EXTENDS Naturals, Sequences, FiniteSets

CONSTANTS
  Dests,      \* /32 destinations
  Metrics,    \* routes to one destination may differ in their metric
  Hops,       \* nexthops
  None,       \* no gateway and no interface
  MaxId,      \* bound on the routes srmd holds
  MaxQueue,   \* bound on the events waiting in the netlink socket
  MaxChanges, \* bound on the changes the kernel makes to its table
  MaxFaults   \* bound on the failed calls and restarts of srmd

ASSUME WatchAssumption ==
  /\ None \notin Hops /\ IsFiniteSet(Hops) /\ IsFiniteSet(Metrics)
  /\ MaxId \in Nat \ {0} /\ MaxQueue \in Nat \ {0}
  /\ MaxChanges \in Nat /\ MaxFaults \in Nat

Ids == 1 .. MaxId
Keys == Dests \X (Hops \cup {None})     \* "dest|gw|iface"
NoKey == <<>>

VARIABLES
  kernel,     \* the nexthops of the route with a destination and a metric
  nlq,        \* events in the netlink socket, oldest first
  overrun,    \* the socket lost an event: the next recv() fails with ENOBUFS
  fd,         \* the netlink socket: none, open or closed
  wpc,        \* where the watch thread is
  todo,       \* dumped routes not yet added to srmd
  cur,        \* the event being handled, or NoKey
  mirror,     \* ctx.routes: key -> absent, an id, or 0 for an empty srmdId
  published,  \* the keys last handed to UdpTableServer
  srmd,       \* srmd's table: id -> key, or NoKey
  late,       \* calls that failed at sra and srmd may still execute
  signalled,  \* SIGINT or SIGTERM was received
  changes,    \* how often the kernel changed its table
  faults      \* how many calls failed and how often srmd restarted

\* History: why a destination may differ between the kernel and srmd.
VARIABLE why

Absent == MaxId + 1
NoId == 0
Causes == {"gap", "overrun", "failed add", "failed remove", "restart",
           "multipath", "metric", "foreign"}

kernelVars == <<kernel, nlq, overrun, changes>>
vars == <<kernelVars, fd, wpc, todo, cur, mirror, published, srmd, late,
          signalled, faults, why>>

Tracked == {k \in Keys : mirror[k] # Absent}
Events == {"ADDED", "CHANGED", "REMOVED"} \X Keys

TypeOK ==
  /\ kernel \in [Dests \X Metrics -> SUBSET Hops]
  /\ nlq \in Seq(Events) /\ Len(nlq) <= MaxQueue
  /\ overrun \in BOOLEAN /\ signalled \in BOOLEAN
  /\ fd \in {"none", "open", "closed"}
  /\ wpc \in {"start", "dump", "open", "recv", "purge", "add", "remove", "done"}
  /\ todo \subseteq Dests \X Metrics \X Hops /\ (todo # {} => wpc = "dump")
  /\ cur \in Keys \cup {NoKey}
  /\ mirror \in [Keys -> Ids \cup {NoId, Absent}]
  /\ published \subseteq Keys
  /\ srmd \in [Ids -> Keys \cup {NoKey}]
  /\ late \subseteq ({"add"} \X Keys) \cup ({"remove"} \X Ids)
  /\ changes \in 0 .. MaxChanges /\ faults \in 0 .. MaxFaults
  /\ why \in [Dests -> SUBSET Causes]

Blame(D, c) == why' = [d \in Dests |-> IF d \in D THEN why[d] \cup {c} ELSE why[d]]

-----------------------------------------------------------------------------
(* The kernel (external).                                                   *)

\* The key of an event about a route over the nexthops H.
KeyOf(d, H) == IF \E h \in H : H = {h} THEN <<d, CHOOSE h \in Hops : H = {h}>>
               ELSE <<d, None>>

\* The event reaches the socket, overruns it, or finds nobody listening.
Notify(type, d, H, cause) ==
  LET causes == (IF Cardinality(H) > 1 THEN {"multipath"} ELSE {}) \cup cause
  IN
  IF fd # "open" THEN
    /\ why' = [why EXCEPT ![d] = @ \cup causes \cup
                                 (IF wpc = "start" THEN {} ELSE {"gap"})]
    /\ UNCHANGED <<nlq, overrun>>
  ELSE IF Len(nlq) = MaxQueue THEN
    /\ overrun' = TRUE
    /\ why' = [why EXCEPT ![d] = @ \cup causes \cup {"overrun"}]
    /\ UNCHANGED nlq
  ELSE
    /\ nlq' = Append(nlq, <<type, KeyOf(d, H)>>)
    /\ why' = [why EXCEPT ![d] = @ \cup causes]
    /\ UNCHANGED overrun

SetKernelRoute(d, m, H) ==
  /\ changes < MaxChanges /\ changes' = changes + 1
  /\ kernel' = [kernel EXCEPT ![<<d, m>>] = H]
  /\ UNCHANGED <<fd, wpc, todo, cur, mirror, published, srmd, late, signalled,
                 faults>>

\* Two routes to one destination: the code cannot tell them apart.
Metric(d, m) ==
  IF \E n \in Metrics \ {m} : kernel[<<d, n>>] # {} THEN {"metric"} ELSE {}

AddKernelRoute(d, m, H) ==
  /\ kernel[<<d, m>>] = {} /\ H # {}
  /\ SetKernelRoute(d, m, H)
  /\ Notify("ADDED", d, H, Metric(d, m))

\* "ip route replace": NLM_F_REPLACE is set in the event.
ReplaceKernelRoute(d, m, H) ==
  /\ kernel[<<d, m>>] \notin {{}, H} /\ H # {}
  /\ SetKernelRoute(d, m, H)
  /\ Notify("CHANGED", d, H, {})

RemoveKernelRoute(d, m) ==
  /\ kernel[<<d, m>>] # {}
  /\ SetKernelRoute(d, m, {})
  /\ Notify("REMOVED", d, kernel[<<d, m>>], {})

\* A route of another protocol replaces the OSPF route: nlWatchCb ignores it.
ReplaceByForeignRoute(d, m) ==
  /\ kernel[<<d, m>>] # {}
  /\ SetKernelRoute(d, m, {})
  /\ Blame({d}, "foreign")
  /\ UNCHANGED <<nlq, overrun>>

-----------------------------------------------------------------------------
(* RouteClient::addRoute and removeRoute, answered or past their deadline.  *)

InUse == {i \in Ids : srmd[i] # NoKey \/ <<"remove", i>> \in late}
          \cup {mirror[k] : k \in Keys}
NewId == CHOOSE i \in Ids \ InUse : \A j \in Ids \ InUse : i <= j
Room == Ids \ InUse # {}

Fault == faults < MaxFaults /\ faults' = faults + 1

\* What the table remembers of route k once the call is over.
AddCall(k, m) ==
  \/ /\ Room
     /\ srmd' = [srmd EXCEPT ![NewId] = k]
     /\ mirror' = [m EXCEPT ![k] = NewId]
     /\ UNCHANGED <<late, faults, why>>
  \/ /\ Fault
     /\ late' = late \cup {<<"add", k>>}
     /\ mirror' = [m EXCEPT ![k] = NoId]
     /\ Blame({k[1]}, "failed add")
     /\ UNCHANGED srmd

RemoveCall(i, k) ==
  \/ /\ srmd' = [srmd EXCEPT ![i] = NoKey]
     /\ UNCHANGED <<late, faults, why>>
  \/ /\ Fault
     /\ late' = late \cup {<<"remove", i>>}
     /\ Blame({k[1]}, "failed remove")
     /\ UNCHANGED srmd

\* srmd executes a call whose caller has given up.
LateCall(c) ==
  /\ c \in late
  /\ c[1] = "add" => Room
  /\ late' = late \ {c}
  /\ srmd' = IF c[1] = "add" THEN [srmd EXCEPT ![NewId] = c[2]]
             ELSE [srmd EXCEPT ![c[2]] = NoKey]
  /\ UNCHANGED <<kernelVars, fd, wpc, todo, cur, mirror, published, signalled,
                 faults, why>>

\* srmd keeps its table in memory only.
RestartSrmd ==
  /\ Fault
  /\ srmd' = [i \in Ids |-> NoKey]
  /\ late' = {}
  /\ Blame(Dests, "restart")
  /\ UNCHANGED <<kernelVars, fd, wpc, todo, cur, mirror, published, signalled>>

-----------------------------------------------------------------------------
(* cmdNetlinkWatch.                                                         *)

Init ==
  /\ kernel \in [Dests \X Metrics -> SUBSET Hops]
  /\ nlq = <<>> /\ overrun = FALSE /\ fd = "none" /\ wpc = "start"
  /\ todo = {} /\ cur = NoKey
  /\ mirror = [k \in Keys |-> Absent] /\ published = {}
  /\ srmd = [i \in Ids |-> NoKey] /\ late = {}
  /\ signalled = FALSE /\ changes = 0 /\ faults = 0
  /\ why = [d \in Dests |->
       (IF \E m \in Metrics : Cardinality(kernel[<<d, m>>]) > 1
          THEN {"multipath"} ELSE {}) \cup
       (IF Cardinality({m \in Metrics : kernel[<<d, m>>] # {}}) > 1
          THEN {"metric"} ELSE {})]

\* listRoutes() dumps the kernel table; it fails, or finds every nexthop.
Dump ==
  /\ wpc = "start" /\ wpc' = "dump"
  /\ todo' = {t \in Dests \X Metrics \X Hops : t[3] \in kernel[<<t[1], t[2]>>]}
  /\ UNCHANGED <<kernelVars, fd, cur, mirror, published, srmd, late, signalled,
                 faults, why>>

AddDumped(t) ==
  /\ wpc = "dump" /\ t \in todo
  /\ todo' = todo \ {t}
  /\ AddCall(<<t[1], t[3]>>, mirror)
  /\ UNCHANGED <<kernelVars, fd, wpc, cur, published, signalled>>

\* The loop over the dump ends: a failed AddRoute does not stop it.
AllDumped == todo = {}

\* The table is published; calls to srmd follow that change nothing.
DumpDone ==
  /\ wpc = "dump" /\ AllDumped
  /\ wpc' = "open"
  /\ published' = Tracked
  /\ UNCHANGED <<kernelVars, fd, todo, cur, mirror, srmd, late, signalled, faults, why>>

\* netlink_init(): from here on the kernel queues its events for sra.
Subscribe ==
  /\ wpc = "open"
  /\ \/ wpc' = "recv" /\ fd' = "open"
     \/ wpc' = "done" /\ UNCHANGED fd
  /\ UNCHANGED <<kernelVars, todo, cur, mirror, published, srmd, late,
                 signalled, faults, why>>

\* The signal handler closes the socket; recv() is interrupted and, retried,
\* fails.
Signal ==
  /\ wpc # "done" /\ fd = "open"
  /\ fd' = "closed" /\ signalled' = TRUE
  /\ UNCHANGED <<kernelVars, wpc, todo, cur, mirror, published, srmd, late,
                 faults, why>>

\* recv() fails: on a closed socket, or with ENOBUFS after an overrun.
RecvFails ==
  /\ wpc = "recv" /\ (fd = "closed" \/ overrun)
  /\ wpc' = "done" /\ fd' = "closed"
  /\ UNCHANGED <<kernelVars, todo, cur, mirror, published, srmd, late,
                 signalled, faults, why>>

-----------------------------------------------------------------------------
(* nlWatchCb.                                                               *)

\* The events left once the oldest was handed to the callback.
NextEvents == Tail(nlq)

Receive ==
  /\ wpc = "recv" /\ fd = "open" /\ ~overrun /\ nlq # <<>>
  /\ nlq' = NextEvents

RecvAdded ==
  /\ Receive /\ Head(nlq)[1] = "ADDED"
  /\ cur' = Head(nlq)[2] /\ wpc' = "add"
  /\ UNCHANGED <<kernel, overrun, changes, fd, todo, mirror, published, srmd, late,
                 signalled, faults, why>>

RecvChanged ==
  /\ Receive /\ Head(nlq)[1] = "CHANGED"
  /\ cur' = Head(nlq)[2] /\ wpc' = "purge"
  /\ UNCHANGED <<kernel, overrun, changes, fd, todo, mirror, published, srmd, late,
                 signalled, faults, why>>

\* A route that is not tracked is left alone and nothing is published.
RecvRemoved ==
  /\ Receive /\ Head(nlq)[1] = "REMOVED"
  /\ IF Head(nlq)[2] \in Tracked
       THEN cur' = Head(nlq)[2] /\ wpc' = "remove"
       ELSE UNCHANGED <<cur, wpc>>
  /\ UNCHANGED <<kernel, overrun, changes, fd, todo, mirror, published, srmd, late,
                 signalled, faults, why>>

\* The tracked routes a CHANGED event supersedes: those to its destination.
Superseded_SameKey == Tracked \cap {cur}
Superseded == {k \in Tracked : k[1] = cur[1]}

\* ctx.routes.erase().
Erased_Kept(k) == mirror
Erased(k) == [mirror EXCEPT ![k] = Absent]

PurgeOne(k) ==
  /\ wpc = "purge" /\ k \in Superseded
  /\ mirror' = Erased(k)
  /\ IF mirror[k] = NoId THEN UNCHANGED <<srmd, late, faults, why>>
     ELSE RemoveCall(mirror[k], k)
  /\ UNCHANGED <<kernelVars, fd, wpc, todo, cur, published, signalled>>

PurgeDone ==
  /\ wpc = "purge" /\ Superseded = {}
  /\ wpc' = "add"
  /\ UNCHANGED <<kernelVars, fd, todo, cur, mirror, published, srmd, late,
                 signalled, faults, why>>

\* The end of the callback: the table is published.
Publish == published' = {k \in Keys : mirror'[k] # Absent}

AddOne ==
  /\ wpc = "add" /\ wpc' = "recv" /\ cur' = NoKey
  /\ AddCall(cur, mirror)
  /\ Publish
  /\ UNCHANGED <<kernelVars, fd, todo, signalled>>

RemoveOne ==
  /\ wpc = "remove" /\ wpc' = "recv" /\ cur' = NoKey
  /\ mirror' = Erased(cur)
  /\ IF mirror[cur] = NoId THEN UNCHANGED <<srmd, late, faults, why>>
     ELSE RemoveCall(mirror[cur], cur)
  /\ Publish
  /\ UNCHANGED <<kernelVars, fd, todo, signalled>>

-----------------------------------------------------------------------------

Kernel ==
  \E d \in Dests, m \in Metrics :
    \/ \E H \in SUBSET Hops : AddKernelRoute(d, m, H) \/ ReplaceKernelRoute(d, m, H)
    \/ RemoveKernelRoute(d, m) \/ ReplaceByForeignRoute(d, m)

Watch ==
  \/ Dump \/ DumpDone \/ Subscribe \/ RecvFails
  \/ \E t \in todo : AddDumped(t)
  \/ RecvAdded \/ RecvChanged \/ RecvRemoved
  \/ PurgeDone \/ AddOne \/ RemoveOne
  \/ \E k \in Keys : PurgeOne(k)

Next == Kernel \/ Watch \/ Signal \/ RestartSrmd \/ \E c \in late : LateCall(c)

\* The watch thread runs: every call to srmd has a deadline.
Fairness == WF_vars(Watch)

Spec == Init /\ [][Next]_vars /\ Fairness

-----------------------------------------------------------------------------
(* Properties.                                                              *)

\* srmd has exactly the routes to d that the kernel has.
Exact(d) ==
  \A k \in Keys : k[1] = d =>
    Cardinality({i \in Ids : srmd[i] = k})
      = Cardinality({m \in Metrics : k[2] \in kernel[<<d, m>>]})

\* Every event was handled and more can be.
Idle == wpc = "recv" /\ fd = "open" /\ ~overrun /\ nlq = <<>>

\* Without a cause of drift the mirror is exact whenever no event is left,
\* whatever changed while earlier events were being handled.
MirrorExact == Idle => \A d \in Dests : why[d] = {} => Exact(d)

\* The id of a tracked route is that of a route of srmd with the same key,
\* whatever calls failed: RemoveRoute never hits a route it should not.
TrackedIsLive ==
  \A k \in Tracked :
    mirror[k] # NoId /\ "restart" \notin why[k[1]] => srmd[mirror[k]] = k

\* What UDP clients are shown is the table after the last event.
PublishedIsTracked == wpc = "recv" => published = Tracked

\* What the watch remembers: ids of its own routes, a published table that is
\* the tracked one, and every variable of its type.
TrackingSound == TypeOK /\ TrackedIsLive /\ PublishedIsTracked

\* Once the kernel stops changing the mirror becomes exact and stays so, unless
\* a cause of drift struck or the watch ended.
MirrorConverges ==
  \A d \in Dests : <>[](Exact(d) \/ why[d] # {} \/ wpc = "done")
=============================================================================
