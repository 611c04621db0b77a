----------------------------- MODULE KernelTables -----------------------------
(***************************************************************************)
(* The kernel tables sra keeps: dumped at start-up, followed by a monitor  *)
(* thread, handed over to an interactive command that dumps them again and *)
(* follows them until a signal; and RoutingManager, whose listRoutes is    *)
(* the dump of the routes.                                                 *)
(*                                                                         *)
(* A run is about one kind of table: "route", "neigh" or "nexthop"; "link" *)
(* is RoutingManager::listInterfaces and "request" its addRoute and the    *)
(* like, which to the others are changes of the kernel as any.  sra has    *)
(* one socket for a table at a time (sock).  The kernel has a sequence of  *)
(* slots, in the order of its dumps, each empty ({}) or with one entry.    *)
(***************************************************************************)
EXTENDS NetlinkTables

CONSTANTS Kinds,        \* kinds of tables to look at
          Slots,        \* kind -> sequence of sets of entries
          Initial,      \* kind -> possible states of the kernel at first
          RmRequests,   \* [do, p]: what is asked of RoutingManager
          MaxQueue, MaxChunk, MaxChanges, MaxFaults, MaxRequests

\* What the kernel's tables hold, and the parameters of a request.
RouteEntries ==
  [family : STRING, dst : STRING, len : Nat, type : STRING, protocol : STRING, scope : STRING,
   metric : Nat, table : Nat, hops : Seq([gw : STRING, oif : Nat])]
NeighEntries == [family : STRING, ifindex : Nat, dst : STRING, state : STRING, mac : STRING]
NexthopEntries == [id : Nat, family : STRING, gateway : STRING, oif : Nat, group : Seq(Nat)]
LinkEntries == [what : {"link"}, index : Nat, name : STRING, up : BOOLEAN]
                 \cup [what : {"addr"}, index : Nat, local : STRING, peer : STRING, len : Nat]
RouteParams ==
  [destination : [addr : STRING, len : Int], gateway : STRING, interfaceName : STRING,
   metric : Nat, protocol : STRING, type : STRING, table : Nat, family : STRING, scope : STRING]

ASSUME KernelTablesAssumption ==
  /\ Kinds \subseteq {"route", "neigh", "nexthop", "link", "request"}
  /\ Kinds \subseteq DOMAIN Slots /\ Kinds \subseteq DOMAIN Initial
  /\ \A k \in Kinds : \A i \in DOMAIN Slots[k] :
       Slots[k][i] \subseteq CASE k = "neigh" -> NeighEntries
                               [] k = "nexthop" -> NexthopEntries
                               [] k = "link" -> LinkEntries
                               [] OTHER -> RouteEntries
  /\ RmRequests \subseteq [do : {"add", "replace", "remove"}, p : RouteParams]
  /\ MaxQueue \in Nat \ {0} /\ MaxChunk \in Nat \ {0}
  /\ MaxChanges \in Nat /\ MaxFaults \in Nat /\ MaxRequests \in Nat

VARIABLES kind, kernel, changes,
          sock,         \* the descriptor, its queue and the dump in progress
          pc, tpc,      \* main and the startup monitor thread
          list,         \* what RoutingManager has listed so far
          table, published,
          drift,        \* history: keys of rows that need not be right
          seen,         \* history: entries there during, and throughout, a dump
          rm,           \* a RoutingManager that changes routes
          faults,
          handler,      \* what a signal runs: "default", "startup" or "command"
          signalled     \* history: the handler the last signal ran, or "none"

kernelVars == <<kind, kernel, changes>>
tableVars == <<list, table, published>>
history == <<drift, seen>>
signals == <<handler, signalled>>
vars == <<kernelVars, sock, pc, tpc, tableVars, history, rm, faults, signals>>

N == Len(Slots[kind])
Entries(k) == UNION {k[i] : i \in DOMAIN k}
NoSocket == [open |-> FALSE, sub |-> FALSE, queue |-> <<>>, overrun |-> FALSE,
             cursor |-> 0, asked |-> "nothing"]
NotSeen == [during |-> {}, throughout |-> {}, ok |-> FALSE]
RmIdle == [pc |-> "idle", seq |-> 1, req |-> 0, before |-> <<>>, after |-> <<>>, error |-> "",
           queue |-> <<>>, read |-> <<>>, result |-> ""]

Init ==
  /\ kind \in Kinds /\ kernel \in Initial[kind] /\ changes = 0
  /\ sock = NoSocket /\ pc = "boot" /\ tpc = "none"
  /\ list = <<>> /\ table = {} /\ published = {}
  /\ drift = {} /\ seen = NotSeen
  /\ rm = RmIdle /\ faults = 0 /\ handler = "default" /\ signalled = "none"

-----------------------------------------------------------------------------
(* The rows an entry should have, whatever way it is learned.               *)

RouteRows(e) ==
  IF e.family # "inet" \/ e.len # 32 \/ e.type # "unicast" THEN {}
  ELSE {WatchRoute(e.dst, e.len, h.gw, ifIndexToName(h.oif), e.metric, e.table)
          : h \in {e.hops[i] : i \in DOMAIN e.hops}}
NeighRows(e) == {[family |-> e.family, ifindex |-> e.ifindex,
                  dst |-> IF e.family = "bridge" THEN "(none)" ELSE e.dst,
                  state |-> e.state, mac |-> e.mac]}
NexthopRows(e) == {[id |-> e.id, family |-> e.family, oif |-> ifIndexToName(e.oif),
                    gateway |-> e.gateway,
                    group |-> SubSeq(e.group, 1, Min({MAX_GROUP, Len(e.group)}))]}

Rows(e) == CASE kind = "route" -> RouteRows(e)
             [] kind = "neigh" -> NeighRows(e)
             [] kind = "nexthop" -> NexthopRows(e)
             [] OTHER -> {}
Key(row) == CASE kind = "route" -> RouteKey(row)
              [] kind = "neigh" -> NeighKey(row)
              [] OTHER -> NexthopKey(row)
Keys(rows) == {Key(r) : r \in rows}
Image(k) == UNION {Rows(e) : e \in Entries(k)}

\* Keys that more than one entry has: the table has room for one.
Merged(k) ==
  {key \in Keys(Image(k)) : Cardinality({e \in Entries(k) : key \in Keys(Rows(e))}) > 1}

\* Routes with several nexthops are told in one event that shows none of them.
Multipath(e) == kind = "route" /\ Len(e.hops) > 1
Blank(e) == RouteKey(WatchRoute(e.dst, e.len, "", "", 0, 0))

\* Keys no event about the change of a slot from old to new puts right: those
\* of a route that moved to another nexthop, and all of a multipath route.
Untold(old, new) ==
  LET keys(es) == Keys(UNION {Rows(e) : e \in es})
  IN  (IF new = {} THEN {} ELSE keys(old) \ keys(new))
        \cup UNION {keys(old) \cup keys(new) \cup {Blank(e)} : e \in {x \in old \cup new : Multipath(x)}}

-----------------------------------------------------------------------------
(* The kernel's messages (external).                                        *)

RouteBody(e) ==
  [family |-> e.family, dst_len |-> e.len, type |-> e.type, protocol |-> e.protocol,
   scope |-> e.scope, table |-> IF e.table < OneByte THEN e.table ELSE RT_TABLE_COMPAT,
   RTA_DST |-> IF e.len = 0 THEN "" ELSE e.dst,
   RTA_GATEWAY |-> IF Multipath(e) THEN "" ELSE e.hops[1].gw,
   RTA_OIF |-> IF Multipath(e) THEN 0 ELSE e.hops[1].oif,
   RTA_PRIORITY |-> e.metric, RTA_TABLE |-> e.table,
   RTA_MULTIPATH |-> IF Multipath(e) THEN e.hops ELSE <<>>]
NeighBody(e) == [family |-> e.family, ifindex |-> e.ifindex, state |-> e.state,
                 NDA_DST |-> e.dst, NDA_LLADDR |-> e.mac]
NexthopBody(e) == [family |-> e.family, NHA_ID |-> e.id, NHA_OIF |-> e.oif,
                   NHA_GATEWAY |-> e.gateway, NHA_GROUP |-> e.group]
LinkBody(e) == [index |-> e.index, IFLA_IFNAME |-> e.name, up |-> e.up]
AddrBody(e) == [index |-> e.index, family |-> "inet", prefixlen |-> e.len,
                IFA_LOCAL |-> e.local, IFA_ADDRESS |-> e.peer]

NewMsg(e, flags) ==
  CASE kind = "route" -> NlMsg("RTM_NEWROUTE", flags, 1, RouteBody(e))
    [] kind = "neigh" -> NlMsg("RTM_NEWNEIGH", flags, 1, NeighBody(e))
    [] kind = "nexthop" -> NlMsg("RTM_NEWNEXTHOP", flags, 1, NexthopBody(e))
    [] OTHER -> IF e.what = "link" THEN NlMsg("RTM_NEWLINK", flags, 1, LinkBody(e))
                ELSE NlMsg("RTM_NEWADDR", flags, 2, AddrBody(e))
DelMsg(e) ==
  CASE kind = "route" -> NlMsg("RTM_DELROUTE", {}, 0, RouteBody(e))
    [] kind = "neigh" -> NlMsg("RTM_DELNEIGH", {}, 0, NeighBody(e))
    [] OTHER -> NlMsg("RTM_DELNEXTHOP", {}, 0, NexthopBody(e))

\* The kernel tells of a changed neighbour as of a new one.
Event(old, new) ==
  IF new = {} THEN DelMsg(CHOOSE e \in old : TRUE)
  ELSE NewMsg(CHOOSE e \in new : TRUE,
              IF old # {} /\ kind # "neigh" THEN {"REPLACE"} ELSE {})

\* A dump of neighbours leaves out the bridges' tables; a dump of interfaces
\* is one of links or one of addresses.
Dumped(e) == CASE kind = "neigh" -> e.family # "bridge"
               [] kind = "link" -> e.what = sock.asked
               [] OTHER -> TRUE

\* The dump goes on as the reader makes room: chunk by chunk, each a picture
\* of the kernel at its own time.
KernelDump ==
  /\ sock.open /\ sock.cursor \in 1 .. N /\ Len(sock.queue) < MaxQueue
  /\ \E n \in {1, MaxChunk} :
       LET last == Min({sock.cursor + n - 1, N})
           part == SetToSortSeq({i \in sock.cursor .. last : kernel[i] # {}
                                     /\ \A e \in kernel[i] : Dumped(e)}, <)
           msgs == [j \in DOMAIN part |-> NewMsg(CHOOSE e \in kernel[part[j]] : TRUE, {"MULTI"})]
                   \o (IF last = N
                       THEN <<NlMsg("NLMSG_DONE", {"MULTI"}, IF sock.asked = "addr" THEN 2 ELSE 1,
                                    Outcome(""))>>
                       ELSE <<>>)
       IN  sock' = [sock EXCEPT !.cursor = IF last = N THEN 0 ELSE last + 1,
                                !.queue = IF msgs = <<>> THEN @ ELSE Append(@, msgs)]
  /\ UNCHANGED <<kernelVars, pc, tpc, tableVars, history, rm, faults, signals>>

\* Someone is listening: the descriptor is open or a recv() still holds it.
Alive == sock.open \/ tpc = "recv"

Watched(s, k) == [s EXCEPT !.during = @ \cup Entries(k), !.throughout = @ \cap Entries(k)]

\* Slot i changes from kernel[i] to new, and whoever is subscribed is told.
Changed(k, i, new) ==
  LET told == Alive /\ sock.sub /\ kind # "link"
      full == Len(sock.queue) >= MaxQueue
  IN  /\ changes < MaxChanges /\ changes' = changes + 1
      /\ kernel' = k
      /\ sock' = CASE told /\ ~full -> [sock EXCEPT !.queue = Append(@, <<Event(kernel[i], new)>>)]
                   [] told /\ full -> [sock EXCEPT !.overrun = TRUE]
                   [] OTHER -> sock
      /\ drift' = drift \cup Untold(kernel[i], new) \cup Merged(k)
                    \cup (IF told /\ full
                          THEN Keys(UNION {Rows(e) : e \in kernel[i] \cup new}) ELSE {})
      /\ seen' = IF pc \in {"dump", "sdump"} THEN Watched(seen, k) ELSE seen
      /\ UNCHANGED kind

\* An address needs its interface and goes with it.
Consistent(k) ==
  kind = "link" =>
    LET links == {e.index : e \in {x \in Entries(k) : x.what = "link"}}
    IN  [i \in DOMAIN k |-> {e \in k[i] : e.what = "addr" => e.index \in links}] = k

KernelChange ==
  /\ \E i \in 1 .. N : \E new \in {{}} \cup {{e} : e \in Slots[kind][i]} :
       LET k == [kernel EXCEPT ![i] = new]
           purged == IF kind = "link" /\ new = {} /\ (\E e \in kernel[i] : e.what = "link")
                     THEN [j \in DOMAIN k |-> {e \in k[j] : \A x \in kernel[i] : e.index # x.index}]
                     ELSE k
       IN  new # kernel[i] /\ Consistent(purged) /\ Changed(purged, i, new)
  /\ UNCHANGED <<pc, tpc, tableVars, rm, faults, signals>>

-----------------------------------------------------------------------------
(* RoutingManager's requests (kind "request").                              *)

RouteOf(body) ==
  [family |-> body.family, dst |-> body.RTA_DST, len |-> body.dst_len, type |-> body.type,
   protocol |-> body.protocol, scope |-> body.scope, metric |-> body.RTA_PRIORITY,
   table |-> IF body.RTA_TABLE # 0 THEN body.RTA_TABLE ELSE body.table,
   hops |-> <<[gw |-> body.RTA_GATEWAY, oif |-> body.RTA_OIF]>>]
FibKey(e) == <<e.family, e.dst, e.len, e.table, e.metric>>

SlotsOf(r) == {i \in 1 .. N : \E e \in Slots[kind][i] : FibKey(e) = FibKey(r)}
Deletable(r) ==
  {i \in 1 .. N : \E e \in kernel[i] :
     /\ <<e.family, e.dst, e.len, e.table, e.type, e.protocol>>
          = <<r.family, r.dst, r.len, r.table, r.type, r.protocol>>
     /\ r.metric \in {0, e.metric} /\ r.scope \in {"nowhere", e.scope}
     /\ \E h \in {e.hops[j] : j \in DOMAIN e.hops} :
          r.hops[1].gw \in {"", h.gw} /\ r.hops[1].oif \in {0, h.oif}}

Requested(req) ==
  CASE req.do = "add" -> addRoute(rm.seq, req.p)
    [] req.do = "replace" -> replaceRoute(rm.seq, req.p)
    [] OTHER -> removeRoute(rm.seq, req.p)

Replied(error) == <<NlMsg("NLMSG_ERROR", {}, rm.seq, Outcome(error))>>

\* send(): the kernel carries out the request and queues its acknowledgement.
RmSend(req) ==
  /\ rm.pc = "idle" /\ kind = "request" /\ rm.seq <= MaxRequests /\ Sendable(req.p)
  /\ LET m == Requested(req)
         r == RouteOf(m.body)
         slot == IF m.type = "RTM_NEWROUTE" THEN SlotsOf(r) ELSE Deletable(r)
         error == CASE m.type = "RTM_NEWROUTE" /\ "EXCL" \in m.flags /\ kernel[Min(slot)] # {} -> "EEXIST"
                    [] m.type = "RTM_DELROUTE" /\ slot = {} -> "ESRCH"
                    [] OTHER -> ""
         new == IF m.type = "RTM_NEWROUTE" THEN {r} ELSE {}
         k == IF error = "" THEN [kernel EXCEPT ![Min(slot)] = new] ELSE kernel
     IN  /\ m.type = "RTM_NEWROUTE" => slot # {}
         /\ kernel' = k
         /\ rm' = [rm EXCEPT !.pc = "wait", !.req = req, !.before = kernel, !.after = k,
                             !.error = error, !.queue = Append(@, Replied(error))]
  /\ UNCHANGED <<kind, changes, sock, pc, tpc, tableVars, history, signals, faults>>

\* Parameters that cannot be sent are refused before anything is.
RmRefuse(req) ==
  /\ rm.pc = "idle" /\ kind = "request" /\ rm.seq <= MaxRequests /\ ~Sendable(req.p)
  /\ rm' = [rm EXCEPT !.pc = "done", !.req = req, !.before = kernel, !.after = kernel,
                      !.seq = @ + 1, !.result = "invalid"]
  /\ UNCHANGED <<kernelVars, sock, pc, tpc, tableVars, history, faults, signals>>

\* recvAll, whose loop one datagram ends: it may be an answer to a request
\* before, which is skipped, and then that of this one stays in the queue.
RmReceive ==
  /\ rm.pc = "wait" /\ rm.queue # <<>>
  /\ rm' = [rm EXCEPT !.pc = "done", !.seq = @ + 1, !.queue = Tail(@), !.read = Head(rm.queue),
                      !.result = recvAll(rm.seq, Head(rm.queue)).verdict]
  /\ UNCHANGED <<kernelVars, sock, pc, tpc, tableVars, history, faults, signals>>

\* recv() fails, and the replies are lost or stay for the next request.
RmReceiveFails ==
  /\ rm.pc = "wait" /\ faults < MaxFaults /\ faults' = faults + 1
  /\ \E left \in {rm.queue, <<>>} :
       rm' = [rm EXCEPT !.pc = "done", !.seq = @ + 1, !.queue = left, !.result = "recv"]
  /\ UNCHANGED <<kernelVars, sock, pc, tpc, tableVars, history, signals>>

RmNext ==
  /\ rm.pc = "done" /\ rm' = [RmIdle EXCEPT !.seq = rm.seq, !.queue = rm.queue]
  /\ UNCHANGED <<kernelVars, sock, pc, tpc, tableVars, history, faults, signals>>

-----------------------------------------------------------------------------
(* Opening a socket and asking for a dump.                                  *)

\* The sockets a constructor or init function may return: none, one with the
\* group of its kind, or (restricted containers) one without.
Usable(sub) == [NoSocket EXCEPT !.open = TRUE, !.sub = sub]
RoutingManagerOpens == {NoSocket, Usable(FALSE)}
netlink_init == {NoSocket, Usable(TRUE)}
netlink_neigh_init == {NoSocket, Usable(FALSE), Usable(TRUE)}
netlink_nexthop_init == {NoSocket, Usable(FALSE), Usable(TRUE)}

ForDump == CASE kind = "neigh" -> netlink_neigh_init
             [] kind = "nexthop" -> netlink_nexthop_init
             [] OTHER -> RoutingManagerOpens
ForMonitor == CASE kind = "route" -> netlink_init
                [] kind = "neigh" -> netlink_neigh_init
                [] OTHER -> netlink_nexthop_init

\* Only a fault makes a socket less than the best there is.
Charged(s, best) == /\ s # best => faults < MaxFaults
                    /\ faults' = IF s = best THEN faults ELSE faults + 1

Asking(s, what) == [s EXCEPT !.cursor = 1, !.asked = what]
SeenNow == [during |-> Entries(kernel), throughout |-> Entries(kernel), ok |-> FALSE]

OpenDump ==
  /\ pc = "boot" /\ kind # "request"
  /\ \E s \in ForDump :
       /\ Charged(s, Usable(kind \in {"neigh", "nexthop"}))
       /\ IF s.open
          THEN /\ sock' = Asking(s, IF kind = "link" THEN "link" ELSE kind) /\ pc' = "dump"
          ELSE /\ sock' = s /\ pc' = IF kind = "link" THEN "listed" ELSE "dumped"
  /\ seen' = SeenNow /\ drift' = Merged(kernel)
  /\ UNCHANGED <<kernelVars, tpc, tableVars, rm, signals>>

\* What a recv() may find.
Readable == sock.queue # <<>> /\ ~sock.overrun
Rest == [sock EXCEPT !.queue = Tail(@)]

\* The events of one datagram, handed to the callback one by one.
process_buf(datagram) ==
  CASE kind = "route" -> nl_process_buf(datagram)
    [] kind = "neigh" -> nl_neigh_process_buf(datagram)
    [] OTHER -> nl_nexthop_process_buf(datagram)
Callback(rows, ev) ==
  CASE kind = "route" -> startupRouteLiveCb(rows, ev[1], ev[2])
    [] kind = "neigh" -> nlNeighUpdate(rows, ev[1], ev[2])
    [] OTHER -> nlNexthopUpdate(rows, ev[1], ev[2])
After(rows, events) == FoldLeft(Callback, rows, events)

\* netlink_neigh_dump and netlink_nexthop_dump, one recv(): main fills the
\* table as it goes.  pcs are the places in the first and the second dump.
DumpRecv ==
  /\ kind \in {"neigh", "nexthop"} /\ pc \in {"dump", "sdump"}
  /\ sock.open /\ Readable
  /\ LET did == process_buf(Head(sock.queue))
     IN  /\ table' = After(table, did.events)
         /\ pc' = CASE did.verdict = "more" -> pc
                    [] pc = "dump" -> "dumped"
                    [] OTHER -> "sdumped"
         /\ seen' = [seen EXCEPT !.ok = did.verdict = "done"]
  /\ sock' = Rest
  /\ UNCHANGED <<kernelVars, tpc, list, published, drift, rm, faults, signals>>

\* recv() fails: the dump ends where it is.
DumpFails ==
  /\ pc \in {"dump", "sdump"} /\ (sock.overrun \/ ~sock.open)
  /\ sock' = [sock EXCEPT !.overrun = FALSE]
  /\ pc' = CASE kind = "link" -> "listed"
             [] pc = "dump" -> "dumped"
             [] OTHER -> "sdumped"
  /\ list' = <<>>
  /\ UNCHANGED <<kernelVars, tpc, table, published, history, rm, faults, signals>>

\* listRoutes, one recv(): the table is filled when all was received.
listRoutes ==
  /\ kind = "route" /\ pc = "dump" /\ sock.open /\ Readable
  /\ LET did == recvAll(1, Head(sock.queue))
         got == list \o FlattenSeq([i \in DOMAIN did.handled |->
                                      KernelRoutesOf(did.handled[i], RT_TABLE_UNSPEC)])
     IN  /\ list' = got
         /\ table' = IF did.verdict = "ok" THEN RouteRowsOf(got) ELSE table
         /\ pc' = IF did.verdict = "more" THEN pc ELSE "dumped"
         /\ seen' = [seen EXCEPT !.ok = did.verdict = "ok"]
  /\ sock' = Rest
  /\ UNCHANGED <<kernelVars, tpc, published, drift, rm, faults, signals>>

\* listInterfaces: dumpLinks, then dumpAddrs over the same socket.
dumpLinks ==
  /\ kind = "link" /\ pc = "dump" /\ sock.asked = "link" /\ Readable
  /\ LET did == recvAll(1, Head(sock.queue))
     IN  /\ list' = list \o FlattenSeq([i \in DOMAIN did.handled |-> InterfacesOf(did.handled[i])])
         /\ sock' = IF did.verdict = "ok" THEN Asking(Rest, "addr") ELSE Rest
  /\ UNCHANGED <<kernelVars, pc, tpc, table, published, history, rm, faults, signals>>

dumpAddrs ==
  /\ kind = "link" /\ pc = "dump" /\ sock.asked = "addr" /\ Readable
  /\ LET did == recvAll(2, Head(sock.queue))
     IN  /\ list' = FoldLeft(WithAddress, list, did.handled)
         /\ pc' = IF did.verdict = "more" THEN pc ELSE "listed"
         /\ seen' = [seen EXCEPT !.ok = did.verdict = "ok"]
  /\ sock' = Rest
  /\ UNCHANGED <<kernelVars, tpc, table, published, drift, rm, faults, signals>>

-----------------------------------------------------------------------------
(* Start-up and the monitor thread.                                         *)

\* The table is published and the socket of the dump closed, whatever it holds.
PublishFirst ==
  /\ pc = "dumped" /\ pc' = "start"
  /\ published' = table /\ list' = <<>>
  /\ sock' = NoSocket /\ seen' = NotSeen
  /\ UNCHANGED <<kernelVars, tpc, table, drift, rm, faults, signals>>

\* Keys on which rows differ from the kernel.
Wrong(rows, k) == Keys(rows \ Image(k)) \cup Keys(Image(k) \ rows)

\* The live socket is opened and its thread launched: what changed since the
\* dump is not told.
StartMonitor ==
  /\ pc = "start" /\ pc' = "live"
  /\ \E s \in ForMonitor :
       /\ Charged(s, Usable(TRUE))
       /\ sock' = s /\ tpc' = IF s.open THEN "head" ELSE "none"
  /\ drift' = Wrong(table, kernel) \cup Merged(kernel)
                \cup UNION {Untold({e}, {e}) : e \in Entries(kernel)}
  /\ UNCHANGED <<kernelVars, tableVars, seen, rm, signals>>

\* A monitor that fails to read tries again.
RunEnds_Retry == "head"

\* Where netlink_run and its copies go when recv() fails: they return.
RunEnds == "exited"

EnterRecv ==
  /\ tpc = "head" /\ tpc' = IF sock.open THEN "recv" ELSE RunEnds
  /\ UNCHANGED <<kernelVars, sock, pc, tableVars, history, rm, faults, signals>>

\* recv() returns a datagram, though the descriptor may be closed by now; its
\* events change the table, and each publishes it.
MonitorRecv ==
  /\ tpc = "recv" /\ Readable
  /\ LET did == process_buf(Head(sock.queue))
     IN  /\ table' = After(table, did.events)
         /\ published' = IF did.events = <<>> THEN published ELSE table'
         /\ tpc' = IF did.verdict = "error" THEN RunEnds ELSE "head"
  /\ sock' = Rest
  /\ UNCHANGED <<kernelVars, pc, list, history, rm, faults, signals>>

MonitorFails ==
  /\ tpc = "recv" /\ sock.overrun
  /\ sock' = [sock EXCEPT !.overrun = FALSE]
  /\ tpc' = RunEnds
  /\ UNCHANGED <<kernelVars, pc, tableVars, history, rm, faults, signals>>

-----------------------------------------------------------------------------
(* The interactive command.                                                 *)

\* The monitor's descriptor is closed; a recv() in progress keeps the socket
\* and goes on waiting.
Closed == IF tpc = "recv" THEN [sock EXCEPT !.open = FALSE] ELSE NoSocket

\* Every start-up ends with the handler of commands without one of their own.
InstallStartupHandler ==
  /\ pc = "live" /\ handler = "default" /\ handler' = "startup"
  /\ UNCHANGED <<kernelVars, sock, pc, tpc, tableVars, history, rm, faults, signalled>>

CloseMonitor ==
  /\ pc = "live" /\ handler = "startup" /\ pc' = "join"
  /\ sock' = Closed
  /\ UNCHANGED <<kernelVars, tpc, tableVars, history, rm, faults, signals>>

\* The monitor thread is joined before the command opens its own socket.
Joined == tpc \in {"none", "exited"}

\* Routes are handed over to cmdNetlinkWatch, which is WatchMirror's subject.
JoinMonitor ==
  /\ pc = "join" /\ Joined
  /\ pc' = IF kind = "route" THEN "stopped" ELSE "show"
  /\ tpc' = "none" /\ sock' = NoSocket
  /\ UNCHANGED <<kernelVars, tableVars, history, rm, faults, signals>>

\* The command's own socket, which its handler is to close.
OpenShown ==
  /\ pc = "show"
  /\ \E s \in ForMonitor :
       /\ Charged(s, Usable(TRUE))
       /\ sock' = s /\ pc' = IF s.open THEN "sopen" ELSE "stopped"
  /\ table' = {} /\ drift' = Merged(kernel)
  /\ UNCHANGED <<kernelVars, tpc, list, published, seen, rm, signals>>

\* The command installs its handler and asks for the dump, which the socket
\* was subscribed before.  What a dump never tells is what was there already.
Unlisted == {e \in Entries(kernel) : ~Dumped(e)}
InstallHandler ==
  /\ pc = "sopen" /\ pc' = "sdump" /\ handler' = "command"
  /\ sock' = Asking(sock, kind) /\ seen' = SeenNow
  /\ drift' = drift \cup Merged(kernel) \cup Keys(UNION {Rows(e) : e \in Unlisted})
  /\ UNCHANGED <<kernelVars, tpc, tableVars, rm, faults, signalled>>

PublishShown ==
  /\ pc = "sdumped" /\ pc' = "srun"
  /\ published' = table /\ seen' = NotSeen
  /\ UNCHANGED <<kernelVars, sock, tpc, list, table, drift, rm, faults, signals>>

ShownRecv ==
  /\ pc = "srun" /\ sock.open /\ Readable
  /\ LET did == process_buf(Head(sock.queue))
     IN  /\ table' = After(table, did.events)
         /\ published' = IF did.events = <<>> THEN published ELSE table'
         /\ pc' = IF did.verdict = "error" THEN "stopped" ELSE pc
         /\ sock' = IF did.verdict = "error" THEN NoSocket ELSE Rest
  /\ UNCHANGED <<kernelVars, tpc, list, history, rm, faults, signals>>

ShownFails ==
  /\ pc = "srun" /\ (sock.overrun \/ ~sock.open)
  /\ pc' = "stopped" /\ sock' = NoSocket
  /\ UNCHANGED <<kernelVars, tpc, tableVars, history, rm, faults, signals>>

-----------------------------------------------------------------------------
(* SIGINT and SIGTERM, which main's thread takes.                           *)

\* Before main has a handler the signal ends the process, with all it holds.
SignalKills ==
  /\ kind \in {"route", "neigh", "nexthop"} /\ pc # "stopped"
  /\ handler = "default" /\ signalled' = "default"
  /\ pc' = "stopped" /\ tpc' = "none" /\ sock' = NoSocket
  /\ list' = <<>> /\ table' = {} /\ published' = {} /\ drift' = {} /\ seen' = NotSeen
  /\ UNCHANGED <<kernelVars, rm, faults, handler>>

\* startupSigHandler closes the descriptors of the start-up's monitors, if
\* they still are open, and whatever main does goes on.
SignalAtStartup ==
  /\ handler = "startup" /\ signalled = "none" /\ pc # "stopped"
  /\ signalled' = handler
  /\ sock' = IF pc = "live" THEN Closed ELSE sock
  /\ UNCHANGED <<kernelVars, pc, tpc, tableVars, history, rm, faults, handler>>

\* The handler leaves the descriptor to main.
HandlerCloses_Not == sock

\* The handler of the command closes its socket; the signal interrupts main's
\* recv(), which is tried again on the closed descriptor.
HandlerCloses == NoSocket
SignalInCommand ==
  /\ pc \in {"sdump", "sdumped", "srun"} /\ handler = "command" /\ signalled # "command"
  /\ signalled' = handler /\ sock' = HandlerCloses
  /\ UNCHANGED <<kernelVars, pc, tpc, tableVars, history, rm, faults, handler>>

-----------------------------------------------------------------------------

Main ==
  \/ OpenDump \/ DumpRecv \/ DumpFails \/ listRoutes \/ dumpLinks \/ dumpAddrs
  \/ PublishFirst \/ StartMonitor \/ InstallStartupHandler \/ JoinMonitor
  \/ OpenShown \/ InstallHandler \/ PublishShown \/ ShownRecv \/ ShownFails
Monitor == EnterRecv \/ MonitorRecv \/ MonitorFails
Others == \E req \in RmRequests : RmSend(req) \/ RmRefuse(req)

Signal == SignalKills \/ SignalAtStartup \/ SignalInCommand

Next == Main \/ Monitor \/ CloseMonitor \/ Signal \/ KernelDump \/ KernelChange
          \/ Others \/ RmReceive \/ RmReceiveFails \/ RmNext

\* The monitor thread runs, and so does main, whose steps that nothing else
\* has to make possible are these.  Nobody has to change the kernel, to give a
\* command or to send a signal.
Fairness ==
  /\ WF_vars(Monitor)
  /\ WF_vars(JoinMonitor) /\ WF_vars(OpenShown) /\ WF_vars(InstallHandler)
  /\ WF_vars(DumpFails) /\ WF_vars(PublishShown) /\ WF_vars(ShownFails)

Spec == Init /\ [][Next]_vars /\ Fairness

-----------------------------------------------------------------------------
(* Properties.                                                              *)

TypeOK ==
  /\ kind \in Kinds /\ DOMAIN kernel = 1 .. N /\ changes \in 0 .. MaxChanges
  /\ \A i \in 1 .. N : Cardinality(kernel[i]) <= 1
  /\ Len(sock.queue) <= MaxQueue + 1 /\ sock.cursor \in 0 .. N
  /\ sock.open /\ sock.sub /\ sock.cursor # 0 => pc # "boot"
  /\ tpc \in {"none", "head", "recv", "exited"}
  /\ tpc \in {"head", "recv"} => pc \in {"live", "join"}
  /\ faults \in 0 .. MaxFaults
  /\ handler \in {"default", "startup", "command"} /\ signalled \in {"none", handler, "startup"}
  /\ pc \in {"join", "show", "sopen"} => handler = "startup"
  /\ pc \in {"sdump", "sdumped", "srun"} => handler = "command"
  /\ \A r, s \in table : Key(r) = Key(s) => r = s

\* The reader of a subscribed socket has nothing left to read.
Idle ==
  /\ sock.open /\ sock.sub /\ sock.queue = <<>> /\ ~sock.overrun /\ sock.cursor = 0
  /\ (pc = "live" /\ tpc = "recv") \/ pc = "srun"

\* When the monitor or the command has handled every event, its table is the
\* kernel's, whatever changed before, during and after the dumps, but for keys
\* with a named cause of drift: changed between the start-up's dump and its
\* monitor, shared by two entries, moved to another nexthop, told without its
\* nexthops, lost in an overrun, or never dumped.
TableExact == Idle => Wrong(table, kernel) \subseteq drift

\* UDP clients are shown the table after the last event, and nothing of a
\* table that is still being filled.
PublishedIsTable == tpc = "recv" \/ pc \in {"start", "srun"} => published = table

MonitorSound == TypeOK /\ TableExact /\ PublishedIsTable

\* A dump cut into chunks while the kernel changes still lists every entry
\* that was there throughout, and none that was not there during it.
DumpIsRegular ==
  pc \in {"dumped", "sdumped"} /\ seen.ok =>
    /\ \A e \in seen.throughout : \A r \in Rows(e) :
         Key(r) \in drift \/ (kind = "neigh" /\ e.family = "bridge") \/ r \in table
    /\ \A r \in table : Key(r) \in drift \/ \E e \in seen.during : r \in Rows(e)

\* The same of the two dumps behind listInterfaces, which may see different
\* interfaces: an address is never listed with another's interface.
InterfacesAreRegular ==
  pc = "listed" /\ seen.ok =>
    LET links(es) == {e \in es : e.what = "link"}
        addrs(es) == {e \in es : e.what = "addr"}
        Local(a) == <<IF a.local # "" THEN a.local ELSE a.peer, a.len>>
        listed == {list[i] : i \in DOMAIN list}
    IN  /\ \A f \in listed : /\ \E e \in links(seen.during) :
                                  <<e.index, e.name, e.up>> = <<f.index, f.name, f.up>>
                             /\ \A a \in f.addresses : \E e \in addrs(seen.during) :
                                  e.index = f.index /\ Local(e) = a
        /\ \A e \in links(seen.throughout) :
             /\ isInterfaceUp(list, e.name) = Ok(e.up)
             /\ \A a \in addrs(seen.throughout) : a.index = e.index =>
                  Local(a) \in getInterface(list, e.name).val.addresses

ListsAreRegular == DumpIsRegular /\ InterfacesAreRegular

\* The route the parameters of a request ask for.
Meant(p) ==
  [family |-> p.family, dst |-> p.destination.addr,
   len |-> IF p.destination.len = NoLen THEN 32 ELSE p.destination.len,
   type |-> p.type, protocol |-> p.protocol,
   scope |-> IF p.gateway = "" /\ p.interfaceName # "" /\ p.scope = "universe" THEN "link" ELSE p.scope,
   metric |-> p.metric, table |-> p.table,
   hops |-> <<[gw |-> p.gateway,
               oif |-> IF p.interfaceName = "" THEN 0
                       ELSE CHOOSE i \in DOMAIN IfNames : IfNames[i] = p.interfaceName]>>]

\* Answers the request that is done: not one of a request before.
Own(datagram) == datagram # <<>> /\ datagram[1].seq = rm.seq - 1

\* What a request to remove r may take away: it is about the route's own
\* destination, table, type and protocol, and whatever else was given.
Asked(r, e) ==
  /\ [e EXCEPT !.scope = r.scope, !.metric = r.metric, !.hops = r.hops] = r
  /\ r.metric # 0 => e.metric = r.metric
  /\ r.scope # "nowhere" => e.scope = r.scope
  /\ \E i \in DOMAIN e.hops : /\ r.hops[1].gw # "" => e.hops[i].gw = r.hops[1].gw
                             /\ r.hops[1].oif # 0 => e.hops[i].oif = r.hops[1].oif

\* A RoutingManager that reports success after reading the reply to its
\* request did exactly what its parameters say; one that reports the kernel's
\* refusal did nothing.  A failed recv() leaves it open.  So does the late
\* reply to the request before such a failure: it says success of this one,
\* whatever the kernel did.
RequestIsExact ==
  rm.pc = "done" =>
    LET meant == Meant(rm.req.p)
        done == rm.result = "ok" /\ Own(rm.read)
        gone == Entries(rm.before) \ Entries(rm.after)
        new == Entries(rm.after) \ Entries(rm.before)
    IN  /\ rm.result \notin {"ok", "recv"} => gone = {} /\ new = {}
        /\ done /\ rm.req.do = "add" => gone = {} /\ new = {meant}
        /\ done /\ rm.req.do = "replace" =>
             meant \in Entries(rm.after) /\ \A e \in gone : FibKey(e) = FibKey(meant)
        /\ done /\ rm.req.do = "remove" =>
             new = {} /\ Cardinality(gone) = 1 /\ \A e \in gone : Asked(meant, e)
        /\ rm.read # <<>> /\ ~Own(rm.read) => faults > 0 /\ rm.result = "ok"

\* One event that reaches the socket of the closed monitor, or its overrun, is
\* enough for the hand-over to go on.
OneEventJoins == (pc = "join" /\ (sock.queue # <<>> \/ sock.overrun)) ~> pc # "join"

\* A signal that finds the command's handler ends the command, even in its
\* dump.  One that came before ran the start-up's handler and closed nothing of
\* the command, which goes on until the next.
SignalEndsCommand ==
  /\ (signalled = "command") ~> (pc = "stopped")
  /\ [](signalled # "command" /\ pc \in {"sopen", "sdump", "sdumped", "srun"} => sock.open)
=============================================================================
