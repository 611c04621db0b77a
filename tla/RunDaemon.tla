------------------------------ MODULE RunDaemon ------------------------------
(***************************************************************************)
(* "sra run": the main thread, the three netlink monitors started before   *)
(* it, and what ends them.  The nexthop monitor also re-submits the VRF    *)
(* route of a nexthop to ud_server, once main has armed it with pointers   *)
(* to the VRF table and to VrfUdpClient, which live in main's frame.       *)
(*                                                                         *)
(* The VRF table has one nni route, over one gateway; a kernel nexthop is  *)
(* "vrf" if it leads there and "other" if it leads elsewhere.  Sockets are *)
(* external: close() does not wake a thread that is blocked in recv() on   *)
(* the socket; only an event does.                                         *)
(***************************************************************************)
EXTENDS Naturals, Sequences

CONSTANTS
  Nexthop,    \* the nexthop monitor
  Others,     \* the route and the neighbour monitor
  NhIds,      \* kernel nexthop ids
  MaxQueue    \* bound on the events waiting in a netlink socket: the kernel
              \* waits when it is reached (WatchMirror has the overrun)

ASSUME RunAssumption ==
  /\ Nexthop \notin Others
  /\ NhIds \subseteq Nat \ {0}
  /\ MaxQueue \in Nat \ {0}

Monitors == Others \cup {Nexthop}
Gateways == {"none", "vrf", "other"}

VARIABLES
  kernel,     \* the gateway of each nexthop object
  events,     \* the events waiting in each monitor's socket
  mpc,        \* where main is
  stop,       \* g_run_stop
  global,     \* the monitors whose g_startup_*_fd is not -1
  socket,     \* each monitor's socket: none, open or closed
  tpc,        \* where each monitor thread is
  cur,        \* the event the nexthop monitor is handling
  nexthops,   \* startupNhCtx.nexthops
  armed,      \* which of startupNhCtx.vrfTable and vrfClient are set
  alive,      \* the VRF table and VrfUdpClient exist
  chosen,     \* the nexthop id main found for the route
  up          \* FALSE once a data race or a dangling pointer did damage

\* History: ids submitted for the route since the nexthop last changed;
\* nexthops that changed between the dump and the subscription, and since the
\* monitor was armed; whether main walked the table while it was changed.
VARIABLES submitted, missed, late, raced

kernelVars == <<kernel, events>>
mainVars == <<mpc, stop, armed, alive, chosen>>
monitorVars == <<tpc, cur, nexthops>>
history == <<missed, late, raced>>
vars == <<kernelVars, mainVars, global, socket, monitorVars, up, submitted,
          history>>

NoEvent == <<>>
NhEvents == NhIds \X Gateways \X BOOLEAN   \* id, gateway, is it gone

TypeOK ==
  /\ kernel \in [NhIds -> Gateways]
  /\ events \in [Monitors -> Seq(NhEvents \cup {NoEvent})]
  /\ \A m \in Monitors : Len(events[m]) <= MaxQueue
  /\ mpc \in {"dump", "open", "boot", "armTable", "armClient", "lookup",
              "submit", "loop", "stopfds", "leave", "guard", "join", "done"}
  /\ stop \in BOOLEAN /\ alive \in BOOLEAN /\ up \in BOOLEAN
  /\ global \subseteq Monitors
  /\ socket \in [Monitors -> {"none", "open", "closed"}]
  /\ \A m \in global : socket[m] = "open"
  /\ tpc \in [Monitors -> {"none", "head", "recv", "update", "check", "submit",
                           "exited"}]
  /\ cur \in NhEvents \cup {NoEvent}
  /\ nexthops \in [NhIds -> Gateways]
  /\ armed \subseteq {"table", "client"}
  /\ chosen \in NhIds \cup {0}
  /\ submitted \subseteq NhIds \cup {0}
  /\ missed \subseteq NhIds /\ late \subseteq NhIds /\ raced \in BOOLEAN

Init ==
  /\ kernel \in [NhIds -> Gateways]
  /\ events = [m \in Monitors |-> <<>>]
  /\ mpc = "dump" /\ stop = FALSE /\ alive = FALSE /\ up = TRUE
  /\ global = {} /\ socket = [m \in Monitors |-> "none"]
  /\ tpc = [m \in Monitors |-> "none"] /\ cur = NoEvent
  /\ nexthops = [i \in NhIds |-> "none"]
  /\ armed = {} /\ chosen = 0 /\ submitted = {} /\ missed = {}
  /\ late = {} /\ raced = FALSE

-----------------------------------------------------------------------------
(* The kernel (external).                                                   *)

\* A closed socket receives as long as a thread is blocked on it.
Listening(m) ==
  /\ Len(events[m]) < MaxQueue
  /\ socket[m] = "open" \/ (socket[m] = "closed" /\ tpc[m] = "recv")

ChangeNexthop(i, g) ==
  /\ kernel[i] # g
  /\ kernel' = [kernel EXCEPT ![i] = g]
  /\ submitted' = submitted \ {i}
  /\ late' = IF armed = {"table", "client"} THEN late \cup {i} ELSE late
  /\ LET e == IF g = "none" THEN <<i, kernel[i], TRUE>> ELSE <<i, g, FALSE>>
     IN  IF Listening(Nexthop)
           THEN /\ events' = [events EXCEPT ![Nexthop] = Append(@, e)]
                /\ UNCHANGED missed
           ELSE /\ socket[Nexthop] = "none"
                /\ missed' = IF mpc = "dump" THEN missed ELSE missed \cup {i}
                /\ UNCHANGED events
  /\ UNCHANGED <<mainVars, global, socket, monitorVars, up, raced>>

\* A route or a neighbour changes.
OtherEvent(m) ==
  /\ m \in Others /\ Listening(m)
  /\ events' = [events EXCEPT ![m] = Append(@, NoEvent)]
  /\ UNCHANGED <<kernel, mainVars, global, socket, monitorVars, up, submitted,
                 history>>

-----------------------------------------------------------------------------
(* main().                                                                  *)

Goto(from, to) == mpc = from /\ mpc' = to

\* The tables are dumped over sockets of their own; a dump that fails leaves
\* what it has read so far, and nobody looks at its result.
DumpTables(Known) ==
  /\ Goto("dump", "open")
  /\ nexthops' = [i \in NhIds |-> IF i \in Known THEN kernel[i] ELSE "none"]
  /\ missed' = NhIds \ Known
  /\ UNCHANGED <<kernelVars, stop, armed, alive, chosen, global, socket, tpc,
                 cur, up, submitted, late, raced>>

\* The sockets are opened and the threads of those that open are started.
StartMonitors(Opened) ==
  /\ Goto("open", "boot")
  /\ global' = Opened
  /\ socket' = [m \in Monitors |-> IF m \in Opened THEN "open" ELSE "none"]
  /\ tpc' = [m \in Monitors |-> IF m \in Opened THEN "head" ELSE "none"]
  /\ UNCHANGED <<kernelVars, stop, armed, alive, chosen, cur, nexthops, up,
                 submitted, history>>

\* main walks the nexthop table with no lock, which the monitor may be changing.
WalkNexthops == IF tpc[Nexthop] = "update" THEN up' \in BOOLEAN ELSE UNCHANGED up

\* RequestLoopback or GetAllRoutes fails or times out: the command returns.
BootFails ==
  /\ Goto("boot", "guard")
  /\ WalkNexthops
  /\ UNCHANGED <<kernelVars, stop, armed, alive, chosen, global, socket,
                 monitorVars, submitted, history>>

\* The order in which main prepares the first request.
After_LookupFirst ==
  [boot |-> "lookup", lookup |-> "armTable", armTable |-> "armClient",
   armClient |-> "submit", submit |-> "loop"]
After ==
  [boot |-> "armTable", armTable |-> "armClient", armClient |-> "lookup",
   lookup |-> "submit", submit |-> "loop"]

\* VrfUdpClient is started and the VRF table loaded.
BootSucceeds ==
  /\ Goto("boot", After["boot"])
  /\ alive' = TRUE
  /\ WalkNexthops
  /\ UNCHANGED <<kernelVars, stop, armed, chosen, global, socket, monitorVars,
                 submitted, history>>

ArmTable ==
  /\ Goto("armTable", After["armTable"])
  /\ armed' = armed \cup {"table"}
  /\ UNCHANGED <<kernelVars, stop, alive, chosen, global, socket, monitorVars,
                 up, submitted, history>>

ArmClient ==
  /\ Goto("armClient", After["armClient"])
  /\ armed' = armed \cup {"client"}
  /\ UNCHANGED <<kernelVars, stop, alive, chosen, global, socket, monitorVars,
                 up, submitted, history>>

\* The lowest id in the nexthop table that leads to the gateway, or 0.
Lowest ==
  LET ids == {i \in NhIds : nexthops[i] = "vrf"}
  IN  IF ids = {} THEN 0 ELSE CHOOSE i \in ids : \A j \in ids : i <= j

\* The id main submits; while the monitor changes the table it is arbitrary.
Lookup ==
  /\ Goto("lookup", After["lookup"])
  /\ IF tpc[Nexthop] = "update"
       THEN chosen' \in NhIds \cup {0} /\ raced' = TRUE
       ELSE chosen' = Lowest /\ UNCHANGED raced
  /\ WalkNexthops
  /\ UNCHANGED <<kernelVars, stop, armed, alive, global, socket, monitorVars,
                 submitted, missed, late>>

SubmitFirst ==
  /\ Goto("submit", After["submit"])
  /\ submitted' = submitted \cup {chosen}
  /\ UNCHANGED <<kernelVars, stop, armed, alive, chosen, global, socket,
                 monitorVars, up, history>>

LeaveLoop ==
  /\ stop /\ Goto("loop", "stopfds")
  /\ UNCHANGED <<kernelVars, stop, armed, alive, chosen, global, socket,
                 monitorVars, up, submitted, history>>

\* What g_startup_*_fd hold once their sockets are closed: all -1.
Reset == {}

Closed == [m \in Monitors |-> IF m \in global THEN "closed" ELSE socket[m]]

\* stopNetlinkFd shuts down and closes the sockets g_startup_*_fd still have.
\* They have none: the handler that set stop reset them.
StopSockets ==
  /\ Goto("stopfds", "leave")
  /\ socket' = Closed
  /\ global' = Reset
  /\ UNCHANGED <<kernelVars, stop, armed, alive, chosen, monitorVars, up,
                 submitted, history>>

\* VrfUdpClient and GrpcProc are stopped; then main's locals are destroyed.
LeaveCommand ==
  /\ Goto("leave", "guard")
  /\ alive' = FALSE
  /\ UNCHANGED <<kernelVars, stop, armed, chosen, global, socket, monitorVars,
                 up, submitted, history>>

\* ~StartupGuard closes what is still open, joins the threads and stops the
\* UDP server.
GuardCloses ==
  /\ Goto("guard", "join")
  /\ socket' = Closed /\ global' = Reset
  /\ UNCHANGED <<kernelVars, stop, armed, alive, chosen, monitorVars, up,
                 submitted, history>>

GuardJoins ==
  /\ \A m \in Monitors : tpc[m] \in {"none", "exited"}
  /\ Goto("join", "done")
  /\ UNCHANGED <<kernelVars, stop, armed, alive, chosen, global, socket,
                 monitorVars, up, submitted, history>>

\* SIGINT or SIGTERM: the handler runs in main, or in a monitor, whose recv()
\* is then interrupted.
Signal ==
  /\ mpc \notin {"dump", "open", "done"}
  /\ stop' = TRUE
  /\ socket' = Closed /\ global' = Reset
  /\ \/ UNCHANGED tpc
     \/ \E m \in Monitors : tpc[m] = "recv" /\ tpc' = [tpc EXCEPT ![m] = "head"]
  /\ UNCHANGED <<kernelVars, mpc, armed, alive, chosen, cur, nexthops, up,
                 submitted, history>>

-----------------------------------------------------------------------------
(* A monitor: netlink_run() and its callback.                               *)

ThreadGoto(m, from, to) == tpc[m] = from /\ tpc' = [tpc EXCEPT ![m] = to]

\* What recv() on a socket that is no longer open does to the loop.
OnError_Retry == "head"
OnError == "exited"

\* recv() is entered: it fails at once on a closed descriptor.
EnterRecv(m) ==
  /\ ThreadGoto(m, "head", IF socket[m] = "open" THEN "recv" ELSE OnError)
  /\ UNCHANGED <<kernelVars, mainVars, global, socket, cur, nexthops, up,
                 submitted, history>>

\* The route and neighbour monitors update and publish their own table.
RecvOther(m) ==
  /\ m \in Others /\ events[m] # <<>>
  /\ ThreadGoto(m, "recv", "head")
  /\ events' = [events EXCEPT ![m] = Tail(@)]
  /\ UNCHANGED <<kernel, mainVars, global, socket, cur, nexthops, up,
                 submitted, history>>

RecvNexthop ==
  /\ events[Nexthop] # <<>>
  /\ ThreadGoto(Nexthop, "recv", "update")
  /\ cur' = Head(events[Nexthop])
  /\ events' = [events EXCEPT ![Nexthop] = Tail(@)]
  /\ UNCHANGED <<kernel, mainVars, global, socket, nexthops, up, submitted,
                 history>>

\* The table after the event: a nexthop that is gone leaves it.
Updated_Upsert == [nexthops EXCEPT ![cur[1]] = cur[2]]
Updated == [nexthops EXCEPT ![cur[1]] = IF cur[3] THEN "none" ELSE cur[2]]

\* nlNexthopUpdate and setNexthopData.
UpdateTable ==
  /\ ThreadGoto(Nexthop, "update", "check")
  /\ nexthops' = Updated
  /\ UNCHANGED <<kernelVars, mainVars, global, socket, cur, up, submitted,
                 history>>

\* sendVrfRouteForNexthop: nothing to do unless armed, and unless the VRF
\* table has the gateway of the event, whether or not the nexthop is gone.
CheckTable ==
  /\ LET wanted == armed = {"table", "client"} /\ cur[2] = "vrf"
     IN  /\ ThreadGoto(Nexthop, "check", IF wanted THEN "submit" ELSE "head")
         /\ cur' = IF wanted THEN cur ELSE NoEvent
  /\ IF armed = {"table", "client"} /\ ~alive THEN up' \in BOOLEAN
                                              ELSE UNCHANGED up
  /\ UNCHANGED <<kernelVars, mainVars, global, socket, nexthops, submitted,
                 history>>

Resubmit ==
  /\ ThreadGoto(Nexthop, "submit", "head")
  /\ cur' = NoEvent
  /\ submitted' = submitted \cup {cur[1]}
  /\ IF alive THEN UNCHANGED up ELSE up' \in BOOLEAN
  /\ UNCHANGED <<kernelVars, mainVars, global, socket, nexthops, history>>

-----------------------------------------------------------------------------

Main ==
  \/ \E Known \in SUBSET NhIds : DumpTables(Known)
  \/ \E Opened \in SUBSET Monitors : StartMonitors(Opened)
  \/ BootFails \/ BootSucceeds \/ ArmTable
  \/ ArmClient \/ Lookup \/ SubmitFirst \/ LeaveLoop \/ StopSockets
  \/ LeaveCommand \/ GuardCloses \/ GuardJoins

Monitor(m) ==
  \/ EnterRecv(m) \/ RecvOther(m)
  \/ m = Nexthop /\ (RecvNexthop \/ UpdateTable \/ CheckTable \/ Resubmit)

Next ==
  /\ up
  /\ \/ Main \/ Signal
     \/ \E m \in Monitors : Monitor(m) \/ OtherEvent(m)
     \/ \E i \in NhIds, g \in Gateways : ChangeNexthop(i, g)

\* Threads run; gRPC calls end by their deadlines.
Fairness ==
  /\ WF_vars(up /\ Main)
  /\ \A m \in Monitors : WF_vars(up /\ Monitor(m))

Spec == Init /\ [][Next]_vars /\ Fairness

-----------------------------------------------------------------------------
(* Properties.                                                              *)

\* The nexthop monitor has handled every event so far.
Idle ==
  /\ socket[Nexthop] = "open" /\ tpc[Nexthop] \in {"head", "recv"}
  /\ events[Nexthop] = <<>>

\* Arming the monitor before reading its table leaves no gap, although neither
\* takes a lock.  Once main is in its loop and the monitor has nothing left to
\* handle, a nexthop that leads to the VRF gateway was submitted since it last
\* changed, unless it has not changed since main armed the monitor and main
\* found a lower id.  (A nexthop that changed before the monitor listened, or a
\* walk of the table that raced with its update, is lost.)
NexthopSubmitted ==
  mpc = "loop" /\ Idle /\ ~raced =>
    \A i \in NhIds \ missed :
      kernel[i] = "vrf" =>
        i \in submitted \/ (i \notin late /\ chosen \in 1 .. i - 1)

\* The table main looks up nexthops in follows the kernel.
TableFollowsKernel ==
  Idle => \A i \in NhIds \ missed : nexthops[i] = kernel[i]

\* The same, with every variable of its type.
TableSound == TypeOK /\ TableFollowsKernel

\* The join of ~StartupGuard can only hang on a monitor no event arrives for.
JoinReturnsOnEvents ==
  (\A m \in Monitors : []<>(events[m] # <<>> \/ tpc[m] \in {"none", "exited"} \/ ~up))
    => (mpc = "join" ~> (mpc = "done" \/ ~up))
=============================================================================
