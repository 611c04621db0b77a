----------------------------- MODULE SrmdService -----------------------------
(***************************************************************************)
(* The life of srmd (main.cpp, daemon.cpp) from its files to its PID file, *)
(* signals and gRPC server, the calls it answers (service_impl.cpp), and   *)
(* the commands of sra that call it once and end (main.cpp,                *)
(* route_client.cpp).  WatchRoutes, "watch" and the rest of "run" have     *)
(* modules of their own.                                                   *)
(*                                                                         *)
(* A pid is one start of srmd on the host; a crash and a restart are two   *)
(* pids.  gRPC binds with SO_REUSEPORT, so a second srmd on the same port  *)
(* may start as well as fail to.                                           *)
(***************************************************************************)
EXTENDS SotConfig

CONSTANTS Pids,           \* 1 .. n, in the order they are started
          Clients,        \* sra processes, one command each
          Host,           \* the address of srmd's host
          Commands,       \* commands sra may be given, a sequence
          Docs,           \* contents the SOT file can have, a sequence
          Confs,          \* contents srmd's configuration file can have
          ClientConfs,    \* contents sra's configuration file can have
          SwitchDocs,     \* contents the file of switches can have
          StartDisks,     \* <<SOT, configuration>> on disk at first, as indices
          EditedDisks,    \* and after an edit
          MaxChanges, MaxFaults   \* bounds on edits, on crashes and failed calls

ASSUME ServiceAssumption ==
  /\ IsFiniteSet(Pids) /\ Pids = 1 .. Cardinality(Pids)
  /\ MaxChanges \in Nat /\ MaxFaults \in Nat

VARIABLES disk,      \* what the SOT and the configuration file hold, as indices
          srmd,      \* each start of srmd
          pidfile,   \* the PID file: its inode (0 if there is none) and its text
          told,      \* those that live and were sent SIGTERM
          sra,       \* the commands
          changes, faults

vars == <<disk, srmd, pidfile, told, sra, changes, faults>>

\* The files as srmd and as sra read them.
Sots == [d \in DOMAIN Docs |-> loadSotConfig(Docs[d], TRUE)]
SraSots == [d \in DOMAIN Docs |-> loadSotConfig(Docs[d], FALSE)]
ServerConfigs == [d \in DOMAIN Confs |-> loadServerConfig(Confs[d])]

NoFile == [ino |-> 0, text |-> 0]
Unborn == [at |-> "unborn", foreground |-> FALSE, sot |-> 0, conf |-> 0, handlers |-> FALSE, stop |-> FALSE,
           reload |-> FALSE, fd |-> 0, written |-> FALSE, alone |-> TRUE,
           routes |-> {}, added |-> 0, loopback |-> ""]
Idle == [at |-> "idle", command |-> 0, file |-> 0, ok |-> TRUE, parts |-> <<>>, conn |-> 0, log |-> <<>>]

Live(p) == srmd[p].at \notin {"unborn", "ended", "killed"}

Disks(ds) == {[sot |-> d[1], conf |-> d[2]] : d \in ds}

Init ==
  /\ disk \in Disks(StartDisks)
  /\ srmd = [p \in Pids |-> Unborn]
  /\ pidfile = NoFile
  /\ told = {}
  /\ sra = [c \in Clients |-> Idle]
  /\ changes = 0 /\ faults = 0

\* A bound: once the commands are done nothing new is done to srmd, which
\* goes on by itself; without a command everything is.
Watched == \E c \in Clients : sra[c].at # "done"

\* The files are edited, while there is someone left to read them.
Change ==
  /\ changes < MaxChanges
  /\ (\E p \in Pids : srmd[p].at = "unborn") \/ \E c \in Clients : sra[c].at = "idle"
  /\ disk' \in Disks(EditedDisks) \ {disk}
  /\ changes' = changes + 1
  /\ UNCHANGED <<srmd, pidfile, told, sra, faults>>

-----------------------------------------------------------------------------
(* The life of srmd.                                                        *)

MayRemove_Always(p) == TRUE
MayRemove(p) == srmd[p].written

\* What is left of a process: its inode, and the file it read for the properties.
Gone(p, at) ==
  /\ srmd' = [srmd EXCEPT ![p] = [Unborn EXCEPT !.at = at, !.sot = srmd[p].sot, !.fd = srmd[p].fd]]
  /\ told' = told \ {p}

\* main returns: ~Daemon.
Returns(p) ==
  /\ Gone(p, "ended")
  /\ pidfile' = IF MayRemove(p) THEN NoFile ELSE pidfile

Goes(p, from, to) ==
  /\ srmd[p].at = from
  /\ srmd' = [srmd EXCEPT ![p].at = to]
  /\ UNCHANGED <<pidfile, told>>

\* Where srmd p listens.
Port(p) == ServerConfigs[srmd[p].conf].val.port

\* srmd p with its files loaded, in the foreground or not.
Loaded(p, foreground) ==
  [Unborn EXCEPT !.foreground = foreground, !.sot = disk.sot,
                 !.conf = disk.conf,
                 !.alone = \A q \in Pids : Live(q) => srmd[q].foreground]

\* p is started and becomes s; beside a new daemon no other is alone any more.
Starts(p, s) ==
  /\ Watched
  /\ p = Cardinality({q \in Pids : srmd[q].at # "unborn"}) + 1
  /\ srmd' = [q \in Pids |->
       IF q = p THEN s
       ELSE [srmd[q] EXCEPT !.alone = @ /\ ~(Live(q) /\ s.at = "writing")]]
  /\ UNCHANGED <<disk, told, sra, changes, faults>>

\* The SOT or the configuration cannot be loaded, or daemonise() throws: fork,
\* setsid, chdir, dup2 and opening the PID file may fail.
StartFails(p) == Starts(p, [Unborn EXCEPT !.at = "ended"]) /\ UNCHANGED pidfile

Start(p, foreground) ==
  LET ino == IF pidfile.ino = 0 THEN p ELSE pidfile.ino
      s == Loaded(p, foreground)
  IN  /\ Sots[disk.sot].ok /\ ServerConfigs[disk.conf].ok
      /\ IF foreground
         THEN Starts(p, [s EXCEPT !.at = "starting"]) /\ UNCHANGED pidfile
         \* Opening the PID file truncates the one that is there.
         ELSE /\ Starts(p, [s EXCEPT !.at = "writing", !.fd = ino, !.written = TRUE])
              /\ pidfile' = [ino |-> ino, text |-> 0]

\* Its text is written when the stream is destroyed, where nobody notices
\* that the disk is full.
FlushPidFile(p, full) ==
  /\ srmd[p].at = "writing"
  /\ srmd' = [srmd EXCEPT ![p].at = "written"]
  /\ UNCHANGED told
  /\ pidfile' = IF pidfile.ino = srmd[p].fd /\ ~full THEN [pidfile EXCEPT !.text = p] ELSE pidfile

installSignalHandlers(p) ==
  /\ srmd[p].at = "written"
  /\ srmd' = [srmd EXCEPT ![p].at = "starting", ![p].handlers = TRUE]
  /\ UNCHANGED <<pidfile, told>>

\* The logs and the gRPC server; either may fail.
BuildAndStart(p) == Goes(p, "starting", "serving")
BuildFails(p) == srmd[p].at = "starting" /\ Returns(p)

shouldStop(p) == srmd[p].stop

\* The main loop: a reload reads the configuration and uses nothing of it.
Loop(p) ==
  \/ shouldStop(p) /\ Goes(p, "serving", "stopping")
  \/ /\ ~shouldStop(p) /\ srmd[p].reload /\ srmd[p].at = "serving"
     /\ srmd' = [srmd EXCEPT ![p].reload = FALSE]
     /\ UNCHANGED <<pidfile, told>>

\* Shutdown() cancels what has not ended after ten seconds, then Wait() returns.
Shutdown(p) == srmd[p].at = "stopping" /\ Returns(p)

Progress(p) ==
  /\ \/ FlushPidFile(p, FALSE) \/ installSignalHandlers(p)
     \/ BuildAndStart(p) \/ BuildFails(p) \/ Loop(p) \/ Shutdown(p)
  /\ UNCHANGED <<disk, sra, changes, faults>>

\* What the handler of a signal sets.
Requests_Reload(r, signal) == [r EXCEPT !.reload = TRUE]
Requests(r, signal) ==
  IF signal = "SIGTERM" THEN [r EXCEPT !.stop = TRUE] ELSE [r EXCEPT !.reload = TRUE]

\* A signal kills a process that has no handler: in the foreground, and
\* before the handlers are installed, though the PID file is there.  With a
\* handler SIGHUP only sets a flag the loop reads: a bound sends it to a srmd
\* that is in the loop and not yet told to stop.
Signal(p, signal) ==
  /\ Live(p) /\ Watched
  /\ (signal = "SIGHUP" /\ srmd[p].handlers) => srmd[p].at = "serving" /\ ~srmd[p].stop
  /\ IF srmd[p].handlers
     THEN /\ srmd' = [srmd EXCEPT ![p] = Requests(@, signal)]
          /\ told' = IF signal = "SIGTERM" THEN told \cup {p} ELSE told
     ELSE Gone(p, "killed")
  /\ UNCHANGED <<disk, pidfile, sra, changes, faults>>

Fault == Watched /\ faults < MaxFaults /\ faults' = faults + 1

Crash(p) ==
  /\ Fault /\ Live(p) /\ Gone(p, "killed")
  /\ UNCHANGED <<disk, pidfile, sra, changes>>

DiskFull(p) == Fault /\ FlushPidFile(p, TRUE) /\ UNCHANGED <<disk, sra, changes>>

-----------------------------------------------------------------------------
(* The calls srmd answers; ip is the caller's.                              *)

extractClientIp(peer) == IF peer.form \in {"ipv4", "ipv6"} THEN peer.addr ELSE peer.form

RouteOf(p, call) == [id |-> p * 100 + srmd[p].added + 1, route |-> call.arg]
HasId(p, id) == \E r \in srmd[p].routes : r.id = id

Answer(p, call, arg, ip) ==
  LET nodes == Sots[srmd[p].sot].val
  IN  CASE call.rpc \in {"Echo", "Heartbeat"} -> Ok(call.arg)
        [] call.rpc = "AddRoute" -> IF arg.dest = "" THEN Err("INVALID_ARGUMENT")
                                    ELSE Ok(RouteOf(p, call).id)
        [] call.rpc \in {"GetRoute", "RemoveRoute"} ->
             IF HasId(p, arg) THEN Ok(arg) ELSE Err("NOT_FOUND")
        [] call.rpc = "ListRoutes" -> Ok({r.id : r \in srmd[p].routes})
        [] call.rpc = "SetLoopback" -> IF arg = "" THEN Err("INVALID_ARGUMENT") ELSE Ok(arg)
        [] call.rpc = "GetLoopback" -> Ok(srmd[p].loopback)
        [] call.rpc = "RequestLoopback" -> RequestLoopback(nodes, ip)
        [] call.rpc = "GetLoopbacks" -> GetLoopbacks(nodes, ip, arg)
        [] call.rpc = "GetAllRoutes" -> GetAllRoutes(nodes, ip)

\* srmd after a call it granted.
Applied(p, call, arg) ==
  CASE call.rpc = "AddRoute" ->
         [srmd[p] EXCEPT !.routes = @ \cup {RouteOf(p, call)}, !.added = @ + 1]
    [] call.rpc = "RemoveRoute" -> [srmd[p] EXCEPT !.routes = {r \in @ : r.id # arg}]
    [] call.rpc = "SetLoopback" -> [srmd[p] EXCEPT !.loopback = arg]
    [] OTHER -> srmd[p]

-----------------------------------------------------------------------------
(* The commands of sra: what each calls, and what a failure of a call does: *)
(* "stop" ends the part with a failure, "note" makes the command fail in    *)
(* the end, "skip" also leaves out what needs the route's id, "ignore"      *)
(* changes nothing, not even the exit code.                                 *)

Rpc(rpc, arg, fails) == [rpc |-> rpc, arg |-> arg, fails |-> fails]
TestRoute(dest, gateway, iface, metric) ==
  [dest |-> dest, gateway |-> gateway, iface |-> iface, metric |-> metric]

FirstTestRoute == TestRoute("default", "192.168.1.1", "eth0", 100)
cmdTest ==
  <<Rpc("Echo", "hello", "stop"), Rpc("Heartbeat", "1", "note"),
    Rpc("AddRoute", FirstTestRoute, "skip"),
    Rpc("AddRoute", TestRoute("10.0.0.0/8", "10.0.0.1", "eth1", 50), "note"),
    Rpc("ListRoutes", "", "note"), Rpc("GetRoute", 0, "note"),
    Rpc("RemoveRoute", 0, "note"), Rpc("ListRoutes", "", "note")>>

\* A push that fails is printed, and the others go on.
pushNodeRoutes_Stops(node) ==
  [i \in DOMAIN Pushes(node) |-> Rpc("AddRoute", Pushes(node)[i], "stop")]
pushNodeRoutes(node) ==
  [i \in DOMAIN Pushes(node) |-> Rpc("AddRoute", Pushes(node)[i], "ignore")]

\* A part is what is called over one RouteClient.
Part(host, port, calls) == [host |-> host, port |-> port, calls |-> calls]

ClientConfig(command) ==
  LET cfg == loadClientConfig(ClientConfs[command.conf])
  IN  IF cfg.ok THEN cfg.val ELSE [port |-> 50051, timeout |-> 10, loopback |-> ""]

Started(ok, parts) == [ok |-> ok, parts |-> parts]

\* "sync" parses the SOT before it opens a connection.  A switch without an
\* entry in the SOT is skipped and fails the command.
cmdSync(command, file) ==
  LET sot == SraSots[file]
      switches == IF command.switches = 0 THEN Ok(<<[ipv4 |-> command.node,
                                                     port |-> ClientConfig(command).port]>>)
                  ELSE loadSwitchConfig(SwitchDocs[command.switches])
      Known(s) == findByManagementIp(sot.val, s.ipv4).ok
      known == SelectSeq(switches.val, Known)
  IN  IF ~sot.ok \/ ~switches.ok THEN Started(FALSE, <<>>)
      ELSE Started(Len(known) = Len(switches.val),
                   [i \in DOMAIN known |->
                      Part(IF command.switches = 0 THEN Host ELSE known[i].ipv4, known[i].port,
                           pushNodeRoutes(findByManagementIp(sot.val, known[i].ipv4).val))])

cmdMultiTest(command) ==
  LET switches == loadSwitchConfig(SwitchDocs[command.switches])
  IN  IF ~switches.ok THEN Started(FALSE, <<>>)
      ELSE Started(TRUE, [i \in DOMAIN switches.val |->
                            Part(switches.val[i].ipv4, switches.val[i].port, cmdTest)])

\* All other commands call one server, and first ask it for their loopback.
StartUp == <<Rpc("RequestLoopback", "", "ignore")>>
RunCalls ==
  StartUp \o <<Rpc("RequestLoopback", "", "stop"), Rpc("GetLoopbacks", "", "ignore"),
               Rpc("GetAllRoutes", "", "stop")>>
VrfRouteAddCalls == StartUp \o <<Rpc("GetAllRoutes", "", "ignore")>>
Calls(command) ==
  CASE command.name = "test" -> StartUp \o cmdTest
    [] command.name = "run" -> RunCalls
    [] command.name = "vrf-route-add" -> VrfRouteAddCalls
    [] OTHER -> StartUp \o <<Rpc(command.name, command.arg, "stop")>>

Begun(command, file) ==
  CASE command.name = "sync" -> cmdSync(command, file)
    [] command.name = "test" /\ command.switches # 0 -> cmdMultiTest(command)
    [] OTHER -> Started(TRUE, <<Part(Host, ClientConfig(command).port, Calls(command))>>)

Done(s) == [s EXCEPT !.at = IF s.parts = <<>> THEN "done" ELSE "running"]

\* A command that begins before there is a server fails: not looked at.
Begin(c, k) ==
  LET begun == Begun(Commands[k], disk.sot)
  IN  /\ sra[c].at = "idle" /\ \E p \in Pids : srmd[p].at = "serving"
      /\ sra' = [sra EXCEPT ![c] = Done([Idle EXCEPT !.command = k, !.file = disk.sot,
                                                     !.ok = begun.ok, !.parts = begun.parts])]
      /\ UNCHANGED <<disk, srmd, pidfile, told, changes, faults>>

Command(c) == Commands[sra[c].command]
NextCall(c) == Head(Head(sra[c].parts).calls)

\* Answers of the part under way.
PartLog(c) == SelectSeq(sra[c].log, LAMBDA e : e.part = Len(sra[c].parts))
Granted(c, rpc) == SelectSeq(PartLog(c), LAMBDA e : e.rpc = rpc /\ e.reply.ok)

\* What a call sends: the id of the first route added, the loopback received.
Arg(c) ==
  CASE NextCall(c).rpc \in {"GetRoute", "RemoveRoute"} /\ NextCall(c).arg = 0 ->
         Granted(c, "AddRoute")[1].reply.val
    [] NextCall(c).rpc = "GetLoopbacks" /\ Command(c).name = "run" ->
         Last(Granted(c, "RequestLoopback")).reply.val
    [] OTHER -> NextCall(c).arg

NeedsId(call) == call.rpc \in {"GetRoute", "RemoveRoute"}

\* Answers a command uses later, or a property.
Logged(command) ==
  {"AddRoute", "GetLoopbacks", "GetAllRoutes"}
    \cup (IF command.name = "run" THEN {"RequestLoopback"} ELSE {})

\* The command after an answer.  applied: by whom the call was carried out.
Answered(c, reply, p, applied) ==
  LET s == sra[c]
      call == NextCall(c)
      calls == CASE reply.ok \/ call.fails \in {"ignore", "note"} -> Tail(Head(s.parts).calls)
                 [] ~reply.ok /\ call.fails = "skip" ->
                      SelectSeq(Tail(Head(s.parts).calls), LAMBDA r : ~NeedsId(r))
                 [] OTHER -> <<>>
  IN  Done([s EXCEPT !.ok = @ /\ (reply.ok \/ call.fails = "ignore"),
                     !.parts = IF calls = <<>> THEN Tail(@) ELSE [@ EXCEPT ![1].calls = calls],
                     !.conn = IF calls = <<>> THEN 0 ELSE p,
                     !.log = IF call.rpc \in Logged(Command(c))
                             THEN Append(@, [part |-> Len(s.parts), rpc |-> call.rpc, arg |-> Arg(c),
                                             reply |-> reply, by |-> applied])
                             ELSE @])

\* A channel stays with a server as long as it serves, then may reach another.
MayReach(c, p) ==
  /\ sra[c].at = "running" /\ Head(sra[c].parts).calls # <<>>
  /\ srmd[p].at = "serving" /\ Head(sra[c].parts).host = Host
  /\ Port(p) = Head(sra[c].parts).port
  /\ ClientConfig(Command(c)).timeout > 0
  /\ sra[c].conn \notin {0, p} => srmd[sra[c].conn].at # "serving"

CallServed(c, p) ==
  /\ MayReach(c, p)
  /\ LET reply == Answer(p, NextCall(c), Arg(c), extractClientIp(Command(c).peer))
     IN  /\ srmd' = [srmd EXCEPT ![p] = IF reply.ok THEN Applied(p, NextCall(c), Arg(c)) ELSE @]
         /\ sra' = [sra EXCEPT ![c] = Answered(c, reply, p, p)]
  /\ UNCHANGED <<disk, pidfile, told, changes, faults>>

\* The call is carried out and its answer is late or lost.
AnswerLost(c, p) ==
  /\ Fault /\ MayReach(c, p)
  /\ Answer(p, NextCall(c), Arg(c), extractClientIp(Command(c).peer)).ok
  /\ srmd' = [srmd EXCEPT ![p] = Applied(p, NextCall(c), Arg(c))]
  /\ sra' = [sra EXCEPT ![c] = Answered(c, Err("DEADLINE_EXCEEDED"), 0, p)]
  /\ UNCHANGED <<disk, pidfile, told, changes>>

\* Nobody answers.
CallFails(c) ==
  /\ sra[c].at = "running" /\ Head(sra[c].parts).calls # <<>>
  /\ \/ (\A p \in Pids : ~MayReach(c, p)) /\ UNCHANGED faults
     \/ (\E p \in Pids : MayReach(c, p)) /\ Fault
  /\ sra' = [sra EXCEPT ![c] = Answered(c, Err("UNAVAILABLE"), 0, 0)]
  /\ UNCHANGED <<disk, srmd, pidfile, told, changes>>

\* A node without prefixes: nothing to push.
NothingToCall(c) ==
  /\ sra[c].at = "running" /\ Head(sra[c].parts).calls = <<>>
  /\ sra' = [sra EXCEPT ![c] = Done([@ EXCEPT !.parts = Tail(@), !.conn = 0])]
  /\ UNCHANGED <<disk, srmd, pidfile, told, changes, faults>>

-----------------------------------------------------------------------------
(* What the files say, by their paths alone.                                *)

Keys(v) == {v.v[i][1] : i \in DOMAIN v.v}
Child(v, k) == IF k \in Keys(v) THEN Field(v.v, k) ELSE [t |-> "obj", v |-> <<>>]

NodeIn(doc, ip) == Child(Child(doc, "nodes_by_loopback"), ip)
IfaceIn(doc, ip, vrf, i) ==
  Child(Child(Child(Child(Child(NodeIn(doc, ip), "vrfs"), vrf), "ipv4"), "interfaces"), i)
IfacesIn(doc, ip) ==
  LET vrfs == Child(NodeIn(doc, ip), "vrfs")
  IN  UNION {{<<v, i>> : i \in Keys(Child(Child(Child(vrfs, v), "ipv4"), "interfaces"))}
               : v \in Keys(vrfs)}
Text(o, k) == IF k \in Keys(o) THEN Child(o, k).v ELSE ""

\* <<VRF, interface, n>>: the n-th prefix an interface lists.
PrefixesIn(doc, ip) ==
  UNION {{<<x[1], x[2], n>> : n \in DOMAIN Child(IfaceIn(doc, ip, x[1], x[2]), "prefixes").v}
           : x \in IfacesIn(doc, ip)}
DeclaredAt(doc, ip, x) ==
  LET iface == IfaceIn(doc, ip, x[1], x[2])
      prefix == Child(iface, "prefixes").v[x[3]]
  IN  [dest |-> Text(prefix, "prefix"), gateway |-> Text(iface, "nexthop"), iface |-> x[2],
       metric |-> Child(prefix, "weight").v]
DeclaredPushes(doc, ip) == [x \in PrefixesIn(doc, ip) |-> DeclaredAt(doc, ip, x)]

\* The weights and masks of a node are numbers of their kind.
InRange(doc, ip) ==
  \A x \in PrefixesIn(doc, ip) :
    LET declared == DeclaredAt(doc, ip, x)
    IN  /\ declared.metric \in 0 .. WORD - 1
        /\ declared.dest \in DOMAIN Cidr => Cidr[declared.dest].len \in 0 .. 32

\* The port a configuration names, or the default.
DeclaredPort(conf) ==
  LET server == Child(conf, "server")
  IN  IF "listen_port" \in Keys(server) THEN Child(server, "listen_port").v ELSE 50051

\* f and g take the same values equally often.
SameBag(f, g) ==
  \A r \in {f[x] : x \in DOMAIN f} \cup {g[x] : x \in DOMAIN g} :
    Cardinality({x \in DOMAIN f : f[x] = r}) = Cardinality({x \in DOMAIN g : g[x] = r})

-----------------------------------------------------------------------------
(* Properties.                                                              *)

\* The PID file: it never names a srmd that returned from main; a daemon no
\* other daemon lived beside is named by it from the moment it is written,
\* whatever a foreground srmd does, unless the disk was full; an empty file is
\* one being written or what a kill or a full disk left.  (daemon.cpp)
PidFileSound ==
  /\ \A p \in Pids :
       /\ pidfile.text = p => (Live(p) /\ srmd[p].written) \/ srmd[p].at = "killed"
       /\ (Live(p) /\ srmd[p].alone /\ srmd[p].written /\ srmd[p].at # "writing")
            => pidfile.text = p \/ (pidfile.ino # 0 /\ pidfile.text = 0 /\ faults > 0)
  /\ (pidfile.ino # 0 /\ pidfile.text = 0)
       => faults > 0 \/ \E p \in Pids : srmd[p].at \in {"writing", "killed"} /\ srmd[p].fd = pidfile.ino

\* Routes a command added on p, with an answer or with the answer lost.
AddedBy(c, p, part) ==
  SelectSeq(sra[c].log, LAMBDA e : e.rpc = "AddRoute" /\ e.by = p /\ e.part = part)

\* A sync attempts every prefix its file declares for every switch, exactly
\* once, however many calls fail, and leaves on a server that answered them
\* all exactly those routes; without its files it calls nobody.  It succeeds
\* exactly if it has its files and the SOT has all switches: a failed push is
\* not told, although main.cpp says so of its exit code.
SyncExact(c) ==
  LET s == sra[c]
      doc == Docs[s.file]
      listed == IF Command(c).switches = 0 THEN Ok(<<[ipv4 |-> Command(c).node]>>)
                ELSE loadSwitchConfig(SwitchDocs[Command(c).switches])
      ready == SraSots[s.file].ok /\ listed.ok
      ips == IF ready THEN [i \in DOMAIN listed.val |-> listed.val[i].ipv4] ELSE <<>>
      known == SelectSeq(ips, LAMBDA ip : ip \in Keys(Child(doc, "nodes_by_loopback")))
      Attempted(part) == SelectSeq(s.log, LAMBDA e : e.part = part)
  IN  (s.at = "done" /\ Command(c).name = "sync") =>
        /\ s.ok <=> ready /\ Len(known) = Len(ips)
        /\ {s.log[i].part : i \in DOMAIN s.log} \subseteq DOMAIN known
        /\ \A k \in DOMAIN known : InRange(doc, known[k]) =>
          LET part == Len(known) + 1 - k
              calls == Attempted(part)
          IN  /\ SameBag([i \in DOMAIN calls |-> calls[i].arg], DeclaredPushes(doc, known[k]))
              /\ \A p \in Pids :
                   (Live(p) /\ calls # <<>> /\ \A i \in DOMAIN calls : calls[i].reply.ok /\ calls[i].by = p) =>
                     \A i \in DOMAIN calls :
                       \E r \in srmd[p].routes : r.id = calls[i].reply.val /\ r.route = calls[i].arg

\* After "ALL PASSED" the server that was sent the first route, if it lives, was
\* sent both and has exactly the second.
TestExact(c) ==
  LET s == sra[c]
      parts == {s.log[i].part : i \in DOMAIN s.log}
  IN  (s.at = "done" /\ Command(c).name = "test" /\ s.ok) =>
        \A part \in parts : \A p \in Pids :
          LET added == AddedBy(c, p, part)
          IN  (Live(p) /\ added # <<>> /\ added[1].arg = FirstTestRoute) =>
                /\ Len(added) = 2
                /\ {r.id : r \in srmd[p].routes} \cap {added[1].reply.val, added[2].reply.val}
                     = {added[2].reply.val}

\* What a command reports is what it did to the tables of srmd.
\* (main.cpp: cmdTest, pushNodeRoutes, cmdSyncMulti)
CommandIsExact == \A c \in Clients : sra[c].at = "done" => SyncExact(c) /\ TestExact(c)

\* sra's copy of the reader takes every SOT that srmd's takes, and reads the
\* same from it but for IPv6; both read what the file declares.
ReadersAgree ==
  \A d \in DOMAIN Docs : Sots[d].ok =>
    /\ SraSots[d].ok
    /\ \A n \in DOMAIN Sots[d].val :
         LET node == Sots[d].val[n]
         IN  /\ node.management_ip = SraSots[d].val[n].management_ip
             /\ InRange(Docs[d], node.management_ip) =>
                  SameBag(Pushes(node), DeclaredPushes(Docs[d], node.management_ip))
             /\ Pushes(node) = Pushes(SraSots[d].val[n])

\* The interfaces and VRF requests "run" builds are those of the file.
TableFollows(doc, ip, routes) ==
  LET ifaces == IfacesIn(doc, ip)
      Iface(x) == IfaceIn(doc, ip, x[1], x[2])
      Routed(x) == Text(Iface(x), "type") = "nni" /\ Text(Iface(x), "nexthop") \in Ipv4s
      sent == {x \in PrefixesIn(doc, ip) : Routed(x) /\ DeclaredAt(doc, ip, x).dest \in DOMAIN Cidr}
      requests == VrfsRequestsOf(routes)
      places == UNION {{<<q, n>> : n \in DOMAIN requests[q].prefixes} : q \in DOMAIN requests}
  IN  /\ SameBag([i \in DOMAIN routes |-> <<routes[i].vrf_name, routes[i].interface_name,
                                            routes[i].nexthop>>],
                  [x \in ifaces |-> <<x[1], x[2], Text(Iface(x), "nexthop")>>])
      /\ \A x \in ifaces : LET gateway == Text(Iface(x), "nexthop") IN
           Len(findByNexthop(load(routes), gateway)) =
             IF gateway = "" THEN 0
             ELSE Cardinality({y \in ifaces : Text(Iface(y), "nexthop") = gateway})
      /\ SameBag([q \in DOMAIN requests |-> <<requests[q].vrf, requests[q].nexthop>>],
                  [x \in {y \in ifaces : Routed(y)} |-> <<x[1], Text(Iface(x), "nexthop")>>])
      /\ InRange(doc, ip) =>
         SameBag([x \in places |-> <<requests[x[1]].vrf, requests[x[1]].nexthop,
                                     requests[x[1]].prefixes[x[2]].addr,
                                     requests[x[1]].prefixes[x[2]].mask>>],
                  [x \in sent |-> LET cidr == Cidr[DeclaredAt(doc, ip, x).dest]
                                  IN  <<x[1], Text(Iface(x), "nexthop"), cidr.addr, cidr.len>>])

\* The files are followed from end to end, as far as their numbers are in
\* range: what sra makes of the answers of a srmd is what the SOT said when
\* that srmd was started, through edits and restarts; the loopback it was
\* given is accepted by the same srmd; and srmd listens on the declared port.
\* (sot_config.cpp, config.cpp, service_impl.cpp, vrf_table.cpp)
FileIsFollowed ==
  /\ ReadersAgree
  /\ \A p \in Pids : (Live(p) /\ DeclaredPort(Confs[srmd[p].conf]) \in 1 .. MaxPort) =>
       Port(p) = DeclaredPort(Confs[srmd[p].conf])
  /\ \A c \in Clients : \A i \in DOMAIN sra[c].log :
       LET e == sra[c].log[i]
           doc == Docs[srmd[e.by].sot]
           ip == Command(c).peer.addr
       IN  /\ (e.rpc = "GetAllRoutes" /\ e.reply.ok) => TableFollows(doc, ip, e.reply.val)
           /\ (e.rpc = "GetLoopbacks" /\ Command(c).name = "run" /\ e.by # 0 /\
               sra[c].log[i - 1].by = e.by) =>
                IF "default" \in Keys(Child(NodeIn(doc, ip), "vrfs"))
                THEN e.reply.ok \/ e.reply.err = "DEADLINE_EXCEEDED"
                ELSE ~e.reply.ok

-----------------------------------------------------------------------------
Next ==
  \/ Change
  \/ \E p \in Pids : \/ \E foreground \in BOOLEAN : Start(p, foreground)
                     \/ StartFails(p) \/ Progress(p) \/ Crash(p) \/ DiskFull(p)
                     \/ \E signal \in {"SIGTERM", "SIGHUP"} : Signal(p, signal)
  \/ \E c \in Clients : \/ \E k \in DOMAIN Commands : Begin(c, k)
                        \/ CallFails(c) \/ NothingToCall(c)
                        \/ \E p \in Pids : CallServed(c, p) \/ AnswerLost(c, p)

\* srmd's only thread of control is never blocked for good.
Spec == Init /\ [][Next]_vars /\ \A p \in Pids : WF_vars(Progress(p))

\* A srmd that was sent SIGTERM ends, whether the signal met the handlers, the
\* start of the server, the main loop or no handler at all.  (daemon.cpp,
\* main.cpp's loop)
TermEnds == \A p \in Pids : (p \in told) ~> ~Live(p)
=============================================================================
