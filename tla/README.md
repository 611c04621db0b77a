# rtsrv: specifications, model checks and proofs

rtsrv has two programs. **srmd** runs on a route server: it keeps a table of routes, serves it over
gRPC and streams its changes. **sra** runs on a switch: it watches the kernel's routes, neighbours
and nexthops, mirrors OSPF routes into srmd, publishes its tables over UDP, and hands VRF routes to
a third program, ud_server, over a Unix socket. This directory has TLA+ modules translated from
that code, TLC runs over small instances, and proofs that hold for instances of any size. File names below are relative to the repository.

## 1. The system

| part | state | operations | spoken to by |
|---|---|---|---|
| srmd route table, `server/src/route_manager.cpp` | `routes_`, `observers_`, `nextHandle_`, two locks | addRoute, removeRoute, getRoute, listRoutes, registerObserver, unregisterObserver, notifyObservers | gRPC threads, one per call |
| WatchRoutes, `server/src/service_impl.cpp:212-287` | per call: `pending`, `batch`, a mutex, a condition variable | snapshot, register, wait, write, unregister | route table (callback), one client |
| other RPCs, `service_impl.cpp` | `loopbackAddress_`, the SOT as read at the start | Set/GetLoopback, GetLoopbacks, RequestLoopback, GetAllRoutes, Echo, Heartbeat | sra |
| srmd life cycle, `server/src/daemon.cpp`, `main.cpp` | stop and reload flags, PID file, the gRPC server | daemonise, signals, shutdown | init system |
| GrpcProc, `client/src/grpc_proc.cpp` | request queue, response store, `running_`, thread | start, stop, submit, waitForResponse, tryGetResponse | any thread of sra; RouteClient |
| VrfUdpClient, `client/src/vrf_udp_client.cpp` | queue, stop flag, thread, one socket per request | start, stop, submit, processRequest | main, nexthop monitor; ud_server |
| UdpTableServer, `client/src/udp_table_server.cpp` | per port: snapshot, subscribers, two locks, stop-pipe, thread | start, stop, setXxxData, runListener | monitors, UDP clients |
| netlink monitors, `server/src/netlink.c`, `client/src/netlink_neigh.c`, `netlink_nexthop.c` | a socket | init, run (receive, parse, callback), close | kernel; callbacks in main.cpp |
| sra watch, `client/src/main.cpp:877-1123`, `1216-1400` | `WatchCtx.routes`: key to srmd id | dump, callback, signal handler | kernel, srmd, UdpTableServer |
| sra run and the startup monitors, `main.cpp:2040-2730`, `3040-3190`, `3480-3780` | startup contexts, global descriptors, `g_run_stop` | dump, start, arm, look up, submit, shut down | all of the above |
| startup tables and interactive commands, `main.cpp:1648-2290`, `2430-2490`, `3040-3235` | three maps, each with a socket and a thread | dump, publish, follow, hand over, end | kernel, UdpTableServer |
| one-shot commands, `main.cpp:206-640`, `3240-3460` | none | test, sync, add, remove, list, loopbacks, vrf-route-add, ... | srmd |
| VrfTable, SotConfig, SwitchConfig, `common/src/config.cpp` | parsed files | load, find | main |
| RoutingManager, `client/src/routing.cpp` | a netlink socket, a sequence number | list, add, delete, replace | commands |
| `unix_domain/lib` codecs, sockets and netlink client | none, or a socket | encode, decode, send, receive; routes and interfaces of the kernel | VrfUdpClient, ud_server (external) |

What is hard in it, and what has to be right:

- **Route table.** A change is committed under one lock, the observers copied under another, and
  called under none, while streams come and go. Right: no event lost or doubled for a registered
  stream, nothing invented, a client that follows its stream ends with the table, a cancelled
  stream ends.
- **The two background clients.** A condition variable whose flag is set outside its mutex, threads
  that start and stop, a peer that answers late or never. Right: no lost wake-up, one execution and
  one answer per request, in order, and an acknowledgement that means what it says.
- **UdpTableServer.** Subscriptions race with pushes, replies are copied before they are sent.
  Right: a subscriber never misses the stored snapshot without a failed datagram.
- **sra watch.** Two replicas (kernel and srmd) joined by a dump, an event stream and calls that may
  fail on one side only. Right: the mirror is exact when nothing is left to handle, and removals hit
  the right routes.
- **sra run.** Main and the nexthop monitor share a map, pointers and descriptors without a lock.
  Right: whatever their order, the VRF route is submitted with every live nexthop, and the program
  ends when told to.
- **Kernel tables.** A dump that comes in pieces, a second socket for the events, an overrun, a thread
  to be joined that only an event wakes. Right: a table is the kernel's but for the causes of drift
  the design has, and one event or signal ends whoever waits.
- **The exchange with ud_server.** Six nested formats over a byte stream that returns any pieces, a
  server that adds prefixes one by one, other processes in the same kernel. Right: what is handled
  was sent, what is reported is so, nobody's route is replaced, every request ends.
- **srmd and the commands of sra.** Files that are edited, starts and ends of srmd beside each other,
  a PID file, calls that fail or whose answer is lost. Right: what a command reports is what it did,
  what sra makes of the answers is what the file said, and SIGTERM ends srmd whenever it comes.
- **Everything else** is printing, or state without concurrency.

PROJECT.json lists the single hazards with the line where each bites.

## 2. The modules

| module | models | builds on |
|---|---|---|
| `RouteFeed` | abstract: what the table promises its watchers | |
| `RouteManager` | the table, its observers and the WatchRoutes handler | refines `RouteFeed` |
| `WorkQueue` | abstract: one request at a time, in order, at most once | |
| `GrpcProc` | GrpcProc with concurrent callers and controllers | refines `WorkQueue` |
| `VrfUdpClient` | VrfUdpClient with a ud_server that answers late, never, or in pieces that do not end | refines `WorkQueue` |
| `UdpTableServer` | one of its three ports | |
| `WatchMirror` | kernel, sra watch and the srmd table it fills | uses of srmd as `RouteManager` gives them |
| `RunDaemon` | main of sra run, the startup monitors and the nexthop callback | |
| `NetlinkTables` | operators: what a netlink datagram is read as, what the callbacks make of it, the requests of RoutingManager | |
| `KernelTables` | the kernel, a dump, the monitor thread, the hand-over to an interactive command; RoutingManager's requests | `NetlinkTables` |
| `UdProto`, `RouteProto`, `CmdProto` | operators: frames, messages and blocks, commands and payloads of `unix_domain/lib` | each on the one before |
| `UdNetlink` | operators: the library's netlink client and the kernel it talks to | `CmdProto` |
| `VrfExchange` | an exchange of sra with a ud_server built from the library, byte by byte, beside other processes | `UdNetlink` |
| `SotConfig` | operators: the JSON files, the answers srmd gives from its SOT, sra's VRF table and requests | |
| `SrmdService` | starts and ends of srmd, its calls, and the commands of sra | `SotConfig` |
| `RouteManagerProofs` | theorems about the module it is named after; so do the next ones | `RouteManager`, TLAPS |
| `GrpcProcProofs`, `VrfUdpClientProofs`, `UdpTableServerProofs`, `WatchMirrorProofs`, `RunDaemonProofs`, `SrmdServiceProofs` | | their module, TLAPS |
| `VrfExchangeProofs` | theorems about the exchange, and the lemmas about the codecs of `UdProto`, `RouteProto` and `CmdProto` and the kernel's side of `UdNetlink` that they rest on | `VrfExchange`, TLAPS |
| `MC...` | the TLC instances | |

Model-to-code conventions, common to all modules:

- A `pc` variable per thread (`wpc`, `spc`, `opc`, ...) says where it is; an action is the code between two
  points at which another thread can see or change something: a lock taken or released, an
  atomic, a system call, a callback. `map` in PROJECT.json has the lines of each definition.
- Data are model values or numbers: a route is its id, a snapshot is the number of the call that
  stored it, a nexthop of WatchMirror is a gateway with its interface.
- Definitions named `X_Y` (such as `Copied_TryLock`) are wrong variants of `X`. They are used by no
  specification; replacing `X` by one of them must break a property.
- History variables are declared apart and only remembered, never read by an action's guard.

**RouteManager.** `AddRoute` and `RemoveRoute` end when `routesMutex_` is released;
`CopyObservers`, `CallObserver` and `Reply` are notifyObservers and the return. `log`, `taken` and
`written` stand for `pending` and `batch`: `log` is everything the observer was called with,
`log[1..taken]` what was swapped out, `log[1..written]` what the write loop handled. A stream whose
frame is gone (`spc = "done"`) can still be called (`CallDanglingObserver`); this is undefined in C++,
so the call is either unnoticed or ends the process (`up`). Requests that are rejected without a
change are not steps. `generateId` reads a kernel UUID and is modelled as unique; its fallback is
not modelled.

**GrpcProc and VrfUdpClient.** The state `"checked"` is the one moment that matters in
`wait(lock, pred)`: the predicate was false and the thread has not yet gone to sleep; it holds the
mutex, so `Push` is blocked, but stop() takes no mutex and its notify is lost. Assigning to a
joinable `std::thread` sets `terminated`. In VrfUdpClient a frame that reached ud_server may be applied
at any time, also after the exchange has timed out. `pieces` are the connections with unread bytes that
complete no frame; nb_recv_frame reads them and polls with the whole time-out again (`ReceivePiece`), so
that receiving cannot fail while they keep coming.

**UdpTableServer.** Publishers and the listener; `best` and `unsent` record what reached each client.
A datagram may always be lost, and one of an `Oversized` snapshot always is.

**WatchMirror.** The kernel has one set of nexthops for each destination and metric. `Notify` is what
the kernel sends and nl_dispatch makes of it. A failed call to srmd may still be executed later
(`late`). `why` collects, per destination, each cause for which the code may drift from the kernel:
a change between dump and subscription (gap), an overrun socket, a call that failed, a restart of
srmd, RTA_MULTIPATH, two metrics, and a route replaced by another protocol.

**RunDaemon.** The table of VRF routes is reduced to one nni route over one gateway; nexthops lead to
it or elsewhere. close() on a socket does not wake the thread blocked in recv() on it. The
unlocked walk of the nexthop map is a data race: while the monitor is in `update` the walk may
return anything or damage the process (`raced`, `up`).

**NetlinkTables and KernelTables.** A run is about one kind of table at a time: routes, neighbours,
nexthops, the interfaces of listInterfaces, or RoutingManager's requests. `handler` is what SIGINT and
SIGTERM run: nothing at first (`SignalKills`), then startupSigHandler, which closes the start-up's descriptors
and lets main go on (`SignalAtStartup`), and in a command its own handler (`SignalInCommand`). A request
leaves the kernel's reply in the socket; recv() may fail and leave it there, for the next
request to read. The kernel is a sequence
of slots in the order of its dumps; `KernelDump` hands out one or two slots per datagram and reads
each when it gets to it, so that a dump mixes times. Startup fills the table from the dump, closes
that socket and opens the one of the monitor; `neighbors` and `nexthops` close the monitor's
socket, join its thread and dump over a socket that is already subscribed. `drift` collects the keys that may differ and why:
changed between dump and subscription, shared by two entries (a bridge's entries have no address),
moved to another nexthop or told without its nexthops, lost in an overrun, or never dumped.

**UdProto to VrfExchange.** A byte has `BITS` bits, a 16-bit field two bytes; the constants of the
formats (header sizes, delimiter, polynomial) are parameters, so that small bytes reach every
boundary. Bytes are computed as the code does: CRC, stuffing, big-endian fields, cut lengths. The server is
external: it does what the library's handlers do. It refuses by an ERROR with any of the texts
`ErrorTexts`, by an acknowledgement of failure or by a bare status. `stray` are bytes before any delimiter that
wait for the client: find_frame passes over them, but each time poll() begins anew. `tool` is any other process that uses the library
on the same host.

**SotConfig and SrmdService.** A JSON value is a tagged record; each reader is a predicate that says
what it takes and an operator that says what it then reads. The readers of srmd and sra are one,
with the parameter `six`, which is all they differ in. A pid is one start of srmd. Opening the PID
file truncates it and makes its inode; the text is written when the stream is destroyed
(`FlushPidFile`), to the inode that was opened, which may have been removed. A signal without a handler
kills. sra's commands are sequences of calls with what a failure does; a channel stays with one
server while it serves. What is compared with the answers is the file itself, read by path alone and with its numbers uncut
(`DeclaredPushes`, `DeclaredPort`), not by the readers under test; of a number that is out of its range
(`InRange`) no property says anything, although some pass (section 5).

## 3. The runs

| run | instance | shows |
|---|---|---|
| RouteManager | 2 ids, 2 families, 2 workers, 1 stream; 2.8 million states | TypeOK, OwedNotLost, BroadcastOnce, ViewExact, refinement of RouteFeed |
| RouteManagerLive | 1 id, 2 families, 2 workers, 1 stream; 30 thousand | OwedIsHandled, CancelledReturns |
| GrpcProc | 2 callers, 2 controllers, 3 requests; 190 thousand | QueueSound, ResponseOnce, refinement of WorkQueue, QueuedIsExecuted, StopReturnsIfAwake |
| VrfUdpClient | 3 requests, 2 submitters; 26 thousand | ExchangeSound, refinement of WorkQueue, QueuedIsAttempted |
| UdpTableServer | 2 publishers, 3 snapshots (one oversized), 1 client; 180 thousand | SubscribersSound, NewestIsSent, StopReturns |
| WatchMirror | 2 destinations, 2 nexthops, 2 kernel changes, 1 fault, queue of 1; 1.05 million | MirrorExact, TrackingSound, MirrorConverges |
| RunDaemon | the nexthop monitor, 2 nexthops, queue of 2; 4.5 million | NexthopSubmitted, TableSound |
| RunDaemonLive | a second monitor, 1 nexthop, queue of 1; 100 thousand | JoinReturnsOnEvents |
| KernelTables | five kinds of tables, 2 kernel changes, chunks of 1 or 2 slots, queue of 1, 1 fault; 250 thousand | MonitorSound, ListsAreRegular, RequestIsExact, OneEventJoins, SignalEndsCommand |
| VrfExchange | 2 requests of 4, one operation of another process, 1 fault, bytes of 3 bits; 300 thousand | NothingForeign, PassMeansInstalled, AnswerIsTrue, CommandArrives, WireSound, AddsNeverReplace, RequestEnds |
| SrmdService | 2 starts of srmd, one of 10 commands, 5 SOTs, 5 configurations, 1 edit, 1 fault; 860 thousand | PidFileSound, CommandIsExact, FileIsFollowed, TermEnds |
| RouteManagerDangling | 1 id, 1 family, 1 worker, 1 stream; must fail | that a comment of the code does not hold, section 5 |

`QueueSound`, `ExchangeSound`, `SubscribersSound`, `TrackingSound`, `TableSound`, `MonitorSound` and
`WireSound` each join a module's type invariant with the named safety properties above them in the
module; the conjuncts have names of their own and are commented there.

Why the bounds are enough for what is asked:

- *RouteManager*: each id may be added and removed once, by either worker, so ADDED and REMOVED of
  one route can overtake each other, and both workers can be in their loops at once. Ids are never
  reused, in the code or in the model. The two families let the filter drop one route and keep the
  other. Several streams only meet in `observers` and `todo`; the proofs cover any number of them.
- *GrpcProc*, *VrfUdpClient*: three requests fill the queue while one is executed; two controllers
  let start() overlap stop(). The lost wake-up needs one.
- *UdpTableServer*: two publishers can push out of order, three snapshots let a stale one, a lost
  one and the newest coexist.
- *WatchMirror*: any initial kernel table, so two changes give every pair of events, in any phase:
  before the dump, during it, in the gap, while another event is handled. `MaxId` leaves
  room for every route the bounds allow, so no call waits for an id. A queue of one is overrun by
  the second change. Two metrics are left to the parameter `Metrics`; the run has one.
- *RunDaemon*: two nexthops so that the lowest id main picks can be the wrong one. The kernel waits
  when a queue is full; an overrun is the subject of WatchMirror and KernelTables.
- *KernelTables*: two changes put one before and one after each step of a dump or a hand-over, or make
  an entry come and go; three to five slots and chunks of at most two give a dump of two datagrams. A request may follow one whose reply stayed behind. Each kind
  has entries that share a key, a route with two nexthops, a group longer than `MAX_GROUP`, a bridge's
  entry, an address without its own local part, and tables around 255.
- *VrfExchange*: 6-bit words wrap at 64 and one request is 64 bytes too long, so that its cut length
  is that of a shorter one; others have a mask too long, a prefix that is already routed, two VRFs,
  a gateway that is not on its link, and more bytes than a socket holds. Two requests let a late answer meet the next connection. The
  texts of an ERROR are shorter than any answer, or as long as one with one VRF; the proof has them of any length. The
  commands of other processes have the longest mask and one beyond it, metrics and gateways there and
  not, no interface name, and a list of interfaces that outgrew its length.
- *SrmdService*: two pids are two daemons beside each other, or one after the other; the edit comes
  before, between or after their starts. Requests are few and each call fails at any place once.
  `WORD` stands for 2^32 (TLC's integers are of 32 bits): the files have values up to it, and
  a port above it among the edits. One nexthop is no address. Bounds in
  guards: once the command is done nothing new happens to srmd (`Watched`), a command begins only
  while a srmd serves, SIGHUP is sent to a srmd with handlers only in its loop.

Deadlock is not checked in these runs: every system here may come to rest, with no request
pending, or stops by a signal, a failed call or the end of a bound. Joins and waits that must end
are the liveness properties above.

**Fairness.** A thread that can take a step takes one (weak fairness per thread). Locks that are
fought over are strongly fair (`Push` of GrpcProc, `Register` and `LockSubscribers`), which is what
a mutex with waiters gives in practice and C++ does not promise. Clients, callers and controllers
need not act. Every call to srmd has a deadline (`route_client.cpp:60-74`) and each poll() of an exchange with
ud_server a time-out. Two peers can still keep a thread: a stream whose client does not read, in Write(), which
the fairness of RouteManager excludes; and a ud_server that sends bytes for ever and never closes a frame, in
nb_recv_frame. The second is a hypothesis of QueuedIsAttempted (`DribblesEnd`) and RequestEnds
(`StrayBytesEnd`), no fairness; without it both fail. Nothing else is
assumed of ud_server, nothing of the kernel or the network. In KernelTables main and the monitor are fair only
in the steps that nothing else has to make possible: a join that can return, the opening of a command's socket and its
handler, a failed recv(), the end of a dump, an end of the command. In VrfExchange the client's thread
is fair, its enabling condition written out (`ClientCanStep`). In SrmdService srmd's one thread of control is fair; commands, clients and
operators need not act.

## 4. What is proved

All proofs are checked by TLAPS, for every value of the constants that the named assumption of the
module allows: any sets of ids, threads, clients, destinations, finite or not, any lengths of queues
and any bounds on changes and faults. The assumptions ask no more than that bounds are numbers and
that special values are no ordinary ones; further, that nexthop ids are positive (RunDaemon), that a
host has finitely many nexthops and metrics (WatchMirror, where nl_dispatch's multipath test counts
them) and that the starts of srmd are numbered 1 to n (SrmdService). For VrfExchange they are
the types of the C++ declarations: a byte has at least one bit, the delimiter is none of the escape
bytes and these differ from each other, the fields of a request are arrays and integers of their
widths and its prefixes a vector (`RequestAssumption`), the message types fit into the enumeration's
`uint8_t`, an entry of the CRC's tables is a `uint16_t` (`CrcAssumption`; the checksum's value is
otherwise of no account), interface indices begin at 1; and of what other processes ask for
(`ToolAssumption`), that an address and the name of an interface are shorter than a byte can count, as
IPv4 addresses (4) and kernel names (below `IFNAMSIZ`, 16) are: a longer name would be cut by
`EncodeField`; and of the description in an ERROR (`TextAssumption`), that it is text: any length, any
bytes but 0. `Base \in Nat` says of 2^BITS what the
provers cannot compute.

| theorem | states | the inductive invariant beside the types, and why it is needed |
|---|---|---|
| RouteManagerProofs!TypeCorrect | `[]TypeOK` | a busy worker carries an event (`Carries`): it appends it |
| NothingOwedIsLost | `[]OwedNotLost` | a registered stream is still in its frame |
| BroadcastIsOnce | `[]BroadcastOnce` | itself, with fresh ids |
| ImplementsFeed | `FeedSpec` | BroadcastOnce is the guard of RouteFeed's Tell |
| ViewIsExactWhenQuiescent | `[]ViewExact` | `StreamInv`, `AckInv`, `OrderInv`, `CopyInv`, below |
| GrpcProcProofs!QueueIsSound | `[]QueueSound` | the queue is empty while the thread has tested it and not yet slept |
| ResponseIsHandedOutOnce | `[]ResponseOnce` | `OnePlace`: each id is about to be pushed, queued, executed, stored or handed out, and in one of these only |
| ImplementsWorkQueue | `WorkQueueSpec` | OnePlace |
| VrfUdpClientProofs!ExchangeIsSound | `[]ExchangeSound` | what is in the replies of the connection was applied |
| ImplementsWorkQueue | `WorkQueueSpec` | one request is executed at a time |
| UdpTableServerProofs!SubscribersAreSound | `[]SubscribersSound` | `HeldInv`: nobody has, sends or copied what was not stored yet; who holds subMutex |
| WatchMirrorProofs!TrackingIsSound | `[]TrackingSound` | `TrackInv`: no id is remembered for two keys, none whose removal srmd may still execute |
| MirrorIsExact | `[]MirrorExact` | `ExactInv`, below |
| RunDaemonProofs!TableIsSound | `[]TableSound` | `LastIsTrue`: the last event queued about a nexthop, else the one being applied, else the table, is what the kernel has |
| NexthopIsSubmitted | `[]NexthopSubmitted` | `ArmedInOrder`, `NexthopTracked`: a nexthop was submitted, or an event about it is to come, or main finds it or a lower one |
| SrmdServiceProofs!PidFileIsSound | `[]PidFileSound` | `BornInOrder`, `WriterInv`, `AloneInv`, below |
| VrfExchangeProofs!RequestDecoded | for every list of VRFs, the server decodes from the frame what was encoded, or the list is not `Carried` | |
| NothingIsForeign | `[]NothingForeign` | `RequestInv`: what the server was sent so far begins the request's frame, what it handles is the request |
| AnswersAreTrue | `[]AnswerIsTrue` | `AnswerInv`: nothing comes back before the server has answered; then what the client has read and has still to read is one reply, and it tells the truth, or it is a refusal: whatever the text of an ERROR is, its second byte is not 0 (`TextRead`), so it is no PASS |
| PassIsInstalled | `[]PassMeansInstalled` | `PassesInv`: the results are those of the first adds of the request, in its order, and each that succeeded has left its route in the kernel or in `removed` |
| NeverReplaced | `AddsNeverReplace` | `KernelInv`: interfaces stay as they were |
| CommandsArrive | `[]CommandArrives` | itself, with `RouteAddArrives`, `RouteDelArrives`, `PayloadArrives` and `StatusArrives`, below |

**ViewExact.** What a client builds from its snapshot and its events is compared with the table, but
between the two lie events in flight. `CopyInv` says that snapshot and *owed* events together are the
table at any time; OwedNotLost turns owed into received once nothing is in flight. What is left is
order: `OrderInv` says that ADDED precedes REMOVED in the queue for ids that are not racy, which
rests on `AckInv`: after an AddRoute was answered no worker still carries its ADDED. Both exceptions
that ViewExact names (`missed`, `racy`) are needed where these invariants have them and nowhere else.

**MirrorExact.** Three states are in play: the kernel's, the one the queued events lead to, and what
the dump or the event at hand still lacks. `AimIs(d, v)` says that the watch, left to finish what it
does, will have destination d at nexthop v; `Leads` that the queued events, one by one, take d from
there to where the kernel has it; `KernelIs` that this is all the kernel has. The invariant is that
such a course exists for every destination without a cause of drift, together with `OwnIds`: what
srmd has of d is what the watch remembers. A kernel change extends the course at its end
(`CourseKernel`), a received event shortens it at its front (`CourseReceive`), a call to srmd moves
within AimIs. Causes are never forgotten (`WhyGrows`), so a destination without one now never
had one. An idle watch has an empty course, hence the two tables agree.

**PidFileSound.** A pid was never used before (`BornInOrder`, by counting), so a new srmd is not the
one the file names. A daemon that lives beside another is not alone (`AloneInv`): what one of them
does to the file then concerns nobody the property speaks of. A daemon that is alone writes to the
inode that has the name (`WriterInv`).

**The exchange.** Two things are proved apart. The *codecs*: each decoder, applied to what its encoder
made, gives it back, or the encoder's input did not fit. Destuffing inverts stuffing (`DestuffStates`
has the automaton's states, and a stuffed byte leads from one unescaped state to the next); a
delimiter is found at the frame's ends and nowhere between (`Inner`); the checksum of the same bytes
is the same; the length fields of the three headers are exact modulo `Word`, so that a payload which
was too long is cut, read as something else and refused by its count, unless it was `Carried`; and
the loops over VRFs and prefixes end where the bytes do. `RequestDecoded` puts these together for
requests, and a chain of lemmas like it does so for replies, refusals among them. The *protocol*: a
stream that delivers any pieces keeps the order of its bytes, so an incomplete frame is a proper
beginning of the frame (`Begins`), has one delimiter, and is waited for; at the second delimiter the
frame is whole, and the codec's theorem applies. RequestInv carries this to the server, AnswerInv back
to the client, and PassesInv adds what the kernel did in between: an add carries CREATE and EXCL
(`AddMessage`), so it can only add. A PASS then means: the answer is the server's, the server's results
are of this request, and a good result is a route.

**The commands of other processes.** A command that arrives alone has the part of its body that its 16-bit
length counts (`CommandCut`). Fields are read back one by one (`FieldsDecoded`); five of them stay below
that length for any width of a byte, and are found under their ids whichever optional ones are there
(`FieldFound`). A list of interfaces may outgrow it: then a *beginning* of the list is decoded, and
`InterfacesRead` says what that gives: the very interfaces that were encoded or, where the beginning
is a proper one, an error (`InterfaceCut`) and never another list. A response of one byte carries its
status (`StatusArrives`).

Recursive functions (`f[i]` by `f[i - 1]`) and the folds of the community modules are reasoned about
without an induction theorem: `LeastElement` and `UpTo` say of a *set* of indices that it has them all,
and each loop's result is characterised for all indices through that set. So the proofs hold for
any number of bytes, VRFs and prefixes.

**The refinements.** A step of GrpcProc or VrfUdpClient is a step of WorkQueue or a stutter; which one
is said per action. The end of an exchange in any of its ways is one Finish.

Only model-checked:

- all liveness (OwedIsHandled, CancelledReturns, QueuedIsExecuted, StopReturnsIfAwake,
  QueuedIsAttempted, NewestIsSent, StopReturns, MirrorConverges, JoinReturnsOnEvents, RequestEnds,
  OneEventJoins, SignalEndsCommand, TermEnds): TLAPS 1.4.5 proves neither liveness under fairness
  nor facts about ENABLED;
- WireSound of VrfExchange: types, of which the invariants above have what they need; BitsAreExact,
  where the status bits are packed by a fold over powers of two that the provers do not follow (it
  is moreover stated for the run's payloads, whose repeated prefix only ever comes before any
  foreign route); ListIsExact and ShownIsConfigured, where a list is what a fold makes of a dump whose order
  the model chooses, and what is said of it is the image of a set under two codecs;
- KernelTables (MonitorSound, ListsAreRegular, RequestIsExact): each compares a fold over a dump or a
  datagram, one entry at a time and keyed, with the set it stands for, while the kernel changes
  under it; MonitorSound also contains the module's types;
- CommandIsExact and FileIsFollowed of SrmdService, which compare what is read from any JSON value
  with the value, as bags and by flattening sequences of sequences.

## 5. Where code and comments part

Checked as a run that must fail:

- **RouteManagerDangling**. unregisterObserver promises (`route_manager.hpp:112-113`) that removal is
  deferred until the notification in progress is over. It erases the map entry only; a worker that
  copied the observer before calls into a frame that has returned.

Stated by a property that holds, because it says exactly what the code does and so refutes the comment:

- **QueuedIsExecuted**. `grpc_proc.hpp:353` says of stop(): "Pending requests that have not yet been dispatched
  are abandoned." The thread leaves its loop only with an empty queue (`grpc_proc.cpp:151-154`): each is executed.
- **AnswerIsTrue**. prefix_status is "true when all prefixes for this VRF installed ok"
  (`cmd_proto.hpp:379`). The client does not look at the message type; an ERROR whose text has 2 bytes more than a
  multiple of an answer's size gives it answers, and some of them say so. It never gives it a PASS.
- **SignalEndsCommand**. neighbors and nexthops run "until SIGINT / SIGTERM" (`main.cpp:1760`, `2201`). A signal
  between `main.cpp:3200` and `1785` runs startupSigHandler, which knows none of the command's descriptors;
  the command opens its socket afterwards, keeps it open and goes on. Only the signals that come later end it.
- **RequestIsExact**. recvAll "loops until NLMSG_DONE or NLMSG_ERROR, ignoring messages whose nlmsg_seq
  does not match" (`routing.hpp:376-377`). It does skip them, and then leaves the loop successfully, since an
  acknowledgement has no NLM_F_MULTI (`routing.cpp:294-300`): after a failed recv() the late reply makes the
  next request a success, whatever the kernel said of it. With its own reply its result is true; without a fault
  every reply is its own.
- **CommandIsExact**. sync is to fail if "any push failed" (`client/src/main.cpp:484`, `525-526`); its exit
  code tells exactly whether the files were read and the SOT has the switches (SyncExact), as `506-509` have it.

Met while modelling, present in the models, without a property that states them:

- nb_recv_frame "returns an error on timeout" (`vrf_udp_client.cpp:88-89`), but each
  piece that arrives starts the time-out again: a peer that sends pieces without an end keeps the thread, and
  no request behind is attempted. This is why QueuedIsAttempted and RequestEnds have their hypotheses.
- A listen_port outside 1 to 65535 is to be refused (`common/src/config.cpp:180-184`);
  getInt cuts it to an int before (`110-117`), so that some pass as another port. TLC's numbers stop at 2^31, so the width
  is the parameter `WORD`.
- "SIGHUP reloads configuration without restarting" (`srmd.service:44`, also `:13`); the
  file is read, dropped, and "reload not implemented" logged (`server/src/main.cpp:423-448`). FileIsFollowed
  therefore compares with the files as they were at the start.
- WatchRoutes writes the snapshot first and registers after, so that a route added in between is in
  neither (`srmd.proto:473-474`, `route_manager.hpp:10-11`). ViewExact names this case.
- vrf-route-add submits and stops at once; the thread may see the stop flag before the request, which
  is then never sent (`main.cpp:55-57`). QueuedIsAttempted names this case.
- The signal handler of run closes the sockets of the monitors and forgets their descriptors, which
  neither wakes the threads nor lets the later shutdown() find them; the join hangs until events
  arrive (`main.cpp:1142-1143`, against `3750-3752`). JoinReturnsOnEvents says that this is the only way.
- GrpcProc::stop() and VrfUdpClient::stop() set their flag outside the mutex and can hang in join();
  StopReturnsIfAwake shows for GrpcProc that this is the only way.
- start() of GrpcProc during a stop() calls std::terminate (`grpc_proc.hpp:298`: all public methods
  are thread-safe).
- addRoute never answers ALREADY_EXISTS (`srmd.proto:445-446`): it looks only at the fresh id.
- A UDP reply copied before a push can arrive after it (`udp_table_server.hpp:71-72`); stop() closes
  the socket under a publisher's sendto() (`:42-43`).
- sra watch: each cause in `why` but "restart" contradicts a comment of main.cpp (`936-937`,
  `1007`, `1022-1024`, `1210-1213`).
- sra run: the nexthop monitor keeps pointers to the VRF table and client after their scope ended
  (`main.cpp:3050`).
- The startup threads are said to keep the tables current (`main.cpp:3040-3043`); a route that moves
  to another gateway leaves its old row behind, and so do the other causes in `drift`.
- RoutingManager: removeRoute sends type, protocol, scope and metric as well, which the kernel
  matches (`unix_domain/lib/routing.hpp:158-160` says the other fields are ignored); replaceRoute
  with another metric adds a second route.
- srmd: a signal before the handlers are there ends srmd and leaves the PID file.
  Two daemons may serve one port (gRPC binds with SO_REUSEPORT): the second overwrites the PID file of the first, and
  whichever ends removes it; PidFileSound speaks only of daemons that were alone.
- The prefix length of a VRF request is cut to a byte before its range is looked at
  (`client/src/main.cpp:3841`), and std::stoul throws on a prefix without a number, which is not modelled.

## 6. Not modelled

- Printing and logging, and the fields that only they use; the JSON parser and the JSON text.
- TLS, the command line, the demonstration commands (`grpc-proc-demo`), the ICMP probe of run.
- generateId's fallback without a kernel UUID; what a stream's client that never reads costs.
- The forks of daemonise() one by one, the logger, the listening side of `unix_domain/lib/net.cpp`, build and scripts.
- ud_server, the kernel and gRPC are external: modelled by what src/ relies on.

## 7. Plan

1. *Done*: route table, background clients, UDP server, watch, run; proofs of the route table.
2. *Done*: codecs, framing and netlink client of `unix_domain/lib` with the exchange they serve; the startup
   tables, their monitors and RoutingManager; configuration, life cycle and calls of srmd, the commands of sra.
3. *Done*: proofs of the safety of the background clients and their refinement of WorkQueue, of the UDP
   server, watch, run, the rest of the route table, and the PID file.
4. *Done*: the codecs of route requests, replies and single commands, and the safety of the exchange and
   of the commands built on them.
5. Still worth trying: the codecs of route lists (ListIsExact) by the same lemmas; the table of
   KernelTables as an invariant over the prefix of a dump already read; CommandIsExact of SrmdService
   for each of its readers.
