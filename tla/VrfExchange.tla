----------------------------- MODULE VrfExchange -----------------------------
(***************************************************************************)
(* One route request of sra over the UNIX socket, byte by byte: the client *)
(* of vrf_udp_client.cpp (processRequest) encodes it, sends it over a new  *)
(* connection and reads one reply frame; the server (external, built from  *)
(* the library of unix_domain/lib) decodes it, adds its prefixes to the    *)
(* kernel one after the other and answers.  Other processes use the same   *)
(* library and the same kernel meanwhile.                                  *)
(*                                                                         *)
(* A connection is named by the message id of its request.                 *)
(***************************************************************************)
EXTENDS UdNetlink

CONSTANTS Requests,             \* requests the client may be given
          MaxRequests,          \* bound on the requests it processes
          SOCK_CAP, RECV_MAX,   \* bytes a socket holds, bytes one read takes
          ToolAdds, ToolDels, ToolPayloads, ToolReplaces,
                                \* what the other processes do
          MaxTool, MaxFaults,   \* bounds on their operations and on failures
          InitialKernel,
          ErrorTexts            \* descriptions the server may put into an ERROR

Ids == 1 .. MaxRequests

ASSUME ExchangeAssumption ==
    /\ MaxRequests \in Nat \ {0} /\ MaxTool \in Nat /\ MaxFaults \in Nat
    /\ SOCK_CAP \in Nat \ {0} /\ RECV_MAX \in Nat \ {0}

(* std::array members, a uint32_t and a vector of prefixes *)
VrfRequests ==
    [vrfs_name : [1 .. VRFS_NAME_SIZE -> Byte], iface_name : [1 .. IFACE_NAME_SIZE -> Byte],
     nexthop_addr_ipv4 : [1 .. ADDR_SIZE -> Byte], nexthop_id_ipv4 : 0 .. Word * Word - 1,
     prefixes : Seq([addr : [1 .. ADDR_SIZE -> Byte], mask_len : Byte])]

ASSUME RequestAssumption == Requests \subseteq Seq(VrfRequests)

(* What the other processes ask for: the same types, and a std::string. An *)
(* address and the name of an interface are shorter than a byte can count. *)
Addresses == [1 .. ADDR_SIZE -> Byte]
RouteAdds ==
    [dst_addr : Addresses, prefix_len : Byte, gateway : Addresses, if_name : Seq(Byte),
     metric : 0 .. Word - 1]
RouteDels == [dst_addr : Addresses, prefix_len : Byte, gateway : Addresses]
Interfaces ==
    [iface_name : [1 .. IFACE_NAME_SIZE -> Byte], nexthop_addr_ipv4 : Addresses,
     nexthop_id_ipv4 : 0 .. Word * Word - 1, prefixes : Seq([addr : Addresses, mask_len : Byte])]

ASSUME ToolAssumption ==
    /\ ADDR_SIZE < Base
    /\ ToolAdds \subseteq RouteAdds /\ \A p \in ToolAdds : Len(p.if_name) < Base
    /\ ToolDels \subseteq RouteDels /\ ToolPayloads \subseteq Seq(Interfaces)

(* Interface indices begin at 1. *)
ASSUME KernelAssumption ==
    /\ InitialKernel = [fib |-> InitialKernel.fib, links |-> InitialKernel.links,
                        addrs |-> InitialKernel.addrs]
    /\ \A name \in DOMAIN InitialKernel.links : InitialKernel.links[name] \in Nat \ {0}

(* A description is text: none of its characters is 0. *)
ASSUME TextAssumption == ErrorTexts \subseteq Seq(1 .. Base - 1)

VARIABLES cl,        \* client thread: [pc, id, out, buf]
          reqs,      \* history: the requests processed so far
          result,    \* history: how each ended for the client
          conn,      \* id -> [state, up, down]: bytes to and from the server
          stray,     \* bytes before any frame wait to be read by the client
          srv,       \* id -> [phase, rx, req, done] of the server
          kernel,
          removed,   \* history: routes that other processes took away
          tool,      \* [ops, seen]: other processes, and what the last one saw
          faults

clientVars == <<cl, reqs, result>>
vars == <<cl, reqs, result, conn, stray, srv, kernel, removed, tool, faults>>

Idle == [pc |-> "idle", id |-> 0, out |-> <<>>, buf |-> <<>>]
NoConn == [state |-> "none", up |-> <<>>, down |-> <<>>]
Unheard == [phase |-> "waiting", rx |-> <<>>, req |-> <<>>, done |-> <<>>]
NothingSeen == [kind |-> "nothing"]

Init ==
    /\ cl = Idle /\ reqs = <<>>
    /\ result = [c \in Ids |-> [verdict |-> "none", answers |-> <<>>]]
    /\ conn = [c \in Ids |-> NoConn] /\ stray = FALSE
    /\ srv = [c \in Ids |-> Unheard]
    /\ kernel = InitialKernel /\ removed = {}
    /\ tool = [ops |-> 0, seen |-> NothingSeen]
    /\ faults = 0

-----------------------------------------------------------------------------
(* The layers of a message, outermost last *)

Packet(id, data) == [length |-> 0, pkt_num |-> id, total_pkts |-> 1, ctrl |-> 0, data |-> data]

RequestFrame(id, vrfs) ==
    encode_packet(Packet(id, encode_message(make_data(id,
        encode_exchange(encode_command(make_route_add_vrfs(vrfs)))))))

(* What a reply frame means to the client: type and id of the message are  *)
(* not looked at, the first byte is only logged.                           *)
ReplyMeaning(frm) ==
    AndThen(decode_packet(frm), LAMBDA pkt :
    AndThen(decode_message(pkt.data), LAMBDA msg :
        IF Len(msg.payload) < 2 THEN Err("TooShort")
        ELSE decode_vrfs_route_response(Tail(msg.payload))))

VerdictOf(r) ==
    CASE ~r.ok -> [verdict |-> "error", answers |-> <<>>]
      [] r.ok /\ r.val.status_code = 0 -> [verdict |-> "PASS", answers |-> r.val.answers]
      [] OTHER -> [verdict |-> "FAIL", answers |-> r.val.answers]

-----------------------------------------------------------------------------
(* The client thread *)

(* Leaving processRequest closes the socket: what was not read is lost. *)
EndRequest(r) ==
    /\ cl' = Idle
    /\ result' = [result EXCEPT ![cl.id] = r]
    /\ stray' = FALSE
    /\ UNCHANGED reqs
Failed == [verdict |-> "error", answers |-> <<>>]

CloseConn(c) == conn' = [conn EXCEPT ![c] = [@ EXCEPT !.state = "closed", !.down = <<>>]]

processRequest(vrfs) ==
    /\ cl.pc = "idle" /\ Len(reqs) < MaxRequests
    /\ LET id == Len(reqs) + 1
       IN  cl' = [pc |-> "connect", id |-> id, out |-> RequestFrame(id, vrfs), buf |-> <<>>]
    /\ reqs' = Append(reqs, vrfs)
    /\ UNCHANGED <<result, conn, stray, srv, kernel, removed, tool, faults>>

nb_connect ==
    /\ cl.pc = "connect"
    /\ cl' = [cl EXCEPT !.pc = "send"]
    /\ conn' = [conn EXCEPT ![cl.id].state = "open"]
    /\ UNCHANGED <<reqs, result, stray, srv, kernel, removed, tool, faults>>

(* No server, its backlog full, or no descriptor *)
ConnectFails ==
    /\ cl.pc = "connect" /\ faults < MaxFaults
    /\ faults' = faults + 1
    /\ EndRequest(Failed)
    /\ UNCHANGED <<conn, srv, kernel, removed, tool>>

(* poll() finds room, or times out on a full socket; a broken connection *)
(* makes send() fail.                                                     *)
CanSend == cl.pc = "send" /\ conn[cl.id].state = "open" /\ Len(conn[cl.id].up) < SOCK_CAP
SendGivesUp == cl.pc = "send" /\ (conn[cl.id].state = "dead" \/ Len(conn[cl.id].up) = SOCK_CAP)

(* send() takes what fits into the socket. *)
nb_send_all ==
    /\ CanSend
    /\ LET n == Min({Len(cl.out), SOCK_CAP - Len(conn[cl.id].up)})
       IN  /\ conn' = [conn EXCEPT ![cl.id].up = @ \o SubSeq(cl.out, 1, n)]
           /\ cl' = [cl EXCEPT !.out = SubSeq(@, n + 1, Len(@)),
                               !.pc = IF n = Len(cl.out) THEN "recv" ELSE "send"]
    /\ UNCHANGED <<reqs, result, stray, srv, kernel, removed, tool, faults>>

SendFails ==
    /\ SendGivesUp
    /\ EndRequest(Failed) /\ CloseConn(cl.id)
    /\ UNCHANGED <<srv, kernel, removed, tool, faults>>

(* A poll() without a timeout waits for the server. *)
RecvGivesUp_AtEof ==
    /\ cl.pc = "recv" /\ conn[cl.id].down = <<>> /\ ~stray
    /\ conn[cl.id].state = "dead"

(* Without bytes to read, poll() times out; after the end of the stream,   *)
(* recv() says so.                                                         *)
CanRecv == cl.pc = "recv" /\ (conn[cl.id].down # <<>> \/ stray)
RecvGivesUp == cl.pc = "recv" /\ conn[cl.id].down = <<>> /\ ~stray

(* Bytes that come before the first delimiter are passed over by find_frame *)
(* and not kept here; reading them alone begins the next poll() anew.       *)
nb_recv_frame ==
    /\ CanRecv
    /\ LET n == Min({Len(conn[cl.id].down), RECV_MAX})
           buf == cl.buf \o SubSeq(conn[cl.id].down, 1, n)
           found == find_frame(buf)
       IN  IF found.ok
           THEN EndRequest(VerdictOf(ReplyMeaning(found.val))) /\ CloseConn(cl.id)
           ELSE /\ cl' = [cl EXCEPT !.buf = buf]
                /\ conn' = [conn EXCEPT ![cl.id].down = SubSeq(@, n + 1, Len(@))]
                /\ stray' = FALSE
                /\ UNCHANGED <<reqs, result>>
    /\ UNCHANGED <<srv, kernel, removed, tool, faults>>

RecvFails ==
    /\ RecvGivesUp
    /\ EndRequest(Failed) /\ CloseConn(cl.id)
    /\ UNCHANGED <<srv, kernel, removed, tool, faults>>

ClientStep ==
    \/ nb_connect \/ ConnectFails \/ nb_send_all \/ SendFails \/ nb_recv_frame \/ RecvFails

-----------------------------------------------------------------------------
(* The server's side of connection c.  What the client sent before it      *)
(* closed can still be read, and is handled.                               *)

ServerRead(c) ==
    /\ srv[c].phase = "waiting" /\ conn[c].up # <<>>
    /\ srv' = [srv EXCEPT ![c].rx = @ \o conn[c].up]
    /\ conn' = [conn EXCEPT ![c].up = <<>>]
    /\ UNCHANGED <<cl, reqs, result, stray, kernel, removed, tool, faults>>

DecodedRequest(frm) ==
    AndThen(decode_packet(frm), LAMBDA pkt :
    AndThen(decode_message(pkt.data), LAMBDA msg :
    AndThen(decode_exchange(msg.payload), LAMBDA block :
    AndThen(decode_commands(block), LAMBDA cmds :
        IF cmds = <<>> THEN Err("InvalidCommand")
        ELSE decode_vrfs_route_request(cmds[1].raw_payload)))))

Reply(c, frm) ==
    conn' = [conn EXCEPT ![c].down = IF conn[c].state = "open" THEN @ \o frm ELSE @]

(* A refusal is an ERROR message with any description, an acknowledgement   *)
(* of failure, or a bare status.                                            *)
Refusals(c) ==
    {encode_packet(Packet(c, encode_message(make_error(c, text)))) : text \in ErrorTexts}
    \union
    { encode_packet(Packet(c, encode_message(make_data_ack(c, FALSE)))),
      encode_response([length |-> 0, pkt_num |-> c, total_pkts |-> 1, ctrl |-> 0, status |-> 1]) }

ServerDecode(c) ==
    /\ srv[c].phase = "waiting" /\ find_frame(srv[c].rx).ok
    /\ LET r == DecodedRequest(find_frame(srv[c].rx).val)
       IN  IF r.ok
           THEN /\ srv' = [srv EXCEPT ![c].phase = "adding", ![c].req = r.val, ![c].rx = <<>>]
                /\ UNCHANGED conn
           ELSE /\ srv' = [srv EXCEPT ![c].phase = "refused", ![c].rx = <<>>]
                /\ \E frm \in Refusals(c) : Reply(c, frm)
    /\ UNCHANGED <<cl, reqs, result, stray, kernel, removed, tool, faults>>

(* handle_vrfs_route_request: one pass over the prefixes of every VRF *)
CName(name) == SubSeq(name, 1, Min({i \in DOMAIN name : name[i] = 0} \union {Len(name) + 1}) - 1)

PrefixParams(v, p) ==
    RouteAddParams(p.addr, p.mask_len, v.nexthop_addr_ipv4, TRUE, CName(v.iface_name),
                   0, "UNIVERSE", Main)
PassOf(vrfs) == ConcatMap(LAMBDA v : [i \in DOMAIN v.prefixes |-> PrefixParams(v, v.prefixes[i])],
                          vrfs)

(* The reply of the kernel may be lost: the socket's recv() fails. *)
ServerAdd(c) ==
    /\ srv[c].phase = "adding" /\ Len(srv[c].done) < Len(PassOf(srv[c].req))
    /\ \E received \in BOOLEAN :
         /\ ~received => faults < MaxFaults
         /\ faults' = IF received THEN faults ELSE faults + 1
         /\ LET did == Transact(kernel, add_route(kernel.links,
                                    PassOf(srv[c].req)[Len(srv[c].done) + 1]), received)
            IN  /\ kernel' = did.k
                /\ srv' = [srv EXCEPT ![c].done = Append(@, did.result)]
    /\ UNCHANGED <<cl, reqs, result, conn, stray, removed, tool>>

FirstOf(vrfs, i) == Len(PassOf(SubSeq(vrfs, 1, i - 1)))
VrfOk(vrfs, done, i) ==
    \A j \in FirstOf(vrfs, i) + 1 .. FirstOf(vrfs, i + 1) : done[j].ok

(* The overall status is the one of the last prefix. *)
VrfsResponse_LastStatus(vrfs, done) ==
    [status_code |-> IF done # <<>> /\ Last(done).ok THEN 0 ELSE 1,
     answers |-> [i \in DOMAIN vrfs |-> [vrfs_name |-> vrfs[i].vrfs_name,
                                         prefix_status |-> VrfOk(vrfs, done, i)]]]

VrfsResponse(vrfs, done) ==
    [status_code |-> IF \A j \in DOMAIN done : done[j].ok THEN 0 ELSE 1,
     answers |-> [i \in DOMAIN vrfs |-> [vrfs_name |-> vrfs[i].vrfs_name,
                                         prefix_status |-> VrfOk(vrfs, done, i)]]]

ServerReply(c) ==
    /\ srv[c].phase = "adding" /\ Len(srv[c].done) = Len(PassOf(srv[c].req))
    /\ srv' = [srv EXCEPT ![c].phase = "answered"]
    /\ Reply(c, encode_packet(Packet(c, encode_message(
           [make_data_ack(c, TRUE) EXCEPT
              !.payload = @ \o encode_vrfs_route_response(VrfsResponse(srv[c].req, srv[c].done))]))))
    /\ UNCHANGED <<cl, reqs, result, stray, kernel, removed, tool, faults>>

(* The server process dies: its connections break and what it had read or  *)
(* had begun is gone; routes it added stay.                                *)
ServerDies ==
    /\ faults < MaxFaults
    /\ \E c \in Ids : conn[c].state # "none" /\ srv[c].phase \in {"waiting", "adding"}
    /\ faults' = faults + 1
    /\ conn' = [c \in Ids |-> IF conn[c].state = "open"
                              THEN [conn[c] EXCEPT !.state = "dead", !.up = <<>>]
                              ELSE [conn[c] EXCEPT !.up = <<>>]]
    /\ srv' = [c \in Ids |-> IF srv[c].phase \in {"waiting", "adding"} /\ conn[c].state # "none"
                             THEN [srv[c] EXCEPT !.phase = "lost"] ELSE srv[c]]
    /\ UNCHANGED <<cl, reqs, result, stray, kernel, removed, tool>>

(* The server, or what answers in its place, sends bytes with no delimiter  *)
(* among them to a client that waits; it may go on with that.               *)
StrayBytes ==
    /\ cl.pc = "recv" /\ conn[cl.id].state = "open"
    /\ cl.buf = <<>> /\ conn[cl.id].down = <<>>
    /\ stray' = TRUE
    /\ UNCHANGED <<cl, reqs, result, conn, srv, kernel, removed, tool, faults>>

ServerStep == \E c \in Ids : ServerRead(c) \/ ServerDecode(c) \/ ServerAdd(c) \/ ServerReply(c)

-----------------------------------------------------------------------------
(* Other processes.  Each carries out one command through the library,     *)
(* encoded, decoded and handled.                                           *)

ToolDid(k, seen) ==
    /\ tool.ops < MaxTool
    /\ kernel' = k
    /\ removed' = removed \union (kernel.fib \ k.fib)
    /\ tool' = [ops |-> tool.ops + 1, seen |-> seen]
    /\ UNCHANGED <<cl, reqs, result, conn, stray, srv, faults>>

(* The library changes routes only. *)
RoutesAre(fib, seen) == ToolDid([kernel EXCEPT !.fib = fib], seen)

Received(cmd) == decode_command(encode_command(cmd))

handle_route_add(k, p) ==
    Transact(k, add_route(k.links,
        RouteAddParams(p.dst_addr, p.prefix_len, p.gateway, p.gateway # ZeroAddr, p.if_name,
                       p.metric, IF p.gateway # ZeroAddr THEN "UNIVERSE" ELSE "LINK", Main)), TRUE)

handle_route_del(k, p) ==
    Transact(k, delete_route(k.links,
        RouteDelParams(p.dst_addr, p.prefix_len, p.gateway, p.gateway # ZeroAddr, <<>>, Main)), TRUE)

(* The outcome comes back as a bare response. *)
StatusSeen(ok) ==
    decode_response(encode_response([length |-> 0, pkt_num |-> 1, total_pkts |-> 1, ctrl |-> 0,
                                     status |-> IF ok THEN 0 ELSE 1])).val.status

ToolAdd(p) ==
    LET parsed == AndThen(Received(make_route_add(p)), parse_route_add)
        did == handle_route_add(kernel, parsed.val)
    IN  IF parsed.ok
        THEN RoutesAre(did.k.fib, [kind |-> "add", asked |-> p, parsed |-> parsed.val,
                             status |-> StatusSeen(did.result.ok), ok |-> did.result.ok])
        ELSE ToolDid(kernel, [kind |-> "no add", asked |-> p])

ToolDel(p) ==
    LET parsed == AndThen(Received(make_route_del(p)), parse_route_del)
        did == handle_route_del(kernel, parsed.val)
    IN  IF parsed.ok
        THEN RoutesAre(did.k.fib, [kind |-> "del", asked |-> p, parsed |-> parsed.val,
                             status |-> StatusSeen(did.result.ok), ok |-> did.result.ok])
        ELSE ToolDid(kernel, [kind |-> "no del", asked |-> p])

handle_route_list(k) ==
    AndThen(list_routes(k.links, DumpOf([i \in DOMAIN SetToSeq(k.fib) |->
                                            DumpRoute(SetToSeq(k.fib)[i])], 2), Main),
      LAMBDA rs : Ok([i \in DOMAIN rs |->
        [dst_addr |-> rs[i].dst, prefix_len |-> rs[i].prefix_len,
         gateway |-> IF rs[i].has_gateway THEN rs[i].gateway ELSE ZeroAddr,
         metric |-> rs[i].metric % Word, if_name |-> rs[i].if_name]]))

ToolList ==
    /\ Received(make_route_list).val.cmd_id = ROUTE_LIST
    /\ ToolDid(kernel, [kind |-> "list", k |-> kernel,
                        listed |-> AndThen(handle_route_list(kernel), LAMBDA rs :
                                       decode_route_list_response(encode_route_list_response(rs)))])

(* handle_route_add_payload: prefixes of interfaces, one status bit each *)
AddAll(k, pass) ==
    FoldLeft(LAMBDA st, p :
               LET did == Transact(st.k, add_route(st.k.links, p), TRUE)
               IN  [k |-> did.k, oks |-> Append(st.oks, did.result.ok)],
             [k |-> k, oks |-> <<>>], pass)

handle_route_add_payload(k, interfaces) ==
    LET did == AddAll(k, PassOf(interfaces))
    IN  [k |-> did.k,
         resp |-> [status_code |-> IF \A i \in DOMAIN did.oks : did.oks[i] THEN 0 ELSE 1,
                   prefix_status |-> did.oks]]

ToolPayload(interfaces) ==
    LET got == AndThen(Received(make_route_add_binary(interfaces)),
                       LAMBDA cmd : decode_route_add_payload(cmd.raw_payload))
        did == handle_route_add_payload(kernel, got.val)
    IN  IF got.ok
        THEN RoutesAre(did.k.fib, [kind |-> "payload", asked |-> interfaces, got |-> got.val,
                             before |-> kernel, after |-> did.k,
                             resp |-> decode_route_add_binary_response(
                                          encode_route_add_binary_response(did.resp)).val])
        ELSE ToolDid(kernel, [kind |-> "no payload", asked |-> interfaces])

(* A route of any table, put over the one that is there *)
ToolReplace(p) ==
    RoutesAre(Transact(kernel, replace_route(kernel.links, p), TRUE).k.fib, NothingSeen)

LinkDump(k) ==
    LET names == SetToSeq(DOMAIN k.links)
    IN  DumpOf([i \in DOMAIN names |-> DumpLink(k.links, names[i])], 1)
AddrDump(k) ==
    LET as == SetToSeq(k.addrs) IN DumpOf([i \in DOMAIN as |-> DumpAddr(as[i])], 1)

(* The interface a name belongs to, and its addresses *)
ToolShow(name) ==
    ToolDid(kernel, [kind |-> "show", name |-> name, k |-> kernel,
                     iface |-> get_interface(LinkDump(kernel), name),
                     addrs |-> list_interface_addresses(kernel.links, AddrDump(kernel), name)])

(* An interface goes, and with it its addresses and routes. *)
LinkGone(name) ==
    LET idx == kernel.links[name]
    IN  ToolDid([fib |-> {r \in kernel.fib : r.oif # idx},
                 links |-> [n \in DOMAIN kernel.links \ {name} |-> kernel.links[n]],
                 addrs |-> {a \in kernel.addrs : a.oif # idx}], NothingSeen)

ToolStep ==
    \/ \E p \in ToolAdds : ToolAdd(p)
    \/ \E p \in ToolDels : ToolDel(p)
    \/ \E is \in ToolPayloads : ToolPayload(is)
    \/ \E p \in ToolReplaces : ToolReplace(p)
    \/ ToolList
    \/ \E name \in DOMAIN InitialKernel.links : ToolShow(name)
    \/ \E name \in DOMAIN kernel.links : LinkGone(name)

Next ==
    \/ (\E vrfs \in Requests : processRequest(vrfs)) \/ ClientStep
    \/ ServerStep \/ ServerDies \/ StrayBytes \/ ToolStep

(* The client's thread runs, and its poll() calls end: by data, by the end *)
(* of the connection or by their timeout.  This is weak fairness of        *)
(* ClientStep with its enabling condition written out, since evaluating    *)
(* ENABLED of a step that decodes a frame is out of TLC's reach.  (No      *)
(* StrayBytes changes stray again before the client has read.)             *)
ClientCanStep == cl.pc = "connect" \/ CanSend \/ SendGivesUp \/ CanRecv \/ RecvGivesUp
ClientFairness == []<>~ClientCanStep \/ []<><<ClientCanStep>>_<<cl, stray>>

Spec == Init /\ [][Next]_vars /\ ClientFairness

-----------------------------------------------------------------------------
(* Types of every variable; a client that works on a request has an id. *)
TypeOK ==
    /\ cl.pc \in {"idle", "connect", "send", "recv"} /\ cl.id \in 0 .. MaxRequests
    /\ stray \in BOOLEAN /\ (stray => cl.pc = "recv")
    /\ (cl.pc = "idle") <=> (cl.id = 0)
    /\ \A i \in DOMAIN cl.out : cl.out[i] \in 0 .. Base - 1
    /\ reqs \in Seq(Requests)
    /\ \A c \in Ids : /\ result[c].verdict \in {"none", "error", "PASS", "FAIL"}
                       /\ conn[c].state \in {"none", "open", "closed", "dead"}
                       /\ Len(conn[c].up) <= SOCK_CAP
                       /\ srv[c].phase \in {"waiting", "adding", "answered", "refused", "lost"}
    /\ faults \in 0 .. MaxFaults /\ tool.ops \in 0 .. MaxTool

(* What the server handles is what the client was asked to send: framing,  *)
(* stuffing, the wrapped length fields and the checks of four decoders     *)
(* never make another request of it, however the bytes are cut into reads. *)
HandledIsSent ==
    \A c \in Ids : srv[c].req # <<>> => c \in DOMAIN reqs /\ srv[c].req = reqs[c]

(* A request that the formats can carry: masks, prefix counts, and the     *)
(* length of the exchange block, the narrowest of the nested lengths.      *)
Carried(vrfs) ==
    LET payload == encode_vrfs_route_request(vrfs)
    IN  payload.ok /\ EXCHANGE_MIN_SIZE + CMD_HEADER_SIZE + Len(payload.val) < Word

(* The server refuses a request only if its encoding failed on the client  *)
(* (which then sends an empty command) or outgrew the 16-bit lengths.      *)
RefusedIsNotCarried ==
    \A c \in Ids : srv[c].phase = "refused" => ~Carried(reqs[c])

(* PASS: every prefix of the request is in the kernel with its nexthop and *)
(* interface, or was there and another process took it away.               *)
Installed(v, p, routes) ==
    \E r \in routes :
        /\ r.table = Main /\ r.dst = p.addr /\ r.prefix_len = p.mask_len
        /\ r.gateway = v.nexthop_addr_ipv4
        /\ r.oif = InitialKernel.links[CName(v.iface_name)]
PassMeansInstalled ==
    \A c \in Ids : result[c].verdict = "PASS" =>
        \A i \in DOMAIN reqs[c] : \A j \in DOMAIN reqs[c][i].prefixes :
            Installed(reqs[c][i], reqs[c][i].prefixes[j], kernel.fib \union removed)

(* The client does not look at the type of a message: of the description   *)
(* in an ERROR it passes over the first byte, takes the second as status   *)
(* and the rest, if it can be divided so, as answers.                      *)
TextAsAnswers(text) ==
    [i \in 1 .. (Len(text) - 2) \div VRFS_ANSWER_WIRE_SIZE |->
        LET at == 2 + (i - 1) * VRFS_ANSWER_WIRE_SIZE
        IN  [vrfs_name |-> Slice(text, at, at + VRFS_NAME_SIZE),
             prefix_status |-> text[at + VRFS_ANSWER_WIRE_SIZE] % 2 # 0]]
ReadsAsAnswers(text) == Len(text) >= 2 /\ (Len(text) - 2) % VRFS_ANSWER_WIRE_SIZE = 0

(* The verdict and the per-VRF answers the client reads are those of the   *)
(* kernel for this request.  A refusal never reads as PASS: it is FAIL if  *)
(* its description happens to have the length of an answer, and no reply   *)
(* otherwise.  Its answers are then pieces of that text, and one whose last *)
(* byte is odd reads as a VRF that is "installed ok", which it is not.      *)
AnswerIsTrue ==
    \A c \in Ids : result[c].verdict \in {"PASS", "FAIL"} =>
        \/ /\ srv[c].phase = "refused" /\ result[c].verdict = "FAIL"
           /\ \E text \in ErrorTexts :
                  ReadsAsAnswers(text) /\ result[c].answers = TextAsAnswers(text)
        \/ /\ srv[c].phase = "answered"
           /\ (result[c].verdict = "PASS") <=> (\A j \in DOMAIN srv[c].done : srv[c].done[j].ok)
           /\ result[c].answers = [i \in DOMAIN reqs[c] |->
                  [vrfs_name |-> reqs[c][i].vrfs_name,
                   prefix_status |-> VrfOk(reqs[c], srv[c].done, i)]]

(* A route request never replaces or removes a route: what other processes *)
(* installed under the same prefix stays, and the request fails instead.   *)
AddsNeverReplace == [][srv' # srv => kernel.fib \subseteq kernel'.fib]_vars

(* Commands of other processes arrive as they were given, and the bare     *)
(* status that comes back is the kernel's; what is refused has a mask too  *)
(* long, names no interface, or is a list that outgrew its length field.   *)
CommandArrives ==
    LET seen == tool.seen
    IN  /\ seen.kind \in {"add", "del"} =>
             seen.parsed = seen.asked /\ ((seen.status = 0) <=> seen.ok)
        /\ seen.kind = "no add" => seen.asked.prefix_len > MAX_MASK \/ seen.asked.if_name = <<>>
        /\ seen.kind = "no del" => seen.asked.prefix_len > MAX_MASK
        /\ seen.kind = "payload" => seen.got = seen.asked
        /\ seen.kind = "no payload" =>
             LET payload == encode_route_add_payload(seen.asked)
             IN  ~(payload.ok /\ Len(payload.val) < Word)

(* The interface payload: its routes are in the kernel exactly where the   *)
(* decoded status bits say so; bits beyond the prefixes are padding.       *)
BitsAreExact ==
    tool.seen.kind = "payload" =>
        LET pass == PassOf(tool.seen.asked)
            bits == tool.seen.resp.prefix_status
        IN  /\ Len(bits) - Len(pass) \in 0 .. BITS - 1
            /\ \A i \in DOMAIN bits :
                  bits[i] <=> /\ i \in DOMAIN pass
                              /\ \E r \in tool.seen.after.fib \ tool.seen.before.fib :
                                    /\ r.dst = pass[i].dst /\ r.prefix_len = pass[i].prefix_len
                                    /\ r.gateway = pass[i].gateway
                              /\ \A h \in 1 .. i - 1 : pass[h] # pass[i]
            /\ (tool.seen.resp.status_code = 0) <=> (\A i \in DOMAIN pass : bits[i])

(* The route list as it is read at the other end: the routes of the main   *)
(* table and no others, each once, metrics modulo 16 bits.                 *)
ListIsExact ==
    tool.seen.kind = "list" =>
        LET k == tool.seen.k
            shown == tool.seen.listed.val
            EntryOf(r) == [dst_addr |-> r.dst, prefix_len |-> r.prefix_len,
                           gateway |-> IF r.gateway = None THEN ZeroAddr ELSE r.gateway,
                           metric |-> r.metric % Word, if_name |-> index_to_name(k.links, r.oif)]
            InMain == {r \in k.fib : r.table = Main}
        IN  /\ tool.seen.listed.ok
            /\ Len(shown) = Cardinality(InMain)
            /\ Range(shown) = {EntryOf(r) : r \in InMain}

(* An interface is shown with its own index and addresses, local ones on a *)
(* point-to-point link; one that is gone is not shown.                     *)
ShownIsConfigured ==
    tool.seen.kind = "show" =>
        LET k == tool.seen.k
        IN  IF tool.seen.name \in DOMAIN k.links
            THEN /\ tool.seen.iface = Ok([index |-> k.links[tool.seen.name],
                                         name |-> tool.seen.name])
                 /\ {<<a.addr, a.prefix_len>> : a \in Range(tool.seen.addrs.val)}
                      = {<<a.addr, a.prefix_len>> : a \in {b \in k.addrs :
                                                   b.oif = k.links[tool.seen.name]}}
            ELSE ~tool.seen.iface.ok /\ ~tool.seen.addrs.ok

(* The properties above as they are checked together: what arrives is what *)
(* was sent and a refused request leaves nothing behind; what other        *)
(* processes read of the kernel, in bits, lists of routes and of addresses *)
(* is the kernel's, and every variable has its type.                       *)
NothingForeign == HandledIsSent /\ RefusedIsNotCarried
WireSound == TypeOK /\ BitsAreExact /\ ListIsExact /\ ShownIsConfigured

(* Every request the client takes on ends, with a silent, slow, failing or *)
(* dying server too, unless bytes keep coming that close no frame.         *)
StrayBytesEnd == <>[]~stray
RequestEnds == StrayBytesEnd => ((cl.pc # "idle") ~> (cl.pc = "idle"))
=============================================================================
