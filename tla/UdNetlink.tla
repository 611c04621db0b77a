------------------------------ MODULE UdNetlink ------------------------------
(***************************************************************************)
(* Routes and interfaces of unix_domain/lib/netlink.cpp: the messages it   *)
(* builds, the replies it reads, and the kernel it talks to (external).    *)
(*                                                                         *)
(* The kernel is a record [fib, links, addrs]: a set of routes, the index  *)
(* of every interface there is, and a set of interface addresses.  A       *)
(* message is its header fields and a sequence of <<attribute, value>>.    *)
(***************************************************************************)
EXTENDS CmdProto

RT_TABLE_UNSPEC == 0
Main == Base - 2

None == <<>>                \* an attribute that is absent

(* -------------------------- Building messages -------------------------- *)

NlMsg(type, flags, body) == [type |-> type, flags |-> flags, body |-> body, attrs |-> <<>>]
add_attr(msg, type, data) == [msg EXCEPT !.attrs = Append(@, <<type, data>>)]
AttrIf(cond, msg, type, data) == IF cond THEN add_attr(msg, type, data) ELSE msg

(* Attributes are looked up by type; a repeated one overwrites. *)
parse_attrs(seq) ==
    [t \in {seq[i][1] : i \in DOMAIN seq} |->
        seq[Max({i \in DOMAIN seq : seq[i][1] = t})][2]]
attr_data(attrs, type, absent) == IF type \in DOMAIN attrs THEN attrs[type] ELSE absent

name_to_index(links, name) ==
    CASE name = <<>> -> Ok(0)
      [] name # <<>> /\ name \notin DOMAIN links -> Err("InterfaceNotFound")
      [] OTHER -> Ok(links[name])

index_to_name(links, idx) ==
    IF \E name \in DOMAIN links : links[name] = idx
    THEN CHOOSE name \in DOMAIN links : links[name] = idx
    ELSE <<>>

(* The table of a message: 8 bits of the header, or an attribute *)
TableField(table) == IF table < Base THEN table ELSE RT_TABLE_UNSPEC
WithTable(msg, table) == AttrIf(table >= Base, msg, "RTA_TABLE", table)
WithOif(links, msg, name) ==
    AndThen(name_to_index(links, name),
            LAMBDA idx : Ok(AttrIf(name # <<>>, msg, "RTA_OIF", idx)))

RouteAddParams(dst, len, gateway, has_gateway, if_name, metric, scope, table) ==
    [dst |-> dst, prefix_len |-> len, gateway |-> gateway, has_gateway |-> has_gateway,
     if_name |-> if_name, metric |-> metric, scope |-> scope, table |-> table]

RouteDelParams(dst, len, gateway, has_gateway, if_name, table) ==
    [dst |-> dst, prefix_len |-> len, gateway |-> gateway, has_gateway |-> has_gateway,
     if_name |-> if_name, table |-> table]

RouteMsg(links, type, flags, scope, p) ==
    LET msg == add_attr(NlMsg(type, flags,
                              [dst_len |-> p.prefix_len, table |-> TableField(p.table),
                               scope |-> scope]), "RTA_DST", p.dst)
    IN  WithOif(links, AttrIf(p.has_gateway, msg, "RTA_GATEWAY", p.gateway), p.if_name)

send_route_new(links, p, flags) ==
    AndThen(RouteMsg(links, "RTM_NEWROUTE", flags, p.scope, p),
            LAMBDA msg : Ok(WithTable(AttrIf(p.metric # 0, msg, "RTA_PRIORITY", p.metric),
                                      p.table)))

(* Adds silently replace: the flag that refuses a route that is there is lost. *)
add_route_NoExcl(links, p) == send_route_new(links, p, {"CREATE", "REPLACE"})

add_route(links, p) == send_route_new(links, p, {"CREATE", "EXCL"})
replace_route(links, p) == send_route_new(links, p, {"CREATE", "REPLACE"})
delete_route(links, p) ==
    AndThen(RouteMsg(links, "RTM_DELROUTE", {}, "NOWHERE", p),
            LAMBDA msg : Ok(WithTable(msg, p.table)))

(* ------------------------- The kernel (external) ------------------------ *)

AddrValue(a) == FoldLeft(LAMBDA v, b : v * Base + b, 0, a)
HostBits(dst, len) == AddrValue(dst) % 2 ^ (BITS * ADDR_SIZE - len) # 0

KernelTable(msg) ==
    attr_data(parse_attrs(msg.attrs), "RTA_TABLE",
              IF msg.body.table = RT_TABLE_UNSPEC THEN Main ELSE msg.body.table)

KernelRoute(k, msg) ==
    LET a == parse_attrs(msg.attrs)
    IN  [dst |-> a["RTA_DST"], prefix_len |-> msg.body.dst_len,
         gateway |-> attr_data(a, "RTA_GATEWAY", None),
         oif |-> attr_data(a, "RTA_OIF", 0), metric |-> attr_data(a, "RTA_PRIORITY", 0),
         scope |-> msg.body.scope, table |-> KernelTable(msg)]

SameKey(r, s) == <<r.table, r.dst, r.prefix_len, r.metric>> = <<s.table, s.dst, s.prefix_len, s.metric>>

(* A gateway is on the link whose interface address it shares the prefix with. *)
OnLink(k, gateway, oif) ==
    \E a \in k.addrs : a.oif = oif /\ LET block == 2 ^ (BITS * ADDR_SIZE - a.prefix_len)
                                     IN  AddrValue(gateway) \div block = AddrValue(a.addr) \div block

KernelRefusal(k, msg, r) ==
    CASE HostBits(r.dst, r.prefix_len) -> "EINVAL"
      [] r.oif \notin {k.links[n] : n \in DOMAIN k.links} -> "ENODEV"
      [] r.gateway # None /\ ~OnLink(k, r.gateway, r.oif) -> "ENETUNREACH"
      [] "EXCL" \in msg.flags /\ (\E s \in k.fib : SameKey(r, s)) -> "EEXIST"
      [] OTHER -> ""

DeleteMatches(k, msg) ==
    LET a == parse_attrs(msg.attrs)
    IN  {r \in k.fib :
            /\ r.dst = a["RTA_DST"] /\ r.prefix_len = msg.body.dst_len
            /\ r.table = KernelTable(msg)
            /\ attr_data(a, "RTA_GATEWAY", r.gateway) = r.gateway
            /\ attr_data(a, "RTA_OIF", r.oif) = r.oif}

(* What the kernel does with a request: its errno and its next state *)
KernelDo(k, msg) ==
    IF msg.type = "RTM_NEWROUTE"
    THEN LET r == KernelRoute(k, msg)
             e == KernelRefusal(k, msg, r)
         IN  [error |-> e,
              k |-> IF e # "" THEN k
                    ELSE [k EXCEPT !.fib = {s \in @ : ~SameKey(r, s)} \union {r}]]
    ELSE LET ms == DeleteMatches(k, msg)
         IN  IF ms = {} THEN [error |-> "ESRCH", k |-> k]
             ELSE [error |-> "", k |-> [k EXCEPT !.fib =
                      @ \ {CHOOSE r \in ms : \A s \in ms : r.metric <= s.metric}]]

(* ---------------------------- Reading replies --------------------------- *)

ErrorMsg(error) == [type |-> "NLMSG_ERROR", error |-> error]

(* Any reply counts as an acknowledgement. *)
nl_transact_AnyReply(received, datagram) == IF received THEN Ok(TRUE) ELSE Err("RecvFailed")

(* The first error or acknowledgement of one datagram; without any, success. *)
nl_transact(received, datagram) ==
    LET errs == {i \in DOMAIN datagram : datagram[i].type = "NLMSG_ERROR"}
        error == datagram[Min(errs)].error
    IN  CASE ~received -> Err("RecvFailed")
          [] received /\ errs # {} /\ error # "" -> Err(error)
          [] OTHER -> Ok(TRUE)

(* A request whose message could not be built never reaches the kernel. *)
Transact(k, msg, received) ==
    IF ~msg.ok THEN [k |-> k, result |-> msg]
    ELSE LET did == KernelDo(k, msg.val)
         IN  [k |-> did.k, result |-> nl_transact(received, <<ErrorMsg(did.error)>>)]

(* The messages of a dump up to its end *)
nl_dump(datagrams) ==
    LET msgs == FlattenSeq(datagrams)
        ends == {i \in DOMAIN msgs : msgs[i].type \in {"NLMSG_DONE", "NLMSG_ERROR"}}
        end == Min(ends)
    IN  IF msgs[end].type = "NLMSG_ERROR" /\ msgs[end].error # ""
        THEN Err(msgs[end].error) ELSE Ok(SubSeq(msgs, 1, end - 1))

(* A dump as the kernel sends it, N messages in a datagram (external) *)
DumpOf(msgs, N) ==
    [d \in 1 .. (Len(msgs) + N - 1) \div N |->
        SubSeq(msgs, (d - 1) * N + 1, Min({d * N, Len(msgs)}))]
    \o <<<<[type |-> "NLMSG_DONE", error |-> ""]>>>>

DumpRoute(r) ==
    LET msg == NlMsg("RTM_NEWROUTE", {},
                     [dst_len |-> r.prefix_len, scope |-> r.scope, table |-> TableField(r.table)])
        withDst == AttrIf(r.prefix_len > 0, add_attr(msg, "RTA_TABLE", r.table),
                          "RTA_DST", r.dst)
        withGateway == AttrIf(r.gateway # None, withDst, "RTA_GATEWAY", r.gateway)
        withOif == AttrIf(r.oif # 0, withGateway, "RTA_OIF", r.oif)
    IN  AttrIf(r.metric # 0, withOif, "RTA_PRIORITY", r.metric)

RouteEntryOf(links, msg) ==
    LET a == parse_attrs(msg.attrs)
        oif == attr_data(a, "RTA_OIF", 0)
    IN  [dst |-> attr_data(a, "RTA_DST", ZeroAddr), prefix_len |-> msg.body.dst_len,
         gateway |-> attr_data(a, "RTA_GATEWAY", ZeroAddr),
         has_gateway |-> "RTA_GATEWAY" \in DOMAIN a,
         if_index |-> oif, if_name |-> index_to_name(links, oif),
         metric |-> attr_data(a, "RTA_PRIORITY", 0), scope |-> msg.body.scope,
         table |-> attr_data(a, "RTA_TABLE", msg.body.table)]

list_routes(links, datagrams, table) ==
    AndThen(nl_dump(datagrams), LAMBDA msgs :
        LET entries == [i \in DOMAIN msgs |-> RouteEntryOf(links, msgs[i])]
        IN  Ok(SelectSeq(entries, LAMBDA e : table = RT_TABLE_UNSPEC \/ e.table = table)))

(* Interfaces: a link message names its interface, an address message does *)
(* not and is matched by index.                                            *)
DumpLink(links, name) ==
    add_attr(NlMsg("RTM_NEWLINK", {}, [index |-> links[name]]), "IFLA_IFNAME", name)
DumpAddr(a) ==
    add_attr(add_attr(NlMsg("RTM_NEWADDR", {}, [index |-> a.oif, prefix_len |-> a.prefix_len]),
                      "IFA_ADDRESS", a.peer), "IFA_LOCAL", a.addr)

list_interfaces(datagrams) ==
    AndThen(nl_dump(datagrams), LAMBDA msgs :
        Ok([i \in DOMAIN msgs |->
              [index |-> msgs[i].body.index,
               name |-> attr_data(parse_attrs(msgs[i].attrs), "IFLA_IFNAME", <<>>)]]))

get_interface(datagrams, name) ==
    AndThen(list_interfaces(datagrams), LAMBDA ifaces :
        LET found == SelectSeq(ifaces, LAMBDA i : i.name = name)
        IN  IF found = <<>> THEN Err("InterfaceNotFound") ELSE Ok(Head(found)))

IfAddrEntryOf(links, m) ==
    LET a == parse_attrs(m.attrs)
    IN  [prefix_len |-> m.body.prefix_len, if_index |-> m.body.index,
         if_name |-> index_to_name(links, m.body.index),
         addr |-> attr_data(a, "IFA_LOCAL", attr_data(a, "IFA_ADDRESS", ZeroAddr))]

list_interface_addresses(links, datagrams, if_name) ==
    AndThen(nl_dump(datagrams), LAMBDA msgs :
        AndThen(name_to_index(links, if_name), LAMBDA filter :
            LET wanted == SelectSeq(msgs, LAMBDA m : filter \in {0, m.body.index})
            IN  Ok([i \in DOMAIN wanted |-> IfAddrEntryOf(links, wanted[i])])))
=============================================================================
