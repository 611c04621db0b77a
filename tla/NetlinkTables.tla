---------------------------- MODULE NetlinkTables ----------------------------
(***************************************************************************)
(* The netlink messages of sra and the tables it builds from them: what    *)
(* netlink.c, netlink_neigh.c, netlink_nexthop.c and RoutingManager read   *)
(* from a datagram, and what the callbacks of main.cpp do with it.         *)
(*                                                                         *)
(* A message is [type, flags, seq, body]; its body holds header fields and *)
(* attributes (in capitals), an absent attribute being "", 0 or <<>>.  A   *)
(* datagram is a sequence of messages.  A std::map is the set of its       *)
(* values, each of which contains its key.                                 *)
(***************************************************************************)
EXTENDS Integers, Sequences, FiniteSets, SequencesExt

CONSTANTS IfNames,      \* interface index -> name
          AddrFamily,   \* address -> "inet" or "inet6"
          MAX_GROUP     \* NETLINK_NEXTHOP_MAX_GROUP

ASSUME TablesAssumption == MAX_GROUP \in Nat

NoLen == -1             \* a destination without "/N"
RT_TABLE_UNSPEC == 0
RT_TABLE_COMPAT == 252
OneByte == 256

NlMsg(type, flags, seq, body) == [type |-> type, flags |-> flags, seq |-> seq, body |-> body]
Outcome(error) == [error |-> error]

Ok(v) == [ok |-> TRUE, val |-> v]
Err(e) == [ok |-> FALSE, err |-> e]

ifIndexToName(index) == IF index \in DOMAIN IfNames THEN IfNames[index] ELSE ""

-----------------------------------------------------------------------------
(* One datagram of the receive loops.                                       *)

\* The messages before the one that ends the reply, if any.
EndOf(msgs) ==
  LET ends == {i \in DOMAIN msgs : msgs[i].type \in {"NLMSG_DONE", "NLMSG_ERROR"}}
  IN  IF ends = {} THEN Len(msgs) + 1 ELSE Min(ends)

\* RoutingManager::recvAll gives up after one datagram, dump or not.
recvAll_OneDatagram(seq, datagram) ==
  LET mine == SelectSeq(datagram, LAMBDA m : m.seq = seq)
  IN  [handled |-> SubSeq(mine, 1, EndOf(mine) - 1), verdict |-> "ok"]

\* RoutingManager::recvAll: the messages that go to the handler, and whether
\* to read on.  What answers another request is skipped.
recvAll(seq, datagram) ==
  LET mine == SelectSeq(datagram, LAMBDA m : m.seq = seq)
      end == EndOf(mine)
  IN  [handled |-> SubSeq(mine, 1, end - 1),
       verdict |-> CASE end \in DOMAIN mine /\ mine[end].body.error # "" -> mine[end].body.error
                     [] end \in DOMAIN mine /\ mine[end].body.error = "" -> "ok"
                     [] OTHER -> IF "MULTI" \in datagram[1].flags THEN "more" ELSE "ok"]

\* The loop the three process_buf functions share: the events of a datagram
\* up to DONE, nothing being asked of the sequence number.
Processed(datagram, types, Dispatch(_)) ==
  LET end == EndOf(datagram)
      failed == end \in DOMAIN datagram /\ datagram[end].type = "NLMSG_ERROR"
      wanted == SelectSeq(SubSeq(datagram, 1, end - 1), LAMBDA m : m.type \in types)
  IN  [events |-> FlattenSeq([i \in DOMAIN wanted |-> Dispatch(wanted[i])]),
       verdict |-> CASE failed -> "error"
                     [] ~failed /\ end \in DOMAIN datagram -> "done"
                     [] OTHER -> "more"]

EventOf(m, new) ==
  IF m.type # new THEN "REMOVED" ELSE IF "REPLACE" \in m.flags THEN "CHANGED" ELSE "ADDED"

-----------------------------------------------------------------------------
(* Routes.                                                                  *)

\* netlink.c nl_dispatch: host unicast routes of IPv4 only; RTA_MULTIPATH is
\* not looked at.
nl_dispatch(m) ==
  IF m.body.family # "inet" \/ m.body.dst_len # 32 \/ m.body.type # "unicast" THEN <<>>
  ELSE << <<EventOf(m, "RTM_NEWROUTE"),
            [dst |-> m.body.RTA_DST, dst_len |-> m.body.dst_len,
             gateway |-> m.body.RTA_GATEWAY, ifname |-> ifIndexToName(m.body.RTA_OIF),
             metric |-> m.body.RTA_PRIORITY,
             table |-> IF m.body.RTA_TABLE # 0 THEN m.body.RTA_TABLE ELSE m.body.table]>> >>

nl_process_buf(datagram) == Processed(datagram, {"RTM_NEWROUTE", "RTM_DELROUTE"}, nl_dispatch)

\* The handler of RoutingManager::listRoutes: one KernelRoute per nexthop.
KernelRoutesOf(m, table) ==
  LET tbl == IF m.body.RTA_TABLE # 0 THEN m.body.RTA_TABLE ELSE m.body.table
      hops == IF m.body.RTA_MULTIPATH # <<>> THEN m.body.RTA_MULTIPATH
              ELSE <<[gw |-> m.body.RTA_GATEWAY, oif |-> m.body.RTA_OIF]>>
  IN  IF m.type # "RTM_NEWROUTE" \/ (table # RT_TABLE_UNSPEC /\ tbl # table) THEN <<>>
      ELSE [h \in DOMAIN hops |->
              [destination |-> IF m.body.RTA_DST # "" THEN m.body.RTA_DST ELSE "default",
               prefixLen |-> m.body.dst_len, gateway |-> hops[h].gw,
               interfaceName |-> ifIndexToName(hops[h].oif), metric |-> m.body.RTA_PRIORITY,
               table |-> tbl, type |-> m.body.type]]

WatchRoute(dest, len, gateway, iface, metric, table) ==
  [dest |-> dest, len |-> len, gateway |-> gateway, iface |-> iface,
   metric |-> metric, table |-> table]
RouteKey(row) == <<row.dest, row.len, row.gateway, row.iface>>

\* map[key] = value, and map.erase(key).
Put(rows, row, Key(_)) == {r \in rows : Key(r) # Key(row)} \cup {row}
Erase(rows, key, Key(_)) == {r \in rows : Key(r) # key}

\* Step 1 of the start-up: the rows of the routes a dump listed.
RouteRowsOf(routes) ==
  LET wanted == SelectSeq(routes, LAMBDA r : r.prefixLen = 32 /\ r.type = "unicast")
  IN  FoldLeft(LAMBDA rows, r : Put(rows, WatchRoute(r.destination, r.prefixLen, r.gateway,
                                                     r.interfaceName, r.metric, r.table),
                                    RouteKey),
               {}, wanted)

startupRouteLiveCb(rows, event, r) ==
  LET row == WatchRoute(r.dst, r.dst_len, r.gateway, r.ifname, r.metric, r.table)
  IN  IF event = "REMOVED" THEN Erase(rows, RouteKey(row), RouteKey)
      ELSE Put(rows, row, RouteKey)

-----------------------------------------------------------------------------
(* Neighbours.                                                              *)

nl_neigh_dispatch(m) ==
  << <<EventOf(m, "RTM_NEWNEIGH"),
       [family |-> m.body.family, ifindex |-> m.body.ifindex, state |-> m.body.state,
        dst |-> IF m.body.family \in {"inet", "inet6"} THEN m.body.NDA_DST ELSE "",
        lladdr |-> m.body.NDA_LLADDR]>> >>

nl_neigh_process_buf(datagram) ==
  Processed(datagram, {"RTM_NEWNEIGH", "RTM_DELNEIGH"}, nl_neigh_dispatch)

NeighEntry(n) ==
  [family |-> n.family, ifindex |-> n.ifindex, dst |-> IF n.dst # "" THEN n.dst ELSE "(none)",
   state |-> n.state, mac |-> n.lladdr]
NeighKey(row) == <<row.family, row.ifindex, row.dst>>

\* Only what has a destination is removed.
nlNeighUpdate_NoneKept(rows, event, n) ==
  IF event = "REMOVED"
  THEN IF n.family = "inet" THEN Erase(rows, NeighKey(NeighEntry(n)), NeighKey) ELSE rows
  ELSE Put(rows, NeighEntry(n), NeighKey)

nlNeighUpdate(rows, event, n) ==
  IF event = "REMOVED" THEN Erase(rows, NeighKey(NeighEntry(n)), NeighKey)
  ELSE Put(rows, NeighEntry(n), NeighKey)

-----------------------------------------------------------------------------
(* Nexthop objects.                                                         *)

nl_nexthop_dispatch(m) ==
  << <<EventOf(m, "RTM_NEWNEXTHOP"),
       [id |-> m.body.NHA_ID, family |-> m.body.family, oif |-> m.body.NHA_OIF,
        gateway |-> IF m.body.family \in {"inet", "inet6"} THEN m.body.NHA_GATEWAY ELSE "",
        group |-> SubSeq(m.body.NHA_GROUP, 1, Min({MAX_GROUP, Len(m.body.NHA_GROUP)}))]>> >>

nl_nexthop_process_buf(datagram) ==
  Processed(datagram, {"RTM_NEWNEXTHOP", "RTM_DELNEXTHOP"}, nl_nexthop_dispatch)

NexthopEntry(nh) == [id |-> nh.id, family |-> nh.family, oif |-> ifIndexToName(nh.oif),
                     gateway |-> nh.gateway, group |-> nh.group]
NexthopKey(row) == <<row.id>>

nlNexthopUpdate(rows, event, nh) ==
  IF event = "REMOVED" THEN Erase(rows, <<nh.id>>, NexthopKey)
  ELSE Put(rows, NexthopEntry(nh), NexthopKey)

-----------------------------------------------------------------------------
(* Interfaces: two dumps, the second filling in the addresses.              *)

InterfacesOf(m) ==
  IF m.type # "RTM_NEWLINK" \/ m.body.IFLA_IFNAME = "" THEN <<>>
  ELSE <<[index |-> m.body.index, name |-> m.body.IFLA_IFNAME, up |-> m.body.up,
          addresses |-> {}]>>

\* The first interface with the index of the address gets it; the peer's
\* address stands in for a missing local one.
WithAddress(ifaces, m) ==
  LET chosen == IF m.body.IFA_LOCAL # "" THEN m.body.IFA_LOCAL ELSE m.body.IFA_ADDRESS
      owners == {i \in DOMAIN ifaces : ifaces[i].index = m.body.index}
  IN  IF m.type # "RTM_NEWADDR" \/ m.body.family \notin {"inet", "inet6"} \/ chosen = "" \/ owners = {}
      THEN ifaces
      ELSE [ifaces EXCEPT ![Min(owners)].addresses = @ \cup {<<chosen, m.body.prefixlen>>}]

getInterface(ifaces, name) ==
  LET found == SelectSeq(ifaces, LAMBDA i : i.name = name)
  IN  IF found = <<>> THEN Err("not found") ELSE Ok(Head(found))

isInterfaceUp(ifaces, name) ==
  LET iface == getInterface(ifaces, name)
  IN  IF iface.ok THEN Ok(iface.val.up) ELSE iface

-----------------------------------------------------------------------------
(* Route requests.  A destination is [addr, len].                           *)

inet_pton(family, addr) == addr \in DOMAIN AddrFamily /\ AddrFamily[addr] = family

parseCidr(cidr, family) ==
  LET maxPfx == IF family = "inet6" THEN 128 ELSE 32
      len == IF cidr.len = NoLen THEN maxPfx ELSE cidr.len
  IN  IF len \notin 0 .. maxPfx \/ ~inet_pton(family, cidr.addr) THEN Err("cidr")
      ELSE Ok([addr |-> cidr.addr, len |-> len])

if_nametoindex(name) == IF \E i \in DOMAIN IfNames : IfNames[i] = name
                        THEN CHOOSE i \in DOMAIN IfNames : IfNames[i] = name ELSE 0

\* A table above one byte goes unnamed: the kernel takes the compatibility id.
sendRouteRequest_NoTable(seq, p, nlType, flags) ==
  NlMsg(nlType, flags \cup {"ACK"}, seq,
        [family |-> p.family, dst_len |-> parseCidr(p.destination, p.family).val.len,
         type |-> p.type, protocol |-> p.protocol, scope |-> p.scope,
         table |-> p.table % OneByte, RTA_DST |-> p.destination.addr, RTA_GATEWAY |-> p.gateway,
         RTA_OIF |-> if_nametoindex(p.interfaceName), RTA_PRIORITY |-> p.metric, RTA_TABLE |-> 0,
         RTA_MULTIPATH |-> <<>>])

\* The message sendRouteRequest builds from parameters that are Sendable.
Sendable(p) ==
  /\ parseCidr(p.destination, p.family).ok
  /\ p.gateway # "" => inet_pton(p.family, p.gateway)
  /\ p.interfaceName # "" => if_nametoindex(p.interfaceName) # 0

sendRouteRequest(seq, p, nlType, flags) ==
  LET cidr == parseCidr(p.destination, p.family).val
      oif == IF p.interfaceName = "" THEN 0 ELSE if_nametoindex(p.interfaceName)
  IN  NlMsg(nlType, flags \cup {"ACK"}, seq,
            [family |-> p.family, dst_len |-> cidr.len, type |-> p.type,
             protocol |-> p.protocol,
             scope |-> IF p.scope = "universe" /\ p.gateway = "" /\ oif # 0 THEN "link"
                       ELSE p.scope,
             table |-> IF p.table < OneByte THEN p.table ELSE RT_TABLE_COMPAT,
             RTA_DST |-> cidr.addr, RTA_GATEWAY |-> p.gateway, RTA_OIF |-> oif,
             RTA_PRIORITY |-> p.metric,
             RTA_TABLE |-> IF p.table < OneByte THEN 0 ELSE p.table,
             RTA_MULTIPATH |-> <<>>])

addRoute(seq, p) == sendRouteRequest(seq, p, "RTM_NEWROUTE", {"CREATE", "EXCL"})
replaceRoute(seq, p) == sendRouteRequest(seq, p, "RTM_NEWROUTE", {"CREATE", "REPLACE"})
removeRoute(seq, p) == sendRouteRequest(seq, p, "RTM_DELROUTE", {})
=============================================================================
