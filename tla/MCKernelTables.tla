---------------------------- MODULE MCKernelTables ----------------------------
(* Small tables of each kind for KernelTables. *)
EXTENDS KernelTables

MCIfNames == <<"eth0", "eth1">>
MCAddrFamily == [a \in {"d1", "d2", "g1", "g2"} |-> "inet"]

Hop(g, i) == [gw |-> g, oif |-> i]
Route(d, len, metric, tbl, hops) ==
  [family |-> "inet", dst |-> d, len |-> len, type |-> "unicast", protocol |-> "static",
   scope |-> IF hops[1].gw = "" THEN "link" ELSE "universe", metric |-> metric, table |-> tbl,
   hops |-> hops]
Neigh(f, i, dst, state, mac) == [family |-> f, ifindex |-> i, dst |-> dst, state |-> state, mac |-> mac]
Nexthop(id, g, i, group) == [id |-> id, family |-> "inet", gateway |-> g, oif |-> i, group |-> group]
Link(i, name, up) == [what |-> "link", index |-> i, name |-> name, up |-> up]
Addr(i, local, peer) == [what |-> "addr", index |-> i, local |-> local, peer |-> peer, len |-> 24]

MCSlots ==
  [route |-> << {Route("d1", 32, 0, 254, <<Hop("g1", 1)>>), Route("d1", 32, 0, 254, <<Hop("g2", 2)>>),
                 Route("d1", 32, 0, 254, <<Hop("g1", 1), Hop("g2", 2)>>)},
                {Route("d1", 32, 7, 254, <<Hop("g1", 1)>>)},
                {Route("d2", 32, 0, 1000, <<Hop("", 2)>>)},
                {Route("d2", 24, 0, 254, <<Hop("g1", 1)>>)} >>,
   request |-> << {Route("d1", 32, 0, 254, <<Hop("g1", 1)>>), Route("d1", 32, 0, 254, <<Hop("g2", 2)>>)},
                  {Route("d1", 32, 7, 254, <<Hop("g1", 1)>>)},
                  {Route("d2", 32, 0, 1000, <<Hop("", 2)>>)},
                  {Route("d2", 32, 0, 1000 % 256, <<Hop("", 2)>>)} >>,
   neigh |-> << {Neigh("inet", 1, "d1", "stale", "m1"), Neigh("inet", 1, "d1", "reachable", "m2")},
                {Neigh("inet6", 1, "d1", "stale", "m1")},
                {Neigh("bridge", 1, "", "permanent", "m1")},
                {Neigh("bridge", 1, "", "permanent", "m2")} >>,
   nexthop |-> << {Nexthop(1, "g1", 1, <<>>), Nexthop(1, "", 0, <<2, 3>>)},
                  {Nexthop(2, "g2", 2, <<>>)},
                  {Nexthop(3, "g1", 2, <<>>)} >>,
   link |-> << {Link(1, "eth0", TRUE), Link(1, "eth0", FALSE)}, {Link(2, "eth1", TRUE)},
               {Addr(1, "d1", "d1")}, {Addr(2, "d2", "g2")}, {Addr(2, "", "g1")} >>]

Some(s) == CHOOSE x \in s : TRUE
Filled(k, slots) == [i \in DOMAIN MCSlots[k] |-> IF i \in slots THEN {Some(MCSlots[k][i])} ELSE {}]
\* All slots, or none, or the first of them.
MCInitial == [k \in DOMAIN MCSlots |-> {Filled(k, DOMAIN MCSlots[k]), Filled(k, {}), Filled(k, {1})}]

Params(d, len, g, i, metric, tbl) ==
  [destination |-> [addr |-> d, len |-> len], gateway |-> g, interfaceName |-> i,
   metric |-> metric, protocol |-> "static", type |-> "unicast", table |-> tbl,
   family |-> "inet", scope |-> "universe"]
MCRequests ==
  {[do |-> "add", p |-> Params("d1", NoLen, "g1", "eth0", 0, 254)],
   [do |-> "replace", p |-> Params("d1", 32, "g1", "eth0", 7, 254)],
   [do |-> "add", p |-> Params("d2", 32, "", "eth1", 0, 1000)],
   [do |-> "remove", p |-> Params("d2", 32, "", "eth1", 0, 1000)],
   [do |-> "remove", p |-> Params("d1", 32, "g1", "", 0, 254)],
   [do |-> "add", p |-> Params("d2", 33, "g1", "eth0", 0, 254)],
   [do |-> "add", p |-> Params("d2", 24, "g9", "eth0", 0, 254)]}
=============================================================================
