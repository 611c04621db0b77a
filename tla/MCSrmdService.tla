---------------------------- MODULE MCSrmdService ----------------------------
(* Files and commands for SrmdService. *)
EXTENDS SrmdService

Str(s) == [t |-> "str", v |-> s]
Num(i) == [t |-> "int", v |-> i]
Obj(members) == [t |-> "obj", v |-> members]
Arr(values) == [t |-> "arr", v |-> values]
Unreadable == [t |-> "none"]

Prefix(prefix, weight) == Obj(<<<<"prefix", Str(prefix)>>, <<"weight", Num(weight)>>>>)
Iface(type, nexthop, prefixes) ==
  Obj(<<<<"type", Str(type)>>, <<"local_address", Str("l")>>, <<"weight", Num(1)>>>>
      \o (IF nexthop = "" THEN <<>> ELSE <<<<"nexthop", Str(nexthop)>>>>)
      \o (IF prefixes = <<>> THEN <<>> ELSE <<<<"prefixes", Arr(prefixes)>>>>))
Vrf(ifaces) == Obj(<<<<"ipv4", Obj(<<<<"interfaces", Obj(ifaces)>>>>)>>>>)
Node(lo, vrfs) ==
  Obj(<<<<"hostname", Str("h")>>, <<"loopbacks", Obj(<<<<"ipv4", Str(lo)>>>>)>>, <<"vrfs", Obj(vrfs)>>>>)
Sot(nodes) == Obj(<<<<"nodes_by_loopback", Obj(nodes)>>>>)

E0 == Iface("nni", "g1", <<Prefix("p1/24", 10), Prefix("p2/16", WORD - 1)>>)
E1 == Iface("uni", "g2", <<Prefix("p3/32", 0)>>)
E2 == Iface("nni", "g1", <<Prefix("noslash", 7)>>)
E3 == Iface("nni", "", <<>>)
E4 == Iface("nni", "g1", <<>>)
E5 == Iface("nni", "no address", <<Prefix("p3/32", 1)>>)
Bare == Obj(<<<<"hostname", Str("h")>>>>)

MCDocs ==
  <<Sot(<<<<"n1", Node("lo1", <<<<"default", Vrf(<<<<"e0", E0>>, <<"e3", E3>>>>)>>,
                                <<"red", Vrf(<<<<"e1", E1>>, <<"e2", E4>>>>)>>>>)>>, <<"n2", Bare>>>>),
    Sot(<<<<"n2", Node("lo2", <<<<"default", Vrf(<<<<"e1", E1>>>>)>>>>)>>,
          <<"n1", Node("lo3", <<<<"red", Vrf(<<<<"e2", E2>>, <<"e5", E5>>>>)>>>>)>>>>),
    \* An IPv6 part srmd does not take and sra does not read.
    Sot(<<<<"n1", Node("lo1", <<<<"default", Obj(<<<<"ipv6", Str("none")>>>>)>>>>)>>>>),
    Sot(<<<<"n1", Node("lo1", <<<<"default", Vrf(<<<<"e0", Iface("nni", "g1", <<Prefix("p1/24", -1)>>)>>>>)>>>>)>>>>),
    Obj(<<>>)>>

MCConfs ==
  <<Obj(<<>>), Obj(<<<<"server", Obj(<<<<"listen_port", Num(50051)>>>>)>>>>),
    Obj(<<<<"server", Obj(<<<<"listen_port", Num(WORD)>>>>)>>>>), Unreadable,
    Obj(<<<<"server", Obj(<<<<"listen_port", Num(50051 + WORD)>>>>)>>>>)>>
MCClientConfs ==
  <<Obj(<<>>), Obj(<<<<"server", Obj(<<<<"timeout", Num(0)>>>>)>>>>),
    Obj(<<<<"server", Obj(<<<<"port", Str("50051")>>>>)>>>>)>>

Switch(ip, port) ==
  Obj(<<<<"ipv4", Str(ip)>>, <<"grpc_port", Num(port)>>, <<"login", Str("u")>>, <<"password", Str("w")>>>>)
MCSwitchDocs ==
  <<Obj(<<<<"switches", Arr(<<Switch("n1", 50051), Switch("n2", 50051), Switch("n3", 50051)>>)>>>>),
    Obj(<<<<"switches", Arr(<<Switch("n1", 50051)>>)>>>>),
    Obj(<<<<"switches", Arr(<<Switch("n1", 0)>>)>>>>)>>

Here == [form |-> "ipv4", addr |-> "n1"]
Cmd(name, arg, conf, switches, peer) ==
  [name |-> name, arg |-> arg, conf |-> conf, switches |-> switches, node |-> "n1", peer |-> peer]
MCCommands ==
  <<Cmd("sync", "", 2, 0, Here), Cmd("sync", "", 1, 1, Here), Cmd("sync", "", 1, 3, Here),
    Cmd("test", "", 1, 2, Here),
    Cmd("run", "", 3, 0, Here), Cmd("run", "", 2, 0, Here),
    Cmd("vrf-route-add", "", 1, 0, [Here EXCEPT !.form = "ipv6"]),
    Cmd("vrf-route-add", "", 1, 0, [Here EXCEPT !.form = "unix"]),
    Cmd("SetLoopback", "lo9", 1, 0, Here), Cmd("RemoveRoute", 101, 1, 0, Here)>>

MCIpv4s == {"g1", "g2"}
MCCidr == [p \in {"p1/24", "p2/16", "p3/32"} |->
             CASE p = "p1/24" -> [addr |-> "p1", len |-> 24] [] p = "p2/16" -> [addr |-> "p2", len |-> 16]
               [] p = "p3/32" -> [addr |-> "p3", len |-> 32]]
MCStartDisks == {<<1, 1>>, <<3, 3>>}
MCEditedDisks == {<<2, 2>>, <<2, 5>>}
=============================================================================
