------------------------------ MODULE SotConfig ------------------------------
(***************************************************************************)
(* The JSON files of srmd and sra and what is read from them: the Source   *)
(* of Truth (two copies of sot_config.cpp), the daemon's and the client's  *)
(* configuration (config.cpp) and the list of switches; the answers srmd   *)
(* gives from its SOT, and sra's table of them (vrf_table.cpp).            *)
(*                                                                         *)
(* A JSON value is [t, v]: "str", "int", "bool", "arr" (a sequence of      *)
(* values) or "obj" (a sequence of <<key, value>>, keys distinct).  A file *)
(* is a JSON value, or [t |-> "none"] when it cannot be read or parsed.    *)
(***************************************************************************)
EXTENDS Integers, Sequences, FiniteSets, SequencesExt

CONSTANTS WORD,         \* 2^32, the size of uint32_t and int
          Ipv4s,        \* strings that inet_pton takes for an IPv4 address
          Cidr          \* strings that are one, a slash and a number -> [addr, len]

ASSUME SotAssumption == WORD \in Nat \ {0} /\ WORD % 2 = 0

OneByte == 256
MaxPort == 65535

Ok(v) == [ok |-> TRUE, val |-> v]
Err(e) == [ok |-> FALSE, err |-> e]

-----------------------------------------------------------------------------
(* Fields of an object.  Each reader below comes in two parts: what it      *)
(* takes (the first error ends the whole load) and what it then reads.      *)

if_contains(o, k) == \E i \in DOMAIN o : o[i][1] = k
Field(o, k) == o[CHOOSE i \in DOMAIN o : o[i][1] = k][2]
Has(o, k, t) == if_contains(o, k) /\ Field(o, k).t = t

\* sot_config.cpp: a field is required, or optional with "" for a wrong type too.
StringOk(o, k) == Has(o, k, "str")
getString(o, k) == Field(o, k).v
getStringOpt(o, k) == IF Has(o, k, "str") THEN Field(o, k).v ELSE ""

\* Cut to 32 bits.
UintOk(o, k) == Has(o, k, "int") /\ Field(o, k).v >= 0
getUint(o, k) == Field(o, k).v % WORD

\* A member that may be absent but is then of type t.
OptionalOk(o, k, t, Takes(_)) ==
  if_contains(o, k) => Field(o, k).t = t /\ Takes(Field(o, k).v)
Optional(o, k, default, Reads(_)) == IF if_contains(o, k) THEN Reads(Field(o, k).v) ELSE default

\* The members of an object, each of which must be an object.
MembersOk(o, Takes(_)) == \A i \in DOMAIN o : o[i][2].t = "obj" /\ Takes(o[i][2].v)
Members(o, Reads(_, _)) == [i \in DOMAIN o |-> Reads(o[i][1], o[i][2].v)]

-----------------------------------------------------------------------------
(* The Source of Truth.                                                     *)

PrefixOk(o) == StringOk(o, "prefix") /\ UintOk(o, "weight")
parsePrefix(o) == [prefix |-> getString(o, "prefix"), weight |-> getUint(o, "weight")]

InterfaceOk(o) ==
  /\ StringOk(o, "type") /\ StringOk(o, "local_address") /\ UintOk(o, "weight")
  /\ OptionalOk(o, "prefixes", "arr",
       LAMBDA ps : \A i \in DOMAIN ps : ps[i].t = "obj" /\ PrefixOk(ps[i].v))
parseInterface(name, o) ==
  [name |-> name, type |-> getString(o, "type"), local_address |-> getString(o, "local_address"),
   nexthop |-> getStringOpt(o, "nexthop"), weight |-> getUint(o, "weight"),
   prefixes |-> Optional(o, "prefixes", <<>>,
                  LAMBDA ps : [i \in DOMAIN ps |-> parsePrefix(ps[i].v)])]

\* parseVrfIpv4 and parseVrfIpv6: the interfaces of one family.
FamilyOk(o) == OptionalOk(o, "interfaces", "obj", LAMBDA is : MembersOk(is, InterfaceOk))
parseFamily(o) == Optional(o, "interfaces", <<>>, LAMBDA is : Members(is, parseInterface))

\* sra's copy of the code has no IPv6: six says whether it is read.
VrfOk(o, six) == \A family \in {"ipv4"} \cup (IF six THEN {"ipv6"} ELSE {}) :
                   OptionalOk(o, family, "obj", FamilyOk)
parseVrf(name, o, six) ==
  [name |-> name, ipv4 |-> Optional(o, "ipv4", <<>>, parseFamily),
   ipv6 |-> IF six THEN Optional(o, "ipv6", <<>>, parseFamily) ELSE <<>>]

NodeOk(o, six) ==
  /\ StringOk(o, "hostname")
  /\ OptionalOk(o, "loopbacks", "obj", LAMBDA l : TRUE)
  /\ OptionalOk(o, "vrfs", "obj", LAMBDA vs : MembersOk(vs, LAMBDA v : VrfOk(v, six)))
parseNode(ip, o, six) ==
  [management_ip |-> ip, hostname |-> getString(o, "hostname"),
   loopbacks |-> Optional(o, "loopbacks", [ipv4 |-> "", ipv6 |-> ""],
                   LAMBDA l : [ipv4 |-> getStringOpt(l, "ipv4"), ipv6 |-> getStringOpt(l, "ipv6")]),
   vrfs |-> Optional(o, "vrfs", <<>>,
              LAMBDA vs : Members(vs, LAMBDA name, v : parseVrf(name, v, six)))]

SotOk(file, six) ==
  /\ file.t = "obj" /\ if_contains(file.v, "nodes_by_loopback")
  /\ OptionalOk(file.v, "nodes_by_loopback", "obj",
       LAMBDA ns : MembersOk(ns, LAMBDA n : NodeOk(n, six)))
loadSotConfig(file, six) ==
  IF ~SotOk(file, six) THEN Err("not a Source of Truth")
  ELSE Ok(Members(Field(file.v, "nodes_by_loopback").v, LAMBDA ip, n : parseNode(ip, n, six)))

\* The first element P holds of, or what stands for nullptr.
Found(s, P(_)) ==
  LET hits == SelectSeq(s, P) IN IF hits = <<>> THEN Err("not found") ELSE Ok(Head(hits))

findByManagementIp(nodes, ip) == Found(nodes, LAMBDA n : n.management_ip = ip)
findVrf(node, name) == Found(node.vrfs, LAMBDA v : v.name = name)

-----------------------------------------------------------------------------
(* What srmd answers from its SOT.  An answer that is not OK carries no     *)
(* data.                                                                    *)

RequestLoopback(nodes, ip) ==
  LET node == findByManagementIp(nodes, ip)
  IN  IF ~node.ok THEN Err("PERMISSION_DENIED") ELSE Ok(node.val.loopbacks.ipv4)

GetLoopbacks(nodes, ip, loopback) ==
  LET node == findByManagementIp(nodes, ip)
      ipv4 == node.val.loopbacks.ipv4 = loopback
      vrf == findVrf(node.val, "default")
  IN  CASE ~node.ok -> Err("PERMISSION_DENIED")
        [] node.ok /\ ~ipv4 /\ node.val.loopbacks.ipv6 # loopback -> Err("NOT_FOUND")
        [] OTHER -> IF ~vrf.ok THEN Err("NO_VRF")
                    ELSE Ok(IF ipv4 THEN vrf.val.ipv4 ELSE vrf.val.ipv6)

VrfRoutesOf(vrf) ==
  [i \in DOMAIN vrf.ipv4 |->
     [vrf_name |-> vrf.name, interface_name |-> vrf.ipv4[i].name,
      interface_type |-> vrf.ipv4[i].type, nexthop |-> vrf.ipv4[i].nexthop,
      prefixes |-> vrf.ipv4[i].prefixes]]

\* Only the VRF the loopback belongs to is looked at.
GetAllRoutes_DefaultVrf(nodes, ip) ==
  LET node == findByManagementIp(nodes, ip)
  IN  IF ~node.ok THEN Err("NOT_FOUND")
      ELSE LET vrf == findVrf(node.val, "default")
           IN  Ok(IF vrf.ok THEN VrfRoutesOf(vrf.val) ELSE <<>>)

GetAllRoutes(nodes, ip) ==
  LET node == findByManagementIp(nodes, ip)
  IN  IF ~node.ok THEN Err("NOT_FOUND")
      ELSE Ok(FlattenSeq([i \in DOMAIN node.val.vrfs |-> VrfRoutesOf(node.val.vrfs[i])]))

-----------------------------------------------------------------------------
(* What sra makes of it.                                                    *)

\* pushNodeRoutes: the AddRoute calls for a node.
Pushes(node) ==
  FlattenSeq([v \in DOMAIN node.vrfs |->
    FlattenSeq([i \in DOMAIN node.vrfs[v].ipv4 |->
      LET iface == node.vrfs[v].ipv4[i]
      IN  [p \in DOMAIN iface.prefixes |->
             [dest |-> iface.prefixes[p].prefix, gateway |-> iface.nexthop,
              iface |-> iface.name, metric |-> iface.prefixes[p].weight]]])])

\* VrfTable: load() with its index, findByNexthop().
load(routes) ==
  [routes |-> routes,
   byNexthop |-> [g \in {routes[i].nexthop : i \in DOMAIN routes} \ {""} |->
                    SelectSeq([i \in DOMAIN routes |-> i], LAMBDA i : routes[i].nexthop = g)]]
hasNexthop(table, gateway) == gateway \in DOMAIN table.byNexthop
findByNexthop(table, gateway) ==
  IF ~hasNexthop(table, gateway) THEN <<>>
  ELSE [i \in DOMAIN table.byNexthop[gateway] |-> table.routes[table.byNexthop[gateway][i]]]

\* The requests of "run" and "vrf-route-add": NNI interfaces whose nexthop is
\* an address, and their prefixes that are CIDRs; the mask is cut to a byte.
VrfsRequestsOf(routes) ==
  LET nni == SelectSeq(routes, LAMBDA r : r.interface_type = "nni" /\ r.nexthop \in Ipv4s)
      Binary(p) == [addr |-> Cidr[p.prefix].addr, mask |-> Cidr[p.prefix].len % OneByte]
  IN  [i \in DOMAIN nni |->
         LET cidrs == SelectSeq(nni[i].prefixes, LAMBDA p : p.prefix \in DOMAIN Cidr)
         IN  [vrf |-> nni[i].vrf_name, nexthop |-> nni[i].nexthop,
              prefixes |-> [k \in DOMAIN cidrs |-> Binary(cidrs[k])]]]

-----------------------------------------------------------------------------
(* config.cpp: every field has a default, and a wrong type is an error.     *)

DefaultOk(o, k, t) == if_contains(o, k) => Field(o, k).t = t
Default(o, k, default) == IF if_contains(o, k) THEN Field(o, k).v ELSE default

\* static_cast<int>.
AsInt(v) == ((v + WORD \div 2) % WORD) - WORD \div 2
getInt(o, k, default) == AsInt(Default(o, k, default))

PortOk(o, k) == DefaultOk(o, k, "int") /\ getInt(o, k, 50051) \in 1 .. MaxPort

DaemonOk(o) == \A k \in {"pid_file", "log_file", "log_level", "working_dir"} : DefaultOk(o, k, "str")
ListenOk(o) ==
  /\ PortOk(o, "listen_port") /\ DefaultOk(o, "tls_enabled", "bool")
  /\ \A k \in {"listen_host", "tls_cert", "tls_key"} : DefaultOk(o, k, "str")
ClientOk(o) ==
  /\ PortOk(o, "port") /\ DefaultOk(o, "timeout", "int") /\ DefaultOk(o, "tls_enabled", "bool")
  /\ DefaultOk(o, "host", "str") /\ DefaultOk(o, "ca_cert", "str")

loadServerConfig(file) ==
  IF /\ file.t = "obj"
     /\ OptionalOk(file.v, "daemon", "obj", DaemonOk) /\ OptionalOk(file.v, "server", "obj", ListenOk)
  THEN Ok([port |-> Optional(file.v, "server", 50051, LAMBDA o : getInt(o, "listen_port", 50051))])
  ELSE Err("configuration")

loadClientConfig(file) ==
  IF /\ file.t = "obj"
     /\ OptionalOk(file.v, "server", "obj", ClientOk) /\ DefaultOk(file.v, "loopback", "str")
  THEN Ok([port |-> Optional(file.v, "server", 50051, LAMBDA o : getInt(o, "port", 50051)),
           timeout |-> Optional(file.v, "server", 10, LAMBDA o : getInt(o, "timeout", 10)),
           loopback |-> Default(file.v, "loopback", "")])
  ELSE Err("configuration")

-----------------------------------------------------------------------------
(* switch_config.cpp.                                                       *)

EntryOk(o) ==
  /\ \A k \in {"ipv4", "login", "password"} : Has(o, k, "str")
  /\ Has(o, "grpc_port", "int") /\ Field(o, "grpc_port").v \in 1 .. MaxPort
parseEntry(o) == [ipv4 |-> Field(o, "ipv4").v, port |-> Field(o, "grpc_port").v]

loadSwitchConfig(file) ==
  LET switches == Field(file.v, "switches").v
  IN  IF /\ file.t = "obj" /\ Has(file.v, "switches", "arr") /\ switches # <<>>
         /\ \A i \in DOMAIN switches : switches[i].t = "obj" /\ EntryOk(switches[i].v)
      THEN Ok([i \in DOMAIN switches |-> parseEntry(switches[i].v)])
      ELSE Err("switches")
=============================================================================
