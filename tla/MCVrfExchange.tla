---------------------------- MODULE MCVrfExchange ----------------------------
(* Bytes of three bits: 16-bit fields become 6-bit ones and wrap at 64. *)
EXTENDS VrfExchange

Prefix(a, len) == [addr |-> <<a>>, mask_len |-> len]
Vrf(name, ifn, gw, prefixes) ==
    [vrfs_name |-> <<name>>, iface_name |-> <<ifn, 0>>, nexthop_addr_ipv4 |-> <<gw>>,
     nexthop_id_ipv4 |-> 70 + gw, prefixes |-> prefixes]

(* MCLong: the payload is 64 bytes longer than its first VRF alone; the   *)
(* second of MCPayloads is more than 64 bytes long.                        *)
(* MCTwo can succeed; gateway 6 of MCSplit's first VRF is not on its link. *)
MCTwo == <<Vrf(7, 1, 4, <<Prefix(2, 2), Prefix(3, 3)>>), Vrf(0, 2, 7, <<Prefix(5, 2)>>)>>
MCSplit == <<Vrf(6, 1, 6, <<Prefix(2, 2)>>), Vrf(5, 2, 6, <<Prefix(4, 1)>>)>>
MCBadMask == <<Vrf(1, 1, 4, <<Prefix(2, 4)>>)>>
MCLong == <<Vrf(1, 1, 4, <<Prefix(2, 2)>>)>>
          \o [i \in 1 .. 6 |-> Vrf(i, 2, 6, IF i = 3 THEN <<Prefix(3, 3), Prefix(1, 3)>> ELSE <<>>)]
MCRequests == {MCTwo, MCSplit, MCBadMask, MCLong}

MCToolAdds ==
    { [dst_addr |-> <<2>>, prefix_len |-> 2, gateway |-> <<6>>, if_name |-> <<2>>, metric |-> 0],
      [dst_addr |-> <<3>>, prefix_len |-> 3, gateway |-> <<0>>, if_name |-> <<1>>, metric |-> 9],
      [dst_addr |-> <<2>>, prefix_len |-> 5, gateway |-> <<6>>, if_name |-> <<2>>, metric |-> 0],
      [dst_addr |-> <<1>>, prefix_len |-> 1, gateway |-> <<6>>, if_name |-> <<>>, metric |-> 0] }
MCToolDels ==
    { [dst_addr |-> <<2>>, prefix_len |-> 2, gateway |-> <<0>>],
      [dst_addr |-> <<3>>, prefix_len |-> 3, gateway |-> <<4>>] }
MCPayloads ==
    { <<[iface_name |-> <<1, 0>>, nexthop_addr_ipv4 |-> <<5>>, nexthop_id_ipv4 |-> 3,
         prefixes |-> <<Prefix(2, 2), Prefix(2, 2), Prefix(7, 3)>>],
        [iface_name |-> <<2, 0>>, nexthop_addr_ipv4 |-> <<6>>, nexthop_id_ipv4 |-> 600,
         prefixes |-> <<Prefix(0, 0)>>]>>,
      [i \in 1 .. 8 |-> [iface_name |-> <<1, 0>>, nexthop_addr_ipv4 |-> <<5>>,
                         nexthop_id_ipv4 |-> 3, prefixes |-> <<>>]] }
MCReplaces ==
    { RouteAddParams(<<2>>, 2, <<6>>, TRUE, <<2>>, 70, "UNIVERSE", Main),
      RouteAddParams(<<4>>, 1, <<4>>, TRUE, <<1>>, 0, "UNIVERSE", Base + 3) }

(* Descriptions that are too short to be read, and that read as FAIL with  *)
(* the answer that VRF 1 is installed                                      *)
MCErrorTexts == {<<3>>, <<2, 1, 1, 3>>}

MCKernel ==
    [fib |-> {[dst |-> <<0>>, prefix_len |-> 0, gateway |-> <<4>>, oif |-> 1, metric |-> 3,
               scope |-> "UNIVERSE", table |-> Main],
              [dst |-> <<6>>, prefix_len |-> 2, gateway |-> None, oif |-> 2, metric |-> 70,
               scope |-> "LINK", table |-> Main],
              [dst |-> <<5>>, prefix_len |-> 3, gateway |-> None, oif |-> 1, metric |-> 0,
               scope |-> "HOST", table |-> Main + 1]},
     links |-> (<<1>> :> 1) @@ (<<2>> :> 2),
     addrs |-> {[oif |-> 1, addr |-> <<5>>, peer |-> <<5>>, prefix_len |-> 2],
                [oif |-> 2, addr |-> <<7>>, peer |-> <<6>>, prefix_len |-> 2]}]
=============================================================================
