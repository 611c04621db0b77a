------------------------------- MODULE CmdProto -------------------------------
(***************************************************************************)
(* Commands of unix_domain/lib/cmd_proto.cpp: the header, the TLV fields   *)
(* of the older commands, the binary ROUTE_ADD payloads and the replies.   *)
(* Names and addresses are byte sequences of the code's fixed sizes, which *)
(* are parameters; TLV interface names have any length.                    *)
(***************************************************************************)
EXTENDS RouteProto

CONSTANTS ADDR_SIZE,        \* bytes of an IPv4 address
          MAX_MASK,         \* longest prefix, 32
          IFACE_NAME_SIZE, VRFS_NAME_SIZE

ASSUME CmdAssumption ==
    /\ {ADDR_SIZE, IFACE_NAME_SIZE, VRFS_NAME_SIZE} \subseteq Nat \ {0}
    /\ MAX_MASK \in 0 .. Base - 1

ROUTE_ADD == 1
ROUTE_DEL == 2
ROUTE_LIST == 3
CmdIds == {ROUTE_ADD, ROUTE_DEL, ROUTE_LIST}

DST_ADDR == 1
PREFIX_LEN == 2
GATEWAY == 3
IF_NAME == 4
METRIC == 5

SINGLE_ROUTE == 1
INTERFACE_ROUTE == 2

CMD_HEADER_SIZE == 3
FIELD_HEADER_SIZE == 2
PREFIX_IPV4_WIRE_SIZE == ADDR_SIZE + 1
ROUTE_ENTRY_MIN_SIZE == 2 * ADDR_SIZE + 4
INTERFACE_FIXED_SIZE == IFACE_NAME_SIZE + ADDR_SIZE + 6
VRFS_REQUEST_FIXED_SIZE == VRFS_NAME_SIZE + INTERFACE_FIXED_SIZE
VRFS_ANSWER_WIRE_SIZE == VRFS_NAME_SIZE + 1

ZeroAddr == [i \in 1 .. ADDR_SIZE |-> 0]

(* A decoding loop.  read[pos] is what begins at offset pos of the buffer: *)
(* an item and its size, or an error, which ends the loop.                 *)
Item(item, size) == Ok([item |-> item, size |-> size])
ReadOne(total, read, st) ==
    LET r == read[st.pos]
        ended == st.error # "" \/ st.pos = total
    IN  CASE ended -> st
          [] ~ended /\ r.ok -> [pos |-> st.pos + r.val.size,
                                items |-> Append(st.items, r.val.item), error |-> ""]
          [] ~ended /\ ~r.ok -> [st EXCEPT !.error = r.err]
ReadAll(total, read) ==
    LET st[n \in 0 .. total] == IF n = 0 THEN [pos |-> 0, items |-> <<>>, error |-> ""]
                                         ELSE ReadOne(total, read, st[n - 1])
    IN  st[total]

(* All items, or the first error *)
Complete(list) == IF list.error = "" THEN Ok(list.items) ELSE Err(list.error)
Rest(raw, pos) == Slice(raw, pos, Len(raw))

-----------------------------------------------------------------------------
(* Commands: [cmd_id, fields, raw_payload].  A payload takes precedence    *)
(* over fields.  Field and command lengths are cut to 8 and 16 bits.       *)

field(id, data) == [field_id |-> id, data |-> data]
EncodeField(f) == <<f.field_id, Len(f.data) % Base>> \o f.data

encode_command(cmd) ==
    LET body == IF cmd.raw_payload # <<>> THEN cmd.raw_payload
                                          ELSE ConcatMap(EncodeField, cmd.fields)
    IN  <<cmd.cmd_id>> \o write_be16(Len(body)) \o body

FieldAt(body) ==
    IF Len(body) < FIELD_HEADER_SIZE \/ Len(body) - FIELD_HEADER_SIZE < body[2]
    THEN Err("Truncated")
    ELSE Item(field(body[1], Slice(body, FIELD_HEADER_SIZE, FIELD_HEADER_SIZE + body[2])),
              FIELD_HEADER_SIZE + body[2])

(* Best effort: fields are read until one does not fit. *)
DecodeFields(body) ==
    ReadAll(Len(body), [pos \in 0 .. Len(body) - 1 |-> FieldAt(Rest(body, pos))]).items

decode_command(raw) ==
    CASE Len(raw) < CMD_HEADER_SIZE -> Err("InvalidCommand")
      [] raw[1] \notin CmdIds -> Err("UnknownCommand")
      [] Len(raw) < CMD_HEADER_SIZE + read_be16(raw, 1) -> Err("InvalidCommand")
      [] OTHER ->
           LET body == Slice(raw, CMD_HEADER_SIZE, CMD_HEADER_SIZE + read_be16(raw, 1))
           IN  Ok([cmd_id |-> raw[1], fields |-> DecodeFields(body), raw_payload |-> body])

CommandAt(raw) ==
    AndThen(decode_command(raw), LAMBDA cmd : Item(cmd, CMD_HEADER_SIZE + read_be16(raw, 1)))
decode_commands(raw) ==
    Complete(ReadAll(Len(raw), [pos \in 0 .. Len(raw) - 1 |-> CommandAt(Rest(raw, pos))]))

-----------------------------------------------------------------------------
(* TLV requests: parameters to fields and back *)

make_command(id, fields, payload) ==
    [cmd_id |-> id, fields |-> fields, raw_payload |-> payload]

FieldIf(cond, f) == IF cond THEN <<f>> ELSE <<>>

make_route_add(p) ==
    make_command(ROUTE_ADD,
        << field(DST_ADDR, p.dst_addr), field(PREFIX_LEN, <<p.prefix_len>>),
           field(GATEWAY, p.gateway), field(IF_NAME, p.if_name) >>
        \o FieldIf(p.metric # 0, field(METRIC, write_be16(p.metric))), <<>>)

make_route_del(p) ==
    make_command(ROUTE_DEL,
        << field(DST_ADDR, p.dst_addr), field(PREFIX_LEN, <<p.prefix_len>>) >>
        \o FieldIf(p.gateway # ZeroAddr, field(GATEWAY, p.gateway)), <<>>)

make_route_list == make_command(ROUTE_LIST, <<>>, <<>>)

HasField(cmd, id) == \E i \in DOMAIN cmd.fields : cmd.fields[i].field_id = id
find_field(cmd, id) ==
    cmd.fields[CHOOSE i \in DOMAIN cmd.fields :
        /\ cmd.fields[i].field_id = id
        /\ \A j \in 1 .. i - 1 : cmd.fields[j].field_id # id].data

(* What is wrong with a field that must be there and pass Check; "" if nothing *)
Fault(cmd, id, Check(_)) ==
    CASE ~HasField(cmd, id) -> "MissingField"
      [] ~Check(find_field(cmd, id)) -> "InvalidField"
      [] OTHER -> ""

IsAddr(data) == Len(data) = ADDR_SIZE
(* The longest prefix is out of range as well *)
IsMask_Below(data) == Len(data) = 1 /\ data[1] < MAX_MASK
IsMask(data) == Len(data) = 1 /\ data[1] <= MAX_MASK
IsName(data) == data # <<>>
IsMetric(data) == Len(data) = 2

(* The first fault is the error; without one there are parameters. *)
Parsed(faults, params) ==
    LET wrong == {i \in DOMAIN faults : faults[i] # ""}
    IN  IF wrong = {} THEN Ok(params) ELSE Err(faults[Min(wrong)])

OptionalFault(cmd, id, Check(_)) == IF HasField(cmd, id) THEN Fault(cmd, id, Check) ELSE ""

parse_route_add(cmd) ==
    Parsed(<< Fault(cmd, DST_ADDR, IsAddr), Fault(cmd, PREFIX_LEN, IsMask),
              Fault(cmd, GATEWAY, IsAddr), Fault(cmd, IF_NAME, IsName),
              OptionalFault(cmd, METRIC, IsMetric) >>,
           [dst_addr |-> find_field(cmd, DST_ADDR),
            prefix_len |-> find_field(cmd, PREFIX_LEN)[1],
            gateway |-> find_field(cmd, GATEWAY),
            if_name |-> find_field(cmd, IF_NAME),
            metric |-> IF HasField(cmd, METRIC) THEN read_be16(find_field(cmd, METRIC), 0) ELSE 0])

parse_route_del(cmd) ==
    Parsed(<< Fault(cmd, DST_ADDR, IsAddr), Fault(cmd, PREFIX_LEN, IsMask),
              OptionalFault(cmd, GATEWAY, IsAddr) >>,
           [dst_addr |-> find_field(cmd, DST_ADDR),
            prefix_len |-> find_field(cmd, PREFIX_LEN)[1],
            gateway |-> IF HasField(cmd, GATEWAY) THEN find_field(cmd, GATEWAY) ELSE ZeroAddr])

-----------------------------------------------------------------------------
(* The route list: entries one after the other, the metric cut to 16 bits *)

EncodeEntry(r) ==
    r.dst_addr \o <<r.prefix_len>> \o r.gateway \o write_be16(r.metric)
    \o <<Len(r.if_name) % Base>> \o r.if_name
encode_route_list_response(routes) == ConcatMap(EncodeEntry, routes)

EntryAt(raw) ==
    LET name == ROUTE_ENTRY_MIN_SIZE
        end == name + raw[name]
    IN  IF Len(raw) < ROUTE_ENTRY_MIN_SIZE \/ Len(raw) < end THEN Err("InvalidCommand")
        ELSE Item([dst_addr |-> Slice(raw, 0, ADDR_SIZE),
                   prefix_len |-> raw[ADDR_SIZE + 1],
                   gateway |-> Slice(raw, ADDR_SIZE + 1, 2 * ADDR_SIZE + 1),
                   metric |-> read_be16(raw, 2 * ADDR_SIZE + 1),
                   if_name |-> Slice(raw, name, end)], end)
decode_route_list_response(raw) ==
    Complete(ReadAll(Len(raw), [pos \in 0 .. Len(raw) - 1 |-> EntryAt(Rest(raw, pos))]))

-----------------------------------------------------------------------------
(* Binary ROUTE_ADD payloads.  Prefixes are [addr, mask_len]. *)

EncodePrefix(p) == p.addr \o <<p.mask_len>>
PrefixesValid(prefixes) ==
    /\ Len(prefixes) < Word
    /\ \A i \in DOMAIN prefixes : prefixes[i].mask_len <= MAX_MASK

(* The part that interfaces and VRFs share, from the interface name on *)
EncodeInterface(r) ==
    r.iface_name \o r.nexthop_addr_ipv4 \o write_be32(r.nexthop_id_ipv4)
    \o write_be16(Len(r.prefixes)) \o ConcatMap(EncodePrefix, r.prefixes)

InterfaceEnd(raw) ==
    INTERFACE_FIXED_SIZE + read_be16(raw, INTERFACE_FIXED_SIZE - 2) * PREFIX_IPV4_WIRE_SIZE

DecodePrefixes(raw) ==
    [i \in 1 .. read_be16(raw, INTERFACE_FIXED_SIZE - 2) |->
        LET pos == INTERFACE_FIXED_SIZE + (i - 1) * PREFIX_IPV4_WIRE_SIZE
        IN  [addr |-> Slice(raw, pos, pos + ADDR_SIZE), mask_len |-> raw[pos + ADDR_SIZE + 1]]]

DecodeInterface(raw) ==
    CASE Len(raw) < INTERFACE_FIXED_SIZE -> Err("InvalidCommand")
      [] Len(raw) >= INTERFACE_FIXED_SIZE /\ Len(raw) < InterfaceEnd(raw) -> Err("InvalidCommand")
      [] OTHER ->
           LET ps == DecodePrefixes(raw)
           IN  IF \E i \in DOMAIN ps : ps[i].mask_len > MAX_MASK THEN Err("InvalidField")
               ELSE Ok([iface_name |-> Slice(raw, 0, IFACE_NAME_SIZE),
                        nexthop_addr_ipv4 |->
                            Slice(raw, IFACE_NAME_SIZE, IFACE_NAME_SIZE + ADDR_SIZE),
                        nexthop_id_ipv4 |-> read_be32(raw, IFACE_NAME_SIZE + ADDR_SIZE),
                        prefixes |-> ps])

encode_route_add_payload(interfaces) ==
    IF Len(interfaces) < Word
       /\ \A i \in DOMAIN interfaces : PrefixesValid(interfaces[i].prefixes)
    THEN Ok(<<INTERFACE_ROUTE>> \o write_be16(Len(interfaces))
            \o ConcatMap(EncodeInterface, interfaces))
    ELSE Err("InvalidField")

(* Exactly as many interfaces as announced; what follows them is ignored. *)
DecodeInterfaces(raw, count) ==
    LET NextOne(st) ==
            AndThen(DecodeInterface(Rest(raw, st.pos)), LAMBDA i :
                Ok([pos |-> st.pos + InterfaceEnd(Rest(raw, st.pos)), items |-> Append(st.items, i)]))
        done[n \in 0 .. count] ==
            IF n = 0 THEN Ok([pos |-> 0, items |-> <<>>]) ELSE AndThen(done[n - 1], NextOne)
    IN  AndThen(done[count], LAMBDA st : Ok(st.items))

decode_route_add_payload(raw) ==
    IF Len(raw) < 3 \/ raw[1] # INTERFACE_ROUTE THEN Err("InvalidCommand")
    ELSE DecodeInterfaces(Rest(raw, 3), read_be16(raw, 1))

EncodeVrf(v) == v.vrfs_name \o EncodeInterface(v)

encode_vrfs_route_request(vrfs) ==
    IF \A i \in DOMAIN vrfs : PrefixesValid(vrfs[i].prefixes)
    THEN Ok(<<SINGLE_ROUTE>> \o ConcatMap(EncodeVrf, vrfs))
    ELSE Err("InvalidField")

VrfAt(raw) ==
    LET rest == Rest(raw, VRFS_NAME_SIZE)
    IN  IF Len(raw) < VRFS_REQUEST_FIXED_SIZE THEN Err("InvalidCommand")
        ELSE AndThen(DecodeInterface(rest), LAMBDA i :
                 Item([vrfs_name |-> Slice(raw, 0, VRFS_NAME_SIZE), iface_name |-> i.iface_name,
                       nexthop_addr_ipv4 |-> i.nexthop_addr_ipv4,
                       nexthop_id_ipv4 |-> i.nexthop_id_ipv4, prefixes |-> i.prefixes],
                      VRFS_NAME_SIZE + InterfaceEnd(rest)))
DecodeVrfs(raw) ==
    Complete(ReadAll(Len(raw), [pos \in 0 .. Len(raw) - 1 |-> VrfAt(Rest(raw, pos))]))

decode_vrfs_route_request(raw) ==
    IF raw = <<>> \/ raw[1] # SINGLE_ROUTE THEN Err("InvalidCommand")
    ELSE DecodeVrfs(Tail(raw))

(* An encoding that failed leaves the payload empty: the command is sent without one. *)
PayloadOf(r) == IF r.ok THEN r.val ELSE <<>>
make_route_add_binary(interfaces) ==
    make_command(ROUTE_ADD, <<>>, PayloadOf(encode_route_add_payload(interfaces)))
make_route_add_vrfs(vrfs) ==
    make_command(ROUTE_ADD, <<>>, PayloadOf(encode_vrfs_route_request(vrfs)))

-----------------------------------------------------------------------------
(* Replies.  One bit per prefix, least significant bit first; decoding     *)
(* cannot tell the padding of the last byte from prefixes that failed.     *)

StatusBit(status, i) == IF i \in DOMAIN status /\ status[i] THEN 1 ELSE 0
(* Most significant bit first *)
encode_route_add_binary_response_Msb(resp) ==
    <<resp.status_code>> \o
    [k \in 1 .. (Len(resp.prefix_status) + BITS - 1) \div BITS |->
        FoldLeft(LAMBDA sum, b : 2 * sum + StatusBit(resp.prefix_status, (k - 1) * BITS + b),
                 0, [b \in 1 .. BITS |-> b])]

encode_route_add_binary_response(resp) ==
    <<resp.status_code>> \o
    [k \in 1 .. (Len(resp.prefix_status) + BITS - 1) \div BITS |->
        FoldLeft(LAMBDA sum, b : sum + 2 ^ (b - 1) *
                     StatusBit(resp.prefix_status, (k - 1) * BITS + b),
                 0, [b \in 1 .. BITS |-> b])]

decode_route_add_binary_response(raw) ==
    IF raw = <<>> THEN Err("InvalidCommand")
    ELSE Ok([status_code |-> Head(raw),
             prefix_status |-> [i \in 1 .. (Len(raw) - 1) * BITS |->
                 Bit(raw[(i - 1) \div BITS + 2], (i - 1) % BITS) = 1]])

EncodeAnswer(a) == a.vrfs_name \o <<IF a.prefix_status THEN 1 ELSE 0>>
encode_vrfs_route_response(resp) ==
    <<resp.status_code>> \o ConcatMap(EncodeAnswer, resp.answers)

AnswerAt(raw) ==
    IF Len(raw) < VRFS_ANSWER_WIRE_SIZE THEN Err("InvalidCommand")
    ELSE Item([vrfs_name |-> Slice(raw, 0, VRFS_NAME_SIZE),
               prefix_status |-> raw[VRFS_ANSWER_WIRE_SIZE] % 2 # 0], VRFS_ANSWER_WIRE_SIZE)
DecodeAnswers(raw) ==
    Complete(ReadAll(Len(raw), [pos \in 0 .. Len(raw) - 1 |-> AnswerAt(Rest(raw, pos))]))

decode_vrfs_route_response(raw) ==
    IF raw = <<>> THEN Err("InvalidCommand")
    ELSE AndThen(DecodeAnswers(Tail(raw)),
                 LAMBDA as : Ok([status_code |-> Head(raw), answers |-> as]))
=============================================================================
