------------------------------ MODULE RouteProto ------------------------------
(***************************************************************************)
(* Messages and exchange blocks of unix_domain/lib/route_proto.cpp.  An    *)
(* exchange block holds the encoded commands between a header with two     *)
(* 16-bit lengths and a checksum.                                          *)
(***************************************************************************)
EXTENDS UdProto

PING == 1
PONG == 2
DATA == 3
DATA_ACK == 4
ERROR == 5

MsgTypes == {PING, PONG, DATA, DATA_ACK, ERROR}

(* The enumeration's underlying type is uint8_t. *)
ASSUME MessageAssumption == MsgTypes \subseteq Byte

FLAG_NONE == 0
MSG_HEADER_SIZE == 4
EXCHANGE_MIN_SIZE == 6

make_message(type, id, payload) ==
    [msg_type |-> type, flags |-> FLAG_NONE, msg_id |-> id, payload |-> payload]

make_data(id, payload) == make_message(DATA, id, payload)
make_data_ack(id, ok) == make_message(DATA_ACK, id, <<IF ok THEN 0 ELSE 1>>)
make_error(id, text) == make_message(ERROR, id, text)

encode_message(msg) ==
    <<msg.msg_type, msg.flags>> \o write_be16(msg.msg_id) \o msg.payload

decode_message(raw) ==
    CASE Len(raw) < MSG_HEADER_SIZE -> Err("InvalidMessage")
      [] raw[1] \notin MsgTypes -> Err("UnknownType")
      [] OTHER -> Ok([msg_type |-> raw[1], flags |-> raw[2], msg_id |-> read_be16(raw, 2),
                      payload |-> Slice(raw, MSG_HEADER_SIZE, Len(raw))])

-----------------------------------------------------------------------------
(* Both lengths are cut to 16 bits, the block itself is not. *)
encode_exchange(commands) ==
    LET head == write_be16(Len(commands)) \o write_be16(EXCHANGE_MIN_SIZE + Len(commands))
                \o commands
    IN  head \o write_be16(crc16(head))

ExchangeCommands(raw) == Slice(raw, 4, Len(raw) - 2)

(* Trusts the lengths of the header. *)
decode_exchange_NoLength(raw) ==
    IF Len(raw) < EXCHANGE_MIN_SIZE THEN Err("InvalidData")
    ELSE IF read_be16(raw, Len(raw) - 2) # crc16(Slice(raw, 0, Len(raw) - 2))
         THEN Err("CrcMismatch")
         ELSE Ok(Slice(raw, 4, 4 + read_be16(raw, 0)))

decode_exchange(raw) ==
    CASE Len(raw) < EXCHANGE_MIN_SIZE -> Err("InvalidData")
      [] read_be16(raw, 2) # Len(raw) -> Err("LengthMismatch")
      [] read_be16(raw, Len(raw) - 2) # crc16(Slice(raw, 0, Len(raw) - 2)) -> Err("CrcMismatch")
      [] read_be16(raw, 0) # Len(raw) - EXCHANGE_MIN_SIZE -> Err("CountMismatch")
      [] OTHER -> Ok(ExchangeCommands(raw))
=============================================================================
