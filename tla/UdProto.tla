------------------------------- MODULE UdProto -------------------------------
(***************************************************************************)
(* Framing of unix_domain/lib/ud_proto.cpp: byte stuffing, CRC-16, packet  *)
(* header, and the search for a frame in a stream.                         *)
(*                                                                         *)
(* A byte is a number below Base, which is 256 in the code; a smaller Base *)
(* brings the limits of the 8 and 16 bit fields within reach of small      *)
(* inputs.  Offsets count from 0 as in the code, sequences from 1.         *)
(***************************************************************************)
EXTENDS Integers, Sequences, SequencesExt

CONSTANTS BITS,         \* bits of a byte
          POLY,         \* reflected CRC polynomial
          FRAME_DELIM, ESCAPE_BYTE, ESC_DELIM, ESC_ESCAPE

Base == 2 ^ BITS
Word == Base * Base
Byte == 0 .. Base - 1

ASSUME ProtoAssumption ==
    /\ BITS \in Nat \ {0} /\ Base \in Nat
    /\ {FRAME_DELIM, ESCAPE_BYTE, ESC_DELIM, ESC_ESCAPE} \subseteq Byte
    /\ FRAME_DELIM \notin {ESCAPE_BYTE, ESC_DELIM, ESC_ESCAPE}
    /\ ESC_DELIM # ESC_ESCAPE
    /\ POLY \in 0 .. Word - 1

HEADER_SIZE == 10
CRC_SIZE == 2
MIN_PAYLOAD == HEADER_SIZE + CRC_SIZE

(* std::expected *)
Ok(v) == [ok |-> TRUE, val |-> v]
Err(e) == [ok |-> FALSE, err |-> e]
AndThen(r, F(_)) == IF r.ok THEN F(r.val) ELSE r

-----------------------------------------------------------------------------
(* Numbers.  The writers keep the low 16 or 32 bits of what they are given. *)

write_be16(v) == <<(v \div Base) % Base, v % Base>>
write_be32(v) == write_be16(v \div Word) \o write_be16(v)
read_be16(buf, offset) == buf[offset + 1] * Base + buf[offset + 2]
read_be32(buf, offset) == read_be16(buf, offset) * Word + read_be16(buf, offset + 2)

(* buf[from .. to) with C++ offsets *)
Slice(buf, from, to) == SubSeq(buf, from + 1, to)

-----------------------------------------------------------------------------
(* crc16: the polynomial division, one byte at a time through a table *)

Bit(x, i) == (x \div 2 ^ i) % 2
Xor(x, y) ==
    FoldLeft(LAMBDA sum, i : sum + 2 ^ (i - 1) * ((Bit(x, i - 1) + Bit(y, i - 1)) % 2),
             0, [i \in 1 .. 2 * BITS |-> i])

CrcBit(crc) == IF crc % 2 = 1 THEN Xor(crc \div 2, POLY) ELSE crc \div 2

CrcTable ==
    [crc \in 0 .. Word - 1 |->
        FoldLeft(LAMBDA c, i : CrcBit(c), crc, [i \in 1 .. BITS |-> i])]

XorTable == [crc \in 0 .. Word - 1 |-> [b \in Byte |-> Xor(crc, b)]]

(* A checksum is a uint16_t. *)
ASSUME CrcAssumption ==
    \A crc \in 0 .. Word - 1 :
        /\ CrcTable[crc] \in 0 .. Word - 1
        /\ \A b \in Byte : XorTable[crc][b] \in 0 .. Word - 1

crc16(data) ==
    LET crc[i \in 0 .. Len(data)] ==
            IF i = 0 THEN 0 ELSE CrcTable[XorTable[crc[i - 1]][data[i]]]
    IN  crc[Len(data)]

-----------------------------------------------------------------------------
(* Byte stuffing *)

Stuffed(b) ==
    CASE b = FRAME_DELIM -> <<ESCAPE_BYTE, ESC_DELIM>>
      [] b = ESCAPE_BYTE -> <<ESCAPE_BYTE, ESC_ESCAPE>>
      [] OTHER -> <<b>>

ConcatMap(Op(_), seq) == FlattenSeq([i \in DOMAIN seq |-> Op(seq[i])])

stuff(raw) == ConcatMap(Stuffed, raw)

DestuffStep(st, b) ==
    LET Put(x) == [out |-> Append(st.out, x), escaped |-> FALSE, bad |-> FALSE]
    IN  CASE st.bad -> st
          [] ~st.bad /\ st.escaped /\ b = ESC_DELIM -> Put(FRAME_DELIM)
          [] ~st.bad /\ st.escaped /\ b = ESC_ESCAPE -> Put(ESCAPE_BYTE)
          [] ~st.bad /\ st.escaped /\ b \notin {ESC_DELIM, ESC_ESCAPE} -> [st EXCEPT !.bad = TRUE]
          [] ~st.bad /\ ~st.escaped /\ b = ESCAPE_BYTE -> [st EXCEPT !.escaped = TRUE]
          [] ~st.bad /\ ~st.escaped /\ b # ESCAPE_BYTE -> Put(b)

destuff(stuffed) ==
    LET st[i \in 0 .. Len(stuffed)] ==
            IF i = 0 THEN [out |-> <<>>, escaped |-> FALSE, bad |-> FALSE]
            ELSE DestuffStep(st[i - 1], stuffed[i])
        end == st[Len(stuffed)]
    IN  IF end.bad \/ end.escaped THEN Err("InvalidFrame") ELSE Ok(end.out)

-----------------------------------------------------------------------------
(* Packets: [pkt_num, total_pkts, ctrl, data].  A length of 0 asks for the *)
(* length to be computed, which is what every caller in src/ does.         *)

build_request_payload(length, pkt_num, total_pkts, ctrl, data) ==
    LET body == write_be32(length) \o write_be16(pkt_num) \o write_be16(total_pkts)
                \o write_be16(ctrl) \o data
    IN  body \o write_be16(crc16(body))

frame(raw) == <<FRAME_DELIM>> \o stuff(raw) \o <<FRAME_DELIM>>

LengthField(length, data) ==
    IF length # 0 THEN length ELSE HEADER_SIZE + Len(data) + CRC_SIZE

encode_packet(pkt) ==
    frame(build_request_payload(LengthField(pkt.length, pkt.data), pkt.pkt_num,
                                pkt.total_pkts, pkt.ctrl, pkt.data))

(* A Response is a packet whose data are one status byte. *)
encode_response(rsp) ==
    encode_packet([length |-> rsp.length, pkt_num |-> rsp.pkt_num, ctrl |-> rsp.ctrl,
                   total_pkts |-> rsp.total_pkts, data |-> <<rsp.status>>])

extract_payload(frm) ==
    IF Len(frm) < 2 \/ Head(frm) # FRAME_DELIM \/ Last(frm) # FRAME_DELIM
    THEN Err("InvalidFrame")
    ELSE AndThen(destuff(Slice(frm, 1, Len(frm) - 1)),
           LAMBDA raw :
             CASE Len(raw) < MIN_PAYLOAD -> Err("BadLength")
               [] read_be16(raw, Len(raw) - CRC_SIZE)
                    # crc16(Slice(raw, 0, Len(raw) - CRC_SIZE)) -> Err("CrcMismatch")
               [] read_be32(raw, 0) # Len(raw) -> Err("BadLength")
               [] OTHER -> Ok(raw))

PacketOf(raw) ==
    [length |-> read_be32(raw, 0), pkt_num |-> read_be16(raw, 4),
     total_pkts |-> read_be16(raw, 6), ctrl |-> read_be16(raw, 8),
     data |-> Slice(raw, HEADER_SIZE, Len(raw) - CRC_SIZE)]

decode_packet(frm) == AndThen(extract_payload(frm), LAMBDA raw : Ok(PacketOf(raw)))

decode_response(frm) ==
    AndThen(extract_payload(frm),
      LAMBDA raw :
        IF Len(raw) - MIN_PAYLOAD # 1 THEN Err("BadLength")
        ELSE LET pkt == PacketOf(raw)
             IN  Ok([length |-> pkt.length, pkt_num |-> pkt.pkt_num, ctrl |-> pkt.ctrl,
                     total_pkts |-> pkt.total_pkts, status |-> pkt.data[1]]))

(* The first two delimiters of the stream and what lies between them *)
find_frame(stream) ==
    LET Delims == {i \in DOMAIN stream : stream[i] = FRAME_DELIM}
        start == CHOOSE i \in Delims : \A j \in Delims : i <= j
        close == CHOOSE i \in Delims \ {start} : \A j \in Delims \ {start} : i <= j
    IN  IF \E i, j \in Delims : i # j
        THEN Ok(SubSeq(stream, start, close))
        ELSE Err("IncompleteFrame")
=============================================================================
