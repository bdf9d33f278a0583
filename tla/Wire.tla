-------------------------------- MODULE Wire --------------------------------
(***************************************************************************)
(* The wire format of src/src/protocol.cpp, protocol.hpp and framing.cpp.  *)
(*                                                                         *)
(* A message is a sequence of cells.  A byte is the cell <<b>> with        *)
(* b \in 0 .. Base - 1 (Base is 256 in the code); a fixed-size opaque      *)
(* field (a key, a nonce, a signature, a 64-bit id) is one cell, a longer  *)
(* tuple.  Lengths keep their width: the length of a name is one byte, the *)
(* length of the data four.  A decoder gives a record whose field ok says  *)
(* whether it accepted the message.                                        *)
(***************************************************************************)
EXTENDS Integers, Sequences

CONSTANTS Base,      \* values of a byte: 256
          MaxFrame   \* kMaxFrameBytes: 2^24, the cube of 256

\* 16u * 1024 * 1024 is not more than 256 * 256 * 256: a length whose first
\* byte is not 0 exceeds every frame.  A message that holds a name and no data
\* fits a frame, and a version number fits a byte.
ASSUME WireAssumption ==
  /\ Base \in Nat /\ Base >= 3
  /\ MaxFrame \in Nat /\ MaxFrame <= Base * Base * Base /\ MaxFrame >= Base + 9

Bytes == {<<b>> : b \in 0 .. Base - 1}

\* uint8_t(v)
Byte(v) == <<v % Base>>
Bad == [ok |-> FALSE]

\* Without the types of module Session (Rekey, RekeyAck, Ping) and two that
\* nobody sends.
FrameType == {"Hello", "HelloAck", "Request", "Response", "Error", "StreamChunk"}

---------------------------------------------------------------------------
(* Integers and names.                                                     *)

put_u32(v) == << Byte(v \div (Base * Base * Base)), Byte(v \div (Base * Base)),
                 Byte(v \div Base), Byte(v) >>

get_u32(in, off) ==
  ((in[off + 1][1] * Base + in[off + 2][1]) * Base + in[off + 3][1]) * Base
    + in[off + 4][1]

\* One byte of length, modulo Base, and then the whole name.
put_str8(s) == << Byte(Len(s)) >> \o s

get_str8(in, off) ==
  IF off + 1 > Len(in) THEN Bad
  ELSE LET len == in[off + 1][1] IN
       IF off + 1 + len > Len(in) THEN Bad
       ELSE [ok |-> TRUE, off |-> off + 1 + len,
             s |-> SubSeq(in, off + 2, off + 1 + len)]

\* The data at the end of a message: its length, then the bytes.
put_data(d) == put_u32(Len(d)) \o d

\* Mutant: data that is shorter than its length is taken as far as it goes.
GetDataClipped(in, off) ==
  IF off + 4 > Len(in) THEN Bad
  ELSE [ok |-> TRUE,
        data |-> SubSeq(in, off + 5, IF off + 4 + get_u32(in, off) > Len(in) THEN Len(in)
                                     ELSE off + 4 + get_u32(in, off))]

get_data(in, off) ==
  IF off + 4 > Len(in) \/ off + 4 + get_u32(in, off) > Len(in) THEN Bad
  ELSE [ok |-> TRUE, data |-> SubSeq(in, off + 5, off + 4 + get_u32(in, off))]

---------------------------------------------------------------------------
(* Application payloads.                                                   *)

encode_request(r) ==
  << r.id, Byte(IF r.oneway THEN 1 ELSE 0) >> \o put_str8(r.endpoint) \o put_data(r.data)

decode_request(in) ==
  IF Len(in) < 3 THEN Bad
  ELSE LET e == get_str8(in, 2) IN
       IF ~e.ok THEN Bad
       ELSE LET d == get_data(in, e.off) IN
            IF ~d.ok THEN Bad
            ELSE [ok |-> TRUE, id |-> in[1], oneway |-> in[2][1] # 0,
                  endpoint |-> e.s, data |-> d.data]

encode_response(r) == << r.id, Byte(r.status) >> \o put_data(r.data)

decode_response(in) ==
  IF Len(in) < 6 THEN Bad
  ELSE LET d == get_data(in, 2) IN
       IF ~d.ok THEN Bad
       ELSE [ok |-> TRUE, id |-> in[1], status |-> in[2][1], data |-> d.data]

encode_stream_chunk(c) ==
  << c.id >> \o put_u32(c.seq) \o << Byte(IF c.is_last THEN 1 ELSE 0) >>
    \o put_str8(c.endpoint) \o put_data(c.data)

decode_stream_chunk(in) ==
  IF Len(in) < 7 THEN Bad
  ELSE LET e == get_str8(in, 6) IN
       IF ~e.ok THEN Bad
       ELSE LET d == get_data(in, e.off) IN
            IF ~d.ok THEN Bad
            ELSE [ok |-> TRUE, id |-> in[1], seq |-> get_u32(in, 1),
                  is_last |-> in[6][1] # 0, endpoint |-> e.s, data |-> d.data]

encode_error(e) == << Byte(e.reason \div Base), Byte(e.reason) >> \o e.message

decode_error(in) ==
  IF Len(in) < 2 THEN Bad
  ELSE [ok |-> TRUE, reason |-> in[1][1] * Base + in[2][1], message |-> SubSeq(in, 3, Len(in))]

---------------------------------------------------------------------------
(* Handshake payloads.  The extension after the version 1 fields is there  *)
(* if the sender speaks version 2, and is read if there is room for it.    *)

Extension(h) == IF h.max >= 2 THEN << Byte(h.max), h.sig2 >> ELSE << >>

ReadExtension(in, off) ==
  IF Len(in) >= off + 2 THEN [ext |-> TRUE, max |-> in[off + 1][1], sig2 |-> in[off + 2]]
                        ELSE [ext |-> FALSE, max |-> 1, sig2 |-> << >>]

encode_hello(h) ==
  << Byte(1), h.id, h.eph, h.nonce >> \o put_str8(h.service) \o << h.sig >> \o Extension(h)

decode_hello(in) ==
  IF Len(in) < 5 THEN Bad
  ELSE LET s == get_str8(in, 4) IN
       IF ~s.ok THEN Bad
       ELSE IF s.off + 1 > Len(in) THEN Bad
       ELSE LET x == ReadExtension(in, s.off + 1) IN
            [ok |-> TRUE, version |-> in[1][1], id |-> in[2], eph |-> in[3],
             nonce |-> in[4], service |-> s.s, sig |-> in[s.off + 1],
             ext |-> x.ext, max |-> x.max, sig2 |-> x.sig2]

encode_hello_ack(h) ==
  << Byte(1), h.id, h.eph, h.snonce, h.cnonce, Byte(h.status), h.sig >> \o Extension(h)

decode_hello_ack(in) ==
  IF Len(in) < 7 THEN Bad
  ELSE LET x == ReadExtension(in, 7) IN
       [ok |-> TRUE, id |-> in[2], eph |-> in[3], snonce |-> in[4], cnonce |-> in[5],
        status |-> in[6][1], sig |-> in[7], ext |-> x.ext, max |-> x.max, sig2 |-> x.sig2]

\* What the signatures cover.
hello_signed_bytes(eph, nonce, service) == << eph, nonce >> \o service
hello_ack_signed_bytes(eph, snonce, cnonce) == << eph, snonce, cnonce >>
hello_signed_bytes_v2(max, id, eph, nonce, service) ==
  << <<"EPX-v2-hello", 0>>, Byte(max), id, eph, nonce >> \o service
hello_ack_signed_bytes_v2(smax, negotiated, status, sid, cid, eph, snonce, cnonce) ==
  << <<"EPX-v2-ack", 0>>, Byte(smax), Byte(negotiated), Byte(status),
     sid, cid, eph, snonce, cnonce >>

\* Mutant: a side takes its own maximum for the version.
NegotiateOurs(ours, theirs) == IF ours >= 1 THEN ours ELSE 0

\* kProtocolVersionMin is 1; 0 means that the ranges do not meet.
negotiate_version(ours, theirs) ==
  LET v == IF ours < theirs THEN ours ELSE theirs IN IF v >= 1 THEN v ELSE 0

---------------------------------------------------------------------------
(* Framing: type, counter and, after a version 2 handshake, epoch.  The    *)
(* writer sends any length, the reader refuses one beyond the cap.         *)

header_len(with_epoch) == IF with_epoch THEN 3 ELSE 2

write_frame(type, body, with_epoch) ==
  [type |-> type, with_epoch |-> with_epoch, body |-> body,
   total_len |-> header_len(with_epoch) + Len(body)]

read_frame_accepts(f, with_epoch) ==
  f.total_len >= header_len(with_epoch) /\ f.total_len <= MaxFrame
=============================================================================
