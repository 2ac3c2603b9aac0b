------------------------------- MODULE Packet -------------------------------
(***************************************************************************)
(* Packets: the headers of pkt.c, the packet encoder of ppe.c, and the     *)
(* receiving side of conn.c that removes header protection, restores the   *)
(* packet number, opens the payload and walks over its frames.             *)
(*                                                                         *)
(* Buffers are sequences of bytes.  The ciphers are external: Seal and     *)
(* Open are an invertible transformation with a tag, Mask a function of    *)
(* the sample.                                                             *)
(***************************************************************************)
EXTENDS Wire, Bitwise

CONSTANTS
    Overhead,       \* aead.max_overhead
    MaxPlainv,      \* NGTCP2_PPE_MAX_PLAINV
    DgramSize,      \* NGTCP2_MAX_UDP_PAYLOAD_SIZE, to which Initials are padded
    Cap,            \* bytes in a datagram
    Frames,         \* the frames the sender may put first in a packet
    MoreFrames,     \* the frames it may add after that
    Questions,      \* single calls of the codec
    Starts,         \* bound: number of the last packet when the machine starts
    Gaps,           \* by how much packet numbers may jump ahead
    MaxRounds,      \* bound: datagrams and bursts
    MaxFrames       \* bound: frames in a packet

VARIABLES
    ppe,        \* the packet being written: NoPpe, or the encoder's state
    cur,        \* its header and the frames the encoder accepted
    dg,         \* the datagram so far
    sent,       \* what was put into the datagram, packet by packet
    tx,         \* last packet number sent
    acked,      \* the largest one acknowledged (rtb largest_acked_tx_pkt_num)
    rx,         \* the largest one received (acktr max_pkt_num)
    asrt,       \* the assertions of the encoder held
    rounds,     \* datagrams and bursts so far
    ask         \* NoAsk, or the call being made

pktVars == <<ppe, cur, dg, sent, tx, acked, rx, asrt, rounds, ask>>

SampleLen == 16         \* NGTCP2_HP_SAMPLELEN
LengthLen == 4          \* NGTCP2_PKT_LENGTHLEN
MinPktExpandLen == 22   \* NGTCP2_MIN_PKT_EXPANDLEN

----------------------------------------------------------------------------
(* Headers.                                                                *)

\* ngtcp2_pkt_get_type_long
GetTypeLong(ver, x) ==
    LET k == (x \div 16) % 4
    IN CASE ver = V2 -> <<"retry", "initial", "0rtt", "handshake">>[k + 1]
         [] ver = V1 -> <<"initial", "0rtt", "handshake", "retry">>[k + 1]
         [] OTHER -> "none"

\* ngtcp2_pkt_versioned_type: other versions use the numbers of version 1
VersionedType(ver, type) ==
    LET v1 == [initial |-> 0, handshake |-> 2, retry |-> 3] @@ ("0rtt" :> 1)
        v2 == [initial |-> 1, handshake |-> 3, retry |-> 0] @@ ("0rtt" :> 2)
    IN IF ver = V2 THEN v2[type] ELSE v1[type]

CidBytes(cid) == <<Len(cid)>> \o cid

\* ngtcp2_pkt_encode_hd_long; the Length field is filled in by ngtcp2_ppe_final
EncodeHdLong(hd) ==
    <<192 + VersionedType(hd.ver, hd.type) * 16 + hd.w - 1>> \o PutUint(hd.ver, 4)
      \o CidBytes(hd.dcid) \o CidBytes(hd.scid)
      \o (IF hd.type = "initial" THEN Bytes(hd.tok) ELSE <<>>)
      \o (IF hd.type = "retry" THEN <<>> ELSE PutUvarint30(0) \o PutPktNum(hd.pn, hd.w))

\* ngtcp2_pkt_encode_hd_short
EncodeHdShort(hd) ==
    <<64 + (IF hd.kp THEN 4 ELSE 0) + hd.w - 1>> \o hd.dcid \o PutPktNum(hd.pn, hd.w)

\* A connection ID of a header
HdCid(c) ==
    LET n == At(c, c.p)
    IN IF c.err THEN c
       ELSE IF ~Inside(c, c.p) \/ n > MaxCidLen \/ Len(c.b) < c.len + n
            THEN [c EXCEPT !.err = TRUE, !.oob = ~Inside(c, c.p)]
       ELSE [c EXCEPT !.len = @ + n, !.p = @ + 1 + n,
                      !.a = Append(@, SubSeq(c.b, c.p + 2, c.p + 1 + n))]

HdTypeLong(ver, x) == IF ver = 0 THEN "vn" ELSE GetTypeLong(ver, x)

HdMinLen(type) == CASE type = "initial" -> 9 [] type \in {"handshake", "0rtt"} -> 8 [] OTHER -> 7

\* The token of an Initial, the Length field
HdToken(c, type) == IF type = "initial" THEN Data(Varint(c)) ELSE [c EXCEPT !.a = Append(@, <<>>)]
HdLength(c, type) == IF type \in {"retry", "vn"} THEN [c EXCEPT !.a = Append(@, 0)] ELSE Varint(c)

HdLongOf(ver, type, c) ==
    IF c.err THEN [err |-> TRUE, oob |-> c.oob, asrt |-> TRUE]
    ELSE [err |-> FALSE, oob |-> c.oob, asrt |-> c.p = c.len, n |-> c.len, type |-> type,
          ver |-> ver, dcid |-> c.a[1], scid |-> c.a[2], tok |-> c.a[3], len |-> c.a[4]]

HdLongTyped(b, ver, type) ==
    IF Len(b) < 5 \/ b[1] < 128 \/ type = "none" THEN [err |-> TRUE, oob |-> FALSE, asrt |-> TRUE]
    ELSE HdLongOf(ver, type, HdLength(HdToken(
             HdCid(HdCid([Cursor(b, HdMinLen(type)) EXCEPT !.p = 5])), type), type))

HdLongVersioned(b, ver) == HdLongTyped(b, ver, HdTypeLong(ver, b[1]))

\* ngtcp2_pkt_decode_hd_long
DecodeHdLong(b) == HdLongVersioned(b, GetUint(SubSeq(b, 2, 5)))

\* ngtcp2_pkt_decode_hd_short
DecodeHdShort(b, dcidlen) ==
    IF Len(b) < 1 + dcidlen \/ b[1] > 127 THEN [err |-> TRUE, oob |-> FALSE, asrt |-> TRUE]
    ELSE [err |-> FALSE, oob |-> FALSE, asrt |-> TRUE, n |-> 1 + dcidlen, type |-> "1rtt",
          ver |-> 0, dcid |-> SubSeq(b, 2, 1 + dcidlen), scid |-> <<>>, tok |-> <<>>, len |-> 0]

\* A connection ID of any length
AnyCid(c) ==
    LET n == At(c, c.p)
    IN IF c.err THEN c
       ELSE IF ~Inside(c, c.p) \/ Len(c.b) < c.len + n
            THEN [c EXCEPT !.err = TRUE, !.oob = ~Inside(c, c.p)]
       ELSE [c EXCEPT !.len = @ + n, !.p = @ + 1 + n,
                      !.a = Append(@, SubSeq(c.b, c.p + 2, c.p + 1 + n))]

VersionCidLong(b, ver, c) ==
    IF \/ c.err
       \/ IsSupported(ver) /\ \E cid \in {c.a[1], c.a[2]} : Len(cid) > MaxCidLen
       \/ ver # 0 /\ ~IsSupported(ver) /\ Len(b) < DgramSize
    THEN [res |-> "invalid", oob |-> c.oob]
    ELSE [res |-> IF ver = 0 \/ IsSupported(ver) THEN "ok" ELSE "vn", oob |-> c.oob,
          ver |-> ver, dcid |-> c.a[1], scid |-> c.a[2]]

\* ngtcp2_pkt_decode_version_cid: what a server routes a datagram by
DecodeVersionCid(b, dcidlen) ==
    IF b[1] > 127
    THEN VersionCidLong(b, GetUint(SubSeq(b, 2, 5)), AnyCid(AnyCid([Cursor(b, 7) EXCEPT !.p = 5])))
    ELSE IF Len(b) < 1 + dcidlen THEN [res |-> "invalid", oob |-> FALSE]
    ELSE [res |-> "ok", oob |-> FALSE, ver |-> 0, dcid |-> SubSeq(b, 2, 1 + dcidlen), scid |-> <<>>]

\* ngtcp2_pkt_verify_reserved_bits
ReservedBitsClear(x) == IF x > 127 THEN (x \div 4) % 4 = 0 ELSE (x \div 8) % 4 = 0

----------------------------------------------------------------------------
(* The ciphers: external.  Mask is the header protection mask of a sample, *)
(* KeyStream the byte the payload cipher adds, Tag its authenticator.      *)

RECURSIVE SumOf(_, _, _)
SumOf(s, i, j) ==
    IF i > j THEN 0 ELSE IF i = j THEN i * s[i]
    ELSE LET m == (i + j) \div 2 IN (SumOf(s, i, m) + SumOf(s, m + 1, j)) % 65536
Total(s) == SumOf(s, 1, Len(s))
KeyStream(pn, i) == (37 * (pn % 65536) + 11 * i + 5) % 256
Tag(aad, pn, plain) ==
    LET t == 3 * Total(aad) + 5 * Total(plain) + 7 * (pn % 65536) + (pn \div 65536)
    IN <<>> \o [i \in 1 .. Overhead |-> (t + 13 * i) % 256]
Seal(aad, pn, plain) ==
    [i \in 1 .. Len(plain) |-> (plain[i] + KeyStream(pn, i)) % 256] \o Tag(aad, pn, plain)
Open(aad, pn, sealed) ==
    LET n == Len(sealed) - Overhead
        plain == <<>> \o [i \in 1 .. n |-> (sealed[i] + 256 - KeyStream(pn, i)) % 256]
    IN IF SubSeq(sealed, n + 1, Len(sealed)) = Tag(aad, pn, plain)
       THEN [ok |-> TRUE, plain |-> plain] ELSE [ok |-> FALSE]
Mask(sample) ==
    LET t == Total(sample) IN <<>> \o [i \in 1 .. 5 |-> (t + 29 * i) % 256]
RetryTag(ver, pseudo) == Tag(<<ver % 256>>, 0, pseudo)

----------------------------------------------------------------------------
(* The packet encoder (ppe.c): control frames are collected in plain, and  *)
(* plainv lists the pieces of the payload, stretches of plain and borrowed *)
(* application buffers, in the order they go out.                          *)

\* ngtcp2_ppe_init: cap bytes are left of a datagram that already has off
PpeInit(cap, off) ==
    [cap |-> cap, off |-> off, hd |-> <<>>, lenOff |-> 0, pnOff |-> 0, w |-> 0, pn |-> 0,
     plain |-> <<>>, flushed |-> 0, plainv |-> <<>>, payloadlen |-> 0]

SampleOffset(p) == p.pnOff + 4
PpePktLen(p) == Len(p.hd) + p.payloadlen

\* ppe_packet_plain_left, ngtcp2_ppe_left
PlainLeft(p) == Larger(0, p.cap - Len(p.hd) - Overhead - p.payloadlen)

\* ppe_add_plainv
AddPlainv(p, piece) ==
    IF piece = <<>> THEN [rv |-> "ok", p |-> p]
    ELSE IF Len(p.plainv) = MaxPlainv THEN [rv |-> "BUF_CONTRACT", p |-> p]
    ELSE [rv |-> "ok", p |-> [p EXCEPT !.plainv = Append(@, piece)]]

\* ppe_flush_control: what was added to plain since the last flush
FlushControl(p) ==
    LET r == AddPlainv(p, SubSeq(p.plain, p.flushed + 1, Len(p.plain)))
    IN IF r.rv # "ok" THEN r ELSE [r EXCEPT !.p.flushed = Len(p.plain)]

\* ngtcp2_ppe_encode_hd, of a header with encoding b
PpeHeaded(p, q) ==
    IF p.cap <= Overhead \/ Len(q.hd) > p.cap - Overhead \/ p.cap < SampleOffset(q) + SampleLen
    THEN [rv |-> "NOBUF", p |-> p] ELSE [rv |-> "ok", p |-> q]

PpeWithHd(p, hd, b) ==
    PpeHeaded(p, [p EXCEPT !.hd = b, !.w = hd.w, !.pn = hd.pn, !.pnOff = Len(b) - hd.w,
                           !.lenOff = IF hd.type # "1rtt" THEN Len(b) - hd.w - LengthLen ELSE 0])

PpeEncodeHd(p, hd) == PpeWithHd(p, hd, IF hd.type # "1rtt" THEN EncodeHdLong(hd) ELSE EncodeHdShort(hd))

BorrowedData(f) == IF f.t = STREAM THEN f.a[3] ELSE f.a[1]

FlushedThen(r, d) == IF r.rv # "ok" THEN r ELSE AddPlainv(r.p, d)

\* The two zero-copy branches of ngtcp2_ppe_encode_frame: hd is everything
\* of the frame but the data d it borrows (ppe_encode_stream_frame_hd,
\* ppe_encode_datagram_frame_hd)
PpeEncodeBorrowed(p, hd, d) ==
    IF Len(d) > PlainLeft(p) \/ Len(hd) > PlainLeft(p) - Len(d) THEN [rv |-> "NOBUF", p |-> p]
    ELSE FlushedThen(FlushControl([p EXCEPT !.plain = @ \o hd, !.payloadlen = @ + Len(hd) + Len(d)]), d)

\* ngtcp2_ppe_encode_frame of a frame with encoding b; borrow: it carries a
\* txbuf
PpeEncode(p, f, b, borrow) ==
    IF PlainLeft(p) = 0 THEN [rv |-> "NOBUF", p |-> p]
    ELSE IF borrow
         THEN PpeEncodeBorrowed(p, SubSeq(b, 1, Len(b) - Len(BorrowedData(f))), BorrowedData(f))
    ELSE IF Len(b) > PlainLeft(p) THEN [rv |-> "NOBUF", p |-> p]
    ELSE [rv |-> "ok", p |-> [p EXCEPT !.plain = @ \o b, !.payloadlen = @ + Len(b)]]

PpeEncodeFrame(p, f, borrow) == PpeEncode(p, f, EncodeFrame(f), borrow)

\* The tail that ngtcp2_ppe_padding_size and ngtcp2_ppe_dgram_padding_size
\* share: len bytes, and at least what the sample needs
Pad(p, len) ==
    LET pktlen == PpePktLen(p) + Overhead
        n == IF pktlen < SampleOffset(p) + SampleLen
             THEN Larger(len, SampleOffset(p) + SampleLen - pktlen) ELSE len
    IN [asrt |-> PlainLeft(p) >= n, len |-> n,
        p |-> [p EXCEPT !.plain = @ \o [i \in 1 .. n |-> 0], !.payloadlen = @ + n]]

\* ngtcp2_ppe_padding_size: up to a packet of n bytes
PpePadding(p, n) ==
    LET pktlen == PpePktLen(p) + Overhead
    IN Pad(p, Larger(0, Smaller(n, pktlen + PlainLeft(p)) - pktlen))

\* ngtcp2_ppe_dgram_padding_size: up to a datagram of n bytes
PpeDgramPadding(p, n) ==
    LET dgramlen == p.off + PpePktLen(p) + Overhead
    IN Pad(p, Larger(0, Smaller(n, dgramlen + PlainLeft(p)) - dgramlen))

XorAt(b, i, m) == [b EXCEPT ![i] = @ ^^ m]

\* The masking of the first byte and of the packet number
Protect(b, pnOff, w, mask) ==
    LET first == XorAt(b, 1, mask[1] % (IF b[1] > 127 THEN 16 ELSE 32))
    IN FoldLeft(LAMBDA x, i : XorAt(x, pnOff + i, mask[i + 1]), first, [i \in 1 .. w |-> i])

\* The header with its Length field
FinalHd(p) ==
    IF p.lenOff = 0 THEN p.hd
    ELSE SubSeq(p.hd, 1, p.lenOff) \o PutUvarint30(p.payloadlen + p.w + Overhead)
           \o SubSeq(p.hd, p.pnOff + 1, Len(p.hd))

ProtectSampled(p, b) ==
    Protect(b, p.pnOff, p.w, Mask(SubSeq(b, SampleOffset(p) + 1, SampleOffset(p) + SampleLen)))

\* ngtcp2_ppe_final: the Length field, the cipher, the header protection
PpeSealed(p, r, hd) ==
    [rv |-> r.rv, pkt |-> ProtectSampled(p, hd \o Seal(hd, p.pn, FlattenSeq(r.p.plainv)))]

PpeFinal(p) == PpeSealed(p, FlushControl(p), FinalHd(p))

----------------------------------------------------------------------------
(* Receiving.                                                              *)

NotRead == [ok |-> FALSE]

FirstByte(x, mask) == x ^^ (mask[1] % (IF x > 127 THEN 16 ELSE 32))

Unprotected(b, pnOff, mask, first) ==
    [ok |-> TRUE, w |-> 1 + (first % 4), b |-> Protect(b, pnOff, 1 + (first % 4), mask),
     kp |-> first < 128 /\ (first \div 4) % 2 = 1]

UnprotectWith(b, pnOff, mask) == Unprotected(b, pnOff, mask, FirstByte(b[1], mask))

\* decrypt_hp: the packet with its header in the clear, and where it ends
DecryptHp(b, pnOff) ==
    IF pnOff + 4 + SampleLen > Len(b) THEN NotRead
    ELSE UnprotectWith(b, pnOff, Mask(SubSeq(b, pnOff + 5, pnOff + 4 + SampleLen)))

\* conn_decrypt_pkt
DecryptPkt(b, hdlen, pn) ==
    IF Len(b) - hdlen < Overhead THEN NotRead
    ELSE Open(SubSeq(b, 1, hdlen), pn, SubSeq(b, hdlen + 1, Len(b)))

RECURSIVE DecodeFrames(_)

\* The frame r was read from the front
FramesFrom(payload, r) ==
    IF r.err \/ r.oob \/ ~r.asrt THEN <<"error">>
    ELSE <<r.fr>> \o DecodeFrames(SubSeq(payload, r.n + 1, Len(payload)))

\* The loops over the payload at the end of conn_recv_handshake_pkt and
\* conn_recv_pkt
DecodeFrames(payload) ==
    IF payload = <<>> THEN <<>>
    ELSE FramesFrom(payload, DecodeFrame(payload))

\* The reading part of conn_recv_pkt: header, protection, number, payload.
\* max is the largest packet number received so far, d the packet with its
\* header in the clear.
ReadOpened(hd, d, pn, open, n) ==
    IF ~open.ok \/ ~ReservedBitsClear(d.b[1]) THEN NotRead
    ELSE [ok |-> TRUE, n |-> n,
          got |-> [type |-> hd.type, ver |-> hd.ver, dcid |-> hd.dcid, scid |-> hd.scid,
                   tok |-> hd.tok, pn |-> pn, kp |-> d.kp, frames |-> DecodeFrames(open.plain)]]

ReadNumbered(hd, d, pn, n) == ReadOpened(hd, d, pn, DecryptPkt(d.b, hd.n + d.w, pn), n)

ReadUnprotected(hd, d, max, n) ==
    IF ~d.ok THEN NotRead
    ELSE ReadNumbered(hd, d, AdjustPktNum(max, GetPktNum(SubSeq(d.b, hd.n + 1, hd.n + d.w)), d.w), n)

ReadHeaded(b, hd, max) ==
    IF hd.err \/ hd.oob \/ ~hd.asrt \/ Len(b) < hd.n + hd.len THEN NotRead
    ELSE IF b[1] > 127
         THEN ReadUnprotected(hd, DecryptHp(SubSeq(b, 1, hd.n + hd.len), hd.n), max, hd.n + hd.len)
    ELSE ReadUnprotected(hd, DecryptHp(b, hd.n), max, Len(b))

ReadPkt(b, dcidlen, max) ==
    ReadHeaded(b, IF b[1] > 127 THEN DecodeHdLong(b) ELSE DecodeHdShort(b, dcidlen), max)

RECURSIVE ReadDgram(_, _, _)

ReadFrom(b, dcidlen, max, r) ==
    IF ~r.ok THEN <<"discarded">>
    ELSE <<r.got>> \o ReadDgram(SubSeq(b, r.n + 1, Len(b)), dcidlen, Larger(max, r.got.pn))

\* conn_read_handshake / conn_recv_cpkt: packet after packet
ReadDgram(b, dcidlen, max) ==
    IF b = <<>> THEN <<>> ELSE ReadFrom(b, dcidlen, max, ReadPkt(b, dcidlen, max))

----------------------------------------------------------------------------
(* Version Negotiation, Retry and Stateless Reset.                         *)

\* ngtcp2_pkt_write_version_negotiation, ngtcp2_pkt_decode_version_negotiation
WriteVersionNegotiation(rand, dcid, scid, sv) ==
    <<192 + (rand % 64)>> \o PutUint(0, 4) \o CidBytes(dcid) \o CidBytes(scid)
      \o FlattenSeq([i \in DOMAIN sv |-> PutUint(sv[i], 4)])
DecodeVersionNegotiation(b) == [i \in 1 .. Len(b) \div 4 |-> GetUint(SubSeq(b, 4 * i - 3, 4 * i))]

\* ngtcp2_pkt_write_stateless_reset2
WriteStatelessReset(room, token, rand) ==
    IF room < 5 + TokenLen \/ Len(rand) < 5 THEN <<>>
    ELSE [SubSeq(rand, 1, Smaller(room - TokenLen, Len(rand))) \o token EXCEPT ![1] = 64 + (@ % 64)]

\* ngtcp2_pkt_decode_stateless_reset
DecodeStatelessReset(b) ==
    IF Len(b) < 5 + TokenLen THEN <<>> ELSE SubSeq(b, Len(b) - TokenLen + 1, Len(b))

\* ngtcp2_pkt_encode_pseudo_retry
EncodePseudoRetry(hd, odcid, token) ==
    LET b == EncodeHdLong(hd)
    IN CidBytes(odcid) \o [b EXCEPT ![1] = (@ \div 16) * 16] \o token

RetryOf(ver, odcid, pseudo) ==
    SubSeq(pseudo, 2 + Len(odcid), Len(pseudo)) \o RetryTag(ver, pseudo)

\* ngtcp2_pkt_write_retry
WriteRetry(ver, dcid, scid, odcid, token) ==
    RetryOf(ver, odcid, EncodePseudoRetry(
        [type |-> "retry", ver |-> ver, dcid |-> dcid, scid |-> scid, w |-> 1], odcid, token))

\* ngtcp2_pkt_decode_retry: token and tag of what follows the header
DecodeRetry(b) ==
    IF Len(b) < 1 + 16 THEN NotRead
    ELSE [token |-> SubSeq(b, 1, Len(b) - 16), tag |-> SubSeq(b, Len(b) - 15, Len(b))]

\* ngtcp2_pkt_verify_retry_tag
VerifyRetryTag(ver, odcid, b, tag) ==
    RetryTag(ver, CidBytes(odcid) \o SubSeq(b, 1, Len(b) - 16)) = tag

----------------------------------------------------------------------------
(* A sender that writes coalesced packets, a network that may lose the     *)
(* datagram, and a receiver that reads it.                                 *)

NoPpe == [cap |-> -1]
NoAsk == [k |-> "none"]
Dcid == <<7, 9>>
Scid == <<5>>

\* ... counts the packets since the last acknowledgement once
SelectPktNumlenOnce(last, largestAcked) ==
    LET n == last + 1 - largestAcked
    IN IF n > 16777215 THEN 4 ELSE IF n > 65535 THEN 3 ELSE IF n > 255 THEN 2 ELSE 1

\* pktns_select_pkt_numlen
SelectPktNumlen(last, largestAcked) ==
    LET n == (last + 1 - largestAcked) * 2 - 1
    IN IF n > 16777215 THEN 4 ELSE IF n > 65535 THEN 3 ELSE IF n > 255 THEN 2 ELSE 1

PacketInit ==
    /\ ppe = NoPpe /\ cur = [frames |-> <<>>] /\ dg = <<>> /\ sent = <<>>
    /\ tx \in Starts /\ acked = tx /\ rx = tx /\ asrt = TRUE /\ rounds = 0 /\ ask = NoAsk

\* ngtcp2_ppe_init and ngtcp2_ppe_encode_hd at the start of a packet.  A
\* short header packet has no length and ends the datagram.
Begin(type, ver, tok, kp) ==
    LET hd == [type |-> type, ver |-> ver, dcid |-> Dcid, scid |-> IF type = "1rtt" THEN <<>> ELSE Scid,
               tok |-> tok, pn |-> tx + 1, w |-> SelectPktNumlen(tx, acked), kp |-> kp]
    IN /\ ask = NoAsk /\ ppe = NoPpe /\ rounds < MaxRounds
       /\ type # "initial" => tok = <<>>
       /\ type = "1rtt" <=> ver = 0
       /\ type # "1rtt" => ~kp
       /\ Len(sent) < 2
       /\ sent # <<>> => sent[1].type # "1rtt" /\ ver \in {0, sent[1].ver} /\ tok = <<>>
       /\ \E r \in {PpeEncodeHd(PpeInit(Cap - Len(dg), Len(dg)), hd)} :
            r.rv = "ok" /\ ppe' = r.p
       /\ cur' = [type |-> type, ver |-> ver, dcid |-> Dcid, scid |-> hd.scid, tok |-> tok,
                  pn |-> tx + 1, kp |-> kp, frames |-> <<>>]
       /\ UNCHANGED <<dg, sent, tx, acked, rx, asrt, rounds, ask>>

\* ngtcp2_ppe_encode_frame: a frame that does not fit leaves no trace
AddFrame(f, borrow) ==
    /\ ppe # NoPpe /\ Len(cur.frames) < MaxFrames
    /\ borrow => f.t \in {STREAM, DATAGRAM_LEN}
    /\ \E r \in {PpeEncodeFrame(ppe, f, borrow)} :
         /\ ppe' = r.p
         /\ cur' = IF r.rv = "ok" THEN [cur EXCEPT !.frames = Append(@, f)] ELSE cur
         /\ asrt' = (asrt /\ r.rv \in {"ok", "NOBUF"})
    /\ UNCHANGED <<dg, sent, tx, acked, rx, rounds, ask>>

\* The end of conn_write_pkt and conn_write_handshake_pkt: padding to the
\* smallest packet or to a full datagram, and ngtcp2_ppe_final
Finish(full) ==
    /\ ppe # NoPpe /\ cur.frames # <<>>
    /\ \E pad \in {IF full THEN PpeDgramPadding(ppe, DgramSize)
                   ELSE PpePadding(ppe, Len(Scid) + MinPktExpandLen)} :
       \E f \in {PpeFinal(pad.p)} :
         /\ dg' = dg \o f.pkt
         /\ sent' = Append(sent, [cur EXCEPT !.frames =
               @ \o (IF pad.len = 0 THEN <<>> ELSE <<[t |-> PADDING, a |-> <<pad.len>>]>>)])
         /\ asrt' = (asrt /\ pad.asrt /\ f.rv = "ok" /\ Len(dg') <= Cap)
    /\ ppe' = NoPpe
    /\ cur' = [frames |-> <<>>]
    /\ tx' = tx + 1
    /\ UNCHANGED <<acked, rx, rounds, ask>>

\* The datagram arrives, and is acknowledged at once or later
Deliver(ack) ==
    /\ ppe = NoPpe /\ dg # <<>>
    /\ rx' = Larger(rx, tx)
    /\ acked' = IF ack THEN rx' ELSE acked
    /\ dg' = <<>> /\ sent' = <<>> /\ rounds' = rounds + 1
    /\ UNCHANGED <<ppe, cur, tx, asrt, ask>>

\* The datagram is lost
Lose ==
    /\ ppe = NoPpe /\ dg # <<>>
    /\ dg' = <<>> /\ sent' = <<>> /\ rounds' = rounds + 1
    /\ UNCHANGED <<ppe, cur, tx, acked, rx, asrt, ask>>

\* n later packets arrive before the datagram
Overtaken(n) ==
    /\ ppe = NoPpe /\ dg # <<>> /\ rounds = MaxRounds - 1
    /\ tx' = tx + n /\ rx' = tx + n /\ rounds' = MaxRounds
    /\ UNCHANGED <<ppe, cur, dg, sent, acked, asrt, ask>>

\* n more packets are sent and lost
Burst(n) ==
    /\ ask = NoAsk /\ ppe = NoPpe /\ dg = <<>> /\ rounds < MaxRounds
    /\ tx' = tx + n /\ rounds' = rounds + 1
    /\ UNCHANGED <<ppe, cur, dg, sent, acked, rx, asrt, ask>>

\* One call of a pure function of the codec, as its own behaviour
Ask(q) ==
    /\ ask' = q
    /\ UNCHANGED <<ppe, cur, dg, sent, tx, acked, rx, asrt, rounds>>

PacketNext ==
    \/ ask = NoAsk /\ rounds = 0 /\ ppe = NoPpe /\ dg = <<>> /\ \E q \in Questions : Ask(q)
    \/ \E type \in {"initial", "0rtt", "handshake", "1rtt"}, ver \in {0, V1, V2},
          tok \in {<<>>, <<1, 2>>}, kp \in BOOLEAN : Begin(type, ver, tok, kp)
    \/ ppe # NoPpe /\ \E f \in IF tx >= 0 THEN {[t |-> PING, a |-> <<>>]}
                ELSE IF cur.frames = <<>> THEN Frames ELSE MoreFrames, borrow \in BOOLEAN : AddFrame(f, borrow)
    \/ \E full \in BOOLEAN : Finish(full)
    \/ \E ack \in BOOLEAN : Deliver(ack)
    \/ Lose
    \/ \E n \in {1, 125} : Overtaken(n)
    \/ \E n \in Gaps : Burst(n)

\* What ngtcp2_ppe_* writes, conn_recv_pkt reads: every packet of the
\* datagram is found, its number restored and its frames are the ones the
\* encoder accepted, in their order; the encoder's assertions hold.
Readable == asrt /\ (ppe = NoPpe => ReadDgram(dg, Len(Dcid), rx) = sent)

\* A frame ends where its own encoding says: whatever follows it, the decoder
\* gives it back and stops at its last byte, and no shorter piece of it is
\* taken for a frame (ngtcp2_pkt_decode_*_frame, ngtcp2_pkt_encode_*_frame).
\* On any bytes, the decoders of frames and headers read inside the payload,
\* end where they counted, and never claim more than there is.
FramesSelfDelimiting ==
    /\ ask.k = "frame" => \A b \in {EncodeFrame(ask.fr)} :
        /\ \A tail \in {<<>>, <<0>>, <<1, 255>>} : \A r \in {DecodeFrame(b \o tail)} :
              ~r.err /\ ~r.oob /\ r.asrt /\ r.n = Len(b) /\ r.fr = ask.fr
        /\ \A i \in 1 .. Len(b) - 1 : DecodeFrame(SubSeq(b, 1, i)).err
    /\ ask.k = "bytes" =>
        /\ \A f \in {DecodeFrame(ask.b)} :
              ~f.oob /\ f.asrt /\ (~f.err => f.n \in 1 .. Len(ask.b))
        /\ \A h \in {DecodeHdLong(<<192 + (ask.b[1] % 64), 0, 0, 0, 1>> \o ask.b)},
              v \in {DecodeVersionCid(<<192, 0, 0, 0, 1>> \o ask.b, Len(Dcid))} :
              /\ ~h.oob /\ h.asrt /\ (~h.err => h.n <= 5 + Len(ask.b))
              /\ ~v.oob /\ (~h.err => v.res = "ok" /\ v.dcid = h.dcid /\ v.scid = h.scid)

StreamFrameLen(id, offset, n) ==
    1 + PutUvarintlen(id) + (IF offset = 0 THEN 0 ELSE PutUvarintlen(offset)) + PutUvarintlen(n) + n

\* ngtcp2_pkt_stream_max_datalen and ngtcp2_pkt_crypto_max_datalen name the
\* largest amount of data whose frame fits in the room, and refuse only when
\* not even an empty frame does.
DatalenBestFit ==
    ask.k = "size" =>
        LET s == StreamMaxDatalen(ask.id, ask.offset, ask.len, ask.left)
            c == CryptoMaxDatalen(ask.offset, ask.len, ask.left)
            CryptoLen(n) == 1 + PutUvarintlen(ask.offset) + PutUvarintlen(n) + n
        IN /\ IF s = Refused THEN StreamFrameLen(ask.id, ask.offset, 0) > ask.left
              ELSE /\ StreamFrameLen(ask.id, ask.offset, s) <= ask.left
                   /\ s < ask.len => StreamFrameLen(ask.id, ask.offset, s + 1) > ask.left
           /\ IF c = Refused THEN CryptoLen(1) > ask.left
              ELSE CryptoLen(c) <= ask.left /\ (c < ask.len => CryptoLen(c + 1) > ask.left)

\* The client accepts a Retry exactly when it was written for the connection
\* ID of its own first Initial, gets the server's token and connection ID
\* from it, and lists the versions and finds the reset token it is sent.
StatelessPacketsRead ==
    ask.k = "stateless" =>
        /\ \A b \in {WriteRetry(ask.ver, Scid, Dcid, ask.odcid, ask.tok)} :
           \A hd \in {DecodeHdLong(b)} : \A r \in {DecodeRetry(SubSeq(b, hd.n + 1, Len(b)))} :
             /\ ~hd.err /\ hd.type = "retry" /\ hd.scid = Dcid /\ r.token = ask.tok
             /\ \A o \in {ask.odcid, <<1>> \o Tail(ask.odcid)} :
                   VerifyRetryTag(ask.ver, o, b, r.tag) <=> o = ask.odcid
        /\ \A b \in {WriteVersionNegotiation(ask.rand, Scid, Dcid, ask.versions)} :
           \A hd \in {DecodeHdLong(b)} :
             /\ ~hd.err /\ hd.type = "vn"
             /\ DecodeVersionNegotiation(SubSeq(b, hd.n + 1, Len(b))) = ask.versions
        /\ \A b \in {WriteStatelessReset(ask.room, ask.token, ask.noise)} :
             b # <<>> => Len(b) <= ask.room /\ DecodeStatelessReset(b) = ask.token /\ b[1] \in 64 .. 127

=============================================================================
