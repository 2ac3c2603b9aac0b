-------------------------------- MODULE Wire --------------------------------
(***************************************************************************)
(* The wire format: conv.c and the frames of pkt.c, as functions between   *)
(* frames and sequences of bytes.  A frame is [t, a]: its type byte as the *)
(* code names it and the sequence of its fields.                           *)
(*                                                                         *)
(* A decoder is a cursor that walks over the fields in the order of the    *)
(* code, with the code's two running lengths: p, the offset it reads at,   *)
(* and len, the bytes the frame needs at least, which is compared with the *)
(* payload after every field.  oob records a read outside the payload and  *)
(* the assertion p = len at the end of every decoder is checked by Walk.   *)
(* TLC's integers have 32 bits: Huge stands for every larger varint.       *)
(***************************************************************************)
EXTENDS Integers, SequencesExt

MaxAckRanges == 32          \* NGTCP2_MAX_ACK_RANGES
Huge == 2147483647
TokenLen == 16              \* NGTCP2_STATELESS_RESET_TOKENLEN
MinCidLen == 1
MaxCidLen == 20

Smaller(x, y) == IF x < y THEN x ELSE y
Larger(x, y) == IF x > y THEN x ELSE y

----------------------------------------------------------------------------
(* Integers (conv.c).                                                      *)

\* ngtcp2_put_uint16be ... ngtcp2_put_uint64be: n in w bytes
PutUint(n, w) == [i \in 1 .. w |-> IF w - i > 3 THEN 0 ELSE (n \div 256^(w - i)) % 256]

\* ngtcp2_get_uint16be ... ngtcp2_get_uint64be
GetUint(b) ==
    LET n == Len(b)
        low == SubSeq(b, Larger(0, n - 4) + 1, n)
    IN IF (\E i \in 1 .. n - 4 : b[i] # 0) \/ (n >= 4 /\ b[n - 3] > 127) THEN Huge
       ELSE FoldLeft(LAMBDA x, y : x * 256 + y, 0, low)

\* ngtcp2_put_uvarintlen
PutUvarintlen(n) == IF n < 64 THEN 1 ELSE IF n < 16384 THEN 2 ELSE IF n < 1073741824 THEN 4 ELSE 8

\* ngtcp2_put_uvarint: the two top bits of the first byte are the length
PutUvarint(n) ==
    LET w == PutUvarintlen(n)
        top == CASE w = 1 -> 0 [] w = 2 -> 64 [] w = 4 -> 128 [] w = 8 -> 192
    IN [PutUint(n, w) EXCEPT ![1] = (@ % 64) + top]

\* ngtcp2_put_uvarint30
PutUvarint30(n) == [PutUint(n, 4) EXCEPT ![1] = @ + 128]

\* ngtcp2_get_uvarintlen, of a first byte
GetUvarintlen(x) == 2 ^ (x \div 64)

\* ngtcp2_get_uvarint
GetUvarint(b) == GetUint([b EXCEPT ![1] = @ % 64])

\* ngtcp2_put_pkt_num, ngtcp2_get_pkt_num
PutPktNum(n, w) == PutUint(n, w)
GetPktNum(b) == GetUint(b)

----------------------------------------------------------------------------
(* The cursor of the decoders.                                             *)

Cursor(b, min) ==
    [b |-> b, p |-> 1, len |-> min, a |-> <<>>, oob |-> FALSE, err |-> Len(b) < min]

\* The byte at offset i, and whether it exists
At(c, i) == IF i < Len(c.b) THEN c.b[i + 1] ELSE 0
Inside(c, i) == i < Len(c.b)

\* A variable-length integer whose first byte len already counts
Varint(c) ==
    LET n == GetUvarintlen(At(c, c.p))
    IN IF c.err THEN c
       ELSE IF ~Inside(c, c.p) THEN [c EXCEPT !.oob = TRUE, !.err = TRUE]
       ELSE IF Len(c.b) < c.len + n - 1 THEN [c EXCEPT !.err = TRUE]
       ELSE [c EXCEPT !.p = @ + n, !.len = @ + n - 1,
                      !.a = Append(@, GetUvarint(SubSeq(c.b, c.p + 1, c.p + n)))]

\* An optional field: one more byte is needed
More(c) ==
    IF c.err THEN c
    ELSE [c EXCEPT !.len = @ + 1, !.err = Len(c.b) < c.len + 1]

\* n bytes that len already counts
Fixed(c, n) ==
    IF c.err THEN c
    ELSE [c EXCEPT !.p = @ + n, !.a = Append(@, SubSeq(c.b, c.p + 1, c.p + n)),
                   !.oob = @ \/ c.p + n > Len(c.b)]

\* As many bytes as the integer just read says
Data(c) ==
    LET n == c.a[Len(c.a)]
    IN IF c.err THEN c
       ELSE IF Len(c.b) - c.len < n THEN [c EXCEPT !.err = TRUE]
       ELSE [c EXCEPT !.len = @ + n, !.p = @ + n,
                      !.a = [@ EXCEPT ![Len(c.a)] = SubSeq(c.b, c.p + 1, c.p + n)]]

\* Whatever is left of the payload
Rest(c) ==
    IF c.err THEN c
    ELSE [c EXCEPT !.len = Len(c.b), !.p = Len(c.b),
                   !.a = Append(@, SubSeq(c.b, c.p + 1, Len(c.b)))]

\* One-byte length and connection ID
CidField(c) ==
    LET n == At(c, c.p)
    IN IF c.err THEN c
       ELSE IF n < MinCidLen \/ n > MaxCidLen \/ Len(c.b) < c.len + n
            THEN [c EXCEPT !.err = TRUE, !.oob = ~Inside(c, c.p)]
       ELSE [c EXCEPT !.len = @ + n, !.p = @ + 1 + n,
                      !.a = Append(@, SubSeq(c.b, c.p + 2, c.p + 1 + n))]

Step(c, k) ==
    CASE k = "v" -> Varint(c)
      [] k = "data" -> Data(Varint(c))
      [] k = "cid" -> CidField(c)
      [] k = "token" -> Fixed(c, TokenLen)
      [] k = "8" -> Fixed(c, 8)

RECURSIVE Steps(_, _)

\* The fields one after the other
Steps(c, fields) ==
    IF c.err \/ fields = <<>> THEN c ELSE Steps(Step(c, Head(fields)), Tail(fields))

\* What a decoder returns: n is the number of bytes read
Result(t, c) ==
    [err |-> c.err, oob |-> c.oob, asrt |-> c.err \/ c.p = c.len,
     n |-> c.len, fr |-> [t |-> t, a |-> c.a]]

\* A decoder that needs min bytes for its fields in their shortest form
Walk(t, b, min, fields) == Result(t, Steps(Cursor(b, min), fields))

----------------------------------------------------------------------------
(* Frames: their type bytes (pkt.h), their decoders and their encoders.    *)

PADDING == 0
PING == 1
ACK == 2
ACK_ECN == 3
RESET_STREAM == 4
STOP_SENDING == 5
CRYPTO == 6
NEW_TOKEN == 7
STREAM == 8
MAX_DATA == 16
MAX_STREAM_DATA == 17
MAX_STREAMS_BIDI == 18
MAX_STREAMS_UNI == 19
DATA_BLOCKED == 20
STREAM_DATA_BLOCKED == 21
STREAMS_BLOCKED_BIDI == 22
STREAMS_BLOCKED_UNI == 23
NEW_CONNECTION_ID == 24
RETIRE_CONNECTION_ID == 25
PATH_CHALLENGE == 26
PATH_RESPONSE == 27
CONNECTION_CLOSE == 28
CONNECTION_CLOSE_APP == 29
HANDSHAKE_DONE == 30
DATAGRAM == 48
DATAGRAM_LEN == 49

StreamFin(t) == t % 2 = 1
StreamLen(t) == (t \div 2) % 2 = 1
StreamOff(t) == (t \div 4) % 2 = 1

StreamOffset(c, t) == IF StreamOff(t) THEN Varint(More(c)) ELSE [c EXCEPT !.a = Append(@, 0)]
StreamData(c, t) == IF StreamLen(t) THEN Data(Varint(More(c))) ELSE Rest(c)

DecodeStreamFrame(b) ==
    Result(STREAM, [StreamData(StreamOffset(Varint(Cursor(b, 2)), b[1]), b[1])
                        EXCEPT !.a = Append(@, StreamFin(b[1]))])

\* Gap and length of each additional range, as pairs
Pairs(s) == [i \in 1 .. Len(s) \div 2 |-> <<s[2 * i - 1], s[2 * i]>>]

\* The range count was read: two bytes at least for each
AckCount(c) ==
    IF c.err THEN c
    ELSE IF c.a[3] > Huge \div 2 \/ Len(c.b) - c.len < c.a[3] * 2 THEN [c EXCEPT !.err = TRUE]
    ELSE [c EXCEPT !.len = @ + c.a[3] * 2]

AckRanges(c) == IF c.err THEN c ELSE Steps(c, [i \in 1 .. 2 * c.a[3] |-> "v"])

AckEcn(c, t) == IF t = ACK_ECN /\ ~c.err THEN Steps(More(More(More(c))), <<"v", "v", "v">>) ELSE c

\* Largest, delay, first range, the ranges the frame has room for, the counts
AckFields(c, a) ==
    [c EXCEPT !.a =
        IF c.err THEN <<>>
        ELSE <<a[1], a[2], a[4], Pairs(SubSeq(a, 5, 4 + 2 * Smaller(a[3], MaxAckRanges))),
               SubSeq(a, 5 + 2 * a[3], Len(a))>>]

AckDone(c) == AckFields(c, c.a)

DecodeAckFrame(b) ==
    Result(b[1], AckDone(AckEcn(AckRanges(Varint(
        AckCount(Steps(Cursor(b, 5), <<"v", "v", "v">>)))), b[1])))

DecodePaddingFrame(b) ==
    LET stop == {i \in 1 .. Len(b) : b[i] # PADDING}
        n == IF stop = {} THEN Len(b) ELSE Min(stop) - 1
    IN Result(PADDING, [Cursor(b, 1) EXCEPT !.p = n, !.len = n, !.a = <<n>>])

DecodeResetStreamFrame(b) == Walk(RESET_STREAM, b, 4, <<"v", "v", "v">>)

\* The frame type is there in the transport variant only; the byte that
\* holds its length is read before len counts it.
CloseFrameType(c, t) ==
    IF t = CONNECTION_CLOSE THEN Varint(IF c.err THEN c ELSE [c EXCEPT !.len = @ + 1])
    ELSE [c EXCEPT !.a = Append(@, 0)]

DecodeConnectionCloseFrame(b) ==
    Result(b[1], Data(Varint(CloseFrameType(Varint(Cursor(b, 3)), b[1]))))

DecodeMaxDataFrame(b) == Walk(MAX_DATA, b, 2, <<"v">>)
DecodeMaxStreamDataFrame(b) == Walk(MAX_STREAM_DATA, b, 3, <<"v", "v">>)
DecodeMaxStreamsFrame(b) == Walk(b[1], b, 2, <<"v">>)
DecodePingFrame(b) == Walk(PING, b, 1, <<>>)
DecodeDataBlockedFrame(b) == Walk(DATA_BLOCKED, b, 2, <<"v">>)
DecodeStreamDataBlockedFrame(b) == Walk(STREAM_DATA_BLOCKED, b, 3, <<"v", "v">>)
DecodeStreamsBlockedFrame(b) == Walk(b[1], b, 2, <<"v">>)
DecodeNewConnectionIdFrame(b) ==
    Walk(NEW_CONNECTION_ID, b, 4 + TokenLen, <<"v", "v", "cid", "token">>)
DecodeStopSendingFrame(b) == Walk(STOP_SENDING, b, 3, <<"v", "v">>)
DecodePathChallengeFrame(b) == Walk(PATH_CHALLENGE, b, 9, <<"8">>)
DecodePathResponseFrame(b) == Walk(PATH_RESPONSE, b, 9, <<"8">>)
DecodeCryptoFrame(b) == Walk(CRYPTO, b, 3, <<"v", "data">>)
DecodeNewTokenFrame(b) == Walk(NEW_TOKEN, b, 2, <<"data">>)
DecodeRetireConnectionIdFrame(b) == Walk(RETIRE_CONNECTION_ID, b, 2, <<"v">>)
DecodeHandshakeDoneFrame(b) == Walk(HANDSHAKE_DONE, b, 1, <<>>)
DecodeDatagramFrame(b) ==
    Result(b[1], IF b[1] = DATAGRAM THEN Rest(Cursor(b, 1)) ELSE Data(Varint(More(Cursor(b, 1)))))

\* ngtcp2_frame_decoder_decode
DecodeFrame(b) ==
    IF b = <<>> THEN Result(PADDING, Cursor(b, 1))
    ELSE CASE b[1] = PADDING -> DecodePaddingFrame(b)
           [] b[1] = RESET_STREAM -> DecodeResetStreamFrame(b)
           [] b[1] \in {CONNECTION_CLOSE, CONNECTION_CLOSE_APP} -> DecodeConnectionCloseFrame(b)
           [] b[1] = MAX_DATA -> DecodeMaxDataFrame(b)
           [] b[1] = MAX_STREAM_DATA -> DecodeMaxStreamDataFrame(b)
           [] b[1] \in {MAX_STREAMS_BIDI, MAX_STREAMS_UNI} -> DecodeMaxStreamsFrame(b)
           [] b[1] = PING -> DecodePingFrame(b)
           [] b[1] = DATA_BLOCKED -> DecodeDataBlockedFrame(b)
           [] b[1] = STREAM_DATA_BLOCKED -> DecodeStreamDataBlockedFrame(b)
           [] b[1] \in {STREAMS_BLOCKED_BIDI, STREAMS_BLOCKED_UNI} -> DecodeStreamsBlockedFrame(b)
           [] b[1] = NEW_CONNECTION_ID -> DecodeNewConnectionIdFrame(b)
           [] b[1] = STOP_SENDING -> DecodeStopSendingFrame(b)
           [] b[1] \in {ACK, ACK_ECN} -> DecodeAckFrame(b)
           [] b[1] = PATH_CHALLENGE -> DecodePathChallengeFrame(b)
           [] b[1] = PATH_RESPONSE -> DecodePathResponseFrame(b)
           [] b[1] = CRYPTO -> DecodeCryptoFrame(b)
           [] b[1] = NEW_TOKEN -> DecodeNewTokenFrame(b)
           [] b[1] = RETIRE_CONNECTION_ID -> DecodeRetireConnectionIdFrame(b)
           [] b[1] = HANDSHAKE_DONE -> DecodeHandshakeDoneFrame(b)
           [] b[1] \in {DATAGRAM, DATAGRAM_LEN} -> DecodeDatagramFrame(b)
           [] b[1] \div 8 = 1 -> DecodeStreamFrame(b)
           [] OTHER -> [Result(b[1], Cursor(b, 1)) EXCEPT !.err = TRUE]

----------------------------------------------------------------------------
(* Encoders.                                                               *)

Bytes(d) == PutUvarint(Len(d)) \o d     \* a length and that many bytes

EncodeStreamFrame(a) ==
    LET off == IF a[2] = 0 THEN <<>> ELSE PutUvarint(a[2])
        flags == 2 + (IF a[4] THEN 1 ELSE 0) + (IF a[2] = 0 THEN 0 ELSE 4)
    IN <<STREAM + flags>> \o PutUvarint(a[1]) \o off \o Bytes(a[3])

EncodeAckFrame(t, a) ==
    <<t>> \o PutUvarint(a[1]) \o PutUvarint(a[2]) \o PutUvarint(Len(a[4])) \o PutUvarint(a[3])
          \o FoldLeft(LAMBDA s, r : s \o PutUvarint(r[1]) \o PutUvarint(r[2]), <<>>, a[4])
          \o (IF t = ACK_ECN THEN FoldLeft(LAMBDA s, n : s \o PutUvarint(n), <<>>, a[5]) ELSE <<>>)

EncodePaddingFrame(a) == [i \in 1 .. a[1] |-> PADDING]
EncodeResetStreamFrame(a) ==
    <<RESET_STREAM>> \o PutUvarint(a[1]) \o PutUvarint(a[2]) \o PutUvarint(a[3])
EncodeConnectionCloseFrame(t, a) ==
    <<t>> \o PutUvarint(a[1]) \o (IF t = CONNECTION_CLOSE THEN PutUvarint(a[2]) ELSE <<>>) \o Bytes(a[3])
EncodeMaxDataFrame(a) == <<MAX_DATA>> \o PutUvarint(a[1])
EncodeMaxStreamDataFrame(a) == <<MAX_STREAM_DATA>> \o PutUvarint(a[1]) \o PutUvarint(a[2])
EncodeMaxStreamsFrame(t, a) == <<t>> \o PutUvarint(a[1])
EncodePingFrame == <<PING>>
EncodeDataBlockedFrame(a) == <<DATA_BLOCKED>> \o PutUvarint(a[1])
EncodeStreamDataBlockedFrame(a) == <<STREAM_DATA_BLOCKED>> \o PutUvarint(a[1]) \o PutUvarint(a[2])
EncodeStreamsBlockedFrame(t, a) == <<t>> \o PutUvarint(a[1])
EncodeNewConnectionIdFrame(a) ==
    <<NEW_CONNECTION_ID>> \o PutUvarint(a[1]) \o PutUvarint(a[2]) \o <<Len(a[3])>> \o a[3] \o a[4]
EncodeStopSendingFrame(a) == <<STOP_SENDING>> \o PutUvarint(a[1]) \o PutUvarint(a[2])
EncodePathChallengeFrame(a) == <<PATH_CHALLENGE>> \o a[1]
EncodePathResponseFrame(a) == <<PATH_RESPONSE>> \o a[1]
EncodeCryptoFrame(a) == <<CRYPTO>> \o PutUvarint(a[1]) \o Bytes(a[2])
EncodeNewTokenFrame(a) == <<NEW_TOKEN>> \o Bytes(a[1])
EncodeRetireConnectionIdFrame(a) == <<RETIRE_CONNECTION_ID>> \o PutUvarint(a[1])
EncodeHandshakeDoneFrame == <<HANDSHAKE_DONE>>
EncodeDatagramFrame(t, a) == <<t>> \o (IF t = DATAGRAM_LEN THEN Bytes(a[1]) ELSE a[1])

\* ngtcp2_pkt_encode_frame; each encoder fails with NOBUF when the frame is
\* longer than the room given.
EncodeFrame(f) ==
    CASE f.t = STREAM -> EncodeStreamFrame(f.a)
      [] f.t \in {ACK, ACK_ECN} -> EncodeAckFrame(f.t, f.a)
      [] f.t = PADDING -> EncodePaddingFrame(f.a)
      [] f.t = RESET_STREAM -> EncodeResetStreamFrame(f.a)
      [] f.t \in {CONNECTION_CLOSE, CONNECTION_CLOSE_APP} -> EncodeConnectionCloseFrame(f.t, f.a)
      [] f.t = MAX_DATA -> EncodeMaxDataFrame(f.a)
      [] f.t = MAX_STREAM_DATA -> EncodeMaxStreamDataFrame(f.a)
      [] f.t \in {MAX_STREAMS_BIDI, MAX_STREAMS_UNI} -> EncodeMaxStreamsFrame(f.t, f.a)
      [] f.t = PING -> EncodePingFrame
      [] f.t = DATA_BLOCKED -> EncodeDataBlockedFrame(f.a)
      [] f.t = STREAM_DATA_BLOCKED -> EncodeStreamDataBlockedFrame(f.a)
      [] f.t \in {STREAMS_BLOCKED_BIDI, STREAMS_BLOCKED_UNI} -> EncodeStreamsBlockedFrame(f.t, f.a)
      [] f.t = NEW_CONNECTION_ID -> EncodeNewConnectionIdFrame(f.a)
      [] f.t = STOP_SENDING -> EncodeStopSendingFrame(f.a)
      [] f.t = PATH_CHALLENGE -> EncodePathChallengeFrame(f.a)
      [] f.t = PATH_RESPONSE -> EncodePathResponseFrame(f.a)
      [] f.t = CRYPTO -> EncodeCryptoFrame(f.a)
      [] f.t = NEW_TOKEN -> EncodeNewTokenFrame(f.a)
      [] f.t = RETIRE_CONNECTION_ID -> EncodeRetireConnectionIdFrame(f.a)
      [] f.t = HANDSHAKE_DONE -> EncodeHandshakeDoneFrame
      [] f.t \in {DATAGRAM, DATAGRAM_LEN} -> EncodeDatagramFrame(f.t, f.a)

----------------------------------------------------------------------------
(* Sizes.                                                                  *)

Refused == -1       \* (size_t)-1

\* The data that fits in left bytes together with its length field
DatalenIn(len, left) ==
    CASE left > 4 + 16383 /\ len > 16383 -> Smaller(Smaller(len, 1073741823), left - 4)
      [] ~(left > 4 + 16383 /\ len > 16383) /\ left > 2 + 63 /\ len > 63 ->
           Smaller(Smaller(len, 16383), left - 2)
      [] OTHER -> Smaller(Smaller(len, 63), left - 1)

\* ngtcp2_pkt_stream_max_datalen
StreamMaxDatalen(id, offset, len, left) ==
    LET n == 1 + PutUvarintlen(id) + (IF offset = 0 THEN 0 ELSE PutUvarintlen(offset))
    IN IF left <= n THEN Refused ELSE DatalenIn(len, left - n)

\* ngtcp2_pkt_crypto_max_datalen
CryptoMaxDatalen(offset, len, left) ==
    LET n == 1 + PutUvarintlen(offset)
    IN IF left <= n + 1 THEN Refused ELSE DatalenIn(len, left - n)

\* ngtcp2_pkt_datagram_framelen
DatagramFramelen(len) == 1 + PutUvarintlen(len) + len

----------------------------------------------------------------------------
(* Acknowledgement ranges and packet numbers.                              *)

ValidateAckTail(fr, min) ==
    FoldLeft(LAMBDA x, r :
                 CASE x < 0 -> x
                   [] x >= 0 /\ (x < r[1] + 2 \/ x - r[1] - 2 < r[2]) -> -1
                   [] OTHER -> LET y == x - r[1] - 2 - r[2] IN IF y < min THEN -2 ELSE y,
             fr.a[1] - fr.a[3], fr.a[4])

\* ngtcp2_pkt_validate_ack: 0, -1 for ACK_FRAME and -2 for PROTO
ValidateAck(fr, min) ==
    IF fr.a[1] < fr.a[3] THEN -1
    ELSE IF fr.a[1] - fr.a[3] < min THEN -2
    ELSE Smaller(0, ValidateAckTail(fr, min))

\* ngtcp2_pkt_adjust_pkt_num
AdjustPktNum(max, num, w) ==
    LET expected == max + 1
        win == 256 ^ w
        cand == (expected \div win) * win + num
    IN IF cand + win \div 2 <= expected THEN cand + win
       ELSE IF cand > expected + win \div 2 /\ cand >= win THEN cand - win
       ELSE cand

V1 == 1                 \* NGTCP2_PROTO_VER_V1
V2 == 1798521807        \* NGTCP2_PROTO_VER_V2

\* ngtcp2_is_supported_version
IsSupported(ver) == ver \in {V1, V2}

=============================================================================
