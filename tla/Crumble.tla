------------------------------- MODULE Crumble -------------------------------
(***************************************************************************)
(* The crumbling of a client's first CRYPTO data (conn.c                   *)
(* conn_crumble_initial_crypto, pkt.c's vec helpers): the frame taken from *)
(* the CRYPTO stream's queue is cut into pieces, the middle of the server  *)
(* name may be kept out of the packet and put back in the queue, pieces    *)
(* are halved at random, and PING and PADDING frames fill what is left.    *)
(*                                                                         *)
(* A piece is a range [off, len] of the CRYPTO stream.  The pieces of a    *)
(* packet are permuted before they are written (ngtcp2_pkt_permutate_vec); *)
(* their order is left out, and PING and PADDING frames are counted.       *)
(***************************************************************************)
EXTENDS Wire, FiniteSetsExt

CONSTANTS
    Hellos,     \* bound: the client's CRYPTO data, as the lengths of the buffers submitted
    Rooms,      \* bound: bytes left in the packet (ngtcp2_ppe_left)
    SniAt,      \* offset of the server name in the ClientHello
    SniLen,     \* and its length
    MaxAdd,     \* max_add_frames
    MaxDatacnt  \* NGTCP2_MAX_STREAM_DATACNT

VARIABLE cr

Piece(off, len) == [off |-> off, len |-> len]
BytesOf(s) == UNION {p.off .. p.off + p.len - 1 : p \in ToSet(s)}
LenOf(s) == FoldLeft(LAMBDA n, p : n + p.len, 0, s)
CryptoOverhead(p) == 1 + PutUvarintlen(p.off) + PutUvarintlen(p.len)

\* The buffers submitted by ngtcp2_conn_submit_crypto_data
Submitted(lens) ==
    [i \in DOMAIN lens |-> Piece(FoldLeft(+, 0, SubSeq(lens, 1, i - 1)), lens[i])]

CrumbleInit ==
    \E lens \in Hellos, room \in Rooms, kept \in BOOLEAN :
       cr = [stage |-> "idle", left |-> room, q |-> Submitted(lens), kept |-> kept /\ Len(lens) = 1, data |-> <<>>,
             frc |-> <<>>, total |-> 0, adds |-> 0, pads |-> 0, npads |-> 0, sent |-> <<>>, rtb |-> <<>>, ok |-> TRUE]

RECURSIVE PopFrom(_, _, _)

\* ngtcp2_strm_streamfrq_pop: the first frame of the queue with the frames
\* that continue it, at most n bytes; the remainder stays in the queue
PopFrom(taken, q, n) ==
    IF q = <<>> \/ n = 0 THEN <<taken, q>>
    ELSE IF taken # <<>> /\ Last(taken).off + Last(taken).len # q[1].off THEN <<taken, q>>
    ELSE IF q[1].len <= n THEN PopFrom(Append(taken, q[1]), Tail(q), n - q[1].len)
    ELSE <<Append(taken, Piece(q[1].off, n)), <<Piece(q[1].off + n, q[1].len - n)>> \o Tail(q)>>

\* conn_crumble_initial_crypto up to the frame it takes; it takes none when
\* the reserved overhead leaves no room
Pop ==
    LET off == cr.q[1].off
        total == MaxAdd * (1 + PutUvarintlen(off + cr.left - 1) + PutUvarintlen(cr.left))
        n == CryptoMaxDatalen(off, cr.left - total, cr.left - total)
        r == PopFrom(<<>>, cr.q, n)
    IN /\ cr.stage = "idle"
       /\ cr' = IF cr.q = <<>> \/ cr.left = 0 THEN [cr EXCEPT !.stage = "done"]
                ELSE IF cr.left <= total \/ n = -1 THEN [cr EXCEPT !.stage = "done"]
                ELSE [cr EXCEPT !.stage = "sni", !.data = r[1], !.q = r[2], !.total = total,
                                !.frc = <<Piece(off, LenOf(r[1]))>>, !.pads = 0, !.npads = 0]

\* ngtcp2_pkt_find_server_name: the name lies in the first buffer
FindServerName(data) == data[1].off = 0 /\ SniAt + SniLen <= data[1].len

\* ngtcp2_vec_split_at: the two halves of a piece
SplitAt(p, at) == <<Piece(p.off, at), Piece(p.off + at, p.len - at)>>

\* ngtcp2_pkt_split_vec_at
SplitVecAt(data, at) ==
    LET h == SplitAt(data[1], at) IN Append([data EXCEPT ![1] = h[1]], h[2])

\* ngtcp2_pkt_remove_vec_partial: r is the random length of the removed part
RemoveVecPartial(data, r) ==
    LET h == SplitAt(data[1], SniAt + (SniLen \div 2))
        g == SplitAt(h[2], r)
    IN IF h[2].len = 1 THEN [removed |-> h[2], data |-> [data EXCEPT ![1] = h[1]]]
       ELSE [removed |-> g[1], data |-> Append([data EXCEPT ![1] = h[1]], g[2])]

\* conn_cut_crypto_frame forgets that bytes may follow the removed part
CutCryptoFrameLeftOnly(frc, removed) == <<Piece(frc.off, removed.off - frc.off)>>

\* conn_cut_crypto_frame: the frames kept for retransmission with this packet
CutCryptoFrame(frc, removed) ==
    LET end == removed.off + removed.len
        right == Piece(end, frc.off + frc.len - end)
    IN <<Piece(frc.off, removed.off - frc.off)>> \o (IF right.len = 0 THEN <<>> ELSE <<right>>)

\* max_add_frames less the cuts already made
Adds(data) == IF Len(data) < MaxAdd + 1 THEN MaxAdd - (Len(data) - 1) ELSE 0

\* conn_crumble_initial_crypto: the server name
Sni ==
    /\ cr.stage = "sni"
    /\ \/ /\ cr.kept \/ Len(cr.data) >= MaxDatacnt \/ ~FindServerName(cr.data) \/ SniLen <= 1
          /\ cr' = [cr EXCEPT !.stage = "split", !.adds = Adds(cr.data)]
       \/ /\ ~(cr.kept \/ Len(cr.data) >= MaxDatacnt \/ ~FindServerName(cr.data) \/ SniLen <= 1)
          /\ \/ /\ cr.q = <<>>
                /\ LET d == SplitVecAt(cr.data, SniAt + (SniLen \div 2))
                   IN cr' = [cr EXCEPT !.stage = "split", !.data = d, !.adds = Adds(d)]
             \/ /\ cr.q # <<>>
                /\ \E r \in 1 .. Larger(1, Smaller(30, cr.data[1].len - SniAt - (SniLen \div 2) - 1)) :
                      LET x == RemoveVecPartial(cr.data, r)
                      IN cr' = [cr EXCEPT !.stage = "split", !.data = x.data, !.adds = Adds(x.data),
                                          !.q = <<x.removed>> \o cr.q, !.total = @ + x.removed.len,
                                          !.frc = CutCryptoFrame(cr.frc[1], x.removed)]

\* One round of ngtcp2_pkt_split_vec_rand
Split ==
    /\ cr.stage = "split" /\ cr.adds > 0
    /\ \E i \in DOMAIN cr.data :
          LET h == SplitAt(cr.data[i], cr.data[i].len \div 2)
          IN cr' = IF cr.data[i].len <= 1 THEN [cr EXCEPT !.adds = @ - 1]
                   ELSE [cr EXCEPT !.adds = @ - 1, !.data = Append([cr.data EXCEPT ![i] = h[1]], h[2])]

\* What the cuts did not use of the reserved overhead; negative where the
\* code's unsigned subtraction would wrap
PaddingRoom(total, data) ==
    total - FoldLeft(LAMBDA n, p : n + CryptoOverhead(p), 0, Tail(data))

StartPad ==
    /\ cr.stage = "split" /\ cr.adds = 0
    /\ cr' = [cr EXCEPT !.stage = "pad", !.total = PaddingRoom(cr.total, cr.data),
                        !.ok = @ /\ PaddingRoom(cr.total, cr.data) >= 0]

\* One round of ngtcp2_pkt_append_ping_and_padding: PING for k = 0
AppendPingOrPadding ==
    /\ cr.stage = "pad" /\ cr.total > 0 /\ Len(cr.data) + cr.npads < MaxDatacnt
    /\ \E k \in 0 .. cr.total :
          cr' = [cr EXCEPT !.total = @ - Larger(1, k), !.pads = @ + Larger(1, k), !.npads = @ + 1]

\* The frames are written, which must succeed, and recorded in the rtb entry
WriteFrames ==
    LET size == FoldLeft(LAMBDA n, p : n + CryptoOverhead(p) + p.len, cr.pads, cr.data)
    IN /\ cr.stage = "pad" /\ (cr.total <= 0 \/ Len(cr.data) + cr.npads >= MaxDatacnt)
       /\ cr' = [cr EXCEPT !.stage = "idle", !.left = IF size <= @ THEN @ - size ELSE 0, !.ok = @ /\ size <= cr.left,
                           !.sent = @ \o cr.data, !.rtb = @ \o cr.frc, !.data = <<>>, !.frc = <<>>]

CrumbleNext == Pop \/ Sni \/ Split \/ StartPad \/ AppendPingOrPadding \/ WriteFrames

\* Whatever is cut, held back and shuffled, the CRYPTO frames written to the
\* packet are exactly the ranges its rtb entry will retransmit, no byte is
\* written twice, every byte is either in the packet or still queued, and
\* the frames and their padding fit in the packet: conn_write_handshake_pkt
\* calls ngtcp2_unreachable() when a frame does not.
CrumbleKeepsStream ==
    /\ cr.ok
    /\ cr.stage \in {"idle", "done"} =>
         /\ BytesOf(cr.sent) = BytesOf(cr.rtb)
         /\ LenOf(cr.sent) = Cardinality(BytesOf(cr.sent))
         /\ BytesOf(cr.sent) \cap BytesOf(cr.q) = {}
         /\ \E lens \in Hellos : BytesOf(cr.sent) \cup BytesOf(cr.q) = 0 .. FoldLeft(+, 0, lens) - 1

=============================================================================
