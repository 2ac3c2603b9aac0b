----------------------------- MODULE RxBuffers -----------------------------
(***************************************************************************)
(* Who holds a reference to which receive buffer.                          *)
(*                                                                         *)
(* A datagram is read packet by packet.  What is behind a long header      *)
(* packet is copied before the packet is touched; a packet is decrypted    *)
(* into a buffer of its own; stream data is passed to the application, or  *)
(* kept for reordering, as a slice of that buffer, or as a copy when the   *)
(* buffer cannot be retained or a slice of it was passed on before.        *)
(*                                                                         *)
(* One stream, frames of one unit of data.  A frame is [off, cb]: its      *)
(* stream offset and what the application does when it is called back:     *)
(* return, keep a reference of its own, or fail.  A packet is [ok, frs]:   *)
(* whether it decrypts, and its frames.                                    *)
(***************************************************************************)
EXTENDS Buf, Sequences, FiniteSetsExt

CONSTANTS
    MaxRxOffset,          \* stream offsets are below this
    MaxKept             \* references the application keeps at a time

VARIABLE r

Frames == [off : 0 .. MaxRxOffset - 1, cb : {"return", "keep", "fail"}]
Packets == [ok : {TRUE}, frs : {<<f>> : f \in Frames}
                                 \cup {<<f, g>> : f, g \in Frames}]
             \cup {[ok |-> FALSE, frs |-> <<>>]}

\* One or two packets, with at most one callback that does more than return.
Unusual(p) == Cardinality({i \in DOMAIN p.frs : p.frs[i].cb # "return"})

Datagrams ==
    {<<p>> : p \in {x \in Packets : Unusual(x) <= 1}}
      \cup {d \in {<<p, q>> : p \in Packets,
                              q \in {x \in Packets : Len(x.frs) < 2}} :
             Unusual(d[1]) + Unusual(d[2]) <= 1}

\* rtn: the allocator hands out buffers whose owner can be retained.
InitRx ==
    \E rtn \in BOOLEAN :
        r = [ref |-> NothingAllocated, fault |-> FALSE, rtn |-> rtn,
             mem |-> [o \in Owners |-> {}],
             offset |-> 0, reorder |-> {}, kept |-> <<>>,
             \* conn->rx_pkt_buf_ctx and the locals of conn_recv_cpkt
             plain |-> NoOwner, current |-> NoOwner, next |-> NoOwner,
             first |-> FALSE, err |-> FALSE, conn |-> "live"]

----------------------------------------------------------------------------
\* Steps of reading a packet; err is a fatal result that ends the call.

Fail(s) == [s EXCEPT !.err = TRUE]

AllocWith(s, bytes) == [Alloc(s) EXCEPT !.mem[NewOwner(s)] = bytes]

\* A callback is given the byte at off from the memory of own.
Read(s, own, off) ==
    [Touch(s, own) EXCEPT !.fault = @ \/ off \notin s.mem[own]]

\* recv_stream_data: the application may keep the buffer by retaining it.
Callback(s, own, f) ==
    LET s1 == Read(s, own, f.off)
    IN  IF f.cb = "fail" THEN Fail(s1)
        ELSE IF f.cb = "keep" /\ s.rtn /\ Len(s.kept) < MaxKept
        THEN [Retain(s1, own) EXCEPT !.kept = Append(@, own)]
        ELSE s1

\* conn_make_rx_callback_buf: a retained slice of the plaintext, or a
\* descriptor without an owner.
CallbackSlice(s, f) ==
    IF s.rtn THEN Release(Callback(Retain(s, s.plain), s.plain, f), s.plain)
    ELSE Callback(s, s.plain, f)

\* conn_call_recv_stream_data_copy: released after the callback.
CallbackCopy(s, f) ==
    IF ~CanAlloc(s) THEN Fail(s)
    ELSE LET o == NewOwner(s)
         IN  Release(Callback(AllocWith(s, {f.off}), o, f), o)

\* conn_call_recv_stream_data
RecvStreamData(s, f) ==
    IF s.first THEN CallbackCopy(s, f)
    ELSE CallbackSlice([s EXCEPT !.first = TRUE], f)

\* ngtcp2_reorder_pop: the entry and its reference go.
ReorderRelease(s, ent) == [Release(s, ent.own) EXCEPT !.reorder = @ \ {ent}]

\* conn_emit_pending_stream_data: in order, as long as there is no gap.
RECURSIVE EmitPending(_)
EmitPending(s) ==
    LET here == {ent \in s.reorder : ent.off = s.offset}
    IN  IF here = {} THEN s
        ELSE LET ent == CHOOSE x \in here : TRUE
                 s1 == Read(s, ent.own, ent.off)
             IN  EmitPending([ReorderRelease(s1, ent) EXCEPT !.offset = @ + 1])

\* conn_recv_reordering, ngtcp2_reorder_push: a slice of the plaintext or an
\* allocated copy; what is held already is released again.
Store(s, f) ==
    LET o == IF s.rtn THEN s.plain ELSE NewOwner(s)
        s1 == IF s.rtn THEN Retain(s, o) ELSE AllocWith(s, {f.off})
    IN  IF ~s.rtn /\ ~CanAlloc(s) THEN Fail(s)
        ELSE IF \E ent \in s.reorder : ent.off = f.off THEN Release(s1, o)
        ELSE [s1 EXCEPT !.reorder = @ \cup {[off |-> f.off, own |-> o]}]

\* conn_recv_stream
RecvStream(s, f) ==
    IF f.off < s.offset THEN s
    ELSE IF f.off > s.offset THEN Store(s, f)
    ELSE LET s1 == RecvStreamData([s EXCEPT !.offset = @ + 1], f)
         IN  IF s1.err THEN s1 ELSE EmitPending(s1)

RECURSIVE RecvFrames(_, _)
RecvFrames(s, frs) ==
    IF frs = <<>> \/ s.err THEN s
    ELSE RecvFrames(RecvStream(s, Head(frs)), Tail(frs))

\* conn_release_rx_plaintext
ReleasePlaintext(s) == [Release(s, s.plain) EXCEPT !.plain = NoOwner]

\* conn_decrypt_pkt: the plaintext of the packet before is released first.
\* The ciphertext is read from the copy when the packet is not the first.
DecryptLeaks(s, p) ==
    LET s1 == Touch(s, s.current)
    IN  IF ~CanAlloc(s1) THEN Fail(s1)
        ELSE [AllocWith(s1, {p.frs[i].off : i \in DOMAIN p.frs})
                EXCEPT !.plain = NewOwner(s1)]

Decrypt(s, p) ==
    LET s1 == ReleasePlaintext(Touch(s, s.current))
    IN  IF ~CanAlloc(s1) THEN Fail(s1)
        ELSE [AllocWith(s1, {p.frs[i].off : i \in DOMAIN p.frs})
                EXCEPT !.plain = NewOwner(s1)]

\* conn_split_rx_trailing: what is behind the packet is copied.
SplitTrailing(s, dgram) ==
    IF Len(dgram) = 1 THEN s
    ELSE IF ~CanAlloc(s) THEN Fail(s)
    ELSE [AllocWith(s, {}) EXCEPT !.next = NewOwner(s)]

\* conn_recv_cpkt, conn_recv_handshake_cpkt: the copy becomes the packet.
NextPacket(s) ==
    [Release(s, s.current) EXCEPT !.current = s.next, !.next = NoOwner]

\* The labels fin_next and fin.
FinNext(s) ==
    [Release(Release(s, s.next), s.current)
       EXCEPT !.next = NoOwner, !.current = NoOwner]

RECURSIVE RecvCpkt(_, _)
RecvCpkt(s, dgram) ==
    IF dgram = <<>> THEN FinNext(s)
    ELSE LET p == Head(dgram)
             s1 == SplitTrailing([s EXCEPT !.first = FALSE], dgram)
             s2 == IF s1.err THEN s1 ELSE Decrypt(s1, p)
             s3 == IF s2.err \/ ~p.ok THEN s2 ELSE RecvFrames(s2, p.frs)
         IN  IF s3.err THEN FinNext(s3)
             ELSE RecvCpkt(NextPacket(s3), Tail(dgram))

----------------------------------------------------------------------------
\* ngtcp2_conn_read_pkt
ReadPkt(dgram) ==
    LET s == ReleasePlaintext(RecvCpkt(r, dgram))
    IN  /\ r.conn = "live"
        /\ r' = [s EXCEPT !.err = FALSE, !.first = FALSE,
                          !.conn = IF s.err THEN "failed" ELSE @,
                          !.mem = [o \in Owners |-> IF s.ref[o] = 0 THEN {}
                                                   ELSE @[o]]]

\* The application is done with a buffer it kept.
AppReleases ==
    /\ r.kept # <<>>
    /\ r' = [Release(r, Head(r.kept)) EXCEPT !.kept = Tail(@)]

\* ngtcp2_conn_del: ngtcp2_strm_free releases the reordering storage, as
\* ngtcp2_strm_discard_reordered_data does for ngtcp2_conn_shutdown_stream_read.
RECURSIVE ReorderFree(_)
ReorderFree(s) ==
    IF s.reorder = {} THEN s
    ELSE ReorderFree(ReorderRelease(s, CHOOSE ent \in s.reorder : TRUE))

ConnDelRx ==
    /\ r.conn # "deleted"
    /\ r' = [ReorderFree(r) EXCEPT !.conn = "deleted"]

NextRx ==
    \/ \E dgram \in Datagrams : ReadPkt(dgram)
    \/ AppReleases
    \/ ConnDelRx

----------------------------------------------------------------------------
\* Properties.

RxHolders(s, o) ==
    Cardinality({ent \in s.reorder : ent.own = o})
      + Cardinality({i \in DOMAIN s.kept : s.kept[i] = o})

\* Between two calls of the library the only references to receive buffers
\* are the ones of the reordering storage and the ones the application took:
\* whatever packet fails to decrypt, whatever callback or allocation fails in
\* the middle of a coalesced datagram, the plaintext, the copies of trailing
\* packets and the slices and copies made for callbacks are released exactly
\* once.  And a callback is never given memory that is gone, or that holds
\* other bytes than those of its offset.
RxRefsExact ==
    /\ ~r.fault
    /\ \A o \in Owners : r.ref[o] = RxHolders(r, o)
=============================================================================
