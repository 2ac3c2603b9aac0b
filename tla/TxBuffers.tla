----------------------------- MODULE TxBuffers -----------------------------
(***************************************************************************)
(* Who holds a reference to which send buffer.                             *)
(*                                                                         *)
(* The application is handed buffers for stream data and for datagrams,    *)
(* fills them and submits them, or writes a buffer of its own straight     *)
(* into a packet; the library keeps the bytes alive through the frames of  *)
(* the stream's queue, of the packet under construction and of the packets *)
(* in flight, splits and copies those frames, and drops them on            *)
(* acknowledgement, expiry, reset and deletion of the connection.  Encoded *)
(* packets are handed to the application in buffers it has to return.      *)
(*                                                                         *)
(* One stream, with data in units of one frame's minimum length.  A frame  *)
(* is [off, len, fin, own, pos]: stream offset and length, and the owner   *)
(* and position its data is read from (NoOwner for a bare FIN).            *)
(***************************************************************************)
EXTENDS Buf, FiniteSetsExt, Sequences

CONSTANTS
    MaxTxOffset,          \* stream data is at most this long
    BufCap,             \* capacity of a stream buffer
    MaxPkts,            \* packets with stream frames that are sent
    MaxDgrams,          \* datagrams that are submitted
    MaxHandoffs         \* NGTCP2_MAX_TX_PKT_HANDOFFS

VARIABLE t

NoBuf == [own |-> NoOwner, pos |-> 0]

InitTx ==
    t = [ref |-> NothingAllocated, fault |-> FALSE,
         mem |-> [o \in Owners |-> [i \in 0 .. BufCap - 1 |-> -1]],
         sbuf |-> NoBuf, dbuf |-> NoOwner, abuf |-> NoBuf,
         dgramq |-> <<>>, ndgram |-> 0,
         frq |-> {}, chain |-> {}, ents |-> {}, npkt |-> 0,
         pkts |-> {}, outstanding |-> 0,
         offset |-> 0, acked |-> {}, finAcked |-> FALSE,
         anySent |-> FALSE, anyAcked |-> FALSE,
         strm |-> "open",          \* open, shut_wr, reset, closed
         conn |-> "live"]          \* live, failed, deleted

Live(s) == s.conn = "live"
Writable(s) == Live(s) /\ s.strm = "open"

----------------------------------------------------------------------------
\* Frames.

FrameBytes(f) == f.off .. (f.off + f.len - 1)

\* ngtcp2_stream_set_txbuf, ngtcp2_stream_copy_txbuf
SetTxbuf(s, f) == Retain(s, f.own)

\* ngtcp2_frame_chain_objalloc_del: a frame that goes drops its reference,
\* ngtcp2_stream_release_txbuf.
FrameDel(s, f) == Release(s, f.own)

\* ngtcp2_frame_chain_list_objalloc_del, ngtcp2_strm_streamfrq_clear
RECURSIVE FramesDel(_, _)
FramesDel(s, F) ==
    IF F = {} THEN s
    ELSE LET f == CHOOSE g \in F : TRUE IN FramesDel(FrameDel(s, f), F \ {f})

\* ngtcp2_strm_streamfrq_push: the queue is keyed by offset and refuses a
\* second frame for one.
KeyTaken(s, f) == \E g \in s.frq : g.off = f.off

\* ngtcp2_strm_get_unacked_range_after: the first gap of the acknowledged
\* data that ends behind x.
GapBegin(s, x) == Min({y \in x .. MaxTxOffset : y \notin s.acked})

GapEnd(s, b) == Min({y \in b .. MaxTxOffset : y \in s.acked} \cup {MaxTxOffset})

Narrow(f, b, e, fin) ==
    [f EXCEPT !.off = b, !.len = e - b, !.pos = @ + (b - f.off), !.fin = fin]

----------------------------------------------------------------------------
\* Taking a frame from the stream's queue.  The result is a record of the
\* state and the frame, NoFrame if there is none.

NoFrame == [off |-> -1, len |-> 0, fin |-> FALSE, own |-> NoOwner, pos |-> 0]

\* strm_streamfrq_unacked_pop_txbuf: acknowledged data is cut off the frame,
\* what is behind the next acknowledged range goes back as a frame of its own
\* with its own reference.
PopTxbuf(s, f) ==
    LET end == f.off + f.len
        b == GapBegin(s, f.off)
        e == Min({GapEnd(s, b), end})
        rest == Narrow(f, e, end, f.fin)
    IN  IF b >= end
        THEN IF f.fin /\ ~s.finAcked
             THEN [s |-> FrameDel(s, f),
                   fr |-> [f EXCEPT !.off = end, !.len = 0, !.own = NoOwner,
                                    !.pos = 0]]
             ELSE [s |-> [FrameDel(s, f) EXCEPT !.fault =
                             @ \/ (f.fin /\ s.frq # {})],
                   fr |-> NoFrame]
        ELSE IF e < end
        THEN [s |-> [SetTxbuf(s, rest) EXCEPT !.frq = @ \cup {rest}],
              fr |-> Narrow(f, b, e, FALSE)]
        ELSE [s |-> s, fr |-> Narrow(f, b, e, f.fin)]

\* strm_streamfrq_unacked_pop, the branch of a frame without data.
PopEmpty(s, f) ==
    IF (f.fin /\ ~s.finAcked)
         \/ (~f.fin /\ f.off = 0 /\ s.offset = 0 /\ ~s.anyAcked)
    THEN [s |-> s, fr |-> f]
    ELSE [s |-> FrameDel(s, f), fr |-> NoFrame]

PopFrame(s, f) == IF f.own # NoOwner THEN PopTxbuf(s, f) ELSE PopEmpty(s, f)

RECURSIVE UnackedPop(_)
PopAgain(r) == IF r.fr = NoFrame THEN UnackedPop(r.s) ELSE r
UnackedPop(s) ==
    IF s.frq = {} THEN [s |-> s, fr |-> NoFrame]
    ELSE LET f == CHOOSE g \in s.frq : \A h \in s.frq : g.off <= h.off
         IN  PopAgain(PopFrame([s EXCEPT !.frq = @ \ {f}], f))

\* ngtcp2_strm_streamfrq_pop: a frame that does not fit goes back, one that
\* is too long is split and the rest goes back with its own reference.
SplitNoRetain(s, f, left) ==
    LET rest == Narrow(f, f.off + left, f.off + f.len, f.fin)
    IN  [s |-> [s EXCEPT !.frq = @ \cup {rest}],
         fr |-> Narrow(f, f.off, f.off + left, FALSE)]

Split(s, f, left) ==
    LET rest == Narrow(f, f.off + left, f.off + f.len, f.fin)
    IN  [s |-> [SetTxbuf(s, rest) EXCEPT !.frq = @ \cup {rest}],
         fr |-> Narrow(f, f.off, f.off + left, FALSE)]

Fitted(r, left) ==
    IF r.fr = NoFrame THEN r
    ELSE IF left = 0 /\ r.fr.len > 0
    THEN [s |-> [r.s EXCEPT !.frq = @ \cup {r.fr}], fr |-> NoFrame]
    ELSE IF r.fr.len > left THEN Split(r.s, r.fr, left)
    ELSE r

StreamfrqPop(s, left) == Fitted(UnackedPop(s), left)
----------------------------------------------------------------------------
\* Buffers in the hands of the application.

\* ngtcp2_conn_alloc_stream_buf; the application fills one buffer at a time.
AllocStreamBuf ==
    /\ Writable(t) /\ t.sbuf = NoBuf /\ t.abuf = NoBuf
    /\ t.offset < MaxTxOffset /\ CanAlloc(t)
    /\ t' = [Alloc(t) EXCEPT !.sbuf = [own |-> NewOwner(t), pos |-> 0]]

\* The application's bytes for the stream, in memory where the frames that
\* follow will read them.
Fill(s, own, pos, n) ==
    [s EXCEPT !.mem[own] =
        [i \in DOMAIN @ |-> IF i \in pos .. (pos + n - 1)
                           THEN s.offset + (i - pos) ELSE @[i]]]

\* ngtcp2_conn_submit_stream_buf: flow control accepts n of the datalen
\* bytes.  The queued frame has its own reference; the application's goes
\* when the whole of the buffer is accepted.
KeepsBuf(n, datalen) == ~(n = datalen /\ t.sbuf.pos + n = BufCap)

SubmitStreamBuf(datalen, n, flagFin) ==
    LET fin == flagFin /\ n = datalen
        own == IF n = 0 THEN NoOwner ELSE t.sbuf.own
        f == [off |-> t.offset, len |-> n, fin |-> fin, own |-> own,
              pos |-> IF n = 0 THEN 0 ELSE t.sbuf.pos]
        s1 == SetTxbuf(Fill(t, t.sbuf.own, t.sbuf.pos, n), f)
        s2 == [s1 EXCEPT !.frq = @ \cup {f}, !.offset = @ + n,
                         !.anySent = TRUE,
                         !.strm = IF fin THEN "shut_wr" ELSE @]
    IN  /\ Writable(t) /\ t.sbuf # NoBuf
        /\ t.sbuf.pos + datalen <= BufCap
        /\ n <= datalen /\ t.offset + n <= MaxTxOffset
        /\ n # 0 \/ fin
        /\ ~KeyTaken(t, f)
        /\ t' = IF KeepsBuf(n, datalen)
                THEN [s2 EXCEPT !.sbuf.pos = @ + n]
                ELSE [Release(s2, t.sbuf.own) EXCEPT !.sbuf = NoBuf]

\* ngtcp2_conn_cancel_stream_buf
CancelStreamBuf ==
    /\ t.conn # "deleted" /\ t.sbuf # NoBuf
    /\ t' = [Release(t, t.sbuf.own) EXCEPT !.sbuf = NoBuf]

\* ngtcp2_conn_alloc_dgram_buf
AllocDgramBuf ==
    /\ Live(t) /\ t.dbuf = NoOwner /\ t.ndgram < MaxDgrams
    /\ CanAlloc(t)
    /\ t' = [Alloc(t) EXCEPT !.dbuf = NewOwner(t)]

\* ngtcp2_conn_submit_dgram_buf: the reference moves into the queue.
SubmitDgramBuf ==
    /\ Live(t) /\ t.dbuf # NoOwner
    /\ t' = [t EXCEPT !.dgramq = Append(@, t.dbuf), !.dbuf = NoOwner,
                      !.ndgram = @ + 1]

\* ngtcp2_conn_cancel_dgram_buf
CancelDgramBuf ==
    /\ t.conn # "deleted" /\ t.dbuf # NoOwner
    /\ t' = [Release(t, t.dbuf) EXCEPT !.dbuf = NoOwner]

\* The application has, and gives up, memory of its own for
\* ngtcp2_conn_write_stream.
AppAlloc ==
    /\ Writable(t) /\ t.sbuf = NoBuf /\ t.abuf = NoBuf
    /\ t.offset < MaxTxOffset /\ CanAlloc(t)
    /\ t' = [Alloc(t) EXCEPT !.abuf = [own |-> NewOwner(t), pos |-> 0]]

AppRelease ==
    /\ t.abuf # NoBuf
    /\ t' = [Release(t, t.abuf.own) EXCEPT !.abuf = NoBuf]

----------------------------------------------------------------------------
\* Packets.

\* conn_write_pkt: stream frames are popped while there is room and are
\* encoded from the memory they refer to.
RECURSIVE PopAll(_, _, _)
Popped(r, left, F) ==
    IF r.fr = NoFrame THEN [s |-> r.s, left |-> left, frs |-> F]
    ELSE PopAll(Touch(r.s, r.fr.own), left - r.fr.len, F \cup {r.fr})
PopAll(s, left, F) == Popped(StreamfrqPop(s, left), left, F)

\* conn_write_pkt, conn_on_pkt_sent: the frames go to the entry of the
\* packet.  A packet without stream frames holds no reference.
Track(s, F) ==
    IF F = {} THEN s
    ELSE [s EXCEPT !.npkt = @ + 1,
                   !.ents = @ \cup {[pn |-> s.npkt, frs |-> F, st |-> "out"]}]

\* The packet could not be encrypted: the popped frames stay in the frame
\* queue of the packet number space.
WriteFails(s, F) == [s EXCEPT !.chain = @ \cup F, !.conn = "failed"]

\* conn_write_queued_dgram_pkt: the head datagram goes into the packet when
\* a unit of room is left, and out of the queue with its reference.
SendDgram(s) ==
    LET o == Head(s.dgramq)
    IN  [Release(Touch(s, o), o) EXCEPT !.dgramq = Tail(@)]

\* ngtcp2_conn_next_tx_pkt: with a packet buffer from the allocator, which
\* goes back unless a packet was written.  next_tx_pkts repeats this.
HandOut(s, o) == [s EXCEPT !.pkts = @ \cup {o}, !.outstanding = @ + 1]

TxPktWritten(r, o, dgram, ok) ==
    IF ~ok THEN Release(WriteFails(r.s, r.frs), o)
    ELSE IF r.frs = {} /\ ~dgram THEN Release(r.s, o)
    ELSE HandOut(Track(IF dgram THEN SendDgram(r.s) ELSE r.s, r.frs), o)

NextTxPkt(room, ok) ==
    /\ Live(t) /\ t.outstanding < MaxHandoffs /\ CanAlloc(t)
    /\ t.npkt < MaxPkts
    /\ t.frq # {} \/ t.dgramq # <<>>
    /\ \E r \in {PopAll(Alloc(t), room, {})} :
         t' = TxPktWritten(r, NewOwner(t), t.dgramq # <<>> /\ r.left > 0, ok)

\* ngtcp2_conn_release_tx_pkt
ReleaseTxPkt(o) ==
    /\ t.conn # "deleted" /\ o \in t.pkts
    /\ t' = [Release(t, o) EXCEPT !.pkts = @ \ {o}, !.outstanding = @ - 1]

\* ngtcp2_conn_write_stream into a packet of the application: queued data
\* goes first, then what fits of the application's buffer, with a reference
\* for the frame.
DirectFrame(s, wlen, fin) ==
    [off |-> s.offset, len |-> wlen, fin |-> fin,
     own |-> IF wlen = 0 THEN NoOwner ELSE s.abuf.own, pos |-> IF wlen = 0 THEN 0 ELSE s.abuf.pos]

PutDirect(s, f) ==
    [Touch(SetTxbuf(Fill(s, s.abuf.own, s.abuf.pos, f.len), f), f.own)
       EXCEPT !.abuf.pos = @ + f.len, !.offset = @ + f.len, !.anySent = TRUE,
              !.strm = IF f.fin THEN "shut_wr" ELSE @]

DirectOrQueued(r, n, wlen, f) ==
    IF r.s.frq = {} /\ (wlen > 0 \/ n = 0) THEN [s |-> PutDirect(r.s, f), frs |-> r.frs \cup {f}]
    ELSE [s |-> r.s, frs |-> r.frs]

WriteStream(room, n, flagFin, ok) ==
    /\ Writable(t) /\ t.abuf # NoBuf /\ t.npkt < MaxPkts
    /\ t.abuf.pos + n <= BufCap /\ t.offset + n <= MaxTxOffset
    /\ n > 0 \/ flagFin \/ ~t.anySent
    /\ \E r \in {PopAll(t, room, {})} : \E wlen \in {Min({n, r.left})} :
       \E w \in {DirectOrQueued(r, n, wlen, DirectFrame(r.s, wlen, flagFin /\ wlen = n))} :
         t' = IF ok THEN Track(w.s, w.frs) ELSE WriteFails(w.s, w.frs)

----------------------------------------------------------------------------
\* Packets in flight.

\* ngtcp2_conn_close_stream: the stream's queue goes with it.
CloseStream(s) ==
    [FramesDel(s, s.frq) EXCEPT !.frq = {}, !.strm = "closed"]

AllFinAcked(s) == s.finAcked /\ 0 .. (s.offset - 1) \subseteq s.acked

\* ngtcp2_rtb_recv_ack, process_acked_pkt: the stream learns what has
\* arrived, may be done, and the entry and its frames go.
RecvAck(e) ==
    LET known == t.strm # "closed"
        s1 == [t EXCEPT !.ents = @ \ {e},
                        !.acked = IF known
                                  THEN @ \cup UNION {FrameBytes(f) : f \in e.frs}
                                  ELSE @,
                        !.anyAcked = TRUE,
                        !.finAcked = @ \/ (known /\ \E f \in e.frs : f.fin)]
        s2 == FramesDel(s1, e.frs)
    IN  /\ Live(t)
        /\ t' = IF t.strm = "shut_wr" /\ AllFinAcked(s2) THEN CloseStream(s2)
                ELSE s2

\* rtb_reclaim_frame: the frames of the entry that are still needed are
\* copied to the stream's queue, each copy with its own reference; the
\* originals stay with the entry.
ReclaimableFrame(s, f) ==
    /\ s.strm \notin {"closed", "reset"}
    /\ \/ f.fin
       \/ FrameBytes(f) \ s.acked # {}
       \/ /\ f.off = 0 /\ f.len = 0 /\ s.offset = 0
          /\ ~s.anyAcked /\ s.strm # "shut_wr"

CopyFrame(s, f) == [SetTxbuf(s, f) EXCEPT !.frq = @ \cup {f}]

RECURSIVE ReclaimFrames(_, _)
ReclaimFrames(s, F) ==
    IF F = {} THEN s
    ELSE LET f == CHOOSE g \in F : \A h \in F : g.off <= h.off
         IN  IF ~ReclaimableFrame(s, f) THEN ReclaimFrames(s, F \ {f})
             ELSE IF KeyTaken(s, f) THEN [s EXCEPT !.conn = "failed"]
             ELSE ReclaimFrames(CopyFrame(s, f), F \ {f})

Mark(s, e, st) == [s EXCEPT !.ents = (@ \ {e}) \cup {[e EXCEPT !.st = st]}]

\* rtb_on_pkt_lost: frames already copied for a probe are not copied again.
PktLost(e) ==
    /\ Live(t) /\ e.st \in {"out", "reclaimed"}
    /\ t' = Mark(IF e.st = "out" THEN ReclaimFrames(t, e.frs) ELSE t, e, "lost")

\* ngtcp2_rtb_reclaim_on_pto
ReclaimOnPto(e) ==
    /\ Live(t) /\ e.st = "out"
    /\ \A d \in t.ents : d.st = "out" => e.pn <= d.pn
    /\ t' = Mark(ReclaimFrames(t, e.frs), e, "reclaimed")

\* ngtcp2_rtb_remove_expired_lost_pkt, ngtcp2_rtb_remove_excessive_lost_pkt:
\* the oldest entry goes.
RemoveLost(e) ==
    /\ Live(t) /\ e.st = "lost"
    /\ \A d \in t.ents : e.pn <= d.pn
    /\ t' = [FramesDel(t, e.frs) EXCEPT !.ents = @ \ {e}]

\* conn_shutdown_stream_write, conn_recv_stop_sending: the queue is cleared.
ResetStream ==
    /\ Live(t) /\ t.strm \in {"open", "shut_wr"}
    /\ ~AllFinAcked(t)
    /\ t' = [FramesDel(t, t.frq) EXCEPT !.frq = {}, !.strm = "reset"]

\* RESET_STREAM is acknowledged: process_acked_pkt closes the stream.
ResetAcked == Live(t) /\ t.strm = "reset" /\ t' = CloseStream(t)

\* ngtcp2_conn_del: conn_tx_dgramq_clear, pktns_free with ngtcp2_rtb_free,
\* and the streams.
RECURSIVE ReleaseAll(_, _)
ReleaseAll(s, q) ==
    IF q = <<>> THEN s ELSE ReleaseAll(Release(s, Head(q)), Tail(q))

RECURSIVE EntriesDel(_, _)
EntriesDel(s, E) ==
    IF E = {} THEN s
    ELSE LET e == CHOOSE d \in E : TRUE
         IN  EntriesDel(FramesDel(s, e.frs), E \ {e})

ConnDel ==
    LET s1 == ReleaseAll(t, t.dgramq)
        s2 == EntriesDel(FramesDel(s1, t.chain), t.ents)
    IN  /\ t.conn # "deleted"
        /\ t' = [CloseStream(s2) EXCEPT !.dgramq = <<>>, !.chain = {},
                                        !.ents = {}, !.conn = "deleted"]

NextTx ==
    \/ AllocStreamBuf \/ CancelStreamBuf
    \/ \E d, n \in 0 .. BufCap, fin \in BOOLEAN : SubmitStreamBuf(d, n, fin)
    \/ AllocDgramBuf \/ SubmitDgramBuf \/ CancelDgramBuf
    \/ AppAlloc \/ AppRelease
    \/ \E room \in 1 .. 2, ok \in BOOLEAN : NextTxPkt(room, ok)
    \/ \E o \in t.pkts : ReleaseTxPkt(o)
    \/ \E room \in 1 .. 2, n \in 0 .. BufCap, fin, ok \in BOOLEAN :
          WriteStream(room, n, fin, ok)
    \/ \E e \in t.ents :
          RecvAck(e) \/ PktLost(e) \/ ReclaimOnPto(e) \/ RemoveLost(e)
    \/ ResetStream \/ ResetAcked \/ ConnDel

----------------------------------------------------------------------------
\* Properties.

LiveFrames(s) == s.frq \cup s.chain \cup UNION {e.frs : e \in s.ents}

HeldBy(F, o) == Cardinality({f \in F : f.own = o})

One(b) == IF b THEN 1 ELSE 0

TxHolders(s, o) ==
    One(s.sbuf.own = o) + One(s.dbuf = o) + One(s.abuf.own = o)
      + Cardinality({i \in DOMAIN s.dgramq : s.dgramq[i] = o})
      + HeldBy(s.frq, o) + HeldBy(s.chain, o)
      + MapThenSumSet(LAMBDA e : HeldBy(e.frs, o), s.ents)
      + One(o \in s.pkts)

\* The count of every owner is the number of descriptors that hold it: the
\* application's handles, the queued datagrams, the frames of the stream's
\* queue, of the packet under construction and of every packet in flight, and
\* the packets handed out.  Nothing is released twice, used after it is gone
\* or leaked, whatever the order of splits, probes, losses, late
\* acknowledgements, resets and deletion, and the number of packets out is
\* the one the limit of ngtcp2_conn_next_tx_pkt is compared with.
TxRefsExact ==
    /\ ~t.fault
    /\ \A o \in Owners : t.ref[o] = TxHolders(t, o)
    /\ t.outstanding = Cardinality(t.pkts)

\* A frame reads, at every one of its offsets, the byte the application
\* submitted for that offset: cutting off acknowledged data
\* (strm_streamfrq_unacked_pop_txbuf), splitting to fit a packet
\* (ngtcp2_strm_streamfrq_pop) and copying for retransmission
\* (rtb_reclaim_frame) keep position and offset together, and the memory is
\* not handed out again while a frame can still be sent from it.
TxBytesIntact ==
    \A f \in LiveFrames(t) : \A i \in 0 .. (f.len - 1) :
        t.mem[f.own][f.pos + i] = f.off + i
=============================================================================
