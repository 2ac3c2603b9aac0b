----------------------------- MODULE StreamSend -----------------------------
(***************************************************************************)
(* The send half of the streams of one connection with the retransmission  *)
(* buffer of the application packet number space: stream data and FIN,     *)
(* RESET_STREAM, acknowledgements, loss, probe timeouts, and the sender's  *)
(* side of flow control.                                                   *)
(* Source: lib/ngtcp2_conn.c, lib/ngtcp2_strm.c, lib/ngtcp2_rtb.c.         *)
(*                                                                         *)
(* A packet carries one frame: the frames of a larger packet are           *)
(* acknowledged, lost and reclaimed together, which is one ACK or one loss *)
(* event for several packets here.  The receive half of a stream is        *)
(* abstracted to the moment it is done.  Time is abstracted: a packet      *)
(* below the largest acknowledged one may be declared lost at any          *)
(* detection, and a timer that is armed may fire.                          *)
(***************************************************************************)
EXTENDS Integers, FiniteSets, FiniteSetsExt

CONSTANTS
    Streams,        \* stream IDs
    MaxOffset,      \* bound on stream offsets, and on the connection's
    MaxPktNum,      \* bound on packet numbers
    InitialMaxStreamData,   \* remote transport parameters
    InitialMaxData,
    PktThreshold,   \* pkt_thres of rtb_detect_lost_pkt
    EmptyFrames     \* may the application start a stream with an empty frame?

ASSUME SendConstants ==
    /\ IsFiniteSet(Streams)
    /\ MaxOffset \in Nat /\ MaxPktNum \in Nat /\ PktThreshold \in Nat
    /\ InitialMaxStreamData \in 0 .. MaxOffset
    /\ InitialMaxData \in 0 .. MaxOffset
    /\ EmptyFrames \in BOOLEAN

VARIABLES
    strm,     \* ngtcp2_strm: the tx fields, the flags and strmq membership
    tx,       \* conn->tx: connection flow control
    frq,      \* pktns->tx.frq: RESET_STREAM frames to be written again
    rtb,      \* pktns->rtb.ents by packet number
    pkt,      \* last packet number sent, largest acknowledged, loss timer armed
    num,      \* the counters of ngtcp2_rtb
    probe     \* rtb->probe_pkt_left

vars == <<strm, tx, frq, rtb, pkt, num, probe>>

Offsets == 0 .. MaxOffset
PktNums == 0 .. MaxPktNum

Flags == {"SHUT_WR", "RESET_STREAM", "SEND_RESET_STREAM", "RESET_STREAM_ACKED",
          "STOP_SENDING_RECVED", "FIN_ACKED", "ANY_ACKED", "ANY_SENT"}

\* A STREAM frame with the bytes from begin up to end; a RESET_STREAM frame has
\* its final size in both.
Frame(b, e, f) == [begin |-> b, end |-> e, fin |-> f]
Bytes(f) == f.begin .. (f.end - 1)

Kinds == {"none", "STREAM", "RESET_STREAM", "PING"}
EntryFlags == {"LOST_RETRANSMITTED", "PTO_RECLAIMED", "PTO_ELICITING"}

\* ngtcp2_rtb_entry; a packet that is not (or no longer) tracked is NoEntry.
EntryNotPto(k, s, f) == [kind |-> k, strm |-> s, fr |-> f, flags |-> {}]
Entry(k, s, f) == [kind |-> k, strm |-> s, fr |-> f, flags |-> {"PTO_ELICITING"}]
NoEntry == [kind |-> "none", strm |-> {}, fr |-> Frame(0, 0, FALSE), flags |-> {}]

Init ==
    /\ strm = [s \in Streams |->
                 [ open       |-> TRUE,
                   flags      |-> {},
                   offset     |-> 0,
                   max_offset |-> InitialMaxStreamData,
                   acked      |-> {},     \* acked_offset: acknowledged bytes
                   streamfrq  |-> {},     \* frames to be written (again)
                   queued     |-> FALSE,  \* in conn->tx.strmq
                   rd_done    |-> FALSE ] ]  \* the receive half has nothing left
    /\ tx = [offset |-> 0, max_offset |-> InitialMaxData]
    /\ frq = {}
    /\ rtb = [p \in PktNums |-> NoEntry]
    /\ pkt = [last |-> -1, largest_acked |-> -1, loss_time |-> FALSE]
    /\ num = [retransmittable |-> 0, pto_eliciting |-> 0, lost |-> 0]
    /\ probe = 0

-----------------------------------------------------------------------------
(* ngtcp2_strm *)

\* ngtcp2_strm_is_all_tx_data_fin_acked
AllFinAcked(st) == "FIN_ACKED" \in st.flags /\ 0 .. (st.offset - 1) \subseteq st.acked

\* ngtcp2_conn_close_stream_if_shut_rdwr
CloseOnFinAcked(st) ==
    IF st.open /\ st.rd_done /\ "SHUT_WR" \in st.flags
       /\ {"RESET_STREAM_ACKED", "FIN_ACKED"} \cap st.flags # {}
    THEN [st EXCEPT !.open = FALSE, !.streamfrq = {}, !.queued = FALSE]
    ELSE st

CloseIfDone(st) ==
    IF /\ st.open
       /\ st.rd_done
       /\ "SHUT_WR" \in st.flags
       /\ {"RESET_STREAM", "RESET_STREAM_ACKED"} \subseteq st.flags \/ AllFinAcked(st)
    THEN [st EXCEPT !.open = FALSE, !.streamfrq = {}, !.queued = FALSE]
    ELSE st

\* conn_fc_credits
CreditsOfStream(s) == strm[s].max_offset - strm[s].offset

Credits(s) ==
    LET a == strm[s].max_offset - strm[s].offset
        b == tx.max_offset - tx.offset
    IN  IF a < b THEN a ELSE b

\* strm_streamfrq_unacked_pop: the frame is not dropped when its turn comes.
Pending(st, f) ==
    \/ ~(Bytes(f) \subseteq st.acked)
    \/ f.fin /\ "FIN_ACKED" \notin st.flags
    \/ /\ f = Frame(0, 0, FALSE)
       /\ st.offset = 0
       /\ "ANY_ACKED" \notin st.flags

\* The first frame in offset order that is not dropped.
IsTop(st, f) ==
    /\ f \in st.streamfrq
    /\ Pending(st, f)
    /\ \A g \in st.streamfrq : Pending(st, g) => f.begin <= g.begin

\* ngtcp2_strm_get_unacked_range_after, cut to the frame: [b, e) is the first
\* run of bytes of f that are not acknowledged (empty when all are).
IsUnackedRange(st, f, b, e) ==
    /\ f.begin <= b /\ b <= e /\ e <= f.end
    /\ f.begin .. (b - 1) \subseteq st.acked
    /\ b .. (e - 1) \cap st.acked = {}
    /\ e = f.end \/ e \in st.acked
    /\ b = e => b = f.end

\* What a pop leaves in the queue when [b, c) of f's unacknowledged run [b, e)
\* is taken: later frames, and the rest of f, which keeps the FIN.
LeftInQueueNoFin(st, f, b, c, e) ==
    {g \in st.streamfrq : f.begin < g.begin}
    \cup (IF c < e THEN {Frame(c, e, FALSE)} ELSE {})
    \cup (IF e < f.end THEN {Frame(e, f.end, FALSE)} ELSE {})

LeftInQueueWhole(st, f, b, c, e) ==
    {g \in st.streamfrq : f.begin < g.begin}
    \cup (IF c < e THEN {Frame(b, e, f.fin /\ e = f.end)} ELSE {})
    \cup (IF e < f.end THEN {Frame(e, f.end, f.fin)} ELSE {})

LeftInQueue(st, f, b, c, e) ==
    {g \in st.streamfrq : f.begin < g.begin}
    \cup (IF c < e THEN {Frame(c, e, f.fin /\ e = f.end)} ELSE {})
    \cup (IF e < f.end THEN {Frame(e, f.end, f.fin)} ELSE {})

-----------------------------------------------------------------------------
(* ngtcp2_rtb *)

Tracked == {p \in PktNums : rtb[p].kind # "none"}
IsLost(e) == "LOST_RETRANSMITTED" \in e.flags
Retransmittable(e) == e.kind \in {"STREAM", "RESET_STREAM"}

\* rtb_reclaim_frame: is a copy of the entry's frame queued?  A RESET_STREAM
\* whose other copy was acknowledged is recognised by its binder, which the
\* acknowledgement marks together with the stream's RESET_STREAM_ACKED.
Reclaimable(st, e) ==
    /\ st.open
    /\ \/ /\ e.kind = "STREAM"
          /\ "RESET_STREAM" \notin st.flags
          /\ \/ ~(Bytes(e.fr) \subseteq st.acked)
             \/ e.fr.fin
             \/ /\ e.fr = Frame(0, 0, FALSE)
                /\ st.offset = 0
                /\ st.flags \cap {"SHUT_WR", "ANY_ACKED"} = {}
       \/ /\ e.kind = "RESET_STREAM"
          /\ "RESET_STREAM_ACKED" \notin st.flags
          /\ ~AllFinAcked(st)

\* The packets of P whose frame is reclaimed when the streams are S.
Reclaimed(S, P) ==
    {p \in P : Retransmittable(rtb[p]) /\ Reclaimable(S[rtb[p].strm], rtb[p])}

\* The streams with the STREAM frames of the packets R back in their queues.
RequeueAnyStream(S, R) ==
    [s \in Streams |->
       LET F == {rtb[p].fr : p \in {q \in R : rtb[q].kind = "STREAM"}}
       IN  [S[s] EXCEPT !.streamfrq = @ \cup F, !.queued = @ \/ F # {}]]

Requeue(S, R) ==
    [s \in Streams |->
       LET F == {rtb[p].fr : p \in {q \in R : rtb[q].kind = "STREAM" /\ rtb[q].strm = s}}
       IN  [S[s] EXCEPT !.streamfrq = @ \cup F, !.queued = @ \/ F # {}]]

\* The RESET_STREAM frames of the packets R.
ResetsDropped(R) == {}

Resets(R) ==
    {[strm |-> rtb[p].strm, final |-> rtb[p].fr.end]
       : p \in {q \in R : rtb[q].kind = "RESET_STREAM"}}

\* process_acked_pkt for every packet of P.  A stream is closed by the frame
\* that makes it done, so the order of the packets does not matter.
ProcessAcked(P) ==
    [s \in Streams |->
       LET Of(k) == {p \in P : rtb[p].kind = k /\ rtb[p].strm = s}
           F  == {rtb[p].fr : p \in Of("STREAM")}
           st == strm[s]
       IN  IF ~st.open THEN st ELSE CloseIfDone(
             [st EXCEPT
                !.acked = @ \cup UNION {Bytes(f) : f \in F},
                !.flags = @ \cup (IF F # {} THEN {"ANY_ACKED"} ELSE {})
                            \cup (IF \E f \in F : f.fin THEN {"FIN_ACKED"} ELSE {})
                            \cup (IF Of("RESET_STREAM") # {}
                                  THEN {"RESET_STREAM_ACKED"} ELSE {})])]

\* rtb_on_remove and ngtcp2_rtb_reclaim_on_pto: num_retransmittable counts it
CountedEvenReclaimed(e) == Retransmittable(e)
Counted(e) == Retransmittable(e) /\ "PTO_RECLAIMED" \notin e.flags

\* rtb_on_remove, for the entries of P
OnRemove(n, P) ==
    LET Live == {p \in P : ~IsLost(rtb[p])}
    IN  [ retransmittable |-> n.retransmittable -
            Cardinality({p \in Live : Counted(rtb[p])}),
          pto_eliciting |-> n.pto_eliciting -
            Cardinality({p \in Live : "PTO_ELICITING" \in rtb[p].flags}),
          lost |-> n.lost - Cardinality(P \ Live) ]

\* "All entries from ent are considered to be lost": those up to the first one
\* found, which is cut.
LostOnlyCut(p, cut) == p = cut
LostByCut(p, cut) == p <= cut

\* rtb_on_pkt_lost: what a probe timeout reclaimed is not reclaimed again.
ReclaimedOnLossAlways(e) == TRUE
ReclaimedOnLoss(e) == "PTO_RECLAIMED" \notin e.flags

\* rtb_detect_lost_pkt with the acknowledged entries A out of the way and all
\* packets up to cut lost: reclaim the frames of those not reclaimed before,
\* mark the entries, drop the oldest lost ones beyond the threshold.
DetectLost(S, A, n, largest, cut) ==
    LET Left   == Tracked \ A
        Lost   == {p \in Left : LostByCut(p, cut) /\ ~IsLost(rtb[p])}
        AllLost == Lost \cup {p \in Left : IsLost(rtb[p])}
        R      == Reclaimed(S, {p \in Lost : ReclaimedOnLoss(rtb[p])})
        Stale  == {p \in AllLost :
                     Cardinality({q \in AllLost : p <= q}) > PktThreshold}
        after  == OnRemove(n, Lost)
    IN  /\ strm' = Requeue(S, R)
        /\ frq' = frq \cup Resets(R)
        /\ rtb' = [p \in PktNums |->
                     IF p \in A \cup Stale THEN NoEntry
                     ELSE IF p \in Lost
                     THEN [rtb[p] EXCEPT !.flags = @ \cup {"LOST_RETRANSMITTED"}]
                     ELSE rtb[p]]
        /\ num' = [after EXCEPT !.lost = @ + Cardinality(Lost) - Cardinality(Stale)]
        /\ pkt' = [pkt EXCEPT !.largest_acked = largest,
                              !.loss_time = \E p \in Left \ AllLost : p <= largest]

\* rtb_pkt_lost: the packet threshold forces a loss, the time threshold may add
\* any packet, and with it all older ones, below the largest acknowledged one.
CutAllowed(cut, A, largest) ==
    /\ cut <= largest
    /\ \A p \in Tracked \ A : p + PktThreshold <= largest => p <= cut

\* probe_pkt_left after an ack-eliciting packet
ProbeUnchecked == probe - 1
ProbeAfterSend == IF probe > 0 THEN probe - 1 ELSE 0

\* conn_on_pkt_sent, the end of conn_write_pkt: track the packet, count it and
\* use up a probe.
Sent(e, R) ==
    /\ pkt.last < MaxPktNum
    /\ pkt' = [pkt EXCEPT !.last = @ + 1]
    /\ rtb' = [p \in PktNums |->
                 IF p = pkt.last + 1 THEN e
                 ELSE IF p \in R
                 THEN [rtb[p] EXCEPT !.flags = (@ \cup {"PTO_RECLAIMED"}) \ {"PTO_ELICITING"}]
                 ELSE rtb[p]]
    /\ LET k == Cardinality(R)
           j == Cardinality({p \in R : "PTO_ELICITING" \in rtb[p].flags})
       IN  num' = [num EXCEPT
                     !.retransmittable = @ - k + (IF Retransmittable(e) THEN 1 ELSE 0),
                     !.pto_eliciting = @ - j + (IF "PTO_ELICITING" \in e.flags THEN 1 ELSE 0)]
    /\ probe' = ProbeAfterSend

-----------------------------------------------------------------------------
(* The application: ngtcp2_conn_submit_stream_buf, ngtcp2_conn_write_stream, *)
(* ngtcp2_conn_shutdown_stream_write *)

\* New data [offset, offset + n) is taken from the application.
TakeData(st, n, fin) ==
    [st EXCEPT !.offset = @ + n,
               !.flags = @ \cup {"ANY_SENT"} \cup (IF fin THEN {"SHUT_WR"} ELSE {})]

\* ngtcp2_ksl_insert: the key of new data is not in the queue.
KeyFree(st) == \A f \in st.streamfrq : f.begin # st.offset

\* Data is queued without being sent.  An offset that is in the queue already
\* makes ngtcp2_strm_streamfrq_push fail, and nothing changes.
SubmitStreamBuf(s, n, fin) ==
    LET st == strm[s]
    IN  /\ st.open
        /\ "SHUT_WR" \notin st.flags
        /\ n <= Credits(s)
        /\ n > 0 \/ fin
        /\ KeyFree(st)
        /\ strm' = [strm EXCEPT ![s] =
             [TakeData(st, n, fin) EXCEPT
                !.streamfrq = @ \cup {Frame(st.offset, st.offset + n, fin)},
                !.queued = TRUE]]
        /\ tx' = [tx EXCEPT !.offset = @ + n]
        /\ UNCHANGED <<frq, rtb, pkt, num, probe>>

NothingQueued == frq = {} /\ \A s \in Streams : ~strm[s].queued

\* New data goes out at once, after everything that is queued.
WriteStream(s, n, fin) ==
    LET st == strm[s]
    IN  /\ st.open
        /\ "SHUT_WR" \notin st.flags
        /\ NothingQueued
        /\ n <= Credits(s)
        /\ n > 0 \/ fin \/ (EmptyFrames /\ "ANY_SENT" \notin st.flags)
        /\ strm' = [strm EXCEPT ![s] = TakeData(st, n, fin)]
        /\ tx' = [tx EXCEPT !.offset = @ + n]
        /\ Sent(Entry("STREAM", s, Frame(st.offset, st.offset + n, fin)), {})
        /\ UNCHANGED frq

\* A RESET_STREAM is owed and no STREAM frame is sent any more.
ResetNotQueued(st) ==
    [st EXCEPT !.flags = @ \cup {"SHUT_WR", "RESET_STREAM", "SEND_RESET_STREAM"},
               !.streamfrq = {}]
ResetStillOpen(st) ==
    [st EXCEPT !.flags = @ \cup {"RESET_STREAM", "SEND_RESET_STREAM"},
               !.streamfrq = {},
               !.queued = TRUE]
ResetKeepsQueue(st) ==
    [st EXCEPT !.flags = @ \cup {"SHUT_WR", "RESET_STREAM", "SEND_RESET_STREAM"},
               !.queued = TRUE]

ResetStream(st) ==
    [st EXCEPT !.flags = @ \cup {"SHUT_WR", "RESET_STREAM", "SEND_RESET_STREAM"},
               !.streamfrq = {},
               !.queued = TRUE]

\* conn_shutdown_stream_write
ShutdownStreamWrite(s) ==
    /\ strm[s].open
    /\ "RESET_STREAM" \notin strm[s].flags
    /\ ~AllFinAcked(strm[s])
    /\ strm' = [strm EXCEPT ![s] = ResetStream(@)]
    /\ UNCHANGED <<tx, frq, rtb, pkt, num, probe>>

-----------------------------------------------------------------------------
(* conn_write_pkt: what is queued is written, control frames first *)

\* ngtcp2_strm_require_retransmit_reset_stream, with the binder check
ResetNeeded(f) ==
    /\ strm[f.strm].open
    /\ "RESET_STREAM_ACKED" \notin strm[f.strm].flags
    /\ ~AllFinAcked(strm[f.strm])

WriteFrq(f) ==
    /\ ResetNeeded(f)
    /\ frq' = frq \ {f}
    /\ Sent(Entry("RESET_STREAM", f.strm, Frame(f.final, f.final, FALSE)), {})
    /\ UNCHANGED <<strm, tx>>

DropFrq(f) ==
    /\ ~ResetNeeded(f)
    /\ frq' = frq \ {f}
    /\ UNCHANGED <<strm, tx, rtb, pkt, num, probe>>

\* A stream of strmq that owes a RESET_STREAM: the frame is sent and the stream
\* leaves the queue, or the packet is full and the frame waits in frq.
WriteReset(s, room) ==
    LET st == strm[s]
        f  == [strm |-> s, final |-> st.offset]
    IN  /\ frq = {}
        /\ st.queued
        /\ "SEND_RESET_STREAM" \in st.flags
        /\ strm' = [strm EXCEPT ![s].flags = @ \ {"SEND_RESET_STREAM"},
                                ![s].queued = ~room \/ st.streamfrq # {}]
        /\ \/ room /\ UNCHANGED frq
                   /\ Sent(Entry("RESET_STREAM", s, Frame(f.final, f.final, FALSE)), {})
           \/ ~room /\ frq' = {f} /\ UNCHANGED <<rtb, pkt, num, probe>>
        /\ UNCHANGED tx

\* ngtcp2_strm_streamfrq_pop with room for left bytes: at most left bytes of the
\* first unacknowledged run of the first frame are sent.  In the other
\* direction, "no room" puts the run back.
PopAndSend(S, s, left, R) ==
    LET st == S[s]
    IN  \E f \in st.streamfrq : \E b, e \in f.begin .. f.end :
          /\ IsTop(st, f)
          /\ IsUnackedRange(st, f, b, e)
          /\ left > 0 \/ b = e
          /\ LET c == IF e - b > left THEN b + left ELSE e
                 Q == LeftInQueue(st, f, b, c, e)
             IN  /\ strm' = [S EXCEPT ![s].streamfrq = Q, ![s].queued = Q # {}]
                 /\ Sent(Entry("STREAM", s, Frame(b, c, f.fin /\ c = f.end)), R)
          /\ UNCHANGED <<tx, frq>>

CanPop(s) == frq = {} /\ strm[s].queued /\ "SEND_RESET_STREAM" \notin strm[s].flags

WriteStreamfrq(s, left) == CanPop(s) /\ PopAndSend(strm, s, left, {})

\* No room for the run: nothing is sent, acknowledged parts are gone.
StreamfrqNoRoom(s) ==
    LET st == strm[s]
    IN  /\ CanPop(s)
        /\ \E f \in st.streamfrq : \E b, e \in f.begin .. f.end :
             /\ IsTop(st, f)
             /\ IsUnackedRange(st, f, b, e)
             /\ b < e
             /\ strm' = [strm EXCEPT ![s].streamfrq = LeftInQueue(st, f, b, b, e)]
        /\ UNCHANGED <<tx, frq, rtb, pkt, num, probe>>

\* Everything in the queue has been acknowledged: the queue is emptied.  When
\* ngtcp2_strm_streamfrq_unacked_offset finds no offset (or the queue was empty)
\* the stream leaves strmq; otherwise the pop empties it and strmq keeps the
\* stream until the next call.
StreamfrqAcked(s) ==
    LET st == strm[s]
    IN  /\ CanPop(s)
        /\ \A f \in st.streamfrq : ~Pending(st, f)
        /\ strm' = [strm EXCEPT ![s].streamfrq = {},
                                ![s].queued = \E f \in st.streamfrq : f.begin \notin st.acked]
        /\ UNCHANGED <<tx, frq, rtb, pkt, num, probe>>

-----------------------------------------------------------------------------
(* Probes *)

\* The entries ngtcp2_rtb_reclaim_on_pto looks at, from the oldest.
PtoCandidates ==
    {p \in Tracked : /\ Retransmittable(rtb[p])
                     /\ rtb[p].flags \cap {"LOST_RETRANSMITTED", "PTO_RECLAIMED"} = {}}

ProbeDue == probe > 0 /\ NothingQueued

\* ngtcp2_rtb_reclaim_on_pto finds packet p, marks it and the older ones that had
\* nothing left to send, and the copy of its frame goes out in this packet.
WriteProbe(p, left) ==
    LET R == {q \in PtoCandidates : q <= p}
        e == rtb[p]
    IN  /\ ProbeDue
        /\ num.retransmittable > 0
        /\ p \in PtoCandidates
        /\ Reclaimed(strm, R) = {p}
        /\ \/ e.kind = "STREAM" /\ PopAndSend(Requeue(strm, {p}), e.strm, left, R)
           \/ /\ e.kind = "RESET_STREAM"
              /\ Sent(Entry("RESET_STREAM", e.strm, e.fr), R)
              /\ UNCHANGED <<strm, tx, frq>>

\* Nothing could be reclaimed.  With nothing left to wait for no probe is sent;
\* otherwise, or without anything to reclaim at all, the probe is a PING.
NoProbe ==
    LET R == PtoCandidates
    IN  /\ ProbeDue
        /\ num.retransmittable > 0
        /\ Reclaimed(strm, R) = {}
        /\ num.pto_eliciting =
             Cardinality({p \in R : "PTO_ELICITING" \in rtb[p].flags})
        /\ rtb' = [p \in PktNums |->
                     IF p \in R
                     THEN [rtb[p] EXCEPT !.flags = (@ \cup {"PTO_RECLAIMED"}) \ {"PTO_ELICITING"}]
                     ELSE rtb[p]]
        /\ num' = [num EXCEPT !.retransmittable = @ - Cardinality(R),
                              !.pto_eliciting = 0]
        /\ probe' = 0
        /\ UNCHANGED <<strm, tx, frq, pkt>>

PingEntry(fl) == [NoEntry EXCEPT !.kind = "PING", !.flags = fl]

WriteProbePing ==
    LET R == IF num.retransmittable > 0 THEN PtoCandidates ELSE {}
    IN  /\ ProbeDue
        /\ Reclaimed(strm, R) = {}
        /\ R # {} => num.pto_eliciting >
                       Cardinality({p \in R : "PTO_ELICITING" \in rtb[p].flags})
        /\ Sent(PingEntry({}), R)
        /\ UNCHANGED <<strm, tx, frq>>

\* Keep-alive, or a PING to have non-eliciting packets acknowledged.
WritePing ==
    /\ probe = 0
    /\ NothingQueued
    /\ Sent(PingEntry({"PTO_ELICITING"}), {})
    /\ UNCHANGED <<strm, tx, frq>>

\* ngtcp2_conn_on_loss_detection_timer without a loss time: a probe timeout.
PtoTimer ==
    /\ ~pkt.loss_time
    /\ num.pto_eliciting > 0
    /\ probe' = 2
    /\ UNCHANGED <<strm, tx, frq, rtb, pkt, num>>

\* ngtcp2_conn_on_loss_detection_timer with a loss time
LossTimer ==
    /\ pkt.loss_time
    /\ \E cut \in Tracked \cup {-1} :
         /\ CutAllowed(cut, {}, pkt.largest_acked)
         /\ DetectLost(strm, {}, num, pkt.largest_acked, cut)
    /\ UNCHANGED <<tx, probe>>

\* ngtcp2_rtb_remove_expired_lost_pkt: the oldest lost packets, up to p
RemoveExpiredLost(p) ==
    LET X == {q \in Tracked : q <= p /\ IsLost(rtb[q])}
    IN  /\ X # {}
        /\ rtb' = [q \in PktNums |-> IF q \in X THEN NoEntry ELSE rtb[q]]
        /\ num' = [num EXCEPT !.lost = @ - Cardinality(X)]
        /\ UNCHANGED <<strm, tx, frq, pkt, probe>>

-----------------------------------------------------------------------------
(* Frames from the peer *)

\* conn_recv_ack, ngtcp2_rtb_recv_ack: of the packets that the frame acknowledges,
\* A are still tracked, and l is the largest.  When none is tracked only
\* largest_acked changes.
RecvAck(A, l) ==
    LET largest == Max({l, pkt.largest_acked})
    IN  /\ l \in A \/ l \notin Tracked
        /\ l <= pkt.last
        /\ \A p \in A : p <= l
        /\ \/ /\ A # {}
              /\ \E cut \in (Tracked \ A) \cup {-1} :
                   /\ CutAllowed(cut, A, largest)
                   /\ DetectLost(ProcessAcked(A), A, OnRemove(num, A), largest, cut)
              /\ probe' = 0
           \/ /\ A = {}
              /\ pkt' = [pkt EXCEPT !.largest_acked = largest]
              /\ UNCHANGED <<strm, frq, rtb, num, probe>>
        /\ UNCHANGED tx

\* conn_recv_max_data; a value that is not larger is ignored
RecvMaxData(v) ==
    /\ tx.max_offset < v
    /\ tx' = [tx EXCEPT !.max_offset = v]
    /\ UNCHANGED <<strm, frq, rtb, pkt, num, probe>>

\* conn_recv_max_stream_data
RecvMaxStreamData(s, v) ==
    /\ strm[s].open
    /\ strm[s].max_offset < v
    /\ strm' = [strm EXCEPT ![s].max_offset = v]
    /\ UNCHANGED <<tx, frq, rtb, pkt, num, probe>>

\* conn_recv_stop_sending
RecvStopSending(s) ==
    LET st == [strm[s] EXCEPT !.flags = @ \cup {"SHUT_WR", "STOP_SENDING_RECVED"},
                              !.streamfrq = {}]
    IN  /\ strm[s].open
        /\ "STOP_SENDING_RECVED" \notin strm[s].flags
        /\ strm' = [strm EXCEPT ![s] = CloseIfDone(
             IF AllFinAcked(strm[s]) \/ "RESET_STREAM" \in strm[s].flags
             THEN st ELSE ResetStream(st))]
        /\ UNCHANGED <<tx, frq, rtb, pkt, num, probe>>

\* The receive half is done: conn_recv_stream and conn_recv_reset_stream end
\* with ngtcp2_conn_close_stream_if_shut_rdwr.
RecvHalfDone(s) ==
    /\ strm[s].open
    /\ ~strm[s].rd_done
    /\ strm' = [strm EXCEPT ![s] = CloseIfDone([@ EXCEPT !.rd_done = TRUE])]
    /\ UNCHANGED <<tx, frq, rtb, pkt, num, probe>>

-----------------------------------------------------------------------------
Next ==
    \/ \E s \in Streams, n \in Offsets, fin \in BOOLEAN :
         SubmitStreamBuf(s, n, fin) \/ WriteStream(s, n, fin)
    \/ \E s \in Streams : \/ ShutdownStreamWrite(s)
                          \/ RecvStopSending(s)
                          \/ RecvHalfDone(s)
                          \/ StreamfrqNoRoom(s)
                          \/ StreamfrqAcked(s)
    \/ \E s \in Streams, left \in Offsets : WriteStreamfrq(s, left)
    \/ \E s \in Streams, room \in BOOLEAN : WriteReset(s, room)
    \/ \E f \in frq : WriteFrq(f) \/ DropFrq(f)
    \/ \E p \in PktNums, left \in Offsets : WriteProbe(p, left)
    \/ NoProbe \/ WriteProbePing \/ WritePing \/ PtoTimer \/ LossTimer
    \/ \E p \in PktNums : RemoveExpiredLost(p)
    \/ \E A \in SUBSET Tracked, l \in PktNums : RecvAck(A, l)
    \/ \E v \in Offsets : RecvMaxData(v) \/ \E s \in Streams : RecvMaxStreamData(s, v)

Spec == Init /\ [][Next]_vars

-----------------------------------------------------------------------------
(* Properties *)

FrameType == [begin : Offsets, end : Offsets, fin : BOOLEAN]
StrmType ==
    [open : BOOLEAN, flags : SUBSET Flags, offset : Offsets, max_offset : Offsets,
     acked : SUBSET Offsets, streamfrq : SUBSET FrameType, queued : BOOLEAN,
     rd_done : BOOLEAN]
EntryType ==
    [kind : Kinds, strm : Streams \cup {{}}, fr : FrameType, flags : SUBSET EntryFlags]

\* Every variable has its type; a frame in a packet belongs to a stream.
TypeOK ==
    /\ strm \in [Streams -> StrmType]
    /\ tx \in [offset : Offsets, max_offset : Offsets]
    /\ frq \in SUBSET [strm : Streams, final : Offsets]
    /\ rtb \in [PktNums -> EntryType]
    /\ \A p \in PktNums : Retransmittable(rtb[p]) => rtb[p].strm \in Streams
    /\ pkt \in [last : -1 .. MaxPktNum, largest_acked : -1 .. MaxPktNum, loss_time : BOOLEAN]
    /\ num \in [retransmittable : Nat, pto_eliciting : Nat, lost : Nat]
    /\ probe \in 0 .. 2

\* Where stream s's STREAM frames wait: in the queue, or in a packet that is
\* neither lost nor reclaimed.
Waiting(s) ==
    {[at |-> "streamfrq", fr |-> f] : f \in strm[s].streamfrq}
    \cup {[at |-> p, fr |-> rtb[p].fr] :
            p \in {q \in PtoCandidates : rtb[q].kind = "STREAM" /\ rtb[q].strm = s}}

\* No data is forgotten and none is sent twice at a time: as long as the stream
\* is not reset, each byte the application handed over that is not acknowledged
\* is in exactly one place from which it will be sent or acknowledged, and so is
\* the FIN; and a stream opened with an empty frame keeps that frame until the
\* peer is known to have the stream.  Late acknowledgements, probes, losses and splits all move frames
\* between the queue (ngtcp2_strm_streamfrq_pop) and the retransmission buffer
\* (rtb_reclaim_frame).
DataNotForgotten ==
    \A s \in Streams :
       strm[s].open /\ "RESET_STREAM" \notin strm[s].flags =>
         /\ \A x \in (0 .. (strm[s].offset - 1)) \ strm[s].acked :
              Cardinality({w \in Waiting(s) : x \in Bytes(w.fr)}) = 1
         /\ "SHUT_WR" \in strm[s].flags /\ "FIN_ACKED" \notin strm[s].flags =>
              Cardinality({w \in Waiting(s) : w.fr.fin}) = 1
         /\ /\ "ANY_SENT" \in strm[s].flags
            /\ strm[s].offset = 0
            /\ strm[s].flags \cap {"SHUT_WR", "ANY_ACKED"} = {}
            => Waiting(s) # {}

\* A reset is not forgotten either: until it is acknowledged (or all data and
\* the FIN are) the RESET_STREAM is owed by the stream, waits in frq or is in a
\* packet that is neither lost nor reclaimed, and in one of them only.
ResetNotForgotten ==
    \A s \in Streams :
       /\ strm[s].open
       /\ "RESET_STREAM" \in strm[s].flags
       /\ "RESET_STREAM_ACKED" \notin strm[s].flags
       /\ ~AllFinAcked(strm[s])
       => (IF "SEND_RESET_STREAM" \in strm[s].flags THEN 1 ELSE 0)
            + Cardinality({f \in frq : f.strm = s})
            + Cardinality({p \in PtoCandidates :
                             rtb[p].kind = "RESET_STREAM" /\ rtb[p].strm = s})
          = 1

\* A frame that waits is acknowledged as a whole or not at all.  Frames are split
\* and never merged, so an acknowledgement is of an ancestor or of another piece:
\* the code of strm_streamfrq_unacked_pop_txbuf for holes has nothing to do.
AckedAsAWhole ==
    \A s \in Streams : \A w \in Waiting(s) :
       Bytes(w.fr) \subseteq strm[s].acked \/ Bytes(w.fr) \cap strm[s].acked = {}

\* streamfrq, which is keyed by offset, never has two frames that overlap or
\* share a key, no frame beyond what was handed over, and a FIN only on the last
\* frame: the assertion of strm_streamfrq_unacked_pop.
QueueSound ==
    \A s \in Streams : \A f \in strm[s].streamfrq :
       /\ f.end <= strm[s].offset
       /\ f.fin => f.end = strm[s].offset /\ "SHUT_WR" \in strm[s].flags
       /\ \A g \in strm[s].streamfrq : f = g \/ f.end <= g.begin \/ g.end <= f.begin
       /\ \A g \in strm[s].streamfrq : f # g => f.begin # g.begin
       /\ \A g \in strm[s].streamfrq : f.fin => g.begin <= f.begin

\* A stream with something to send is in strmq.
OwedStreamsQueued ==
    \A s \in Streams :
       strm[s].streamfrq # {} \/ (strm[s].open /\ "SEND_RESET_STREAM" \in strm[s].flags)
         => strm[s].queued

\* The peer's limits are kept, and the connection's offset is the sum of the
\* streams' (conn_enforce_flow_control subtracts without a check).
WithinPeerLimits ==
    /\ \A s \in Streams : strm[s].offset <= strm[s].max_offset
    /\ tx.offset <= tx.max_offset
    /\ tx.offset = MapThenSumSet(LAMBDA s : strm[s].offset, Streams)

\* The counters of ngtcp2_rtb, decremented under assertions in several places,
\* count the entries they stand for.
CountersMatch ==
    /\ num.retransmittable = Cardinality(PtoCandidates)
    /\ num.pto_eliciting = Cardinality({p \in Tracked : /\ ~IsLost(rtb[p])
                                                        /\ "PTO_ELICITING" \in rtb[p].flags})
    /\ num.lost = Cardinality({p \in Tracked : IsLost(rtb[p])})

\* Lost packets are older than all others: what the assertions of
\* ngtcp2_rtb_remove_excessive_lost_pkt and _expired_lost_pkt rest on, and the
\* walk of rtb_detect_lost_pkt, which stops at the first lost packet.
LostAreOldest ==
    \A p, q \in Tracked : IsLost(rtb[p]) /\ q < p => IsLost(rtb[q])

\* Every RESET_STREAM and every copy of one carries the same final size, which
\* covers all STREAM frames in flight.
FinalSizeAgrees ==
    /\ \A f \in frq : f.final = strm[f.strm].offset
    /\ \A p \in Tracked :
         /\ rtb[p].kind = "RESET_STREAM" => rtb[p].fr.end = strm[rtb[p].strm].offset
         /\ rtb[p].kind = "STREAM" => rtb[p].fr.end <= strm[rtb[p].strm].offset

\* A stream is closed if and only if its receive half is done and all data and
\* the FIN, or the reset, are acknowledged: whichever event comes last closes
\* it, and none closes it early.
ClosedIffDone ==
    \A s \in Streams :
       ~strm[s].open <=>
         /\ strm[s].rd_done
         /\ "SHUT_WR" \in strm[s].flags
         /\ \/ {"RESET_STREAM", "RESET_STREAM_ACKED"} \subseteq strm[s].flags
            \/ AllFinAcked(strm[s])

\* The sender is never stuck with unacknowledged data or an unacknowledged
\* reset: something is queued, or the loss detection timer is armed
\* (ngtcp2_conn_set_loss_detection_timer: a loss time, or num_pto_eliciting).
NeverStuck ==
    \A s \in Streams :
       /\ strm[s].open
       /\ strm[s].offset > 0 \/ "SHUT_WR" \in strm[s].flags
       /\ ~(0 .. (strm[s].offset - 1) \subseteq strm[s].acked)
            \/ ("SHUT_WR" \in strm[s].flags /\ "FIN_ACKED" \notin strm[s].flags)
       /\ "RESET_STREAM_ACKED" \notin strm[s].flags
       => ~NothingQueued \/ pkt.loss_time \/ num.pto_eliciting > 0

\* After a reset no packet with a STREAM frame of the stream is sent, whatever
\* is lost or probed for later.
NoStreamFrameAfterReset ==
    [][\A p \in PktNums :
         rtb[p].kind = "none" /\ rtb'[p].kind = "STREAM" =>
           "RESET_STREAM" \notin strm[rtb'[p].strm].flags]_vars

\* ngtcp2_strm_streamfrq_push "returns 0 if it succeeds" or NGTCP2_ERR_NOMEM: the
\* offset at which ngtcp2_conn_submit_stream_buf queues new data is free.
SubmitOffsetFree ==
    \A s \in Streams :
       strm[s].open /\ "SHUT_WR" \notin strm[s].flags =>
         \A f \in strm[s].streamfrq : f.begin # strm[s].offset

\* Neither data, nor a FIN, nor a reset is forgotten, and none is sent from two
\* places at a time (DataNotForgotten, ResetNotForgotten).
NothingForgotten == DataNotForgotten /\ ResetNotForgotten

\* streamfrq and strmq hold what they should: frames that fit together, that are
\* acknowledged as a whole or not at all, of streams that will get their turn.
QueuesSound == QueueSound /\ AckedAsAWhole /\ OwedStreamsQueued

\* The counters and the order of the retransmission buffer, on which assertions
\* rest, are right, and its timer is armed whenever something is outstanding.
RtbSound == CountersMatch /\ LostAreOldest /\ NeverStuck

\* The final sizes of streams and packets agree, and a stream is closed exactly
\* when it is done.
StreamsAgree == FinalSizeAgrees /\ ClosedIffDone
=============================================================================
