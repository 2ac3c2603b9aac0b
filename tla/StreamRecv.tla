----------------------------- MODULE StreamRecv -----------------------------
(***************************************************************************)
(* The receive half of the streams of one connection: STREAM and           *)
(* RESET_STREAM frames, reordering, delivery to the application, stream    *)
(* and connection flow control, and ngtcp2_conn_shutdown_stream_read.      *)
(* Source: lib/ngtcp2_conn.c, lib/ngtcp2_strm.c, lib/ngtcp2_reorder.c.     *)
(*                                                                         *)
(* The streams are the peer's.  The send half of a bidirectional stream is *)
(* abstracted to the moment all its data and FIN are acknowledged.         *)
(* A frame is what the peer sends, in any order, any number of times.      *)
(***************************************************************************)
EXTENDS Reorder, FiniteSetsExt

CONSTANTS
    Streams,        \* stream IDs the peer may use
    UniStreams,     \* the unidirectional ones
    MaxVarint,      \* NGTCP2_MAX_VARINT
    MaxFrameLen,    \* bound on the length of a STREAM frame
    InitialMaxStreamData,  \* local.transport_params.initial_max_stream_data_*
    InitialMaxData,        \* local.transport_params.initial_max_data
    MaxStreamWindow,       \* local.settings.max_stream_window (0: no tuning)
    MaxWindow,             \* local.settings.max_window (0: no tuning)
    MaxFragments,          \* the 4000 entries of strm_reorder_heavily_fragmented
    StopInCallback,        \* may recv_stream_data call shutdown_stream_read?
    NoOffset               \* "no offset", different from every offset

ASSUME RecvConstants ==
    /\ IsFiniteSet(Streams) /\ UniStreams \subseteq Streams
    /\ MaxVarint \in Nat /\ MaxFrameLen \in Nat
    /\ InitialMaxStreamData \in 0 .. MaxVarint
    /\ InitialMaxData \in 0 .. MaxVarint
    /\ MaxStreamWindow \in Nat /\ MaxWindow \in Nat /\ MaxFragments \in Nat
    /\ StopInCallback \in BOOLEAN
    /\ NoOffset \notin 0 .. MaxVarint

VARIABLES
    strm,   \* ngtcp2_strm: the rx fields, the flags and tx-queue membership
    rx,     \* conn->rx: connection flow control
    err,    \* the error the last call returned ("none", or the connection is over)
    refs,   \* buffer-owner references taken for reordered data of a stream
    app     \* what the application has seen and done (history)

vars == <<strm, rx, err, refs, app>>

Offsets == 0 .. MaxVarint

Flags == {"SHUT_RD", "SHUT_WR", "STOP_SENDING", "SEND_STOP_SENDING",
          "RESET_STREAM_RECVED", "FIN_ACKED"}

-----------------------------------------------------------------------------
(* ngtcp2_strm *)

\* ngtcp2_conn_init_stream for a stream of the peer.
InitStream(s) ==
    [ state             |-> "open",
      flags             |-> IF s \in UniStreams THEN {"SHUT_WR", "FIN_ACKED"} ELSE {},
      cont_offset       |-> 0,
      reorder           |-> {},
      last_offset       |-> 0,
      max_offset        |-> InitialMaxStreamData,
      unsent_max_offset |-> InitialMaxStreamData,
      window            |-> InitialMaxStreamData,
      queued            |-> FALSE ]

\* ngtcp2_conn_find_stream, and the stream a first frame opens.
Opened(s) == IF strm[s].state = "none" THEN InitStream(s) ELSE strm[s]

\* ngtcp2_strm_rx_offset
IsRxOffset(st, off) == IsFirstGap(st.reorder, st.cont_offset, off)

\* ngtcp2_conn_extend_max_offset and the arithmetic of
\* conn_extend_max_stream_offset: saturate at NGTCP2_MAX_VARINT.
ExtendUncapped(unsent, n) == unsent + n

Extend(unsent, n) ==
    IF n > MaxVarint \/ unsent > MaxVarint - n THEN MaxVarint ELSE unsent + n

\* conn_should_send_max_stream_data, conn_should_send_max_data
ShouldSendMaxFullWindow(w) == w.window < w.unsent_max_offset - w.max_offset

ShouldSendMax(w) == w.window < 4 * (w.unsent_max_offset - w.max_offset)

\* The window auto-tuning of conn_write_pkt: the window doubles up to limit
\* when updates follow each other quickly.
TunedWindow(w, limit, fast) ==
    IF limit # 0 /\ fast /\ limit > w.window
    THEN IF 2 * w.window > limit THEN limit ELSE 2 * w.window
    ELSE w.window

\* Without the saturation at NGTCP2_MAX_VARINT.
AdvertisedWraps(w, limit, fast) ==
    LET target == TunedWindow(w, limit, fast)
        new    == (w.unsent_max_offset + (target - w.window)) % (MaxVarint + 1)
    IN  [w EXCEPT !.window = target, !.max_offset = new, !.unsent_max_offset = new]

\* The MAX_DATA / MAX_STREAM_DATA part of conn_write_pkt: tune the window and
\* advertise all the credit that has not been advertised.
Advertised(w, limit, fast) ==
    LET target == TunedWindow(w, limit, fast)
        new    == IF w.unsent_max_offset + (target - w.window) > MaxVarint
                  THEN MaxVarint
                  ELSE w.unsent_max_offset + (target - w.window)
    IN  [w EXCEPT !.window = target, !.max_offset = new, !.unsent_max_offset = new]

\* ngtcp2_conn_close_stream_if_shut_rdwr, off being the stream's rx offset:
\* a stream done in both directions is freed, its reordered data with it.
CloseKeepsReordered(st, off) ==
    IF /\ {"SHUT_RD", "SHUT_WR", "FIN_ACKED"} \subseteq st.flags
       /\ "RESET_STREAM_RECVED" \in st.flags \/ off = st.last_offset
    THEN [st EXCEPT !.state = "closed", !.queued = FALSE]
    ELSE st

CloseIfShutRdWr(st, off) ==
    IF /\ {"SHUT_RD", "SHUT_WR", "FIN_ACKED"} \subseteq st.flags
       /\ "RESET_STREAM_RECVED" \in st.flags \/ off = st.last_offset
    THEN [st EXCEPT !.state = "closed", !.reorder = {}, !.queued = FALSE]
    ELSE st

\* conn_shutdown_stream_read past its early returns: the reordered data is
\* dropped, off is the stream's rx offset, and conn_stop_sending queues the
\* stream for a STOP_SENDING frame.
StopReadingUnflagged(st, off) ==
    [st EXCEPT !.cont_offset = off, !.reorder = {}, !.queued = TRUE]

StopReadingUnqueued(st, off) ==
    [st EXCEPT !.cont_offset = off, !.reorder = {},
               !.flags = @ \cup {"STOP_SENDING", "SEND_STOP_SENDING"}]

StopReading(st, off) ==
    [st EXCEPT !.cont_offset = off, !.reorder = {}, !.queued = TRUE,
               !.flags = @ \cup {"STOP_SENDING", "SEND_STOP_SENDING"}]

\* The connection credit conn_recv_reset_stream gives back for data that
\* arrived and was not passed to the application.
ResetCreditTwice(st, off) == st.last_offset - off

ResetCredit(st, off) ==
    IF "STOP_SENDING" \in st.flags THEN 0 ELSE st.last_offset - off

\* reorder_release_entry: one buffer reference is dropped for every entry that
\* leaves the storage.
ReleasedBy(st, st2) == Cardinality(st.reorder) - Cardinality(st2.reorder)

-----------------------------------------------------------------------------
(* Initial state *)

Init ==
    /\ strm = [s \in Streams |-> [InitStream(s) EXCEPT !.state = "none"]]
    /\ rx = [ offset            |-> 0,
              max_offset        |-> InitialMaxData,
              unsent_max_offset |-> InitialMaxData,
              window            |-> InitialMaxData ]
    /\ err = "none"
    /\ refs = [s \in Streams |-> 0]
    /\ app = [s \in Streams |->
                [ got      |-> {},        \* bytes carried by accepted frames
                  deliv    |-> 0,         \* bytes passed to recv_stream_data
                  fins     |-> 0,         \* callbacks that carried the FIN flag
                  credited |-> 0,         \* connection credit the library gave back
                  used     |-> 0,         \* connection credit the application gave back
                  usedStrm |-> 0,         \* stream credit the application gave back
                  shutAt   |-> NoOffset ] ]  \* deliv when shutdown_stream_read succeeded

-----------------------------------------------------------------------------
(* STREAM frames: conn_recv_stream *)

Live == err = "none"

\* The bytes of a frame ending at end that lie beyond all earlier ones.
NewBytes(st, end) == IF st.last_offset < end THEN end - st.last_offset ELSE 0

FlowControlViolatedUnsent(st, end) ==
    \/ st.unsent_max_offset < end
    \/ rx.unsent_max_offset - rx.offset < NewBytes(st, end)

FlowControlViolated(st, end) ==
    \/ st.max_offset < end
    \/ rx.max_offset - rx.offset < NewBytes(st, end)

FinalSizeViolatedFinOnly(st, end, fin) ==
    fin /\ IF "SHUT_RD" \in st.flags THEN st.last_offset # end ELSE st.last_offset > end

FinalSizeViolated(st, end, fin) ==
    IF fin THEN IF "SHUT_RD" \in st.flags THEN st.last_offset # end
                                          ELSE st.last_offset > end
           ELSE "SHUT_RD" \in st.flags /\ st.last_offset < end

\* conn->rx once the frame's new bytes are counted; a stream that has been
\* stopped gets its credit back at once.
AccountedUnlessStopped(st, end) ==
    IF "STOP_SENDING" \in st.flags
    THEN [rx EXCEPT !.unsent_max_offset = Extend(@, NewBytes(st, end))]
    ELSE [rx EXCEPT !.offset = @ + NewBytes(st, end)]

AccountedWithoutCredit(st, end) == [rx EXCEPT !.offset = @ + NewBytes(st, end)]

Accounted(st, end) ==
    [rx EXCEPT !.offset = @ + NewBytes(st, end),
               !.unsent_max_offset = IF "STOP_SENDING" \in st.flags
                                     THEN Extend(@, NewBytes(st, end)) ELSE @]

CreditBack(st, end) == IF "STOP_SENDING" \in st.flags THEN NewBytes(st, end) ELSE 0

\* The stream with the frame's end, and its FIN, recorded.
Recorded(st, end, fin) ==
    [st EXCEPT !.last_offset = IF fin \/ @ < end THEN end ELSE @,
               !.flags = IF fin THEN @ \cup {"SHUT_RD"} ELSE @]

\* The early returns: the frame brings nothing new, or the stream was reset.
NothingNewNoFinCheck(st, end, fin, off) ==
    \/ "RESET_STREAM_RECVED" \in st.flags
    \/ ~fin /\ end <= off

NothingNew(st, end, fin, off) ==
    \/ "RESET_STREAM_RECVED" \in st.flags
    \/ IF fin THEN "SHUT_RD" \in st.flags /\ off = end ELSE end <= off

Acceptable(s, end, fin) ==
    /\ Live
    /\ strm[s].state # "closed"
    /\ ~FlowControlViolated(Opened(s), end)
    /\ ~FinalSizeViolated(Opened(s), end, fin)

Got(s, b, end) == [app[s] EXCEPT !.got = @ \cup (b .. (end - 1))]

RecvStreamError(s, end, fin) ==
    /\ Live
    /\ strm[s].state # "closed"
    /\ \/ /\ MaxVarint < end
          /\ err' = "FLOW_CONTROL"
          /\ UNCHANGED <<strm, rx>>
       \/ /\ end <= MaxVarint
          /\ FlowControlViolated(Opened(s), end)
          /\ err' = "FLOW_CONTROL"
          /\ strm' = [strm EXCEPT ![s] = Opened(s)]
          /\ UNCHANGED rx
       \/ /\ end <= MaxVarint
          /\ ~FlowControlViolated(Opened(s), end)
          /\ FinalSizeViolated(Opened(s), end, fin)
          /\ err' = "FINAL_SIZE"
          /\ strm' = [strm EXCEPT ![s] = Opened(s)]
          /\ rx' = Accounted(Opened(s), end)
    /\ UNCHANGED <<refs, app>>

\* A late frame costs a token of conn->glitch_rlim; without one left the
\* connection fails.  The first frame of a stream costs none.
RecvStreamIgnored(s, b, end, fin) ==
    /\ Acceptable(s, end, fin)
    /\ \E off \in Offsets :
          IsRxOffset(Opened(s), off) /\ NothingNew(Opened(s), end, fin, off)
    /\ err' \in IF strm[s].state = "none" THEN {"none"} ELSE {"none", "INTERNAL"}
    /\ rx' = Accounted(Opened(s), end)
    /\ strm' = [strm EXCEPT ![s] = Recorded(Opened(s), end, fin)]
    /\ app' = [app EXCEPT ![s] = Got(s, b, end)]
    /\ UNCHANGED refs

\* The ends of the recv_stream_data callbacks of one frame: the frame's own
\* data up to d, then the buffered entries up to the next gap.
CallbackEnds(R, d, gap) == {d} \cup {ent.end : ent \in {f \in R : f.end <= gap}}

\* The fields of app once the callbacks with these ends are made, up to upto.
\* A callback that reaches the final size carries NGTCP2_STREAM_DATA_FLAG_FIN.
Delivered(s, b, end, st, ends, upto) ==
    [Got(s, b, end) EXCEPT
        !.deliv = upto,
        !.fins  = @ + Cardinality({x \in ends : /\ x <= upto
                                                /\ "SHUT_RD" \in st.flags
                                                /\ x = st.last_offset})]

\* In-order data is passed to the application, then what it uncovers in the
\* reordering storage (conn_emit_pending_stream_data).  The application may call
\* ngtcp2_conn_shutdown_stream_read in the callback that ends at stop
\* (stop = NoOffset: it does not).  The call has no effect when all data up to
\* the FIN has arrived; otherwise it gives back the credit of the data behind
\* the first gap, drops the storage and thereby ends the loop.
RecvStreamInOrder(s, b, end, fin, stop) ==
    /\ Acceptable(s, end, fin)
    /\ "STOP_SENDING" \notin Opened(s).flags
    /\ \E off, gap \in Offsets :
         LET st == Recorded(Opened(s), end, fin)
             d  == IF b = end THEN off ELSE end
             R  == IF b = end THEN st.reorder ELSE RemovePrefix(st.reorder, end)
             ends == CallbackEnds(R, d, gap)
             stopped == stop # NoOffset /\ ~("SHUT_RD" \in st.flags /\ gap = st.last_offset)
             st2 == IF stopped
                    THEN StopReading(st, gap)
                    ELSE CloseIfShutRdWr([st EXCEPT !.cont_offset = gap,
                                                    !.reorder = RemovePrefix(R, gap)], gap)
             back == IF stopped THEN st.last_offset - gap ELSE 0
         IN /\ IsRxOffset(Opened(s), off)
            /\ ~NothingNew(Opened(s), end, fin, off)
            /\ b <= off
            /\ IsFirstGap(R, d, gap)
            /\ stop = NoOffset \/ (StopInCallback /\ stop \in ends)
            /\ strm' = [strm EXCEPT ![s] = st2]
            /\ refs' = [refs EXCEPT ![s] = @ - ReleasedBy(st, st2)]
            /\ rx' = [Accounted(Opened(s), end) EXCEPT !.unsent_max_offset = Extend(@, back)]
            /\ app' = [app EXCEPT ![s] =
                         [Delivered(s, b, end, st, ends, IF stopped THEN stop ELSE gap) EXCEPT
                            !.credited = @ + back,
                            !.shutAt = IF @ = NoOffset THEN stop ELSE @]]
    /\ UNCHANGED err

\* Data on a stopped stream moves the offset and is not delivered.
RecvStreamDiscarded(s, b, end, fin) ==
    /\ Acceptable(s, end, fin)
    /\ "STOP_SENDING" \in Opened(s).flags
    /\ \E off \in Offsets :
         LET st == Recorded(Opened(s), end, fin)
             d  == IF b <= off /\ b # end THEN end ELSE off
         IN /\ IsRxOffset(Opened(s), off)
            /\ ~NothingNew(Opened(s), end, fin, off)
            /\ strm' = [strm EXCEPT ![s] = CloseIfShutRdWr([st EXCEPT !.cont_offset = d], d)]
    /\ rx' = Accounted(Opened(s), end)
    /\ app' = [app EXCEPT ![s] = [Got(s, b, end) EXCEPT
                                    !.credited = @ + CreditBack(Opened(s), end)]]
    /\ UNCHANGED <<err, refs>>

\* A frame behind a gap with data, conn_recv_reordering.  Its buffer is retained
\* (or copied) and pushed.  With MaxFragments entries the push is followed by an
\* error, and the error path releases the buffer that the new entry still holds.
RecvStreamReordered(s, b, end, fin) ==
    /\ Acceptable(s, end, fin)
    /\ "STOP_SENDING" \notin Opened(s).flags
    /\ b < end
    /\ \E off \in Offsets :
         /\ IsRxOffset(Opened(s), off)
         /\ ~NothingNew(Opened(s), end, fin, off)
         /\ off < b
    /\ LET st == Recorded(Opened(s), end, fin)
       IN \/ /\ PushAbsorbed(st.reorder, st.cont_offset, b, end)
             /\ strm' = [strm EXCEPT ![s] = st]
             /\ err' \in {"none", "INTERNAL"}
             /\ UNCHANGED refs
          \/ \E nb, ne \in Offsets :
             /\ PushStores(st.reorder, st.cont_offset, b, end, nb, ne)
             /\ LET R == st.reorder \cup {ByteRange(nb, ne)}
                IN /\ strm' = [strm EXCEPT ![s] = [st EXCEPT !.reorder = R]]
                   /\ IF Cardinality(R) >= MaxFragments
                      THEN err' = "INTERNAL" /\ UNCHANGED refs
                      ELSE UNCHANGED err /\ refs' = [refs EXCEPT ![s] = @ + 1]
    /\ rx' = Accounted(Opened(s), end)
    /\ app' = [app EXCEPT ![s] = Got(s, b, end)]

\* An empty frame behind a gap: only its FIN counts.
RecvStreamEmptyAhead(s, b, fin) ==
    /\ Acceptable(s, b, fin)
    /\ "STOP_SENDING" \notin Opened(s).flags
    /\ \E off \in Offsets :
         /\ IsRxOffset(Opened(s), off)
         /\ ~NothingNew(Opened(s), b, fin, off)
         /\ off < b
         /\ strm' = [strm EXCEPT ![s] = CloseIfShutRdWr(Recorded(Opened(s), b, fin), off)]
    /\ rx' = Accounted(Opened(s), b)
    /\ UNCHANGED <<err, refs, app>>

\* Any frame for a stream that was closed (ngtcp2_idtr_open says
\* NGTCP2_ERR_STREAM_IN_USE) costs a glitch token and changes nothing else.
RecvOnClosed(s) ==
    /\ Live
    /\ strm[s].state = "closed"
    /\ err' = "INTERNAL"
    /\ UNCHANGED <<strm, rx, refs, app>>

-----------------------------------------------------------------------------
(* RESET_STREAM frames: conn_recv_reset_stream *)

RecvResetError(s, final) ==
    /\ Live
    /\ strm[s].state # "closed"
    /\ LET st == Opened(s)
           shut == "SHUT_RD" \in st.flags
           badSize == IF shut THEN st.last_offset # final ELSE st.last_offset > final
       IN \/ /\ badSize
             /\ err' = "FINAL_SIZE"
          \/ /\ ~badSize
             /\ "RESET_STREAM_RECVED" \in st.flags
             /\ err' = "INTERNAL"     \* no glitch token left
          \/ /\ ~badSize
             /\ "RESET_STREAM_RECVED" \notin st.flags
             /\ FlowControlViolated(st, final)
             /\ err' = "FLOW_CONTROL"
    /\ UNCHANGED <<strm, rx, refs, app>>

\* The stream_reset callback runs before anything changes, so a
\* shutdown_stream_read in it is the action ShutdownStreamRead just before.
RecvResetStream(s, final) ==
    /\ Live
    /\ strm[s].state # "closed"
    /\ LET st == Opened(s)
           new == final - st.last_offset
       IN /\ "RESET_STREAM_RECVED" \notin st.flags
          /\ IF "SHUT_RD" \in st.flags THEN st.last_offset = final
                                       ELSE st.last_offset <= final
          /\ ~FlowControlViolated(st, final)
          /\ \E off \in Offsets :
               /\ IsRxOffset(st, off)
               /\ LET back == ResetCredit(st, off)
                      st2 == CloseIfShutRdWr(
                               [st EXCEPT !.last_offset = final,
                                  !.flags = @ \cup {"SHUT_RD", "RESET_STREAM_RECVED"}], off)
                  IN /\ strm' = [strm EXCEPT ![s] = st2]
                     /\ rx' = [rx EXCEPT !.offset = @ + new,
                                 !.unsent_max_offset = Extend(Extend(@, back), new)]
                     /\ refs' = [refs EXCEPT ![s] = @ - ReleasedBy(st, st2)]
                     /\ app' = [app EXCEPT ![s].credited = @ + back + new]
    /\ UNCHANGED err

-----------------------------------------------------------------------------
(* Calls of the application *)

\* conn_shutdown_stream_read
ShutdownStreamRead(s) ==
    /\ Live
    /\ strm[s].state = "open"
    /\ \E off \in Offsets :
         LET st == strm[s]
             noop == \/ st.flags \cap {"STOP_SENDING", "RESET_STREAM_RECVED"} # {}
                     \/ "SHUT_RD" \in st.flags /\ off = st.last_offset
             back == IF noop THEN 0 ELSE st.last_offset - off
             st2 == IF noop THEN st ELSE StopReading(st, off)
         IN /\ IsRxOffset(st, off)
            /\ strm' = [strm EXCEPT ![s] = st2]
            /\ rx' = [rx EXCEPT !.unsent_max_offset = Extend(@, back)]
            /\ refs' = [refs EXCEPT ![s] = @ - ReleasedBy(st, st2)]
            /\ app' = [app EXCEPT ![s].credited = @ + back,
                                  ![s].shutAt = IF @ = NoOffset THEN app[s].deliv ELSE @]
    /\ UNCHANGED err

\* ngtcp2_conn_extend_max_offset, for n bytes of s the application has consumed.
ExtendMaxOffset(s, n) ==
    /\ Live
    /\ app[s].used + n <= app[s].deliv
    /\ rx' = [rx EXCEPT !.unsent_max_offset = Extend(@, n)]
    /\ app' = [app EXCEPT ![s].used = @ + n]
    /\ UNCHANGED <<strm, err, refs>>

\* ngtcp2_conn_extend_max_stream_offset, for n bytes the application has consumed.
ExtendMaxStreamOffset(s, n) ==
    /\ Live
    /\ strm[s].state = "open"
    /\ app[s].usedStrm + n <= app[s].deliv
    /\ LET st == [strm[s] EXCEPT !.unsent_max_offset = Extend(@, n)]
           push == st.flags \cap {"SHUT_RD", "STOP_SENDING"} = {} /\ ShouldSendMax(st)
       IN strm' = [strm EXCEPT ![s] = [st EXCEPT !.queued = @ \/ push]]
    /\ app' = [app EXCEPT ![s].usedStrm = @ + n]
    /\ UNCHANGED <<rx, err, refs>>

\* The send half is done: the last acknowledgement arrived and
\* ngtcp2_conn_close_stream_if_shut_rdwr runs.
SendHalfDone(s) ==
    /\ Live
    /\ strm[s].state = "open"
    /\ "FIN_ACKED" \notin strm[s].flags
    /\ \E off \in Offsets :
         LET st2 == CloseIfShutRdWr([strm[s] EXCEPT !.flags = @ \cup {"SHUT_WR", "FIN_ACKED"}],
                                    off)
         IN /\ IsRxOffset(strm[s], off)
            /\ strm' = [strm EXCEPT ![s] = st2]
            /\ refs' = [refs EXCEPT ![s] = @ - ReleasedBy(strm[s], st2)]
    /\ UNCHANGED <<rx, err, app>>

-----------------------------------------------------------------------------
(* Writing packets: the flow-control part of conn_write_pkt *)

\* fast: the previous update is less than two round trips old.
WriteMaxData(fast) ==
    /\ Live
    /\ ShouldSendMax(rx)
    /\ rx' = Advertised(rx, MaxWindow, fast)
    /\ UNCHANGED <<strm, err, refs, app>>

\* The stream at the top of conn->tx.strmq sends STOP_SENDING and
\* MAX_STREAM_DATA if they are due, and leaves the queue.
WriteStream(s, fast) ==
    /\ Live
    /\ strm[s].queued
    /\ LET st == [strm[s] EXCEPT !.flags = @ \ {"SEND_STOP_SENDING"}, !.queued = FALSE]
       IN strm' = [strm EXCEPT ![s] =
                     IF st.flags \cap {"SHUT_RD", "STOP_SENDING"} = {} /\ ShouldSendMax(st)
                     THEN Advertised(st, MaxStreamWindow, fast) ELSE st]
    /\ UNCHANGED <<rx, err, refs, app>>

\* ngtcp2_conn_del frees every stream and its reordered data.
ConnDel ==
    /\ err # "deleted"
    /\ err' = "deleted"
    /\ refs' = [s \in Streams |-> refs[s] - Cardinality(strm[s].reorder)]
    /\ strm' = [s \in Streams |-> [strm[s] EXCEPT !.state = "closed", !.reorder = {},
                                                  !.queued = FALSE]]
    /\ UNCHANGED <<rx, app>>

-----------------------------------------------------------------------------
\* A STREAM frame at b with len bytes.
RecvStream(s) ==
    \E b \in Offsets, len \in 0 .. MaxFrameLen, fin \in BOOLEAN :
        LET end == b + len
        IN \/ RecvStreamError(s, end, fin)
           \/ RecvStreamIgnored(s, b, end, fin)
           \/ \E stop \in Offsets \cup {NoOffset} : RecvStreamInOrder(s, b, end, fin, stop)
           \/ RecvStreamDiscarded(s, b, end, fin)
           \/ RecvStreamReordered(s, b, end, fin)
           \/ len = 0 /\ RecvStreamEmptyAhead(s, b, fin)

Next ==
    \/ \E s \in Streams :
         \/ RecvStream(s)
         \/ RecvOnClosed(s)
         \/ \E final \in Offsets : RecvResetError(s, final) \/ RecvResetStream(s, final)
         \/ ShutdownStreamRead(s)
         \/ \E n \in 1 .. MaxVarint : ExtendMaxOffset(s, n) \/ ExtendMaxStreamOffset(s, n)
         \/ SendHalfDone(s)
         \/ \E fast \in BOOLEAN : WriteStream(s, fast)
    \/ \E fast \in BOOLEAN : WriteMaxData(fast)
    \/ ConnDel

Spec == Init /\ [][Next]_vars

-----------------------------------------------------------------------------
(* Properties *)

Errors == {"none", "FLOW_CONTROL", "FINAL_SIZE", "INTERNAL", "deleted"}

\* Every field holds a value of its type; conn->rx and ngtcp2_strm.
TypeOK ==
    /\ strm \in [Streams ->
         [ state : {"none", "open", "closed"}, flags : SUBSET Flags,
           cont_offset : Offsets, last_offset : Offsets,
           reorder : SUBSET [begin : Offsets, end : Offsets],
           max_offset : Offsets, unsent_max_offset : Offsets,
           window : Nat, queued : BOOLEAN ]]
    /\ rx \in [ offset : Nat, max_offset : Offsets,
                unsent_max_offset : Offsets, window : Nat ]
    /\ err \in Errors
    /\ refs \in [Streams -> Int]
    /\ app \in [Streams ->
         [ got : SUBSET Offsets, deliv : Offsets, fins : Nat, credited : Nat,
           used : Nat, usedStrm : Nat, shutAt : Offsets \cup {NoOffset} ]]

\* The reordering storage stays sorted and disjoint, and between two calls it
\* never holds a byte that could be delivered: the assertions of
\* ngtcp2_reorder_data_at and conn_emit_pending_stream_data.
StorageSound ==
    \A s \in Streams :
        /\ WellFormed(strm[s].reorder)
        /\ \A ent \in strm[s].reorder :
              strm[s].cont_offset < ent.begin /\ ent.end <= strm[s].last_offset

\* conn_recv_stream and conn_recv_reset_stream never let the peer pass an
\* advertised limit, so the unsigned differences in conn_max_data_violated,
\* conn_should_send_max_data and conn_should_send_max_stream_data do not wrap.
WithinLimits ==
    /\ \A s \in Streams :
         /\ strm[s].cont_offset <= strm[s].last_offset
         /\ strm[s].last_offset <= strm[s].max_offset
         /\ strm[s].max_offset <= strm[s].unsent_max_offset
    /\ rx.offset <= rx.max_offset
    /\ rx.max_offset <= rx.unsent_max_offset

\* conn->rx.offset counts each stream's bytes exactly once, whatever mix of
\* overlapping STREAM frames, FINs and RESET_STREAMs brought them.
OffsetIsSumOfStreams ==
    Live => rx.offset = MapThenSumSet(LAMBDA s : strm[s].last_offset, Streams)

\* conn_shutdown_stream_read, conn_recv_reset_stream, conn_recv_stream: once a
\* stream is stopped, reset or closed, the connection credit of every byte not
\* passed to the application has been given back, exactly once; before, none.
CreditReturnedOnce ==
    Live => \A s \in Streams :
        app[s].credited =
            IF \/ strm[s].flags \cap {"STOP_SENDING", "RESET_STREAM_RECVED"} # {}
               \/ strm[s].state = "closed"
            THEN strm[s].last_offset - app[s].deliv
            ELSE 0

\* The connection-level window equals what the peer may still send or the
\* application has not consumed: no call loses or invents credit, up to
\* saturation at NGTCP2_MAX_VARINT.
WindowConserved ==
    Live => LET sum == rx.window
                       + MapThenSumSet(LAMBDA s : app[s].used + app[s].credited, Streams)
            IN rx.unsent_max_offset = IF sum > MaxVarint THEN MaxVarint ELSE sum

\* The application gets a prefix of the stream, only bytes the peer sent, and
\* everything up to the first gap unless it stopped the stream.
DeliveredPrefix ==
    \A s \in Streams :
        /\ 0 .. (app[s].deliv - 1) \subseteq app[s].got
        /\ app[s].deliv <= strm[s].cont_offset
        /\ "STOP_SENDING" \notin strm[s].flags => app[s].deliv = strm[s].cont_offset

\* The FIN flag is passed to the application at most once, at the final size, and
\* a stream that was neither reset nor stopped is not closed before that.
FinOnce ==
    \A s \in Streams :
        /\ app[s].fins <= 1
        /\ app[s].fins = 1 => /\ "SHUT_RD" \in strm[s].flags
                              /\ app[s].deliv = strm[s].last_offset
        /\ /\ strm[s].state = "closed"
           /\ err # "deleted"
           /\ strm[s].flags \cap {"STOP_SENDING", "RESET_STREAM_RECVED"} = {}
           => app[s].fins = 1

\* zngtcp2.h on ngtcp2_conn_shutdown_stream_read: "no further application data
\* is forwarded to an application layer".
NoDataAfterShutdown ==
    \A s \in Streams : app[s].shutAt # NoOffset => app[s].deliv <= app[s].shutAt

\* ngtcp2_strm.h on ngtcp2_strm_rx_offset: "the minimum offset of stream data
\* which is not received yet".
RxOffsetIsFirstMissing ==
    \A s \in Streams :
        strm[s].flags \cap {"STOP_SENDING", "RESET_STREAM_RECVED"} = {} =>
            strm[s].cont_offset \notin app[s].got

\* zngtcp2-buffer-contract.rst: a retained buffer is released "exactly once".
\* Every entry of the storage holds one owner reference, every reference taken
\* belongs to an entry, and a stream that is closed has released all of them.
OneReferencePerEntry ==
    \A s \in Streams :
        /\ refs[s] = Cardinality(strm[s].reorder)
        /\ strm[s].state = "closed" => refs[s] = 0

\* A stream that owes the peer STOP_SENDING or MAX_STREAM_DATA is in
\* conn->tx.strmq, so the next packet carries the frame.
OwedFramesQueued ==
    \A s \in Streams :
        /\ strm[s].state = "open"
        /\ \/ "SEND_STOP_SENDING" \in strm[s].flags
           \/ /\ strm[s].flags \cap {"SHUT_RD", "STOP_SENDING"} = {}
              /\ ShouldSendMax(strm[s])
        => strm[s].queued

\* When the application has consumed everything and no MAX_DATA is due, the
\* peer still has connection credit: the threshold in conn_should_send_max_data
\* cannot leave both sides waiting.
PeerNeverStuck ==
    (/\ Live
     /\ ~ShouldSendMax(rx)
     /\ rx.window > 0
     /\ rx.offset = MapThenSumSet(LAMBDA s : app[s].used + app[s].credited, Streams))
    => rx.offset < rx.max_offset \/ rx.unsent_max_offset = MaxVarint

\* No step takes back what was advertised or delivered, reopens a stream, or
\* moves a final size once it is known.
Irrevocable ==
    [][/\ rx.max_offset <= rx'.max_offset
       /\ \A s \in Streams :
            /\ strm[s].max_offset <= strm'[s].max_offset
            /\ app[s].deliv <= app'[s].deliv
            /\ strm[s].state = "closed" => strm'[s].state = "closed"
            /\ "SHUT_RD" \in strm[s].flags =>
                 /\ "SHUT_RD" \in strm'[s].flags
                 /\ strm'[s].last_offset = strm[s].last_offset]_vars

\* The application gets every byte and the FIN in order, once, and nothing else
\* (DeliveredPrefix, FinOnce).
DeliveryExact == DeliveredPrefix /\ FinOnce

\* A stream the application has stopped, or the peer has reset, is settled: its
\* credit is back, once, and nothing more is delivered of it.
StoppedStreamsSettled == CreditReturnedOnce /\ NoDataAfterShutdown

\* The connection's offset and window are those of its streams taken together,
\* and they leave the peer room to go on.
ConnectionWindowExact == OffsetIsSumOfStreams /\ WindowConserved /\ PeerNeverStuck
=============================================================================
