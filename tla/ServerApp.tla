----------------------------- MODULE ServerApp -----------------------------
(***************************************************************************)
(* The example server's event loop: examples/server.cc.                    *)
(*                                                                         *)
(* The Server routes datagrams by destination connection ID through        *)
(* handlers_.  A Handler owns one connection, a timer whose callback is    *)
(* timeoutcb or close_waitcb, and a write watcher.  Every action is one    *)
(* callback of the loop, run to completion.                                *)
(*                                                                         *)
(* What the library answers is a choice among the results the connection   *)
(* can return in its state; Handshake, ConnClose and Scid model those      *)
(* answers.  Connection IDs are random and taken to be distinct.           *)
(***************************************************************************)
EXTENDS Integers, FiniteSets

CONSTANTS
    SrvCids,            \* connection IDs, the clients' choices included
    SrvHandlers,        \* handlers that can exist at a time
    MaxSrvScids,        \* source connection IDs of a connection
    MaxBlocked,         \* packets waiting for the socket
    MaxCloseRecv,       \* datagrams received in the closing period
    ResetBurst,         \* NGTCP2_STATELESS_RESET_BURST
    FirstWriteMayFail   \* the first flight can fail for want of memory

VARIABLE srv

\* A CONNECTION_CLOSE packet is smaller than a datagram of the client, or a
\* few times larger than a small one.
CloseSize == 4
DgramSizes == {1, 6}

NoHandler == "none"

Gone == [conn |-> "gone"]

Live(s) == {h \in SrvHandlers : s.h[h].conn # "gone"}

CloseWaiting(s, h) == s.h[h].conn \in {"closing", "draining"}

Open(s, h) == s.h[h].conn \in {"handshake", "open"}

UnusedCids(s) ==
    {c \in SrvCids : s.handlers[c] = NoHandler
                     /\ \A h \in Live(s) : c \notin s.h[h].scids \cup {s.h[h].rcid}}

\* A new connection ID, the client's or the server's, is random; which of the
\* unused ones it is makes no difference.
FreshCid(s) == CHOOSE c \in UnusedCids(s) : \A d \in UnusedCids(s) : c <= d

InitServer ==
    srv = [handlers |-> [c \in SrvCids |-> NoHandler],
           h |-> [h \in SrvHandlers |-> Gone],
           bucket |-> ResetBurst, regen |-> FALSE, fault |-> FALSE]

Fault(s, b) == [s EXCEPT !.fault = @ \/ b]

----------------------------------------------------------------------------
\* The routing table and the life of a handler

\* Server::associate_cid: emplace keeps an entry that exists.
AssociateCids(s, cs, h) ==
    [s EXCEPT !.handlers = [c \in SrvCids |->
        IF c \in cs /\ @[c] = NoHandler THEN h ELSE @[c]]]

\* Server::dissociate_cid
DissociateCids(s, cs) ==
    [s EXCEPT !.handlers = [c \in SrvCids |-> IF c \in cs THEN NoHandler ELSE @[c]]]

\* Handler::Handler, Handler::init: a connection with one source connection
\* ID; the timer is timeoutcb's and not started.
NewHandler(rcid, scid) ==
    [conn |-> "handshake", rcid |-> rcid, scids |-> {scid}, listed |-> FALSE,
     timer |-> "off", fed |-> FALSE, wev |-> FALSE,
     blocked |-> 0, closepkt |-> FALSE, lateclose |-> FALSE,
     recv |-> 0, sent |-> 0, pkts |-> 0, next |-> 1]

\* Handler::~Handler
Delete(s, h) == [s EXCEPT !.h[h] = Gone]

RemoveKeepsInitial(s, h) == Delete(DissociateCids(s, s.h[h].scids), h)

\* Server::remove
Remove(s, h) == Delete(DissociateCids(s, s.h[h].scids \cup {s.h[h].rcid}), h)

\* Handler::update_timer: the timer starts over, or the event is fed to the
\* loop at once when the connection's timer has already expired.
UpdateTimer(s, h, late) ==
    IF late THEN [s EXCEPT !.h[h].fed = TRUE]
    ELSE [s EXCEPT !.h[h].timer = "timeout", !.h[h].fed = FALSE]

\* Handler::signal_write
SignalWrite(s, h) == [s EXCEPT !.h[h].wev = TRUE]

----------------------------------------------------------------------------
\* Closing and draining

StartCloseTimerFed(s, h) ==
    [s EXCEPT !.h[h].wev = FALSE, !.h[h].timer = "close_wait"]

\* ev_timer_again on the timer with its callback swapped: an event that is
\* pending for the old callback is dropped.
StartCloseTimer(s, h) ==
    [s EXCEPT !.h[h].wev = FALSE, !.h[h].timer = "close_wait", !.h[h].fed = FALSE]

\* Handler::start_draining_period; the library is in the draining state.
StartDrainingPeriod(s, h) ==
    [StartCloseTimer(s, h) EXCEPT !.h[h].conn = "draining"]

\* Handler::start_closing_period: the library writes the packet and goes to
\* its closing state, or fails (ok = FALSE) and stays where it was.
StartClosingPeriod(s, h, ok) ==
    IF CloseWaiting(s, h) THEN s
    ELSE IF ok THEN [StartCloseTimer(s, h) EXCEPT !.h[h].conn = "closing",
                                                  !.h[h].closepkt = TRUE]
    ELSE StartCloseTimer(s, h)

\* Handler::handle_error.  `result' is "CLOSE_WAIT", or "fail" for the
\* errors on which every caller removes the handler: an idle close, a close
\* packet that cannot be written, a socket that is full.
HandleError(s, h, idle, ok, room) ==
    IF idle THEN [s |-> s, result |-> "fail"]
    ELSE LET s1 == StartClosingPeriod(s, h, ok)
         IN  IF ~CloseWaiting(s1, h) THEN [s |-> s1, result |-> "fail"]
             ELSE IF s1.h[h].conn = "draining" THEN [s |-> s1, result |-> "CLOSE_WAIT"]
             \* Handler::send_conn_close
             ELSE [s |-> Fault(s1, ~s1.h[h].closepkt),
                   result |-> IF room THEN "CLOSE_WAIT" ELSE "fail"]

RemoveUnlessWaiting(r, h) ==
    IF r.result = "CLOSE_WAIT" THEN r.s ELSE Remove(r.s, h)

\* Handler::send_conn_close for a datagram received in the closing period
SendConnClose(s, h, size, room) ==
    LET w == s.h[h]
        recv == w.recv + size
        pkts == w.pkts + 1
        s1 == Fault([s EXCEPT !.h[h].recv = recv, !.h[h].pkts = pkts], ~w.closepkt)
    IN  IF pkts < w.next \/ recv * 3 < w.sent + CloseSize THEN s1
        ELSE IF ~room THEN Remove(s1, h)
        ELSE [s1 EXCEPT !.h[h].sent = @ + CloseSize, !.h[h].next = @ * 2]

----------------------------------------------------------------------------
\* Writing

\* What the library and the socket do during one on_write: `flush' packets of
\* those that wait are accepted by the socket; the call for new packets gives
\* `result'; the get_new_connection_id callback hands out the IDs `cids'; of
\* the packets, `stuck' are not accepted by the socket.
NoIo == [flush |-> 0, result |-> "ok", cids |-> {}, stuck |-> 0, late |-> FALSE]

FreshCids(s, h) ==
    IF UnusedCids(s) = {} \/ Cardinality(s.h[h].scids) >= MaxSrvScids THEN {{}}
    ELSE {{}, {FreshCid(s)}}

Ios(s, h, results) ==
    LET all == s.h[h].blocked
    IN  {[NoIo EXCEPT !.flush = n] : n \in 0 .. all - 1}
          \cup {[NoIo EXCEPT !.flush = all, !.result = r, !.cids = cs] :
                    r \in results \ {"ok"}, cs \in FreshCids(s, h)}
          \cup [flush : {all}, result : {"ok"}, cids : FreshCids(s, h),
                stuck : 0 .. MaxBlocked, late : BOOLEAN]

\* get_new_connection_id: the ID is routed as soon as it exists.
NewConnectionIds(s, h, cids) ==
    AssociateCids([s EXCEPT !.h[h].scids = @ \cup cids], cids, h)

OnSendBlockedNoWatch(s, h, n) ==
    [s EXCEPT !.h[h].blocked = @ + n]

\* Handler::on_send_blocked, start_wev_endpoint
OnSendBlocked(s, h, n) ==
    [s EXCEPT !.h[h].blocked = @ + n, !.h[h].wev = @ \/ n > 0]

\* Handler::write_streams
WriteStreams(s, h, io) ==
    LET s1 == NewConnectionIds(s, h, io.cids)
    IN  CASE io.result = "codec" -> [s |-> s, result |-> "fail"]
          [] io.result = "unwritable" -> HandleError(s1, h, FALSE, FALSE, TRUE)
          [] io.result = "error" -> HandleError(s1, h, FALSE, TRUE, TRUE)
          [] io.result = "ok" -> [s |-> OnSendBlocked(s1, h, io.stuck), result |-> "ok"]

\* Handler::send_blocked_packet
SendBlockedPacket(s, h, io) ==
    [s EXCEPT !.h[h].blocked = @ - io.flush,
              !.h[h].wev = @ \/ io.flush < s.h[h].blocked]

\* Handler::on_write
OnWrite(s, h, io) ==
    IF CloseWaiting(s, h) THEN [s |-> s, result |-> "ok"]
    ELSE LET s1 == SendBlockedPacket(s, h, io)
         IN  IF s1.h[h].blocked > 0 THEN [s |-> s1, result |-> "ok"]
             ELSE LET r == WriteStreams([s1 EXCEPT !.h[h].wev = FALSE], h, io)
                  IN  IF r.result = "ok" THEN [r EXCEPT !.s = UpdateTimer(@, h, io.late)]
                      ELSE r

\* writecb, when the socket of the watcher is writable
WriteReady(h) ==
    /\ srv.h[h].conn # "gone" /\ srv.h[h].wev
    /\ \E io \in Ios(srv, h, {"ok", "error", "unwritable", "codec"}) :
         LET r == OnWrite(srv, h, io)
         IN  srv' = IF r.result = "ok" THEN r.s ELSE RemoveUnlessWaiting(r, h)

\* writecb on a socket that has room for what waits
FlushAll(h) ==
    /\ srv.h[h].conn # "gone" /\ srv.h[h].wev
    /\ srv.h[h].blocked > 0
    /\ \E io \in Ios(srv, h, {"ok"}) :
         /\ io.flush = srv.h[h].blocked /\ io.stuck = 0
         /\ srv' = OnWrite(srv, h, io).s

----------------------------------------------------------------------------
\* Reading

\* Handler::on_read, Handler::feed_data.  The library reads the datagram,
\* or reports that the peer closed, or fails; `close' is whether it could
\* then write and send a CONNECTION_CLOSE.
OnRead(s, h, result, close, late) ==
    CASE result = "read" ->
            [s |-> UpdateTimer([s EXCEPT !.h[h].conn = "open"], h, late), result |-> "ok"]
      [] result = "wait" -> [s |-> UpdateTimer(s, h, late), result |-> "ok"]
      [] result = "draining" -> [s |-> StartDrainingPeriod(s, h), result |-> "CLOSE_WAIT"]
      [] result = "error" -> HandleError(s, h, FALSE, close, TRUE)

ReadResults(s, h) ==
    {"read", "draining", "error"} \cup (IF s.h[h].conn = "handshake" THEN {"wait"} ELSE {})

\* Server::read_pkt for an Initial packet of a connection that is not known
\* and whose token, if any, was accepted: the handler is listed only after
\* it has read the packet and written its first flight.  On any failure it
\* is deleted, after a Retry packet or a CONNECTION_CLOSE perhaps.
Accept(h) ==
    /\ srv.h[h].conn = "gone"
    /\ Cardinality(UnusedCids(srv)) >= 2
    /\ \E late \in BOOLEAN :
         LET rcid == FreshCid(srv)
             scid == FreshCid([srv EXCEPT !.handlers[rcid] = h])
             s1 == OnRead([srv EXCEPT !.h[h] = NewHandler(rcid, scid)],
                          h, "wait", FALSE, late).s
         IN  \E io \in Ios(s1, h, {"ok"} \cup (IF FirstWriteMayFail
                                                THEN {"error", "unwritable"} ELSE {})) :
               LET r == OnWrite(s1, h, io)
               IN  srv' = IF r.result # "ok" THEN Delete(r.s, h)
                          ELSE LET w == r.s.h[h]
                               IN  AssociateCids([r.s EXCEPT !.h[h].listed = TRUE],
                                                 w.scids \cup {w.rcid}, h)

\* Server::read_pkt for a known connection ID
ReadPkt(c) ==
    LET h == srv.handlers[c]
    IN  /\ h # NoHandler
        /\ IF srv.h[h].conn = "gone" THEN srv' = Fault(srv, TRUE)
           ELSE IF srv.h[h].conn = "closing"
           THEN /\ srv.h[h].pkts < MaxCloseRecv
                /\ \E size \in DgramSizes, room \in BOOLEAN :
                     srv' = SendConnClose(srv, h, size, room)
           ELSE /\ Open(srv, h)
                /\ \E res \in ReadResults(srv, h), close, late \in BOOLEAN :
                     LET r == OnRead(srv, h, res, close, late)
                     IN  srv' = IF r.result = "ok" THEN SignalWrite(r.s, h)
                                ELSE RemoveUnlessWaiting(r, h)

\* Server::send_stateless_reset, for a short packet that nobody knows
SendStatelessReset ==
    /\ srv.bucket > 0
    /\ srv' = [srv EXCEPT !.bucket = @ - 1, !.regen = TRUE]

\* Server::on_stateless_reset_regen, with its assertion
OnStatelessResetRegen ==
    /\ srv.regen
    /\ srv' = Fault([srv EXCEPT !.bucket = @ + 1,
                                !.regen = srv.bucket + 1 # ResetBurst],
                    srv.bucket >= ResetBurst)

----------------------------------------------------------------------------
\* Timers

TimeoutPending(s, h) ==
    s.h[h].conn # "gone" /\ (s.h[h].fed \/ s.h[h].timer = "timeout")

\* timeoutcb, Handler::handle_expiry: the library may drop a source
\* connection ID that was retired (remove_connection_id), time out, or fail.
\* A handler that is now in its closing period has its timer stopped, which
\* is the timer that start_closing_period has just started.
Timeout(h) ==
    /\ TimeoutPending(srv, h)
    /\ LET s == [srv EXCEPT !.h[h].fed = FALSE]
       IN  \/ \E cs \in {{}} \cup {{c} : c \in s.h[h].scids} :
                 /\ cs # s.h[h].scids
                 /\ srv' = SignalWrite(DissociateCids([s EXCEPT !.h[h].scids = @ \ cs], cs), h)
           \/ \E idle, ok \in BOOLEAN :
                 LET r == HandleError(s, h, idle, ok, TRUE)
                 IN  srv' = IF r.result = "CLOSE_WAIT"
                            THEN [r.s EXCEPT !.h[h].timer = "off", !.h[h].lateclose = TRUE]
                            ELSE Remove(r.s, h)

CloseWaitPending(s, h) == s.h[h].conn # "gone" /\ s.h[h].timer = "close_wait"

CloseWaitKeepsHandler(h) ==
    /\ CloseWaitPending(srv, h)
    /\ srv' = Fault(srv, ~CloseWaiting(srv, h))

\* close_waitcb, with its assertion
CloseWait(h) ==
    /\ CloseWaitPending(srv, h)
    /\ srv' = Fault(Remove(srv, h), ~CloseWaiting(srv, h))

\* Server::disconnect removes the handlers one by one until the table is
\* empty; an entry that the removal of its handler leaves behind is a fault.
Disconnect ==
    /\ Live(srv) # {}
    /\ LET known == UNION {srv.h[h].scids \cup {srv.h[h].rcid} : h \in Live(srv)}
           s == DissociateCids([srv EXCEPT !.h = [h \in SrvHandlers |-> Gone],
                                           !.regen = FALSE, !.bucket = ResetBurst], known)
       IN  srv' = Fault(s, \E c \in SrvCids : s.handlers[c] # NoHandler)

NextServer ==
    \/ \E c \in SrvCids : ReadPkt(c)
    \/ \E h \in SrvHandlers : Accept(h) \/ WriteReady(h) \/ Timeout(h) \/ CloseWait(h)
    \/ SendStatelessReset \/ OnStatelessResetRegen
    \/ Disconnect

\* The loop runs every timer that has expired, and a socket that takes no
\* packet now takes some later.
FairServer ==
    \A h \in SrvHandlers : WF_srv(CloseWait(h)) /\ SF_srv(FlushAll(h))

----------------------------------------------------------------------------
\* Datagrams reach the connection they are for: every entry of handlers_ is a
\* connection ID of a handler that exists, and every connection ID of a
\* handler that is listed, the client's first choice included, leads to it.
RoutingSound ==
    /\ \A c \in SrvCids : srv.handlers[c] # NoHandler =>
          LET h == srv.handlers[c]
          IN  h \in Live(srv) /\ c \in srv.h[h].scids \cup {srv.h[h].rcid}
    /\ \A h \in Live(srv) :
          /\ srv.h[h].listed
          /\ \A c \in srv.h[h].scids \cup {srv.h[h].rcid} : srv.handlers[c] = h

\* No assertion of server.cc fails and no deleted handler is used; a handler
\* that waits out its closing or draining period no longer writes, has its
\* timer running unless the close began in the timer's own callback, and has
\* sent at most three times what it received; packets that wait for the
\* socket are watched for; resets that were spent are given back.
HandlersSound ==
    /\ ~srv.fault
    /\ srv.bucket < ResetBurst <=> srv.regen
    /\ \A h \in Live(srv) :
         LET w == srv.h[h]
         IN  /\ CloseWaiting(srv, h) =>
                   ~w.wev /\ ~w.fed /\ (w.timer = "close_wait" \/ w.lateclose)
             /\ w.timer = "close_wait" => CloseWaiting(srv, h)
             /\ w.sent <= 3 * w.recv
             /\ w.blocked > 0 /\ Open(srv, h) => w.wev

\* A connection that was closed by a packet or a failed write is forgotten
\* when its period is over, and packets the socket refused are sent unless
\* the connection ends first.
ServerForgets ==
    \A h \in SrvHandlers :
        /\ (CloseWaitPending(srv, h) ~> ~CloseWaitPending(srv, h))
        /\ (srv.h[h].conn # "gone" /\ srv.h[h].blocked > 0)
              ~> (srv.h[h].conn \in {"gone", "closing", "draining"} \/ srv.h[h].blocked = 0)

\* The loop of the server is sound: no datagram goes astray and no handler is left
\* without the events it waits for.
ServerSound == RoutingSound /\ HandlersSound

SpecServer == InitServer /\ [][NextServer]_srv /\ FairServer
=============================================================================
