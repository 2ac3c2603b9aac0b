----------------------------- MODULE Handshake -----------------------------
(***************************************************************************)
(* The QUIC handshake of lib/ngtcp2_conn.c: a client and a server running  *)
(* the same code, composed over a network that loses and delays datagrams. *)
(*                                                                         *)
(* Each endpoint has three packet number spaces, "in" (Initial), "hs"      *)
(* (Handshake) and "app" (0-RTT and 1-RTT), ONE loss-detection timer for   *)
(* all of them, and, at the server, the amplification limit.  The          *)
(* properties are about what those share: nobody waits for ever.           *)
(*                                                                         *)
(* Sizes are in units of half a full datagram (NGTCP2_MAX_UDP_PAYLOAD_SIZE *)
(* = Cap units).  CRYPTO data is a set of numbered pieces, one to a packet; *)
(* a piece of the ClientHello fills a datagram, one of the server's        *)
(* Handshake flight what is left of it, any other takes one unit.  The one *)
(* piece of "app" data is the request at the client, and HANDSHAKE_DONE at *)
(* the server.  Time is abstracted: see Due.                               *)
(***************************************************************************)
EXTENDS Integers, FiniteSets, SequencesExt

CONSTANTS NumHS,        \* pieces in the server's Handshake flight
          Modes,        \* a subset of AllModes
          MaxTrouble,   \* datagrams lost or overtaken, writes that pacing reduces to
                        \* acknowledgements, timeouts with an answer on its way
          MaxPto        \* probe timeouts when nothing is on its way

\* plain; a ClientHello of two pieces; a server that asks for address
\* validation; 0-RTT accepted; 0-RTT rejected
AllModes == {"plain", "big", "retry", "early", "reject"}

ASSUME HandshakeConstants ==
    /\ NumHS \in Nat \ {0} /\ Modes \subseteq AllModes
    /\ {MaxTrouble, MaxPto} \subseteq Nat

VARIABLES
    mode,     \* the configuration of this connection, chosen initially
    c, s,     \* the client's and the server's ngtcp2_conn
    net,      \* net.c, net.s: datagrams on their way to the client, the server
    left      \* what remains of the bounds MaxTrouble and MaxPto

vars == <<mode, c, s, net, left>>

Cap == 2
PktThreshold == 3       \* NGTCP2_PKT_THRESHOLD
Spaces == {"in", "hs", "app"}
Least(S) == CHOOSE x \in S : \A y \in S : x <= y
Greatest(S) == CHOOSE x \in S : \A y \in S : x >= y

\* The TLS messages of each endpoint, as sets of pieces.
Pieces(srv, sp) ==
    CASE sp = "in" /\ ~srv -> IF mode = "big" THEN {1, 2} ELSE {1}
      [] sp = "hs" /\ srv  -> 1 .. NumHS
      [] OTHER             -> {1}

----------------------------------------------------------------------------
(* A packet number space (ngtcp2_pktns) and a connection.                  *)

\* An entry of rtb (ngtcp2_rtb_entry).
Entry(pn, data, el) ==
    [pn |-> pn, data |-> data, el |-> el, rec |-> FALSE, lost |-> FALSE]

NewSpace ==
    [live  |-> TRUE,    \* FALSE once discarded
     rx |-> FALSE, tx |-> FALSE,        \* keys
     next  |-> 0,       \* tx.last_pkt_num + 1
     ents  |-> {},      \* rtb.ents
     probe |-> 0,       \* rtb.probe_pkt_left
     q     |-> {},      \* pieces queued for (re)transmission
     acked |-> {},      \* pieces the peer acknowledged
     got   |-> {},      \* pieces received
     seen  |-> {},      \* packet numbers received: acktr and pngap
     need  |-> FALSE,   \* acktr has an acknowledgement to send
     loss  |-> FALSE,   \* cstat.loss_time is set
     big   |-> -1]      \* rtb.largest_acked_tx_pkt_num

Dead == [NewSpace EXCEPT !.live = FALSE]

NewConn(srv, tok) ==
    [srv |-> srv, st |-> IF srv THEN "SI" ELSE "CI",
     sp  |-> [x \in Spaces |->
                CASE x = "in" -> [NewSpace EXCEPT !.rx = TRUE, !.tx = TRUE,
                                                  !.q = IF srv THEN {} ELSE Pieces(FALSE, "in")]
                  [] x = "app" -> [NewSpace EXCEPT !.q = IF srv THEN {} ELSE {1}]
                  [] OTHER    -> NewSpace],
     ipp |-> FALSE,     \* INITIAL_PKT_PROCESSED
     ver |-> FALSE,     \* SERVER_ADDR_VERIFIED
     tls |-> FALSE, comp |-> FALSE, conf |-> FALSE,     \* handshake completed, confirmed
     ert |-> FALSE,     \* HANDSHAKE_EARLY_RETRANSMIT
     early |-> ~srv /\ mode \in {"early", "reject"},    \* early.ckm
     timer |-> FALSE,   \* cstat.loss_detection_timer is armed
     valid |-> srv /\ tok,              \* PATH_VALIDATED, for the server's path
     tok |-> tok, rtry |-> FALSE,       \* settings.tokenlen > 0, RECV_RETRY
     recv |-> 0, sent |-> 0,            \* units, on the current path
     buf1 |-> <<>>,     \* buffered 1-RTT packets
     err |-> FALSE,     \* the connection failed with an error
     bad |-> FALSE]     \* an assertion of the code failed

NoConn == [NewConn(TRUE, FALSE) EXCEPT !.st = "none"]

Sp(e, x) == e.sp[x]
NumPto(p) == Cardinality({t \in p.ents : t.data # {} /\ ~t.rec /\ ~t.lost})
NumRetransmittable(p) == NumPto(p)

Check(e, cond) == [e EXCEPT !.bad = @ \/ ~cond]

----------------------------------------------------------------------------
(* The loss-detection timer.                                               *)

LossTimes(e) == {x \in Spaces : Sp(e, x).live /\ Sp(e, x).loss}

SetTimerNoAntiDeadlock(e) ==
    [e EXCEPT !.timer = \/ LossTimes(e) # {}
                        \/ NumPto(Sp(e, "in")) > 0 \/ NumPto(Sp(e, "hs")) > 0
                        \/ NumPto(Sp(e, "app")) > 0 /\ e.conf]

\* ngtcp2_conn_set_loss_detection_timer
SetTimer(e) ==
    [e EXCEPT !.timer = \/ LossTimes(e) # {}
                        \/ NumPto(Sp(e, "in")) > 0 \/ NumPto(Sp(e, "hs")) > 0
                        \/ NumPto(Sp(e, "app")) > 0 /\ e.conf
                        \/ ~(e.srv \/ e.ver \/ e.conf)]

\* rtb_on_pkt_lost: the data of a lost packet is queued again unless a
\* probe has already reclaimed it.
MarkLost(p, lost) ==
    LET again == UNION {t.data : t \in {u \in lost : ~u.rec}}
    IN [p EXCEPT !.ents = (@ \ lost) \cup {[t EXCEPT !.lost = TRUE] : t \in lost},
                 !.q = @ \cup (again \ p.acked)]

\* ngtcp2_rtb_detect_lost_pkt: a packet is lost when one PktThreshold newer is
\* acknowledged, or when its time (late) has come; loss_time is set for the
\* unacknowledged ones older than the largest acknowledged.
DetectLost(e, x, late) ==
    LET p == Sp(e, x)
        older == {t \in p.ents : t.pn <= p.big /\ ~t.lost}
        lost == {t \in older : late \/ p.big >= t.pn + PktThreshold}
    IN [e EXCEPT !.sp[x] = [MarkLost(p, lost) EXCEPT !.loss = older \ lost # {}]]

OnTimerInitialOnly(e, x) ==
    IF ~e.timer THEN e
    ELSE IF LossTimes(e) # {} THEN SetTimer(DetectLost(e, x, TRUE))
    ELSE SetTimer(
      IF ~e.srv /\ ~e.tls THEN [Check(e, Sp(e, "in").live) EXCEPT !.sp["in"].probe = 1]
      ELSE IF NumPto(Sp(e, "hs")) > 0 THEN [e EXCEPT !.sp["hs"].probe = 2]
      ELSE [e EXCEPT !.sp["app"].probe = 2])

\* ngtcp2_conn_on_loss_detection_timer, for the space x whose loss time is
\* the earliest (any of LossTimes) or for a probe timeout
OnTimer(e, x) ==
    IF ~e.timer THEN e
    ELSE IF LossTimes(e) # {} THEN SetTimer(DetectLost(e, x, TRUE))
    ELSE SetTimer(
      IF ~e.srv /\ ~e.tls
      THEN LET y == IF Sp(e, "hs").tx THEN "hs" ELSE "in"
           IN [Check(e, Sp(e, y).live) EXCEPT !.sp[y].probe = 1]
      ELSE IF NumPto(Sp(e, "in")) > 0
      THEN [Check(e, Sp(e, "hs").live) EXCEPT
              !.sp["in"].probe = 1,
              !.sp["hs"].probe = IF e.srv /\ NumPto(Sp(e, "hs")) > 0 THEN 1 ELSE @]
      ELSE IF NumPto(Sp(e, "hs")) > 0 THEN [e EXCEPT !.sp["hs"].probe = 2]
      ELSE [e EXCEPT !.sp["app"].probe = 2])

\* conn_discard_pktns: the space, its loss time, and the timer with it
Discard(e, x) ==
    IF ~Sp(e, x).live THEN e
    ELSE SetTimer([e EXCEPT !.sp[x] = Dead])

\* ngtcp2_conn_discard_initial_state
DiscardInitial(e) == Discard(e, "in")
\* ngtcp2_conn_discard_handshake_state
DiscardHandshake(e) == Discard(e, "hs")

----------------------------------------------------------------------------
(* Writing.  A write in progress is [e, pkts, room]: the connection, the   *)
(* packets coalesced so far, and the units left in the datagram.           *)

Infinite == 1000
TxLeftPerDgram(e) == IF e.valid \/ ~e.srv THEN Infinite ELSE 3 * e.recv

\* dcid_tx_left, conn_server_tx_left
TxLeft(e) == IF e.valid \/ ~e.srv THEN Infinite ELSE 3 * e.recv - e.sent

\* ngtcp2_strm_streamfrq_pop: the lowest piece queued, if it fits
Popped(e, x, room) ==
    LET todo == Sp(e, x).q \ Sp(e, x).acked
    IN IF todo = {} \/ (x = "in" /\ ~e.srv /\ room < Cap) THEN {} ELSE {Least(todo)}

\* ngtcp2_rtb_reclaim_on_pto: queue again the data of the num oldest packets
\* whose data is not acknowledged, skipping (but marking) those whose data is.
ReclaimOnPto(p, num) ==
    LET cand == {t \in p.ents : t.data # {} /\ ~t.rec /\ ~t.lost}
        useful == {t \in cand : ~(t.data \subseteq p.acked)}
        taken == {t \in cand : Cardinality({u \in useful : u.pn < t.pn}) < num}
    IN [p EXCEPT !.ents = (@ \ taken) \cup {[t EXCEPT !.rec = TRUE] : t \in taken},
                 !.q = @ \cup (UNION {t.data : t \in taken} \ p.acked)]

\* Which packets with CRYPTO data leave no room for another packet.
Fills(e, x) == (x = "in" /\ ~e.srv) \/ (x = "hs" /\ e.srv)

\* conn_can_send_next_pkt
CanSendNext(room) == room >= 1

\* conn_should_pad_pkt, and REQUIRE_PADDING in conn_write_pkt
ShouldPad(e, x, room, el, reqpad, early) ==
    LET hs == Sp(e, "hs")
        hsNext == hs.tx /\ (hs.probe > 0 \/ hs.q # {} \/ hs.seen # {})
    IN CASE x = "in" /\ e.srv -> el /\ ~((hsNext \/ Sp(e, "app").tx) /\ CanSendNext(room))
         [] x = "in" /\ ~e.srv -> ~((hsNext \/ (e.early /\ early)) /\ CanSendNext(room))
         [] x = "hs" -> reqpad /\ ~(Sp(e, "app").tx /\ CanSendNext(room))
         [] OTHER -> reqpad

(* One packet in space x: conn_write_handshake_pkt, and conn_write_pkt for  *)
(* the parts of it that matter here.  The packet under construction is     *)
(* [e, data]: the connection, and the pieces it will carry.                *)

\* The ACK frame: what is received so far, when there is something to acknowledge.
PktAck(p, type) == IF p.need /\ type # "0rtt" THEN p.seen ELSE {}

\* A server sends ack-eliciting Initial packets in full datagrams only.
MayElicit(e, x, room) == ~e.srv \/ x # "in" \/ room >= Cap

\* The data queued, or else what a probe reclaims from the packets in flight;
\* with nothing left to reclaim no probe is needed, except by a client that
\* does not know yet that the server validated its address.
Probing(e, x, room) ==
    Popped(e, x, room) = {} /\ NumRetransmittable(Sp(e, x)) > 0 /\ Sp(e, x).probe > 0

Reclaimed(e, x) ==
    [e EXCEPT !.sp[x] = ReclaimOnPto(@, IF ~e.srv /\ x = "in" THEN 2 ELSE 1)]

ProbeData(e, x, data) ==
    [e |-> IF data = {} /\ NumPto(Sp(e, x)) = 0 /\ (e.srv \/ e.ver \/ x = "app")
           THEN SetTimer([e EXCEPT !.sp[x].probe = 0]) ELSE e,
     data |-> data]

ReclaimedData(e, x, room) == ProbeData(e, x, Popped(e, x, room))

PktData(e, x, room) ==
    IF ~MayElicit(e, x, room) THEN [e |-> e, data |-> {}]
    ELSE IF Probing(e, x, room) THEN ReclaimedData(Reclaimed(e, x), x, room)
    ELSE [e |-> e, data |-> Popped(e, x, room)]

\* PING, for a probe that has nothing else to send
PktPing(b, x, room) == MayElicit(b.e, x, room) /\ b.data = {} /\ Sp(b.e, x).probe > 0

\* conn_on_pkt_sent, for packets that are ack-eliciting or padded
PktTrack(e, x, entry, tracked) ==
    IF tracked THEN SetTimer([e EXCEPT !.sp[x].ents = @ \cup {entry}]) ELSE e

\* The packet is sent: probe_pkt_left, last_pkt_num, bytes_sent.
PktSent(e, x, entry, used, tracked) ==
    PktTrack([e EXCEPT !.sp[x].q = (@ \ entry.data) \ Sp(e, x).acked,
                       !.sp[x].need = FALSE, !.sp[x].next = @ + 1,
                       !.sp[x].probe = IF @ > 0 /\ entry.el THEN @ - 1 ELSE @,
                       !.sent = IF e.srv /\ ~e.valid THEN @ + used ELSE @],
             x, entry, tracked)

\* The packet with the data b, unless there is nothing to put in it
PutPkt(w, x, type, reqpad, b, el, pad, used) ==
    LET p == Sp(w.e, x)
        ack == PktAck(p, type)
    IN IF ack = {} /\ ~el /\ ~(reqpad /\ pad) THEN [w EXCEPT !.e = b.e]
       ELSE [e |-> PktSent(b.e, x, Entry(p.next, b.data, el), used, el \/ pad),
             room |-> w.room - used,
             pkts |-> Append(w.pkts, [type |-> type, pn |-> p.next, data |-> b.data,
                                      ack |-> ack, el |-> el, tok |-> w.e.tok])]

PadPkt(w, x, type, reqpad, b, el, pad, size) ==
    PutPkt(w, x, type, reqpad, b, el, pad, IF pad THEN w.room ELSE size)

SizePkt(w, x, type, reqpad, early, b, el, size) ==
    PadPkt(w, x, type, reqpad, b, el,
           ShouldPad(b.e, x, w.room - size, el, reqpad, early), size)

FillPkt(w, x, type, reqpad, early, b) ==
    SizePkt(w, x, type, reqpad, early, b, b.data # {} \/ PktPing(b, x, w.room),
            IF b.data # {} /\ Fills(w.e, x) THEN w.room ELSE 1)

\* early says that 0-RTT data waits to be sent in the same datagram.
WritePkt(w, x, type, reqpad, early) ==
    IF w.room = 0 THEN w
    ELSE FillPkt(w, x, type, reqpad, early, PktData(w.e, x, w.room))

WriteInitial(w, early) ==
    IF Sp(w.e, "in").live THEN WritePkt(w, "in", "initial", FALSE, early) ELSE w

WriteHandshakePkt(w, reqpad) ==
    IF Sp(w.e, "hs").live /\ Sp(w.e, "hs").tx
    THEN WritePkt(w, "hs", "handshake", reqpad, FALSE) ELSE w

Wrote(w0, w1) == Len(w1.pkts) > Len(w0.pkts)
FirstIsInitial(w) == w.pkts # <<>> /\ Head(w.pkts).type = "initial"

CancelTimer(e) == [e EXCEPT !.timer = FALSE]

\* conn_write_handshake_pkts, for a server that cannot send its Initial
WriteHandshakePktsBlocked(w) ==
    IF w.e.timer /\ TxLeft(w.e) < Cap THEN [w EXCEPT !.e = CancelTimer(@)] ELSE w

\* A client that can send Handshake packets and owes no Initial one
DoneWithInitial(e) ==
    LET in == Sp(e, "in")
        hs == Sp(e, "hs")
    IN ~e.srv /\ hs.tx /\ in.live /\ ~in.need /\ (hs.need \/ hs.probe > 0)

\* A client that sends a Handshake packet discards its Initial keys.
HandshakePktWritten(w0, w) ==
    IF ~w.e.srv /\ Sp(w.e, "hs").tx /\ Wrote(w0, w) THEN [w EXCEPT !.e = DiscardInitial(@)] ELSE w

NewestEntry(p) == {t \in p.ents : \A u \in p.ents : u.pn <= t.pn}

\* conn_write_handshake_pkts after the Initial packet, if any
InitialWritten(w0, w) ==
    LET in == Sp(w.e, "in")
        reqpad == Wrote(w0, w) /\ (~w.e.srv \/ \E t \in NewestEntry(in) : t.el)
    IN IF ~Wrote(w0, w) /\ w.e.srv /\ in.live /\ (in.probe > 0 \/ in.q # {})
       THEN WriteHandshakePktsBlocked(w)
       ELSE HandshakePktWritten(w, WriteHandshakePkt(w, reqpad))

\* conn_write_handshake_pkts
WriteHandshakePkts(w, early) ==
    LET checked == [w EXCEPT !.e = Check(@, @.srv \/ Sp(@, "hs").live)]
    IN InitialWritten(w, IF DoneWithInitial(w.e) THEN [checked EXCEPT !.e = DiscardInitial(@)]
                         ELSE WriteInitial(checked, early))

\* conn_write_ack_pkt: an acknowledgement alone, outside rtb
WriteAckPkt(w, x, type) ==
    LET e == w.e
        p == Sp(e, x)
    IN IF ~p.live \/ ~p.tx \/ ~p.need \/ w.room = 0 THEN w
       ELSE [e |-> [e EXCEPT !.sp[x].need = FALSE, !.sp[x].next = @ + 1,
                             !.sent = IF e.srv /\ ~e.valid THEN @ + 1 ELSE @],
             room |-> w.room - 1,
             pkts |-> Append(w.pkts, [type |-> type, pn |-> p.next, data |-> {},
                                      ack |-> p.seen, el |-> FALSE, tok |-> e.tok])]

\* conn_write_handshake_ack_pkts
WriteHandshakeAckPkt(w) == HandshakePktWritten(w, WriteAckPkt(w, "hs", "handshake"))

WriteHandshakeAckPkts(w) ==
    WriteHandshakeAckPkt(IF w.e.srv THEN WriteAckPkt(w, "in", "initial") ELSE w)

\* conn_retransmit_retry_early, and the 0-RTT packet that
\* conn_client_write_handshake adds
WriteEarly(w) ==
    IF w.e.early /\ ~w.e.srv /\ ~w.e.tls /\ Sp(w.e, "app").q # {}
    THEN WritePkt(w, "app", "0rtt", FirstIsInitial(w), FALSE) ELSE w

\* conn_write_handshake in the client's states, with its 0-RTT packet
EarlyWaits(e) == e.early /\ ~e.tls /\ Sp(e, "app").q # {}

ClientInitialWritten(w0, w) ==
    IF ~Wrote(w0, w) /\ ~w0.e.rtry THEN w ELSE WriteEarly([w EXCEPT !.e.st = "CW"])

AckIfNothingElse(w) == IF w.pkts = <<>> THEN WriteHandshakeAckPkts(w) ELSE w

ClientPktsWritten(w) ==
    IF ~w.e.tls THEN AckIfNothingElse(WriteEarly(w))
    ELSE IF w.e.comp THEN [w EXCEPT !.e.st = "PH"] ELSE w

ClientWriteHandshake(w) ==
    IF w.e.st = "CI" THEN ClientInitialWritten(w, WriteInitial(w, EarlyWaits(w.e)))
    ELSE ClientPktsWritten(WriteHandshakePkts(w, EarlyWaits(w.e)))

\* conn_write_handshake in the server's states
ServerPktsWrittenDiscards(w0, w) ==
    IF w.e.st = "SI" /\ Wrote(w0, w)
    THEN [w EXCEPT !.e = [DiscardInitial(@) EXCEPT !.st = "SW"]]
    ELSE IF Wrote(w0, w) THEN w ELSE WriteHandshakeAckPkts(w)

ServerPktsWritten(w0, w) ==
    IF w.e.st = "SI" THEN (IF Wrote(w0, w) THEN [w EXCEPT !.e.st = "SW"] ELSE w)
    ELSE IF Wrote(w0, w) THEN w ELSE WriteHandshakeAckPkts(w)

ServerWriteHandshake(w) == ServerPktsWritten(w, WriteHandshakePkts(w, FALSE))

\* conn_handshake_remnants_left
RemnantsLeft(e) ==
    ~e.tls \/ \E x \in {"in", "hs"} : Sp(e, x).live /\ (NumPto(Sp(e, x)) > 0 \/ Sp(e, x).q # {})

\* ngtcp2_conn_write_vmsg from the point where the 1-RTT key is needed
WriteAppPkt(w) ==
    WritePkt(w, "app", "1rtt", FirstIsInitial(w) /\ (~w.e.srv \/ w.pkts[1].el), FALSE)

WriteRemnants(w) ==
    IF w.pkts = <<>> /\ RemnantsLeft(w.e)
    THEN WriteHandshakePkts([w EXCEPT !.e = Check(@, Sp(@, "hs").live)], FALSE)
    ELSE w

WriteShort(w) ==
    LET stuck == w.e.srv /\ TxLeft(w.e) = 0
        limited == w.e.srv /\ TxLeft(w.e) < w.room
    IN WriteAppPkt(WriteRemnants(
         [w EXCEPT !.e = IF stuck THEN CancelTimer(@) ELSE @,
                   !.room = IF limited THEN TxLeft(w.e) ELSE @]))

Room(e) == IF e.srv /\ TxLeft(e) < Cap THEN TxLeft(e) ELSE Cap
NothingWritten(e) == [e |-> e, pkts |-> <<>>, room |-> Room(e)]

\* conn_write_handshake
WriteHandshake(w) ==
    CASE w.e.st \in {"CI", "CW"} -> ClientWriteHandshake(w)
      [] w.e.st \in {"SI", "SW"} ->
           IF w.room = 0 THEN [w EXCEPT !.e = CancelTimer(@)] ELSE ServerWriteHandshake(w)
      [] OTHER -> w

\* ngtcp2_conn_write_vmsg goes on to 1-RTT packets when the handshake is over
\* and, at a server, as soon as it has their key and may send at all.
HandshakeWritten(w0, w) ==
    IF w.e.st = "PH" \/ (w0.room > 0 /\ w.e.st \in {"SI", "SW"} /\ Sp(w.e, "app").tx)
    THEN WriteShort(w) ELSE w

\* ngtcp2_conn_write_vmsg
WriteFrom(w) == HandshakeWritten(w, WriteHandshake(w))

WriteVmsg(e) == WriteFrom(NothingWritten(e))

\* ngtcp2_conn_write_vmsg when pacing does not allow a packet now
WritePaced(e) ==
    CASE e.st \in {"CI", "CW", "SI", "SW"} -> WriteHandshakeAckPkts(NothingWritten(e))
      [] e.st = "PH" -> WriteAckPkt(NothingWritten(e), "app", "1rtt")
      [] OTHER -> NothingWritten(e)

----------------------------------------------------------------------------
(* Reading.                                                                *)

Fail(e) == [e EXCEPT !.err = TRUE]

\* ngtcp2_rtb_recv_ack and conn_recv_ack
Acknowledge(p, hit) ==
    LET acked == p.acked \cup UNION {t.data : t \in hit}
    IN [p EXCEPT !.ents = @ \ hit, !.acked = acked, !.q = @ \ acked]

AckEntries(e, x, hit) ==
    IF hit = {} THEN e
    ELSE SetTimer([DetectLost([e EXCEPT !.sp[x] = Acknowledge(@, hit)], x, FALSE) EXCEPT
                     !.sp[x].probe = 0])

RecvAck(e, x, S) ==
    IF S = {} THEN e
    ELSE IF Greatest(S) >= Sp(e, x).next THEN Fail(e)
    ELSE AckEntries([e EXCEPT !.sp[x].big = Greatest(S \cup {@})], x,
                    {t \in Sp(e, x).ents : t.pn \in S})

\* ngtcp2_rtb_remove_early_data: at this moment all entries are 0-RTT packets.
RemoveEarlyData(e) == [e EXCEPT !.sp["app"].ents = {}]

\* conn_discard_early_data_state: the application submits the request again
DiscardEarlyData(e) == [RemoveEarlyData(e) EXCEPT !.sp["app"].q = {1}, !.early = FALSE]

\* ngtcp2_crypto_derive_and_install_rx_key and ..._tx_key, and the functions of
\* ngtcp2_conn.c they call: a key is installed once, in a space that exists.
InstallRxKey(e, x) ==
    [Check(e, Sp(e, x).live /\ ~Sp(e, x).rx) EXCEPT !.sp[x].rx = TRUE]

InstallTxKey(e, x) ==
    [Check(e, Sp(e, x).live /\ ~Sp(e, x).tx) EXCEPT !.sp[x].tx = TRUE]

InstallKeys(e, x) == InstallTxKey(InstallRxKey(e, x), x)

\* The TLS stack: which keys it installs, and what it sends, once the
\* messages of a space are complete.
TlsRecv(e, x) ==
    CASE e.srv /\ x = "in" ->
           [InstallTxKey(InstallKeys(e, "hs"), "app") EXCEPT
              !.sp["in"].q = {1}, !.sp["hs"].q = Pieces(TRUE, "hs"), !.early = mode = "early"]
      [] ~e.srv /\ x = "in" -> InstallKeys(e, "hs")
      [] ~e.srv /\ x = "hs" ->
           LET e1 == [InstallKeys(e, "app") EXCEPT !.tls = TRUE, !.sp["hs"].q = {1}]
           IN IF mode = "reject" THEN DiscardEarlyData(e1) ELSE [e1 EXCEPT !.early = FALSE]
      [] OTHER -> [InstallRxKey(e, "app") EXCEPT !.tls = TRUE, !.conf = TRUE]

InOrder(got) == {n \in got : 1 .. n \subseteq got}

\* conn_recv_crypto, for the pieces of one packet
EarlyRetransmit(e, again) ==
    IF again /\ e.srv /\ ~e.ert
    THEN [e EXCEPT !.ert = TRUE, !.sp["in"].probe = 1, !.sp["hs"].probe = 1] ELSE e

TlsIfComplete(e, x, before) ==
    LET all == Pieces(~e.srv, x)
    IN IF before # all /\ Sp(e, x).got = all THEN TlsRecv(e, x) ELSE e

RecvCrypto(e, x, data) ==
    TlsIfComplete(EarlyRetransmit([e EXCEPT !.sp[x].got = @ \cup data],
                                  x = "in" /\ data \cap InOrder(Sp(e, x).got) # {}),
                  x, Sp(e, x).got)

\* pktns_commit_recv_pkt_num and ngtcp2_acktr_add
Commit(e, x, pk) ==
    [e EXCEPT !.sp[x].seen = @ \cup {pk.pn}, !.sp[x].need = @ \/ pk.el]

\* conn_recv_handshake_done, at the client
RecvHandshakeDone(e) ==
    IF e.conf THEN e
    ELSE SetTimer(DiscardHandshake([e EXCEPT !.conf = TRUE, !.ver = TRUE]))

\* conn_recv_pkt, for a 0-RTT or a 1-RTT packet whose key is installed
RecvAppFrames(e, pk) ==
    IF ~e.srv /\ pk.data # {} THEN RecvHandshakeDone([e EXCEPT !.sp["app"].got = @ \cup pk.data])
    ELSE [e EXCEPT !.sp["app"].got = @ \cup pk.data]

RecvApp(e, pk) ==
    IF pk.pn \in Sp(e, "app").seen THEN e
    ELSE Commit(RecvAppFrames(RecvAck([e EXCEPT !.ver = @ \/ (~e.srv /\ pk.ack # {})], "app", pk.ack),
                              pk),
                "app", pk)

\* ngtcp2_rtb_reclaim_on_retry: whatever is in flight is sent again; nothing
\* of it was acknowledged or declared lost, or is a bare probe.
ReclaimOnRetry(e, x) ==
    LET ents == Sp(e, x).ents
    IN  [Check(e, \A t \in ents : ~t.lost /\ t.data # {}) EXCEPT
            !.sp[x].ents = {},
            !.sp[x].q = @ \cup UNION {t.data : t \in {u \in ents : ~u.rec}}]

\* conn_on_retry
OnRetry(e) ==
    IF e.rtry \/ ~Sp(e, "in").live THEN e
    ELSE [ReclaimOnRetry(ReclaimOnRetry(e, "in"), "app") EXCEPT
            !.rtry = TRUE, !.tok = TRUE, !.st = "CI", !.timer = FALSE]

\* conn_recv_handshake_pkt, the frames of an Initial or a Handshake packet
ValidateAddress(e, x) ==
    IF x = "hs" /\ e.srv THEN [e EXCEPT !.valid = TRUE, !.recv = 0, !.sent = 0] ELSE e

RecvCryptoFrames(e, x, pk) ==
    IF e.err THEN e ELSE Commit(ValidateAddress(RecvCrypto(e, x, pk.data), x), x, pk)

RecvFrames(e, x, pk) ==
    RecvCryptoFrames(
      RecvAck([e EXCEPT !.ipp = TRUE, !.ver = @ \/ (~e.srv /\ x = "hs" /\ pk.ack # {})], x, pk.ack),
      x, pk)

(* conn_recv_handshake_pkt gives [e, go]: go is FALSE when what follows the  *)
(* packet in its datagram is not read with it.                             *)
Go(e) == [e |-> e, go |-> TRUE]
Stop(e) == [e |-> e, go |-> FALSE]

\* A short header: without its key the packet is buffered (ignored before the
\* server's first flight); with the key it is left to RecvRest.
RecvShortHeader(e, pk) ==
    IF Sp(e, "app").rx \/ e.st = "SI" THEN Go(e) ELSE Stop([e EXCEPT !.buf1 = Append(@, pk)])

\* Retry is for a client that has not processed an Initial packet.
RecvRetryPkt(e) == Stop(IF e.srv \/ e.ipp THEN e ELSE OnRetry(e))

\* 0-RTT without its key is dropped.  (A server's connection exists only once
\* it has processed an Initial packet: none is buffered.)
RecvEarlyPkt(e, pk) == Go(IF e.srv /\ e.ipp /\ e.early THEN RecvApp(e, pk) ELSE e)

\* A server ignores an Initial packet in a short datagram or without its
\* token; a duplicate is dropped with the rest of the datagram, and with the
\* connection when that has received nothing else.
RecvInitialPkt(e, pk, size) ==
    LET in == Sp(e, "in")
        drop == (e.srv /\ (size < Cap \/ (e.tok /\ ~pk.tok))) \/ pk.pn \in in.seen
    IN IF ~in.live THEN Go(e)
       ELSE IF drop THEN Stop(IF e.srv /\ in.seen = {} THEN [e EXCEPT !.st = "none"] ELSE e)
       ELSE Go(RecvFrames(e, "in", pk))

\* A client that has no CRYPTO data has not negotiated the version, and drops
\* Handshake packets.
RecvHandshakeTypePkt(e, pk) ==
    LET hs == Sp(e, "hs")
        early == ~e.srv /\ Sp(e, "in").live /\ Sp(e, "in").got = {}
    IN Go(IF early \/ ~hs.live \/ ~hs.rx \/ pk.pn \in hs.seen THEN e ELSE RecvFrames(e, "hs", pk))

\* conn_recv_handshake_pkt
RecvHandshakePkt(e, pk, size) ==
    CASE pk.type = "retry" -> RecvRetryPkt(e)
      [] pk.type = "0rtt" -> RecvEarlyPkt(e, pk)
      [] pk.type = "initial" -> RecvInitialPkt(e, pk, size)
      [] pk.type = "handshake" -> RecvHandshakeTypePkt(e, pk)
      [] pk.type = "1rtt" -> RecvShortHeader(e, pk)

\* conn_recv_handshake_cpkt
RecvNextPkt(r, pk, size) == IF r.go /\ ~r.e.err THEN RecvHandshakePkt(r.e, pk, size) ELSE r

RecvHandshakeCpkt(e, dg) ==
    FoldLeft(LAMBDA r, pk : RecvNextPkt(r, pk, dg.size),
             Go(IF e.srv /\ ~e.valid THEN [e EXCEPT !.recv = @ + dg.size] ELSE e), dg.pkts)

\* conn_process_buffered_protected_pkt
ProcessBuffered(e) == [FoldLeft(RecvApp, e, e.buf1) EXCEPT !.buf1 = <<>>]

\* The 1-RTT packet that ends a datagram, when conn_read_handshake leaves it.
RecvRest(r, e, dg) ==
    IF r.go /\ Sp(e, "app").rx /\ Last(dg.pkts).type = "1rtt" THEN RecvApp(e, Last(dg.pkts)) ELSE e

\* conn_read_handshake, NGTCP2_CS_CLIENT_WAIT_HANDSHAKE
ClientHandshakeRead(r, dg) ==
    IF r.e.st = "CI" \/ r.e.err THEN r.e
    ELSE RecvRest(r, IF r.e.tls /\ ~r.e.comp THEN ProcessBuffered([r.e EXCEPT !.comp = TRUE]) ELSE r.e,
                  dg)

ClientRead(e, dg) == ClientHandshakeRead(RecvHandshakeCpkt(e, dg), dg)

\* conn_read_handshake, NGTCP2_CS_SERVER_INITIAL.  With nothing to give to
\* TLS the connection is dropped, or ERR_RETRY asks for address validation.
ServerFirstRead(e) ==
    LET got == Sp(e, "in").got
    IN IF e.st = "none" \/ e.err \/ InOrder(got) # {} \/ (got # {} /\ e.tok) THEN e
       ELSE [e EXCEPT !.st = IF got # {} THEN "ask" ELSE "none"]

ServerReadFirst(e, dg) == ServerFirstRead(RecvHandshakeCpkt(e, dg).e)

\* The timer that the amplification limit cancelled is armed again, and may
\* have expired.
Expire(e) == OnTimer(e, IF LossTimes(e) = {} THEN "in" ELSE CHOOSE x \in LossTimes(e) : TRUE)

Rearm(e, expired) ==
    IF e.timer THEN e ELSE IF expired THEN Expire(SetTimer(e)) ELSE SetTimer(e)

\* conn_read_handshake, NGTCP2_CS_SERVER_WAIT_HANDSHAKE
ServerHandshakeDone(e) ==
    SetTimer([DiscardHandshake(ProcessBuffered([e EXCEPT !.comp = TRUE, !.st = "PH"])) EXCEPT
                !.sp["app"].q = {1}])

ServerPktsRead(r, e, dg, expired) ==
    IF e.tls THEN RecvRest(r, ServerHandshakeDone(e), dg) ELSE Rearm(e, expired)

ServerHandshakeRead(r, dg, expired) ==
    IF r.e.err THEN r.e
    ELSE ServerPktsRead(r, IF Sp(r.e, "hs").seen # {} THEN DiscardInitial(r.e) ELSE r.e, dg, expired)

ServerRead(e, dg, expired) == ServerHandshakeRead(RecvHandshakeCpkt(e, dg), dg, expired)

\* conn_recv_delayed_handshake_pkt
RecvDelayed(e, pk) ==
    IF ~Sp(e, "hs").live \/ pk.pn \in Sp(e, "hs").seen THEN e
    ELSE Commit(RecvAck([e EXCEPT !.ver = @ \/ (~e.srv /\ pk.ack # {})], "hs", pk.ack), "hs", pk)

\* conn_recv_cpkt and conn_recv_pkt, after the handshake
RecvCompleted(e, pk) ==
    CASE e.err -> e
      [] pk.type = "handshake" -> RecvDelayed(e, pk)
      [] pk.type = "1rtt" \/ (pk.type = "0rtt" /\ e.srv /\ e.early) -> RecvApp(e, pk)
      [] OTHER -> e

RecvCpkt(e, dg) == FoldLeft(RecvCompleted, e, dg.pkts)

\* ngtcp2_conn_read_pkt.  Packets that are protected with keys of another
\* attempt (before or after Retry) cannot be opened.
ReadPkt(e, dg, expired) ==
    CASE Head(dg.pkts).tok # e.tok -> e
      [] e.st = "CW" -> ClientRead(e, dg)
      [] e.st = "SI" -> ServerReadFirst(e, dg)
      [] e.st = "SW" -> ServerRead(e, dg, expired)
      [] e.st = "PH" -> RecvCpkt(e, dg)
      [] OTHER -> e

----------------------------------------------------------------------------
(* The system.                                                             *)

Init ==
    /\ mode \in Modes
    /\ c = NewConn(FALSE, FALSE) /\ s = NoConn
    /\ net = [c |-> <<>>, s |-> <<>>]
    /\ left = [trouble |-> MaxTrouble, pto |-> MaxPto, last |-> "none"]

RetryDgram == [size |-> 1, pkts |-> <<[type |-> "retry", pn |-> 0, data |-> {}, ack |-> {},
                                       el |-> FALSE, tok |-> FALSE]>>]

\* What a write leaves to be sent: nothing, or one datagram.
Dgram(w, room) == IF w.pkts = <<>> THEN <<>> ELSE <<[size |-> room - w.room, pkts |-> w.pkts]>>

CanWrite(e) == WriteVmsg(e).e # e

\* One of the MaxTrouble things that may go wrong.
Trouble == left.trouble > 0 /\ left' = [left EXCEPT !.trouble = @ - 1]

\* The application (client.cc, server.cc) writes after every read and timeout.
ClientWrite ==
    /\ \E w \in {WriteVmsg(c)} :
         w.e # c /\ c' = w.e /\ net' = [net EXCEPT !.s = @ \o Dgram(w, Cap)]
    /\ UNCHANGED <<mode, s, left>>

ServerWrite ==
    /\ s.st # "none"
    /\ \E w \in {WriteVmsg(s)} :
         w.e # s /\ s' = w.e /\ net' = [net EXCEPT !.c = @ \o Dgram(w, Room(s))]
    /\ UNCHANGED <<mode, c, left>>

\* A write that pacing reduces to acknowledgements.
PacedWrite ==
    /\ Trouble
    /\ \/ /\ CanWrite(c)
          /\ \E w \in {WritePaced(c)} :
               c' = w.e /\ net' = [net EXCEPT !.s = @ \o Dgram(w, Cap)]
          /\ UNCHANGED <<mode, s>>
       \/ /\ s.st # "none" /\ CanWrite(s)
          /\ \E w \in {WritePaced(s)} :
               s' = w.e /\ net' = [net EXCEPT !.c = @ \o Dgram(w, Room(s))]
          /\ UNCHANGED <<mode, c>>

ClientRecv ==
    /\ net.c # <<>> /\ ~CanWrite(c)
    /\ c' = ReadPkt(c, Head(net.c), FALSE)
    /\ net' = [net EXCEPT !.c = Tail(@)]
    /\ UNCHANGED <<mode, s, left>>

\* Server::read_pkt of server.cc.  An Initial of an unknown connection is
\* answered with Retry, or creates a connection, which asks for Retry itself
\* when it got the ClientHello out of order.  A client that got Retry starts
\* a new connection; the one it leaves behind cannot reach it any more.
ServerTakes(dg, pk) ==
    /\ pk.type = "initial" /\ dg.size >= Cap
    /\ IF s.st = "none" THEN pk.tok \/ ~c.rtry ELSE pk.tok /\ ~s.tok

ServerRecv ==
    /\ net.s # <<>> /\ ~CanWrite(s)
    /\ \E expired \in BOOLEAN, dg \in {Head(net.s)} :
         \E pk \in {Head(dg.pkts)} :
         \E new \in {ServerTakes(dg, pk)} :
         \E e \in {ReadPkt(IF new THEN NewConn(TRUE, pk.tok) ELSE s, dg, expired)} :
         \E ask \in {new /\ (e.st = "ask" \/ (mode = "retry" /\ ~pk.tok))} :
            /\ s' = IF ask \/ e.st = "none" THEN NoConn ELSE e
            /\ net' = [s |-> Tail(net.s),
                       c |-> net.c \o IF ask THEN <<RetryDgram>> ELSE <<>>]
    /\ UNCHANGED <<mode, c, left>>

\* The network.
Lose ==
    /\ Trouble
    /\ \E d \in {"c", "s"} : net[d] # <<>> /\ net' = [net EXCEPT ![d] = Tail(@)]
    /\ UNCHANGED <<mode, c, s>>

Delay ==
    /\ Trouble
    /\ \E d \in {"c", "s"} :
         /\ Len(net[d]) > 1
         /\ net' = [net EXCEPT ![d] = Append(Tail(@), Head(@))]
    /\ UNCHANGED <<mode, c, s>>

\* ngtcp2_conn_handle_expiry.  A loss time may pass at any moment.  A probe
\* timeout is longer than a round trip: unless the network is slow it fires
\* when nothing is on its way; and since each timeout doubles the next
\* one, no endpoint's fires twice before the other's armed one.
Quiet == net.c = <<>> /\ net.s = <<>> /\ ~CanWrite(c) /\ ~CanWrite(s)

DueNow(who, e, other, quiet) ==
    \/ LossTimes(e) # {}
    \/ quiet /\ left.pto > 0 /\ (left.last # who \/ ~other.timer)

Due(who, e, other) == e.timer /\ ~CanWrite(e) /\ DueNow(who, e, other, Quiet)

Charge(who, e, quiet) ==
    IF LossTimes(e) # {} THEN left
    ELSE IF quiet THEN [left EXCEPT !.pto = @ - 1, !.last = who]
    ELSE [left EXCEPT !.trouble = @ - 1]

MayFire(who, e, other) ==
    /\ e.timer /\ ~CanWrite(e)
    /\ \E quiet \in {Quiet} :
         /\ DueNow(who, e, other, quiet) \/ (~quiet /\ left.trouble > 0)
         /\ left' = Charge(who, e, quiet)

FireTimer(e) ==
    IF LossTimes(e) = {} THEN {OnTimer(e, "in")} ELSE {OnTimer(e, x) : x \in LossTimes(e)}

ClientTimeout ==
    /\ MayFire("c", c, s)
    /\ c' \in FireTimer(c)
    /\ UNCHANGED <<mode, s, net>>

ServerTimeout ==
    /\ MayFire("s", s, c)
    /\ s' \in FireTimer(s)
    /\ UNCHANGED <<mode, c, net>>

Next ==
    \/ ClientWrite \/ ServerWrite \/ PacedWrite
    \/ ClientRecv \/ ServerRecv
    \/ Lose \/ Delay
    \/ ClientTimeout \/ ServerTimeout

\* The event loops run, the network delivers what it does not lose, and
\* timers expire: weak fairness of each of these actions, with the action's
\* guard written out.
Fairness ==
    /\ []<>(~CanWrite(c)) \/ []<><<ClientWrite>>_vars
    /\ []<>(~CanWrite(s)) \/ []<><<ServerWrite>>_vars
    /\ []<>(net.c = <<>> \/ CanWrite(c)) \/ []<><<ClientRecv>>_vars
    /\ []<>(net.s = <<>> \/ CanWrite(s)) \/ []<><<ServerRecv>>_vars
    /\ []<>(~Due("c", c, s)) \/ []<><<ClientTimeout>>_vars
    /\ []<>(~Due("s", s, c)) \/ []<><<ServerTimeout>>_vars

Spec == Init /\ [][Next]_vars /\ Fairness

----------------------------------------------------------------------------
(* Properties.                                                             *)

Done == /\ c.conf /\ s.st = "PH" /\ 1 \in s.sp["app"].got
        /\ c.sp["app"].q = {} /\ s.sp["app"].q = {}

\* Two endpoints running this code never fail each other: no packet is a
\* protocol error for its receiver, and no assertion of the handshake code
\* fails: keys are installed once, a discarded packet number space is never
\* used, and when Retry arrives the client has sent CRYPTO and 0-RTT data only
\* and had no packet acknowledged.
AssertionsHold == \A e \in {c, s} : ~e.bad /\ ~e.err

\* Before the client's address is validated, the server has sent at most
\* three times what it received, however writes and timeouts interleave.
AmplificationBound == s.valid \/ s.sent <= 3 * s.recv

\* Nobody is left behind: the client does not complete before the server can
\* send 1-RTT packets, it does not confirm before the server completed, and
\* the Initial and Handshake keys are kept by both while the client needs them.
NobodyLeftBehind ==
    /\ c.comp => s.sp["app"].tx
    /\ c.conf => s.st = "PH"
    /\ s.st = "PH" => c.comp
    /\ ~c.tls => c.sp["hs"].live /\ s.sp["hs"].live
    /\ ~c.tls /\ ~c.sp["hs"].rx => c.sp["in"].live /\ s.sp["in"].live

\* Every handshake completes, whatever is lost, delayed or paced: the
\* loss-detection timer that three packet number spaces share, the probes it
\* sends and the amplification limit never leave both endpoints waiting.
Completes == <>Done

\* No step of the handshake is an error, an assertion that fails, more than the
\* server may send to an address that is not validated, or one endpoint running
\* ahead of the other.
HandshakeSafe == AssertionsHold /\ AmplificationBound /\ NobodyLeftBehind

============================================================================
