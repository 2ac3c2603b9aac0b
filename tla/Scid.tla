-------------------------------- MODULE Scid --------------------------------
(***************************************************************************)
(* The connection IDs an endpoint gives to its peer: conn->scid of         *)
(* lib/ngtcp2_conn.c, with a peer that follows the protocol.               *)
(*                                                                         *)
(* A connection ID is its sequence number.  The pool maps the ones the     *)
(* endpoint recognises to whether they are retired; how long a retired one *)
(* is kept is left open.  NEW_CONNECTION_ID frames are lost, reordered and *)
(* retransmitted (FrameChain); RETIRE_CONNECTION_ID frames may arrive      *)
(* twice.                                                                  *)
(***************************************************************************)
EXTENDS FrameChain

CONSTANTS
    ScidPoolSize,       \* NGTCP2_MAX_SCID_POOL_SIZE
    CidLimit,           \* the peer's active_connection_id_limit
    MaxSeq,             \* last sequence number issued
    MaxNcidPkts         \* packets with such frames in the retransmission buffer

ASSUME CidLimitAssumption ==
    {CidLimit, ScidPoolSize} \subseteq Nat /\ CidLimit >= 2 /\ ScidPoolSize > CidLimit

VARIABLE sid

Pool(s) == DOMAIN s.gone
Retired(s) == {q \in Pool(s) : s.gone[q]}

\* ngtcp2_conn_new, and ngtcp2_conn_commit_local_transport_params with a
\* preferred address, whose connection ID has sequence number 1.
NewScid(preferred) ==
    LET given == IF preferred THEN {0, 1} ELSE {0}
    IN  [gone |-> [q \in given |-> FALSE], last |-> IF preferred THEN 1 ELSE 0,
         inflight |-> 0, retired |-> 0,
         frq |-> {}, pkts |-> {}, acked |-> {}, fault |-> FALSE,
         \* the peer: what it knows, uses, has given back, and the
         \* RETIRE_CONNECTION_ID frames on their way
         known |-> given, uses |-> 0, back |-> {}, retires |-> {}]

InitScid == \E preferred \in BOOLEAN : sid = NewScid(preferred)

MinOf(a, b) == IF a < b THEN a ELSE b

\* conn_required_num_new_connection_id.  -1 stands for a subtraction of
\* unsigned numbers that wraps.
RequiredNum(s) ==
    LET len == Cardinality(Pool(s))
        goal == MinOf(ScidPoolSize, CidLimit + s.retired)
    IN  IF len >= ScidPoolSize \/ ScidPoolSize = s.inflight THEN 0
        ELSE IF goal < len THEN -1
        ELSE MinOf(ScidPoolSize - s.inflight, goal - len)

\* conn_enqueue_new_connection_id
EnqueueNewConnectionId(s) ==
    LET n == RequiredNum(s)
        new == (s.last + 1) .. (s.last + n)
    IN  [QueueFrames(s, new) EXCEPT
            !.gone = [q \in Pool(s) \cup new |-> IF q \in new THEN FALSE ELSE s.gone[q]],
            !.last = @ + n, !.inflight = @ + n,
            !.fault = @ \/ n < 0 \/ s.inflight + n > ScidPoolSize]

\* conn_write_pkt
WriteNcid ==
    LET s == EnqueueNewConnectionId(sid) IN
    /\ s.last <= MaxSeq /\ Cardinality(sid.pkts) < MaxNcidPkts
    /\ \E frames \in Writes(s, {}) :
          sid' = WritePkt(s, {}, frames)

LoseNcid == \E p \in sid.pkts : ~p.lost /\ sid' = PktLost(sid, p)

ProbeNcid == \E p \in sid.pkts : ~p.reclaimed /\ sid' = PtoReclaim(sid, p)

ExpireNcid == \E p \in sid.pkts : p.lost /\ sid' = PktExpired(sid, p)

AckNcidTwice(s, p) ==
    [PktAcked(s, p) EXCEPT !.inflight = @ - Cardinality(p.frames),
                           !.fault = @ \/ s.inflight < Cardinality(p.frames)]

\* process_acked_pkt, NGTCP2_FRAME_NEW_CONNECTION_ID
AckedNcid(s, p) ==
    LET n == Cardinality(NewlyAcked(s, p)) IN
    [PktAcked(s, p) EXCEPT !.inflight = @ - n, !.fault = @ \/ s.inflight < n]

\* The packet was received (the peer knows its frames), and so is its ACK.
AckNcid ==
    \E p \in sid.pkts : p.frames \subseteq sid.known /\ sid' = AckedNcid(sid, p)

\* conn_recv_retire_connection_id: a repeated frame only moves the time.
RetireConnectionId(s, q) ==
    IF q \notin Pool(s) THEN [s EXCEPT !.fault = @ \/ q > s.last]
    ELSE [s EXCEPT !.gone[q] = TRUE,
                   !.retired = IF q \in Retired(s) THEN @ ELSE @ + 1]

RecvRetire ==
    \E q \in sid.retires :
        \E again \in BOOLEAN :
            sid' = [RetireConnectionId(sid, q) EXCEPT
                       !.retires = IF again THEN @ ELSE @ \ {q}]

\* conn_remove_retired_connection_id, called by ngtcp2_conn_handle_expiry
\* when a PTO has passed since the connection ID was retired
RemoveRetired ==
    \E q \in Retired(sid) :
        sid' = [sid EXCEPT !.gone = [r \in Pool(sid) \ {q} |-> @[r]],
                           !.retired = @ - 1, !.fault = @ \/ sid.retired = 0]

\* The peer receives frames, moves to another connection ID and gives the
\* old one back, or gives back one it never used.
PeerReceives ==
    \E p \in sid.pkts :
        /\ ~(p.frames \subseteq sid.known)
        /\ sid' = [sid EXCEPT !.known = @ \cup p.frames]

PeerActive == sid.known \ sid.back

PeerMoves ==
    \E q \in PeerActive \ {sid.uses} :
        sid' = [sid EXCEPT !.uses = q, !.back = @ \cup {sid.uses},
                           !.retires = @ \cup {sid.uses}]

PeerGivesBack ==
    \E q \in PeerActive \ {sid.uses} :
        sid' = [sid EXCEPT !.back = @ \cup {q}, !.retires = @ \cup {q}]

NextScid ==
    \/ WriteNcid \/ LoseNcid \/ ProbeNcid \/ ExpireNcid \/ AckNcid \/ RecvRetire
    \/ RemoveRetired \/ PeerReceives \/ PeerMoves \/ PeerGivesBack

----------------------------------------------------------------------------
\* However NEW_CONNECTION_ID and RETIRE_CONNECTION_ID are lost, repeated and
\* reordered, no assertion on the counters fails and no subtraction wraps,
\* scid.num_retired and scid.num_in_flight count what they are named for, the
\* peer never holds more connection IDs than the limit it set, and one it
\* does not know yet is on its way or will be sent again.
ScidSound ==
    /\ ~sid.fault
    /\ sid.retired = Cardinality(Retired(sid))
    /\ Cardinality(Pool(sid) \ Retired(sid)) <= CidLimit
    /\ Cardinality(PeerActive) <= CidLimit
    /\ PeerActive \subseteq Pool(sid)
    /\ sid.inflight = Cardinality(Carried(sid) \ sid.acked)
    /\ Pool(sid) \ sid.known \subseteq Owed(sid)
=============================================================================
