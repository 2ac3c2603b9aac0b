----------------------------- MODULE FrameChain -----------------------------
(***************************************************************************)
(* Control frames that must reach the peer: the frame queue of a packet    *)
(* number space (pktns->tx.frq), the packets of ngtcp2_rtb.c that carry    *)
(* them, and the binder of ngtcp2_frame_chain.c that ties a frame to its   *)
(* retransmitted copies.                                                   *)
(*                                                                         *)
(* A frame is sent for the first time once, so the frame itself is the     *)
(* identity its copies share.  The operators take any state record with    *)
(* the fields                                                              *)
(*     frq    the frames queued; how many of them fit into the next packet *)
(*            is left open                                                 *)
(*     pkts   the packets in the retransmission buffer                     *)
(*     acked  the binders that carry NGTCP2_FRAME_CHAIN_BINDER_FLAG_ACK    *)
(***************************************************************************)
EXTENDS Integers, FiniteSets

\* A packet that was declared lost is kept: a late ACK may still come.  Its
\* frames have been copied when it is lost, or before, when a probe timeout
\* reclaimed them.
Packet(frames) == [frames |-> frames, lost |-> FALSE, reclaimed |-> FALSE]

Carried(s) == s.frq \cup UNION {p.frames : p \in s.pkts}

\* A binder is freed with the last frame that refers to it.
FreeBinders(s) == [s EXCEPT !.acked = @ \cap Carried(s)]

QueueFrames(s, frames) == [s EXCEPT !.frq = @ \cup frames]

\* conn_write_pkt drops a queued frame that a late ACK has acknowledged, or
\* that says nothing new, and writes some of the others.
Writable(s, stale) == (s.frq \ s.acked) \ stale

\* What a call writes: some frames, or none when all it does is to drop some.
Writes(s, stale) ==
    {frames \in SUBSET Writable(s, stale) : frames # {} \/ Writable(s, stale) # s.frq}

WritePkt(s, stale, frames) ==
    FreeBinders([s EXCEPT !.frq = Writable(s, stale) \ frames,
                          !.pkts = IF frames = {} THEN @ ELSE @ \cup {Packet(frames)}])

\* rtb_reclaim_frame: what has not been acknowledged is queued again.
Reclaim(s, p) == QueueFrames(s, p.frames \ s.acked)

\* rtb_on_pkt_lost
PktLost(s, p) ==
    LET r == IF p.reclaimed THEN s ELSE Reclaim(s, p)
    IN  [r EXCEPT !.pkts = (@ \ {p}) \cup {[p EXCEPT !.lost = TRUE, !.reclaimed = TRUE]}]

\* ngtcp2_rtb_reclaim_on_pto
PtoReclaim(s, p) ==
    [Reclaim(s, p) EXCEPT !.pkts = (@ \ {p}) \cup {[p EXCEPT !.reclaimed = TRUE]}]

\* process_acked_pkt: a frame is acknowledged once, whichever copy it was.
NewlyAcked(s, p) == p.frames \ s.acked

PktAcked(s, p) ==
    FreeBinders([s EXCEPT !.acked = @ \cup p.frames, !.pkts = @ \ {p}])

\* ngtcp2_rtb_remove_expired_lost_pkt
PktExpired(s, p) == FreeBinders([s EXCEPT !.pkts = @ \ {p}])

\* A frame that will be sent, or whose loss will be noticed.
Owed(s) ==
    (s.frq \ s.acked) \cup UNION {p.frames : p \in {q \in s.pkts : ~q.reclaimed}}
=============================================================================
