---------------------------- MODULE StreamLimits ----------------------------
(***************************************************************************)
(* Stream limits: conn->remote.{bidi,uni} and conn->local.{bidi,uni} of    *)
(* lib/ngtcp2_conn.c and the ID tracker lib/ngtcp2_idtr.c.                 *)
(*                                                                         *)
(* One endpoint and a peer that follows the protocol.  Bidirectional and   *)
(* unidirectional streams have limits of their own that work alike, and so *)
(* one kind is modelled; its streams are numbered from 1.  For the streams *)
(* the peer opens, the endpoint grants a limit in its transport parameters *)
(* and raises it with MAX_STREAMS frames, which are lost, reordered and    *)
(* retransmitted (FrameChain); the application raises the limit by one for *)
(* every stream that closes, as the example server does.  Frames of a      *)
(* stream arrive in any order, more than once, and after the stream was    *)
(* closed.  The streams the endpoint opens itself are a machine of their   *)
(* own.                                                                    *)
(***************************************************************************)
EXTENDS FrameChain

CONSTANTS
    InitialMaxStreams,  \* initial_max_streams_bidi and _uni, both directions
    MaxStreams,         \* NGTCP2_MAX_STREAMS
    MaxLimitPkts        \* packets with MAX_STREAMS in the retransmission buffer

ASSUME MaxStreamsAssumption == MaxStreams \in Nat /\ InitialMaxStreams \in 1 .. MaxStreams

VARIABLE lim

\* max, unsent: the limit announced and the one to announce; idtr: the
\* streams ever opened; live: those that exist; closed: history
NewRemote == [max |-> InitialMaxStreams, unsent |-> InitialMaxStreams,
              idtr |-> {}, live |-> {}, closed |-> {},
              \* the peer: the limit it knows and the streams it has opened
              known |-> InitialMaxStreams, opened |-> 0]

\* The streams this endpoint opens: the limit it was granted and its next ID;
\* on the peer's side, what it granted.
NewLocal == [max |-> InitialMaxStreams, next |-> 1, granted |-> InitialMaxStreams]

NewLimits(side) ==
    [side |-> side, remote |-> NewRemote, local |-> NewLocal,
     frq |-> {}, pkts |-> {}, acked |-> {}, error |-> "none"]

InitLimits == \E side \in {"remote", "local"} : lim = NewLimits(side)

----------------------------------------------------------------------------
\* Streams of the peer

Streams == 1 .. MaxStreams

\* ngtcp2_idtr_open
IdtrOpen(r, id) == id \notin r.idtr

\* The first part of conn_recv_stream, conn_recv_reset_stream,
\* conn_recv_stop_sending and conn_recv_stream_data_blocked
CheckStream(s, id) ==
    LET r == s.remote IN
    IF r.max < id THEN [s EXCEPT !.error = "stream_limit"]
    ELSE IF id \in r.live \/ ~IdtrOpen(r, id) THEN s
    ELSE [s EXCEPT !.remote.idtr = @ \cup {id}, !.remote.live = @ \cup {id}]

\* A frame of a stream the peer has opened
RecvStreamFrame ==
    \E id \in 1 .. lim.remote.opened :
        /\ id \notin lim.remote.live
        /\ lim' = CheckStream(lim, id)

\* conn_recv_streams_blocked_bidi, conn_recv_streams_blocked_uni: whether a
\* STREAMS_BLOCKED frame with the limit the peer knows is accepted
StreamsBlockedAccepted(s, n) == n <= s.remote.max

\* handle_max_remote_streams_extension
Extend(unsent, n) == IF unsent > MaxStreams - n THEN MaxStreams ELSE unsent + n

\* ngtcp2_conn_close_stream; the stream_close callback calls
\* ngtcp2_conn_extend_max_streams_bidi or _uni
CloseStream ==
    \E id \in lim.remote.live :
        lim' = [lim EXCEPT !.remote.live = @ \ {id}, !.remote.closed = @ \cup {id},
                           !.remote.unsent = Extend(@, 1)]

PeerOpens ==
    /\ lim.remote.opened < lim.remote.known
    /\ lim' = [lim EXCEPT !.remote.opened = @ + 1]

----------------------------------------------------------------------------
\* MAX_STREAMS

StaleMaxStreamsAny(s) == {n \in s.frq : n <= s.remote.max}

\* conn_write_pkt drops a queued frame that was overtaken by a larger one.
StaleMaxStreams(s) == {n \in s.frq : n < s.remote.max}

\* ... and makes a new one only when everything queued has been written.  The
\* limit counts from then on, even when the frame does not fit and is left
\* in the queue.
WriteLimits ==
    /\ Cardinality(lim.pkts) < MaxLimitPkts
    /\ LET queued == Writable(lim, StaleMaxStreams(lim)) IN
       \/ \E frames \in Writes(lim, StaleMaxStreams(lim)) :
             lim' = WritePkt(lim, StaleMaxStreams(lim), frames)
       \/ /\ lim.remote.unsent > lim.remote.max
          /\ LET new == lim.remote.unsent
                 s == [QueueFrames(lim, {new}) EXCEPT !.remote.max = new]
             IN  \E fits \in BOOLEAN :
                    lim' = WritePkt(s, StaleMaxStreams(lim),
                                    IF fits THEN queued \cup {new} ELSE queued)

LoseLimits == \E p \in lim.pkts : ~p.lost /\ lim' = PktLost(lim, p)

ProbeLimits == \E p \in lim.pkts : ~p.reclaimed /\ lim' = PtoReclaim(lim, p)

ExpireLimits == \E p \in lim.pkts : p.lost /\ lim' = PktExpired(lim, p)

MaxIn(S) == CHOOSE x \in S : \A y \in S : y <= x

PeerReadsLimits ==
    \E p \in lim.pkts :
        /\ MaxIn(p.frames) > lim.remote.known
        /\ lim' = [lim EXCEPT !.remote.known = MaxIn(p.frames)]

AckLimits ==
    \E p \in lim.pkts :
        /\ MaxIn(p.frames) <= lim.remote.known
        /\ lim' = PktAcked(lim, p)

----------------------------------------------------------------------------
\* Streams of this endpoint

\* ngtcp2_conn_get_streams_bidi_left, ngtcp2_conn_get_streams_uni_left
StreamsLeft(l) == IF l.next > l.max THEN 0 ELSE l.max - l.next + 1

\* ngtcp2_conn_open_bidi_stream, ngtcp2_conn_open_uni_stream
OpenStream ==
    /\ StreamsLeft(lim.local) # 0
    /\ lim' = [lim EXCEPT !.local.next = @ + 1]

\* conn_recv_max_streams, for any limit the peer has ever granted
RecvMaxStreams ==
    \E n \in InitialMaxStreams .. lim.local.granted :
        /\ lim.local.max < n
        /\ lim' = [lim EXCEPT !.local.max = n]

PeerGrants ==
    /\ lim.local.granted < MaxStreams
    /\ lim' = [lim EXCEPT !.local.granted = @ + 1]

NextLimits ==
    \/ /\ lim.side = "remote"
       /\ \/ RecvStreamFrame \/ CloseStream \/ PeerOpens
          \/ WriteLimits \/ LoseLimits \/ ProbeLimits \/ ExpireLimits
          \/ PeerReadsLimits \/ AckLimits
    \/ /\ lim.side = "local"
       /\ OpenStream \/ RecvMaxStreams \/ PeerGrants

----------------------------------------------------------------------------
\* A peer that keeps to the limits it was told never gets
\* NGTCP2_ERR_STREAM_LIMIT, nor an error for STREAMS_BLOCKED; a stream that was
\* closed is not opened again by a late frame; no more streams exist at once
\* than the first limit allowed; and the limit in force reaches the peer: it
\* knows it, or the frame with it is queued or in flight.  On its own side the
\* endpoint opens no stream it was not granted.
LimitsSound ==
    LET r == lim.remote IN
    /\ lim.error = "none"
    /\ StreamsBlockedAccepted(lim, r.known)
    /\ r.live \cap r.closed = {}
    /\ Cardinality(r.live) <= InitialMaxStreams
    /\ r.known < r.max => r.max \in Owed(lim)
    /\ lim.local.next <= lim.local.granted + 1
=============================================================================
