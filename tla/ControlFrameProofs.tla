------------------------- MODULE ControlFrameProofs -------------------------
(***************************************************************************)
(* Two machines that send control frames through the frame queue and the   *)
(* retransmission buffer of FrameChain: the stream limits (StreamLimits)   *)
(* and the connection IDs given to the peer (Scid).  For both an inductive *)
(* invariant and the theorem that the properties checked by TLC hold for   *)
(* every limit.                                                            *)
(***************************************************************************)
EXTENDS Scid, StreamLimits, SetSums

\* A packet of the retransmission buffer
PktType == [frames : SUBSET Nat, lost : BOOLEAN, reclaimed : BOOLEAN]

-----------------------------------------------------------------------------
(* Frame chains: what each operation of FrameChain keeps, for any state *)

\* A frame is carried by the queue or by a packet, and it is owed while it is
\* queued and not acknowledged, or in a packet that was not reclaimed.
LEMMA InChain ==
    ASSUME NEW s, NEW x
    PROVE  /\ x \in Carried(s) <=> x \in s.frq \/ \E p \in s.pkts : x \in p.frames
           /\ x \in Owed(s) <=> \/ x \in s.frq /\ x \notin s.acked
                                \/ \E p \in s.pkts : ~p.reclaimed /\ x \in p.frames
BY DEF Carried, Owed

\* What a packet leaves behind when it is lost or reclaimed by a probe timeout:
\* itself, marked, and its frames queued again unless they are acknowledged.
Requeued(s, d, p, q) ==
    /\ p \in s.pkts /\ q.frames = p.frames /\ q.reclaimed
    /\ d.pkts = (s.pkts \ {p}) \cup {q} /\ d.acked = s.acked
    /\ s.frq \subseteq d.frq /\ d.frq \subseteq s.frq \cup p.frames
    /\ p.reclaimed \/ p.frames \ s.acked \subseteq d.frq

\* rtb_on_pkt_lost, ngtcp2_rtb_reclaim_on_pto: nothing owed is dropped.
LEMMA RequeuedKeeps ==
    ASSUME NEW s, NEW d, NEW p, NEW q, Requeued(s, d, p, q)
    PROVE  Carried(d) = Carried(s) /\ Owed(s) \ s.acked \subseteq Owed(d)
<1>1. ASSUME NEW x PROVE x \in Carried(d) <=> x \in Carried(s)
  BY InChain DEF Requeued
<1>2. ASSUME NEW x \in Owed(s), x \notin s.acked PROVE x \in Owed(d)
  BY <1>2, InChain DEF Requeued
<1> QED
  BY <1>1, <1>2

\* A packet leaves the retransmission buffer, and binders without a frame are freed.
Dropped(s, d, p) ==
    /\ p \in s.pkts /\ d.frq = s.frq /\ d.pkts = s.pkts \ {p}

\* ngtcp2_rtb_remove_expired_lost_pkt, of a packet whose frames were copied.
LEMMA ExpiredKeeps ==
    ASSUME NEW s, NEW d, NEW p, Dropped(s, d, p), p.reclaimed,
           d.acked = s.acked \cap Carried(d)
    PROVE  Carried(d) \subseteq Carried(s) /\ Owed(s) \subseteq Owed(d)
<1>1. ASSUME NEW x \in Carried(d) PROVE x \in Carried(s)
  BY InChain DEF Dropped
<1>2. ASSUME NEW x \in Owed(s) PROVE x \in Owed(d)
  BY InChain DEF Dropped
<1> QED
  BY <1>1, <1>2

\* process_acked_pkt: the frames of the packet are owed no longer, the others are.
LEMMA AckedKeeps ==
    ASSUME NEW s, NEW d, NEW p, Dropped(s, d, p),
           d.acked = (s.acked \cup p.frames) \cap Carried(d)
    PROVE  /\ Carried(d) \subseteq Carried(s)
           /\ Carried(d) \ d.acked = (Carried(s) \ s.acked) \ p.frames
           /\ Owed(s) \ p.frames \subseteq Owed(d)
<1>1. ASSUME NEW x \in Carried(d) PROVE x \in Carried(s)
  BY InChain DEF Dropped
<1>2. ASSUME NEW x \in Carried(s), x \notin p.frames PROVE x \in Carried(d)
  BY <1>2, InChain DEF Dropped
<1>3. ASSUME NEW x \in Owed(s), x \notin p.frames PROVE x \in Owed(d)
  BY <1>3, InChain DEF Dropped
<1> QED
  BY <1>1, <1>2, <1>3

\* A packet is written with some of the frames that are queued.
Written(s, d, stale, frames) ==
    /\ frames \subseteq Writable(s, stale) /\ d.frq = Writable(s, stale) \ frames
    /\ d.pkts = IF frames = {} THEN s.pkts ELSE s.pkts \cup {Packet(frames)}
    /\ d.acked = s.acked \cap Carried(d)

\* conn_write_pkt: a frame that is not stale stays queued or goes into the packet.
LEMMA WrittenKeeps ==
    ASSUME NEW s, NEW d, NEW stale, NEW frames, Written(s, d, stale, frames)
    PROVE  /\ Carried(d) \subseteq Carried(s)
           /\ (Carried(s) \ s.acked) \ stale \subseteq Carried(d)
           /\ Owed(s) \ stale \subseteq Owed(d)
<1>1. Packet(frames).frames = frames /\ ~Packet(frames).reclaimed
  BY DEF Packet
<1>2. ASSUME NEW x \in Carried(d) PROVE x \in Carried(s)
  BY <1>1, InChain DEF Written, Writable
<1>3. ASSUME NEW x \in Carried(s), x \notin s.acked, x \notin stale PROVE x \in Carried(d)
  <2>1. CASE x \in s.frq
    BY <1>1, <1>3, <2>1, InChain DEF Written, Writable
  <2>2. CASE \E p \in s.pkts : x \in p.frames
    BY <2>2, InChain DEF Written
  <2> QED
    BY <2>1, <2>2, InChain
<1>4. ASSUME NEW x \in Owed(s), x \notin stale PROVE x \in Owed(d)
  <2>1. CASE x \in s.frq /\ x \notin s.acked
    <3>1. x \in Writable(s, stale)
      BY <1>4, <2>1 DEF Writable
    <3>2. CASE x \in frames
      BY <1>1, <3>2, InChain DEF Written
    <3>3. CASE x \notin frames
      BY <2>1, <3>1, <3>3, InChain DEF Written
    <3> QED
      BY <3>2, <3>3
  <2>2. CASE \E p \in s.pkts : ~p.reclaimed /\ x \in p.frames
    BY <2>2, InChain DEF Written
  <2> QED
    BY <2>1, <2>2, InChain
<1> QED
  BY <1>2, <1>3, <1>4

-----------------------------------------------------------------------------
(* Stream limits *)

RemoteType ==
    [max : Nat, unsent : Nat, idtr : SUBSET Nat, live : SUBSET Nat,
     closed : SUBSET Nat, known : Nat, opened : Nat]

LocalType == [max : Nat, next : Nat, granted : Nat]

LimitsType ==
    [side : {"remote", "local"}, remote : RemoteType, local : LocalType,
     frq : SUBSET Nat, pkts : SUBSET PktType, acked : SUBSET Nat,
     error : {"none", "stream_limit"}]

\* Every frame of the chain carries a limit that was in force, what was
\* acknowledged is known to the peer, and a lost packet was reclaimed.
FramesOK(s) ==
    /\ \A n \in Carried(s) : n <= s.remote.max
    /\ \A n \in s.acked : n <= s.remote.known
    /\ \A p \in s.pkts : p.frames # {} /\ (p.lost => p.reclaimed)

\* The limits in the order in which they come to be, and the last one on its
\* way to the peer.
LimitsOrdered(s) ==
    /\ s.remote.opened <= s.remote.known /\ s.remote.known <= s.remote.max
    /\ s.remote.max <= s.remote.unsent /\ s.remote.unsent <= MaxStreams
    /\ s.remote.known < s.remote.max => s.remote.max \in Owed(s)

\* Every stream was opened once, and a closed one has raised the limit.
StreamsOK(r) ==
    /\ r.idtr = r.live \cup r.closed /\ r.live \cap r.closed = {}
    /\ r.idtr \subseteq 1 .. r.opened
    /\ r.unsent <= InitialMaxStreams + Cardinality(r.closed)

LocalOK(l) == l.next <= l.max + 1 /\ l.max <= l.granted

LimitsInv ==
    /\ lim \in LimitsType
    /\ lim.error = "none"
    /\ FramesOK(lim) /\ LimitsOrdered(lim) /\ StreamsOK(lim.remote) /\ LocalOK(lim.local)

SpecLimits == InitLimits /\ [][NextLimits]_lim

\* The constants are natural numbers.
LEMMA LimitConstants ==
    MaxStreams \in Nat /\ InitialMaxStreams \in Nat /\ 1 <= InitialMaxStreams
    /\ InitialMaxStreams <= MaxStreams
BY MaxStreamsAssumption

\* A set of frames of a packet has a largest one.
LEMMA LargestFrame ==
    ASSUME NEW F, F \subseteq Nat, F # {}, NEW m \in Nat, \A n \in F : n <= m
    PROVE  MaxIn(F) \in F /\ \A n \in F : n <= MaxIn(F)
<1>1. F \subseteq Int /\ m \in Int
  OBVIOUS
<1>2. \E x \in F : \A y \in F : y <= x
  BY <1>1, GreatestElement, Zenon
<1> QED
  BY <1>2, Zenon DEF MaxIn

\* No more streams exist at once than the first limit allowed: the ones that
\* were opened and not closed.
LEMMA FewStreams ==
    ASSUME lim \in LimitsType, LimitsOrdered(lim), StreamsOK(lim.remote)
    PROVE  /\ Cardinality(lim.remote.live) <= InitialMaxStreams
           /\ IsFiniteSet(lim.remote.closed)
<1> DEFINE r == lim.remote
<1>1. r \in RemoteType
  BY DEF LimitsType
<1>2. IsFiniteSet(1 .. r.opened) /\ Cardinality(1 .. r.opened) = r.opened
  <2>1. r.opened \in Nat
    BY <1>1 DEF RemoteType
  <2>2. /\ IsFiniteSet(1 .. r.opened)
        /\ Cardinality(1 .. r.opened) = IF 1 > r.opened THEN 0 ELSE r.opened - 1 + 1
    BY <2>1, FS_Interval
  <2> QED
    BY <2>1, <2>2
<1>3. IsFiniteSet(r.idtr) /\ Cardinality(r.idtr) <= r.opened
  <2>1. r.idtr \subseteq 1 .. r.opened
    BY DEF StreamsOK
  <2>2. IsFiniteSet(r.idtr) /\ Cardinality(r.idtr) <= Cardinality(1 .. r.opened)
    BY <1>2, <2>1, FS_Subset, Zenon
  <2> QED
    BY <1>2, <2>2
<1>4. IsFiniteSet(r.live) /\ IsFiniteSet(r.closed)
  BY <1>3, FS_Subset DEF StreamsOK
<1>5. Cardinality(r.idtr) = Cardinality(r.live) + Cardinality(r.closed)
  <2>1. Cardinality(r.live \cap r.closed) = 0
    BY FS_EmptySet DEF StreamsOK
  <2>2. Cardinality(r.live \cup r.closed)
            = Cardinality(r.live) + Cardinality(r.closed) - Cardinality(r.live \cap r.closed)
    BY <1>4, FS_Union
  <2>3. Cardinality(r.live) \in Nat /\ Cardinality(r.closed) \in Nat
    BY <1>4, FS_CardinalityType
  <2> QED
    BY <2>1, <2>2, <2>3 DEF StreamsOK
<1>6. Cardinality(r.live) \in Nat /\ Cardinality(r.closed) \in Nat /\ Cardinality(r.idtr) \in Nat
  BY <1>3, <1>4, FS_CardinalityType
<1>7. r.opened <= InitialMaxStreams + Cardinality(r.closed)
  BY <1>1, <1>6, LimitConstants DEF LimitsOrdered, StreamsOK, RemoteType
<1> QED
  BY <1>1, <1>3, <1>4, <1>5, <1>6, <1>7, LimitConstants DEF RemoteType

\* Everything but the frames, the limit announced and the limit to announce.
SameStreams(s, d) ==
    /\ s \in LimitsType /\ d \in LimitsType
    /\ d.error = s.error /\ d.local = s.local
    /\ d.remote.opened = s.remote.opened /\ d.remote.idtr = s.remote.idtr
    /\ d.remote.live = s.remote.live /\ d.remote.closed = s.remote.closed

\* What is left to show of a step that only sends, loses or acknowledges frames.
LEMMA FrameStep ==
    ASSUME LimitsInv, SameStreams(lim, lim'), lim'.remote.unsent = lim.remote.unsent,
           FramesOK(lim'), LimitsOrdered(lim')
    PROVE  LimitsInv'
<1>1. StreamsOK(lim.remote) /\ LocalOK(lim.local) /\ lim.error = "none"
  BY DEF LimitsInv
<1>2. StreamsOK(lim'.remote)
  BY <1>1 DEF StreamsOK, SameStreams
<1>3. LocalOK(lim'.local) /\ lim'.error = "none"
  BY <1>1 DEF SameStreams
<1> QED
  BY <1>2, <1>3 DEF LimitsInv, SameStreams

\* A packet is lost, or a probe timeout reclaims its frames.
LEMMA RequeueLimits ==
    ASSUME LimitsInv, LoseLimits \/ ProbeLimits
    PROVE  LimitsInv'
<1>0. lim \in LimitsType /\ FramesOK(lim) /\ LimitsOrdered(lim) /\ lim.remote \in RemoteType
  BY DEF LimitsInv, LimitsType
<1>1. PICK p \in lim.pkts :
         \/ ~p.lost /\ lim' = PktLost(lim, p)
         \/ ~p.reclaimed /\ lim' = PtoReclaim(lim, p)
  BY DEF LoseLimits, ProbeLimits
<1>2. p \in PktType
  BY <1>0, SMTT(60) DEF LimitsType
<1>3. PICK q \in PktType, F \in SUBSET Nat :
         /\ lim' = [lim EXCEPT !.frq = F, !.pkts = (lim.pkts \ {p}) \cup {q}]
         /\ q.frames = p.frames /\ q.reclaimed
         /\ lim.frq \subseteq F /\ F \subseteq lim.frq \cup p.frames
         /\ p.reclaimed \/ p.frames \ lim.acked \subseteq F
  <2>1. lim.frq \in SUBSET Nat /\ p.frames \in SUBSET Nat
    BY <1>0, <1>2, SMTT(60) DEF LimitsType, PktType
  <2>2. CASE ~p.lost /\ lim' = PktLost(lim, p)
    <3> DEFINE q == [p EXCEPT !.lost = TRUE, !.reclaimed = TRUE]
    <3>1. q \in PktType /\ q.frames = p.frames /\ q.reclaimed
      BY <1>2, Zenon DEF PktType
    <3>2. CASE p.reclaimed
      <4>1. lim' = [lim EXCEPT !.frq = lim.frq, !.pkts = (lim.pkts \ {p}) \cup {q}]
        BY <1>0, <2>2, <3>2, Zenon DEF PktLost, LimitsType
      <4> HIDE DEF q
      <4> QED
        BY <2>1, <3>1, <3>2, <4>1, Zenon
    <3>3. CASE ~p.reclaimed
      <4>1. lim' = [lim EXCEPT !.frq = lim.frq \cup (p.frames \ lim.acked),
                               !.pkts = (lim.pkts \ {p}) \cup {q}]
        BY <1>0, <2>2, <3>3 DEF PktLost, Reclaim, QueueFrames, LimitsType
      <4> HIDE DEF q
      <4>2. lim.frq \cup (p.frames \ lim.acked) \in SUBSET Nat
        BY <2>1, SMTT(60)
      <4> QED
        BY <2>1, <3>1, <3>3, <4>1, <4>2, Zenon
    <3> QED
      BY <3>2, <3>3, Zenon
  <2>3. CASE ~p.reclaimed /\ lim' = PtoReclaim(lim, p)
    <3> DEFINE q == [p EXCEPT !.reclaimed = TRUE]
    <3>1. q \in PktType /\ q.frames = p.frames /\ q.reclaimed
      BY <1>2, Zenon DEF PktType
    <3>2. lim' = [lim EXCEPT !.frq = lim.frq \cup (p.frames \ lim.acked),
                             !.pkts = (lim.pkts \ {p}) \cup {q}]
      BY <1>0, <2>3 DEF PtoReclaim, Reclaim, QueueFrames, LimitsType
    <3> HIDE DEF q
    <3>3. lim.frq \cup (p.frames \ lim.acked) \in SUBSET Nat
      BY <2>1
    <3> QED
      BY <2>1, <2>3, <3>1, <3>2, <3>3, Zenon
  <2> QED
    BY <1>1, <2>2, <2>3, Zenon
<1>4. /\ lim' \in LimitsType /\ lim'.remote = lim.remote /\ lim'.local = lim.local
      /\ lim'.error = lim.error /\ lim'.frq = F /\ lim'.acked = lim.acked
      /\ lim'.pkts = (lim.pkts \ {p}) \cup {q}
  BY <1>0, <1>2, <1>3, Zenon DEF LimitsType
<1>5. Requeued(lim, lim', p, q)
  BY <1>3, <1>4 DEF Requeued
<1>6. Carried(lim') = Carried(lim) /\ Owed(lim) \ lim.acked \subseteq Owed(lim')
  BY <1>5, RequeuedKeeps
<1>7. FramesOK(lim')
  BY <1>0, <1>3, <1>4, <1>6 DEF FramesOK
<1>8. ASSUME lim.remote.known < lim.remote.max PROVE lim.remote.max \notin lim.acked
  BY <1>0, <1>8 DEF FramesOK, RemoteType
<1>9. LimitsOrdered(lim')
  BY <1>0, <1>4, <1>6, <1>8 DEF LimitsOrdered
<1> QED
  BY <1>0, <1>4, <1>7, <1>9, FrameStep DEF SameStreams

\* A lost packet leaves the buffer.
LEMMA ExpireLimitsOK ==
    ASSUME LimitsInv, ExpireLimits
    PROVE  LimitsInv'
<1>0. lim \in LimitsType /\ FramesOK(lim) /\ LimitsOrdered(lim)
  BY DEF LimitsInv
<1>1. PICK p \in lim.pkts : p.lost /\ lim' = PktExpired(lim, p)
  BY DEF ExpireLimits
<1>2. p.reclaimed
  BY <1>0, <1>1 DEF FramesOK
<1> DEFINE m == [lim EXCEPT !.pkts = lim.pkts \ {p}]
           A == lim.acked \cap Carried(m)
<1>3. lim' = [lim EXCEPT !.pkts = lim.pkts \ {p}, !.acked = A]
  BY <1>0, <1>1 DEF PktExpired, FreeBinders, LimitsType
<1>4. A \in SUBSET Nat /\ lim.pkts \ {p} \in SUBSET PktType
  BY <1>0 DEF LimitsType
<1>5. m.frq = lim.frq /\ m.pkts = lim.pkts \ {p}
  BY <1>0 DEF LimitsType
<1>6. A = lim.acked \cap Carried(m)
  OBVIOUS
<1> HIDE DEF m, A
<1>7. /\ lim' \in LimitsType /\ lim'.remote = lim.remote /\ lim'.local = lim.local
      /\ lim'.error = lim.error /\ lim'.frq = lim.frq /\ lim'.acked = A
      /\ lim'.pkts = lim.pkts \ {p}
  BY <1>0, <1>3, <1>4, Zenon DEF LimitsType
<1>8. Carried(lim') = Carried(m)
  BY <1>5, <1>7 DEF Carried
<1>9. Dropped(lim, lim', p) /\ lim'.acked = lim.acked \cap Carried(lim')
  BY <1>6, <1>7, <1>8 DEF Dropped
<1>10. Carried(lim') \subseteq Carried(lim) /\ Owed(lim) \subseteq Owed(lim')
  BY <1>2, <1>9, ExpiredKeeps
<1>11. FramesOK(lim')
  BY <1>0, <1>7, <1>9, <1>10 DEF FramesOK
<1>12. LimitsOrdered(lim')
  BY <1>0, <1>7, <1>10 DEF LimitsOrdered
<1> QED
  BY <1>0, <1>7, <1>11, <1>12, FrameStep DEF SameStreams

\* A packet is acknowledged, which the peer has read.
LEMMA AckLimitsOK ==
    ASSUME LimitsInv, AckLimits
    PROVE  LimitsInv'
<1>0. lim \in LimitsType /\ FramesOK(lim) /\ LimitsOrdered(lim) /\ lim.remote \in RemoteType
  BY DEF LimitsInv, LimitsType
<1>1. PICK p \in lim.pkts : MaxIn(p.frames) <= lim.remote.known /\ lim' = PktAcked(lim, p)
  BY DEF AckLimits
<1>2. p.frames \in SUBSET Nat /\ p.frames # {} /\ p.frames \subseteq Carried(lim)
  BY <1>0, InChain DEF FramesOK, LimitsType, PktType
<1>3. \A n \in p.frames : n \in Nat /\ n <= lim.remote.known
  <2>1. \A n \in p.frames : n <= lim.remote.max
    BY <1>0, <1>2 DEF FramesOK
  <2>2. MaxIn(p.frames) \in p.frames /\ \A n \in p.frames : n <= MaxIn(p.frames)
    BY <1>0, <1>2, <2>1, LargestFrame DEF RemoteType
  <2>3. MaxIn(p.frames) \in Nat /\ \A n \in p.frames : n \in Nat
    BY <1>2, <2>2
  <2> QED
    BY <1>0, <1>1, <2>2, <2>3 DEF RemoteType
<1> DEFINE m == [lim EXCEPT !.acked = lim.acked \cup p.frames, !.pkts = lim.pkts \ {p}]
           A == (lim.acked \cup p.frames) \cap Carried(m)
<1>4. lim' = [lim EXCEPT !.pkts = lim.pkts \ {p}, !.acked = A]
  BY <1>0, <1>1, Zenon DEF PktAcked, FreeBinders, LimitsType
<1>5. A \in SUBSET Nat /\ lim.pkts \ {p} \in SUBSET PktType
  BY <1>0, <1>2 DEF LimitsType
<1>6. m.frq = lim.frq /\ m.pkts = lim.pkts \ {p}
  BY <1>0 DEF LimitsType
<1>7. A = (lim.acked \cup p.frames) \cap Carried(m)
  OBVIOUS
<1> HIDE DEF m, A
<1>8. /\ lim' \in LimitsType /\ lim'.remote = lim.remote /\ lim'.local = lim.local
      /\ lim'.error = lim.error /\ lim'.frq = lim.frq /\ lim'.acked = A
      /\ lim'.pkts = lim.pkts \ {p}
  BY <1>0, <1>4, <1>5, Zenon DEF LimitsType
<1>9. Carried(lim') = Carried(m)
  BY <1>6, <1>8 DEF Carried
<1>10. Dropped(lim, lim', p) /\ lim'.acked = (lim.acked \cup p.frames) \cap Carried(lim')
  BY <1>7, <1>8, <1>9 DEF Dropped
<1>11. Carried(lim') \subseteq Carried(lim) /\ Owed(lim) \ p.frames \subseteq Owed(lim')
  BY <1>10, AckedKeeps
<1>12. FramesOK(lim')
  BY <1>0, <1>3, <1>8, <1>10, <1>11 DEF FramesOK
<1>13. ASSUME lim.remote.known < lim.remote.max PROVE lim.remote.max \notin p.frames
  BY <1>0, <1>3, <1>13 DEF RemoteType
<1>14. LimitsOrdered(lim')
  BY <1>0, <1>8, <1>11, <1>13 DEF LimitsOrdered
<1> QED
  BY <1>0, <1>8, <1>12, <1>14, FrameStep DEF SameStreams

\* conn_write_pkt: a packet with some of the frames, none of them the limit in force
\* that is dropped as stale.
LEMMA WriteKeepsLimits ==
    ASSUME NEW s, s \in LimitsType, FramesOK(s), LimitsOrdered(s),
           NEW stale, s.remote.max \notin stale,
           NEW frames, frames \subseteq Writable(s, stale), NEW d, d = WritePkt(s, stale, frames)
    PROVE  /\ d \in LimitsType /\ FramesOK(d) /\ LimitsOrdered(d)
           /\ d.remote = s.remote /\ d.local = s.local /\ d.error = s.error
<1> DEFINE F == Writable(s, stale) \ frames
           P == IF frames = {} THEN s.pkts ELSE s.pkts \cup {Packet(frames)}
           m == [s EXCEPT !.frq = F, !.pkts = P]
           A == s.acked \cap Carried(m)
<1>1. d = [s EXCEPT !.frq = F, !.pkts = P, !.acked = A]
  BY SMTT(60) DEF WritePkt, FreeBinders, LimitsType
<1>2. frames \in SUBSET Nat /\ F \in SUBSET Nat /\ A \in SUBSET Nat
  BY ZenonT(40) DEF Writable, LimitsType
<1>3. /\ Packet(frames) \in PktType /\ ~Packet(frames).lost
      /\ Packet(frames).frames = frames
  BY <1>2, Zenon DEF Packet, PktType
<1>4. P \in SUBSET PktType
  BY <1>3 DEF LimitsType
<1>5. m.frq = F /\ m.pkts = P /\ A = s.acked \cap Carried(m)
  BY DEF LimitsType
<1>6. \A p \in P : p.frames # {} /\ (p.lost => p.reclaimed)
  BY <1>3 DEF FramesOK
<1>7. /\ F = Writable(s, stale) \ frames
      /\ P = IF frames = {} THEN s.pkts ELSE s.pkts \cup {Packet(frames)}
  OBVIOUS
<1> HIDE DEF F, P, m, A
<1>8. /\ d \in LimitsType /\ d.remote = s.remote /\ d.local = s.local
      /\ d.error = s.error /\ d.frq = F /\ d.acked = A /\ d.pkts = P
  BY <1>1, <1>2, <1>4, Zenon DEF LimitsType
<1>9. Carried(d) = Carried(m)
  BY <1>5, <1>8 DEF Carried
<1>10. Written(s, d, stale, frames)
  BY <1>5, <1>7, <1>8, <1>9 DEF Written
<1>11. Carried(d) \subseteq Carried(s) /\ Owed(s) \ stale \subseteq Owed(d)
  BY <1>10, WrittenKeeps
<1>12. FramesOK(d)
  BY <1>5, <1>6, <1>8, <1>11 DEF FramesOK
<1>13. LimitsOrdered(d)
  BY <1>8, <1>11 DEF LimitsOrdered
<1> QED
  BY <1>8, <1>12, <1>13

\* The MAX_STREAMS frame is written, or what is queued.
LEMMA WriteLimitsOK ==
    ASSUME LimitsInv, WriteLimits
    PROVE  LimitsInv'
<1> DEFINE stale == StaleMaxStreams(lim)
           new == lim.remote.unsent
           queued == Writable(lim, stale)
           s == [QueueFrames(lim, {new}) EXCEPT !.remote.max = new]
<1>0. /\ lim \in LimitsType /\ FramesOK(lim) /\ LimitsOrdered(lim) /\ lim.remote \in RemoteType
      /\ lim.frq \in SUBSET Nat /\ lim.remote.max \in Nat /\ lim.remote.known \in Nat
      /\ lim.acked \in SUBSET Nat /\ new \in Nat /\ lim.remote.opened \in Nat
  BY DEF LimitsInv, LimitsType, RemoteType
<1>1. \A n \in stale : n < lim.remote.max /\ n \in Nat
  BY <1>0 DEF StaleMaxStreams
<1>2. lim.remote.max \notin stale
  BY <1>0, <1>1
<1>3. CASE \E frames \in Writes(lim, stale) : lim' = WritePkt(lim, stale, frames)
  <2>1. PICK frames \in Writes(lim, stale) : lim' = WritePkt(lim, stale, frames)
    BY <1>3
  <2>2. frames \subseteq Writable(lim, stale)
    BY <2>1 DEF Writes
  <2> HIDE DEF stale
  <2>3. /\ lim' \in LimitsType /\ FramesOK(lim') /\ LimitsOrdered(lim')
        /\ lim'.remote = lim.remote /\ lim'.local = lim.local /\ lim'.error = lim.error
    BY <1>0, <1>2, <2>1, <2>2, WriteKeepsLimits
  <2> QED
    BY <1>0, <2>3, FrameStep DEF SameStreams
<1>4. CASE /\ lim.remote.unsent > lim.remote.max
           /\ \E fits \in BOOLEAN :
                 lim' = WritePkt(s, stale, IF fits THEN queued \cup {new} ELSE queued)
  <2>1. s = [lim EXCEPT !.frq = lim.frq \cup {new},
                        !.remote = [lim.remote EXCEPT !.max = new]]
    BY <1>0 DEF QueueFrames, LimitsType
  <2>2. /\ [lim.remote EXCEPT !.max = new] \in RemoteType
        /\ lim.frq \cup {new} \in SUBSET Nat
    BY <1>0 DEF RemoteType
  <2>3. new > lim.remote.max
    BY <1>4
  <2>4. PICK frames : /\ frames = queued \/ frames = queued \cup {new}
                      /\ lim' = WritePkt(s, stale, frames)
    BY <1>4
  <2>5. queued = Writable(lim, stale) /\ new = lim.remote.unsent
    OBVIOUS
  <2> HIDE DEF s, stale, queued, new
  <2>6. /\ s \in LimitsType /\ s.remote.max = new /\ s.remote.known = lim.remote.known
        /\ s.remote.opened = lim.remote.opened /\ s.remote.unsent = new
        /\ s.remote.idtr = lim.remote.idtr /\ s.remote.live = lim.remote.live
        /\ s.remote.closed = lim.remote.closed
        /\ s.frq = lim.frq \cup {new} /\ s.pkts = lim.pkts /\ s.acked = lim.acked
        /\ s.local = lim.local /\ s.error = lim.error
    <3>1. s \in LimitsType
      BY <1>0, <2>1, <2>2, Zenon DEF LimitsType
    <3> QED
      BY <1>0, <2>1, <2>5, <3>1 DEF LimitsType, RemoteType
  <2>7. new \notin lim.acked /\ new \notin stale
    BY <1>0, <1>1, <2>3 DEF FramesOK, LimitsOrdered
  <2>8. frames \subseteq Writable(s, stale)
    BY <2>4, <2>5, <2>6, <2>7 DEF Writable
  <2>9. FramesOK(s)
    <3>1. \A n \in Carried(s) : n \in Carried(lim) \/ n = new
      BY <2>6, InChain
    <3>2. \A n \in Carried(lim) : n \in Nat /\ n <= lim.remote.max
      BY <1>0, InChain DEF FramesOK, LimitsType, PktType
    <3>3. \A n \in Carried(s) : n <= s.remote.max
      BY <1>0, <2>3, <2>6, <3>1, <3>2
    <3> QED
      BY <1>0, <2>6, <3>3 DEF FramesOK
  <2>10. LimitsOrdered(s)
    <3>1. new \in Owed(s)
      BY <2>6, <2>7, InChain
    <3> QED
      BY <1>0, <2>3, <2>5, <2>6, <3>1, LimitConstants DEF LimitsOrdered
  <2>11. /\ lim' \in LimitsType /\ FramesOK(lim') /\ LimitsOrdered(lim')
         /\ lim'.remote = s.remote /\ lim'.local = s.local /\ lim'.error = s.error
    BY <2>4, <2>6, <2>7, <2>8, <2>9, <2>10, WriteKeepsLimits
  <2> QED
    BY <1>0, <2>5, <2>6, <2>11, FrameStep DEF SameStreams
<1> QED
  BY <1>3, <1>4 DEF WriteLimits

\* The peer reads the frames of a packet.
LEMMA PeerReadsLimitsOK ==
    ASSUME LimitsInv, PeerReadsLimits
    PROVE  LimitsInv'
<1>0. /\ lim \in LimitsType /\ FramesOK(lim) /\ LimitsOrdered(lim) /\ lim.remote \in RemoteType
      /\ lim.remote.max \in Nat /\ lim.remote.known \in Nat /\ lim.remote.opened \in Nat
      /\ lim.acked \in SUBSET Nat
  BY DEF LimitsInv, LimitsType, RemoteType
<1>1. PICK p \in lim.pkts :
         /\ MaxIn(p.frames) > lim.remote.known
         /\ lim' = [lim EXCEPT !.remote.known = MaxIn(p.frames)]
  BY Zenon DEF PeerReadsLimits
<1>2. p.frames \in SUBSET Nat /\ p.frames # {} /\ p.frames \subseteq Carried(lim)
  BY <1>0, InChain DEF FramesOK, LimitsType, PktType
<1>3. MaxIn(p.frames) \in Nat /\ MaxIn(p.frames) <= lim.remote.max
  <2>1. \A n \in p.frames : n <= lim.remote.max
    BY <1>0, <1>2 DEF FramesOK
  <2>2. MaxIn(p.frames) \in p.frames
    BY <1>0, <1>2, <2>1, LargestFrame
  <2> QED
    BY <1>2, <2>1, <2>2
<1>4. PICK k \in Nat : /\ lim.remote.known < k /\ k <= lim.remote.max
                       /\ lim' = [lim EXCEPT !.remote.known = k]
  BY <1>0, <1>1, <1>3
<1>5. [lim.remote EXCEPT !.known = k] \in RemoteType
  BY <1>0 DEF RemoteType
<1>6. lim' = [lim EXCEPT !.remote = [lim.remote EXCEPT !.known = k]]
  BY <1>0, <1>4 DEF LimitsType
<1>7. /\ lim' \in LimitsType /\ lim'.remote = [lim.remote EXCEPT !.known = k]
      /\ lim'.frq = lim.frq /\ lim'.pkts = lim.pkts /\ lim'.acked = lim.acked
      /\ lim'.local = lim.local /\ lim'.error = lim.error
  BY <1>0, <1>5, <1>6 DEF LimitsType
<1>8. /\ lim'.remote.known = k /\ lim'.remote.max = lim.remote.max
      /\ lim'.remote.opened = lim.remote.opened /\ lim'.remote.unsent = lim.remote.unsent
      /\ lim'.remote.idtr = lim.remote.idtr /\ lim'.remote.live = lim.remote.live
      /\ lim'.remote.closed = lim.remote.closed
  BY <1>0, <1>7 DEF RemoteType
<1>9. Carried(lim') = Carried(lim) /\ Owed(lim') = Owed(lim)
  BY <1>7 DEF Carried, Owed
<1>10. \A n \in lim'.acked : n <= lim'.remote.known
  <2>1. \A n \in lim.acked : n \in Nat /\ n <= lim.remote.known
    BY <1>0 DEF FramesOK
  <2> QED
    BY <1>0, <1>4, <1>7, <1>8, <2>1
<1>11. FramesOK(lim')
  BY <1>0, <1>7, <1>8, <1>9, <1>10 DEF FramesOK
<1>12. LimitsOrdered(lim')
  BY <1>0, <1>4, <1>8, <1>9 DEF LimitsOrdered
<1> QED
  BY <1>0, <1>7, <1>8, <1>11, <1>12, FrameStep DEF SameStreams

\* Only the streams of the peer change: no frame, and no limit but the one to announce.
StreamStep(r) ==
    /\ lim' = [lim EXCEPT !.remote = r] /\ r \in RemoteType
    /\ r.max = lim.remote.max /\ r.known = lim.remote.known

\* What is left to show of a step that opens or closes a stream.
LEMMA OnlyStreams ==
    ASSUME LimitsInv, NEW r, StreamStep(r), StreamsOK(r),
           r.opened <= r.known, r.max <= r.unsent, r.unsent <= MaxStreams
    PROVE  LimitsInv'
<1>0. /\ lim \in LimitsType /\ FramesOK(lim) /\ LimitsOrdered(lim) /\ LocalOK(lim.local)
      /\ lim.error = "none"
  BY DEF LimitsInv
<1>1. /\ lim' \in LimitsType /\ lim'.remote = r
      /\ lim'.frq = lim.frq /\ lim'.pkts = lim.pkts /\ lim'.acked = lim.acked
      /\ lim'.local = lim.local /\ lim'.error = lim.error
  BY <1>0 DEF StreamStep, LimitsType
<1>2. Carried(lim') = Carried(lim) /\ Owed(lim') = Owed(lim)
  BY <1>1 DEF Carried, Owed
<1>3. FramesOK(lim')
  BY <1>0, <1>1, <1>2 DEF FramesOK, StreamStep
<1>4. LimitsOrdered(lim')
  BY <1>0, <1>1, <1>2 DEF LimitsOrdered, StreamStep
<1> QED
  BY <1>0, <1>1, <1>3, <1>4 DEF LimitsInv

\* A frame of a stream arrives: the stream is opened, unless it was before.
LEMMA RecvStreamFrameOK ==
    ASSUME LimitsInv, RecvStreamFrame
    PROVE  LimitsInv'
<1>0. /\ lim \in LimitsType /\ LimitsOrdered(lim) /\ StreamsOK(lim.remote)
      /\ lim.remote \in RemoteType /\ lim.remote.max \in Nat /\ lim.remote.known \in Nat
      /\ lim.remote.opened \in Nat /\ lim.remote.unsent \in Nat
  BY DEF LimitsInv, LimitsType, RemoteType
<1>1. PICK id \in 1 .. lim.remote.opened : id \notin lim.remote.live /\ lim' = CheckStream(lim, id)
  BY DEF RecvStreamFrame
<1>2. ~(lim.remote.max < id) /\ id \in Nat
  BY <1>0, <1>1 DEF LimitsOrdered
<1>3. CASE id \in lim.remote.idtr
  <2>1. lim' = lim
    BY <1>1, <1>2, <1>3 DEF CheckStream, IdtrOpen
  <2> QED
    BY <2>1 DEF LimitsInv
<1>4. CASE id \notin lim.remote.idtr
  <2> DEFINE r == [lim.remote EXCEPT !.idtr = lim.remote.idtr \cup {id},
                                     !.live = lim.remote.live \cup {id}]
  <2>1. lim' = [lim EXCEPT !.remote = r]
    BY <1>0, <1>1, <1>2, <1>4, Zenon DEF CheckStream, IdtrOpen, LimitsType
  <2>2. r \in RemoteType
    <3>1. lim.remote.idtr \cup {id} \in SUBSET Nat /\ lim.remote.live \cup {id} \in SUBSET Nat
      BY <1>0, <1>2 DEF RemoteType
    <3> QED
      BY <1>0, <3>1, Zenon DEF RemoteType
  <2>3. /\ r.idtr = lim.remote.idtr \cup {id} /\ r.live = lim.remote.live \cup {id}
        /\ r.closed = lim.remote.closed /\ r.opened = lim.remote.opened
        /\ r.max = lim.remote.max /\ r.known = lim.remote.known
        /\ r.unsent = lim.remote.unsent
    BY <1>0 DEF RemoteType
  <2> HIDE DEF r
  <2>4. StreamsOK(r)
    BY <1>0, <1>1, <1>4, <2>3 DEF StreamsOK
  <2>5. r.opened <= r.known /\ r.max <= r.unsent /\ r.unsent <= MaxStreams
    BY <1>0, <2>3 DEF LimitsOrdered
  <2>6. StreamStep(r)
    BY <2>1, <2>2, <2>3 DEF StreamStep
  <2> QED
    BY <2>4, <2>5, <2>6, OnlyStreams
<1> QED
  BY <1>3, <1>4

\* A stream is closed, and the application raises the limit.
LEMMA CloseStreamOK ==
    ASSUME LimitsInv, CloseStream
    PROVE  LimitsInv'
<1>0. /\ lim \in LimitsType /\ LimitsOrdered(lim) /\ StreamsOK(lim.remote)
      /\ lim.remote \in RemoteType /\ lim.remote.max \in Nat /\ lim.remote.known \in Nat
      /\ lim.remote.opened \in Nat /\ lim.remote.unsent \in Nat
      /\ lim.remote.closed \in SUBSET Nat /\ lim.remote.live \in SUBSET Nat
  BY SMTT(60) DEF LimitsInv, LimitsType, RemoteType
<1> DEFINE u == Extend(lim.remote.unsent, 1)
<1>1. PICK id \in lim.remote.live :
         lim' = [lim EXCEPT !.remote.live = @ \ {id}, !.remote.closed = @ \cup {id},
                            !.remote.unsent = Extend(@, 1)]
  BY Zenon DEF CloseStream
<1> DEFINE r == [lim.remote EXCEPT !.live = lim.remote.live \ {id},
                                   !.closed = lim.remote.closed \cup {id}, !.unsent = u]
<1>2. u \in Nat /\ lim.remote.unsent <= u /\ u <= MaxStreams /\ u <= lim.remote.unsent + 1
  <2>1. lim.remote.unsent <= MaxStreams
    BY <1>0 DEF LimitsOrdered
  <2> QED
    BY <1>0, <2>1, LimitConstants DEF Extend
<1>3. lim' = [lim EXCEPT !.remote = r]
  BY <1>0, <1>1, Zenon DEF LimitsType
<1> HIDE DEF u
<1>4. r \in RemoteType
  <2>1. lim.remote.live \ {id} \in SUBSET Nat /\ lim.remote.closed \cup {id} \in SUBSET Nat
    BY <1>0
  <2> QED
    BY <1>0, <1>2, <2>1, Zenon DEF RemoteType
<1>5. /\ r.idtr = lim.remote.idtr /\ r.live = lim.remote.live \ {id}
      /\ r.closed = lim.remote.closed \cup {id} /\ r.opened = lim.remote.opened
      /\ r.max = lim.remote.max /\ r.known = lim.remote.known /\ r.unsent = u
  BY <1>0 DEF RemoteType
<1> HIDE DEF r
<1>6. r.idtr = r.live \cup r.closed /\ r.live \cap r.closed = {} /\ r.idtr \subseteq 1 .. r.opened
  BY <1>0, <1>5 DEF StreamsOK
<1>7. r.unsent <= InitialMaxStreams + Cardinality(r.closed)
  <2>1. id \notin lim.remote.closed /\ IsFiniteSet(lim.remote.closed)
    BY <1>0, FewStreams DEF StreamsOK
  <2>2. Cardinality(r.closed) = Cardinality(lim.remote.closed) + 1
    BY <1>5, <2>1, FS_AddElement, Zenon
  <2>3. Cardinality(lim.remote.closed) \in Nat
    BY <2>1, FS_CardinalityType
  <2>4. lim.remote.unsent <= InitialMaxStreams + Cardinality(lim.remote.closed)
    BY <1>0 DEF StreamsOK
  <2> QED
    BY <1>0, <1>2, <1>5, <2>2, <2>3, <2>4, LimitConstants
<1>8. StreamsOK(r)
  BY <1>6, <1>7 DEF StreamsOK
<1>9. r.opened <= r.known /\ r.max <= r.unsent /\ r.unsent <= MaxStreams
  BY <1>0, <1>2, <1>5, LimitConstants DEF LimitsOrdered
<1>10. StreamStep(r)
  BY <1>3, <1>4, <1>5 DEF StreamStep
<1> QED
  BY <1>8, <1>9, <1>10, OnlyStreams

\* The peer opens a stream within the limit it knows.
LEMMA PeerOpensOK ==
    ASSUME LimitsInv, PeerOpens
    PROVE  LimitsInv'
<1>0. /\ lim \in LimitsType /\ LimitsOrdered(lim) /\ StreamsOK(lim.remote)
      /\ lim.remote \in RemoteType /\ lim.remote.known \in Nat /\ lim.remote.opened \in Nat
  BY DEF LimitsInv, LimitsType, RemoteType
<1> DEFINE r == [lim.remote EXCEPT !.opened = lim.remote.opened + 1]
<1>1. lim' = [lim EXCEPT !.remote = r] /\ lim.remote.opened < lim.remote.known
  BY <1>0 DEF PeerOpens, LimitsType
<1>2. r \in RemoteType
  BY <1>0 DEF RemoteType
<1>3. /\ r.idtr = lim.remote.idtr /\ r.live = lim.remote.live
      /\ r.closed = lim.remote.closed /\ r.opened = lim.remote.opened + 1
      /\ r.max = lim.remote.max /\ r.known = lim.remote.known /\ r.unsent = lim.remote.unsent
  BY <1>0 DEF RemoteType
<1> HIDE DEF r
<1>4. r.idtr \subseteq 1 .. r.opened
  BY <1>0, <1>3 DEF StreamsOK
<1>5. StreamsOK(r)
  BY <1>0, <1>3, <1>4 DEF StreamsOK
<1>6. r.opened <= r.known /\ r.max <= r.unsent /\ r.unsent <= MaxStreams
  BY <1>0, <1>1, <1>3 DEF LimitsOrdered
<1>7. StreamStep(r)
  BY <1>1, <1>2, <1>3 DEF StreamStep
<1> QED
  BY <1>5, <1>6, <1>7, OnlyStreams

\* The streams the endpoint opens itself.
LEMMA LocalStep ==
    ASSUME LimitsInv, OpenStream \/ RecvMaxStreams \/ PeerGrants
    PROVE  LimitsInv'
<1>0. /\ lim \in LimitsType /\ LocalOK(lim.local) /\ lim.local \in LocalType
      /\ lim.local.max \in Nat /\ lim.local.next \in Nat /\ lim.local.granted \in Nat
  BY DEF LimitsInv, LimitsType, LocalType
<1>1. PICK l \in LocalType : lim' = [lim EXCEPT !.local = l] /\ LocalOK(l)
  <2>1. CASE OpenStream
    <3> DEFINE l == [lim.local EXCEPT !.next = lim.local.next + 1]
    <3>1. lim' = [lim EXCEPT !.local = l] /\ StreamsLeft(lim.local) # 0
      BY <1>0, <2>1 DEF OpenStream, LimitsType
    <3>2. /\ l \in LocalType /\ l.next = lim.local.next + 1 /\ l.max = lim.local.max
          /\ l.granted = lim.local.granted
      BY <1>0 DEF LocalType
    <3> HIDE DEF l
    <3>3. LocalOK(l)
      BY <1>0, <3>1, <3>2 DEF LocalOK, StreamsLeft
    <3> QED
      BY <3>1, <3>2, <3>3
  <2>2. CASE RecvMaxStreams
    <3>1. PICK n \in InitialMaxStreams .. lim.local.granted :
             lim.local.max < n /\ lim' = [lim EXCEPT !.local.max = n]
      BY <2>2 DEF RecvMaxStreams
    <3> DEFINE l == [lim.local EXCEPT !.max = n]
    <3>2. n \in Nat /\ n <= lim.local.granted /\ lim.local.max < n
      BY <1>0, <3>1, LimitConstants
    <3>3. lim' = [lim EXCEPT !.local = l]
      BY <1>0, <3>1 DEF LimitsType
    <3>4. /\ l \in LocalType /\ l.next = lim.local.next /\ l.max = n
          /\ l.granted = lim.local.granted
      BY <1>0, <3>2 DEF LocalType
    <3> HIDE DEF l
    <3>5. LocalOK(l)
      BY <1>0, <3>2, <3>4 DEF LocalOK
    <3> QED
      BY <3>3, <3>4, <3>5
  <2>3. CASE PeerGrants
    <3> DEFINE l == [lim.local EXCEPT !.granted = lim.local.granted + 1]
    <3>1. lim' = [lim EXCEPT !.local = l]
      BY <1>0, <2>3 DEF PeerGrants, LimitsType
    <3>2. /\ l \in LocalType /\ l.next = lim.local.next /\ l.max = lim.local.max
          /\ l.granted = lim.local.granted + 1
      BY <1>0 DEF LocalType
    <3> HIDE DEF l
    <3>3. LocalOK(l)
      BY <1>0, <3>2 DEF LocalOK
    <3> QED
      BY <3>1, <3>2, <3>3
  <2> QED
    BY <2>1, <2>2, <2>3
<1>2. /\ lim' \in LimitsType /\ lim'.local = l /\ lim'.remote = lim.remote
      /\ lim'.frq = lim.frq /\ lim'.pkts = lim.pkts /\ lim'.acked = lim.acked
      /\ lim'.error = lim.error
  BY <1>0, <1>1 DEF LimitsType
<1>3. Carried(lim') = Carried(lim) /\ Owed(lim') = Owed(lim)
  BY <1>2 DEF Carried, Owed
<1>4. FramesOK(lim') /\ LimitsOrdered(lim')
  BY <1>2, <1>3 DEF LimitsInv, FramesOK, LimitsOrdered
<1> QED
  BY <1>1, <1>2, <1>4 DEF LimitsInv

\* The limits of the transport parameters.
LEMMA InitLimitsOK ==
    ASSUME InitLimits
    PROVE  LimitsInv
<1>1. PICK side \in {"remote", "local"} : lim = NewLimits(side)
  BY DEF InitLimits
<1>2. lim.remote = NewRemote /\ lim.local = NewLocal /\ lim.error = "none"
      /\ lim.frq = {} /\ lim.pkts = {} /\ lim.acked = {} /\ lim.side = side
  BY <1>1 DEF NewLimits
<1>3. NewRemote \in RemoteType /\ NewLocal \in LocalType
  BY LimitConstants DEF NewRemote, NewLocal, RemoteType, LocalType
<1>4. lim \in LimitsType
  BY <1>1, <1>3 DEF LimitsType, NewLimits
<1>5. FramesOK(lim) /\ LimitsOrdered(lim)
  <2>1. Carried(lim) = {}
    BY <1>2 DEF Carried
  <2> QED
    BY <1>2, <2>1, LimitConstants DEF FramesOK, LimitsOrdered, NewRemote
<1>6. StreamsOK(lim.remote)
  BY <1>2, LimitConstants, FS_EmptySet DEF StreamsOK, NewRemote
<1>7. LocalOK(lim.local)
  BY <1>2, LimitConstants DEF LocalOK, NewLocal
<1> QED
  BY <1>2, <1>4, <1>5, <1>6, <1>7 DEF LimitsInv

\* The stream limits keep the invariant, whatever they are and however the
\* MAX_STREAMS frames are lost, repeated and reordered.
THEOREM LimitsInductive == SpecLimits => []LimitsInv
<1>1. InitLimits => LimitsInv
  BY InitLimitsOK
<1>2. LimitsInv /\ [NextLimits]_lim => LimitsInv'
  <2> SUFFICES ASSUME LimitsInv, [NextLimits]_lim PROVE LimitsInv'
    OBVIOUS
  <2>1. CASE RecvStreamFrame \/ CloseStream \/ PeerOpens
    BY <2>1, RecvStreamFrameOK, CloseStreamOK, PeerOpensOK
  <2>2. CASE WriteLimits \/ LoseLimits \/ ProbeLimits \/ ExpireLimits
    BY <2>2, WriteLimitsOK, RequeueLimits, ExpireLimitsOK
  <2>3. CASE PeerReadsLimits \/ AckLimits
    BY <2>3, PeerReadsLimitsOK, AckLimitsOK
  <2>4. CASE OpenStream \/ RecvMaxStreams \/ PeerGrants
    BY <2>4, LocalStep
  <2>5. CASE UNCHANGED lim
    BY <2>5 DEF LimitsInv
  <2> QED
    BY <2>1, <2>2, <2>3, <2>4, <2>5 DEF NextLimits
<1> QED
  BY <1>1, <1>2, PTL DEF SpecLimits

\* conn_recv_stream, handle_max_remote_streams_extension and conn_write_pkt: a peer that
\* keeps to the limit it knows is never told that it broke it, a closed stream stays
\* closed, no more streams exist than the first limit allowed, and the limit in force is
\* known to the peer or on its way, for every limit.
THEOREM LimitsAlwaysSound == SpecLimits => []LimitsSound
<1>1. LimitsInv => LimitsSound
  <2> SUFFICES ASSUME LimitsInv PROVE LimitsSound
    OBVIOUS
  <2>1. /\ lim \in LimitsType /\ LimitsOrdered(lim) /\ StreamsOK(lim.remote) /\ LocalOK(lim.local)
        /\ lim.error = "none"
    BY DEF LimitsInv
  <2>2. Cardinality(lim.remote.live) <= InitialMaxStreams
    BY <2>1, FewStreams
  <2>3. lim.local.next <= lim.local.granted + 1
    BY <2>1 DEF LocalOK, LimitsType, LocalType
  <2>4. StreamsBlockedAccepted(lim, lim.remote.known)
    BY <2>1 DEF LimitsOrdered, StreamsBlockedAccepted
  <2> QED
    BY <2>1, <2>2, <2>3, <2>4 DEF LimitsSound, LimitsOrdered, StreamsOK
<1> QED
  BY <1>1, LimitsInductive, PTL

-----------------------------------------------------------------------------
(* Connection IDs *)

PoolType == UNION {[S -> BOOLEAN] : S \in SUBSET Nat}

ScidType ==
    [gone : PoolType, last : Nat, inflight : Nat, retired : Nat,
     frq : SUBSET Nat, pkts : SUBSET PktType, acked : SUBSET Nat, fault : BOOLEAN,
     known : SUBSET Nat, uses : Nat, back : SUBSET Nat, retires : SUBSET Nat]

\* The frames on their way.  What the peer may not know is in the pool, and
\* what was not acknowledged will be sent or noticed.
ScidFrames(s) ==
    /\ \A p \in s.pkts : p.lost => p.reclaimed
    /\ Carried(s) \subseteq 0 .. s.last
    /\ Carried(s) \ s.known \subseteq Pool(s)
    /\ Carried(s) \ s.acked \subseteq Owed(s)
    /\ Pool(s) \ s.known \subseteq Owed(s)
    /\ s.acked \subseteq s.known
    /\ s.inflight = Cardinality(Carried(s) \ s.acked) /\ s.inflight <= ScidPoolSize

\* The pool and the peer.  Only what the peer gave back is retired.
ScidPool(s) ==
    /\ Pool(s) \subseteq 0 .. s.last /\ s.known \subseteq 0 .. s.last
    /\ s.retires \subseteq s.back /\ s.back \subseteq s.known
    /\ s.uses \in s.known \ s.back
    /\ Retired(s) \subseteq s.back /\ s.known \ s.back \subseteq Pool(s)
    /\ s.retired = Cardinality(Retired(s))
    /\ Cardinality(Pool(s) \ Retired(s)) <= CidLimit

\* The inductive invariant.
ScidInv == sid \in ScidType /\ ~sid.fault /\ ScidFrames(sid) /\ ScidPool(sid)

SpecScid == InitScid /\ [][NextScid]_sid

\* The constants are natural numbers.
LEMMA CidConstants ==
    CidLimit \in Nat /\ ScidPoolSize \in Nat /\ 2 <= CidLimit /\ CidLimit < ScidPoolSize
BY CidLimitAssumption

\* The pool is a set of sequence numbers, each of which is retired or not.
LEMMA PoolIs ==
    ASSUME NEW s, s \in ScidType
    PROVE  /\ s.gone \in [Pool(s) -> BOOLEAN] /\ Pool(s) \subseteq Nat
           /\ Retired(s) \subseteq Pool(s) /\ s.last \in Nat
<1>1. s.gone \in PoolType /\ s.last \in Nat
  BY DEF ScidType
<1>2. PICK S \in SUBSET Nat : s.gone \in [S -> BOOLEAN]
  BY <1>1 DEF PoolType
<1> QED
  BY <1>1, <1>2, Zenon DEF Pool, Retired

\* Everything with a sequence number that was issued is finite.
LEMMA UpToLast ==
    ASSUME NEW n \in Nat, NEW T, T \subseteq 0 .. n
    PROVE  IsFiniteSet(T) /\ Cardinality(T) \in Nat
<1>1. IsFiniteSet(0 .. n)
  BY FS_Interval
<1> QED
  BY <1>1, FS_Subset, FS_CardinalityType, Zenon

\* All but the frames.
SameCids(s, d) ==
    /\ d.gone = s.gone /\ d.last = s.last /\ d.retired = s.retired /\ d.known = s.known
    /\ d.uses = s.uses /\ d.back = s.back /\ d.retires = s.retires

\* A step that sends, loses or acknowledges frames does not touch the pool.
LEMMA PoolKept ==
    ASSUME NEW s, NEW d, SameCids(s, d)
    PROVE  Pool(d) = Pool(s) /\ Retired(d) = Retired(s) /\ (ScidPool(s) => ScidPool(d))
<1>1. Pool(d) = Pool(s) /\ Retired(d) = Retired(s)
  BY DEF SameCids, Pool, Retired
<1> QED
  BY <1>1 DEF SameCids, ScidPool

\* A packet is lost, or a probe timeout reclaims its frames.
LEMMA RequeueNcid ==
    ASSUME ScidInv, LoseNcid \/ ProbeNcid
    PROVE  ScidInv'
<1>0. sid \in ScidType /\ ScidFrames(sid) /\ ScidPool(sid) /\ ~sid.fault
  BY DEF ScidInv
<1>1. PICK p \in sid.pkts :
         \/ ~p.lost /\ sid' = PktLost(sid, p)
         \/ ~p.reclaimed /\ sid' = PtoReclaim(sid, p)
  BY DEF LoseNcid, ProbeNcid
<1>2. p \in PktType
  BY <1>0, SMTT(60) DEF ScidType
<1>3. PICK q \in PktType, F \in SUBSET Nat :
         /\ sid' = [sid EXCEPT !.frq = F, !.pkts = (sid.pkts \ {p}) \cup {q}]
         /\ q.frames = p.frames /\ q.reclaimed
         /\ sid.frq \subseteq F /\ F \subseteq sid.frq \cup p.frames
         /\ p.reclaimed \/ p.frames \ sid.acked \subseteq F
  <2>1. sid.frq \in SUBSET Nat /\ p.frames \in SUBSET Nat
    BY <1>0, <1>2, SMTT(60) DEF ScidType, PktType
  <2>2. CASE ~p.lost /\ sid' = PktLost(sid, p)
    <3> DEFINE q == [p EXCEPT !.lost = TRUE, !.reclaimed = TRUE]
    <3>1. q \in PktType /\ q.frames = p.frames /\ q.reclaimed
      BY <1>2, Zenon DEF PktType
    <3>2. CASE p.reclaimed
      <4>1. sid' = [sid EXCEPT !.frq = sid.frq, !.pkts = (sid.pkts \ {p}) \cup {q}]
        BY <1>0, <2>2, <3>2, Zenon DEF PktLost, ScidType
      <4> HIDE DEF q
      <4> QED
        BY <2>1, <3>1, <3>2, <4>1, Zenon
    <3>3. CASE ~p.reclaimed
      <4>1. sid' = [sid EXCEPT !.frq = sid.frq \cup (p.frames \ sid.acked),
                               !.pkts = (sid.pkts \ {p}) \cup {q}]
        BY <1>0, <2>2, <3>3, SMTT(60) DEF PktLost, Reclaim, QueueFrames, ScidType
      <4> HIDE DEF q
      <4>2. sid.frq \cup (p.frames \ sid.acked) \in SUBSET Nat
        BY <2>1
      <4> QED
        BY <2>1, <3>1, <3>3, <4>1, <4>2, Zenon
    <3> QED
      BY <3>2, <3>3, Zenon
  <2>3. CASE ~p.reclaimed /\ sid' = PtoReclaim(sid, p)
    <3> DEFINE q == [p EXCEPT !.reclaimed = TRUE]
    <3>1. q \in PktType /\ q.frames = p.frames /\ q.reclaimed
      BY <1>2, Zenon DEF PktType
    <3>2. sid' = [sid EXCEPT !.frq = sid.frq \cup (p.frames \ sid.acked),
                             !.pkts = (sid.pkts \ {p}) \cup {q}]
      BY <1>0, <2>3 DEF PtoReclaim, Reclaim, QueueFrames, ScidType
    <3> HIDE DEF q
    <3>3. sid.frq \cup (p.frames \ sid.acked) \in SUBSET Nat
      BY <2>1
    <3> QED
      BY <2>1, <2>3, <3>1, <3>2, <3>3, Zenon
  <2> QED
    BY <1>1, <2>2, <2>3, Zenon
<1>4. /\ sid' \in ScidType /\ SameCids(sid, sid') /\ sid'.fault = sid.fault
      /\ sid'.frq = F /\ sid'.acked = sid.acked /\ sid'.inflight = sid.inflight
      /\ sid'.pkts = (sid.pkts \ {p}) \cup {q}
  BY <1>0, <1>2, <1>3, Zenon DEF ScidType, SameCids
<1>5. Requeued(sid, sid', p, q)
  BY <1>3, <1>4 DEF Requeued
<1>6. Carried(sid') = Carried(sid) /\ Owed(sid) \ sid.acked \subseteq Owed(sid')
  BY <1>5, RequeuedKeeps
<1>7. Pool(sid') = Pool(sid) /\ ScidPool(sid')
  BY <1>0, <1>4, PoolKept
<1>8. \A k \in sid'.pkts : k.lost => k.reclaimed
  BY <1>0, <1>3, <1>4 DEF ScidFrames
<1>9. ScidFrames(sid')
  BY <1>0, <1>4, <1>6, <1>7, <1>8 DEF ScidFrames, SameCids
<1> QED
  BY <1>0, <1>4, <1>7, <1>9 DEF ScidInv

\* A lost packet leaves the buffer: each of its frames is acknowledged or queued again.
LEMMA ExpireNcidOK ==
    ASSUME ScidInv, ExpireNcid
    PROVE  ScidInv'
<1>0. sid \in ScidType /\ ScidFrames(sid) /\ ScidPool(sid) /\ ~sid.fault
  BY DEF ScidInv
<1>1. PICK p \in sid.pkts : p.lost /\ sid' = PktExpired(sid, p)
  BY DEF ExpireNcid
<1>2. p.reclaimed
  BY <1>0, <1>1 DEF ScidFrames
<1> DEFINE m == [sid EXCEPT !.pkts = sid.pkts \ {p}]
           A == sid.acked \cap Carried(m)
<1>3. sid' = [sid EXCEPT !.pkts = sid.pkts \ {p}, !.acked = A]
  BY <1>0, <1>1 DEF PktExpired, FreeBinders, ScidType
<1>4. A \in SUBSET Nat /\ sid.pkts \ {p} \in SUBSET PktType
  BY <1>0 DEF ScidType
<1>5. m.frq = sid.frq /\ m.pkts = sid.pkts \ {p}
  BY <1>0 DEF ScidType
<1>6. A = sid.acked \cap Carried(m)
  OBVIOUS
<1> HIDE DEF m, A
<1>7. /\ sid' \in ScidType /\ SameCids(sid, sid') /\ sid'.fault = sid.fault
      /\ sid'.frq = sid.frq /\ sid'.acked = A /\ sid'.inflight = sid.inflight
      /\ sid'.pkts = sid.pkts \ {p}
  BY <1>0, <1>3, <1>4, Zenon DEF ScidType, SameCids
<1>8. Carried(sid') = Carried(m)
  BY <1>5, <1>7 DEF Carried
<1>9. Dropped(sid, sid', p) /\ sid'.acked = sid.acked \cap Carried(sid')
  BY <1>6, <1>7, <1>8 DEF Dropped
<1>10. Carried(sid') \subseteq Carried(sid) /\ Owed(sid) \subseteq Owed(sid')
  BY <1>2, <1>9, ExpiredKeeps
<1>11. Carried(sid') \ sid'.acked = Carried(sid) \ sid.acked
  <2>1. Owed(sid') \subseteq Carried(sid')
    BY InChain
  <2>2. Carried(sid) \ sid.acked \subseteq Carried(sid')
    BY <1>0, <1>10, <2>1 DEF ScidFrames
  <2> QED
    BY <1>9, <1>10, <2>2
<1>12. Pool(sid') = Pool(sid) /\ ScidPool(sid')
  BY <1>0, <1>7, PoolKept
<1>13. ScidFrames(sid')
  <2>1. /\ \A k \in sid'.pkts : k.lost => k.reclaimed
        /\ Carried(sid') \subseteq 0 .. sid'.last
        /\ Carried(sid') \ sid'.known \subseteq Pool(sid')
    BY <1>0, <1>7, <1>10, <1>12 DEF ScidFrames, SameCids
  <2>2. /\ Carried(sid') \ sid'.acked \subseteq Owed(sid')
        /\ Pool(sid') \ sid'.known \subseteq Owed(sid')
        /\ sid'.acked \subseteq sid'.known
    BY <1>0, <1>7, <1>9, <1>10, <1>11, <1>12 DEF ScidFrames, SameCids
  <2>3. /\ sid'.inflight = Cardinality(Carried(sid') \ sid'.acked)
        /\ sid'.inflight <= ScidPoolSize
    BY <1>0, <1>7, <1>11, Zenon DEF ScidFrames
  <2> QED
    BY <2>1, <2>2, <2>3 DEF ScidFrames
<1> QED
  BY <1>0, <1>7, <1>12, <1>13 DEF ScidInv

\* process_acked_pkt: the frames acknowledged for the first time are no longer in flight.
LEMMA AckNcidOK ==
    ASSUME ScidInv, AckNcid
    PROVE  ScidInv'
<1>0. /\ sid \in ScidType /\ ScidFrames(sid) /\ ScidPool(sid) /\ ~sid.fault /\ sid.last \in Nat
      /\ sid.inflight \in Nat
  BY DEF ScidInv, ScidType
<1>1. PICK p \in sid.pkts : p.frames \subseteq sid.known /\ sid' = AckedNcid(sid, p)
  BY DEF AckNcid
<1>2. p.frames \in SUBSET Nat /\ p.frames \subseteq Carried(sid)
  BY <1>0, InChain DEF ScidType, PktType
<1> DEFINE W == Carried(sid) \ sid.acked
           N == NewlyAcked(sid, p)
           n == Cardinality(N)
           m == [sid EXCEPT !.acked = sid.acked \cup p.frames, !.pkts = sid.pkts \ {p}]
           A == (sid.acked \cup p.frames) \cap Carried(m)
<1>3. /\ N \subseteq W /\ N = p.frames \ sid.acked /\ W = Carried(sid) \ sid.acked
      /\ sid.inflight = Cardinality(W)
  BY <1>0, <1>2 DEF NewlyAcked, ScidFrames
<1>4. IsFiniteSet(W)
  <2>1. W \subseteq 0 .. sid.last
    BY <1>0 DEF ScidFrames
  <2> QED
    BY <1>0, <2>1, UpToLast
<1>5. n \in Nat /\ n <= sid.inflight /\ Cardinality(W \ N) = sid.inflight - n
  <2>1. W \cap N = N
    BY <1>3
  <2>2. IsFiniteSet(N) /\ n <= Cardinality(W)
    BY <1>3, <1>4, FS_Subset
  <2>3. Cardinality(W \ N) = Cardinality(W) - Cardinality(W \cap N)
    BY <1>4, FS_Difference, Zenon
  <2> QED
    BY <1>3, <2>1, <2>2, <2>3, FS_CardinalityType, Zenon
<1>6. sid' = [sid EXCEPT !.pkts = sid.pkts \ {p}, !.acked = A, !.inflight = sid.inflight - n,
                         !.fault = sid.fault \/ sid.inflight < n]
  BY <1>0, <1>1, Zenon DEF AckedNcid, PktAcked, FreeBinders, ScidType
<1>7. A \in SUBSET Nat /\ sid.pkts \ {p} \in SUBSET PktType
  BY <1>0, <1>2 DEF ScidType
<1>8. m.frq = sid.frq /\ m.pkts = sid.pkts \ {p}
  BY <1>0 DEF ScidType
<1>9. A = (sid.acked \cup p.frames) \cap Carried(m)
  OBVIOUS
<1>10. ~(sid.fault \/ sid.inflight < n) /\ sid.inflight - n \in Nat
  BY <1>0, <1>5
<1> HIDE DEF m, A, n, N, W
<1>11. (sid.fault \/ sid.inflight < n) = FALSE
  BY <1>10
<1>12. sid' = [sid EXCEPT !.pkts = sid.pkts \ {p}, !.acked = A, !.inflight = sid.inflight - n,
                          !.fault = FALSE]
  BY <1>6, <1>11, Zenon
<1>13. /\ sid' \in ScidType /\ SameCids(sid, sid') /\ sid'.fault = FALSE
       /\ sid'.frq = sid.frq /\ sid'.acked = A /\ sid'.inflight = sid.inflight - n
       /\ sid'.pkts = sid.pkts \ {p}
  BY <1>0, <1>7, <1>10, <1>12, Zenon DEF ScidType, SameCids
<1>14. Carried(sid') = Carried(m)
  BY <1>8, <1>13 DEF Carried
<1>15. Dropped(sid, sid', p) /\ sid'.acked = (sid.acked \cup p.frames) \cap Carried(sid')
  BY <1>9, <1>13, <1>14 DEF Dropped
<1>16. /\ Carried(sid') \subseteq Carried(sid)
       /\ Carried(sid') \ sid'.acked = (Carried(sid) \ sid.acked) \ p.frames
       /\ Owed(sid) \ p.frames \subseteq Owed(sid')
  BY <1>15, AckedKeeps
<1>17. Carried(sid') \ sid'.acked = W \ N
  BY <1>3, <1>16
<1>18. Pool(sid') = Pool(sid) /\ ScidPool(sid')
  BY <1>0, <1>13, PoolKept
<1>19. ScidFrames(sid')
  <2>1. /\ \A k \in sid'.pkts : k.lost => k.reclaimed
        /\ Carried(sid') \subseteq 0 .. sid'.last
        /\ Carried(sid') \ sid'.known \subseteq Pool(sid')
    BY <1>0, <1>13, <1>16, <1>18, SMTT(60) DEF ScidFrames, SameCids
  <2>2. /\ Carried(sid') \ sid'.acked \subseteq Owed(sid')
        /\ Pool(sid') \ sid'.known \subseteq Owed(sid')
        /\ sid'.acked \subseteq sid'.known
    BY <1>0, <1>1, <1>13, <1>15, <1>16, <1>18, SMTT(60) DEF ScidFrames, SameCids
  <2>3. sid'.inflight = Cardinality(Carried(sid') \ sid'.acked)
    BY <1>5, <1>13, <1>17
  <2>4. sid'.inflight <= ScidPoolSize
    BY <1>0, <1>5, <1>13, CidConstants DEF ScidFrames
  <2> QED
    BY <2>1, <2>2, <2>3, <2>4 DEF ScidFrames
<1> QED
  BY <1>13, <1>18, <1>19 DEF ScidInv

\* conn_required_num_new_connection_id: no subtraction wraps, and what is issued keeps to
\* the limit of the peer and to the size of the pool.
LEMMA RequiredFits ==
    ASSUME NEW s, s \in ScidType, ScidFrames(s), ScidPool(s)
    PROVE  /\ RequiredNum(s) \in Nat /\ s.inflight + RequiredNum(s) <= ScidPoolSize
           /\ Cardinality(Pool(s) \ Retired(s)) + RequiredNum(s) <= CidLimit
<1> DEFINE len == Cardinality(Pool(s))
           live == Cardinality(Pool(s) \ Retired(s))
<1>1. s.retired \in Nat /\ s.inflight \in Nat /\ s.inflight <= ScidPoolSize /\ s.last \in Nat
  BY DEF ScidType, ScidFrames
<1>2. IsFiniteSet(Pool(s)) /\ len \in Nat
  BY <1>1, UpToLast DEF ScidPool
<1>3. live = len - s.retired /\ live \in Nat /\ live <= CidLimit
  <2>1. Pool(s) \cap Retired(s) = Retired(s)
    BY PoolIs
  <2>2. IsFiniteSet(Pool(s) \ Retired(s)) /\ live = len - Cardinality(Pool(s) \cap Retired(s))
    BY <1>2, FS_Difference
  <2> QED
    BY <2>1, <2>2, FS_CardinalityType, Zenon DEF ScidPool
<1> HIDE DEF len, live
<1> DEFINE goal == MinOf(ScidPoolSize, CidLimit + s.retired)
<1>4. goal \in Nat /\ goal <= ScidPoolSize /\ goal <= CidLimit + s.retired
      /\ (goal = ScidPoolSize \/ goal = CidLimit + s.retired)
  BY <1>1, CidConstants DEF MinOf
<1> HIDE DEF goal
<1>5. RequiredNum(s) = IF len >= ScidPoolSize \/ ScidPoolSize = s.inflight THEN 0
                       ELSE IF goal < len THEN -1
                       ELSE MinOf(ScidPoolSize - s.inflight, goal - len)
  BY DEF RequiredNum, len, goal
<1>6. CASE len >= ScidPoolSize \/ ScidPoolSize = s.inflight
  BY <1>1, <1>3, <1>5, <1>6, CidConstants DEF live
<1>7. CASE ~(len >= ScidPoolSize \/ ScidPoolSize = s.inflight)
  <2>1. ~(goal < len)
    BY <1>1, <1>2, <1>3, <1>4, <1>7, CidConstants
  <2>2. RequiredNum(s) = MinOf(ScidPoolSize - s.inflight, goal - len)
    BY <1>5, <1>7, <2>1
  <2>3. /\ RequiredNum(s) \in Nat /\ RequiredNum(s) <= ScidPoolSize - s.inflight
        /\ RequiredNum(s) <= goal - len
    BY <1>1, <1>2, <1>4, <2>1, <2>2, CidConstants DEF MinOf
  <2> QED
    BY <1>1, <1>2, <1>3, <1>4, <2>3, CidConstants DEF live
<1> QED
  BY <1>6, <1>7

\* The sequence numbers of n new connection IDs.
LEMMA Issued ==
    ASSUME NEW l \in Nat, NEW n \in Nat
    PROVE  IsFiniteSet((l + 1) .. (l + n)) /\ Cardinality((l + 1) .. (l + n)) = n
<1> DEFINE a == l + 1
           b == l + n
<1>1. a \in Int /\ b \in Int /\ (IF a > b THEN 0 ELSE b - a + 1) = n
  OBVIOUS
<1>2. IsFiniteSet(a .. b) /\ Cardinality(a .. b) = n
  <2> HIDE DEF a, b
  <2>1. IsFiniteSet(a .. b) /\ Cardinality(a .. b) = IF a > b THEN 0 ELSE b - a + 1
    BY <1>1, FS_Interval
  <2> QED
    BY <1>1, <2>1
<1> QED
  BY <1>2

\* conn_enqueue_new_connection_id.
LEMMA EnqueueOK ==
    ASSUME NEW s, s \in ScidType, ~s.fault, ScidFrames(s), ScidPool(s),
           NEW d, d = EnqueueNewConnectionId(s)
    PROVE  d \in ScidType /\ ~d.fault /\ ScidFrames(d) /\ ScidPool(d)
<1> DEFINE n == RequiredNum(s)
           new == (s.last + 1) .. (s.last + n)
           g == [q \in Pool(s) \cup new |-> IF q \in new THEN FALSE ELSE s.gone[q]]
<1>0. s.last \in Nat /\ s.inflight \in Nat /\ s.fault = FALSE
  BY DEF ScidType
<1>1. /\ n \in Nat /\ s.inflight + n <= ScidPoolSize
      /\ Cardinality(Pool(s) \ Retired(s)) + n <= CidLimit
  BY RequiredFits
<1>2. /\ s.gone \in [Pool(s) -> BOOLEAN] /\ Pool(s) \subseteq Nat /\ Retired(s) \subseteq Pool(s)
      /\ Pool(s) \subseteq 0 .. s.last /\ s.known \subseteq 0 .. s.last
      /\ Carried(s) \subseteq 0 .. s.last
  BY PoolIs DEF ScidPool, ScidFrames
<1>3. (s.fault \/ n < 0 \/ s.inflight + n > ScidPoolSize) = FALSE
  BY <1>0, <1>1, CidConstants
<1>4. d = [s EXCEPT !.frq = s.frq \cup new, !.gone = g, !.last = s.last + n,
                    !.inflight = s.inflight + n,
                    !.fault = s.fault \/ n < 0 \/ s.inflight + n > ScidPoolSize]
  BY DEF EnqueueNewConnectionId, QueueFrames, ScidType
<1>5. d = [s EXCEPT !.frq = s.frq \cup new, !.gone = g, !.last = s.last + n,
                    !.inflight = s.inflight + n, !.fault = FALSE]
  BY <1>3, <1>4, Zenon
<1> HIDE DEF n
<1>6. /\ \A x \in new : x \in Nat /\ x \notin 0 .. s.last /\ x \in 0 .. s.last + n
      /\ IsFiniteSet(new) /\ Cardinality(new) = n
      /\ \A x \in 0 .. s.last : x \in 0 .. s.last + n
  <2>1. IsFiniteSet(new) /\ Cardinality(new) = n
    BY <1>0, <1>1, Issued
  <2>3. \A x \in new : x \in Nat /\ x \notin 0 .. s.last /\ x \in 0 .. s.last + n
    BY <1>0, <1>1
  <2> QED
    BY <1>0, <1>1, <2>1, <2>3
<1> HIDE DEF new
<1>7. /\ g \in [Pool(s) \cup new -> BOOLEAN] /\ DOMAIN g = Pool(s) \cup new
      /\ \A q \in Pool(s) : g[q] = s.gone[q]
      /\ \A q \in new : g[q] = FALSE
  BY <1>2, <1>6, Zenon
<1> HIDE DEF g
<1>8. g \in PoolType /\ s.frq \cup new \in SUBSET Nat /\ s.last + n \in Nat /\ s.inflight + n \in Nat
  <2>1. Pool(s) \cup new \in SUBSET Nat
    BY <1>2, <1>6
  <2>2. g \in PoolType
    BY <1>7, <2>1 DEF PoolType
  <2> QED
    BY <1>0, <1>1, <1>6, <2>2 DEF ScidType
<1>9. /\ d \in ScidType /\ d.frq = s.frq \cup new /\ d.gone = g /\ d.last = s.last + n
      /\ d.inflight = s.inflight + n /\ d.fault = FALSE /\ d.pkts = s.pkts
      /\ d.acked = s.acked /\ d.known = s.known /\ d.uses = s.uses /\ d.back = s.back
      /\ d.retires = s.retires /\ d.retired = s.retired
  <2>1. d \in ScidType
    BY <1>5, <1>8, ZenonT(40) DEF ScidType
  <2> QED
    BY <1>5, <2>1 DEF ScidType
<1>10. Pool(d) = Pool(s) \cup new /\ Retired(d) = Retired(s)
  <2>1. Pool(d) = Pool(s) \cup new
    BY <1>7, <1>9 DEF Pool
  <2>2. \A q : q \in Retired(d) <=> q \in Pool(d) /\ g[q]
    BY <1>9 DEF Retired
  <2>3. \A q : q \in Retired(s) <=> q \in Pool(s) /\ s.gone[q]
    BY DEF Retired
  <2> QED
    BY <1>7, <2>1, <2>2, <2>3, SMTT(60)
<1>11. /\ Carried(d) = Carried(s) \cup new /\ Owed(s) \cup (new \ s.acked) \subseteq Owed(d)
  <2>1. ASSUME NEW x PROVE x \in Carried(d) <=> x \in Carried(s) \cup new
    BY <1>9, InChain
  <2>2. ASSUME NEW x \in Owed(s) \cup (new \ s.acked) PROVE x \in Owed(d)
    BY <1>9, InChain
  <2> QED
    BY <2>1, <2>2
<1>12. s.acked \cap new = {} /\ s.known \cap new = {} /\ Pool(s) \cap new = {}
       /\ Carried(s) \cap new = {}
  BY <1>2, <1>6 DEF ScidFrames
<1>13. ScidPool(d)
  <2>1. /\ Pool(d) \subseteq 0 .. d.last /\ d.known \subseteq 0 .. d.last
    BY <1>2, <1>6, <1>9, <1>10
  <2>2. /\ d.retires \subseteq d.back /\ d.back \subseteq d.known /\ d.uses \in d.known \ d.back
        /\ Retired(d) \subseteq d.back /\ d.known \ d.back \subseteq Pool(d)
        /\ d.retired = Cardinality(Retired(d))
    BY <1>9, <1>10 DEF ScidPool
  <2>3. Cardinality(Pool(d) \ Retired(d)) = Cardinality(Pool(s) \ Retired(s)) + n
    <3> DEFINE L == Pool(s) \ Retired(s)
    <3>1. Pool(d) \ Retired(d) = L \cup new /\ L \cap new = {}
      BY <1>2, <1>10, <1>12
    <3>2. L \subseteq 0 .. s.last
      BY <1>2
    <3> HIDE DEF L
    <3>3. IsFiniteSet(L) /\ Cardinality(L) \in Nat
      BY <1>0, <3>2, UpToLast, Zenon
    <3>4. Cardinality(L \cup new) = Cardinality(L) + Cardinality(new) - Cardinality(L \cap new)
      BY <1>6, <3>3, FS_Union
    <3>5. Cardinality(L \cap new) = 0
      BY <3>1, FS_EmptySet
    <3>6. Cardinality(L \cup new) = Cardinality(L) + n
      BY <1>1, <1>6, <3>3, <3>4, <3>5
    <3> QED
      BY <3>1, <3>6 DEF L
  <2> QED
    BY <1>1, <2>1, <2>2, <2>3 DEF ScidPool
<1>14. ScidFrames(d)
  <2>1. /\ \A k \in d.pkts : k.lost => k.reclaimed
        /\ Carried(d) \subseteq 0 .. d.last
        /\ Carried(d) \ d.known \subseteq Pool(d)
    BY <1>2, <1>6, <1>9, <1>10, <1>11, SMTT(60) DEF ScidFrames
  <2>2. /\ Carried(d) \ d.acked \subseteq Owed(d)
        /\ Pool(d) \ d.known \subseteq Owed(d)
        /\ d.acked \subseteq d.known
    BY <1>9, <1>10, <1>11, <1>12 DEF ScidFrames
  <2>3. Cardinality(Carried(d) \ d.acked) = s.inflight + n
    <3> DEFINE W == Carried(s) \ s.acked
    <3>1. Carried(d) \ d.acked = W \cup new /\ W \cap new = {}
      BY <1>9, <1>11, <1>12
    <3>2. W \subseteq 0 .. s.last /\ s.inflight = Cardinality(W)
      BY <1>2 DEF ScidFrames
    <3> HIDE DEF W
    <3>3. IsFiniteSet(W)
      BY <1>0, <3>2, UpToLast, Zenon
    <3>4. Cardinality(W \cup new) = Cardinality(W) + Cardinality(new) - Cardinality(W \cap new)
      BY <1>6, <3>3, FS_Union
    <3>5. Cardinality(W \cap new) = 0
      BY <3>1, FS_EmptySet
    <3>6. Cardinality(W \cup new) = s.inflight + n
      BY <1>0, <1>1, <1>6, <3>2, <3>4, <3>5
    <3> QED
      BY <3>1, <3>6
  <2> QED
    BY <1>1, <1>9, <2>1, <2>2, <2>3 DEF ScidFrames
<1> QED
  BY <1>9, <1>13, <1>14

\* conn_write_pkt: new connection IDs are issued and some of the frames written.
LEMMA WriteNcidOK ==
    ASSUME ScidInv, WriteNcid
    PROVE  ScidInv'
<1>1. PICK s, frames : /\ s = EnqueueNewConnectionId(sid) /\ frames \subseteq Writable(s, {})
                       /\ sid' = WritePkt(s, {}, frames)
  BY DEF WriteNcid, Writes
<1>2. s \in ScidType /\ ~s.fault /\ ScidFrames(s) /\ ScidPool(s)
  BY <1>1, EnqueueOK DEF ScidInv
<1> DEFINE F == Writable(s, {}) \ frames
           P == IF frames = {} THEN s.pkts ELSE s.pkts \cup {Packet(frames)}
           m == [s EXCEPT !.frq = F, !.pkts = P]
           A == s.acked \cap Carried(m)
<1>3. sid' = [s EXCEPT !.frq = F, !.pkts = P, !.acked = A]
  BY <1>1, <1>2, SMTT(60) DEF WritePkt, FreeBinders, ScidType
<1>4. frames \in SUBSET Nat /\ F \in SUBSET Nat /\ A \in SUBSET Nat
  BY <1>1, <1>2, ZenonT(40) DEF Writable, ScidType
<1>5. Packet(frames) \in PktType /\ ~Packet(frames).lost
  BY <1>4, Zenon DEF Packet, PktType
<1>6. P \in SUBSET PktType /\ \A p \in P : p.lost => p.reclaimed
  BY <1>2, <1>5 DEF ScidType, ScidFrames
<1>7. m.frq = F /\ m.pkts = P
  BY <1>2 DEF ScidType
<1>8. /\ F = Writable(s, {}) \ frames /\ A = s.acked \cap Carried(m)
      /\ P = IF frames = {} THEN s.pkts ELSE s.pkts \cup {Packet(frames)}
  OBVIOUS
<1> HIDE DEF F, P, m, A
<1>9. /\ sid' \in ScidType /\ SameCids(s, sid') /\ sid'.fault = s.fault
      /\ sid'.frq = F /\ sid'.acked = A /\ sid'.inflight = s.inflight /\ sid'.pkts = P
  BY <1>2, <1>3, <1>4, <1>6, Zenon DEF ScidType, SameCids
<1>10. Carried(sid') = Carried(m)
  BY <1>7, <1>9 DEF Carried
<1>11. Written(s, sid', {}, frames)
  BY <1>1, <1>8, <1>9, <1>10 DEF Written
<1>12. /\ Carried(sid') \subseteq Carried(s) /\ Carried(s) \ s.acked \subseteq Carried(sid')
       /\ Owed(s) \subseteq Owed(sid')
  BY <1>11, WrittenKeeps
<1>13. Carried(sid') \ sid'.acked = Carried(s) \ s.acked
  BY <1>11, <1>12 DEF Written
<1>14. Pool(sid') = Pool(s) /\ ScidPool(sid')
  BY <1>2, <1>9, PoolKept
<1>15. ScidFrames(sid')
  <2>1. /\ \A k \in sid'.pkts : k.lost => k.reclaimed
        /\ Carried(sid') \subseteq 0 .. sid'.last
        /\ Carried(sid') \ sid'.known \subseteq Pool(sid')
    BY <1>2, <1>6, <1>9, <1>12, <1>14, SMTT(60) DEF ScidFrames, SameCids
  <2>2. /\ Carried(sid') \ sid'.acked \subseteq Owed(sid')
        /\ Pool(sid') \ sid'.known \subseteq Owed(sid')
        /\ sid'.acked \subseteq sid'.known
    BY <1>2, <1>8, <1>9, <1>12, <1>13, <1>14 DEF ScidFrames, SameCids
  <2>3. /\ sid'.inflight = Cardinality(Carried(sid') \ sid'.acked)
        /\ sid'.inflight <= ScidPoolSize
    BY <1>2, <1>9, <1>13, Zenon DEF ScidFrames
  <2> QED
    BY <2>1, <2>2, <2>3 DEF ScidFrames
<1> QED
  BY <1>2, <1>9, <1>14, <1>15 DEF ScidInv

\* A step of the pool and the peer.
PoolStep(g, r, known, uses, back, retires) ==
    sid' = [sid EXCEPT !.gone = g, !.retired = r, !.known = known, !.uses = uses,
                       !.back = back, !.retires = retires]

\* Its fields have their types, and what the peer may not know stays in the pool.
PoolMoves(g, r, known, uses, back, retires) ==
    /\ g \in PoolType /\ r \in Nat /\ known \in SUBSET Nat /\ uses \in Nat
    /\ back \in SUBSET Nat /\ retires \in SUBSET Nat
    /\ sid.known \subseteq known /\ DOMAIN g \ known \subseteq Pool(sid)
    /\ Carried(sid) \ known \subseteq DOMAIN g

\* What is left to show of a step of the pool and the peer: the frames stay as they are.
LEMMA OnlyPool ==
    ASSUME ScidInv, NEW g, NEW r, NEW known, NEW uses, NEW back, NEW retires,
           PoolStep(g, r, known, uses, back, retires),
           PoolMoves(g, r, known, uses, back, retires)
    PROVE  /\ sid' \in ScidType /\ sid'.gone = g /\ sid'.retired = r /\ sid'.known = known
           /\ sid'.uses = uses /\ sid'.back = back /\ sid'.retires = retires
           /\ sid'.last = sid.last /\ Pool(sid') = DOMAIN g
           /\ ~sid'.fault /\ ScidFrames(sid')
<1>0. sid \in ScidType /\ ScidFrames(sid) /\ ScidPool(sid) /\ ~sid.fault
  BY DEF ScidInv
<1>1. /\ sid' \in ScidType /\ sid'.gone = g /\ sid'.retired = r /\ sid'.known = known
      /\ sid'.uses = uses /\ sid'.back = back /\ sid'.retires = retires
      /\ sid'.last = sid.last /\ sid'.fault = sid.fault /\ sid'.inflight = sid.inflight
      /\ sid'.frq = sid.frq /\ sid'.pkts = sid.pkts /\ sid'.acked = sid.acked
  <2>1. sid' \in ScidType
    BY <1>0, Zenon DEF ScidType, PoolStep, PoolMoves
  <2> QED
    BY <1>0, <2>1 DEF ScidType, PoolStep
<1>2. Carried(sid') = Carried(sid) /\ Owed(sid') = Owed(sid)
  BY <1>1 DEF Carried, Owed
<1>3. Pool(sid') = DOMAIN g
  BY <1>1 DEF Pool
<1>4. ScidFrames(sid')
  <2>1. /\ \A k \in sid'.pkts : k.lost => k.reclaimed
        /\ Carried(sid') \subseteq 0 .. sid'.last
        /\ Carried(sid') \ sid'.known \subseteq Pool(sid')
    BY <1>0, <1>1, <1>2, <1>3, SMTT(60) DEF ScidFrames, PoolMoves
  <2>2. /\ Carried(sid') \ sid'.acked \subseteq Owed(sid')
        /\ Pool(sid') \ sid'.known \subseteq Owed(sid')
        /\ sid'.acked \subseteq sid'.known
    BY <1>0, <1>1, <1>2, <1>3, SMTT(60) DEF ScidFrames, PoolMoves
  <2>3. /\ sid'.inflight = Cardinality(Carried(sid') \ sid'.acked)
        /\ sid'.inflight <= ScidPoolSize
    BY <1>0, <1>1, <1>2 DEF ScidFrames
  <2> QED
    BY <2>1, <2>2, <2>3 DEF ScidFrames
<1> QED
  BY <1>0, <1>1, <1>3, <1>4

\* The fields of the state, for the steps below.
LEMMA ScidFields ==
    ASSUME ScidInv
    PROVE  /\ sid \in ScidType /\ ScidFrames(sid) /\ ScidPool(sid) /\ sid.fault = FALSE
           /\ sid.gone \in PoolType /\ sid.gone \in [Pool(sid) -> BOOLEAN]
           /\ Pool(sid) \in SUBSET Nat /\ Pool(sid) = DOMAIN sid.gone
           /\ Retired(sid) \subseteq Pool(sid) /\ sid.last \in Nat /\ sid.retired \in Nat
           /\ sid.known \in SUBSET Nat /\ sid.uses \in Nat /\ sid.back \in SUBSET Nat
           /\ sid.retires \in SUBSET Nat /\ IsFiniteSet(Pool(sid))
<1>1. sid \in ScidType /\ ScidFrames(sid) /\ ScidPool(sid) /\ ~sid.fault
  BY DEF ScidInv
<1>2. /\ sid.gone \in [Pool(sid) -> BOOLEAN] /\ Pool(sid) \in SUBSET Nat
      /\ Retired(sid) \subseteq Pool(sid) /\ sid.last \in Nat
  BY <1>1, PoolIs
<1>3. IsFiniteSet(Pool(sid))
  BY <1>1, <1>2, UpToLast DEF ScidPool
<1> QED
  BY <1>1, <1>2, <1>3 DEF ScidType, Pool

\* A step of the peer alone.
PeerStep(known, uses, back, retires) ==
    PoolStep(sid.gone, sid.retired, known, uses, back, retires)

\* The steps of the peer: it learns connection IDs, moves, and gives some back.
LEMMA PeerScid ==
    ASSUME ScidInv, PeerReceives \/ PeerMoves \/ PeerGivesBack
    PROVE  ScidInv'
<1>0. /\ sid \in ScidType /\ ScidFrames(sid) /\ ScidPool(sid) /\ sid.gone \in PoolType
      /\ Pool(sid) = DOMAIN sid.gone /\ sid.retired \in Nat /\ Retired(sid) \subseteq Pool(sid)
      /\ sid.known \in SUBSET Nat /\ sid.uses \in Nat /\ sid.back \in SUBSET Nat
      /\ sid.retires \in SUBSET Nat
  BY ScidFields
<1>1. PICK known \in SUBSET Nat, uses \in Nat, back \in SUBSET Nat, retires \in SUBSET Nat :
         /\ PeerStep(known, uses, back, retires)
         /\ sid.known \subseteq known /\ known \subseteq sid.known \cup Carried(sid)
         /\ sid.back \subseteq back /\ back \subseteq known /\ retires \subseteq back
         /\ uses \in known \ back
  <2>1. CASE PeerReceives
    <3>1. PICK p \in sid.pkts : sid' = [sid EXCEPT !.known = sid.known \cup p.frames]
      BY <2>1, Zenon DEF PeerReceives
    <3>2. p.frames \in SUBSET Nat /\ p.frames \subseteq Carried(sid)
      BY <1>0, InChain DEF ScidType, PktType
    <3>3. PeerStep(sid.known \cup p.frames, sid.uses, sid.back, sid.retires)
      BY <1>0, <3>1, Zenon DEF ScidType, PeerStep, PoolStep
    <3>4. sid.known \cup p.frames \in SUBSET Nat
      BY <1>0, <3>2
    <3>5. /\ sid.back \subseteq sid.known \cup p.frames /\ sid.retires \subseteq sid.back
          /\ sid.uses \in (sid.known \cup p.frames) \ sid.back
      <4>1. sid.uses \notin sid.back /\ sid.uses \in sid.known /\ sid.back \subseteq sid.known
            /\ sid.retires \subseteq sid.back
        BY <1>0 DEF ScidPool
      <4> QED
        BY <4>1
    <3> QED
      BY <1>0, <3>2, <3>3, <3>4, <3>5
  <2>2. CASE PeerMoves
    <3>1. PICK q \in PeerActive \ {sid.uses} :
             sid' = [sid EXCEPT !.uses = q, !.back = sid.back \cup {sid.uses},
                                !.retires = sid.retires \cup {sid.uses}]
      BY <2>2, Zenon DEF PeerMoves
    <3>2. q \in sid.known /\ q \notin sid.back /\ q # sid.uses /\ q \in Nat
      BY <1>0, <3>1 DEF PeerActive
    <3>3. PeerStep(sid.known, q, sid.back \cup {sid.uses}, sid.retires \cup {sid.uses})
      BY <1>0, <3>1, Zenon DEF ScidType, PeerStep, PoolStep
    <3>4. /\ sid.back \cup {sid.uses} \in SUBSET Nat /\ sid.retires \cup {sid.uses} \in SUBSET Nat
          /\ sid.back \cup {sid.uses} \subseteq sid.known
          /\ sid.retires \cup {sid.uses} \subseteq sid.back \cup {sid.uses}
          /\ q \in sid.known \ (sid.back \cup {sid.uses})
      BY <1>0, <3>2 DEF ScidPool
    <3> QED
      BY <1>0, <3>2, <3>3, <3>4, SMTT(60)
  <2>3. CASE PeerGivesBack
    <3>1. PICK q \in PeerActive \ {sid.uses} :
             sid' = [sid EXCEPT !.back = sid.back \cup {q}, !.retires = sid.retires \cup {q}]
      BY <2>3, Zenon DEF PeerGivesBack
    <3>2. q \in sid.known /\ q \notin sid.back /\ q # sid.uses /\ q \in Nat
      BY <1>0, <3>1 DEF PeerActive
    <3>3. PeerStep(sid.known, sid.uses, sid.back \cup {q}, sid.retires \cup {q})
      BY <1>0, <3>1, Zenon DEF ScidType, PeerStep, PoolStep
    <3>4. /\ sid.back \cup {q} \in SUBSET Nat /\ sid.retires \cup {q} \in SUBSET Nat
          /\ sid.back \cup {q} \subseteq sid.known
          /\ sid.retires \cup {q} \subseteq sid.back \cup {q}
          /\ sid.uses \in sid.known \ (sid.back \cup {q})
      BY <1>0, <3>2 DEF ScidPool
    <3> QED
      BY <1>0, <3>2, <3>3, <3>4
  <2> QED
    BY <2>1, <2>2, <2>3
<1>2. PoolStep(sid.gone, sid.retired, known, uses, back, retires)
  BY <1>1 DEF PeerStep
<1>3. PoolMoves(sid.gone, sid.retired, known, uses, back, retires)
  BY <1>0, <1>1 DEF ScidFrames, PoolMoves
<1>4. /\ sid' \in ScidType /\ sid'.gone = sid.gone /\ sid'.retired = sid.retired
      /\ sid'.known = known /\ sid'.uses = uses /\ sid'.back = back /\ sid'.retires = retires
      /\ sid'.last = sid.last /\ Pool(sid') = DOMAIN sid.gone
      /\ ~sid'.fault /\ ScidFrames(sid')
  BY <1>2, <1>3, OnlyPool
<1>5. Pool(sid') = Pool(sid) /\ Retired(sid') = Retired(sid)
  BY <1>0, <1>4 DEF Retired, Pool
<1>6. /\ Pool(sid') \subseteq 0 .. sid'.last /\ sid'.known \subseteq 0 .. sid'.last
  BY <1>0, <1>1, <1>4, <1>5, SMTT(60) DEF ScidPool, ScidFrames
<1>7. sid'.known \ sid'.back \subseteq Pool(sid')
  BY <1>0, <1>1, <1>4, <1>5 DEF ScidPool, ScidFrames
<1>8. /\ sid'.retires \subseteq sid'.back /\ sid'.back \subseteq sid'.known
      /\ sid'.uses \in sid'.known \ sid'.back /\ Retired(sid') \subseteq sid'.back
      /\ sid'.retired = Cardinality(Retired(sid'))
      /\ Cardinality(Pool(sid') \ Retired(sid')) <= CidLimit
  BY <1>0, <1>1, <1>4, <1>5 DEF ScidPool
<1>9. ScidPool(sid')
  BY <1>6, <1>7, <1>8 DEF ScidPool
<1> QED
  BY <1>4, <1>9 DEF ScidInv

\* conn_recv_retire_connection_id, also of a frame that comes again or late.
LEMMA RecvRetireOK ==
    ASSUME ScidInv, RecvRetire
    PROVE  ScidInv'
<1>0. /\ sid \in ScidType /\ ScidFrames(sid) /\ ScidPool(sid) /\ sid.gone \in PoolType
      /\ sid.gone \in [Pool(sid) -> BOOLEAN] /\ Pool(sid) \in SUBSET Nat
      /\ Pool(sid) = DOMAIN sid.gone /\ sid.retired \in Nat /\ Retired(sid) \subseteq Pool(sid)
      /\ sid.known \in SUBSET Nat /\ sid.uses \in Nat /\ sid.back \in SUBSET Nat
      /\ sid.retires \in SUBSET Nat /\ sid.last \in Nat /\ sid.fault = FALSE
      /\ IsFiniteSet(Pool(sid))
  BY ScidFields, Zenon
<1>1. PICK q \in sid.retires, again \in BOOLEAN :
         sid' = [RetireConnectionId(sid, q) EXCEPT !.retires = IF again THEN @ ELSE @ \ {q}]
  BY Zenon DEF RecvRetire
<1> DEFINE ret == IF again THEN sid.retires ELSE sid.retires \ {q}
<1>2. q \in sid.back /\ q \in sid.known /\ q \in Nat /\ q <= sid.last
  BY <1>0 DEF ScidPool
<1>3. ret \in SUBSET Nat /\ ret \subseteq sid.back
  BY <1>0 DEF ScidPool
<1>4. PICK g \in PoolType, r \in Nat :
         /\ PoolStep(g, r, sid.known, sid.uses, sid.back, ret)
         /\ DOMAIN g = Pool(sid) /\ r = Cardinality({x \in DOMAIN g : g[x]})
         /\ \A x \in DOMAIN g : sid.gone[x] => g[x]
         /\ \A x \in DOMAIN g : g[x] => sid.gone[x] \/ x = q
  <2>1. CASE q \notin Pool(sid)
    <3>1. ~(q > sid.last)
      BY <1>0, <1>2
    <3>2. RetireConnectionId(sid, q) = [sid EXCEPT !.fault = FALSE]
      BY <1>0, <2>1, <3>1, Zenon DEF RetireConnectionId
    <3>3. RetireConnectionId(sid, q) = sid
      BY <1>0, <3>2 DEF ScidType
    <3>4. sid' = [sid EXCEPT !.retires = ret]
      BY <1>1, <3>3
    <3> HIDE DEF ret
    <3>5. PoolStep(sid.gone, sid.retired, sid.known, sid.uses, sid.back, ret)
      BY <1>0, <3>4, Zenon DEF PoolStep, ScidType
    <3>6. sid.retired = Cardinality({x \in DOMAIN sid.gone : sid.gone[x]})
      BY <1>0 DEF ScidPool, Retired
    <3> QED
      BY <1>0, <3>5, <3>6, Zenon
  <2>2. CASE q \in Pool(sid)
    <3> DEFINE g == [sid.gone EXCEPT ![q] = TRUE]
               r == IF q \in Retired(sid) THEN sid.retired ELSE sid.retired + 1
    <3>1. RetireConnectionId(sid, q) = [sid EXCEPT !.gone = g, !.retired = r]
      BY <2>2 DEF RetireConnectionId
    <3>2. g \in [Pool(sid) -> BOOLEAN] /\ g[q] = TRUE /\ \A x \in Pool(sid) \ {q} : g[x] = sid.gone[x]
      BY <1>0, <2>2
    <3>3. g \in PoolType /\ DOMAIN g = Pool(sid)
      BY <1>0, <3>2 DEF PoolType
    <3>4. {x \in DOMAIN g : g[x]} = Retired(sid) \cup {q}
      BY <1>0, <2>2, <3>2, <3>3 DEF Retired
    <3>5. r \in Nat /\ r = Cardinality(Retired(sid) \cup {q})
      <4>1. IsFiniteSet(Retired(sid)) /\ sid.retired = Cardinality(Retired(sid))
        BY <1>0, FS_Subset DEF ScidPool
      <4>2. CASE q \in Retired(sid)
        <5>1. Retired(sid) \cup {q} = Retired(sid)
          BY <4>2
        <5> QED
          BY <1>0, <4>1, <4>2, <5>1, SMTT(60)
      <4>3. CASE q \notin Retired(sid)
        <5>1. Cardinality(Retired(sid) \cup {q}) = Cardinality(Retired(sid)) + 1
          BY <4>1, <4>3, FS_AddElement, Zenon
        <5> QED
          BY <1>0, <4>1, <4>3, <5>1
      <4> QED
        BY <4>2, <4>3
    <3> HIDE DEF g, r, ret
    <3>6. sid' = [sid EXCEPT !.gone = g, !.retired = r, !.retires = ret]
      BY <1>0, <1>1, <3>1 DEF ScidType, ret
    <3>7. PoolStep(g, r, sid.known, sid.uses, sid.back, ret)
      BY <1>0, <3>6, Zenon DEF PoolStep, ScidType
    <3>8. /\ \A x \in DOMAIN g : sid.gone[x] => g[x]
          /\ \A x \in DOMAIN g : g[x] => sid.gone[x] \/ x = q
      BY <3>2, <3>3
    <3> QED
      BY <3>3, <3>4, <3>5, <3>7, <3>8, Zenon
  <2> QED
    BY <2>1, <2>2, Zenon
<1> HIDE DEF ret
<1>5. PoolMoves(g, r, sid.known, sid.uses, sid.back, ret)
  BY <1>0, <1>3, <1>4, SMTT(60) DEF ScidFrames, PoolMoves
<1>6. /\ sid' \in ScidType /\ sid'.gone = g /\ sid'.retired = r
      /\ sid'.known = sid.known /\ sid'.uses = sid.uses /\ sid'.back = sid.back
      /\ sid'.retires = ret /\ sid'.last = sid.last /\ Pool(sid') = DOMAIN g
      /\ ~sid'.fault /\ ScidFrames(sid')
  BY <1>4, <1>5, OnlyPool
<1>7. Retired(sid') = {x \in DOMAIN g : g[x]}
  BY <1>6, SMTT(60) DEF Retired
<1>8. Pool(sid') = Pool(sid) /\ Retired(sid) \subseteq Retired(sid')
      /\ Retired(sid') \subseteq sid.back
  BY <1>0, <1>2, <1>4, <1>6, <1>7, SMTT(60) DEF Retired, ScidPool
<1>9. Cardinality(Pool(sid') \ Retired(sid')) <= CidLimit
  <2>1. Pool(sid') \ Retired(sid') \subseteq Pool(sid) \ Retired(sid)
    BY <1>8, SMTT(60)
  <2>2. IsFiniteSet(Pool(sid) \ Retired(sid))
    BY <1>0, FS_Subset
  <2>3. Cardinality(Pool(sid') \ Retired(sid')) <= Cardinality(Pool(sid) \ Retired(sid))
    BY <2>1, <2>2, FS_Subset
  <2>4. IsFiniteSet(Pool(sid') \ Retired(sid'))
    BY <2>1, <2>2, FS_Subset
  <2>5. /\ Cardinality(Pool(sid) \ Retired(sid)) \in Nat
        /\ Cardinality(Pool(sid') \ Retired(sid')) \in Nat
    BY <2>2, <2>4, FS_CardinalityType, SMTT(60)
  <2> QED
    BY <1>0, <2>3, <2>5, CidConstants DEF ScidPool
<1>10. ScidPool(sid')
  BY <1>0, <1>3, <1>4, <1>6, <1>7, <1>8, <1>9 DEF ScidPool
<1> QED
  BY <1>6, <1>10 DEF ScidInv

\* conn_remove_retired_connection_id.
LEMMA RemoveRetiredOK ==
    ASSUME ScidInv, RemoveRetired
    PROVE  ScidInv'
<1>0. /\ sid \in ScidType /\ ScidFrames(sid) /\ ScidPool(sid) /\ sid.gone \in PoolType
      /\ sid.gone \in [Pool(sid) -> BOOLEAN] /\ Pool(sid) \in SUBSET Nat
      /\ Pool(sid) = DOMAIN sid.gone /\ sid.retired \in Nat /\ Retired(sid) \subseteq Pool(sid)
      /\ sid.known \in SUBSET Nat /\ sid.uses \in Nat /\ sid.back \in SUBSET Nat
      /\ sid.retires \in SUBSET Nat /\ sid.last \in Nat /\ sid.fault = FALSE
      /\ IsFiniteSet(Pool(sid))
  BY ScidFields, Zenon
<1>1. PICK q \in Retired(sid) :
         sid' = [sid EXCEPT !.gone = [r \in Pool(sid) \ {q} |-> sid.gone[r]],
                            !.retired = sid.retired - 1,
                            !.fault = sid.fault \/ sid.retired = 0]
  BY <1>0, Zenon DEF RemoveRetired, ScidType
<1> DEFINE g == [x \in Pool(sid) \ {q} |-> sid.gone[x]]
           r == sid.retired - 1
<1>2. q \in sid.back /\ q \in sid.known /\ q \in Pool(sid)
  BY <1>0 DEF ScidPool
<1>3. /\ g \in [Pool(sid) \ {q} -> BOOLEAN] /\ DOMAIN g = Pool(sid) \ {q}
      /\ \A x \in Pool(sid) \ {q} : g[x] = sid.gone[x]
  BY <1>0
<1>4. g \in PoolType
  <2>1. Pool(sid) \ {q} \in SUBSET Nat
    BY <1>0
  <2> QED
    BY <1>3, <2>1, Zenon DEF PoolType
<1>5. /\ Cardinality(Retired(sid) \ {q}) = r /\ r \in Nat /\ sid.retired # 0
  <2>1. IsFiniteSet(Retired(sid)) /\ sid.retired = Cardinality(Retired(sid))
    BY <1>0, FS_Subset DEF ScidPool
  <2>2. IsFiniteSet(Retired(sid) \ {q}) /\ Cardinality(Retired(sid) \ {q}) = Cardinality(Retired(sid)) - 1
    BY <2>1, FS_RemoveElement
  <2>3. Cardinality(Retired(sid) \ {q}) \in Nat
    BY <2>2, FS_CardinalityType
  <2> QED
    BY <1>0, <2>1, <2>2, <2>3
<1>6. (sid.fault \/ sid.retired = 0) = sid.fault
  BY <1>0, <1>5, Zenon
<1>7. sid' = [sid EXCEPT !.gone = g, !.retired = r, !.fault = sid.fault]
  BY <1>1, <1>6, Zenon
<1> HIDE DEF g, r
<1>8. PoolStep(g, r, sid.known, sid.uses, sid.back, sid.retires)
  BY <1>0, <1>7, Zenon DEF PoolStep, ScidType
<1>9. PoolMoves(g, r, sid.known, sid.uses, sid.back, sid.retires)
  BY <1>0, <1>2, <1>3, <1>4, <1>5 DEF ScidFrames, PoolMoves
<1>10. /\ sid' \in ScidType /\ sid'.gone = g /\ sid'.retired = r
       /\ sid'.known = sid.known /\ sid'.uses = sid.uses /\ sid'.back = sid.back
       /\ sid'.retires = sid.retires /\ sid'.last = sid.last /\ Pool(sid') = DOMAIN g
       /\ ~sid'.fault /\ ScidFrames(sid')
  BY <1>8, <1>9, OnlyPool
<1>11. Pool(sid') = Pool(sid) \ {q} /\ Retired(sid') = Retired(sid) \ {q}
  <2>1. Pool(sid') = Pool(sid) \ {q}
    BY <1>3, <1>10
  <2>2. \A x : x \in Retired(sid') <=> x \in Pool(sid') /\ g[x]
    BY <1>10 DEF Retired
  <2>3. \A x : x \in Retired(sid) <=> x \in Pool(sid) /\ sid.gone[x]
    BY SMTT(60) DEF Retired
  <2> QED
    BY <1>3, <2>1, <2>2, <2>3
<1>12. Pool(sid') \ Retired(sid') = Pool(sid) \ Retired(sid)
  BY <1>1, <1>11, Zenon
<1>13. ScidPool(sid')
  BY <1>0, <1>2, <1>5, <1>10, <1>11, <1>12, SMTT(60) DEF ScidPool
<1> QED
  BY <1>10, <1>13, SMTT(60) DEF ScidInv

\* ngtcp2_conn_new, with or without a preferred address.
LEMMA InitScidOK ==
    ASSUME InitScid
    PROVE  ScidInv
<1>1. PICK preferred \in BOOLEAN : sid = NewScid(preferred)
  BY SMTT(60) DEF InitScid
<1>2. PICK given, last :
                      /\ (given = {0} /\ last = 0) \/ (given = {0, 1} /\ last = 1)
                      /\ sid = [gone |-> [q \in given |-> FALSE], last |-> last,
                                inflight |-> 0, retired |-> 0,
                                frq |-> {}, pkts |-> {}, acked |-> {}, fault |-> FALSE,
                                known |-> given, uses |-> 0, back |-> {}, retires |-> {}]
  <2>1. CASE preferred
    BY <1>1, <2>1, Zenon DEF NewScid
  <2>2. CASE ~preferred
    <3>1. preferred = FALSE
      BY <2>2
    <3>2. sid = NewScid(FALSE)
      BY <1>1, <3>1, Zenon
    <3>3. sid = [gone |-> [q \in {0} |-> FALSE], last |-> 0,
                 inflight |-> 0, retired |-> 0,
                 frq |-> {}, pkts |-> {}, acked |-> {}, fault |-> FALSE,
                 known |-> {0}, uses |-> 0, back |-> {}, retires |-> {}]
      BY <3>2 DEF NewScid
    <3> QED
      BY <3>3, Zenon
  <2> QED
    BY <2>1, <2>2, Zenon
<1>3. /\ given \in SUBSET Nat /\ last \in Nat /\ given \subseteq 0 .. last /\ 0 \in given
      /\ IsFiniteSet(given) /\ Cardinality(given) <= 2
  <2>1. IsFiniteSet({0}) /\ Cardinality({0}) = 1
    BY FS_Singleton, Zenon
  <2>2. IsFiniteSet({0} \cup {1}) /\ Cardinality({0} \cup {1}) = Cardinality({0}) + 1
    BY <2>1, FS_AddElement
  <2>3. {0, 1} = {0} \cup {1}
    OBVIOUS
  <2>4. CASE given = {0} /\ last = 0
    BY <2>1, <2>4
  <2>5. CASE given = {0, 1} /\ last = 1
    BY <2>1, <2>2, <2>3, <2>5
  <2> QED
    BY <1>2, <2>4, <2>5
<1> DEFINE g == [q \in given |-> FALSE]
<1>4. g \in [given -> BOOLEAN] /\ DOMAIN g = given /\ \A q \in given : ~g[q]
  OBVIOUS
<1>5. g \in PoolType
  BY <1>3, <1>4 DEF PoolType
<1> HIDE DEF g
<1>6. sid = [gone |-> g, last |-> last, inflight |-> 0, retired |-> 0,
             frq |-> {}, pkts |-> {}, acked |-> {}, fault |-> FALSE,
             known |-> given, uses |-> 0, back |-> {}, retires |-> {}]
  BY <1>2 DEF g
<1>7. /\ sid \in ScidType /\ ~sid.fault /\ sid.known = given /\ sid.last = last /\ sid.gone = g
      /\ sid.frq = {} /\ sid.pkts = {} /\ sid.acked = {} /\ sid.retires = {} /\ sid.back = {}
      /\ sid.uses = 0 /\ sid.inflight = 0 /\ sid.retired = 0
  BY <1>3, <1>5, <1>6 DEF ScidType
<1>8. Pool(sid) = given /\ Retired(sid) = {} /\ Carried(sid) = {}
  BY <1>4, <1>7 DEF Pool, Retired, Carried
<1>9. ScidFrames(sid)
  <2>1. Carried(sid) \ sid.acked = {} /\ Cardinality({}) = 0
    BY <1>8, FS_EmptySet
  <2> QED
    BY <1>7, <1>8, <2>1, CidConstants DEF ScidFrames
<1>10. ScidPool(sid)
  <2>1. Pool(sid) \ Retired(sid) = given /\ Cardinality(Retired(sid)) = 0
    BY <1>8, FS_EmptySet
  <2>2. Cardinality(given) <= CidLimit
    BY <1>3, CidConstants, FS_CardinalityType
  <2> QED
    BY <1>3, <1>7, <1>8, <2>1, <2>2 DEF ScidPool
<1> QED
  BY <1>7, <1>9, <1>10 DEF ScidInv

\* The pool of connection IDs keeps the invariant, whatever its size and the limit of
\* the peer are.
THEOREM ScidInductive == SpecScid => []ScidInv
<1>1. InitScid => ScidInv
  BY InitScidOK
<1>2. ScidInv /\ [NextScid]_sid => ScidInv'
  <2> SUFFICES ASSUME ScidInv, [NextScid]_sid PROVE ScidInv'
    OBVIOUS
  <2>1. CASE WriteNcid \/ LoseNcid \/ ProbeNcid
    BY <2>1, WriteNcidOK, RequeueNcid
  <2>2. CASE ExpireNcid \/ AckNcid
    BY <2>2, ExpireNcidOK, AckNcidOK
  <2>3. CASE RecvRetire \/ RemoveRetired
    BY <2>3, RecvRetireOK, RemoveRetiredOK
  <2>4. CASE PeerReceives \/ PeerMoves \/ PeerGivesBack
    BY <2>4, PeerScid
  <2>5. CASE UNCHANGED sid
    BY <2>5, SMTT(60) DEF ScidInv
  <2> QED
    BY <2>1, <2>2, <2>3, <2>4, <2>5 DEF NextScid
<1> QED
  BY <1>1, <1>2, PTL DEF SpecScid

\* conn_enqueue_new_connection_id, process_acked_pkt and conn_recv_retire_connection_id: no
\* assertion on the counters fails, the peer never holds more connection IDs than its
\* limit, the endpoint recognises all of them, and each one it does not know yet is on its
\* way, for every size of the pool.
THEOREM ScidAlwaysSound == SpecScid => []ScidSound
<1>1. ScidInv => ScidSound
  <2> SUFFICES ASSUME ScidInv PROVE ScidSound
    OBVIOUS
  <2>1. /\ ScidFrames(sid) /\ ScidPool(sid) /\ sid.fault = FALSE /\ IsFiniteSet(Pool(sid))
    BY ScidFields, Zenon
  <2>2. PeerActive \subseteq Pool(sid) \ Retired(sid)
    BY <2>1 DEF PeerActive, ScidPool
  <2>3. IsFiniteSet(Pool(sid) \ Retired(sid))
    BY <2>1, FS_Subset
  <2>4. /\ Cardinality(PeerActive) <= Cardinality(Pool(sid) \ Retired(sid))
        /\ IsFiniteSet(PeerActive)
    BY <2>2, <2>3, FS_Subset
  <2>5. Cardinality(PeerActive) \in Nat /\ Cardinality(Pool(sid) \ Retired(sid)) \in Nat
    BY <2>3, <2>4, FS_CardinalityType
  <2>6. Cardinality(PeerActive) <= CidLimit
    BY <2>1, <2>4, <2>5, CidConstants DEF ScidPool
  <2> QED
    BY <2>1, <2>2, <2>6 DEF ScidSound, ScidPool, ScidFrames
<1> QED
  BY <1>1, ScidInductive, PTL
=============================================================================
