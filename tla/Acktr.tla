------------------------------- MODULE Acktr -------------------------------
(***************************************************************************)
(* Received packets of the application packet number space: detection of   *)
(* duplicates, the ranges still to be acknowledged, when an ACK frame is   *)
(* due, what it says, and what is forgotten once the peer has acknowledged *)
(* an ACK.                                                                 *)
(* Source: lib/ngtcp2_acktr.c, lib/ngtcp2_gaptr.c, lib/ngtcp2_ringbuf.c    *)
(* and their callers in lib/ngtcp2_conn.c.                                 *)
(*                                                                         *)
(* A timestamp is represented by the packet whose reception set it.  The   *)
(* clock is abstracted to whether the ACK delay has elapsed since          *)
(* first_unacked_ts.  Only the packets sent with an ACK frame are counted  *)
(* in the sender's packet numbers.                                         *)
(***************************************************************************)
EXTENDS Integers, Sequences, FiniteSets, FiniteSetsExt

CONSTANTS
    MaxPktNum,      \* bound on the packet numbers of the peer
    MaxAcks,        \* bound on the number of ACK frames sent
    MaxAckRanges,   \* NGTCP2_MAX_ACK_RANGES
    MaxGaps,        \* the limit on pngap in pktns_commit_recv_pkt_num
    AckRing,        \* capacity of the ring buffer acks
    AckThresh       \* settings.ack_thresh

ASSUME AcktrConstants ==
    /\ {MaxPktNum, MaxAcks} \subseteq Nat
    /\ {MaxAckRanges, MaxGaps, AckRing, AckThresh} \subseteq Nat \ {0}

VARIABLES
    pngap,   \* pktns->rx.pngap: the packet numbers in its gaps
    elic,    \* pktns->rx.max_ack_eliciting_pkt_num
    ents,    \* acktr->ents
    acks,    \* acktr->acks.rb, newest first
    ack,     \* the other fields of ngtcp2_acktr
    due,     \* the ACK delay has elapsed since first_unacked_ts
    log      \* history: what was received, sent and confirmed

ackVars == <<pngap, elic, ents, acks, ack, due, log>>

PktNums == 0 .. MaxPktNum
MaxEnt == MaxAckRanges + 1

Largest(S) == IF S = {} THEN -1 ELSE Max(S)

\* ngtcp2_acktr_entry: len packets counted down from pkt_num.
Entry(p, n, ts) == [pkt_num |-> p, len |-> n, tstamp |-> ts]
Span(e) == (e.pkt_num - e.len + 1) .. e.pkt_num
Covered(E) == UNION {Span(e) : e \in E}

InitAcktr ==
    /\ pngap = PktNums
    /\ elic = -1
    /\ ents = {}
    /\ acks = <<>>
    /\ ack = [ active      |-> FALSE,   \* ACTIVE_ACK, first_unacked_ts is set
               immediate   |-> FALSE,   \* IMMEDIATE_ACK
               cancel      |-> FALSE,   \* CANCEL_TIMER
               rx_npkt     |-> 0,
               max_pkt_num |-> -1,
               max_pkt_ts  |-> -1 ]
    /\ due = FALSE
    /\ log = [ received  |-> {},    \* packets processed
               pending   |-> {},    \* ack-eliciting ones since the last ACK frame
               base      |-> -1,    \* elic at the last ACK frame
               evicted   |-> {},    \* dropped at the limit on ents
               sent      |-> <<>>,  \* the packets each ACK frame acknowledges
               confirmed |-> {} ]   \* ACK frames the peer has acknowledged

----------------------------------------------------------------------------
(* Duplicate detection *)

\* The gaps of pngap are the maximal runs of its numbers; the last one never ends.
GapStarts(G) == {p \in G \cup {MaxPktNum + 1} : p - 1 \notin G}

\* ngtcp2_gaptr_drop_first_gap
DropFirstGap(G) ==
    {p \in G : \E q \in Min(G) .. p : q \notin G}

\* Without the limit; and with the limit enforced instead of the push.
PushedUnbounded(G, p) == G \ {p}
PushedOrDropped(G, p) ==
    IF Cardinality(GapStarts(G \ {p})) > MaxGaps THEN DropFirstGap(G) ELSE G \ {p}

\* The number is taken out of its gap, and beyond the limit the first gap goes.
Pushed(G, p) ==
    LET G1 == G \ {p}
    IN  IF Cardinality(GapStarts(G1)) > MaxGaps THEN DropFirstGap(G1) ELSE G1

\* ngtcp2_gaptr_get_first_gap_after, as far as the caller looks at it: does the
\* first gap after the received packet begin below p?
GapBefore(G, after, p) == \E g \in G : after < g /\ g < p

----------------------------------------------------------------------------
(* The ranges to be acknowledged *)

Above(E, p) == {e \in E : e.pkt_num > p /\ \A f \in E : f.pkt_num > p => e.pkt_num <= f.pkt_num}
Below(E, p) == {e \in E : e.pkt_num <= p /\ \A f \in E : f.pkt_num <= p => f.pkt_num <= e.pkt_num}

\* Insertion without the merge of the two neighbours that the number connects.
AddedNoMerge(E, p) ==
    LET up   == {e \in Above(E, p) : e.pkt_num = p + e.len}
        down == {e \in Below(E, p) : e.pkt_num + 1 = p}
    IN  (E \ (IF up # {} THEN up ELSE down))
          \cup IF up # {} THEN {[e EXCEPT !.len = @ + 1] : e \in up}
               ELSE IF down # {} THEN {Entry(p, e.len + 1, p) : e \in down}
               ELSE {Entry(p, 1, p)}

\* ngtcp2_acktr_add: the number extends the entry above it or the entry below
\* it, connects the two, or becomes an entry of its own.
Added(E, p) ==
    LET up   == {e \in Above(E, p) : e.pkt_num = p + e.len}
        down == {e \in Below(E, p) : e.pkt_num + 1 = p}
        n    == SumSet({e.len : e \in down})
    IN  (E \ (up \cup down))
          \cup IF up # {} THEN {[e EXCEPT !.len = @ + n + 1] : e \in up}
                          ELSE {Entry(p, n + 1, p)}

\* Eviction at the wrong end.
EvictedNewest(E) ==
    IF Cardinality(E) <= MaxEnt THEN {}
    ELSE {e \in E : \A f \in E : f.pkt_num <= e.pkt_num}

\* The entry with the smallest numbers, once there are too many.
Evicted(E) ==
    IF Cardinality(E) <= MaxEnt THEN {}
    ELSE {e \in E : \A f \in E : e.pkt_num <= f.pkt_num}

\* Removal of every entry that reaches down to l.
ForgottenWhole(E, l) == {e \in E : e.pkt_num - e.len >= l}

\* acktr_on_ack: entries up to l are removed, an entry that reaches down to l is cut.
Forgotten(E, l) ==
    {IF e.pkt_num - e.len < l THEN [e EXCEPT !.len = e.pkt_num - l] ELSE e :
        e \in {f \in E : f.pkt_num > l}}

\* Any ACK of ours counts for the newest ACK frame.
NewestIfAny(A) == {i \in DOMAIN acks : i = 1 /\ A # {}}

\* ngtcp2_acktr_recv_ack walks the ring and the ranges of the frame side by side
\* and stops at the newest ACK frame whose packet is in A.
FirstAcked(A) ==
    {i \in DOMAIN acks : acks[i].pkt_num \in A
                         /\ \A j \in 1 .. i - 1 : acks[j].pkt_num \notin A}

----------------------------------------------------------------------------
(* ACK frames *)

\* The i-th entry from the newest, in which order ngtcp2_ksl_begin and _it_next
\* walk them.
EntryAt(i) == CHOOSE e \in ents : Cardinality({f \in ents : f.pkt_num >= e.pkt_num}) = i

\* The ranges of a frame; joined says that the first entry is part of its first
\* range.
Frame(joined) ==
    LET top == EntryAt(1)
        max == ack.max_pkt_num
        skip == IF joined THEN 1 ELSE 0
        R(i) == EntryAt(i + skip)
        low(e) == e.pkt_num - (e.len - 1)
        last(i) == IF i > 1 THEN low(R(i - 1)) ELSE IF joined THEN low(top) ELSE max
        num == Min({Cardinality(ents) - skip, MaxAckRanges})
    IN  [ largest_ack     |-> max,
          stamp           |-> IF top.pkt_num = max THEN top.tstamp ELSE ack.max_pkt_ts,
          first_ack_range |-> IF joined THEN max - low(top) ELSE 0,
          ranges          |-> [i \in 1 .. num |->
                                 [gap |-> last(i) - R(i).pkt_num - 2,
                                  len |-> R(i).len - 1]] ]

\* Without the case of an entry that ends just below the largest packet.
CreateNotAdjacent == Frame(ack.max_pkt_num \in Covered(ents))

\* ngtcp2_acktr_create_ack_frame.  The largest packet received is reported even
\* when its entry has been forgotten.
CreateAckFrame == Frame(\E e \in ents : e.pkt_num >= ack.max_pkt_num - 1)

\* What the peer reads in a frame (RFC 9000, section 19.3.1; the same walk is in
\* ngtcp2_acktr_recv_ack): each range counts down from the end of the one before.
Acknowledges(fr) ==
    LET smallest[i \in 0 .. Len(fr.ranges)] ==
            IF i = 0 THEN fr.largest_ack - fr.first_ack_range
            ELSE smallest[i - 1] - fr.ranges[i].gap - 2 - fr.ranges[i].len
        largest(i) == smallest[i] + IF i = 0 THEN fr.first_ack_range ELSE fr.ranges[i].len
    IN  UNION {smallest[i] .. largest(i) : i \in 0 .. Len(fr.ranges)}

----------------------------------------------------------------------------
(* Operations *)

\* The rules of pktns_commit_recv_pkt_num on an ack-eliciting packet out of order.
OutOfOrder(p, G) ==
    /\ elic # -1
    /\ \/ p < elic
       \/ p # elic + 1 /\ GapBefore(G, elic, p)

\* One packet late.
ThreshOffByOne(npkt) == npkt > AckThresh
\* conn_recv_pkt: enough ack-eliciting packets for an ACK frame at once.
ThreshReached(npkt) == npkt >= AckThresh

\* conn_recv_pkt for packet p: require_ack, marked CE, and with an ACK frame for
\* the packets A of ours (with none when A is empty).  The frame is processed
\* first (a new RTT sample may lengthen the ACK delay, see conn_compute_ack_delay),
\* the number is committed last.
RecvPkt(p, require_ack, ce, A) ==
    LET won   == FirstAcked(A)
        kept  == IF won = {} THEN ents
                 ELSE Forgotten(ents, acks[Min(won)].largest_ack)
        G     == Pushed(pngap, p)
        all   == Added(kept, p)
        gone  == Evicted(all)
        npkt  == IF require_ack THEN ack.rx_npkt + 1 ELSE ack.rx_npkt
    IN  /\ p \in pngap     \* pktns_pkt_num_is_duplicate
        /\ pngap' = G
        /\ elic' = IF require_ack THEN Max({elic, p}) ELSE elic
        /\ acks' = IF won = {} THEN acks ELSE SubSeq(acks, 1, Min(won) - 1)
        /\ ents' = all \ gone
        /\ ack' = [ack EXCEPT
               !.active      = @ \/ require_ack,
               !.immediate   = \/ @
                               \/ /\ require_ack
                                  /\ OutOfOrder(p, G) \/ ThreshReached(npkt) \/ ce,
               !.rx_npkt     = npkt,
               !.max_pkt_num = Max({@, p}),
               !.max_pkt_ts  = IF ack.max_pkt_num < p THEN p ELSE @]
        /\ due' \in IF A = {} THEN {due} ELSE {due, FALSE}
        /\ log' = [log EXCEPT
               !.received  = @ \cup {p},
               !.pending   = IF require_ack THEN @ \cup {p} ELSE @,
               !.evicted   = @ \cup Covered(gone),
               !.confirmed = @ \cup A]

\* ngtcp2_acktr_commit_ack that leaves the count.
CommitKeepsCount == [ack EXCEPT !.active = FALSE, !.immediate = FALSE, !.cancel = FALSE]
\* ngtcp2_acktr_commit_ack
CommitAck ==
    [ack EXCEPT !.active = FALSE, !.immediate = FALSE, !.cancel = FALSE, !.rx_npkt = 0]

\* ngtcp2_acktr_add_ack at the wrong end of the ring.
AddAckBack(n, l) ==
    LET s == Append(acks, [pkt_num |-> n, largest_ack |-> l])
    IN  SubSeq(s, 1, Min({Len(s), AckRing}))
\* ngtcp2_acktr_add_ack: a full ring loses its oldest element.
AddAck(n, l) ==
    LET s == <<[pkt_num |-> n, largest_ack |-> l]>> \o acks
    IN  SubSeq(s, 1, Min({Len(s), AckRing}))

\* A packet is written (conn_write_pkt, conn_write_ack_pkt): with an ACK frame
\* when one is due, in the packet with the next number.
WriteAck ==
    /\ Len(log.sent) < MaxAcks
    /\ ack.active /\ (ack.immediate \/ due)
    /\ ack' = CommitAck
    /\ due' = FALSE
    /\ IF ents = {}
       THEN UNCHANGED <<acks, log>>
       ELSE LET fr == CreateAckFrame
            IN  /\ acks' = AddAck(Len(log.sent) + 1, fr.largest_ack)
                /\ log' = [log EXCEPT !.sent = Append(@, Acknowledges(fr)),
                                      !.pending = {}, !.base = elic]
    /\ UNCHANGED <<pngap, elic, ents>>

\* Time passes until the delay since first_unacked_ts has elapsed.
DelayElapses ==
    /\ ack.active /\ ~due
    /\ due' = TRUE
    /\ UNCHANGED <<pngap, elic, ents, acks, ack, log>>

\* ngtcp2_conn_cancel_expired_ack_delay_timer (from ngtcp2_conn_handle_expiry)
CancelExpiredAckDelayTimer ==
    /\ ~ack.cancel /\ ack.active /\ due
    /\ ack' = [ack EXCEPT !.cancel = TRUE]
    /\ UNCHANGED <<pngap, elic, ents, acks, due, log>>

NextAcktr ==
    \/ \E p \in PktNums, require_ack, ce \in BOOLEAN, A \in SUBSET (1 .. Len(log.sent)) :
          RecvPkt(p, require_ack, ce, A)
    \/ WriteAck
    \/ DelayElapses
    \/ CancelExpiredAckDelayTimer

SpecAcktr == InitAcktr /\ [][NextAcktr]_ackVars

----------------------------------------------------------------------------
(* Properties *)

\* The state has the types of the C fields, within their limits
\* (NGTCP2_ACKTR_MAX_ENT entries, 256 gaps, the ring's capacity).
TypeOK ==
    /\ pngap \subseteq PktNums /\ Cardinality(GapStarts(pngap)) <= MaxGaps
    /\ elic \in -1 .. MaxPktNum
    /\ ents \subseteq [pkt_num : PktNums, len : 1 .. MaxPktNum + 1, tstamp : PktNums]
    /\ Cardinality(ents) <= MaxEnt
    /\ acks \in Seq([pkt_num : 1 .. MaxAcks, largest_ack : PktNums]) /\ Len(acks) <= AckRing
    /\ ack.rx_npkt \in Nat /\ ack.max_pkt_num \in -1 .. MaxPktNum
    /\ due \in BOOLEAN

\* A packet number is never processed twice, however many gaps were dropped.
\* No number that may still be committed is in an entry, which is what
\* ngtcp2_acktr_add assumes and asserts.
NoDuplicates == pngap \cap (log.received \cup Covered(ents)) = {}

\* The entries are separate ranges with a packet missing between any two, made of
\* received packets, each with the timestamp of its largest packet: the assertions
\* of ngtcp2_acktr_add, through merges, trimming and eviction in any order.
EntriesSound ==
    /\ Covered(ents) \subseteq log.received
    /\ \A e, f \in ents : e.pkt_num >= f.pkt_num /\ e # f => e.pkt_num - e.len > f.pkt_num
    /\ \A e \in ents : e.tstamp = e.pkt_num

\* A packet is forgotten only below an ACK frame the peer is known to have, or at
\* the limit on entries: acktr_on_ack must not lose newer packets, whichever ACK
\* frames were lost, and whatever older ones the ring has dropped.
NewestNotForgotten ==
    \A p \in log.received \ log.evicted :
        p \in Covered(ents) \/ \E t \in log.confirmed : p <= Largest(log.sent[t])

\* At the limit on entries a packet gives way only to newer ones: what a step
\* evicts is older than everything that stays tracked, also when the packet just
\* received is itself the oldest.
EvictsOldest ==
    [][\A p \in log'.evicted \ log.evicted, q \in Covered(ents') : p < q]_ackVars

\* The ring holds ACK frames in sending order with largest_ack in the same order:
\* acktr_on_ack may therefore drop every element behind the one acknowledged.
RingOrdered ==
    \A i, j \in DOMAIN acks : i < j =>
        /\ acks[i].pkt_num > acks[j].pkt_num
        /\ acks[i].largest_ack >= acks[j].largest_ack

\* The frame that can be created in this state tells the truth, all of it: every
\* gap and length is a natural number (they are unsigned), what the peer reads is
\* received, and it includes every entry unless the range limit cuts off the oldest.
\* The delay is measured from the arrival of the largest packet.
FrameTruthful ==
    ents # {} =>
        LET fr == CreateAckFrame IN
        /\ fr.first_ack_range >= 0
        /\ \A i \in DOMAIN fr.ranges : fr.ranges[i].gap >= 0 /\ fr.ranges[i].len >= 0
        /\ fr.largest_ack = Max(log.received) /\ fr.stamp = fr.largest_ack
        /\ Acknowledges(fr) \subseteq log.received
        /\ LET left == {e \in ents : ~(Span(e) \subseteq Acknowledges(fr))}
           IN  Cardinality(left) <= 1
               /\ \A e \in left, f \in ents : e.pkt_num <= f.pkt_num
               /\ left # {} => Cardinality(ents) = MaxEnt

\* While an ACK is pending there is something to acknowledge, so that the early
\* return of ngtcp2_acktr_create_ack_frame that commits without a frame is not
\* taken; and nothing is left over from the ACK frame before (commit_ack): flags
\* and rx_npkt speak of the packets received since.
PendingMatches ==
    /\ ack.active <=> log.pending # {}
    /\ ack.active => ents # {}
    /\ ack.immediate \/ ack.cancel \/ due => ack.active
    /\ ack.rx_npkt = Cardinality(log.pending)

\* An ACK is held back only while everything looks in order: fewer than ack_thresh
\* packets are pending, all newer than those of the last ACK frame, and no packet is
\* missing between them.
HeldBackInOrder ==
    ack.active /\ ~ack.immediate =>
        LET from == IF log.base = -1 THEN Min(log.pending) ELSE log.base
        IN  /\ Cardinality(log.pending) < AckThresh
            /\ \A p \in log.pending : p >= from
            /\ \A g \in pngap : ~(from < g /\ g < elic)

\* The peer never acknowledges an ACK into forgetting: an ACK frame sent later
\* acknowledges everything an earlier one did that is newer than the newest
\* confirmed ACK frame, so that losing ACK frames loses no information.
\* (Packets evicted at the limit excepted.)
LaterAcksSayMore ==
    \A t \in DOMAIN log.sent : t = Len(log.sent) =>
        \A u \in 1 .. t - 1 : \A p \in log.sent[u] \ log.evicted :
            p \in log.sent[t] \/ \E c \in log.confirmed : p <= Largest(log.sent[c])

\* A pending ACK is never without a trigger: its timer is armed
\* (ngtcp2_conn_ack_delay_expiry), or an ACK frame is due with the next packet.
AckHasTrigger == ack.active /\ ack.cancel => due \/ ack.immediate

\* What the tracker knows of the received packets is right: ngtcp2_acktr_add,
\* acktr_on_ack and pktns_commit_recv_pkt_num, in any order of arrivals, losses of
\* ACK frames and evictions.
RangesSound ==
    TypeOK /\ NoDuplicates /\ EntriesSound /\ RingOrdered

\* What ngtcp2_acktr_create_ack_frame would say now is true and complete, the
\* ACK frames that were sent take nothing back, and those that were confirmed
\* (acktr_on_ack) make the tracker forget nothing newer.
AckFramesTruthful == FrameTruthful /\ NewestNotForgotten /\ LaterAcksSayMore

\* An ACK is pending exactly when ack-eliciting packets wait for one, and it is
\* held back only while nothing is out of order.
PendingSound == PendingMatches /\ HeldBackInOrder
=============================================================================
