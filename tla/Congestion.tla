----------------------------- MODULE Congestion -----------------------------
(***************************************************************************)
(* Congestion control of one packet number space: the window algorithms    *)
(* of ngtcp2_cc.c (New Reno and CUBIC with HyStart++), driven the way      *)
(* ngtcp2_rtb.c drives them: packets enter the retransmission buffer, an   *)
(* ACK removes them, feeds the rate sample of ngtcp2_rst.c and the RTT     *)
(* estimate, may undo a spurious congestion event, declares other packets  *)
(* lost and only then grows the window, all in one call.                   *)
(*                                                                         *)
(* Every data packet is Mss bytes.  Time is in ticks of an eighth of a     *)
(* second, and the fixed-point shifts of CUBIC (<<10, <<30) are scaled to  *)
(* match (<<3, <<9).  Timestamps are unsigned and wrap at Inf + 1.         *)
(***************************************************************************)
EXTENDS Integers, Sequences, FiniteSets, FiniteSetsExt, SequencesExt, TLC

CONSTANTS
  Algos,          \* subset of {"reno", "cubic"}: what settings.cc_algo may say
  Mss,            \* max_tx_udp_payload_size, in the model's bytes
  InitPkts,       \* initial congestion window, in packets (10 in the code)
  InitialRtt,     \* settings.initial_rtt, in ticks
  Start,          \* the clock when the connection starts
  Steps,          \* how far apart two events may be
  MaxTs,          \* bound: the clock stops here
  MaxPkts,        \* bound: packets sent
  Extra,          \* bound: PMTUD probes, skipped numbers, path changes and idle
                  \* spells of the application
  Bursts,         \* how many packets the application writes at once
  AckSizes,       \* how many packets one ACK newly acknowledges
  HsSamples,      \* NGTCP2_HS_N_RTT_SAMPLE (8 in the code)
  HsRounds        \* NGTCP2_HS_CSS_ROUNDS (5 in the code)

Inf == 1048575                 \* UINT64_MAX
Sub(a, b) == (a - b) % (Inf + 1)
Least(a, b) == IF a < b THEN a ELSE b
Most(a, b) == IF a < b THEN b ELSE a

PktThreshold == 3              \* NGTCP2_PKT_THRESHOLD
MaxPktThreshold == 256
Granularity == 1               \* NGTCP2_GRANULARITY, in ticks
Shift == 8                     \* 1 << 10 in the code
MaxTimeDelta == 10 * Shift     \* 3600 << 10 in the code
HsMinThresh == 1               \* NGTCP2_HS_MIN_RTT_THRESH, in ticks
HsMaxThresh == 2

VARIABLE cc

-----------------------------------------------------------------------------
(* The cube root by digits, for arguments below 2^30 (2^64 in the code).   *)

CbrtTop == 27

RECURSIVE CbrtFrom(_, _, _)
CbrtFrom(n, y, s) ==
  LET y2 == 2 * y
      b == 3 * y2 * (y2 + 1) + 1
      take == n \div (2 ^ s) >= b
  IN  IF s = 0 THEN IF n >= b THEN y2 + 1 ELSE y2
      ELSE CbrtFrom(IF take THEN n - b * 2 ^ s ELSE n,
                    IF take THEN y2 + 1 ELSE y2, s - 3)

Cbrt(n) == CbrtFrom(n, 0, CbrtTop)

-----------------------------------------------------------------------------
(* The state of one connection. *)

NoCubicVars == [prior |-> 0, wmax |-> 0, k |-> 0, epoch |-> Inf, west |-> 0,
                als |-> Inf, ald |-> 0, pba |-> 0, peba |-> 0]

NoUndo == [v |-> NoCubicVars, cwnd |-> 0, ssthresh |-> 0]

NoHyStart == [cur |-> Inf, last |-> Inf, n |-> 0, base |-> Inf, css |-> 0]

RstReset(c) == [c EXCEPT !.delivered = 0, !.applim = 0, !.cwndlim = FALSE,
                         !.rs = [pd |-> 0, sampled |-> FALSE, del |-> 0,
                                 app |-> FALSE, id |-> -1]]

CubicReset(c) == [c EXCEPT !.cur = NoCubicVars, !.undo = NoUndo,
                           !.hs = NoHyStart, !.nextround = 0]

CcReset(c) == IF c.algo = "cubic" THEN CubicReset(c) ELSE [c EXCEPT !.pend = 0]

ResetConnStatCc(c) ==
  [c EXCEPT !.latest = 0, !.minrtt = Inf, !.srtt = InitialRtt,
            !.rttvar = InitialRtt \div 2, !.first = Inf,
            !.cwnd = InitPkts * Mss, !.ssthresh = Inf, !.rec = Inf, !.bif = 0]

CongInit ==
  \E a \in Algos :
    cc = RstReset(CcReset(ResetConnStatCc(
      [algo |-> a, now |-> Start, next |-> 0, ents |-> <<>>, largest |-> -1,
       ccpn |-> 0, bif |-> 0, cbif |-> 0, nlost |-> 0, nign |-> 0,
       losstime |-> Inf, latest |-> 0, minrtt |-> Inf, srtt |-> 0,
       rttvar |-> 0, first |-> Inf, cwnd |-> 0, ssthresh |-> Inf, rec |-> Inf,
       delivered |-> 0, applim |-> 0, cwndlim |-> FALSE, rs |-> <<>>,
       cur |-> NoCubicVars, undo |-> NoUndo, hs |-> NoHyStart,
       nextround |-> 0, pend |-> 0,
       extra |-> 0, before |-> 0, short |-> FALSE, ok |-> TRUE])))

Require(c, p) == [c EXCEPT !.ok = @ /\ p]      \* assert(p)

-----------------------------------------------------------------------------
(* The congestion controllers. *)

InRecovery(c, sent) == c.rec # Inf /\ sent <= c.rec

RenoOnPktAcked(c, e) ==
  LET m == Mss * e.len + c.pend IN
  IF InRecovery(c, e.ts) \/ e.app THEN c
  ELSE IF c.cwnd < c.ssthresh THEN [c EXCEPT !.cwnd = @ + e.len]
  ELSE [c EXCEPT !.pend = m % c.cwnd, !.cwnd = @ + (m \div c.cwnd)]

RenoCongestionEvent(c) ==
  LET w == Most(c.cwnd \div 2, 2 * Mss) IN
  [c EXCEPT !.rec = c.now, !.cwnd = w, !.ssthresh = w, !.pend = 0]

WCubic(c, ts) ==
  LET t == Sub(ts, c.cur.epoch)
      neg == t < c.cur.k
      d == Least(IF neg THEN c.cur.k - t ELSE t - c.cur.k, MaxTimeDelta)
      cube == (((d * d) \div Shift) * d) \div Shift
      delta == ((cube * Mss * 4) \div 10) \div Shift
  IN  IF neg THEN Most(c.cur.wmax - delta, 0) ELSE c.cur.wmax + delta

\* HyStart++: how slow start watches the round-trip time.
HyStart(c, rtt, round) ==
  LET h0 == IF round
            THEN [c.hs EXCEPT !.last = c.hs.cur, !.cur = Inf, !.n = 0,
                              !.css = IF @ > 0 THEN @ + 1 ELSE 0]
            ELSE c.hs
      h == [h0 EXCEPT !.cur = Least(@, rtt), !.n = Least(@ + 1, HsSamples)]
      thresh == Most(HsMinThresh, Least(h.last \div 8, HsMaxThresh))
      c1 == [c EXCEPT !.hs = h]
  IN  IF h.css > 0
      THEN IF h.cur < h.base
           THEN [c EXCEPT !.hs = [h EXCEPT !.base = Inf, !.css = 0]]
           ELSE IF h.css >= HsRounds
           THEN [c1 EXCEPT !.cur = [@ EXCEPT !.epoch = c.now, !.wmax = c.cwnd,
                                       !.prior = c.cwnd, !.west = c.cwnd],
                           !.ssthresh = c.cwnd]
           ELSE c1
      ELSE IF /\ h.n >= HsSamples
              /\ h.cur # Inf
              /\ h.last # Inf
              /\ h.cur >= h.last + thresh
      THEN [c EXCEPT !.hs = [h EXCEPT !.base = h.cur, !.css = 1]]
      ELSE c1

SlowStart(c, bytes, rtt, round, applim) ==
  LET grow == IF c.hs.css > 0 THEN bytes \div 4 ELSE bytes IN
  HyStart(IF applim THEN c ELSE [c EXCEPT !.cwnd = @ + grow], rtt, round)

CubicAvoidance(c0, bytes) ==
  LET v0 == c0.cur
      c == IF v0.als = Inf THEN c0
           ELSE [c0 EXCEPT !.cur.ald = @ + (c0.now - v0.als), !.cur.als = Inf]
      v == c.cur
      w == WCubic(c, Sub(c.now, v.ald))
      wnext == WCubic(c, Sub(c.now, v.ald) + c.srtt)
      target == IF wnext < c.cwnd THEN c.cwnd
                ELSE IF 2 * wnext > 3 * c.cwnd THEN (c.cwnd * 3) \div 2
                ELSE wnext
      acked == bytes * Mss + v.peba
      m == acked \div c.cwnd
      west == v.west + IF v.west < v.prior THEN (m * 9) \div 17 ELSE m
      goal == (target - c.cwnd) * Mss + v.pba
      c1 == Require([c EXCEPT !.cur.peba = acked - m * c.cwnd, !.cur.west = west],
                    acked - m * c.cwnd < c.cwnd)
  IN  IF west > w THEN [c1 EXCEPT !.cwnd = west]
      ELSE Require([c1 EXCEPT !.cur.pba = goal % c.cwnd,
                              !.cwnd = @ + (goal \div c.cwnd)],
                   goal >= 0)

CubicOnAckRecv(c, a) ==
  LET applim == c.rs.app /\ ~c.cwndlim
      round == a.pktdelivered >= c.nextround
      c1 == IF round THEN [c EXCEPT !.nextround = c.delivered, !.cwndlim = FALSE]
            ELSE c
  IN  IF a.bytes = 0 \/ InRecovery(c, a.sent) THEN c
      ELSE IF c.cwnd < c.ssthresh THEN SlowStart(c1, a.bytes, a.rtt, round, applim)
      ELSE IF applim
      THEN [c1 EXCEPT !.cur.als = IF @ = Inf THEN c.now ELSE @]
      ELSE CubicAvoidance(c1, a.bytes)

\* A mutant: the state to restore is the one before the latest reduction.
SaveUndoAlways(c) == [v |-> c.cur, cwnd |-> c.cwnd, ssthresh |-> c.ssthresh]

SaveUndo(c) ==
  IF c.undo.cwnd < c.cwnd
  THEN [v |-> c.cur, cwnd |-> c.cwnd, ssthresh |-> c.ssthresh]
  ELSE c.undo

WMax(c) ==
  Most(IF c.cwnd < c.cur.wmax THEN (c.cwnd * 17) \div 20 ELSE c.cwnd, 2 * Mss)

CubicCongestionEvent(c, lost) ==
  LET wmax == WMax(c)
      th == (c.cwnd * 7) \div 10
      th2 == IF c.rs.del * 2 < c.cwnd
             THEN Least(th, Most(c.rs.del, c.bif + lost)) ELSE th
      w == Most(th2, 2 * Mss)
  IN  Require([c EXCEPT
        !.undo = SaveUndo(c), !.rec = c.now, !.ssthresh = w, !.cwnd = w,
        !.cur = [NoCubicVars EXCEPT
                   !.epoch = c.now, !.wmax = wmax, !.prior = c.cwnd, !.west = w,
                   !.k = Cbrt(((Most(wmax - w, 0) * Shift * Shift * Shift * 10)
                                 \div 4) \div Mss)]],
        wmax >= w)

CongestionEvent(c, sent, lost) ==
  LET c1 == [c EXCEPT !.before = Most(@, c.cwnd)] IN
  IF InRecovery(c, sent) THEN c
  ELSE IF c.algo = "reno" THEN RenoCongestionEvent(c1)
  ELSE CubicCongestionEvent(c1, lost)

OnSpuriousCongestion(c) ==
  LET c1 == [c EXCEPT !.rec = Inf, !.undo = NoUndo, !.before = 0,
                      !.short = @ \/ Most(c.cwnd, c.undo.cwnd) < c.before]
  IN
  IF c.cwnd < c.undo.cwnd
  THEN [c1 EXCEPT !.cur = c.undo.v, !.cwnd = c.undo.cwnd,
                  !.ssthresh = c.undo.ssthresh]
  ELSE c1

OnPersistentCongestion(c) ==
  [(IF c.algo = "cubic" THEN CubicReset(c) ELSE c)
     EXCEPT !.cwnd = 2 * Mss, !.rec = Inf, !.before = 0]

-----------------------------------------------------------------------------
(* The retransmission buffer, as far as congestion control sees it. *)

Ignored(e) == e.kind \in {"probe", "skip"}

Pto(c) == c.srtt + Most(4 * c.rttvar, Granularity)

Thres(c) == Least(Most((c.cbif \div Mss) \div 2, PktThreshold), MaxPktThreshold)

Descending(S) == SetToSortSeq(S, LAMBDA a, b : a > b)

Ascending(S) == SetToSortSeq(S, LAMBDA a, b : a < b)

Without(f, k) == [x \in DOMAIN f \ {k} |-> f[x]]

\* ngtcp2_rtb_add: the entry takes its snapshot of the rate sampler.
AddEnt(c, kind) ==
  LET len == IF kind = "skip" THEN 0 ELSE Mss
      e == [ts |-> c.now, len |-> len, kind |-> kind, del |-> c.delivered,
            app |-> c.applim # 0, lost |-> FALSE, lts |-> Inf]
  IN  [Require(c, c.ccpn <= c.next) EXCEPT
         !.ents = (c.next :> e) @@ @, !.next = @ + 1,
         !.bif = @ + len, !.cbif = @ + len]

\* A mutant: packets of the path before are taken off the new path's bytes.
OnRemoveAnyPath(c, k) ==
  LET e == c.ents[k] IN
  IF e.lost
  THEN Require([c EXCEPT !.nlost = @ - 1,
                         !.nign = IF Ignored(e) THEN @ - 1 ELSE @],
               c.nlost > 0 /\ (Ignored(e) => c.nign > 0))
  ELSE Require([c EXCEPT !.bif = @ - e.len, !.cbif = @ - e.len],
               c.bif >= e.len /\ c.cbif >= e.len)

OnRemove(c, k) ==
  LET e == c.ents[k] IN
  IF e.lost
  THEN Require([c EXCEPT !.nlost = @ - 1,
                         !.nign = IF Ignored(e) THEN @ - 1 ELSE @],
               c.nlost > 0 /\ (Ignored(e) => c.nign > 0))
  ELSE IF c.ccpn <= k
  THEN Require([c EXCEPT !.bif = @ - e.len, !.cbif = @ - e.len],
               c.bif >= e.len /\ c.cbif >= e.len)
  ELSE c

\* What the caller of rtb_on_remove is told was lost.
BytesLost(c, k) ==
  IF c.ccpn <= k /\ c.ents[k].kind # "probe" THEN c.ents[k].len ELSE 0

OnPktLost(c, k) ==
  [c EXCEPT !.nign = IF Ignored(c.ents[k]) THEN @ + 1 ELSE @,
            !.nlost = @ + 1,
            !.ents = (k :> [c.ents[k] EXCEPT !.lost = TRUE, !.lts = c.now]) @@ @]

UpdateRtt(c, rtt) ==
  IF c.minrtt = Inf
  THEN [c EXCEPT !.latest = rtt, !.minrtt = rtt, !.srtt = rtt,
                 !.rttvar = rtt \div 2, !.first = c.now]
  ELSE LET diff == IF c.srtt < rtt THEN rtt - c.srtt ELSE c.srtt - rtt IN
       [c EXCEPT !.latest = rtt, !.minrtt = Least(@, rtt),
                 !.rttvar = (@ * 3 + diff) \div 4,
                 !.srtt = (@ * 7 + rtt) \div 8]

\* ngtcp2_rst_update_rate_sample, then the controller's own handler.
OnPktAcked(c, k) ==
  LET e == c.ents[k]
      rs == IF ~c.rs.sampled \/ k > c.rs.id
            THEN [c.rs EXCEPT !.pd = e.del, !.sampled = TRUE, !.app = e.app,
                              !.id = k]
            ELSE c.rs
      c1 == [c EXCEPT !.delivered = @ + e.len, !.rs = rs]
  IN  IF c.algo = "reno" THEN RenoOnPktAcked(c1, e) ELSE c1

RstOnAckRecv(c) ==
  LET c1 == IF c.applim # 0 /\ c.delivered > c.applim
            THEN [c EXCEPT !.applim = 0] ELSE c
  IN  IF c.rs.sampled THEN [c1 EXCEPT !.rs.del = c.delivered - c.rs.pd] ELSE c1

RECURSIVE RemoveOldestLost(_, _)
RemoveOldestLost(c, n) ==
  IF n = 0 THEN c
  ELSE LET k == Min(DOMAIN c.ents)
           e == c.ents[k]
       IN  RemoveOldestLost(
             Require([c EXCEPT !.nlost = @ - 1,
                               !.nign = IF Ignored(e) THEN @ - 1 ELSE @,
                               !.ents = Without(@, k)], e.lost), n - 1)

-----------------------------------------------------------------------------
(* rtb_detect_lost_pkt *)

LossDelay(c) == Most((Most(c.latest, c.srtt) * 9) \div 8, Granularity)

PktLost(c, k) ==
  \/ c.ents[k].ts + LossDelay(c) <= c.now
  \/ c.largest >= k + Thres(c)

\* From the first lost packet on, every older one is lost too; the ones lost
\* before are walked only to measure how long the loss has lasted.
RECURSIVE LoseFrom(_, _, _, _)
LoseFrom(c, q, run, p) ==
  IF q = <<>> THEN [c |-> c, run |-> run]
  ELSE LET k == Head(q)
           e == c.ents[k]
           chained == run.last = k + 1 /\ e.ts >= p.start
           run1 == [run EXCEPT !.last = IF chained THEN k ELSE -1,
                               !.oldest = IF chained THEN e.ts ELSE @]
           stop == run1.last = -1 \/ p.latest - run1.oldest >= p.period
       IN  IF e.lost
           THEN IF stop THEN [c |-> c, run |-> run1]
                ELSE LoseFrom(c, Tail(q), run1, p)
           ELSE LoseFrom(OnPktLost(OnRemove(c, k), k), Tail(q),
                         [run1 EXCEPT !.bytes = @ + BytesLost(c, k)], p)

PersistentCongestion(c) ==
  OnPersistentCongestion(
    [c EXCEPT !.minrtt = Inf, !.srtt = InitialRtt,
              !.rttvar = InitialRtt \div 2, !.first = Inf])

DetectLostPkt(c0) ==
  LET thres == Thres(c0)
      c == [c0 EXCEPT !.losstime = Inf]
      below == {k \in DOMAIN c.ents : k <= c.largest}
      firstlost == Max({-1} \cup {k \in below : c.ents[k].lost})
      live == {k \in below : k > firstlost}
      found == {k \in live : PktLost(c, k)}
      first == Max(found)
      waiting == {k \in live : found = {} \/ k > first}
      c1 == IF waiting = {} THEN c
            ELSE [c EXCEPT !.losstime =
                    Min({c.ents[k].ts + LossDelay(c) : k \in waiting})]
      p == [start |-> c.first, latest |-> c.ents[first].ts, period |-> 3 * Pto(c)]
      r == LoseFrom(c1, Descending({k \in below : k <= first}),
                    [last |-> first + 1, oldest |-> p.latest, bytes |-> 0], p)
      c2 == CongestionEvent(r.c, p.latest, r.run.bytes)
      window == p.latest - r.run.oldest
      c3 == IF found = {} THEN c1
            ELSE IF r.run.bytes = 0 THEN r.c
            ELSE IF window > 0 /\ window >= p.period THEN PersistentCongestion(c2)
            ELSE c2
  IN  RemoveOldestLost(c3, Most(c3.nlost - thres, 0))

-----------------------------------------------------------------------------
(* ngtcp2_rtb_recv_ack *)

RECURSIVE AckEach(_, _, _, _)
AckEach(c, ents, q, a) ==
  IF q = <<>> THEN [c |-> c, a |-> a]
  ELSE LET k == Head(q)
           e == ents[k]
           mine == k >= c.ccpn
           c1 == [OnPktAcked(Require([c EXCEPT !.ents = ents],
                                     a.pktdelivered <= e.del), k)
                    EXCEPT !.ents = c.ents]
           a1 == [a EXCEPT !.bytes = @ + e.len, !.pktdelivered = e.del,
                           !.n = @ + 1]
       IN  AckEach(IF mine THEN c1 ELSE c, ents, Tail(q), IF mine THEN a1 ELSE a)

RECURSIVE RemoveEach(_, _)
RemoveEach(c, q) ==
  IF q = <<>> THEN c
  ELSE RemoveEach([OnRemove(c, Head(q)) EXCEPT !.ents = Without(@, Head(q))],
                  Tail(q))

Spurious(c, lostbefore) == lostbefore > 0 /\ c.nlost = c.nign

RecvAck(c, S) ==
  LET top == Max(S)
      largest == Most(c.largest, top)
      sent == IF largest = top THEN c.ents[top].ts ELSE Inf
      rtt == IF sent = Inf THEN Inf ELSE Most(c.now - sent, 1)
      c1 == RemoveEach([c EXCEPT !.largest = largest, !.rs.sampled = FALSE],
                       Descending(S))
      c2 == IF rtt = Inf THEN c1 ELSE UpdateRtt(c1, rtt)
      r == AckEach(c2, c.ents, Ascending(S),
                   [bytes |-> 0, pktdelivered |-> 0, n |-> 0, sent |-> sent,
                    rtt |-> rtt])
      c3 == IF c.algo = "cubic" /\ Spurious(r.c, c.nlost - c.nign)
            THEN OnSpuriousCongestion(r.c) ELSE r.c
      c4 == IF r.a.n > 0 THEN DetectLostPkt(RstOnAckRecv(c3)) ELSE c3
  IN  IF c.algo = "cubic" THEN CubicOnAckRecv(c4, r.a) ELSE c4

-----------------------------------------------------------------------------
(* The steps. *)

\* ngtcp2_conn_write_vmsg produced a packet (conn_write_vmsg_wrapper); the
\* application writes a burst before anything else happens.
RECURSIVE SendBurst(_, _)
SendBurst(c, n) ==
  IF n = 0 \/ c.bif >= c.cwnd THEN c
  ELSE LET d == AddEnt(c, "data") IN
       SendBurst([d EXCEPT !.cwndlim = @ \/ d.bif >= d.cwnd], n - 1)

CongSend ==
  \E n \in Bursts :
    /\ cc.next + n <= MaxPkts
    /\ cc.bif < cc.cwnd
    /\ cc' = SendBurst(cc, n)

\* The application had nothing to send.
CongIdle ==
  /\ cc.extra < Extra
  /\ cc.bif < cc.cwnd
  /\ cc.cwnd >= cc.ssthresh \/ cc.bif * 2 < cc.cwnd
  /\ cc' = [cc EXCEPT !.applim = Most(cc.delivered + cc.bif, 1), !.extra = @ + 1]

\* A PMTUD probe, or a packet number left out to catch optimistic ACKs.
CongExtra ==
  /\ cc.extra < Extra
  /\ cc.next < MaxPkts
  /\ \E kind \in {"probe", "skip"} :
       cc' = [AddEnt(cc, kind) EXCEPT !.extra = @ + 1]

\* conn_reset_congestion_state: the connection moves to another path.
CongMigrate ==
  /\ cc.extra < Extra
  /\ cc.next > 0
  /\ cc' = [RstReset(CcReset(ResetConnStatCc(cc)))
              EXCEPT !.ccpn = cc.next, !.cbif = 0, !.extra = @ + 1, !.before = 0]

\* Time passes until the next event; every event has an instant of its own.
Later(d) == [cc EXCEPT !.now = @ + d]

EndEpisode(c) == [c EXCEPT !.before = IF c.nlost = c.nign THEN 0 ELSE @]

\* The peer acknowledges packets it may have received.
CongAck ==
  \E d \in Steps, S \in SUBSET {k \in DOMAIN cc.ents : cc.ents[k].kind # "skip"} :
    /\ cc.now + d <= MaxTs
    /\ Cardinality(S) \in AckSizes
    /\ cc' = EndEpisode(RecvAck(Later(d), S))

\* ngtcp2_conn_handle_expiry: stale lost packets go, then the loss timer fires.
ExpiredLost(c) ==
  Cardinality({k \in DOMAIN c.ents :
    \A j \in DOMAIN c.ents :
      j <= k => c.ents[j].lost /\ c.now - c.ents[j].lts >= 3 * Pto(c)})

CongExpiry ==
  \E d \in Steps :
    LET c0 == Later(d)
        n == ExpiredLost(c0)
        c == RemoveOldestLost(c0, n)
    IN  /\ c0.now <= MaxTs
        /\ n > 0 \/ c0.losstime <= c0.now
        /\ cc' = EndEpisode(IF c.losstime <= c.now THEN DetectLostPkt(c) ELSE c)

CongNext ==
  \/ CongSend
  \/ CongIdle
  \/ CongExtra
  \/ CongMigrate
  \/ CongAck
  \/ CongExpiry

-----------------------------------------------------------------------------
(* Properties. *)

\* The window never falls below two packets, the bytes in flight are those of
\* the packets of the current path that are neither acknowledged nor lost, and
\* no assert() of rtb_on_remove, ngtcp2_rtb_recv_ack,
\* ngtcp2_rtb_remove_excessive_lost_pkt or the CUBIC handlers fails, whatever
\* the order of losses, late acknowledgements, timers and path changes.
WindowSound ==
  /\ cc.ok
  /\ cc.cwnd >= 2 * Mss
  /\ cc.bif = Mss * Cardinality({k \in DOMAIN cc.ents :
                 /\ k >= cc.ccpn
                 /\ ~cc.ents[k].lost
                 /\ cc.ents[k].kind # "skip"})

\* When every packet CUBIC took for lost turns out to have been delivered
\* (ngtcp2_cc_cubic_cc_on_spurious_congestion), the window is at least as large
\* as before any of the reductions those packets caused, however many there
\* were and whatever was acknowledged in between.
SpuriousRestores == ~cc.short

\* The cube root CUBIC's time K comes from is the exact integer one
\* (ngtcp2_cbrt finds it one bit at a time).
CbrtExact(n) ==
  LET r == Cbrt(n) IN r * r * r <= n /\ n < (r + 1) * (r + 1) * (r + 1)

=============================================================================
