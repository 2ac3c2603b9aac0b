-------------------------------- MODULE Bbr --------------------------------
(***************************************************************************)
(* The control of BBR (ngtcp2_bbr.c): which phase it is in, how rounds,    *)
(* losses and the ProbeRTT timer move it, and what a loss that turns out   *)
(* to be spurious undoes.  Bandwidths, round-trip times and windows are    *)
(* abstracted to the answers of the comparisons the control makes with     *)
(* them, which every acknowledgement chooses freely; a bound is modelled   *)
(* by whether it is set.                                                   *)
(*                                                                         *)
(* Rounds are modelled as the code counts them: a packet remembers the     *)
(* bytes delivered when it was sent, and a round ends when a packet sent   *)
(* after its start is acknowledged.  Counters are kept relative to the     *)
(* bytes delivered so far, one unit per packet.                            *)
(***************************************************************************)
EXTENDS Integers, Sequences, FiniteSets, SequencesExt

CONSTANTS
  MaxInFlight,    \* bound: packets sent and neither acknowledged nor dropped
  MaxDrainRounds, \* NGTCP2_BBR_MAX_DRAIN_ROUNDS
  FullBwCount     \* rounds without growth that end Startup (3 in the code)

VARIABLE bbr

Unset == 9          \* UINT64_MAX of loss_round_delivered
Oldest == -(MaxInFlight + 2)

\* One unit was delivered: everything counted before moves one back.
Age(x) == IF x = Unset THEN x ELSE IF x > Oldest THEN x - 1 ELSE x

ResetFullBw(b) == [b EXCEPT !.fcnt = 0, !.fnow = FALSE]

ResetCongestionSignals(b) == [b EXCEPT !.lossin = FALSE]

ResetShortTerm(b) == [b EXCEPT !.short = FALSE]

StartRound(b) == [b EXCEPT !.next = 0]

EnterStartup(b) == [b EXCEPT !.st = "startup"]

BbrStart ==
  [st |-> "startup", full |-> FALSE, fcnt |-> 0, fnow |-> FALSE,
   next |-> Oldest, round |-> FALSE, samples |-> FALSE,
   lossin |-> FALSE, lrd |-> Unset, lround |-> FALSE,
   short |-> FALSE, undo |-> [st |-> "startup", short |-> FALSE],
   rec |-> FALSE, stamp |-> FALSE, rdone |-> FALSE,
   idle |-> FALSE, drounds |-> 0,
   pkts |-> <<>>, skipped |-> FALSE]

BbrInit == bbr = BbrStart

-----------------------------------------------------------------------------
(* The phases. *)

StartDown(b) ==
  [StartRound(ResetCongestionSignals(b)) EXCEPT !.st = "down"]

StartCruise(b) == [b EXCEPT !.st = "cruise"]

StartRefill(b) ==
  [StartRound(ResetShortTerm(b)) EXCEPT !.st = "refill"]

StartUp(b) ==
  [ResetFullBw(StartRound(b)) EXCEPT !.st = "up"]

EnterDrain(b) == [b EXCEPT !.st = "drain", !.drounds = 0]

EnterProbeRtt(b) == [b EXCEPT !.st = "rtt"]

ExitProbeRtt(b) ==
  LET c == ResetShortTerm(b) IN
  IF b.full THEN StartCruise(StartDown(c)) ELSE EnterStartup(c)

-----------------------------------------------------------------------------
(* bbr_update_model_and_state, in its order; o holds the answers of the    *)
(* comparisons, p the acknowledged packet, lost whether packets were lost. *)

UpdateLatestDeliverySignals(b, p) ==
  IF b.lrd # Unset /\ p.del >= b.lrd THEN [b EXCEPT !.lrd = 0, !.lround = TRUE]
  ELSE [b EXCEPT !.lround = FALSE]

\* A mutant: a packet sent before the round began ends it.
UpdateRoundAny(b, p) ==
  [StartRound(b) EXCEPT !.round = TRUE,
     !.drounds = IF b.st = "drain" /\ @ <= MaxDrainRounds THEN @ + 1 ELSE @]

UpdateRound(b, p) ==
  IF p.del >= b.next
  THEN [StartRound(b) EXCEPT !.round = TRUE,
          !.drounds = IF b.st = "drain" /\ @ <= MaxDrainRounds THEN @ + 1 ELSE @]
  ELSE [b EXCEPT !.round = FALSE]

IsProbingBw(b) == b.st \in {"startup", "refill", "up"}

UpdateCongestionSignals(b, p) ==
  LET c == UpdateRound(b, p) IN
  IF ~c.lround THEN c
  ELSE [c EXCEPT !.lossin = FALSE,
                 !.short = @ \/ (~IsProbingBw(c) /\ c.lossin)]

CheckFullBwReached(b, o) ==
  IF b.fnow \/ ~b.round \/ o.bw = "app-limited" THEN b
  ELSE IF o.bw = "grew" THEN ResetFullBw(b)
  ELSE LET n == b.fcnt + 1 IN
       [b EXCEPT !.fcnt = n, !.fnow = n >= FullBwCount,
                 !.full = @ \/ n >= FullBwCount]

\* It looks at rs.lost and rs.tx_in_flight, which no code sets: it never finds
\* the loss too high.
CheckStartupHighLoss(b) == b

CheckStartupDone(b) ==
  LET c == CheckStartupHighLoss(b) IN
  IF c.st = "startup" /\ c.full THEN EnterDrain(c) ELSE c

CheckDrainDone(b, o) ==
  IF b.st = "drain" /\ (o.drained \/ b.drounds > MaxDrainRounds)
  THEN StartDown(b) ELSE b

UpdateProbeBwCyclePhase(b, o) ==
  IF ~b.full THEN b
  ELSE CASE b.st \in {"down", "cruise"} /\ o.cycle = "refill" -> StartRefill(b)
         [] b.st = "down" /\ o.cycle = "cruise" -> StartCruise(b)
         [] b.st = "refill" /\ b.round -> StartUp([b EXCEPT !.samples = TRUE])
         [] b.st = "up" /\ o.limited -> ResetFullBw(b)
         [] b.st = "up" /\ ~o.limited /\ b.fnow -> StartDown(b)
         [] OTHER -> b

CheckProbeRttDone(b, due) ==
  IF b.stamp /\ due THEN ExitProbeRtt(b) ELSE b

HandleProbeRtt(b, o) ==
  IF ~b.stamp /\ o.low
  THEN StartRound([b EXCEPT !.stamp = TRUE, !.rdone = FALSE])
  ELSE LET c == [b EXCEPT !.rdone = @ \/ (b.stamp /\ b.round)] IN
       IF c.stamp /\ c.rdone THEN CheckProbeRttDone(c, o.due) ELSE c

CheckProbeRtt(b, o) ==
  LET c == IF b.st # "rtt" /\ o.expired /\ ~b.idle
           THEN StartRound([EnterProbeRtt(b) EXCEPT !.stamp = FALSE])
           ELSE b
      d == IF c.st = "rtt" THEN HandleProbeRtt(c, o) ELSE c
  IN  [d EXCEPT !.idle = FALSE]

\* What is not read again before it is set is forgotten.
Settle(b) ==
  [b EXCEPT !.round = FALSE, !.lround = FALSE,
            !.drounds = IF b.st = "drain" THEN @ ELSE 0,
            !.stamp = @ /\ b.st = "rtt", !.rdone = @ /\ b.st = "rtt"]

UpdateModelAndState(b, p, o) ==
  LET b1 == UpdateCongestionSignals(UpdateLatestDeliverySignals(b, p), p)
      b2 == CheckStartupDone(CheckFullBwReached(b1, o))
      b3 == CheckDrainDone(b2, o)
      b4 == UpdateProbeBwCyclePhase(b3, o)
      early == b3.st = "refill" /\ b4.st = "up" /\ ~p.refill
  IN  Settle(CheckProbeRtt([b4 EXCEPT !.skipped = @ \/ early], o))

-----------------------------------------------------------------------------
(* Losses. *)

SaveStateUponLoss(b) ==
  [b EXCEPT !.undo = [st |-> b.st, short |-> b.short]]

NoteLoss(b) ==
  [(IF b.lossin THEN b ELSE SaveStateUponLoss([b EXCEPT !.lrd = 0]))
     EXCEPT !.lossin = TRUE]

HandleInflightTooHigh(b) ==
  LET c == [b EXCEPT !.samples = FALSE] IN
  IF b.st = "up" THEN StartDown(c) ELSE c

HandleLostPacket(b, o) ==
  LET c == NoteLoss(b) IN
  IF c.samples /\ o.high THEN HandleInflightTooHigh(c) ELSE c

RECURSIVE LosePackets(_, _, _)
LosePackets(b, n, o) ==
  IF n = 0 THEN b ELSE LosePackets(HandleLostPacket(b, o), n - 1, o)

\* bbr_cc_congestion_event; a packet is old if it was sent before recovery.
BbrCongestionEvent(b, old) ==
  IF b.rec \/ old THEN b
  ELSE [b EXCEPT !.rec = TRUE,
                 !.pkts = [i \in DOMAIN @ |-> [@[i] EXCEPT !.old = TRUE]]]

ForgetRecovery(b) ==
  [b EXCEPT !.rec = FALSE,
            !.pkts = [i \in DOMAIN @ |-> [@[i] EXCEPT !.old = FALSE]]]

HandleSpuriousLossDetection(b) ==
  LET c == [ResetFullBw(b) EXCEPT !.lossin = FALSE,
                                   !.short = @ /\ b.undo.short] IN
  IF b.st # "rtt" /\ b.st # b.undo.st
  THEN CASE b.undo.st = "startup" -> EnterStartup(c)
         [] b.undo.st = "up" -> StartUp(c)
         [] OTHER -> c
  ELSE c

BbrOnSpuriousCongestion(b) == HandleSpuriousLossDetection(ForgetRecovery(b))

\* Packets sent before an acknowledged one, and not yet declared lost.
Overtaken(b) == {i \in DOMAIN b.pkts : b.pkts[i].passed /\ ~b.pkts[i].lost}

DetectLost(b, o) ==
  LET S == Overtaken(b)
      last == CHOOSE i \in S : \A j \in S : j <= i
      c == [b EXCEPT !.pkts = [i \in DOMAIN @ |->
                                 [@[i] EXCEPT !.lost = @ \/ i \in S]]]
      d == BbrCongestionEvent(LosePackets(c, Cardinality(S), o),
                              b.pkts[last].old)
  IN  IF S = {} THEN b ELSE IF o.loss = "persistent" THEN ForgetRecovery(d) ELSE d

HandleRecovery(b, p) ==
  IF b.rec /\ ~p.passed /\ ~p.old THEN [b EXCEPT !.rec = FALSE] ELSE b

-----------------------------------------------------------------------------
(* The steps. *)

\* The answers that can matter when packet i is acknowledged; the others are
\* fixed.
When(c) == IF c THEN BOOLEAN ELSE {FALSE}

\* Whether the bandwidth grew by a quarter in the round that ends.
MaxBwAnswers(b, i) ==
  IF b.pkts[i].del >= b.next THEN {"app-limited", "grew", "flat"} ELSE {"flat"}

\* Whether the bytes in flight are down to the bandwidth-delay product.
InflightAnswers(b) == When("startup" \in {b.st, b.undo.st} \/ b.st = "drain")

\* Whether the bytes in flight leave headroom, and whether the clock or the
\* rounds since the last probe say it is time for another.
TimeToCruiseAnswers == {"stay", "cruise"}

TimeToProbeBwAnswers == {"stay", "refill"}

CycleAnswers(b) ==
  IF b.full \/ b.fcnt + 1 = FullBwCount
  THEN TimeToCruiseAnswers \cup TimeToProbeBwAnswers ELSE {"stay"}

\* Whether the long-term bound limits the window in ProbeBW_UP.
TimeToGoDownAnswers(b) == When(b.st = "up")

\* Whether the ProbeRTT interval is over.
MinRttAnswers(b) == When(b.st # "rtt" /\ ~b.idle)

\* Whether the bytes in flight at a loss show a loss rate that is too high.
InflightTooHighAnswers(b) == When(b.samples)

LossAnswers(b, i) ==
  IF i > 1 \/ Overtaken(b) # {} THEN {"none", "lost", "persistent"} ELSE {"none"}

Observations(b, i) ==
  [bw : MaxBwAnswers(b, i), drained : InflightAnswers(b),
   cycle : CycleAnswers(b), limited : TimeToGoDownAnswers(b),
   expired : MinRttAnswers(b), low : When(~b.stamp), due : When(b.stamp),
   high : InflightTooHighAnswers(b), loss : LossAnswers(b, i)]

HasLost(b) == \E i \in DOMAIN b.pkts : b.pkts[i].lost

\* Packet i is acknowledged: ngtcp2_rtb_recv_ack and bbr_cc_on_ack_recv.
BbrAck ==
  \E i \in DOMAIN bbr.pkts : \E o \in Observations(bbr, i) :
    LET p == [bbr.pkts[i] EXCEPT !.del = Age(@)]
        aged == [j \in DOMAIN bbr.pkts |->
                   [bbr.pkts[j] EXCEPT !.del = Age(@), !.passed = @ \/ j < i]]
        b1 == [bbr EXCEPT !.next = Age(@), !.lrd = Age(@),
                          !.pkts = RemoveAt(aged, i)]
        b2 == IF HasLost(bbr) /\ ~HasLost(b1) THEN BbrOnSpuriousCongestion(b1)
              ELSE b1
        b3 == IF o.loss = "none" THEN b2 ELSE DetectLost(b2, o)
    IN  bbr' = UpdateModelAndState(HandleRecovery(b3, p), p, o)

\* The loss-detection timer fires.
BbrLossTimer ==
  /\ Overtaken(bbr) # {}
  /\ \E o \in [high : InflightTooHighAnswers(bbr), loss : {"lost", "persistent"}] :
       bbr' = DetectLost(bbr, o)

\* A stale lost packet is dropped from the retransmission buffer.
BbrDrop ==
  /\ bbr.pkts # <<>>
  /\ Head(bbr.pkts).lost
  /\ bbr' = [bbr EXCEPT !.pkts = Tail(@)]

HandleRestartFromIdle(b, due) ==
  LET c == [b EXCEPT !.idle = TRUE] IN
  IF c.st = "rtt" THEN CheckProbeRttDone(c, due) ELSE c

\* bbr_cc_on_pkt_sent, before the packet counts as in flight.
BbrSend ==
  /\ Len(bbr.pkts) < MaxInFlight
  /\ \E idle \in When(\A i \in DOMAIN bbr.pkts : bbr.pkts[i].lost), due \in BOOLEAN :
       LET b2 == IF idle THEN HandleRestartFromIdle(bbr, due) ELSE bbr IN
       bbr' = [b2 EXCEPT !.pkts = Append(@,
                [del |-> 0, refill |-> b2.st = "refill", old |-> FALSE,
                 lost |-> FALSE, passed |-> FALSE])]

\* bbr_cc_reset on a new path: earlier packets no longer count.
BbrReset == bbr' = BbrStart

BbrNext ==
  \/ BbrSend
  \/ BbrAck
  \/ BbrLossTimer
  \/ BbrDrop
  \/ BbrReset

-----------------------------------------------------------------------------
(* Properties. *)

\* ProbeBW_UP follows a whole round of ProbeBW_REFILL (the acknowledgement that
\* starts it is of a packet sent in REFILL), Drain lasts at most
\* NGTCP2_BBR_MAX_DRAIN_ROUNDS rounds, and the short-term bound that a loss
\* sets never holds BBR back while it is probing for bandwidth, not even when
\* a spurious loss puts it back into Startup or ProbeBW_UP.
BbrPhases ==
  /\ ~bbr.skipped
  /\ bbr.st = "drain" => bbr.drounds <= MaxDrainRounds
  /\ IsProbingBw(bbr) => ~bbr.short

=============================================================================
