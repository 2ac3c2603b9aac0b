---------------------------- MODULE MCCongestion ----------------------------
(***************************************************************************)
(* The machines around congestion control, each explored on its own: the   *)
(* mode says which one moves.                                              *)
(***************************************************************************)
EXTENDS Congestion, Bbr, Pmtud, Meters, Ecn

VARIABLE mode

vars == <<cc, bbr, pm, lim, flt, ecn, mode>>

MCProbeLists == {<<3, 2, 4>>, <<4, 2, 3>>, <<2, 3, 4>>}

Modes == {"cong", "bbr", "pmtud", "ratelim", "filter", "ecn"}

Init ==
  /\ mode \in Modes
  /\ IF mode = "cong" THEN CongInit ELSE cc = 0
  /\ IF mode = "bbr" THEN BbrInit ELSE bbr = 0
  /\ IF mode = "pmtud" THEN PmtudInit ELSE pm = 0
  /\ IF mode = "ratelim" THEN RatelimInit ELSE lim = 0
  /\ IF mode = "filter" THEN FilterInit ELSE flt = 0
  /\ IF mode = "ecn" THEN EcnInit ELSE ecn = 0

CongStep == mode = "cong" /\ CongNext /\ UNCHANGED <<bbr, pm, lim, flt, ecn, mode>>
BbrStep == mode = "bbr" /\ BbrNext /\ UNCHANGED <<cc, pm, lim, flt, ecn, mode>>
PmtudStep == mode = "pmtud" /\ PmtudNext /\ UNCHANGED <<cc, bbr, lim, flt, ecn, mode>>
RatelimStep == mode = "ratelim" /\ RatelimDrain /\ UNCHANGED <<cc, bbr, pm, flt, ecn, mode>>
FilterStep == mode = "filter" /\ FilterSample /\ UNCHANGED <<cc, bbr, pm, lim, ecn, mode>>
EcnStep == mode = "ecn" /\ EcnNext /\ UNCHANGED <<cc, bbr, pm, lim, flt, mode>>

Next ==
  \/ CongStep
  \/ BbrStep
  \/ PmtudStep
  \/ RatelimStep
  \/ FilterStep
  \/ EcnStep

-----------------------------------------------------------------------------

\* While rtb.c drives Reno and CUBIC through sends, losses, late acknowledgements,
\* timers and path changes, the window and the bytes in flight stay sound
\* (WindowSound) and a spurious congestion event gives CUBIC back what it took
\* (SpuriousRestores); BBR's phases follow one another as they must (BbrPhases).
CongestionSound ==
  /\ mode = "cong" => WindowSound /\ SpuriousRestores
  /\ mode = "bbr" => BbrPhases

\* Path MTU discovery ends with the largest size that works and uses none that
\* does not (PmtudSound); ECN validation fails only on a path that clears the
\* marks or loses every marked packet (EcnSound); the token bucket, the windowed
\* maximum and the cube root are exact (RatelimExact, FilterBest, CbrtExact).
PathMetersSound ==
  /\ mode = "pmtud" => PmtudSound
  /\ mode = "ecn" => EcnSound
  /\ mode = "ratelim" => RatelimExact
  /\ mode = "filter" => FilterBest
  /\ mode = "cong" => CbrtExact(cc.now * cc.cwnd)

=============================================================================
