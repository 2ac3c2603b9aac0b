------------------------------- MODULE Meters ------------------------------
(***************************************************************************)
(* Two small measuring devices, each fed by the calls the connection       *)
(* makes: the token bucket that rations glitches (ngtcp2_ratelim.c) and    *)
(* the windowed maximum that BBR keeps its bandwidth in                    *)
(* (ngtcp2_window_filter.c).  History variables hold what they stand for.  *)
(***************************************************************************)
EXTENDS Integers, Sequences, FiniteSets, FiniteSetsExt

CONSTANTS
  Second,      \* NGTCP2_SECONDS
  MaxWord,     \* UINT64_MAX
  RateBursts, Rates, Drains, Gaps,  \* inputs of the bucket
  Window,      \* window_length
  Samples,     \* inputs of the filter
  MaxTime      \* bound: the clock

VARIABLES lim, flt

-----------------------------------------------------------------------------
(* The token bucket. *)

RatelimInit ==
  \E b \in RateBursts, r \in Rates :
    lim = [burst |-> b, rate |-> r, tokens |-> b, carry |-> 0, ts |-> 0,
           level |-> b * Second]

\* A mutant: what is left of a token is dropped at every update.
RatelimUpdateNoCarry(l, ts) ==
  LET d == ts - l.ts
      gain == IF l.rate > MaxWord \div d THEN MaxWord ELSE l.rate * d
      gps == gain \div Second
      room == gps < l.burst /\ l.tokens < l.burst - gps
  IN  [l EXCEPT !.ts = ts, !.tokens = IF room THEN @ + gps ELSE l.burst,
                !.carry = 0]

RatelimUpdate(l, ts) ==
  LET d == ts - l.ts
      gain == IF l.rate > (MaxWord - l.carry) \div d THEN MaxWord
              ELSE (l.rate * d) + l.carry
      gps == gain \div Second
      room == gps < l.burst /\ l.tokens < l.burst - gps
  IN  [l EXCEPT !.ts = ts, !.tokens = IF room THEN @ + gps ELSE l.burst,
                !.carry = IF room THEN gain % Second ELSE 0]

\* ngtcp2_ratelim_drain; level is the fluid bucket the tokens stand for.
RatelimDrain ==
  \E d \in Gaps, n \in Drains :
    LET ts == lim.ts + d
        l == IF d = 0 THEN lim ELSE RatelimUpdate(lim, ts)
        full == Min({lim.burst * Second, lim.level + (lim.rate * d)})
    IN  /\ ts <= MaxTime
        /\ lim' = IF l.tokens < n THEN [l EXCEPT !.level = full]
                  ELSE [l EXCEPT !.tokens = @ - n,
                                 !.level = full - (n * Second)]

-----------------------------------------------------------------------------
(* The windowed maximum: the three best estimates, best first. *)

FilterInit == flt = [est |-> <<>>, seen |-> [a \in 0..Window |-> 0]]

FilterReset(e) == <<e, e, e>>

FilterUpdate(est, e) ==
  LET e1 == IF e.v > est[2].v THEN <<est[1], e, e>>
            ELSE IF e.v > est[3].v THEN <<est[1], est[2], e>> ELSE est
  IN  IF est = <<>> THEN FilterReset(e)
      ELSE IF e.v > est[1].v \/ est[3].age > Window THEN FilterReset(e)
      ELSE IF e1[1].age > Window
           THEN IF e1[2].age > Window THEN <<e1[3], e, e>>
                ELSE <<e1[2], e1[3], e>>
      ELSE IF e1[2].v = e1[1].v /\ e1[2].age > Window \div 4
           THEN <<e1[1], e, e>>
      ELSE IF e1[3].v = e1[2].v /\ e1[3].age > Window \div 2
           THEN <<e1[1], e1[2], e>>
      ELSE e1

\* ngtcp2_window_filter_update, d after the last call; seen is the largest
\* sample of every age in the window.
FilterSample ==
  \E v \in Samples, d \in 0..Window + 1 :
    LET est == [i \in DOMAIN flt.est |-> [flt.est[i] EXCEPT !.age = @ + d]]
        past == [a \in 0..Window |-> IF a < d THEN 0 ELSE flt.seen[a - d]]
    IN  flt' = [est |-> FilterUpdate(est, [v |-> v, age |-> 0]),
                seen |-> [past EXCEPT ![0] = Max({@, v})]]

-----------------------------------------------------------------------------

\* The bucket never gains or loses a fraction of a token: after every call of
\* ngtcp2_ratelim_drain tokens and carry are exactly the fluid bucket that fills
\* at the rate and overflows at the burst, also where the product wraps.
RatelimExact == lim.level = (lim.tokens * Second) + lim.carry

\* The estimate ngtcp2_window_filter_get_best returns is no older than the
\* window and no sample since it was larger, and the estimates that will take
\* its place are the same for what came after it, however samples and pauses
\* alternate.
FilterBest ==
  flt.est # <<>> =>
    /\ \A i \in 1..3 : /\ flt.est[i].age <= Window
                       /\ flt.seen[flt.est[i].age] >= flt.est[i].v
    /\ \A i \in 1..3, a \in 0..Window :
         a < flt.est[i].age => flt.seen[a] <= flt.est[i].v
    /\ \A i \in 1..2 : /\ flt.est[i].v >= flt.est[i + 1].v
                       /\ flt.est[i].age >= flt.est[i + 1].age

=============================================================================
