-------------------------------- MODULE Ecn --------------------------------
(***************************************************************************)
(* ECN validation: the state one endpoint keeps over its packet number     *)
(* spaces (conn_handle_tx_ecn, conn_verify_ecn, the ECN part of            *)
(* rtb_detect_lost_pkt, conn_reset_ecn_validation_state), against a peer   *)
(* that counts the marks it receives and reports them in ACK frames.  A    *)
(* packet or a frame that is never delivered is lost; frames are reordered.*)
(* The path keeps the marks, turns them into CE or, if it is a bleaching   *)
(* path, clears them.                                                      *)
(***************************************************************************)
EXTENDS Integers, Sequences, FiniteSets, FiniteSetsExt

CONSTANTS
  Spaces,       \* packet number spaces still in use
  MaxTest,      \* NGTCP2_ECN_MAX_NUM_VALIDATION_PKTS
  MaxSent,      \* bound: packets sent in a space
  MaxFrames,    \* bound: ACK frames of the peer
  MaxMoves      \* bound: path changes

VARIABLE ecn

Never == 99     \* INT64_MAX of start_pkt_num

NewSpace ==
  [start |-> Never, sent |-> 0, lost |-> 0, ect0 |-> 0,
   next |-> 1, largest |-> 0, ents |-> {}, gone |-> {}, marked |-> {},
   counted |-> 0, inflight |-> {}, kept |-> {}, got |-> {}, count |-> 0,
   frames |-> {}]

\* conn_reset_ecn_validation_state.
ResetEcn(e) ==
  [e EXCEPT !.st = "testing", !.vstart = FALSE, !.dgrams = 0, !.path = {},
            !.sp = [s \in Spaces |-> [e.sp[s] EXCEPT !.start = Never,
                                                     !.sent = 0, !.lost = 0]]]

EcnInit ==
  \E b \in BOOLEAN :
    ecn = ResetEcn([st |-> "testing", vstart |-> FALSE, dgrams |-> 0,
                    sp |-> [s \in Spaces |-> NewSpace], path |-> {},
                    bleach |-> b, moves |-> 0, nacks |-> 0,
                    ok |-> TRUE, wronged |-> FALSE])

-----------------------------------------------------------------------------

\* One packet of space s leaves; coalesced: an earlier packet of the datagram
\* is marked; late: three PTOs have passed since validation began.
HandleTxEcn(e, s, coalesced, late) ==
  LET x == e.sp[s]
      testing == [x EXCEPT !.start = IF @ = Never THEN x.next ELSE @,
                           !.sent = @ + 1]
      Marked(y) == [y EXCEPT !.ect0 = @ + 1, !.marked = @ \cup {x.next}]
      over == e.dgrams + 1 = MaxTest
  IN  IF coalesced THEN [e EXCEPT !.sp[s] = Marked(testing)]
      ELSE CASE e.st = "testing" /\ e.vstart /\ late -> [e EXCEPT !.st = "unknown"]
             [] e.st = "testing" /\ ~(e.vstart /\ late) ->
                  [e EXCEPT !.ok = @ /\ (e.vstart \/ (x.sent = 0 /\ x.lost = 0)),
                            !.vstart = TRUE, !.dgrams = @ + 1,
                            !.st = IF over THEN "unknown" ELSE @,
                            !.sp[s] = Marked(testing)]
             [] e.st = "capable" -> [e EXCEPT !.sp[s] = Marked(x)]
             [] OTHER -> e

\* The packet is recorded, unless it is not ack-eliciting, and handed to the
\* network; kept: those whose mark reaches the peer.
OnSent(e, s, eliciting) ==
  LET n == e.sp[s].next
      m == n \in e.sp[s].marked
  IN  [e EXCEPT !.sp[s] =
         [@ EXCEPT !.next = n + 1, !.inflight = @ \cup {n},
                   !.ents = IF eliciting THEN @ \cup {n} ELSE @,
                   !.kept = IF m /\ ~e.bleach THEN @ \cup {n} ELSE @],
         !.path = IF m /\ eliciting THEN @ \cup {<<s, n>>} ELSE @]

\* A datagram with an ack-eliciting packet of each space in S, in order.
EcnSend ==
  \E s \in Spaces, late \in BOOLEAN, both \in BOOLEAN :
    LET e1 == OnSent(HandleTxEcn(ecn, s, FALSE, late), s, TRUE)
        wasMarked == ecn.sp[s].next \in e1.sp[s].marked
        others == Spaces \ {s}
        t == CHOOSE t \in others : TRUE
    IN  /\ ecn.sp[s].next <= MaxSent
        /\ late => ecn.vstart /\ ecn.st = "testing"
        /\ both => others # {} /\ ecn.sp[t].next <= MaxSent
        /\ ecn' = IF both THEN OnSent(HandleTxEcn(e1, t, wasMarked, late), t, TRUE)
                  ELSE e1

\* A packet that asks for no acknowledgement is marked only on a capable path.
EcnSendQuiet ==
  \E s \in Spaces :
    /\ ecn.st = "capable"
    /\ ecn.sp[s].next <= MaxSent
    /\ ecn' = OnSent(HandleTxEcn(ecn, s, FALSE, FALSE), s, FALSE)

\* The peer receives a packet and counts its mark (ECT(0) and CE together),
\* then acknowledges everything it has.
EcnDeliver ==
  \E s \in Spaces : \E n \in ecn.sp[s].inflight :
    LET x == ecn.sp[s]
        c == IF n \in x.kept THEN x.count + 1 ELSE x.count
        got == x.got \cup {n}
    IN  /\ ecn.nacks < MaxFrames
        /\ ecn' = [ecn EXCEPT !.nacks = @ + 1, !.sp[s] =
                     [x EXCEPT !.inflight = @ \ {n}, !.got = got, !.count = c,
                               !.frames = @ \cup {[acks |-> got, count |-> c]}]]

\* A mutant: the report is looked at even when it is not the newest.
VerifyEcnAlways(e, s, fr, acked, grew) ==
  LET x == e.sp[s]
      bad == \/ acked > 0 /\ fr.count = 0
             \/ fr.count > 0 /\ (x.counted > fr.count \/ fr.count - x.counted < acked)
  IN  IF e.st = "failed" THEN e
      ELSE IF bad THEN [e EXCEPT !.st = "failed", !.wronged = @ \/ ~e.bleach]
      ELSE [e EXCEPT !.st = IF acked > 0 THEN "capable" ELSE @,
                     !.sp[s].counted = IF fr.count > 0 THEN fr.count ELSE @]

\* conn_verify_ecn: a frame without counts is an ACK, one with an ACK_ECN.
VerifyEcn(e, s, fr, acked, grew) ==
  LET x == e.sp[s]
      bad == \/ acked > 0 /\ fr.count = 0
             \/ fr.count > 0 /\ (x.counted > fr.count \/ fr.count - x.counted < acked
                                 \/ fr.count > x.ect0)
  IN  IF ~grew \/ e.st = "failed" THEN e
      ELSE IF bad THEN [e EXCEPT !.st = "failed", !.wronged = @ \/ ~e.bleach]
      ELSE [e EXCEPT !.st = IF acked > 0 THEN "capable" ELSE @,
                     !.sp[s].counted = IF fr.count > 0 THEN fr.count ELSE @]

\* What the counters stand for: every marked packet of this path is lost.
AllLost(e) == \A p \in e.path : p[2] \in e.sp[p[1]].gone

AllEcnPktLost(e) == \A s \in Spaces : e.sp[s].sent = e.sp[s].lost

\* The ECN part of rtb_detect_lost_pkt: packets L of space s are lost.
LosePkts(e, s, L, late) ==
  LET x == e.sp[s]
      n == Cardinality({k \in L \cap x.marked : k >= x.start})
      st == IF e.st = "testing" /\ late THEN "unknown" ELSE e.st
      e0 == [e EXCEPT !.sp[s].gone = @ \cup L]
      e1 == [e0 EXCEPT !.st = st, !.sp[s].lost = @ + n,
                       !.ok = @ /\ x.sent >= x.lost + n]
  IN  IF \/ L = {}
         \/ e.st \notin {"testing", "unknown"}
         \/ e.st = "testing" /\ ~e.vstart
      THEN e0
      ELSE IF st = "unknown" /\ AllEcnPktLost(e1)
      THEN [e1 EXCEPT !.st = "failed", !.wronged = @ \/ ~AllLost(e1)]
      ELSE e1

Overdue(e, s) ==
  {k \in e.sp[s].ents \ e.sp[s].gone : k < e.sp[s].largest}

\* An ACK frame arrives, in any order; packets it overtook may be declared lost.
EcnAck ==
  \E s \in Spaces : \E fr \in ecn.sp[s].frames :
    LET x == ecn.sp[s]
        new == fr.acks \cap x.ents
        acked == Cardinality({k \in new \cap x.marked : k >= x.start})
        largest == Max(fr.acks)
        e1 == [ecn EXCEPT !.sp[s].frames = @ \ {fr}, !.sp[s].ents = @ \ new,
                          !.sp[s].largest = Max({@, largest})]
    IN  \E L \in {{}, Overdue(e1, s)}, late \in BOOLEAN :
          LET e2 == IF new = {} THEN e1 ELSE LosePkts(e1, s, L, late) IN
          ecn' = VerifyEcn(e2, s, fr, acked, largest > x.largest)

\* The loss timer fires.
EcnTimer ==
  \E s \in Spaces, late \in BOOLEAN :
    /\ Overdue(ecn, s) # {}
    /\ ecn' = LosePkts(ecn, s, Overdue(ecn, s), late)

\* The connection moves to another path.
EcnMove ==
  /\ ecn.moves < MaxMoves
  /\ \E b \in BOOLEAN :
       ecn' = ResetEcn([ecn EXCEPT !.moves = @ + 1, !.bleach = b])

EcnNext ==
  \/ EcnSend
  \/ EcnSendQuiet
  \/ EcnDeliver
  \/ EcnAck
  \/ EcnTimer
  \/ EcnMove

-----------------------------------------------------------------------------

\* ECN is given up on a path that keeps the marks only when every marked packet
\* sent on it was declared lost, whatever marks of an earlier path, reordered
\* ACK frames and late acknowledgements arrive; and the assertions of
\* conn_handle_tx_ecn and rtb_detect_lost_pkt about the counters hold.
EcnSound == ecn.ok /\ ~ecn.wronged

=============================================================================
