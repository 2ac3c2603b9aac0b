---------------------------- MODULE MCStreamSend ----------------------------
(***************************************************************************)
(* An instance of StreamSend for TLC.  What the bounds leave room for is   *)
(* one stream with three packets or two streams with two packets: the run  *)
(* starts in one of two states of a connection, one of its streams is      *)
(* already over, or two packets were acknowledged before.  The             *)
(* peer's first limits differ too, so that either a stream's limit or the  *)
(* connection's is met first.                                              *)
(***************************************************************************)
EXTENDS StreamSend, TLC

\* An open stream, and one that was closed after an empty FIN
NewStrm(limit) ==
    [open |-> TRUE, flags |-> {}, offset |-> 0, max_offset |-> limit, acked |-> {},
     streamfrq |-> {}, queued |-> FALSE, rd_done |-> FALSE]

OverStrm(limit) ==
    [NewStrm(limit) EXCEPT !.open = FALSE, !.rd_done = TRUE,
                           !.flags = {"SHUT_WR", "FIN_ACKED", "ANY_ACKED", "ANY_SENT"}]

StartWith(over, data, limit, sent) ==
    /\ strm = [s \in Streams |-> IF s \in over THEN OverStrm(limit) ELSE NewStrm(limit)]
    /\ tx = [offset |-> 0, max_offset |-> data]
    /\ frq = {}
    /\ rtb = [p \in PktNums |-> NoEntry]
    /\ pkt = [last |-> sent - 1, largest_acked |-> sent - 1, loss_time |-> FALSE]
    /\ num = [retransmittable |-> 0, pto_eliciting |-> 0, lost |-> 0]
    /\ probe = 0

MCInit ==
    \/ \E s \in Streams : StartWith({s}, InitialMaxData, InitialMaxStreamData, 1)
    \/ StartWith({}, InitialMaxStreamData, InitialMaxData, 2)

MCSpec == MCInit /\ [][Next]_vars

Symmetry == Permutations(Streams)
=============================================================================
